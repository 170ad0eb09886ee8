---------------------------- MODULE ConsoleProofs -----------------------------
(* What the pages of the console keep, for any pages that watch what they carry
   and any number of changes, requests and failures; and what the runs of the
   agent behind its chat keep, for any number of connections, conversations,
   messages and calls and any budget of turns.                                  *)
EXTENDS Screens, AgentRun, FiniteSetTheorems, SequenceTheorems, TLAPS

-----------------------------------------------------------------------------
(* The pages.                                                                   *)

(* The inputs of the pane the theorem speaks of, and the last of its requests. *)
PaneHeld == Held(subject.page, subject.pane)
Last     == flight[Len(flight)]

Requests ==
    [with : [Relevant -> 0..Left], at : {"asked", "served"}, ver : Nat, old : BOOLEAN]
Commands ==
    [at : {"none", "sent", "committed", "left", "done", "failed"},
     with : [Relevant -> 0..1], ver : Nat]
Chances == [changes : Nat, faults : Nat, others : 0..MaxElsewhere]

(* A handler writes at most twice.                                              *)
Written == IF call.at \in {"none", "sent"} THEN 1
           ELSE IF call.at \in {"committed", "left"} THEN 2 ELSE 3

FlightTyped ==
    /\ flight \in Seq(Requests) /\ Len(flight) <= MaxFlight
    /\ \A k \in 1..Len(flight) : flight[k].ver <= db
PaneTyped ==
    /\ subject \in Subjects
    /\ input \in [Relevant -> 0..1]
    /\ FlightTyped
    /\ shown = [with |-> shown.with, ver |-> shown.ver] /\ shown.ver \in 0..db + 1
    /\ notice \in {"quiet", "loading", "error"}
    /\ call \in Commands /\ call.ver <= db
    /\ chances \in Chances
    /\ db \in Nat \ {0} /\ db + chances.others <= Written + MaxElsewhere
    /\ excuse \subseteq {"overtaken", "swallowed", "closure"}

CallInv ==
    /\ subject.op = NoOp => call.at = "none"
    /\ call.at \in {"sent", "committed"} => \A j \in Op.needs : call.with[j] = 1
    /\ call.at = "committed" /\ ~Pane.timer => call.ver = db

Ahead == subject.op # NoOp /\ Op.early /\ Patches
VersionInv == ~Ahead => shown.ver <= db

Fresh(with) == \A i \in PaneHeld : i \in DOMAIN with /\ with[i] = input[i]
InStep ==
    IF flight = <<>> THEN excuse # {} \/ notice # "quiet" \/ Fresh(shown.with)
    ELSE Last.old \/ "closure" \in excuse \/ Fresh(Last.with)
ChosenInv == PaneHeld # {} /\ Chosen(Pane.needs) => InStep
Kept(with) == \A i \in PaneHeld : i \in DOMAIN with /\ with[i] = 1
OnceInv ==
    PaneHeld # {} /\ Pane.once =>
        /\ \A k \in 1..Len(flight) : Kept(flight[k].with)
        /\ shown = Nothing \/ Kept(shown.with)

Followed ==
    /\ subject.op # NoOp /\ ~Pane.timer
    /\ OpWrites(Op) \cap PaneReads(Pane) # {}
    /\ <<subject.page, subject.op, subject.pane>> \notin LeftBehind
UpTo(v) ==
    IF flight = <<>> THEN excuse # {} \/ notice # "quiet" \/ shown.ver >= v
    ELSE Last.old \/ Last.at = "asked" \/ Last.ver >= v
WrittenInv ==
    Followed /\ call.at \in {"left", "done"} /\ (Chosen(Pane.needs) \/ Pane.deps = {})
      => UpTo(db)
EarlyInv ==
    Followed /\ Ahead /\ Pane.deps = {} /\ call.at \in {"sent", "committed"} =>
        /\ \A k \in 1..Len(flight) : flight[k].old
        /\ flight = <<>> => \/ excuse # {} \/ notice # "quiet"
                            \/ shown.ver >= (IF call.at = "sent" THEN db + 1 ELSE db)

PaneInv ==
    /\ PaneTyped /\ CallInv /\ VersionInv
    /\ ChosenInv /\ OnceInv /\ WrittenInv /\ EarlyInv

-----------------------------------------------------------------------------
(* Where the study of a page is: at a pane of it, with a handler that bears on
   it or none.                                                                  *)
LEMMA WhereItIs ==
    ASSUME subject \in Subjects
    PROVE  /\ subject.page \in DOMAIN Pages /\ subject.pane \in ShownPanes(Page)
           /\ subject.op # NoOp => /\ subject.op \in OfferedOps(Page)
                                   /\ Touches(Page, subject.op, subject.pane)
<1>1. PICK g \in DOMAIN Pages :
        subject \in UNION {{[page |-> g, pane |-> p, op |-> o] :
                   o \in {NoOp} \cup {x \in OfferedOps(Pages[g]) : Touches(Pages[g], x, p)}}
                  : p \in ShownPanes(Pages[g])}
  BY DEF Subjects
<1>2. PICK p \in ShownPanes(Pages[g]) :
        subject \in {[page |-> g, pane |-> p, op |-> o] :
                   o \in {NoOp} \cup {x \in OfferedOps(Pages[g]) : Touches(Pages[g], x, p)}}
  BY <1>1
<1>3. PICK o \in {NoOp} \cup {x \in OfferedOps(Pages[g]) : Touches(Pages[g], x, p)} :
        subject = [page |-> g, pane |-> p, op |-> o]
  BY <1>2
<1>4. subject.page = g /\ subject.pane = p /\ subject.op = o /\ Page = Pages[g]
  BY <1>3 DEF Page
<1> QED
  BY <1>4

(* The pane and its handler stay those under study.                             *)
LEMMA StudyKept ==
    ASSUME subject' = subject
    PROVE  /\ Page' = Page /\ Pane' = Pane /\ Op' = Op /\ Relevant' = Relevant
           /\ PaneHeld' = PaneHeld /\ Patches' = Patches /\ Ahead' = Ahead
           /\ Followed' = Followed /\ Requests' = Requests /\ Commands' = Commands
           /\ Room' = Room
BY DEF Page, Pane, Op, Relevant, PaneHeld, Patches, Ahead, Followed, Requests, Commands, Room

(* What the pane and the handler carry bears on the study.                      *)
LEMMA Bears ==
    /\ Pane.uses \subseteq Relevant /\ Pane.deps \subseteq Relevant
    /\ Pane.needs \subseteq Relevant /\ PaneHeld \subseteq Relevant
    /\ subject.op # NoOp => Op.needs \subseteq Relevant
<1>1. Bearing(Page, Pane) \subseteq Relevant /\ (subject.op # NoOp => Op.needs \subseteq Relevant)
  BY DEF Relevant
<1>2. Pane.uses \cup Pane.deps \cup Pane.needs \subseteq Bearing(Page, Pane)
  BY DEF Bearing
<1>3. PaneHeld \subseteq Pane.uses
  BY DEF PaneHeld, Held, Pane, Page
<1> QED
  BY <1>1, <1>2, <1>3

LEMMA PaneRecord ==
    ASSUME subject \in Subjects
    PROVE  /\ Pane.once \in BOOLEAN /\ Pane.timer \in BOOLEAN
           /\ Pane.late \in {"taken", "dropped"}
           /\ Pane.fails \in {"said", "kept", "cleared", "stuck", "lasting"}
           /\ Room \in Nat /\ Room <= MaxFlight
           /\ subject.op # NoOp => Op.early \in BOOLEAN
<1>1. /\ subject.page \in DOMAIN Pages /\ subject.pane \in ShownPanes(Pages[subject.page])
      /\ subject.op # NoOp => subject.op \in OfferedOps(Pages[subject.page])
  BY WhereItIs DEF Page
<1>2. /\ Pane.once \in BOOLEAN /\ Pane.timer \in BOOLEAN
      /\ Pane.late \in {"taken", "dropped"}
      /\ Pane.fails \in {"said", "kept", "cleared", "stuck", "lasting"}
  BY <1>1, PageAssumption DEF Pane, Page
<1>3. subject.op # NoOp => Op.early \in BOOLEAN
  BY <1>1, PageAssumption DEF Op, Page
<1>4. Room \in Nat /\ Room <= MaxFlight
  BY <1>2, BoundAssumption DEF Room
<1> QED
  BY <1>2, <1>3, <1>4

-----------------------------------------------------------------------------
(* What the requests of the pane become.                                        *)
LEMMA RequestTyped ==
    ASSUME NEW with \in [Relevant -> 0..Left]
    PROVE  /\ Request(with) \in Requests
           /\ Request(with).with = with /\ Request(with).at = "asked"
           /\ Request(with).ver = 0 /\ ~Request(with).old
BY DEF Request, Requests

(* The requests are those of before, with `first` and `last` behind them.       *)
Asked(first, last) ==
    /\ flight' \in Seq(Requests) /\ Len(flight') \in 1..MaxFlight
    /\ flight'[Len(flight')] = Request(last)
    /\ \A k \in 1..Len(flight') :
         \/ flight'[k] \in {Request(first), Request(last)}
         \/ \E m \in 1..Len(flight) : flight'[k] = flight[m]

LEMMA AskOnce ==
    ASSUME PaneTyped, NEW with \in [Relevant -> 0..Left], NEW why, AskInTurn(<<with>>, why)
    PROVE  Asked(with, with) /\ notice' = Notice("loading") /\ excuse' = why /\ shown' = shown
<1>1. /\ Pane.late \in {"taken", "dropped"} /\ Room \in Nat /\ Room <= MaxFlight
      /\ MaxFlight \in Nat /\ MaxFlight > 0
  BY PaneRecord, BoundAssumption DEF PaneTyped
<1> DEFINE r == Request(with)
<1>2. r \in Requests
  BY RequestTyped
<1>3. /\ flight \in Seq(Requests)
      /\ Pane.late = "taken" => Len(flight) + 1 <= Room
      /\ flight' = IF Pane.late = "dropped" THEN <<r>> ELSE flight \o <<r>>
      /\ notice' = Notice("loading") /\ excuse' = why /\ shown' = shown
  BY DEF AskInTurn, PaneTyped, FlightTyped
<1>4. /\ flight' \in Seq(Requests) /\ Len(flight') \in 1..MaxFlight
      /\ flight'[Len(flight')] = r
      /\ \A k \in 1..Len(flight') : flight'[k] = r \/ \E m \in 1..Len(flight) : flight'[k] = flight[m]
  <2> HIDE DEF r
  <2>1. CASE Pane.late = "dropped"
    BY <1>1, <1>2, <1>3, <2>1
  <2>2. CASE Pane.late = "taken"
    <3>1. /\ flight' \in Seq(Requests) /\ Len(flight') = Len(flight) + 1
          /\ flight'[Len(flight) + 1] = r
          /\ \A k \in 1..Len(flight) : flight'[k] = flight[k]
      BY <1>2, <1>3, <2>2
    <3>2. Len(flight) \in Nat /\ Len(flight) + 1 <= MaxFlight
      BY <1>1, <1>3, <2>2
    <3>3. \A k \in 1..Len(flight') : k \in 1..Len(flight) \/ k = Len(flight) + 1
      BY <3>1, <3>2
    <3>4. Len(flight') \in 1..MaxFlight
      BY <1>1, <3>1, <3>2
    <3> QED
      BY <3>1, <3>3, <3>4
  <2> QED
    BY <1>1, <2>1, <2>2
<1> QED
  BY <1>3, <1>4 DEF Asked

LEMMA AskTwice ==
    ASSUME PaneTyped, NEW first \in [Relevant -> 0..Left], NEW last \in [Relevant -> 0..Left],
           NEW why, AskInTurn(<<first, last>>, why)
    PROVE  Asked(first, last) /\ notice' = Notice("loading") /\ excuse' = why /\ shown' = shown
<1>1. /\ Pane.late \in {"taken", "dropped"} /\ Room \in Nat /\ Room <= MaxFlight
      /\ MaxFlight \in Nat /\ MaxFlight > 0
  BY PaneRecord, BoundAssumption DEF PaneTyped
<1> DEFINE q == Request(first)
           r == Request(last)
<1>2. q \in Requests /\ r \in Requests
  BY RequestTyped
<1> DEFINE pair == [k \in 1..2 |-> Request(<<first, last>>[k])]
<1>3. /\ flight \in Seq(Requests)
      /\ Pane.late = "taken" => Len(flight) + 2 <= Room
      /\ flight' = IF Pane.late = "dropped" THEN <<pair[2]>> ELSE flight \o pair
      /\ notice' = Notice("loading") /\ excuse' = why /\ shown' = shown
  BY DEF AskInTurn, PaneTyped, FlightTyped
<1>4. pair \in Seq(Requests) /\ Len(pair) = 2 /\ pair[1] = q /\ pair[2] = r
  <2>1. pair[1] = q /\ pair[2] = r
    OBVIOUS
  <2>2. pair \in [1..2 -> Requests]
    BY <1>2
  <2> QED
    BY <2>1, <2>2
<1>5. /\ flight' \in Seq(Requests) /\ Len(flight') \in 1..MaxFlight
      /\ flight'[Len(flight')] = r
      /\ \A k \in 1..Len(flight') :
           flight'[k] \in {q, r} \/ \E m \in 1..Len(flight) : flight'[k] = flight[m]
  <2> HIDE DEF q, r, pair
  <2>1. CASE Pane.late = "dropped"
    BY <1>1, <1>2, <1>3, <1>4, <2>1
  <2>2. CASE Pane.late = "taken"
    <3>1. Len(flight) \in Nat /\ Len(flight) + 2 <= MaxFlight
      BY <1>1, <1>3, <2>2
    <3>2. flight' = flight \o pair
      BY <1>3, <2>2
    <3>3. /\ flight' \in Seq(Requests) /\ Len(flight') = Len(flight) + 2
          /\ \A k \in 1..Len(flight) + 2 :
               flight'[k] = IF k <= Len(flight) THEN flight[k] ELSE pair[k - Len(flight)]
      <4>1. /\ flight \o pair \in Seq(Requests) /\ Len(flight \o pair) = Len(flight) + Len(pair)
            /\ \A k \in 1..Len(flight) + Len(pair) :
                 (flight \o pair)[k] = IF k <= Len(flight) THEN flight[k] ELSE pair[k - Len(flight)]
        <5>1. flight \in Seq(Requests) /\ pair \in Seq(Requests)
          BY <1>3, <1>4
        <5> QED
          BY <5>1, ConcatProperties, Zenon
      <4> QED
        BY <1>4, <3>2, <4>1
    <3>4. \A k \in 1..Len(flight) : flight'[k] = flight[k]
      BY <3>1, <3>3
    <3>5. flight'[Len(flight) + 1] = q
      <4>1. /\ Len(flight) + 1 \in 1..Len(flight) + 2 /\ ~(Len(flight) + 1 <= Len(flight))
            /\ Len(flight) + 1 - Len(flight) = 1
        BY <3>1
      <4> QED
        BY <1>4, <3>3, <4>1
    <3>6. flight'[Len(flight) + 2] = r
      <4>1. /\ Len(flight) + 2 \in 1..Len(flight) + 2 /\ ~(Len(flight) + 2 <= Len(flight))
            /\ Len(flight) + 2 - Len(flight) = 2
        BY <3>1
      <4> QED
        BY <1>4, <3>3, <4>1
    <3>7. \A k \in 1..Len(flight') :
            k \in 1..Len(flight) \/ k = Len(flight) + 1 \/ k = Len(flight) + 2
      BY <3>1, <3>3
    <3>8. Len(flight') \in 1..MaxFlight
      BY <1>1, <3>1, <3>3
    <3> QED
      BY <3>3, <3>4, <3>5, <3>6, <3>7, <3>8
  <2> QED
    BY <1>1, <2>1, <2>2
<1> QED
  BY <1>3, <1>5 DEF Asked

(* A request that ends leaves the others, the older ones overtaken.             *)
LEMMA ForgetShape ==
    ASSUME PaneTyped, NEW k \in 1..Len(flight), flight' = Forget(k)
    PROVE  /\ flight' \in Seq(Requests) /\ Len(flight') = Len(flight) - 1
           /\ \A j \in 1..Len(flight') : \E m \in 1..Len(flight) :
                /\ flight'[j].with = flight[m].with /\ flight'[j].ver = flight[m].ver
                /\ flight[m].old => flight'[j].old
           /\ k < Len(flight) => /\ Len(flight') > 0
                                 /\ flight'[Len(flight')] = flight[Len(flight)]
           /\ (k = Len(flight) /\ Len(flight') > 0) => flight'[Len(flight')].old
<1> DEFINE n == Len(flight)
<1>1. flight \in Seq(Requests) /\ n \in Nat
  BY DEF PaneTyped, FlightTyped
<1>2. ASSUME NEW j \in 1..n
      PROVE  /\ flight[j] \in Requests
             /\ [flight[j] EXCEPT !.old = TRUE] \in Requests
             /\ [flight[j] EXCEPT !.old = TRUE].old = TRUE
             /\ [flight[j] EXCEPT !.old = TRUE].with = flight[j].with
             /\ [flight[j] EXCEPT !.old = TRUE].ver = flight[j].ver
  <2>1. flight[j] \in Requests
    BY <1>1, ElementOfSeq
  <2> QED
    BY <2>1 DEF Requests
<1>4. flight' = [j \in 1..n - 1 |-> IF j < k THEN [flight[j] EXCEPT !.old = TRUE] ELSE flight[j + 1]]
  BY DEF Forget
<1>5. flight' \in [1..n - 1 -> Requests]
  <2>1. \A j \in 1..n - 1 : flight[j] \in Requests /\ flight[j + 1] \in Requests
                            /\ [flight[j] EXCEPT !.old = TRUE] \in Requests
    BY <1>1, <1>2
  <2> QED
    BY <1>4, <2>1
<1>6. n - 1 \in Nat
  BY <1>1
<1>7. flight' \in Seq(Requests) /\ Len(flight') = n - 1
  BY <1>5, <1>6
<1>8. \A j \in 1..n - 1 :
        flight'[j] = IF j < k THEN [flight[j] EXCEPT !.old = TRUE] ELSE flight[j + 1]
  BY <1>4
<1>9. ASSUME NEW j \in 1..n - 1
      PROVE  \E m \in 1..n :
               /\ flight'[j].with = flight[m].with /\ flight'[j].ver = flight[m].ver
               /\ flight[m].old => flight'[j].old
  <2>1. CASE j < k
    <3>1. j \in 1..n
      BY <1>1
    <3>2. flight'[j] = [flight[j] EXCEPT !.old = TRUE]
      BY <1>8, <2>1
    <3> QED
      BY <1>2, <3>1, <3>2
  <2>2. CASE ~(j < k)
    <3>1. j + 1 \in 1..n
      BY <1>1
    <3>2. flight'[j] = flight[j + 1]
      BY <1>8, <2>2
    <3> QED
      BY <3>1, <3>2
  <2> QED
    BY <2>1, <2>2
<1>10. k < n => Len(flight') > 0 /\ flight'[n - 1] = flight[n]
  <2> SUFFICES ASSUME k < n PROVE Len(flight') > 0 /\ flight'[n - 1] = flight[n]
    OBVIOUS
  <2>1. n - 1 \in 1..n - 1 /\ ~(n - 1 < k) /\ n - 1 + 1 = n
    BY <1>1
  <2>2. Len(flight') > 0
    BY <1>1, <1>7, <2>1
  <2>3. flight'[n - 1] = flight[n]
    BY <1>8, <2>1
  <2> QED
    BY <2>2, <2>3
<1>11. (k = n /\ n - 1 > 0) => flight'[n - 1].old
  <2> SUFFICES ASSUME k = n, n - 1 > 0 PROVE flight'[n - 1].old
    OBVIOUS
  <2>1. n - 1 \in 1..n - 1 /\ n - 1 \in 1..n /\ n - 1 < k
    BY <1>1
  <2>2. flight'[n - 1] = [flight[n - 1] EXCEPT !.old = TRUE]
    BY <1>8, <2>1
  <2> QED
    BY <1>2, <2>1, <2>2
<1> QED
  BY <1>7, <1>9, <1>10, <1>11

(* Every request under way is of those before, and as old as it was.            *)
LEMMA PatchShape ==
    ASSUME PaneTyped, NEW version, Patch(version)
    PROVE  /\ flight' \in Seq(Requests) /\ Len(flight') = Len(flight)
           /\ \A k \in 1..Len(flight) :
                /\ flight'[k].with = flight[k].with /\ flight'[k].ver = flight[k].ver
                /\ flight'[k].old
           /\ shown' = [with |-> shown.with, ver |-> version]
<1> DEFINE n == Len(flight)
<1>1. flight \in Seq(Requests) /\ n \in Nat
  BY DEF PaneTyped, FlightTyped
<1>2. ASSUME NEW j \in 1..n
      PROVE  /\ [flight[j] EXCEPT !.old = TRUE] \in Requests
             /\ [flight[j] EXCEPT !.old = TRUE].old = TRUE
             /\ [flight[j] EXCEPT !.old = TRUE].with = flight[j].with
             /\ [flight[j] EXCEPT !.old = TRUE].ver = flight[j].ver
  <2>1. flight[j] \in Requests
    BY <1>1, ElementOfSeq
  <2> QED
    BY <2>1 DEF Requests
<1>3. flight' = [k \in 1..n |-> [flight[k] EXCEPT !.old = TRUE]]
  BY DEF Patch
<1>4. flight' \in [1..n -> Requests]
  BY <1>2, <1>3
<1>5. flight' \in Seq(Requests) /\ Len(flight') = n
  BY <1>1, <1>4
<1>6. shown' = [with |-> shown.with, ver |-> version]
  <2>1. shown = [with |-> shown.with, ver |-> shown.ver]
    BY DEF PaneTyped
  <2> DEFINE w == shown.with
             v == shown.ver
  <2>2. shown = [with |-> w, ver |-> v]
    BY <2>1
  <2> HIDE DEF w, v
  <2>3. shown' = [shown EXCEPT !.ver = version]
    BY DEF Patch
  <2>4. shown' = [with |-> w, ver |-> version]
    BY <2>2, <2>3
  <2> QED
    BY <2>4 DEF w
<1> QED
  BY <1>2, <1>3, <1>5, <1>6

LEMMA ServeShape ==
    ASSUME PaneTyped, NEW k \in 1..Len(flight), Serve(k)
    PROVE  /\ flight' \in Seq(Requests) /\ Len(flight') = Len(flight)
           /\ \A j \in 1..Len(flight) : j # k => flight'[j] = flight[j]
           /\ flight'[k].with = flight[k].with /\ flight'[k].ver = db
           /\ flight'[k].old = flight[k].old /\ flight'[k].at = "served"
<1> DEFINE r == [flight[k] EXCEPT !.at = "served", !.ver = db]
<1>1. flight \in Seq(Requests) /\ db \in Nat /\ flight[k] \in Requests
  BY ElementOfSeq DEF PaneTyped, FlightTyped
<1>2. /\ r \in Requests /\ r.with = flight[k].with /\ r.ver = db
      /\ r.old = flight[k].old /\ r.at = "served"
  BY <1>1 DEF Requests
<1>3. flight' = [flight EXCEPT ![k] = r]
  BY <1>1 DEF Serve, Requests
<1> HIDE DEF r
<1>4. /\ flight' \in Seq(Requests) /\ Len(flight') = Len(flight) /\ flight'[k] = r
      /\ \A j \in 1..Len(flight) : j # k => flight'[j] = flight[j]
  BY <1>1, <1>2, <1>3
<1> QED
  BY <1>2, <1>4

(* The person leaves what the pane needs.                                       *)
LEMMA LeaveShape ==
    ASSUME PaneTyped, NEW under, Leave(under)
    PROVE  /\ flight' = <<>> \/ flight' = under
           /\ shown' = Nothing \/ shown' = shown
           /\ Pane.once => shown' = shown
           /\ notice' = Notice("quiet") /\ excuse' = {}
BY DEF Leave

LEMMA NoticeTyped ==
    ASSUME NEW new \in {"quiet", "loading", "error"}
    PROVE  /\ Notice(new) \in {"quiet", "loading", "error"}
           /\ new # "quiet" => Notice(new) # "quiet"
BY DEF Notice

-----------------------------------------------------------------------------
(* What a change of input i makes of the inputs, and what the effect of the pane
   carries when it runs before another effect has adjusted one of them.         *)
After(i) ==
    LET reset == ResetBy(Page.resets, i)
        late  == ResetBy(Page.follows, i)
    IN  [j \in Relevant |-> IF j = i THEN 1 - input[i]
                            ELSE IF j \in reset \cup late THEN 0 ELSE input[j]]
First(i) == [j \in Relevant |-> IF j \in ResetBy(Page.follows, i) THEN Left ELSE After(i)[j]]
Stray(i) == /\ Pane.deps \cap ResetBy(Page.follows, i) # {} /\ i \in Pane.deps
            /\ Chosen(Pane.needs) /\ Len(flight) < Room
Twice(i) == Pane.deps \cap ResetBy(Page.follows, i) # {} /\ i \in Pane.deps

(* The pane lets a change of i pass, is left, or is asked for again.            *)
Passes(i) ==
    /\ ~Watched(After(i)) \/ (~Unmet(After(i)) /\ Pane.once /\ shown # Nothing)
    /\ flight' = flight /\ shown' = shown /\ notice' = notice /\ excuse' = excuse
IsLeft(i) ==
    /\ Watched(After(i)) /\ Unmet(After(i))
    /\ \/ Leave(flight)
       \/ Stray(i) /\ Leave(Append(flight, Request(First(i))))
AskedAgain(i) ==
    /\ Watched(After(i)) /\ ~Unmet(After(i)) /\ (Pane.once => shown = Nothing)
    /\ \/ Twice(i) /\ AskInTurn(<<First(i), After(i)>>, {})
       \/ ~Twice(i) /\ i \in Pane.deps /\ AskInTurn(<<First(i)>>, {})
       \/ i \notin Pane.deps /\ AskInTurn(<<After(i)>>, {})

LEMMA ChangeShape ==
    ASSUME NEW i \in Relevant, Change(i)
    PROVE  /\ input' = After(i) /\ chances.changes > 0
           /\ chances' = [chances EXCEPT !.changes = chances.changes - 1]
           /\ subject' = subject /\ call' = call /\ db' = db
           /\ Passes(i) \/ IsLeft(i) \/ AskedAgain(i)
<1>1. input' = After(i)
  BY DEF Change, After
<1>2. /\ chances.changes > 0 /\ chances' = [chances EXCEPT !.changes = chances.changes - 1]
      /\ subject' = subject /\ call' = call /\ db' = db
  BY DEF Change
<1> DEFINE Idle == ~Watched(After(i)) \/ (~Unmet(After(i)) /\ Pane.once /\ shown # Nothing)
<1>3. IF Idle THEN UNCHANGED <<flight, shown, notice, excuse>>
      ELSE IF Unmet(After(i))
      THEN Leave(IF Stray(i) THEN Append(flight, Request(First(i))) ELSE flight)
      ELSE IF Twice(i) THEN AskInTurn(<<First(i), After(i)>>, {})
      ELSE Ask(IF i \in Pane.deps THEN First(i) ELSE After(i))
  BY DEF Change, After, First, Stray, Twice
<1> SUFFICES Passes(i) \/ IsLeft(i) \/ AskedAgain(i)
  BY <1>1, <1>2
<1>4. CASE Idle
  BY <1>3, <1>4 DEF Passes
<1>5. CASE ~Idle /\ Unmet(After(i))
  <2>1. Leave(IF Stray(i) THEN Append(flight, Request(First(i))) ELSE flight)
    BY <1>3, <1>5
  <2>2. CASE Stray(i)
    BY <1>5, <2>1, <2>2 DEF IsLeft
  <2>3. CASE ~Stray(i)
    BY <1>5, <2>1, <2>3 DEF IsLeft
  <2> QED
    BY <2>2, <2>3
<1>6. CASE ~Idle /\ ~Unmet(After(i))
  <2>1. Pane.once => shown = Nothing
    BY <1>6
  <2>2. IF Twice(i) THEN AskInTurn(<<First(i), After(i)>>, {})
        ELSE AskInTurn(<<IF i \in Pane.deps THEN First(i) ELSE After(i)>>, {})
    BY <1>3, <1>6 DEF Ask
  <2>3. CASE Twice(i)
    BY <1>6, <2>1, <2>2, <2>3 DEF AskedAgain
  <2>4. CASE ~Twice(i) /\ i \in Pane.deps
    BY <1>6, <2>1, <2>2, <2>4 DEF AskedAgain
  <2>5. CASE ~Twice(i) /\ i \notin Pane.deps
    BY <1>6, <2>1, <2>2, <2>5 DEF AskedAgain
  <2> QED
    BY <2>3, <2>4, <2>5
<1> QED
  BY <1>4, <1>5, <1>6

LEMMA AfterTyped ==
    ASSUME PaneTyped, NEW i \in Relevant
    PROVE  /\ After(i) \in [Relevant -> 0..1] /\ After(i) \in [Relevant -> 0..Left]
           /\ First(i) \in [Relevant -> 0..Left]
<1>1. input \in [Relevant -> 0..1]
  BY DEF PaneTyped
<1>2. \A j \in Relevant : input[j] \in 0..1 /\ 1 - input[j] \in 0..1
  BY <1>1
<1>3. After(i) \in [Relevant -> 0..1]
  BY <1>2 DEF After
<1>4. 0..1 \subseteq 0..Left /\ Left \in 0..Left
  BY DEF Left
<1> QED
  BY <1>3, <1>4 DEF First

LEMMA AfterValues ==
    ASSUME NEW i \in Relevant
    PROVE  /\ DOMAIN After(i) = Relevant /\ DOMAIN First(i) = Relevant
           /\ After(i)[i] = 1 - input[i]
           /\ \A j \in Relevant :
                /\ j = i \/ j \in ResetBy(Page.resets, i) \cup ResetBy(Page.follows, i)
                     \/ After(i)[j] = input[j]
                /\ (j # i /\ j \in ResetBy(Page.resets, i) \cup ResetBy(Page.follows, i))
                     => After(i)[j] = 0
                /\ j \notin ResetBy(Page.follows, i) => First(i)[j] = After(i)[j]
<1> DEFINE reset == ResetBy(Page.resets, i)
           late  == ResetBy(Page.follows, i)
<1>1. After(i) = [j \in Relevant |-> IF j = i THEN 1 - input[i]
                                      ELSE IF j \in reset \cup late THEN 0 ELSE input[j]]
  BY DEF After
<1>2. First(i) = [j \in Relevant |-> IF j \in late THEN Left ELSE After(i)[j]]
  BY DEF First
<1> HIDE DEF reset, late
<1>3. DOMAIN After(i) = Relevant /\ After(i)[i] = 1 - input[i]
  BY <1>1
<1>4. \A j \in Relevant : /\ j = i \/ j \in reset \cup late \/ After(i)[j] = input[j]
                          /\ (j # i /\ j \in reset \cup late) => After(i)[j] = 0
  BY <1>1
<1>5. /\ DOMAIN First(i) = Relevant
      /\ \A j \in Relevant : j \notin late => First(i)[j] = After(i)[j]
  BY <1>2
<1> QED
  BY <1>3, <1>4, <1>5 DEF reset, late

(* Each input that the change of i adjusts is in a pair with it.                *)
LEMMA Adjusted ==
    ASSUME NEW i, NEW j
    PROVE  /\ j \in ResetBy(Page.resets, i) \cup ResetBy(Page.follows, i) =>
                \E r \in Adjusts(Page) : r[1] = i /\ r[2] = j
           /\ (<<i, j>> \in Adjusts(Page) /\ j \in Relevant) =>
                j \in ResetBy(Page.resets, i) \cup ResetBy(Page.follows, i)
BY DEF ResetBy, Adjusts

(* The inputs after a command that closes what it was about.                    *)
Closed == [j \in Relevant |-> IF j \in Op.closes THEN 0 ELSE input[j]]
Why    == IF \A i \in Pane.uses : Carried[i] = input'[i] THEN {} ELSE {"closure"}

LEMMA ReturnShape ==
    ASSUME Return
    PROVE  /\ call.at = "committed" /\ input' = Closed
           /\ call' = [call EXCEPT !.at = IF Op.does.later = {} THEN "done" ELSE "left"]
           /\ subject' = subject /\ db' = db /\ chances' = chances
           /\ \/ Watched(Closed) /\ Unmet(Closed) /\ Leave(flight)
              \/ /\ ~(Watched(Closed) /\ Unmet(Closed)) /\ Reloads
                 /\ AskInTurn(<<Carried>>, Why)
              \/ /\ ~(Watched(Closed) /\ Unmet(Closed)) /\ ~Reloads
                 /\ Patches /\ ~Op.early /\ Patch(call.ver)
                 /\ notice' = notice /\ excuse' = excuse
              \/ /\ ~(Watched(Closed) /\ Unmet(Closed)) /\ ~Reloads
                 /\ ~(Patches /\ ~Op.early)
                 /\ flight' = flight /\ shown' = shown
                 /\ notice' = notice /\ excuse' = excuse
<1>1. /\ call.at = "committed" /\ input' = Closed
      /\ call' = [call EXCEPT !.at = IF Op.does.later = {} THEN "done" ELSE "left"]
      /\ subject' = subject /\ db' = db /\ chances' = chances
  BY DEF Return, Closed
<1>2. IF Watched(Closed) /\ Unmet(Closed) THEN Leave(flight)
      ELSE IF Reloads THEN Reload
      ELSE IF Patches /\ ~Op.early
      THEN Patch(call.ver) /\ UNCHANGED <<notice, excuse>>
      ELSE UNCHANGED <<flight, shown, notice, excuse>>
  BY DEF Return, Closed
<1>3. Reload => AskInTurn(<<Carried>>, Why)
  BY DEF Reload, Why
<1> QED
  BY <1>1, <1>2, <1>3 DEF Reloads, Patches

LEMMA CarriedTyped ==
    ASSUME PaneTyped
    PROVE  /\ Carried \in [Relevant -> 0..Left] /\ Why \subseteq {"closure"}
           /\ input \in [Relevant -> 0..Left]
           /\ Closed \in [Relevant -> 0..1]
           /\ \A j \in Relevant : Closed[j] = IF j \in Op.closes THEN 0 ELSE input[j]
<1>1. input \in [Relevant -> 0..1] /\ call.with \in [Relevant -> 0..1]
  BY DEF PaneTyped, Commands
<1>2. 0..1 \subseteq 0..Left
  BY DEF Left
<1>3. input \in [Relevant -> 0..Left] /\ call.with \in [Relevant -> 0..Left]
  BY <1>1, <1>2
<1>4. Carried \in [Relevant -> 0..Left]
  BY <1>3 DEF Carried
<1>5. Closed \in [Relevant -> 0..1]
  BY <1>1 DEF Closed
<1> QED
  BY <1>3, <1>4, <1>5 DEF Closed, Why

-----------------------------------------------------------------------------
(* The state keeps its shape.                                                   *)
LEMMA AskedTyped ==
    ASSUME PaneTyped, NEW first \in [Relevant -> 0..Left], NEW last \in [Relevant -> 0..Left],
           Asked(first, last), subject' = subject, db' = db
    PROVE  FlightTyped'
<1>1. Requests' = Requests
  BY StudyKept
<1>2. /\ flight' \in Seq(Requests) /\ Len(flight') \in 1..MaxFlight
      /\ \A k \in 1..Len(flight') :
           \/ flight'[k] \in {Request(first), Request(last)}
           \/ \E m \in 1..Len(flight) : flight'[k] = flight[m]
  BY DEF Asked
<1>3. /\ Request(first).ver = 0 /\ Request(last).ver = 0 /\ db \in Nat
      /\ \A m \in 1..Len(flight) : flight[m].ver <= db
  BY RequestTyped DEF PaneTyped, FlightTyped
<1>4. \A k \in 1..Len(flight') : flight'[k].ver <= db
  BY <1>2, <1>3
<1>5. Len(flight') <= MaxFlight
  BY <1>2, BoundAssumption
<1> QED
  BY <1>1, <1>2, <1>4, <1>5 DEF FlightTyped

LEMMA LeaveTyped ==
    ASSUME PaneTyped, subject' = subject, db' = db, NEW under \in Seq(Requests),
           Len(under) <= MaxFlight, \A k \in 1..Len(under) : under[k].ver <= db, Leave(under)
    PROVE  FlightTyped' /\ shown' = [with |-> shown'.with, ver |-> shown'.ver]
           /\ shown'.ver \in 0..db + 1 /\ notice' \in {"quiet", "loading", "error"}
           /\ excuse' = {}
<1>1. Requests' = Requests
  BY StudyKept
<1>2. /\ flight' = <<>> \/ flight' = under
      /\ shown' = Nothing \/ shown' = shown
      /\ notice' \in {"quiet", "loading", "error"} /\ excuse' = {}
  BY LeaveShape, NoticeTyped
<1>3. FlightTyped'
  <2>1. CASE flight' = <<>>
    BY <1>1, <2>1, BoundAssumption DEF FlightTyped
  <2>2. CASE flight' = under
    BY <1>1, <2>2 DEF FlightTyped
  <2> QED
    BY <1>2, <2>1, <2>2
<1>4. shown' = [with |-> shown'.with, ver |-> shown'.ver] /\ shown'.ver \in 0..db + 1
  <2>1. CASE shown' = Nothing
    BY <2>1 DEF Nothing, PaneTyped
  <2>2. CASE shown' = shown
    BY <2>2 DEF PaneTyped
  <2> QED
    BY <1>2, <2>1, <2>2
<1> QED
  BY <1>2, <1>3, <1>4

LEMMA StrayTyped ==
    ASSUME PaneTyped, NEW i \in Relevant, Stray(i)
    PROVE  LET under == Append(flight, Request(First(i)))
           IN  /\ under \in Seq(Requests) /\ Len(under) = Len(flight) + 1
               /\ Len(under) <= MaxFlight
               /\ \A k \in 1..Len(flight) : under[k] = flight[k]
               /\ under[Len(flight) + 1] = Request(First(i))
               /\ \A k \in 1..Len(under) : under[k].ver <= db
<1> DEFINE r == Request(First(i))
           under == Append(flight, r)
<1>1. r \in Requests /\ r.ver = 0
  BY AfterTyped, RequestTyped
<1>2. /\ flight \in Seq(Requests) /\ db \in Nat
      /\ \A k \in 1..Len(flight) : flight[k].ver <= db
  BY DEF PaneTyped, FlightTyped
<1>3. Len(flight) < Room /\ Room \in Nat /\ Room <= MaxFlight /\ MaxFlight \in Nat
  BY PaneRecord, BoundAssumption DEF PaneTyped, Stray
<1> HIDE DEF r
<1>4. /\ under \in Seq(Requests) /\ Len(under) = Len(flight) + 1
      /\ \A k \in 1..Len(flight) : under[k] = flight[k]
      /\ under[Len(flight) + 1] = r
  BY <1>1, <1>2
<1>5. Len(under) <= MaxFlight
  BY <1>2, <1>3, <1>4
<1>6. \A k \in 1..Len(under) : k \in 1..Len(flight) \/ k = Len(flight) + 1
  BY <1>2, <1>4
<1>7. \A k \in 1..Len(under) : under[k].ver <= db
  BY <1>1, <1>2, <1>4, <1>6
<1> QED
  BY <1>4, <1>5, <1>7 DEF r

(* What is under way keeps its shape when the tables only grow newer.           *)
LEMMA FlightTypedKept ==
    ASSUME PaneTyped, subject' = subject, flight' = flight, db' \in Nat, db <= db'
    PROVE  FlightTyped'
<1>1. Requests' = Requests
  BY StudyKept
<1>2. /\ flight \in Seq(Requests) /\ Len(flight) <= MaxFlight /\ db \in Nat
      /\ \A k \in 1..Len(flight) : flight[k].ver <= db
  BY DEF PaneTyped, FlightTyped
<1>3. \A k \in 1..Len(flight) : flight[k].ver <= db'
  <2> TAKE k \in 1..Len(flight)
  <2>1. flight[k] \in Requests /\ flight[k].ver <= db
    BY <1>2, ElementOfSeq
  <2> QED
    BY <1>2, <2>1 DEF Requests
<1> QED
  BY <1>1, <1>2, <1>3 DEF FlightTyped

LEMMA PatchTyped ==
    ASSUME PaneTyped, subject' = subject, db' = db, NEW version \in 0..db + 1, Patch(version)
    PROVE  FlightTyped' /\ shown' = [with |-> shown'.with, ver |-> shown'.ver]
           /\ shown'.ver \in 0..db + 1
<1>1. Requests' = Requests
  BY StudyKept
<1>2. /\ flight' \in Seq(Requests) /\ Len(flight') = Len(flight)
      /\ \A k \in 1..Len(flight) : flight'[k].ver = flight[k].ver
      /\ shown' = [with |-> shown.with, ver |-> version]
  BY PatchShape
<1> QED
  BY <1>1, <1>2 DEF PaneTyped, FlightTyped

LEMMA ForgetTyped ==
    ASSUME PaneTyped, subject' = subject, db' = db, NEW k \in 1..Len(flight), flight' = Forget(k)
    PROVE  FlightTyped'
<1>1. Requests' = Requests
  BY StudyKept
<1>2. /\ flight' \in Seq(Requests) /\ Len(flight') = Len(flight) - 1
      /\ \A j \in 1..Len(flight') : \E m \in 1..Len(flight) : flight'[j].ver = flight[m].ver
  BY ForgetShape
<1>3. /\ Len(flight) \in Nat /\ Len(flight) <= MaxFlight /\ MaxFlight \in Nat
      /\ \A m \in 1..Len(flight) : flight[m].ver <= db
  BY BoundAssumption DEF PaneTyped, FlightTyped
<1> QED
  BY <1>1, <1>2, <1>3 DEF FlightTyped

(* The part of the shape that does not concern the pane.                        *)
AroundTyped ==
    /\ subject \in Subjects
    /\ input \in [Relevant -> 0..1]
    /\ call \in Commands /\ call.ver <= db
    /\ chances \in Chances
    /\ db \in Nat \ {0} /\ db + chances.others <= Written + MaxElsewhere
ShownTyped ==
    /\ shown = [with |-> shown.with, ver |-> shown.ver] /\ shown.ver \in 0..db + 1
    /\ notice \in {"quiet", "loading", "error"}
    /\ excuse \subseteq {"overtaken", "swallowed", "closure"}

LEMMA TypedParts == PaneTyped <=> AroundTyped /\ FlightTyped /\ ShownTyped
BY DEF PaneTyped, AroundTyped, ShownTyped

(* A change of an input, and a request or a failure: only the counter of such
   steps moves beside the pane.                                                 *)
LEMMA CountTyped ==
    ASSUME PaneTyped, subject' = subject, db' = db, call' = call, input' \in [Relevant -> 0..1],
           \/ chances' = chances
           \/ chances.changes > 0
                /\ chances' = [chances EXCEPT !.changes = chances.changes - 1]
           \/ chances.faults > 0
                /\ chances' = [chances EXCEPT !.faults = chances.faults - 1]
    PROVE  AroundTyped'
<1>1. Relevant' = Relevant /\ Commands' = Commands /\ Written' = Written
  BY StudyKept DEF Written
<1>2. chances' \in Chances /\ chances'.others = chances.others
  BY DEF PaneTyped, Chances
<1> QED
  BY <1>1, <1>2 DEF PaneTyped, AroundTyped, Chances

LEMMA TypedChange ==
    ASSUME PaneTyped, NEW i \in Relevant, Change(i)
    PROVE  PaneTyped'
<1>1. /\ input' = After(i) /\ chances.changes > 0
      /\ chances' = [chances EXCEPT !.changes = chances.changes - 1]
      /\ subject' = subject /\ call' = call /\ db' = db
      /\ Passes(i) \/ IsLeft(i) \/ AskedAgain(i)
  BY ChangeShape
<1>2. /\ After(i) \in [Relevant -> 0..1] /\ After(i) \in [Relevant -> 0..Left]
      /\ First(i) \in [Relevant -> 0..Left]
  BY AfterTyped
<1>3. AroundTyped'
  BY <1>1, <1>2, CountTyped
<1>4. db \in Nat
  BY DEF PaneTyped
<1>5. FlightTyped' /\ ShownTyped'
  <2>1. CASE Passes(i)
    <3>1. FlightTyped'
      BY <1>1, <1>4, <2>1, FlightTypedKept DEF Passes
    <3> QED
      BY <1>1, <2>1, <3>1 DEF Passes, PaneTyped, ShownTyped
  <2>2. CASE IsLeft(i)
    <3>1. /\ flight \in Seq(Requests) /\ Len(flight) <= MaxFlight
          /\ \A k \in 1..Len(flight) : flight[k].ver <= db
      BY DEF PaneTyped, FlightTyped
    <3>2. CASE Leave(flight)
      BY <1>1, <3>1, <3>2, LeaveTyped DEF ShownTyped
    <3>3. CASE Stray(i) /\ Leave(Append(flight, Request(First(i))))
      <4> DEFINE under == Append(flight, Request(First(i)))
      <4>1. /\ under \in Seq(Requests) /\ Len(under) <= MaxFlight
            /\ \A k \in 1..Len(under) : under[k].ver <= db
        BY <3>3, StrayTyped
      <4>2. Leave(under)
        BY <3>3
      <4> HIDE DEF under
      <4> QED
        BY <1>1, <4>1, <4>2, LeaveTyped DEF ShownTyped
    <3> QED
      BY <2>2, <3>2, <3>3 DEF IsLeft
  <2>3. CASE AskedAgain(i)
    <3>1. /\ Asked(First(i), After(i)) \/ Asked(First(i), First(i)) \/ Asked(After(i), After(i))
          /\ notice' = Notice("loading") /\ excuse' = {} /\ shown' = shown
      BY <1>2, <2>3, AskOnce, AskTwice DEF AskedAgain
    <3>2. FlightTyped'
      BY <1>1, <1>2, <3>1, AskedTyped
    <3> QED
      BY <1>1, <3>1, <3>2, NoticeTyped DEF PaneTyped, ShownTyped
  <2> QED
    BY <1>1, <2>1, <2>2, <2>3
<1> QED
  BY <1>3, <1>5 DEF PaneTyped, AroundTyped, ShownTyped

LEMMA TypedAnswer ==
    ASSUME PaneTyped, NEW k \in 1..Len(flight), Serve(k) \/ Arrive(k) \/ Fail(k)
    PROVE  PaneTyped'
<1>1. /\ subject' = subject /\ input' = input /\ call' = call /\ db' = db /\ db \in Nat
      /\ input \in [Relevant -> 0..1]
  BY DEF Serve, Arrive, Fail, PaneTyped
<1>2. AroundTyped'
  <2>1. \/ chances' = chances
        \/ chances.faults > 0 /\ chances' = [chances EXCEPT !.faults = chances.faults - 1]
    BY DEF Serve, Arrive, Fail
  <2> QED
    BY <1>1, <2>1, CountTyped
<1>3. flight[k] \in Requests /\ flight[k].ver \in 0..db
  <2>1. flight \in Seq(Requests) /\ flight[k].ver <= db
    BY DEF PaneTyped, FlightTyped
  <2>2. flight[k] \in Requests
    BY <2>1, ElementOfSeq
  <2> QED
    BY <1>1, <2>1, <2>2 DEF Requests
<1>4. CASE Serve(k)
  <2>1. Requests' = Requests
    BY <1>1, StudyKept
  <2>2. /\ flight' \in Seq(Requests) /\ Len(flight') = Len(flight)
        /\ \A j \in 1..Len(flight) : j # k => flight'[j] = flight[j]
        /\ flight'[k].ver = db
    BY <1>4, ServeShape
  <2>3. FlightTyped'
    BY <1>1, <2>1, <2>2 DEF PaneTyped, FlightTyped
  <2>4. ShownTyped'
    BY <1>1, <1>4 DEF Serve, PaneTyped, ShownTyped
  <2> QED
    BY <1>2, <2>3, <2>4 DEF PaneTyped, AroundTyped, ShownTyped
<1>5. CASE Arrive(k)
  <2>1. FlightTyped'
    BY <1>1, <1>5, ForgetTyped DEF Arrive
  <2>2. /\ shown' = [with |-> shown'.with, ver |-> shown'.ver] /\ shown'.ver = flight[k].ver
        /\ notice' = Notice("quiet")
        /\ excuse' = IF flight[k].old THEN excuse \cup {"overtaken"} ELSE excuse \ {"swallowed"}
    BY <1>5 DEF Arrive
  <2>3. ShownTyped'
    BY <1>1, <1>3, <2>2, NoticeTyped DEF PaneTyped, ShownTyped
  <2> QED
    BY <1>2, <2>1, <2>3 DEF PaneTyped, AroundTyped, ShownTyped
<1>6. CASE Fail(k)
  <2>1. FlightTyped'
    BY <1>1, <1>6, ForgetTyped DEF Fail
  <2>2. notice' \in {"quiet", "loading", "error"}
    <3>1. Pane.fails \in {"said", "lasting"} \/ Pane.fails = "stuck"
            \/ ~(Pane.fails \in {"said", "lasting"} \/ Pane.fails = "stuck")
      OBVIOUS
    <3> QED
      BY <1>6, <3>1 DEF Fail
  <2>3. shown' = Nothing \/ shown' = shown
    BY <1>6 DEF Fail
  <2>4. excuse' = excuse \cup {"swallowed"} \/ excuse' = excuse
    BY <1>6 DEF Fail
  <2>5. ShownTyped'
    BY <1>1, <2>2, <2>3, <2>4 DEF PaneTyped, ShownTyped, Nothing
  <2> QED
    BY <1>2, <2>1, <2>5 DEF PaneTyped, AroundTyped, ShownTyped
<1> QED
  BY <1>4, <1>5, <1>6

(* An answer or a failure of the command, and what others do.                   *)
LEMMA TypedAsk ==
    ASSUME PaneTyped, NEW with \in [Relevant -> 0..Left], NEW why \in SUBSET {"closure"},
           AskInTurn(<<with>>, why), subject' = subject, db' = db
    PROVE  FlightTyped' /\ ShownTyped'
<1>1. Asked(with, with) /\ notice' = Notice("loading") /\ excuse' = why /\ shown' = shown
  BY AskOnce
<1>2. FlightTyped'
  BY <1>1, AskedTyped
<1> QED
  BY <1>1, <1>2, NoticeTyped DEF PaneTyped, ShownTyped

LEMMA TypedTick ==
    ASSUME PaneTyped, Tick
    PROVE  PaneTyped'
<1>1. /\ subject' = subject /\ input' = input /\ call' = call /\ db' = db /\ chances' = chances
      /\ AskInTurn(<<input>>, {})
  BY DEF Tick, Ask
<1>2. input \in [Relevant -> 0..1] /\ input \in [Relevant -> 0..Left]
  BY CarriedTyped DEF PaneTyped
<1>3. AroundTyped'
  BY <1>1, <1>2, CountTyped
<1>4. FlightTyped' /\ ShownTyped'
  BY <1>1, <1>2, TypedAsk
<1> QED
  BY <1>3, <1>4 DEF PaneTyped, AroundTyped, ShownTyped

LEMMA TypedSubmit ==
    ASSUME PaneTyped, Submit
    PROVE  PaneTyped'
<1>1. /\ subject' = subject /\ input' = input /\ db' = db /\ chances' = chances
      /\ call.at = "none" /\ call' = [call EXCEPT !.at = "sent", !.with = input]
      /\ notice' = notice /\ excuse' = excuse /\ db \in Nat
      /\ Patch(db + 1) \/ (flight' = flight /\ shown' = shown)
  BY DEF Submit, PaneTyped
<1>2. Relevant' = Relevant /\ Commands' = Commands
  BY <1>1, StudyKept
<1>3. call' \in Commands /\ call'.ver = call.ver /\ call'.at = "sent"
  BY <1>1 DEF PaneTyped, Commands
<1>4. AroundTyped'
  BY <1>1, <1>2, <1>3 DEF PaneTyped, AroundTyped, Written
<1>5. FlightTyped' /\ ShownTyped'
  <2>1. CASE Patch(db + 1)
    <3>1. db + 1 \in 0..db + 1
      BY <1>1
    <3>2. FlightTyped' /\ shown' = [with |-> shown'.with, ver |-> shown'.ver]
          /\ shown'.ver \in 0..db + 1
      BY <1>1, <2>1, <3>1, PatchTyped
    <3> QED
      BY <1>1, <3>2 DEF PaneTyped, ShownTyped
  <2>2. CASE flight' = flight /\ shown' = shown
    <3>1. FlightTyped'
      BY <1>1, <2>2, FlightTypedKept
    <3> QED
      BY <1>1, <2>2, <3>1 DEF PaneTyped, ShownTyped
  <2> QED
    BY <1>1, <2>1, <2>2
<1> QED
  BY <1>4, <1>5 DEF PaneTyped, AroundTyped, ShownTyped

(* The tables grow newer beside the pane.                                       *)
LEMMA WroteTyped ==
    ASSUME PaneTyped, subject' = subject, input' = input, flight' = flight, shown' = shown,
           notice' = notice, excuse' = excuse, db' \in {db, db + 1}, AroundTyped'
    PROVE  PaneTyped'
<1>1. db \in Nat /\ db' \in Nat /\ db <= db'
  BY DEF PaneTyped
<1>2. FlightTyped'
  BY <1>1, FlightTypedKept
<1>3. ShownTyped'
  BY <1>1 DEF PaneTyped, ShownTyped
<1> QED
  BY <1>2, <1>3 DEF PaneTyped, AroundTyped, ShownTyped

LEMMA TypedWrite ==
    ASSUME PaneTyped, Commit \/ FinishLater
    PROVE  PaneTyped'
<1>1. /\ subject' = subject /\ input' = input /\ flight' = flight /\ shown' = shown
      /\ notice' = notice /\ excuse' = excuse /\ chances' = chances
      /\ db' \in {db, db + 1}
      /\ \/ call.at = "sent" /\ call' = [call EXCEPT !.at = "committed", !.ver = db']
         \/ call.at = "left" /\ call' = [call EXCEPT !.at = "done", !.ver = db']
  BY DEF Commit, FinishLater, Bump
<1>2. Relevant' = Relevant /\ Commands' = Commands
  BY <1>1, StudyKept
<1>3. db \in Nat \ {0} /\ db' \in Nat \ {0} /\ db' <= db + 1
  BY <1>1 DEF PaneTyped
<1>4. /\ call' \in Commands /\ call'.ver = db'
      /\ \/ call.at = "sent" /\ call'.at = "committed"
         \/ call.at = "left" /\ call'.at = "done"
  BY <1>1, <1>3 DEF PaneTyped, Commands
<1>5. Written' = Written + 1
  BY <1>4 DEF Written
<1>6. db' + chances'.others <= Written' + MaxElsewhere
  BY <1>1, <1>3, <1>5, BoundAssumption DEF PaneTyped, Chances, Written
<1>7. AroundTyped'
  BY <1>1, <1>2, <1>3, <1>4, <1>6 DEF PaneTyped, AroundTyped
<1> QED
  BY <1>1, <1>7, WroteTyped

LEMMA TypedReturn ==
    ASSUME PaneTyped, Return
    PROVE  PaneTyped'
<1>1. /\ call.at = "committed" /\ input' = Closed
      /\ call' = [call EXCEPT !.at = IF Op.does.later = {} THEN "done" ELSE "left"]
      /\ subject' = subject /\ db' = db /\ chances' = chances
      /\ \/ Leave(flight)
         \/ AskInTurn(<<Carried>>, Why)
         \/ Patch(call.ver) /\ notice' = notice /\ excuse' = excuse
         \/ /\ flight' = flight /\ shown' = shown
            /\ notice' = notice /\ excuse' = excuse
  BY ReturnShape
<1>2. Closed \in [Relevant -> 0..1] /\ Carried \in [Relevant -> 0..Left] /\ Why \in SUBSET {"closure"}
  BY CarriedTyped
<1>3. Relevant' = Relevant /\ Commands' = Commands
  BY <1>1, StudyKept
<1>4. call' \in Commands /\ call'.ver = call.ver /\ call'.at \in {"done", "left"}
  BY <1>1 DEF PaneTyped, Commands
<1>5. db \in Nat /\ call.ver \in 0..db + 1
  BY DEF PaneTyped, Commands
<1>6. db' + chances'.others <= Written' + MaxElsewhere
  BY <1>1, <1>4, <1>5, BoundAssumption DEF PaneTyped, Chances, Written
<1>7. AroundTyped'
  BY <1>1, <1>2, <1>3, <1>4, <1>6 DEF PaneTyped, AroundTyped
<1>8. FlightTyped' /\ ShownTyped'
  <2>1. CASE Leave(flight)
    <3>1. /\ flight \in Seq(Requests) /\ Len(flight) <= MaxFlight
          /\ \A k \in 1..Len(flight) : flight[k].ver <= db
      BY DEF PaneTyped, FlightTyped
    <3> QED
      BY <1>1, <2>1, <3>1, LeaveTyped DEF ShownTyped
  <2>2. CASE AskInTurn(<<Carried>>, Why)
    BY <1>1, <1>2, <2>2, TypedAsk
  <2>3. CASE Patch(call.ver) /\ notice' = notice /\ excuse' = excuse
    <3>1. FlightTyped' /\ shown' = [with |-> shown'.with, ver |-> shown'.ver]
          /\ shown'.ver \in 0..db + 1
      BY <1>1, <1>5, <2>3, PatchTyped
    <3> QED
      BY <1>1, <2>3, <3>1 DEF PaneTyped, ShownTyped
  <2>4. CASE /\ flight' = flight /\ shown' = shown
             /\ notice' = notice /\ excuse' = excuse
    <3>1. FlightTyped'
      BY <1>1, <1>5, <2>4, FlightTypedKept
    <3> QED
      BY <1>1, <2>4, <3>1 DEF PaneTyped, ShownTyped
  <2> QED
    BY <1>1, <2>1, <2>2, <2>3, <2>4
<1> QED
  BY <1>7, <1>8 DEF PaneTyped, AroundTyped, ShownTyped

LEMMA TypedRefuse ==
    ASSUME PaneTyped, Refuse \/ RefuseUnread
    PROVE  PaneTyped'
<1>1. /\ subject' = subject /\ input' = input /\ db' = db
      /\ chances.faults > 0 /\ chances' = [chances EXCEPT !.faults = chances.faults - 1]
      /\ call' = [call EXCEPT !.at = "failed"]
  BY DEF Refuse, RefuseUnread
<1>2. Relevant' = Relevant /\ Commands' = Commands
  BY <1>1, StudyKept
<1>3. call' \in Commands /\ call'.ver = call.ver /\ call'.at = "failed"
  BY <1>1 DEF PaneTyped, Commands
<1>4. chances' \in Chances /\ chances'.others = chances.others
  BY <1>1 DEF PaneTyped, Chances
<1>5. db' + chances'.others <= Written' + MaxElsewhere
  BY <1>1, <1>3, <1>4, BoundAssumption DEF PaneTyped, Chances, Written
<1>6. AroundTyped'
  BY <1>1, <1>2, <1>3, <1>4, <1>5 DEF PaneTyped, AroundTyped, Chances
<1>7. CASE Refuse
  BY <1>1, <1>6, <1>7, WroteTyped DEF Refuse
<1>8. CASE RefuseUnread
  <2>1. AskInTurn(<<Carried>>, Why)
    BY <1>8 DEF RefuseUnread, Reload, Why
  <2>2. Carried \in [Relevant -> 0..Left] /\ Why \in SUBSET {"closure"}
    BY CarriedTyped
  <2>3. FlightTyped' /\ ShownTyped'
    BY <1>1, <2>1, <2>2, TypedAsk
  <2> QED
    BY <1>6, <2>3 DEF PaneTyped, AroundTyped, ShownTyped
<1> QED
  BY <1>7, <1>8

LEMMA TypedElsewhere ==
    ASSUME PaneTyped, Elsewhere
    PROVE  PaneTyped'
<1>1. /\ subject' = subject /\ input' = input /\ flight' = flight /\ shown' = shown
      /\ notice' = notice /\ excuse' = excuse /\ call' = call /\ db' = db + 1
      /\ chances.others > 0 /\ chances' = [chances EXCEPT !.others = chances.others - 1]
  BY DEF Elsewhere
<1>2. Relevant' = Relevant /\ Commands' = Commands /\ Written' = Written
  BY <1>1, StudyKept DEF Written
<1>3. chances' \in Chances /\ chances'.others = chances.others - 1 /\ chances.others \in Nat
  BY <1>1, BoundAssumption DEF PaneTyped, Chances
<1>4. Written \in Nat /\ MaxElsewhere \in Nat /\ db \in Nat
  BY BoundAssumption DEF Written, PaneTyped
<1>5. AroundTyped'
  BY <1>1, <1>2, <1>3, <1>4 DEF PaneTyped, AroundTyped, Chances, Commands
<1> QED
  BY <1>1, <1>5, WroteTyped

LEMMA TypedStep ==
    ASSUME PaneTyped, ScreenNext
    PROVE  PaneTyped'
BY TypedChange, TypedAnswer, TypedTick, TypedSubmit, TypedWrite, TypedReturn, TypedRefuse,
   TypedElsewhere DEF ScreenNext

-----------------------------------------------------------------------------
(* A command is under way for a handler that is there; what it needs was chosen,
   and it answers with the version it wrote.                                    *)
LEMMA CallStep ==
    ASSUME PaneTyped, CallInv, ScreenNext
    PROVE  CallInv'
<1>1. subject' = subject
  BY DEF ScreenNext, Change, Serve, Arrive, Fail, Tick, Submit, Commit, Return, FinishLater,
         Refuse, RefuseUnread, Elsewhere
<1>2. Pane' = Pane /\ Op' = Op
  BY <1>1, StudyKept
<1>3. call \in Commands
  BY DEF PaneTyped
<1>4. CASE call' = call /\ db' = db
  BY <1>1, <1>2, <1>4 DEF CallInv
<1>5. CASE Submit
  <2>1. /\ subject.op # NoOp /\ \A j \in Op.needs : input[j] = 1
        /\ call' = [call EXCEPT !.at = "sent", !.with = input]
    BY <1>5 DEF Submit, Chosen
  <2>2. call'.at = "sent" /\ call'.with = input
    BY <1>3, <2>1 DEF Commands
  <2> QED
    BY <1>1, <1>2, <2>1, <2>2 DEF CallInv
<1>6. CASE Commit
  <2>1. call.at = "sent" /\ call' = [call EXCEPT !.at = "committed", !.ver = db']
    BY <1>6 DEF Commit
  <2>2. call'.at = "committed" /\ call'.with = call.with /\ call'.ver = db'
    BY <1>3, <2>1 DEF Commands
  <2> QED
    BY <1>1, <1>2, <2>1, <2>2 DEF CallInv
<1>7. CASE Return \/ FinishLater \/ Refuse \/ RefuseUnread
  <2>1. call.at # "none" /\ call'.at \in {"done", "left", "failed"}
    BY <1>3, <1>7 DEF Return, FinishLater, Refuse, RefuseUnread, Commands
  <2> QED
    BY <1>1, <1>2, <2>1 DEF CallInv
<1>8. CASE Elsewhere
  <2>1. Pane.timer /\ call' = call
    BY <1>8 DEF Elsewhere
  <2> QED
    BY <1>1, <1>2, <2>1 DEF CallInv
<1>9. (\E i \in Relevant : Change(i)) => call' = call /\ db' = db
  BY DEF Change
<1>10. (\E k \in 1..Len(flight) : Serve(k) \/ Arrive(k) \/ Fail(k)) => call' = call /\ db' = db
  BY DEF Serve, Arrive, Fail
<1>11. Tick => call' = call /\ db' = db
  BY DEF Tick
<1> QED
  BY <1>4, <1>5, <1>6, <1>7, <1>8, <1>9, <1>10, <1>11 DEF ScreenNext

(* Only an early patch shows what is not written yet.                           *)
LEMMA VersionStep ==
    ASSUME PaneTyped, CallInv, VersionInv, ScreenNext
    PROVE  VersionInv'
<1>1. subject' = subject
  BY DEF ScreenNext, Change, Serve, Arrive, Fail, Tick, Submit, Commit, Return, FinishLater,
         Refuse, RefuseUnread, Elsewhere
<1>2. Ahead' = Ahead /\ db \in Nat
  BY <1>1, StudyKept DEF PaneTyped
<1>3. SUFFICES ASSUME ~Ahead PROVE shown'.ver <= db'
  BY <1>2 DEF VersionInv
<1>4. shown.ver <= db /\ shown.ver \in Nat
  BY <1>2, <1>3 DEF VersionInv, PaneTyped
<1>5. Nothing.ver \in Nat /\ Nothing.ver <= db
  BY <1>2 DEF Nothing
<1>6. ASSUME shown' \in {shown, Nothing}, db' \in {db, db + 1}
      PROVE  shown'.ver <= db'
  <2>1. \A v \in Nat : v <= db => v <= db'
    BY <1>2, <1>6
  <2>2. CASE shown' = shown
    BY <1>4, <2>1, <2>2
  <2>3. CASE shown' = Nothing
    BY <1>5, <2>1, <2>3
  <2> QED
    BY <1>6, <2>2, <2>3
<1>7. ASSUME NEW i \in Relevant, Change(i) PROVE shown'.ver <= db'
  <2>1. db' = db /\ (Passes(i) \/ IsLeft(i) \/ AskedAgain(i))
    BY <1>7, ChangeShape
  <2>2. Passes(i) => shown' = shown
    BY DEF Passes
  <2>3. IsLeft(i) => shown' \in {shown, Nothing}
    BY DEF IsLeft, Leave
  <2>4. AskedAgain(i) => shown' = shown
    BY DEF AskedAgain, AskInTurn
  <2> QED
    BY <1>6, <2>1, <2>2, <2>3, <2>4
<1>8. ASSUME NEW k \in 1..Len(flight), Serve(k) \/ Arrive(k) \/ Fail(k) PROVE shown'.ver <= db'
  <2>1. flight[k].ver <= db
    BY DEF PaneTyped, FlightTyped
  <2>2. Serve(k) => shown' = shown /\ db' = db
    BY DEF Serve
  <2>3. Arrive(k) => shown'.ver = flight[k].ver /\ db' = db
    BY DEF Arrive
  <2>4. Fail(k) => shown' \in {shown, Nothing} /\ db' = db
    BY DEF Fail
  <2> QED
    BY <1>6, <1>8, <2>1, <2>2, <2>3, <2>4
<1>9. CASE Tick \/ RefuseUnread
  <2>1. shown' = shown /\ db' = db
    BY <1>9 DEF Tick, Ask, AskInTurn, RefuseUnread, Reload
  <2> QED
    BY <1>6, <2>1
<1>10. CASE Submit
  <2>1. shown' = shown
    BY <1>3, <1>10 DEF Submit, Ahead
  <2> QED
    BY <1>6, <1>10, <2>1 DEF Submit
<1>11. CASE Commit \/ FinishLater \/ Refuse \/ Elsewhere
  <2>1. shown' = shown /\ db' \in {db, db + 1}
    BY <1>11 DEF Commit, FinishLater, Refuse, Elsewhere, Bump
  <2> QED
    BY <1>6, <2>1
<1>12. CASE Return
  <2>1. /\ db' = db
        /\ \/ Leave(flight)
           \/ AskInTurn(<<Carried>>, Why)
           \/ Patch(call.ver)
           \/ shown' = shown
    BY <1>12, ReturnShape
  <2>2. Leave(flight) => shown' \in {shown, Nothing}
    BY DEF Leave
  <2>3. AskInTurn(<<Carried>>, Why) => shown' = shown
    BY DEF AskInTurn
  <2>4. Patch(call.ver) => shown'.ver = call.ver
    BY PatchShape
  <2>5. call.ver <= db
    BY DEF PaneTyped
  <2> QED
    BY <1>6, <2>1, <2>2, <2>3, <2>4, <2>5
<1> QED
  BY <1>7, <1>8, <1>9, <1>10, <1>11, <1>12 DEF ScreenNext

-----------------------------------------------------------------------------
(* What the pane carries is what its page watches.                              *)
LEMMA Watching ==
    ASSUME subject \in Subjects, PaneHeld # {}
    PROVE  /\ PaneHeld \subseteq Pane.uses \cap PaneParams(Pane) /\ Pane.needs \subseteq Pane.deps
           /\ Pane.once => /\ PaneHeld \subseteq Pane.needs
                           /\ \A r \in Page.follows : r[2] \notin Pane.deps
           /\ ~Pane.once => \A i \in PaneHeld \ Pane.deps :
                /\ \E j \in Pane.needs : <<i, j>> \in Adjusts(Page)
                /\ \A r \in Adjusts(Page) : r[2] # i
           /\ subject.op # NoOp => /\ Op.closes \cap PaneHeld \subseteq Pane.needs
                                   /\ Pane.once => ~Patches
<1>1. /\ subject.page \in DOMAIN Pages /\ subject.pane \in ShownPanes(Pages[subject.page])
      /\ subject.op # NoOp => /\ subject.op \in OfferedOps(Pages[subject.page])
                              /\ Touches(Pages[subject.page], subject.op, subject.pane)
  BY WhereItIs DEF Page
<1>2. Watches(subject.page, subject.pane)
  BY <1>1, WatchAssumption DEF PaneHeld
<1>3. Pane = Pages[subject.page].panes[subject.pane] /\ Page = Pages[subject.page]
  BY DEF Pane, Page
<1>4. /\ PaneHeld \subseteq PaneParams(Pane) /\ Pane.needs \subseteq Pane.deps
      /\ IF Pane.once
         THEN PaneHeld \subseteq Pane.needs /\ \A r \in Page.follows : r[2] \notin Pane.deps
         ELSE \A i \in PaneHeld \ Pane.deps :
                /\ \E j \in Pane.needs : <<i, j>> \in Adjusts(Page)
                /\ \A r \in Adjusts(Page) : r[2] # i
  BY <1>2 DEF Watches, PaneHeld, Pane, Page
<1>5. \A o \in OfferedOps(Page) : Touches(Page, o, subject.pane) =>
              /\ Page.ops[o].closes \cap PaneHeld \subseteq Pane.needs
              /\ Pane.once => subject.pane \notin Page.ops[o].patches
  BY <1>2 DEF Watches, PaneHeld, Pane, Page
<1>6. subject.op # NoOp => /\ Op.closes \cap PaneHeld \subseteq Pane.needs
                           /\ Pane.once => ~Patches
  BY <1>1, <1>3, <1>5 DEF Op, Patches
<1>7. PaneHeld \subseteq Pane.uses
  BY DEF PaneHeld, Held, Pane, Page
<1> QED
  BY <1>4, <1>6, <1>7

(* What is needed is chosen exactly when nothing of it is unmet.                *)
LEMMA ChosenOrUnmet ==
    ASSUME NEW f \in [Relevant -> 0..1]
    PROVE  ~Unmet(f) <=> \A j \in Pane.needs : f[j] = 1
<1>1. Pane.needs \subseteq Relevant
  BY Bears
<1> QED
  BY <1>1 DEF Unmet

(* A change of i that the effect of the pane does not see changes nothing that
   it carries, while what it needs is chosen.                                   *)
LEMMA UnseenChange ==
    ASSUME PaneTyped, PaneHeld # {}, NEW i \in Relevant, ~Watched(After(i)), ~Unmet(After(i))
    PROVE  /\ \A h \in PaneHeld : After(i)[h] = input[h]
           /\ \A j \in Pane.needs : input[j] = 1
<1>1. After(i) \in [Relevant -> 0..1] /\ subject \in Subjects
  BY AfterTyped DEF PaneTyped
<1>2. \A j \in Pane.deps : After(i)[j] = input[j]
  BY DEF Watched
<1>3. \A j \in Pane.needs : After(i)[j] = 1
  BY <1>1, ChosenOrUnmet
<1>4. Pane.needs \subseteq Pane.deps /\ PaneHeld \subseteq Relevant /\ Pane.needs \subseteq Relevant
  BY <1>1, Watching, Bears
<1>5. ASSUME NEW h \in PaneHeld PROVE After(i)[h] = input[h]
  <2>1. CASE h \in Pane.deps
    BY <1>2, <2>1
  <2>2. CASE h \notin Pane.deps
    <3>1. ~Pane.once
      BY <1>1, <1>4, <2>2, Watching
    <3>2. PICK j \in Pane.needs : <<h, j>> \in Adjusts(Page)
      BY <1>1, <2>2, <3>1, Watching
    <3>3. \A r \in Adjusts(Page) : r[2] # h
      BY <1>1, <2>2, <3>1, Watching
    <3>4. h \notin ResetBy(Page.resets, i) \cup ResetBy(Page.follows, i)
      BY <3>3, Adjusted
    <3>5. CASE h = i
      <4>1. j \in ResetBy(Page.resets, i) \cup ResetBy(Page.follows, i)
        BY <1>4, <3>2, <3>5, Adjusted
      <4>2. j # i /\ j \in Relevant
        BY <1>4, <2>2, <3>5
      <4>3. After(i)[j] = 0
        BY <4>1, <4>2, AfterValues
      <4> QED
        BY <1>3, <4>3
    <3>6. CASE h # i
      BY <1>4, <3>4, <3>6, AfterValues
    <3> QED
      BY <3>5, <3>6
  <2> QED
    BY <2>1, <2>2
<1> QED
  BY <1>2, <1>3, <1>4, <1>5

(* The last request that a change of i sends carries what is chosen after it.   *)
LEMMA AskedFresh ==
    ASSUME PaneTyped, PaneHeld # {}, NEW i \in Relevant, AskedAgain(i)
    PROVE  \E with : /\ \/ Asked(with, with)
                        \/ Twice(i) /\ Asked(First(i), with)
                     /\ with \in {First(i), After(i)} /\ with \in [Relevant -> 0..Left]
                     /\ notice' = Notice("loading") /\ excuse' = {} /\ shown' = shown
                     /\ \A h \in PaneHeld : with[h] = After(i)[h]
<1>1. /\ After(i) \in [Relevant -> 0..Left] /\ First(i) \in [Relevant -> 0..Left]
      /\ subject \in Subjects
  BY AfterTyped DEF PaneTyped
<1>2. CASE Twice(i) /\ AskInTurn(<<First(i), After(i)>>, {})
  <2>1. Asked(First(i), After(i)) /\ notice' = Notice("loading") /\ excuse' = {} /\ shown' = shown
    BY <1>1, <1>2, AskTwice
  <2> QED
    BY <1>1, <1>2, <2>1
<1>3. CASE ~Twice(i) /\ i \in Pane.deps /\ AskInTurn(<<First(i)>>, {})
  <2>1. Asked(First(i), First(i)) /\ notice' = Notice("loading") /\ excuse' = {} /\ shown' = shown
    BY <1>1, <1>3, AskOnce
  <2>2. ASSUME NEW h \in PaneHeld PROVE First(i)[h] = After(i)[h]
    <3>1. h \in Relevant
      BY Bears
    <3>2. CASE h \in Pane.deps
      <4>1. h \notin ResetBy(Page.follows, i)
        BY <1>3, <3>2 DEF Twice
      <4> QED
        BY <3>1, <4>1, AfterValues
    <3>3. CASE h \notin Pane.deps
      <4>1. ~Pane.once
        BY <1>1, <3>3, Watching
      <4>2. \A r \in Adjusts(Page) : r[2] # h
        BY <1>1, <3>3, <4>1, Watching
      <4>3. h \notin ResetBy(Page.follows, i)
        BY <4>2, Adjusted
      <4> QED
        BY <3>1, <4>3, AfterValues
    <3> QED
      BY <3>2, <3>3
  <2> QED
    BY <1>1, <2>1, <2>2
<1>4. CASE i \notin Pane.deps /\ AskInTurn(<<After(i)>>, {})
  <2>1. Asked(After(i), After(i)) /\ notice' = Notice("loading") /\ excuse' = {} /\ shown' = shown
    BY <1>1, <1>4, AskOnce
  <2> QED
    BY <1>1, <2>1
<1> QED
  BY <1>2, <1>3, <1>4 DEF AskedAgain

-----------------------------------------------------------------------------
(* The last request carries what is chosen, or the pane shows it.               *)
LEMMA InStepKept ==
    ASSUME InStep, subject' = subject, \A h \in PaneHeld : input'[h] = input[h],
           flight' = flight, shown' = shown, notice' = notice, excuse' = excuse
    PROVE  InStep'
<1>1. PaneHeld' = PaneHeld
  BY StudyKept
<1>2. \A with : Fresh(with) => \A h \in PaneHeld : h \in DOMAIN with /\ with[h] = input'[h]
  BY DEF Fresh
<1> QED
  BY <1>1, <1>2 DEF InStep, Fresh, Last

LEMMA InStepAsked ==
    ASSUME PaneTyped, subject' = subject, NEW first, NEW with \in [Relevant -> 0..Left],
           Asked(first, with),
           "closure" \in excuse' \/ \A h \in PaneHeld : with[h] = input'[h]
    PROVE  InStep'
<1>1. PaneHeld' = PaneHeld /\ PaneHeld \subseteq Relevant
  BY StudyKept, Bears
<1>2. Len(flight') \in 1..MaxFlight /\ flight'[Len(flight')].with = with
  BY RequestTyped DEF Asked
<1>3. flight' # <<>>
  BY <1>2
<1>4. DOMAIN with = Relevant
  OBVIOUS
<1> QED
  BY <1>1, <1>2, <1>3, <1>4 DEF InStep, Fresh, Last

LEMMA InStepPatched ==
    ASSUME PaneTyped, InStep, subject' = subject, NEW version, Patch(version),
           \A h \in PaneHeld : input'[h] = input[h], notice' = notice, excuse' = excuse
    PROVE  InStep'
<1>1. PaneHeld' = PaneHeld
  BY StudyKept
<1>2. /\ flight \in Seq(Requests) /\ flight' \in Seq(Requests) /\ Len(flight') = Len(flight)
      /\ \A k \in 1..Len(flight) : flight'[k].old
      /\ shown'.with = shown.with
  BY PatchShape DEF PaneTyped, FlightTyped
<1>3. CASE flight = <<>>
  <2>1. flight' = <<>>
    BY <1>2, <1>3
  <2> QED
    BY <1>1, <1>2, <1>3, <2>1 DEF InStep, Fresh
<1>4. CASE flight # <<>>
  <2>1. flight' # <<>> /\ Len(flight') \in 1..Len(flight)
    BY <1>2, <1>4
  <2> QED
    BY <1>2, <2>1 DEF InStep, Last
<1> QED
  BY <1>3, <1>4

LEMMA InStepServed ==
    ASSUME PaneTyped, InStep, NEW k \in 1..Len(flight), Serve(k)
    PROVE  InStep'
<1>1. subject' = subject /\ input' = input /\ shown' = shown /\ notice' = notice /\ excuse' = excuse
  BY DEF Serve
<1>2. PaneHeld' = PaneHeld
  BY <1>1, StudyKept
<1>3. /\ flight \in Seq(Requests) /\ flight' \in Seq(Requests) /\ Len(flight') = Len(flight)
      /\ \A j \in 1..Len(flight) :
           flight'[j].with = flight[j].with /\ flight'[j].old = flight[j].old
  BY ServeShape DEF PaneTyped, FlightTyped
<1>4. Len(flight) \in Nat /\ flight # <<>> /\ flight' # <<>> /\ Len(flight) \in 1..Len(flight)
  BY <1>3
<1>5. Last'.with = Last.with /\ Last'.old = Last.old
  BY <1>3, <1>4 DEF Last
<1> QED
  BY <1>1, <1>2, <1>4, <1>5 DEF InStep, Fresh

LEMMA InStepArrived ==
    ASSUME PaneTyped, PaneHeld # {}, InStep, NEW k \in 1..Len(flight), Arrive(k)
    PROVE  InStep'
<1>1. /\ subject' = subject /\ input' = input /\ flight' = Forget(k)
      /\ shown'.with = [i \in Pane.uses \cap PaneParams(Pane) |-> flight[k].with[i]]
      /\ flight[k].old => "overtaken" \in excuse'
      /\ "closure" \in excuse => "closure" \in excuse'
  BY DEF Arrive
<1>2. PaneHeld' = PaneHeld /\ PaneHeld \subseteq Pane.uses \cap PaneParams(Pane)
  BY <1>1, StudyKept, Watching DEF PaneTyped
<1>3. /\ flight \in Seq(Requests) /\ flight' \in Seq(Requests) /\ Len(flight') = Len(flight) - 1
      /\ k < Len(flight) => Len(flight') > 0 /\ flight'[Len(flight')] = flight[Len(flight)]
      /\ (k = Len(flight) /\ Len(flight') > 0) => flight'[Len(flight')].old
  BY <1>1, ForgetShape DEF PaneTyped, FlightTyped
<1>4. flight # <<>> /\ Len(flight) \in Nat
  BY <1>3
<1>5. Last.old \/ "closure" \in excuse \/ Fresh(Last.with)
  BY <1>4 DEF InStep
<1>6. CASE k < Len(flight)
  <2>1. flight' # <<>> /\ Last' = Last
    BY <1>3, <1>6 DEF Last
  <2> QED
    BY <1>1, <1>2, <1>5, <2>1 DEF InStep, Fresh
<1>7. CASE k = Len(flight) /\ flight' # <<>>
  <2>1. Last'.old
    BY <1>3, <1>7 DEF Last
  <2> QED
    BY <1>7, <2>1 DEF InStep
<1>8. CASE k = Len(flight) /\ flight' = <<>>
  <2>1. CASE Last.old \/ "closure" \in excuse
    <3>1. excuse' # {}
      BY <1>1, <1>8, <2>1 DEF Last
    <3> QED
      BY <1>8, <3>1 DEF InStep
  <2>2. CASE Fresh(Last.with)
    <3>1. \A h \in PaneHeld : h \in DOMAIN shown'.with /\ shown'.with[h] = input[h]
      BY <1>1, <1>2, <1>8, <2>2 DEF Fresh, Last
    <3> QED
      BY <1>1, <1>2, <1>8, <3>1 DEF InStep, Fresh
  <2> QED
    BY <1>5, <2>1, <2>2
<1>9. k < Len(flight) \/ k = Len(flight)
  BY <1>4
<1> QED
  BY <1>6, <1>7, <1>8, <1>9

(* A failure is said, is swallowed, or leaves the loading flag up.              *)
LEMMA FailSays ==
    ASSUME PaneTyped, NEW k \in 1..Len(flight), Fail(k)
    PROVE  /\ notice' # "quiet" \/ excuse' # {}
           /\ excuse \subseteq excuse'
<1>1. Pane.fails \in {"said", "kept", "cleared", "stuck", "lasting"}
  BY PaneRecord DEF PaneTyped
<1>2. CASE Pane.fails \in {"said", "lasting"}
  <2>1. notice' = "error"
    BY <1>2 DEF Fail
  <2> QED
    BY <1>2, <2>1 DEF Fail
<1>3. CASE Pane.fails = "stuck"
  <2>1. notice' = "loading"
    BY <1>3 DEF Fail
  <2> QED
    BY <1>3, <2>1 DEF Fail
<1>4. CASE Pane.fails \in {"kept", "cleared"}
  BY <1>4 DEF Fail
<1> QED
  BY <1>1, <1>2, <1>3, <1>4

LEMMA InStepFailed ==
    ASSUME PaneTyped, InStep, NEW k \in 1..Len(flight), Fail(k)
    PROVE  InStep'
<1>1. /\ subject' = subject /\ input' = input /\ flight' = Forget(k)
      /\ notice' # "quiet" \/ excuse' # {}
      /\ excuse \subseteq excuse'
  BY FailSays DEF Fail
<1>2. PaneHeld' = PaneHeld
  BY <1>1, StudyKept
<1>3. /\ flight \in Seq(Requests) /\ flight' \in Seq(Requests) /\ Len(flight') = Len(flight) - 1
      /\ k < Len(flight) => Len(flight') > 0 /\ flight'[Len(flight')] = flight[Len(flight)]
      /\ (k = Len(flight) /\ Len(flight') > 0) => flight'[Len(flight')].old
  BY <1>1, ForgetShape DEF PaneTyped, FlightTyped
<1>4. flight # <<>> /\ Len(flight) \in Nat
  BY <1>3
<1>5. CASE k < Len(flight)
  <2>1. flight' # <<>> /\ Last' = Last
    BY <1>3, <1>5 DEF Last
  <2> QED
    BY <1>1, <1>2, <1>4, <2>1 DEF InStep, Fresh
<1>6. CASE k = Len(flight) /\ flight' # <<>>
  <2>1. Last'.old
    BY <1>3, <1>6 DEF Last
  <2> QED
    BY <1>6, <2>1 DEF InStep
<1>7. CASE flight' = <<>>
  BY <1>1, <1>7 DEF InStep
<1>8. k < Len(flight) \/ k = Len(flight)
  BY <1>4
<1> QED
  BY <1>5, <1>6, <1>7, <1>8

LEMMA ChosenStep ==
    ASSUME PaneTyped, CallInv, OnceInv, ChosenInv, ScreenNext, PaneTyped'
    PROVE  ChosenInv'
<1>1. subject' = subject
  BY DEF ScreenNext, Change, Serve, Arrive, Fail, Tick, Submit, Commit, Return, FinishLater,
         Refuse, RefuseUnread, Elsewhere
<1>2. PaneHeld' = PaneHeld /\ Pane' = Pane /\ Relevant' = Relevant
  BY <1>1, StudyKept
<1>3. SUFFICES ASSUME PaneHeld # {}, \A j \in Pane.needs : input'[j] = 1
               PROVE  InStep'
  BY <1>2 DEF ChosenInv, Chosen
<1>4. subject \in Subjects /\ input \in [Relevant -> 0..1]
  BY DEF PaneTyped
<1>5. (\A j \in Pane.needs : input[j] = 1) => InStep
  BY <1>3 DEF ChosenInv, Chosen
<1>6. Pane.needs \subseteq Relevant /\ PaneHeld \subseteq Relevant
  BY Bears
<1>7. input' = input => InStep
  BY <1>3, <1>5
<1>8. ASSUME input' = input, flight' = flight, shown' = shown, notice' = notice, excuse' = excuse
      PROVE  InStep'
  BY <1>1, <1>7, <1>8, InStepKept
<1>9. ASSUME input' = input, Reload
      PROVE  InStep'
  <2>1. AskInTurn(<<Carried>>, Why) /\ Carried \in [Relevant -> 0..Left]
    BY <1>9, CarriedTyped DEF Reload, Why
  <2>2. Asked(Carried, Carried) /\ excuse' = Why
    BY <2>1, AskOnce
  <2>3. "closure" \in Why \/ \A h \in PaneHeld : Carried[h] = input'[h]
    BY <1>3, <1>4, Watching DEF Why
  <2> QED
    BY <1>1, <2>1, <2>2, <2>3, InStepAsked
<1>10. ASSUME NEW i \in Relevant, Change(i) PROVE InStep'
  <2>1. input' = After(i) /\ (Passes(i) \/ IsLeft(i) \/ AskedAgain(i))
    BY <1>10, ChangeShape
  <2>2. ~Unmet(After(i))
    BY <1>3, <2>1, AfterTyped, ChosenOrUnmet
  <2>3. CASE Passes(i) /\ ~Watched(After(i))
    <3>1. /\ \A h \in PaneHeld : After(i)[h] = input[h]
          /\ \A j \in Pane.needs : input[j] = 1
      BY <1>3, <2>2, <2>3, UnseenChange
    <3> QED
      BY <1>1, <1>5, <2>1, <2>3, <3>1, InStepKept DEF Passes
  <2>4. CASE Passes(i) /\ Pane.once /\ shown # Nothing
    <3>1. /\ \A k \in 1..Len(flight) : Kept(flight[k].with)
          /\ Kept(shown.with)
      BY <1>3, <2>4 DEF OnceInv
    <3>2. \A h \in PaneHeld : input'[h] = 1
      BY <1>3, <1>4, <2>4, Watching
    <3>3. \A with : Kept(with) => \A h \in PaneHeld : h \in DOMAIN with /\ with[h] = input'[h]
      BY <3>2 DEF Kept
    <3>4. flight' = flight /\ shown' = shown /\ flight \in Seq(Requests)
      BY <2>4 DEF Passes, PaneTyped, FlightTyped
    <3>5. CASE flight = <<>>
      BY <1>2, <3>1, <3>3, <3>4, <3>5 DEF InStep, Fresh
    <3>6. CASE flight # <<>>
      <4>1. Len(flight) \in 1..Len(flight)
        BY <3>4, <3>6
      <4>2. Kept(Last.with)
        BY <3>1, <4>1 DEF Last
      <4> QED
        BY <1>2, <3>3, <3>4, <3>6, <4>2 DEF InStep, Fresh, Last
    <3> QED
      BY <3>5, <3>6
  <2>5. ~IsLeft(i)
    BY <2>2 DEF IsLeft
  <2>6. CASE AskedAgain(i)
    <3>1. PICK with : /\ Asked(with, with) \/ Asked(First(i), with)
                      /\ with \in [Relevant -> 0..Left]
                      /\ \A h \in PaneHeld : with[h] = After(i)[h]
      BY <1>3, <2>6, AskedFresh
    <3> QED
      BY <1>1, <2>1, <3>1, InStepAsked
  <2> QED
    BY <2>1, <2>2, <2>3, <2>4, <2>5, <2>6 DEF Passes
<1>11. ASSUME NEW k \in 1..Len(flight), Serve(k) \/ Arrive(k) \/ Fail(k) PROVE InStep'
  <2>1. InStep
    BY <1>7, <1>11 DEF Serve, Arrive, Fail
  <2> QED
    BY <1>3, <1>11, <2>1, InStepServed, InStepArrived, InStepFailed
<1>12. CASE Tick
  <2>1. AskInTurn(<<input>>, {}) /\ input' = input /\ input \in [Relevant -> 0..Left]
    BY <1>12, CarriedTyped DEF Tick, Ask
  <2>2. Asked(input, input)
    BY <2>1, AskOnce
  <2> QED
    BY <1>1, <2>1, <2>2, InStepAsked
<1>13. CASE Submit
  <2>1. input' = input /\ notice' = notice /\ excuse' = excuse
    BY <1>13 DEF Submit
  <2>2. CASE Patch(db + 1)
    BY <1>1, <1>7, <2>1, <2>2, InStepPatched
  <2>3. CASE flight' = flight /\ shown' = shown
    BY <1>8, <2>1, <2>3
  <2> QED
    BY <1>13, <2>2, <2>3 DEF Submit
<1>14. CASE Return
  <2>1. /\ call.at = "committed" /\ input' = Closed
        /\ \/ Watched(Closed) /\ Unmet(Closed) /\ Leave(flight)
           \/ AskInTurn(<<Carried>>, Why)
           \/ Patch(call.ver) /\ notice' = notice /\ excuse' = excuse
           \/ /\ flight' = flight /\ shown' = shown
              /\ notice' = notice /\ excuse' = excuse
    BY <1>14, ReturnShape
  <2>2. /\ Closed \in [Relevant -> 0..1] /\ Carried \in [Relevant -> 0..Left]
        /\ \A j \in Relevant : Closed[j] = IF j \in Op.closes THEN 0 ELSE input[j]
    BY CarriedTyped
  <2>3. ~Unmet(Closed)
    BY <1>3, <2>1, <2>2, ChosenOrUnmet
  <2>4. subject.op # NoOp
    BY <2>1 DEF CallInv
  <2>5. \A h \in PaneHeld : input'[h] = input[h]
    <3>1. Op.closes \cap PaneHeld \subseteq Pane.needs
      BY <1>3, <1>4, <2>4, Watching
    <3> QED
      BY <1>3, <1>6, <2>1, <2>2, <3>1
  <2>6. InStep
    BY <1>3, <1>5, <1>6, <2>1, <2>2
  <2>7. CASE AskInTurn(<<Carried>>, Why)
    <3>1. Asked(Carried, Carried) /\ excuse' = Why
      BY <2>2, <2>7, AskOnce
    <3>2. "closure" \in Why \/ \A h \in PaneHeld : Carried[h] = input'[h]
      BY <1>3, <1>4, Watching DEF Why
    <3> QED
      BY <1>1, <2>2, <3>1, <3>2, InStepAsked
  <2>8. CASE Patch(call.ver) /\ notice' = notice /\ excuse' = excuse
    BY <1>1, <2>5, <2>6, <2>8, InStepPatched
  <2>9. CASE flight' = flight /\ shown' = shown /\ notice' = notice /\ excuse' = excuse
    BY <1>1, <2>5, <2>6, <2>9, InStepKept
  <2> QED
    BY <2>1, <2>3, <2>7, <2>8, <2>9
<1>15. CASE Commit \/ FinishLater \/ Refuse \/ Elsewhere
  BY <1>8, <1>15 DEF Commit, FinishLater, Refuse, Elsewhere
<1>16. CASE RefuseUnread
  BY <1>9, <1>16 DEF RefuseUnread
<1> QED
  BY <1>10, <1>11, <1>12, <1>13, <1>14, <1>15, <1>16 DEF ScreenNext

-----------------------------------------------------------------------------
(* A pane that keeps its answers asks, and shows, with what it needs chosen.    *)
LEMMA OnceStep ==
    ASSUME PaneTyped, CallInv, OnceInv, ScreenNext
    PROVE  OnceInv'
<1>1. subject' = subject
  BY DEF ScreenNext, Change, Serve, Arrive, Fail, Tick, Submit, Commit, Return, FinishLater,
         Refuse, RefuseUnread, Elsewhere
<1>2. PaneHeld' = PaneHeld /\ Pane' = Pane
  BY <1>1, StudyKept
<1>3. SUFFICES ASSUME PaneHeld # {}, Pane.once
               PROVE  /\ \A k \in 1..Len(flight') : Kept(flight'[k].with)
                      /\ shown' = Nothing \/ Kept(shown'.with)
  BY <1>2 DEF OnceInv, Kept
<1>4. subject \in Subjects /\ input \in [Relevant -> 0..1] /\ flight \in Seq(Requests)
  BY DEF PaneTyped, FlightTyped
<1>5. /\ PaneHeld \subseteq Pane.uses \cap PaneParams(Pane)
      /\ PaneHeld \subseteq Pane.needs /\ Pane.needs \subseteq Pane.deps
      /\ \A r \in Page.follows : r[2] \notin Pane.deps
      /\ subject.op # NoOp => ~Patches
      /\ Pane.needs \subseteq Relevant
  BY <1>3, <1>4, Watching, Bears
<1>6. /\ \A k \in 1..Len(flight) : Kept(flight[k].with)
      /\ shown = Nothing \/ Kept(shown.with)
  BY <1>3 DEF OnceInv
<1>7. ASSUME NEW with \in [Relevant -> 0..Left], \A j \in Pane.needs : with[j] = 1
      PROVE  Kept(with)
  BY <1>5, <1>7 DEF Kept
<1>8. ASSUME NEW with \in [Relevant -> 0..Left], Asked(with, with), Kept(with), shown' = shown
      PROVE  /\ \A k \in 1..Len(flight') : Kept(flight'[k].with)
             /\ shown' = Nothing \/ Kept(shown'.with)
  <2>1. \A k \in 1..Len(flight') : Kept(flight'[k].with)
    <3> TAKE k \in 1..Len(flight')
    <3>1. flight'[k] = Request(with) \/ \E m \in 1..Len(flight) : flight'[k] = flight[m]
      BY <1>8 DEF Asked
    <3> QED
      BY <1>6, <1>8, <3>1, RequestTyped
  <2> QED
    BY <1>6, <1>8, <2>1
<1>9. ASSUME NEW i \in Relevant, Change(i)
      PROVE  /\ \A k \in 1..Len(flight') : Kept(flight'[k].with)
             /\ shown' = Nothing \/ Kept(shown'.with)
  <2>1. Passes(i) \/ IsLeft(i) \/ AskedAgain(i)
    BY <1>9, ChangeShape
  <2>2. \A j \in Pane.deps : j \notin ResetBy(Page.follows, i)
    BY <1>5 DEF ResetBy
  <2>3. ~Stray(i) /\ ~Twice(i)
    BY <2>2 DEF Stray, Twice
  <2>4. CASE Passes(i)
    BY <1>6, <2>4 DEF Passes
  <2>5. CASE IsLeft(i)
    <3>1. Leave(flight)
      BY <2>3, <2>5 DEF IsLeft
    <3>2. (flight' = <<>> \/ flight' = flight) /\ shown' = shown
      BY <1>3, <3>1, LeaveShape
    <3> QED
      BY <1>6, <3>2
  <2>6. CASE AskedAgain(i)
    <3>1. PICK with : /\ Asked(with, with) /\ with \in [Relevant -> 0..Left]
                      /\ shown' = shown /\ \A h \in PaneHeld : with[h] = After(i)[h]
      BY <1>3, <2>3, <2>6, AskedFresh
    <3>2. \A j \in Pane.needs : After(i)[j] = 1
      BY <2>6, AfterTyped, ChosenOrUnmet DEF AskedAgain
    <3>3. Kept(with)
      BY <1>5, <3>1, <3>2 DEF Kept
    <3> QED
      BY <1>8, <3>1, <3>3
  <2> QED
    BY <2>1, <2>4, <2>5, <2>6
<1>10. ASSUME NEW k \in 1..Len(flight), Serve(k)
       PROVE  /\ \A j \in 1..Len(flight') : Kept(flight'[j].with)
              /\ shown' = Nothing \/ Kept(shown'.with)
  <2>1. /\ Len(flight') = Len(flight) /\ shown' = shown
        /\ \A j \in 1..Len(flight) : flight'[j].with = flight[j].with
    BY <1>10, ServeShape DEF Serve
  <2> QED
    BY <1>6, <2>1
<1>11. ASSUME NEW k \in 1..Len(flight), Arrive(k) \/ Fail(k)
       PROVE  /\ \A j \in 1..Len(flight') : Kept(flight'[j].with)
              /\ shown' = Nothing \/ Kept(shown'.with)
  <2>1. \A j \in 1..Len(flight') : \E m \in 1..Len(flight) : flight'[j].with = flight[m].with
    BY <1>11, ForgetShape DEF Arrive, Fail
  <2>2. \A j \in 1..Len(flight') : Kept(flight'[j].with)
    BY <1>6, <2>1
  <2>3. CASE Arrive(k)
    <3>1. shown'.with = [i \in Pane.uses \cap PaneParams(Pane) |-> flight[k].with[i]]
      BY <2>3 DEF Arrive
    <3>2. Kept(flight[k].with)
      BY <1>6
    <3>3. Kept(shown'.with)
      BY <1>5, <3>1, <3>2 DEF Kept
    <3> QED
      BY <2>2, <3>3
  <2>4. CASE Fail(k)
    <3>1. shown' = Nothing \/ shown' = shown
      BY <2>4 DEF Fail
    <3> QED
      BY <1>6, <2>2, <3>1
  <2> QED
    BY <1>11, <2>3, <2>4
<1>12. CASE Tick
  <2>1. /\ AskInTurn(<<input>>, {}) /\ input \in [Relevant -> 0..Left]
        /\ \A j \in Pane.needs : input[j] = 1
    BY <1>12, CarriedTyped DEF Tick, Ask, Chosen
  <2>2. Asked(input, input) /\ shown' = shown
    BY <2>1, AskOnce
  <2> QED
    BY <1>7, <1>8, <2>1, <2>2
<1>13. ASSUME Reloads, AskInTurn(<<Carried>>, Why)
       PROVE  /\ \A k \in 1..Len(flight') : Kept(flight'[k].with)
              /\ shown' = Nothing \/ Kept(shown'.with)
  <2>1. Carried \in [Relevant -> 0..Left] /\ \A j \in Pane.needs : Carried[j] = 1
    BY <1>13, CarriedTyped DEF Reloads
  <2>2. Asked(Carried, Carried) /\ shown' = shown
    BY <1>13, <2>1, AskOnce
  <2> QED
    BY <1>7, <1>8, <2>1, <2>2
<1>14. CASE Submit
  <2>1. flight' = flight /\ shown' = shown
    BY <1>5, <1>14 DEF Submit
  <2> QED
    BY <1>6, <2>1
<1>15. CASE Return
  <2>1. /\ call.at = "committed"
        /\ \/ Leave(flight)
           \/ Reloads /\ AskInTurn(<<Carried>>, Why)
           \/ Patches
           \/ flight' = flight /\ shown' = shown
    BY <1>15, ReturnShape
  <2>2. ~Patches
    BY <1>5, <2>1 DEF CallInv
  <2>3. CASE Leave(flight)
    <3>1. (flight' = <<>> \/ flight' = flight) /\ shown' = shown
      BY <1>3, <2>3, LeaveShape
    <3> QED
      BY <1>6, <3>1
  <2> QED
    BY <1>6, <1>13, <2>1, <2>2, <2>3
<1>16. CASE RefuseUnread
  BY <1>13, <1>16 DEF RefuseUnread, Reload, Why
<1>17. CASE Commit \/ FinishLater \/ Refuse \/ Elsewhere
  BY <1>6, <1>17 DEF Commit, FinishLater, Refuse, Elsewhere
<1> QED
  BY <1>9, <1>10, <1>11, <1>12, <1>14, <1>15, <1>16, <1>17 DEF ScreenNext

-----------------------------------------------------------------------------
(* What a handler writes reaches the pane.                                      *)
LEMMA Following ==
    ASSUME subject \in Subjects, Followed
    PROVE  /\ Op.does.later \cap PaneReads(Pane) = {}
           /\ Pane.deps = {} \/ Renewed(Pane)
           /\ \/ /\ subject.pane \in Op.again
                 /\ IF Op.by = "closure" THEN Pane.needs \subseteq Op.needs ELSE Renewed(Pane)
              \/ Patches /\ (Op.early => Pane.deps = {})
              \/ Renewed(Pane) /\ Op.closes \cap Pane.needs # {}
<1>1. /\ subject.page \in DOMAIN Pages /\ subject.pane \in ShownPanes(Pages[subject.page])
      /\ subject.op \in OfferedOps(Pages[subject.page])
      /\ Touches(Pages[subject.page], subject.op, subject.pane)
  BY WhereItIs DEF Page, Followed
<1>2. /\ <<subject.page, subject.op, subject.pane>> \notin LeftBehind /\ ~Pane.timer
      /\ OpWrites(Op) \cap PaneReads(Pane) # {}
  BY DEF Followed
<1>3. FollowsUp(subject.page, subject.op, subject.pane)
  BY <1>1, <1>2, FollowUpAssumption DEF Pane, Op, Page
<1> QED
  BY <1>3 DEF FollowsUp, Patches, Pane, Op, Page

(* An early patch has overtaken whatever is under way.                          *)
LEMMA EarlyStep ==
    ASSUME PaneTyped, CallInv, EarlyInv, ScreenNext, PaneTyped'
    PROVE  EarlyInv'
<1>1. subject' = subject
  BY DEF ScreenNext, Change, Serve, Arrive, Fail, Tick, Submit, Commit, Return, FinishLater,
         Refuse, RefuseUnread, Elsewhere
<1>2. Followed' = Followed /\ Ahead' = Ahead /\ Pane' = Pane
  BY <1>1, StudyKept
<1> DEFINE Due  == IF call.at = "sent" THEN db + 1 ELSE db
           Done == /\ \A k \in 1..Len(flight) : flight[k].old
                   /\ flight = <<>> => excuse # {} \/ notice # "quiet" \/ shown.ver >= Due
<1>3. SUFFICES ASSUME Followed, Ahead, Pane.deps = {}, call'.at \in {"sent", "committed"}
               PROVE  Done'
  BY <1>2 DEF EarlyInv
<1>4. call.at \in {"sent", "committed"} => Done
  BY <1>3 DEF EarlyInv
<1>5. call \in Commands /\ db \in Nat /\ flight \in Seq(Requests) /\ shown.ver \in 0..db + 1
  BY DEF PaneTyped, FlightTyped
<1>6. ASSUME call' = call, db' = db, flight' = flight, excuse' = excuse, notice' = notice,
             shown' = shown
      PROVE  Done'
  BY <1>3, <1>4, <1>6
<1>7. ASSUME NEW i \in Relevant, Change(i) PROVE Done'
  <2>1. ~Watched(After(i))
    BY <1>3 DEF Watched
  <2>2. call' = call /\ db' = db /\ Passes(i)
    BY <1>7, <2>1, ChangeShape DEF IsLeft, AskedAgain
  <2> QED
    BY <1>6, <2>2 DEF Passes
<1>8. ASSUME NEW k \in 1..Len(flight), Serve(k) PROVE Done'
  <2>1. call' = call /\ db' = db /\ Done
    BY <1>3, <1>4, <1>8 DEF Serve
  <2>2. /\ flight' \in Seq(Requests) /\ Len(flight') = Len(flight)
        /\ \A j \in 1..Len(flight) : flight'[j].old = flight[j].old
    BY <1>8, ServeShape
  <2>3. flight' # <<>>
    BY <1>5, <2>2
  <2> QED
    BY <2>1, <2>2, <2>3
<1>9. ASSUME NEW k \in 1..Len(flight), Arrive(k) \/ Fail(k) PROVE Done'
  <2>1. Done
    BY <1>3, <1>4, <1>9 DEF Arrive, Fail
  <2>2. /\ Len(flight') \in Nat
        /\ \A j \in 1..Len(flight') : \E m \in 1..Len(flight) : flight[m].old => flight'[j].old
    BY <1>9, ForgetShape DEF Arrive, Fail
  <2>3. \A j \in 1..Len(flight') : flight'[j].old
    BY <2>1, <2>2
  <2>4. excuse' # {} \/ notice' # "quiet"
    <3>1. Arrive(k) => "overtaken" \in excuse'
      BY <2>1 DEF Arrive
    <3> QED
      BY <1>9, <3>1, FailSays
  <2> QED
    BY <2>3, <2>4
<1>10. ~Tick /\ ~Elsewhere
  BY <1>3 DEF Tick, Elsewhere, Followed
<1>11. CASE Submit
  <2>1. Patch(db + 1) /\ db' = db /\ call' = [call EXCEPT !.at = "sent", !.with = input]
    BY <1>3, <1>11 DEF Submit, Ahead
  <2>2. call'.at = "sent"
    BY <1>5, <2>1 DEF Commands
  <2>3. /\ flight' \in Seq(Requests) /\ Len(flight') = Len(flight)
        /\ \A k \in 1..Len(flight) : flight'[k].old
        /\ shown'.ver = db + 1
    BY <2>1, PatchShape
  <2> QED
    BY <1>5, <2>1, <2>2, <2>3
<1>12. CASE Commit
  <2>1. /\ call.at = "sent" /\ call' = [call EXCEPT !.at = "committed", !.ver = db']
        /\ flight' = flight /\ shown' = shown /\ notice' = notice /\ excuse' = excuse
        /\ db' \in {db, db + 1}
    BY <1>12 DEF Commit, Bump
  <2>2. call'.at = "committed" /\ Done
    BY <1>4, <1>5, <2>1 DEF Commands
  <2>3. shown.ver >= db + 1 => shown.ver >= db'
    BY <1>5, <2>1
  <2> QED
    BY <2>1, <2>2, <2>3
<1>13. ~(Return \/ FinishLater \/ Refuse \/ RefuseUnread)
  <2>1. (Return \/ FinishLater \/ Refuse \/ RefuseUnread) => call'.at \in {"done", "left", "failed"}
    BY <1>5 DEF Return, FinishLater, Refuse, RefuseUnread, Commands
  <2> QED
    BY <1>3, <2>1
<1> QED
  BY <1>7, <1>8, <1>9, <1>10, <1>11, <1>12, <1>13 DEF ScreenNext

-----------------------------------------------------------------------------
(* What was written is shown, on its way, or explained.                         *)
LEMMA WrittenServed ==
    ASSUME PaneTyped, UpTo(db), NEW k \in 1..Len(flight), Serve(k)
    PROVE  UpTo(db)'
<1>1. shown' = shown /\ notice' = notice /\ excuse' = excuse /\ db' = db /\ db \in Nat
  BY DEF Serve, PaneTyped
<1>2. /\ flight \in Seq(Requests) /\ flight' \in Seq(Requests) /\ Len(flight') = Len(flight)
      /\ \A j \in 1..Len(flight) : j # k => flight'[j] = flight[j]
      /\ flight'[k].ver = db
  BY ServeShape DEF PaneTyped, FlightTyped
<1>3. Len(flight) \in Nat /\ flight # <<>> /\ flight' # <<>> /\ Len(flight) \in 1..Len(flight)
  BY <1>2
<1>4. CASE k = Len(flight)
  BY <1>1, <1>2, <1>3, <1>4 DEF UpTo, Last
<1>5. CASE k # Len(flight)
  <2>1. Last' = Last
    BY <1>2, <1>3, <1>5 DEF Last
  <2> QED
    BY <1>1, <1>3, <2>1 DEF UpTo
<1> QED
  BY <1>4, <1>5

LEMMA WrittenEnded ==
    ASSUME PaneTyped, UpTo(db), NEW k \in 1..Len(flight), Arrive(k) \/ Fail(k)
    PROVE  UpTo(db)'
<1>1. /\ flight' = Forget(k) /\ db' = db /\ db \in Nat
      /\ Arrive(k) => /\ flight[k].at = "served" /\ shown'.ver = flight[k].ver
                      /\ flight[k].old => "overtaken" \in excuse'
  BY DEF Arrive, Fail, PaneTyped
<1>2. /\ flight \in Seq(Requests) /\ flight' \in Seq(Requests) /\ Len(flight') = Len(flight) - 1
      /\ k < Len(flight) => Len(flight') > 0 /\ flight'[Len(flight')] = flight[Len(flight)]
      /\ (k = Len(flight) /\ Len(flight') > 0) => flight'[Len(flight')].old
  BY <1>1, ForgetShape DEF PaneTyped, FlightTyped
<1>3. flight # <<>> /\ Len(flight) \in Nat
  BY <1>2
<1>4. Last.old \/ Last.at = "asked" \/ Last.ver >= db
  BY <1>3 DEF UpTo
<1>5. CASE k < Len(flight)
  <2>1. flight' # <<>> /\ Last' = Last
    BY <1>2, <1>5 DEF Last
  <2> QED
    BY <1>1, <1>4, <2>1 DEF UpTo
<1>6. CASE k = Len(flight) /\ flight' # <<>>
  <2>1. Last'.old
    BY <1>2, <1>6 DEF Last
  <2> QED
    BY <1>6, <2>1 DEF UpTo
<1>7. CASE k = Len(flight) /\ flight' = <<>>
  <2>1. CASE Arrive(k)
    <3>1. excuse' # {} \/ shown'.ver >= db
      BY <1>1, <1>4, <1>7, <2>1 DEF Last
    <3> QED
      BY <1>1, <1>7, <3>1 DEF UpTo
  <2>2. CASE Fail(k)
    <3>1. notice' # "quiet" \/ excuse' # {}
      BY <2>2, FailSays
    <3> QED
      BY <1>7, <3>1 DEF UpTo
  <2> QED
    BY <2>1, <2>2
<1>8. k < Len(flight) \/ k = Len(flight)
  BY <1>3
<1> QED
  BY <1>5, <1>6, <1>7, <1>8

LEMMA WrittenAsked ==
    ASSUME PaneTyped, NEW first, NEW with \in [Relevant -> 0..Left], Asked(first, with)
    PROVE  UpTo(db)'
<1>1. Len(flight') \in 1..MaxFlight /\ flight'[Len(flight')].at = "asked"
  BY RequestTyped DEF Asked
<1>2. flight' # <<>>
  BY <1>1
<1> QED
  BY <1>1, <1>2 DEF UpTo, Last

(* The handler answers: the pane is asked for again, changed or closed.         *)
LEMMA WrittenReturned ==
    ASSUME PaneTyped, CallInv, EarlyInv, Followed, Return,
           (\A j \in Pane.needs : input'[j] = 1) \/ Pane.deps = {}
    PROVE  UpTo(db)'
<1>1. /\ call.at = "committed" /\ input' = Closed /\ db' = db
      /\ \/ Watched(Closed) /\ Unmet(Closed) /\ Leave(flight)
         \/ AskInTurn(<<Carried>>, Why)
         \/ Patch(call.ver) /\ notice' = notice /\ excuse' = excuse
         \/ /\ ~(Watched(Closed) /\ Unmet(Closed)) /\ ~Reloads
            /\ ~(Patches /\ ~Op.early)
            /\ flight' = flight /\ shown' = shown
            /\ notice' = notice /\ excuse' = excuse
  BY ReturnShape
<1>2. call.ver = db /\ subject.op # NoOp /\ \A j \in Op.needs : call.with[j] = 1
  BY <1>1 DEF CallInv, Followed
<1>3. /\ Closed \in [Relevant -> 0..1] /\ Carried \in [Relevant -> 0..Left]
      /\ \A j \in Relevant : Closed[j] = IF j \in Op.closes THEN 0 ELSE input[j]
  BY CarriedTyped
<1>4. subject \in Subjects /\ db \in Nat /\ flight \in Seq(Requests) /\ Pane.needs \subseteq Relevant
  BY Bears DEF PaneTyped, FlightTyped
<1>5. ~(Watched(Closed) /\ Unmet(Closed))
  <2>1. CASE \A j \in Pane.needs : input'[j] = 1
    BY <1>1, <1>3, <2>1, ChosenOrUnmet
  <2>2. CASE Pane.deps = {}
    BY <2>2 DEF Watched
  <2> QED
    BY <2>1, <2>2
<1>6. CASE AskInTurn(<<Carried>>, Why)
  <2>1. Asked(Carried, Carried)
    BY <1>3, <1>6, AskOnce
  <2> QED
    BY <1>3, <2>1, WrittenAsked
<1>7. CASE Patch(call.ver)
  <2>1. /\ flight' \in Seq(Requests) /\ Len(flight') = Len(flight)
        /\ \A k \in 1..Len(flight) : flight'[k].old
        /\ shown'.ver = db
    BY <1>2, <1>7, PatchShape
  <2>2. CASE flight' = <<>>
    BY <1>1, <1>4, <2>1, <2>2 DEF UpTo
  <2>3. CASE flight' # <<>>
    <3>1. Len(flight') \in 1..Len(flight)
      BY <2>1, <2>3
    <3> QED
      BY <2>1, <2>3, <3>1 DEF UpTo, Last
  <2> QED
    BY <2>2, <2>3
<1>8. CASE /\ ~Reloads /\ ~(Patches /\ ~Op.early)
           /\ flight' = flight /\ shown' = shown /\ notice' = notice /\ excuse' = excuse
  <2>1. \/ /\ subject.pane \in Op.again
           /\ IF Op.by = "closure" THEN Pane.needs \subseteq Op.needs ELSE Renewed(Pane)
        \/ Patches /\ (Op.early => Pane.deps = {})
        \/ Renewed(Pane) /\ Op.closes \cap Pane.needs # {}
    BY <1>4, Following
  <2>2. ASSUME Renewed(Pane) PROVE \A j \in Pane.needs : j \notin Op.closes /\ input[j] = 1
    <3>1. \A j \in Pane.needs : input'[j] = 1
      BY <2>2 DEF Renewed
    <3> QED
      BY <1>1, <1>3, <1>4, <3>1
  <2>3. CASE /\ subject.pane \in Op.again
             /\ IF Op.by = "closure" THEN Pane.needs \subseteq Op.needs ELSE Renewed(Pane)
    <3>1. \A j \in Pane.needs : Carried[j] = 1
      BY <1>2, <2>2, <2>3 DEF Carried
    <3> QED
      BY <1>8, <2>3, <3>1 DEF Reloads
  <2>4. CASE Patches /\ (Op.early => Pane.deps = {})
    <3>1. Ahead /\ Pane.deps = {}
      BY <1>2, <1>4, <1>8, <2>4, PaneRecord DEF Ahead
    <3>2. /\ \A k \in 1..Len(flight) : flight[k].old
          /\ flight = <<>> => excuse # {} \/ notice # "quiet" \/ shown.ver >= db
      BY <1>1, <3>1 DEF EarlyInv
    <3>3. CASE flight = <<>>
      BY <1>1, <1>8, <3>2, <3>3 DEF UpTo
    <3>4. CASE flight # <<>>
      <4>1. Len(flight) \in 1..Len(flight)
        BY <1>4, <3>4
      <4> QED
        BY <1>8, <3>2, <3>4, <4>1 DEF UpTo, Last
    <3> QED
      BY <3>3, <3>4
  <2>5. CASE Renewed(Pane) /\ Op.closes \cap Pane.needs # {}
    BY <2>2, <2>5
  <2> QED
    BY <2>1, <2>3, <2>4, <2>5
<1> QED
  BY <1>1, <1>5, <1>6, <1>7, <1>8

LEMMA WrittenStep ==
    ASSUME PaneTyped, CallInv, EarlyInv, WrittenInv, ScreenNext
    PROVE  WrittenInv'
<1>1. subject' = subject
  BY DEF ScreenNext, Change, Serve, Arrive, Fail, Tick, Submit, Commit, Return, FinishLater,
         Refuse, RefuseUnread, Elsewhere
<1>2. Followed' = Followed /\ Pane' = Pane
  BY <1>1, StudyKept
<1>3. SUFFICES ASSUME Followed, call'.at \in {"left", "done"},
                      (\A j \in Pane.needs : input'[j] = 1) \/ Pane.deps = {}
               PROVE  UpTo(db)'
  BY <1>2 DEF WrittenInv, Chosen, UpTo, Last
<1>4. (call.at \in {"left", "done"} /\ ((\A j \in Pane.needs : input[j] = 1) \/ Pane.deps = {}))
        => UpTo(db)
  BY <1>3 DEF WrittenInv, Chosen
<1>5. call \in Commands /\ subject \in Subjects
  BY DEF PaneTyped
<1>6. ASSUME UpTo(db), db' = db, flight' = flight, shown' = shown, notice' = notice, excuse' = excuse
      PROVE  UpTo(db)'
  BY <1>6 DEF UpTo, Last
<1>7. ASSUME call' = call, input' = input
      PROVE  UpTo(db)
  BY <1>3, <1>4, <1>7
<1>8. ASSUME NEW i \in Relevant, Change(i) PROVE UpTo(db)'
  <2>1. /\ input' = After(i) /\ call' = call /\ db' = db
        /\ Passes(i) \/ IsLeft(i) \/ AskedAgain(i)
    BY <1>8, ChangeShape
  <2>2. Pane.deps = {} \/ (Pane.needs \subseteq Pane.deps /\ ~Pane.once)
    BY <1>3, <1>5, Following DEF Renewed
  <2>3. CASE Passes(i)
    <3>1. ~Watched(After(i)) \/ (Pane.deps # {} /\ Pane.once)
      BY <2>3 DEF Passes, Watched
    <3>2. ~Watched(After(i))
      BY <2>2, <3>1
    <3>3. \A j \in Pane.deps : input'[j] = input[j]
      BY <2>1, <3>2 DEF Watched
    <3>4. UpTo(db)
      BY <1>3, <1>4, <2>1, <2>2, <3>3
    <3> QED
      BY <1>6, <2>1, <2>3, <3>4 DEF Passes
  <2>4. ~IsLeft(i)
    <3>1. CASE Pane.deps = {}
      BY <3>1 DEF IsLeft, Watched
    <3>2. CASE \A j \in Pane.needs : input'[j] = 1
      BY <2>1, <3>2, AfterTyped, ChosenOrUnmet DEF IsLeft
    <3> QED
      BY <1>3, <3>1, <3>2
  <2>5. CASE AskedAgain(i)
    <3>1. /\ Asked(First(i), After(i)) \/ Asked(First(i), First(i)) \/ Asked(After(i), After(i))
          /\ After(i) \in [Relevant -> 0..Left] /\ First(i) \in [Relevant -> 0..Left]
      BY <2>5, AfterTyped, AskOnce, AskTwice DEF AskedAgain
    <3> QED
      BY <3>1, WrittenAsked
  <2> QED
    BY <2>1, <2>3, <2>4, <2>5
<1>9. ASSUME NEW k \in 1..Len(flight), Serve(k) \/ Arrive(k) \/ Fail(k) PROVE UpTo(db)'
  <2>1. UpTo(db)
    BY <1>7, <1>9 DEF Serve, Arrive, Fail
  <2> QED
    BY <1>9, <2>1, WrittenServed, WrittenEnded
<1>10. ~Tick /\ ~Elsewhere
  BY <1>3 DEF Tick, Elsewhere, Followed
<1>11. ~(Submit \/ Commit \/ Refuse \/ RefuseUnread)
  <2>1. (Submit \/ Commit \/ Refuse \/ RefuseUnread) => call'.at \in {"sent", "committed", "failed"}
    BY <1>5 DEF Submit, Commit, Refuse, RefuseUnread, Commands
  <2> QED
    BY <1>3, <2>1
<1>12. CASE Return
  BY <1>3, <1>12, WrittenReturned
<1>13. CASE FinishLater
  <2>1. db' = db
    BY <1>3, <1>5, <1>13, Following DEF FinishLater, Bump
  <2>2. call.at = "left" /\ input' = input
    BY <1>13 DEF FinishLater
  <2>3. UpTo(db)
    BY <1>3, <1>4, <2>2
  <2> QED
    BY <1>6, <1>13, <2>1, <2>3 DEF FinishLater
<1> QED
  BY <1>8, <1>9, <1>10, <1>11, <1>12, <1>13 DEF ScreenNext

-----------------------------------------------------------------------------
LEMMA PaneInitial == ScreenInit => PaneInv
<1> SUFFICES ASSUME ScreenInit PROVE PaneInv
  OBVIOUS
<1>1. /\ subject \in Subjects /\ input = [i \in Relevant |-> 0]
      /\ shown = Nothing /\ call = [at |-> "none", with |-> input, ver |-> 0] /\ db = 1
      /\ chances = [changes |-> MaxChanges, faults |-> MaxFaults, others |-> MaxElsewhere]
      /\ excuse = {}
      /\ flight = IF Pane.needs = {} THEN <<Request(input)>> ELSE <<>>
      /\ notice = IF Pane.needs = {} THEN "loading" ELSE "quiet"
  BY DEF ScreenInit
<1>2. /\ {MaxChanges, MaxFlight, MaxFaults, MaxElsewhere} \subseteq Nat
      /\ MaxFlight > 0
  BY BoundAssumption
<1>3. input \in [Relevant -> 0..1] /\ input \in [Relevant -> 0..Left]
  BY <1>1 DEF Left
<1>4. /\ Request(input) \in Requests /\ Request(input).with = input
      /\ Request(input).ver = 0
  BY <1>3, RequestTyped
<1> DEFINE r == Request(input)
<1>5. /\ flight \in Seq(Requests) /\ Len(flight) <= MaxFlight
      /\ \A k \in 1..Len(flight) : flight[k] = r
      /\ Pane.needs = {} => flight # <<>> /\ Len(flight) = 1
  <2> HIDE DEF r
  <2>1. r \in Requests /\ flight = IF Pane.needs = {} THEN <<r>> ELSE <<>>
    BY <1>1, <1>4 DEF r
  <2>2. CASE Pane.needs = {}
    BY <1>2, <2>1, <2>2
  <2>3. CASE Pane.needs # {}
    BY <1>2, <2>1, <2>3
  <2> QED
    BY <2>2, <2>3
<1>6. FlightTyped
  BY <1>1, <1>4, <1>5 DEF FlightTyped
<1>7. call \in Commands /\ call.at = "none" /\ call.ver = 0
  BY <1>1, <1>3 DEF Commands
<1>8. chances \in Chances /\ chances.others = MaxElsewhere
  BY <1>1, <1>2 DEF Chances
<1>9. PaneTyped
  BY <1>1, <1>2, <1>3, <1>6, <1>7, <1>8 DEF PaneTyped, Nothing, Written
<1>10. CallInv /\ VersionInv /\ WrittenInv /\ EarlyInv
  BY <1>1, <1>7 DEF CallInv, VersionInv, WrittenInv, EarlyInv, Nothing
<1>11. ChosenInv
  <2> SUFFICES ASSUME PaneHeld # {}, Chosen(Pane.needs) PROVE InStep
    BY DEF ChosenInv
  <2>1. Pane.needs \subseteq Relevant /\ PaneHeld \subseteq Relevant
    BY Bears
  <2>2. Pane.needs = {}
    BY <1>1, <2>1 DEF Chosen
  <2>3. flight # <<>> /\ Last.with = input
    <3>1. flight # <<>> /\ Len(flight) = 1
      BY <1>5, <2>2
    <3>2. flight[1] = r
      BY <1>5, <3>1
    <3> QED
      BY <1>4, <3>1, <3>2 DEF Last
  <2>4. Fresh(input)
    BY <1>1, <2>1 DEF Fresh
  <2> QED
    BY <2>3, <2>4 DEF InStep
<1>12. OnceInv
  <2> SUFFICES ASSUME PaneHeld # {}, Pane.once PROVE flight = <<>>
    BY <1>1 DEF OnceInv
  <2>1. PaneHeld \subseteq Pane.needs
    BY <1>1, Watching
  <2> QED
    BY <1>1, <2>1
<1> QED
  BY <1>9, <1>10, <1>11, <1>12 DEF PaneInv

LEMMA PaneStutter == PaneInv /\ UNCHANGED screenVars => PaneInv'
<1> SUFFICES ASSUME PaneInv, UNCHANGED screenVars PROVE PaneInv'
  OBVIOUS
<1>1. /\ subject' = subject /\ input' = input /\ flight' = flight /\ shown' = shown
      /\ notice' = notice /\ call' = call /\ db' = db /\ chances' = chances /\ excuse' = excuse
  BY DEF screenVars
<1>2. /\ Page' = Page /\ Pane' = Pane /\ Op' = Op /\ Relevant' = Relevant
      /\ PaneHeld' = PaneHeld /\ Patches' = Patches /\ Ahead' = Ahead
      /\ Followed' = Followed /\ Requests' = Requests /\ Commands' = Commands
  BY <1>1, StudyKept
<1>3. PaneTyped'
  BY <1>1, <1>2 DEF PaneInv, PaneTyped, FlightTyped, Written
<1>4. CallInv' /\ VersionInv' /\ EarlyInv'
  BY <1>1, <1>2 DEF PaneInv, CallInv, VersionInv, EarlyInv
<1>5. ChosenInv' /\ OnceInv'
  BY <1>1, <1>2 DEF PaneInv, ChosenInv, Chosen, InStep, Fresh, Last, OnceInv, Kept
<1>6. WrittenInv'
  BY <1>1, <1>2 DEF PaneInv, WrittenInv, Chosen, UpTo, Last
<1> QED
  BY <1>3, <1>4, <1>5, <1>6 DEF PaneInv

LEMMA PaneStep == PaneInv /\ [ScreenNext]_screenVars => PaneInv'
<1>1. ASSUME PaneInv, ScreenNext PROVE PaneInv'
  <2>1. PaneTyped'
    BY <1>1, TypedStep DEF PaneInv
  <2> QED
    BY <1>1, <2>1, CallStep, VersionStep, ChosenStep, OnceStep, EarlyStep, WrittenStep DEF PaneInv
<1> QED
  BY <1>1, PaneStutter

LEMMA PaneTheorem == ScreenSpec => []PaneInv
<1> QED
  BY PaneInitial, PaneStep, PTL DEF ScreenSpec

(* The shape of a pane's state is kept: what is under way is never more than the
   bound, and neither a request nor the pane knows a version beyond the next.   *)
THEOREM ScreenTypeTheorem == ScreenSpec => []ScreenTypeOK
<1>1. PaneInv => ScreenTypeOK
  <2> SUFFICES ASSUME PaneInv PROVE ScreenTypeOK
    OBVIOUS
  <2>1. PaneTyped
    BY DEF PaneInv
  <2>2. /\ flight \in Seq(Requests) /\ Len(flight) <= MaxFlight /\ db \in Nat \ {0}
        /\ \A k \in 1..Len(flight) : flight[k].ver <= db
    BY <2>1 DEF PaneTyped, FlightTyped
  <2>3. \A k \in 1..Len(flight) : /\ flight[k].with \in [Relevant -> 0..Left]
                                  /\ flight[k].at \in {"asked", "served"}
                                  /\ flight[k].ver \in 0..db
                                  /\ flight[k].old \in BOOLEAN
    <3> TAKE k \in 1..Len(flight)
    <3>1. flight[k] \in Requests /\ flight[k].ver <= db
      BY <2>2, ElementOfSeq
    <3> QED
      BY <2>2, <3>1 DEF Requests
  <2>4. db \in 1..3 + MaxElsewhere
    <3>1. /\ MaxElsewhere \in Nat /\ chances.others \in Nat /\ Written \in 1..3
          /\ db + chances.others <= Written + MaxElsewhere
      BY <2>1, BoundAssumption DEF PaneTyped, Chances, Written
    <3> QED
      BY <2>2, <3>1
  <2>5. call.at \in {"none", "sent", "committed", "left", "done", "failed"}
    BY <2>1 DEF PaneTyped, Commands
  <2> QED
    BY <2>1, <2>2, <2>3, <2>4, <2>5 DEF PaneTyped, ScreenTypeOK
<1> QED
  BY <1>1, PaneTheorem, PTL

(* A pane at rest shows what was read for the inputs chosen now, on every page,
   with every handler, for every number of changes, requests and failures.      *)
THEOREM ChosenTheorem == ScreenSpec => []ShowsWhatIsChosen
<1>1. PaneInv => ShowsWhatIsChosen
  <2> SUFFICES ASSUME PaneInv, AtRest, NEW i \in Pane.uses,
                      <<subject.page, subject.pane, i>> \notin Unwatched
               PROVE  i \in DOMAIN shown.with /\ shown.with[i] = input[i]
    BY DEF ShowsWhatIsChosen
  <2>1. i \in PaneHeld
    BY DEF PaneHeld, Held, Pane, Page
  <2>2. InStep
    BY <2>1 DEF PaneInv, ChosenInv, AtRest
  <2>3. Fresh(shown.with)
    BY <2>2 DEF InStep, AtRest
  <2> QED
    BY <2>1, <2>3 DEF Fresh
<1> QED
  BY <1>1, PaneTheorem, PTL

(* A pane at rest shows what its handler wrote, and nothing that was never
   written.                                                                     *)
THEOREM WrittenTheorem == ScreenSpec => []ShowsWhatWasWritten
<1>1. PaneInv => ShowsWhatWasWritten
  <2> SUFFICES ASSUME PaneInv, AtRest PROVE ShowsWhatWasWritten
    BY DEF ShowsWhatWasWritten
  <2>1. /\ subject \in Subjects /\ call \in Commands /\ call.ver <= db
        /\ db \in Nat /\ shown.ver \in Nat
    BY DEF PaneInv, PaneTyped
  <2>2. ASSUME call.at = "done", ~Pane.timer, OpWrites(Op) \cap PaneReads(Pane) # {},
               <<subject.page, subject.op, subject.pane>> \notin LeftBehind
        PROVE  shown.ver >= call.ver
    <3>1. Followed
      BY <2>2 DEF PaneInv, CallInv, Followed
    <3>2. UpTo(db)
      BY <2>2, <3>1 DEF PaneInv, WrittenInv, AtRest
    <3>3. shown.ver >= db
      BY <3>2 DEF UpTo, AtRest
    <3> QED
      BY <2>1, <3>3 DEF Commands
  <2>3. ASSUME <<subject.page, subject.op, subject.pane>> \notin Premature
        PROVE  shown.ver <= db
    <3>1. ~Ahead
      <4> SUFFICES ASSUME subject.op # NoOp PROVE ~(Op.early /\ Patches)
        BY DEF Ahead
      <4>1. /\ subject.page \in DOMAIN Pages /\ subject.pane \in ShownPanes(Pages[subject.page])
            /\ subject.op \in OfferedOps(Pages[subject.page])
            /\ Touches(Pages[subject.page], subject.op, subject.pane)
        BY <2>1, WhereItIs DEF Page
      <4> QED
        BY <2>3, <4>1, FollowUpAssumption DEF Op, Patches, Page
    <3> QED
      BY <3>1 DEF PaneInv, VersionInv
  <2> QED
    BY <2>2, <2>3 DEF ShowsWhatWasWritten
<1> QED
  BY <1>1, PaneTheorem, PTL

(* What was chosen among the options of another input goes when that one changes,
   whether the person changes it, an effect adjusts it or a handler closes it.  *)
THEOREM FitTheorem == ScreenSpec => ChoicesFit
<1> DEFINE Fits == \A x \in Page.options :
         (x[1] \in Relevant /\ x[2] \in Relevant /\ input[x[1]] = 1 /\ input'[x[1]] = 1
            /\ <<subject.page, x[1], x[2]>> \notin Outlived)
         => input'[x[2]] = input[x[2]]
<1>1. ASSUME PaneInv, ScreenNext PROVE Fits
  <2> SUFFICES ASSUME NEW x \in Page.options, x[1] \in Relevant, x[2] \in Relevant,
                      input[x[1]] = 1, input'[x[1]] = 1,
                      <<subject.page, x[1], x[2]>> \notin Outlived
               PROVE  input'[x[2]] = input[x[2]]
    OBVIOUS
  <2>1. subject \in Subjects /\ input \in [Relevant -> 0..1]
    BY <1>1 DEF PaneInv, PaneTyped
  <2>2. subject.page \in DOMAIN Pages /\ Page = Pages[subject.page]
    BY <2>1, WhereItIs DEF Page
  <2>3. TakesBack(Page, x)
    BY <2>2, ChoiceAssumption
  <2>4. /\ x[1] # x[2] /\ <<x[2], x[1]>> \in Adjusts(Page)
        /\ \A r \in Adjusts(Page) : r[2] = x[2] => r[1] = x[1] \/ <<r[1], x[1]>> \in Adjusts(Page)
        /\ \A o \in OfferedOps(Page) :
              x[2] \in Page.ops[o].closes => x[1] \in Page.ops[o].closes
    BY <2>3 DEF TakesBack
  <2>5. ASSUME NEW i \in Relevant, Change(i) PROVE input'[x[2]] = input[x[2]]
    <3>1. input' = After(i)
      BY <2>5, ChangeShape
    <3>2. i # x[1]
      <4> SUFFICES ASSUME i = x[1] PROVE FALSE
        OBVIOUS
      <4>1. input'[x[1]] = 0
        BY <3>1, AfterValues
      <4> QED
        BY <4>1
    <3>3. <<i, x[1]>> \notin Adjusts(Page)
      <4> SUFFICES ASSUME <<i, x[1]>> \in Adjusts(Page) PROVE FALSE
        OBVIOUS
      <4>1. x[1] \in ResetBy(Page.resets, i) \cup ResetBy(Page.follows, i)
        BY Adjusted
      <4>2. After(i)[x[1]] = 0
        BY <3>2, <4>1, AfterValues
      <4> QED
        BY <3>1, <4>2
    <3>4. i # x[2]
      BY <2>4, <3>3
    <3>5. x[2] \notin ResetBy(Page.resets, i) \cup ResetBy(Page.follows, i)
      <4> SUFFICES ASSUME x[2] \in ResetBy(Page.resets, i) \cup ResetBy(Page.follows, i)
                   PROVE  FALSE
        OBVIOUS
      <4>1. PICK r \in Adjusts(Page) : r[1] = i /\ r[2] = x[2]
        BY DEF ResetBy, Adjusts
      <4> QED
        BY <2>4, <3>2, <3>3, <4>1
    <3> QED
      BY <3>1, <3>4, <3>5, AfterValues
  <2>6. CASE Return
    <3>1. /\ call.at = "committed" /\ input' = Closed
          /\ \A j \in Relevant : Closed[j] = IF j \in Op.closes THEN 0 ELSE input[j]
      BY <1>1, <2>6, ReturnShape, CarriedTyped DEF PaneInv
    <3>2. subject.op \in OfferedOps(Page)
      BY <1>1, <2>1, <3>1, WhereItIs DEF PaneInv, CallInv
    <3>3. x[1] \notin Op.closes
      BY <3>1
    <3>4. x[2] \notin Op.closes
      BY <2>4, <3>2, <3>3 DEF Op
    <3> QED
      BY <3>1, <3>4
  <2>7. ASSUME input' = input PROVE input'[x[2]] = input[x[2]]
    BY <2>7
  <2>8. (\E k \in 1..Len(flight) : Serve(k) \/ Arrive(k) \/ Fail(k)) => input' = input
    BY DEF Serve, Arrive, Fail
  <2>9. (Tick \/ Submit \/ Commit \/ FinishLater) => input' = input
    BY DEF Tick, Submit, Commit, FinishLater
  <2>10. (Refuse \/ RefuseUnread \/ Elsewhere) => input' = input
    BY DEF Refuse, RefuseUnread, Elsewhere
  <2> QED
    BY <1>1, <2>5, <2>6, <2>7, <2>8, <2>9, <2>10 DEF ScreenNext
<1>2. PaneInv /\ [ScreenNext]_screenVars => [Fits]_screenVars
  BY <1>1
<1> QED
  BY <1>2, PaneTheorem, PTL DEF ScreenSpec, ChoicesFit

-----------------------------------------------------------------------------
(* The runs of the agent.                                                       *)

Typed ==
    /\ bound \in [Clients -> Convs \union {None, "closed"}]
    /\ pool \in [Convs -> Runs \union {None}]
    /\ created \in SUBSET Convs /\ Known \subseteq created
    /\ pc \in [Runs -> States] /\ conv \in [Runs -> Convs \union {None}]
    /\ aborted \in [Runs -> BOOLEAN]
    /\ turn \in [Runs -> Nat] /\ left \in [Runs -> Nat]
    /\ seen \in SUBSET Calls
    /\ made \in [Runs -> [Calls -> Nat]] /\ refused \in [Runs -> SUBSET Calls]
    /\ order \in [Runs -> Nat]
    /\ alone \in SUBSET Runs /\ dropped \in SUBSET Runs

(* Messages that named a conversation; the latest stamp is their number.        *)
Stamped == {r \in Runs : order[r] > 0}

(* A run that was not sent has done nothing; a conversation that a message named
   exists, so that the run keeps to it.                                         *)
Sent(r) ==
    /\ pc[r] = "unsent" => /\ order[r] = 0 /\ conv[r] = None /\ turn[r] = 0
                           /\ refused[r] = {} /\ \A k \in Calls : made[r][k] = 0
    /\ order[r] > 0 => conv[r] \in created
    /\ order[r] <= Cardinality(Stamped)

(* Its calls are bounded by the turns it took and the blocks of this one.       *)
Handled(r) ==
    turn[r] * MaxCalls + (IF pc[r] \in {"tools", "await"} THEN MaxCalls - left[r] ELSE 0)
                       + (IF pc[r] = "await" THEN 1 ELSE 0)
Budget(r) ==
    /\ turn[r] <= MaxTurns /\ left[r] <= MaxCalls
    /\ pc[r] \in {"resolve", "turn", "stream", "tools", "await"} => turn[r] < MaxTurns
    /\ pc[r] \in {"tools", "await"} => left[r] > 0
    /\ pc[r] = "resolve" => turn[r] = 0 /\ \A k \in Calls : made[r][k] = 0
    /\ \A k \in Calls : made[r][k] <= Handled(r)

(* Beside a run that is alone no other runs, and the table of calls is its own. *)
Alone(r) ==
    r \in alone =>
        /\ r \in Busy => Busy = {r}
        /\ r \in Busy => \A k \in Calls : k \in seen <=> made[r][k] = 1
        /\ \A k \in Calls : made[r][k] <= 1 /\ (k \in refused[r] => made[r][k] = 1)

Inv ==
    /\ Typed
    /\ \A r \in Runs : Sent(r) /\ Budget(r) /\ Alone(r)
    /\ NewestIsInterruptible

-----------------------------------------------------------------------------
(* The budget of calls: turns times blocks.                                     *)
LEMMA TurnsTimesCalls ==
    ASSUME NEW t \in Nat
    PROVE  /\ t * MaxCalls \in Nat /\ MaxCalls \in Nat /\ MaxCalls > 0
           /\ (t + 1) * MaxCalls = t * MaxCalls + MaxCalls
           /\ t <= MaxTurns => t * MaxCalls <= MaxTurns * MaxCalls
BY RunAssumption

LEMMA InitInv == Init => Inv
<1> SUFFICES ASSUME Init PROVE Inv
  OBVIOUS
<1> USE DEF Init
<1>1. Typed
  BY RunAssumption DEF Typed, States
<1>2. Cardinality(Stamped) \in Nat
  <2>1. Stamped = {}
    BY DEF Stamped
  <2> QED
    BY <2>1, FS_EmptySet
<1>3. ASSUME NEW r \in Runs PROVE Sent(r) /\ Budget(r) /\ Alone(r)
  <2>1. 0 * MaxCalls = 0
    BY RunAssumption
  <2> QED
    BY <1>2, <2>1, RunAssumption DEF Sent, Budget, Handled, Alone, Busy
<1>4. NewestIsInterruptible
  BY DEF NewestIsInterruptible, Busy
<1> QED
  BY <1>1, <1>3, <1>4 DEF Inv

(* A step of a run that is under way, which sends, interrupts and closes nothing
   and stays in its conversation.                                               *)
LEMMA RunStepInv ==
    ASSUME Inv, NEW r \in Busy, UNCHANGED <<channel, conv, aborted, alone, dropped>>,
           Typed', pc'[r] # "unsent",
           \A q \in Runs \ {r} : /\ pc'[q] = pc[q] /\ turn'[q] = turn[q] /\ left'[q] = left[q]
                                 /\ made'[q] = made[q] /\ refused'[q] = refused[q],
           Budget(r)', r \in alone => Alone(r)'
    PROVE  Inv'
<1>0. Typed /\ r \in Runs /\ Busy' \subseteq Busy
  BY DEF Inv, Busy
<1>1. ASSUME NEW q \in Runs PROVE Sent(q)'
  <2>1. Sent(q) /\ Stamped' = Stamped
    BY DEF Inv, Stamped, channel
  <2> QED
    BY <1>0, <2>1 DEF Sent, channel, Busy
<1>2. ASSUME NEW q \in Runs PROVE Budget(q)'
  BY <1>0 DEF Inv, Budget, Handled
<1>3. ASSUME NEW q \in Runs PROVE Alone(q)'
  <2>1. CASE q = r
    BY <2>1 DEF Alone
  <2>2. CASE q # r
    BY <1>0, <2>2 DEF Inv, Alone, Busy
  <2> QED
    BY <2>1, <2>2
<1>4. NewestIsInterruptible'
  BY <1>0 DEF Inv, NewestIsInterruptible, Newest, channel
<1> QED
  BY <1>1, <1>2, <1>3, <1>4 DEF Inv

(* Steps of a run that neither make nor refuse a call.                          *)
LEMMA PlainStep ==
    ASSUME Inv, NEW r \in Runs,
           \/ PrepareFails(r) \/ BeginTurn(r) \/ StreamFails(r) \/ StreamAborted(r) \/ Persist(r)
           \/ \E n \in 0 .. MaxCalls : StreamEnds(r, n)
    PROVE  Inv'
<1>0. Typed /\ Budget(r) /\ Alone(r)
  BY DEF Inv
<1>1. /\ UNCHANGED <<channel, conv, turn, aborted, seen, made, refused, alone, dropped>>
      /\ pc[r] \in {"resolve", "turn", "stream", "persist"}
      /\ \E l \in {"done", "stream", "persist", "tools"}, n \in 0 .. MaxCalls :
           /\ pc' = [pc EXCEPT ![r] = l]
           /\ left' = [left EXCEPT ![r] = n] \/ left' = left
           /\ l = "tools" => n > 0 /\ left' = [left EXCEPT ![r] = n] /\ pc[r] = "stream"
           /\ l = "stream" => pc[r] = "turn"
  BY RunAssumption DEF PrepareFails, BeginTurn, StreamFails, StreamAborted, Persist, StreamEnds, Goto
<1>2. PICK l \in {"done", "stream", "persist", "tools"}, n \in 0 .. MaxCalls :
           /\ pc' = [pc EXCEPT ![r] = l]
           /\ left' = [left EXCEPT ![r] = n] \/ left' = left
           /\ l = "tools" => n > 0 /\ left' = [left EXCEPT ![r] = n] /\ pc[r] = "stream"
           /\ l = "stream" => pc[r] = "turn"
  BY <1>1
<1>3. n \in Nat /\ n <= MaxCalls
  BY RunAssumption
<1>4. Typed'
  <2>1. pc' \in [Runs -> States]
    BY <1>0, <1>2 DEF Typed, States
  <2>2. left' \in [Runs -> Nat]
    BY <1>0, <1>2, <1>3 DEF Typed
  <2> QED
    BY <1>0, <1>1, <2>1, <2>2 DEF Typed, channel
<1>5. Budget(r)'
  <2>1. /\ pc'[r] = l /\ turn'[r] = turn[r] /\ made'[r] = made[r]
        /\ left'[r] = n \/ left'[r] = left[r]
        /\ l = "tools" => left'[r] = n
        /\ turn[r] \in Nat /\ left[r] \in Nat /\ \A k \in Calls : made[r][k] \in Nat
    BY <1>0, <1>1, <1>2 DEF Typed
  <2>2. \A k \in Calls : made[r][k] <= turn[r] * MaxCalls
    <3>1. Handled(r) = turn[r] * MaxCalls + 0 + 0
      BY <1>1 DEF Handled
    <3>2. turn[r] * MaxCalls + 0 + 0 = turn[r] * MaxCalls
      <4>1. turn[r] * MaxCalls \in Nat
        BY <2>1, TurnsTimesCalls
      <4> QED
        BY <4>1
    <3> QED
      BY <1>0, <3>1, <3>2 DEF Budget
  <2>3. Handled(r)' = turn[r] * MaxCalls + (IF l = "tools" THEN MaxCalls - n ELSE 0) + 0
    BY <2>1 DEF Handled
  <2>4. \A k \in Calls : made'[r][k] <= Handled(r)'
    <3>1. PICK p \in Nat : p = turn[r] * MaxCalls
      BY <2>1, TurnsTimesCalls
    <3>2. MaxCalls \in Nat /\ Handled(r)' = p + (IF l = "tools" THEN MaxCalls - n ELSE 0) + 0
      BY <2>3, <3>1, RunAssumption
    <3>3. Handled(r)' >= p
      BY <1>3, <3>2
    <3>4. \A k \in Calls : made'[r][k] <= p /\ made'[r][k] \in Nat
      BY <2>1, <2>2, <3>1
    <3> HIDE DEF Handled
    <3> QED
      BY <1>3, <3>2, <3>3, <3>4
  <2>5. turn[r] <= MaxTurns /\ left[r] <= MaxCalls /\ (l = "tools" => n > 0)
        /\ (l \in {"stream", "tools"} => turn[r] < MaxTurns)
    BY <1>0, <1>2 DEF Budget
  <2> QED
    BY <1>3, <2>1, <2>4, <2>5 DEF Budget
<1>6. r \in alone => Alone(r)'
  BY <1>0, <1>1, <1>2 DEF Alone, Busy, Typed
<1> QED
  <2>1. r \in Busy /\ pc'[r] # "unsent"
    BY <1>0, <1>1, <1>2 DEF Busy, Typed
  <2>2. \A q \in Runs \ {r} : /\ pc'[q] = pc[q] /\ turn'[q] = turn[q] /\ left'[q] = left[q]
                              /\ made'[q] = made[q] /\ refused'[q] = refused[q]
    BY <1>0, <1>1, <1>2 DEF Typed
  <2> QED
    BY <1>1, <1>4, <1>5, <1>6, <2>1, <2>2, RunStepInv

(* The block is counted once the call returned or was refused: the next block of
   the turn, or the next turn, or the end of the loop.                          *)
LEMMA AfterToolKeepsBudget ==
    ASSUME Typed, NEW r \in Runs, Budget(r), pc[r] \in {"tools", "await"}, AfterTool(r),
           made' = made
    PROVE  /\ Budget(r)'
           /\ pc' \in [Runs -> States] /\ turn' \in [Runs -> Nat] /\ left' \in [Runs -> Nat]
           /\ pc'[r] \notin {"unsent", "done"}
           /\ \A q \in Runs \ {r} : pc'[q] = pc[q] /\ turn'[q] = turn[q] /\ left'[q] = left[q]
<1>1. /\ turn[r] \in Nat /\ turn[r] < MaxTurns /\ left[r] \in Nat /\ left[r] > 0
      /\ left[r] <= MaxCalls /\ MaxCalls \in Nat /\ MaxTurns \in Nat
      /\ \A k \in Calls : made[r][k] \in Nat /\ made[r][k] <= Handled(r)
  BY RunAssumption DEF Typed, Budget
<1>2. PICK p \in Nat : p = turn[r] * MaxCalls
  BY <1>1, TurnsTimesCalls
<1>3. (turn[r] + 1) * MaxCalls = p + MaxCalls
  BY <1>1, <1>2, TurnsTimesCalls
<1>4. \A k \in Calls : made[r][k] <= p + (MaxCalls - left[r]) + 1
  <2>1. Handled(r) = p + (MaxCalls - left[r]) + (IF pc[r] = "await" THEN 1 ELSE 0)
    BY <1>2 DEF Handled
  <2> QED
    BY <1>1, <1>2, <2>1
<1>5. CASE left[r] = 1
  <2>1. PICK l \in {"persist", "turn"} :
          /\ pc' = [pc EXCEPT ![r] = l]
          /\ l = "turn" => turn[r] + 1 # MaxTurns
    BY <1>5 DEF AfterTool, EndTurn, Goto
  <2>2. turn' = [turn EXCEPT ![r] = @ + 1] /\ left' = [left EXCEPT ![r] = @ - 1]
    BY <1>5 DEF AfterTool, EndTurn
  <2>3. pc'[r] = l /\ turn'[r] = turn[r] + 1 /\ left'[r] = 0
    BY <1>1, <1>5, <2>1, <2>2 DEF Typed
  <2>4. Handled(r)' = p + MaxCalls + 0 + 0
    BY <1>3, <2>1, <2>3 DEF Handled
  <2>5. \A k \in Calls : made'[r][k] <= Handled(r)'
    BY <1>1, <1>2, <1>4, <1>5, <2>4
  <2>6. Budget(r)'
    BY <1>1, <2>1, <2>3, <2>5 DEF Budget
  <2> QED
    BY <1>1, <2>1, <2>2, <2>3, <2>6 DEF Typed, States
<1>6. CASE left[r] # 1
  <2>1. pc' = [pc EXCEPT ![r] = "tools"] /\ turn' = turn /\ left' = [left EXCEPT ![r] = @ - 1]
    BY <1>6 DEF AfterTool, Goto
  <2>2. pc'[r] = "tools" /\ turn'[r] = turn[r] /\ left'[r] = left[r] - 1
    BY <1>1, <2>1 DEF Typed
  <2>3. Handled(r)' = p + (MaxCalls - (left[r] - 1)) + 0
    BY <1>2, <2>2 DEF Handled
  <2>4. \A k \in Calls : made'[r][k] <= Handled(r)'
    BY <1>1, <1>2, <1>4, <2>3
  <2>5. Budget(r)'
    BY <1>1, <1>6, <2>2, <2>4 DEF Budget
  <2> QED
    BY <1>1, <1>6, <2>1, <2>2, <2>5 DEF Typed, States
<1> QED
  BY <1>5, <1>6

LEMMA CallReturnsStep ==
    ASSUME Inv, NEW r \in Runs, CallReturns(r)
    PROVE  Inv'
<1>1. /\ Typed /\ Budget(r) /\ Alone(r) /\ r \in Busy /\ pc[r] = "await" /\ AfterTool(r)
      /\ UNCHANGED <<channel, conv, aborted, seen, made, refused, alone, dropped>>
  BY DEF Inv, CallReturns, Busy
<1>2. /\ Budget(r)'
      /\ pc' \in [Runs -> States] /\ turn' \in [Runs -> Nat] /\ left' \in [Runs -> Nat]
      /\ pc'[r] \notin {"unsent", "done"}
      /\ \A q \in Runs \ {r} : pc'[q] = pc[q] /\ turn'[q] = turn[q] /\ left'[q] = left[q]
  BY <1>1, AfterToolKeepsBudget
<1>3. Typed'
  BY <1>1, <1>2 DEF Typed, channel
<1>4. r \in alone => Alone(r)'
  BY <1>1, <1>2 DEF Alone, Busy
<1> QED
  BY <1>1, <1>2, <1>3, <1>4, RunStepInv

(* A call that is refused was made: by this run when it is alone.               *)
LEMMA RefuseCallStep ==
    ASSUME Inv, NEW r \in Runs, NEW k \in Calls, RefuseCall(r, k)
    PROVE  Inv'
<1>1. /\ Typed /\ Budget(r) /\ Alone(r) /\ r \in Busy /\ pc[r] = "tools" /\ AfterTool(r)
      /\ k \in seen /\ refused' = [refused EXCEPT ![r] = @ \union {k}]
      /\ UNCHANGED <<channel, conv, aborted, seen, made, alone, dropped>>
  BY DEF Inv, RefuseCall, Busy
<1>2. /\ Budget(r)'
      /\ pc' \in [Runs -> States] /\ turn' \in [Runs -> Nat] /\ left' \in [Runs -> Nat]
      /\ pc'[r] \notin {"unsent", "done"}
      /\ \A q \in Runs \ {r} : pc'[q] = pc[q] /\ turn'[q] = turn[q] /\ left'[q] = left[q]
  BY <1>1, AfterToolKeepsBudget
<1>3. /\ refused' \in [Runs -> SUBSET Calls] /\ refused'[r] = refused[r] \union {k}
      /\ \A q \in Runs \ {r} : refused'[q] = refused[q]
  BY <1>1 DEF Typed
<1>4. Typed'
  BY <1>1, <1>2, <1>3 DEF Typed, channel
<1>5. r \in alone => Alone(r)'
  BY <1>1, <1>2, <1>3 DEF Alone, Busy
<1> QED
  BY <1>1, <1>2, <1>3, <1>4, <1>5, RunStepInv

(* A call that the table does not hold was not made before by a run that is alone. *)
LEMMA MakeCallStep ==
    ASSUME Inv, NEW r \in Runs, NEW k \in Calls, MakeCall(r, k)
    PROVE  Inv'
<1>1. /\ Typed /\ Budget(r) /\ Alone(r) /\ r \in Busy /\ pc[r] = "tools" /\ k \notin seen
      /\ pc' = [pc EXCEPT ![r] = "await"] /\ seen' = seen \union {k}
      /\ made' = [made EXCEPT ![r][k] = @ + 1]
      /\ UNCHANGED <<channel, conv, turn, left, aborted, refused, alone, dropped>>
  BY DEF Inv, MakeCall, Busy, Goto
<1>2. /\ pc' \in [Runs -> States] /\ pc'[r] = "await"
      /\ made' \in [Runs -> [Calls -> Nat]]
      /\ \A q \in Runs \ {r} : pc'[q] = pc[q] /\ made'[q] = made[q]
      /\ \A j \in Calls : made'[r][j] = IF j = k THEN made[r][j] + 1 ELSE made[r][j]
  BY <1>1 DEF Typed, States
<1>3. Typed'
  BY <1>1, <1>2 DEF Typed, channel
<1>4. Budget(r)'
  <2>1. turn[r] \in Nat /\ left[r] \in Nat /\ MaxCalls \in Nat /\ left[r] <= MaxCalls
        /\ \A j \in Calls : made[r][j] \in Nat /\ made[r][j] <= Handled(r)
    BY <1>1, RunAssumption DEF Typed, Budget
  <2>2. PICK p \in Nat : p = turn[r] * MaxCalls
    BY <2>1, TurnsTimesCalls
  <2>3. Handled(r) = p + (MaxCalls - left[r]) + 0 /\ Handled(r)' = p + (MaxCalls - left[r]) + 1
    BY <1>1, <1>2, <2>2 DEF Handled
  <2>4. \A j \in Calls : made'[r][j] <= Handled(r)'
    BY <1>2, <2>1, <2>2, <2>3
  <2> QED
    BY <1>1, <1>2, <2>4 DEF Budget
<1>5. r \in alone => Alone(r)'
  <2> SUFFICES ASSUME r \in alone PROVE Alone(r)'
    OBVIOUS
  <2>1. Busy = {r} /\ Busy' = Busy
    BY <1>1, <1>2 DEF Alone, Busy
  <2>2. \A j \in Calls : made[r][j] \in Nat /\ made[r][j] <= 1 /\ (j \in seen <=> made[r][j] = 1)
    BY <1>1 DEF Alone, Typed
  <2>3. \A j \in Calls : made'[r][j] <= 1 /\ (j \in seen' <=> made'[r][j] = 1)
    <3> SUFFICES ASSUME NEW j \in Calls
                 PROVE  made'[r][j] <= 1 /\ (j \in seen' <=> made'[r][j] = 1)
      OBVIOUS
    <3>1. made[r][k] = 0
      BY <1>1, <2>2
    <3>2. CASE j = k
      BY <1>1, <1>2, <3>1, <3>2
    <3>3. CASE j # k
      BY <1>1, <1>2, <2>2, <3>3
    <3> QED
      BY <3>2, <3>3
  <2>4. \A j \in Calls : j \in refused'[r] => made'[r][j] = 1
    BY <1>1, <1>2, <2>2 DEF Alone
  <2> QED
    BY <1>1, <2>1, <2>3, <2>4 DEF Alone
<1> QED
  BY <1>1, <1>2, <1>3, <1>4, <1>5, RunStepInv

(* A conversation that is created now has no message that named it.  The row the
   run asked for is missing only if its message named none.                     *)
LEMMA ResolveStep ==
    ASSUME Inv, NEW r \in Runs, Resolve(r)
    PROVE  Inv'
<1>1. /\ Typed /\ Sent(r) /\ Budget(r) /\ Alone(r) /\ r \in Busy /\ pc[r] = "resolve"
      /\ pc' = [pc EXCEPT ![r] = "turn"]
      /\ UNCHANGED <<bound, pool, order, turn, left, aborted, seen, made, refused, alone, dropped>>
  BY DEF Inv, Resolve, Busy, Goto
<1>2. created \subseteq created' /\ created' \in SUBSET Convs
  BY <1>1 DEF Resolve, Typed
<1>3. /\ conv' \in [Runs -> Convs \union {None}]
      /\ \A q \in Runs \ {r} : conv'[q] = conv[q]
      /\ conv'[r] = conv[r] \/ conv'[r] \notin created
  BY <1>1 DEF Resolve, Typed
<1>4. order[r] > 0 => conv' = conv
  BY <1>1 DEF Resolve, Sent
<1>5. /\ pc' \in [Runs -> States] /\ pc'[r] = "turn" /\ Busy' = Busy
      /\ \A q \in Runs \ {r} : pc'[q] = pc[q]
  BY <1>1 DEF Typed, States, Busy
<1>6. Typed'
  BY <1>1, <1>2, <1>3, <1>5 DEF Typed
<1>7. ASSUME NEW q \in Runs PROVE Sent(q)'
  <2>1. Sent(q) /\ Stamped' = Stamped
    BY <1>1 DEF Inv, Stamped
  <2> QED
    BY <1>1, <1>2, <1>3, <1>4, <1>5, <2>1 DEF Sent
<1>8. ASSUME NEW q \in Runs PROVE Budget(q)'
  <2>1. Budget(q) /\ Handled(q)' = Handled(q)
    BY <1>1, <1>5 DEF Inv, Handled
  <2> QED
    BY <1>1, <1>5, <2>1 DEF Budget
<1>9. ASSUME NEW q \in Runs PROVE Alone(q)'
  BY <1>1, <1>5 DEF Inv, Alone
<1>10. NewestIsInterruptible'
  <2> SUFFICES ASSUME NEW q \in Busy, order[q] > 0, Newest(q)', ~ aborted[q], q \notin dropped
               PROVE  pool[conv'[q]] = q
    BY <1>1, <1>5 DEF NewestIsInterruptible
  <2>1. q \in Runs /\ conv'[q] = conv[q] /\ conv[q] \in created /\ Sent(q)
    BY <1>3, <1>4 DEF Inv, Sent, Busy
  <2>2. Newest(q)
    <3> SUFFICES ASSUME NEW p \in Runs, conv[p] = conv[q] PROVE order[p] <= order[q]
      BY DEF Newest
    <3>1. CASE conv'[p] = conv[p]
      BY <1>1, <2>1, <3>1 DEF Newest
    <3>2. CASE conv'[p] # conv[p]
      <4>1. order[p] \in Nat /\ order[q] \in Nat /\ ~ order[p] > 0
        BY <1>1, <1>3, <1>4, <2>1, <3>2 DEF Typed
      <4> QED
        BY <4>1
    <3> QED
      BY <3>1, <3>2
  <2> QED
    BY <2>1, <2>2 DEF Inv, NewestIsInterruptible
<1> QED
  BY <1>6, <1>7, <1>8, <1>9, <1>10 DEF Inv

LEMMA RunStepKeepsInv ==
    ASSUME Inv, NEW r \in Runs, RunStep(r)
    PROVE  Inv'
<1>1. CASE Resolve(r)
  BY <1>1, ResolveStep
<1>2. CASE \/ PrepareFails(r) \/ BeginTurn(r) \/ StreamFails(r) \/ StreamAborted(r) \/ Persist(r)
           \/ \E n \in 0 .. MaxCalls : StreamEnds(r, n)
  BY <1>2, PlainStep
<1>3. CASE \E k \in Calls : RefuseCall(r, k) \/ MakeCall(r, k)
  BY <1>3, RefuseCallStep, MakeCallStep
<1>4. CASE CallReturns(r)
  BY <1>4, CallReturnsStep
<1> QED
  BY <1>1, <1>2, <1>3, <1>4 DEF RunStep

-----------------------------------------------------------------------------
(* A message gets the next stamp, above those of all others.                    *)
LEMMA StampIsNext ==
    ASSUME Inv, NEW r \in Runs, NEW c \in Convs, order[r] = 0,
           order' = [order EXCEPT ![r] = Stamp(c)]
    PROVE  /\ Stamp(c) \in Nat /\ Stamp(c) = Cardinality(Stamped) + 1
           /\ Cardinality(Stamped) \in Nat /\ order'[r] = Stamp(c)
           /\ Cardinality(Stamped') = Stamp(c)
           /\ \A q \in Runs : order[q] < Stamp(c)
<1>0. Typed /\ \A q \in Runs : Sent(q)
  BY DEF Inv
<1>1. IsFiniteSet(Stamped) /\ Cardinality(Stamped) \in Nat
  BY RunAssumption, FS_Subset, FS_CardinalityType DEF Stamped
<1>2. Stamp(c) = Cardinality(Stamped) + 1
  <2>1. c # None
    BY RunAssumption
  <2> QED
    BY <1>1, <2>1 DEF Stamp, Stamped
<1>3. Stamped' = Stamped \union {r}
  <2>1. order'[r] > 0 /\ \A q \in Runs \ {r} : order'[q] = order[q]
    BY <1>0, <1>1, <1>2 DEF Typed
  <2> QED
    BY <2>1 DEF Stamped
<1>4. r \notin Stamped
  BY DEF Stamped
<1>5. Cardinality(Stamped') = Cardinality(Stamped) + 1
  BY <1>1, <1>3, <1>4, FS_AddElement
<1> QED
  BY <1>0, <1>1, <1>2, <1>5 DEF Sent, Typed

LEMMA UserMessageStep ==
    ASSUME Inv, NEW cl \in Clients, NEW c \in created \union {None}, NEW r \in Runs,
           UserMessage(cl, c, r)
    PROVE  Inv'
<1>1. /\ Typed /\ Sent(r) /\ Budget(r) /\ pc[r] = "unsent" /\ c \in Convs \union {None}
      /\ pc' = [pc EXCEPT ![r] = "resolve"] /\ conv' = [conv EXCEPT ![r] = c]
      /\ order' = [order EXCEPT ![r] = Stamp(c)]
      /\ bound' = IF c = None THEN bound ELSE [bound EXCEPT ![cl] = c]
      /\ pool' = IF c = None THEN pool ELSE [pool EXCEPT ![c] = r]
      /\ seen' = {}
      /\ alone' = IF Busy = {} THEN alone ELSE alone \ (Busy \union {r})
      /\ UNCHANGED <<created, aborted, turn, left, made, refused, dropped>>
  BY DEF Inv, Typed, UserMessage, Goto, Register
<1>2. order[r] = 0 /\ conv[r] = None
  BY <1>1 DEF Sent
<1>3. /\ Stamp(c) \in Nat /\ order'[r] = Stamp(c)
      /\ c = None => order' = order
      /\ c # None => Stamp(c) > 0 /\ \A q \in Runs : order[q] < Stamp(c)
      /\ Cardinality(Stamped) \in Nat /\ Cardinality(Stamped') >= Cardinality(Stamped)
      /\ Stamp(c) <= Cardinality(Stamped')
  <2>1. CASE c = None
    <3>1. Stamp(c) = 0
      BY <2>1 DEF Stamp
    <3>2. order' = order /\ Stamped' = Stamped
      BY <1>1, <1>2, <3>1 DEF Typed, Stamped
    <3>3. Cardinality(Stamped) \in Nat
      BY RunAssumption, FS_Subset, FS_CardinalityType DEF Stamped
    <3> QED
      BY <1>2, <2>1, <3>1, <3>2, <3>3
  <2>2. CASE c # None
    <3>1. c \in Convs
      BY <1>1, <2>2
    <3>2. /\ Stamp(c) \in Nat /\ Stamp(c) = Cardinality(Stamped) + 1
          /\ Cardinality(Stamped) \in Nat /\ order'[r] = Stamp(c)
          /\ Cardinality(Stamped') = Stamp(c)
          /\ \A q \in Runs : order[q] < Stamp(c)
      BY <1>1, <1>2, <3>1, StampIsNext
    <3> QED
      BY <2>2, <3>2
  <2> QED
    BY <2>1, <2>2
<1>4. Typed'
  <2>1. bound' \in [Clients -> Convs \union {None, "closed"}]
    BY <1>1 DEF Typed
  <2>2. pool' \in [Convs -> Runs \union {None}]
    BY <1>1 DEF Typed
  <2>3. /\ pc' \in [Runs -> States] /\ conv' \in [Runs -> Convs \union {None}]
        /\ order' \in [Runs -> Nat] /\ alone' \in SUBSET Runs
    BY <1>1, <1>3 DEF Typed, States
  <2> QED
    BY <1>1, <2>1, <2>2, <2>3 DEF Typed
<1>5. /\ pc'[r] = "resolve" /\ conv'[r] = c /\ Busy' = Busy \union {r} /\ r \notin Busy
      /\ \A q \in Runs \ {r} : pc'[q] = pc[q] /\ conv'[q] = conv[q] /\ order'[q] = order[q]
  BY <1>1 DEF Typed, Busy
<1>6. ASSUME NEW q \in Runs PROVE Sent(q)'
  <2>1. CASE q = r
    BY <1>1, <1>3, <1>5, <2>1, RunAssumption DEF Sent
  <2>2. CASE q # r
    <3>1. Sent(q) /\ order[q] \in Nat
      BY <1>1 DEF Inv, Typed
    <3>2. order'[q] <= Cardinality(Stamped')
      BY <1>3, <1>4, <1>5, <2>2, <3>1, FS_CardinalityType, RunAssumption, FS_Subset DEF Sent, Stamped
    <3> QED
      BY <1>1, <1>5, <2>2, <3>1, <3>2 DEF Sent
  <2> QED
    BY <2>1, <2>2
<1>7. ASSUME NEW q \in Runs PROVE Budget(q)'
  <2>1. CASE q = r
    <3>1. turn[r] = 0 /\ (\A k \in Calls : made[r][k] = 0) /\ left[r] <= MaxCalls
      BY <1>1 DEF Sent, Budget
    <3>2. 0 * MaxCalls = 0
      BY RunAssumption
    <3>3. Handled(r)' = 0
      BY <1>1, <1>5, <3>1, <3>2 DEF Handled
    <3> QED
      BY <1>1, <1>5, <2>1, <3>1, <3>3, RunAssumption DEF Budget
  <2>2. CASE q # r
    <3>1. Budget(q) /\ Handled(q)' = Handled(q)
      BY <1>1, <1>5, <2>2 DEF Inv, Handled
    <3> QED
      BY <1>1, <1>5, <2>2, <3>1 DEF Budget
  <2> QED
    BY <2>1, <2>2
<1>8. ASSUME NEW q \in Runs PROVE Alone(q)'
  <2> SUFFICES ASSUME q \in alone' PROVE Alone(q)'
    BY DEF Alone
  <2>1. Alone(q) /\ q \in alone /\ q \notin Busy /\ (q = r => Busy = {})
    BY <1>1, <1>5 DEF Inv, Alone
  <2>2. CASE q = r
    BY <1>1, <1>5, <2>1, <2>2 DEF Alone, Sent
  <2>3. CASE q # r
    BY <1>1, <1>5, <2>1, <2>3 DEF Alone
  <2> QED
    BY <2>2, <2>3
<1>9. NewestIsInterruptible'
  <2> SUFFICES ASSUME NEW q \in Runs, q \in Busy', order'[q] > 0, Newest(q)', ~ aborted[q],
                      q \notin dropped
               PROVE  pool'[conv'[q]] = q
    BY <1>1, <1>5 DEF NewestIsInterruptible, Busy
  <2>1. CASE q = r
    <3>1. c # None
      BY <1>2, <1>3, <2>1
    <3> QED
      BY <1>1, <1>5, <2>1, <3>1 DEF Typed
  <2>2. CASE q # r
    <3>1. q \in Busy /\ order[q] > 0 /\ conv[q] \in created /\ conv'[q] = conv[q]
      BY <1>5, <2>2 DEF Inv, Sent
    <3>2. Newest(q)
      <4> SUFFICES ASSUME NEW p \in Runs, conv[p] = conv[q] PROVE order[p] <= order[q]
        BY DEF Newest
      <4>1. p # r
        BY <1>1, <1>2, <3>1, RunAssumption DEF Typed
      <4> QED
        BY <1>5, <2>2, <4>1 DEF Newest
    <3>3. pool[conv[q]] = q
      BY <3>1, <3>2 DEF Inv, NewestIsInterruptible
    <3>4. c # conv[q]
      <4> SUFFICES ASSUME c = conv[q] PROVE FALSE
        OBVIOUS
      <4>1. c # None
        BY <1>1, <3>1, RunAssumption DEF Typed
      <4>2. order'[r] > order'[q] /\ order'[r] \in Nat /\ order'[q] \in Nat
        BY <1>3, <1>4, <1>5, <2>2, <4>1 DEF Typed
      <4>3. order'[r] <= order'[q]
        BY <1>5, <2>2 DEF Newest
      <4> QED
        BY <4>2, <4>3
    <3> QED
      BY <1>1, <3>1, <3>3, <3>4 DEF Typed
  <2> QED
    BY <2>1, <2>2
<1> QED
  BY <1>4, <1>6, <1>7, <1>8, <1>9 DEF Inv

(* What the pool lost was aborted or dropped.                                   *)
LEMMA InterruptStep ==
    ASSUME Inv, NEW cl \in Clients, NEW c \in created, Interrupt(cl, c)
    PROVE  Inv'
<1>1. /\ Typed /\ c \in Convs /\ pool[c] \in Runs
      /\ aborted' = [aborted EXCEPT ![pool[c]] = TRUE] /\ pool' = [pool EXCEPT ![c] = None]
      /\ UNCHANGED <<bound, created, order, run, seen, made, refused, alone, dropped>>
  BY DEF Inv, Typed, Interrupt
<1>2. Typed'
  BY <1>1 DEF Typed, run
<1>3. ASSUME NEW q \in Runs PROVE Sent(q)' /\ Budget(q)' /\ Alone(q)'
  BY <1>1 DEF Inv, run, Sent, Stamped, Budget, Handled, Alone, Busy
<1>4. NewestIsInterruptible'
  <2> SUFFICES ASSUME NEW q \in Busy, order[q] > 0, Newest(q), ~ aborted'[q], q \notin dropped
               PROVE  pool'[conv[q]] = q
    BY <1>1 DEF NewestIsInterruptible, Busy, Newest, run
  <2>1. q \in Runs /\ conv[q] \in Convs
    BY <1>1 DEF Inv, Sent, Busy, Typed
  <2>2. q # pool[c] /\ ~ aborted[q]
    BY <1>1, <2>1 DEF Typed
  <2>3. pool[conv[q]] = q
    BY <2>2 DEF Inv, NewestIsInterruptible
  <2> QED
    BY <1>1, <2>1, <2>2, <2>3 DEF Typed
<1> QED
  BY <1>2, <1>3, <1>4 DEF Inv

LEMMA TeardownStep ==
    ASSUME Inv, NEW cl \in Clients, Teardown(cl)
    PROVE  Inv'
<1>1. /\ Typed /\ bound' = [bound EXCEPT ![cl] = "closed"]
      /\ \/ UNCHANGED <<pool, dropped>>
         \/ /\ bound[cl] \in Convs /\ pool' = [pool EXCEPT ![bound[cl]] = None]
            /\ dropped' = dropped \union ({pool[bound[cl]]} \ {None})
      /\ UNCHANGED <<created, order, run, aborted, seen, made, refused, alone>>
  BY DEF Inv, Typed, Teardown
<1>2. Typed'
  BY <1>1 DEF Typed, run
<1>3. ASSUME NEW q \in Runs PROVE Sent(q)' /\ Budget(q)' /\ Alone(q)'
  BY <1>1 DEF Inv, run, Sent, Stamped, Budget, Handled, Alone, Busy
<1>4. NewestIsInterruptible'
  <2> SUFFICES ASSUME NEW q \in Busy, order[q] > 0, Newest(q), ~ aborted[q], q \notin dropped'
               PROVE  pool'[conv[q]] = q
    BY <1>1 DEF NewestIsInterruptible, Busy, Newest, run
  <2>1. q \in Runs /\ conv[q] \in Convs /\ q # None
    BY <1>1, RunAssumption DEF Inv, Sent, Busy, Typed
  <2>2. pool[conv[q]] = q
    BY <1>1 DEF Inv, NewestIsInterruptible
  <2> QED
    BY <1>1, <2>1, <2>2 DEF Typed
<1> QED
  BY <1>2, <1>3, <1>4 DEF Inv

LEMMA StutterInv == Inv /\ UNCHANGED vars => Inv'
<1> SUFFICES ASSUME Inv, UNCHANGED vars PROVE Inv'
  OBVIOUS
<1> USE DEF vars, channel, run
<1>1. Typed'
  BY DEF Inv, Typed
<1>2. ASSUME NEW q \in Runs PROVE Sent(q)' /\ Budget(q)' /\ Alone(q)'
  BY DEF Inv, Sent, Stamped, Budget, Handled, Alone, Busy
<1>3. NewestIsInterruptible'
  BY DEF Inv, NewestIsInterruptible, Newest, Busy
<1> QED
  BY <1>1, <1>2, <1>3 DEF Inv

(* The invariant of the runs: TypeTheorem, NewestTheorem and RepeatsTheorem follow. *)
THEOREM InvTheorem == Spec => []Inv
<1>1. Inv /\ [Next]_vars => Inv'
  <2> SUFFICES ASSUME Inv, Next PROVE Inv'
    BY StutterInv
  <2>1. ASSUME NEW cl \in Clients, NEW c \in created \union {None}, NEW r \in Runs,
               UserMessage(cl, c, r)
        PROVE  Inv'
    BY <2>1, UserMessageStep
  <2>2. ASSUME NEW cl \in Clients, NEW c \in created, Interrupt(cl, c) PROVE Inv'
    BY <2>2, InterruptStep
  <2>3. ASSUME NEW cl \in Clients, Teardown(cl) PROVE Inv'
    BY <2>3, TeardownStep
  <2>4. ASSUME NEW r \in Runs, RunStep(r) PROVE Inv'
    BY <2>4, RunStepKeepsInv
  <2> QED
    BY <2>1, <2>2, <2>3, <2>4 DEF Next
<1> QED
  BY InitInv, <1>1, PTL DEF Spec

(* Every variable has its type, for every budget: a run takes no more than
   MAX_TOOL_TURNS turns (runner.ts:168), makes no call more often than it has
   blocks in all its turns, and a run in the tool loop has a block and a turn left. *)
THEOREM TypeTheorem == Spec => []TypeOK
<1>1. Inv => TypeOK
  <2> SUFFICES ASSUME Inv PROVE TypeOK
    OBVIOUS
  <2>1. Typed /\ {MaxTurns, MaxCalls} \subseteq Nat
    BY RunAssumption DEF Inv
  <2>2. ASSUME NEW r \in Runs, NEW k \in Calls PROVE made[r][k] \in 0 .. MaxTurns * MaxCalls
    <3>1. /\ turn[r] \in Nat /\ left[r] \in Nat /\ made[r][k] \in Nat /\ turn[r] <= MaxTurns
          /\ left[r] <= MaxCalls /\ MaxCalls \in Nat /\ made[r][k] <= Handled(r)
          /\ pc[r] \in {"tools", "await"} => left[r] > 0 /\ turn[r] < MaxTurns
      BY <2>1 DEF Inv, Typed, Budget
    <3>2. PICK p \in Nat : p = turn[r] * MaxCalls
      BY <3>1, TurnsTimesCalls
    <3>3. PICK m \in Nat : m = MaxTurns * MaxCalls
      BY <2>1, TurnsTimesCalls
    <3>4. p <= m
      BY <3>1, <3>2, <3>3, TurnsTimesCalls
    <3>5. turn[r] < MaxTurns => p + MaxCalls <= m
      <4> SUFFICES ASSUME turn[r] < MaxTurns PROVE p + MaxCalls <= m
        OBVIOUS
      <4>1. turn[r] + 1 \in Nat /\ turn[r] + 1 <= MaxTurns
        BY <2>1, <3>1
      <4>2. (turn[r] + 1) * MaxCalls <= MaxTurns * MaxCalls
        BY <4>1, TurnsTimesCalls
      <4>3. (turn[r] + 1) * MaxCalls = turn[r] * MaxCalls + MaxCalls
        BY <3>1, TurnsTimesCalls
      <4> QED
        BY <3>2, <3>3, <4>2, <4>3
    <3>6. Handled(r) = p + (IF pc[r] \in {"tools", "await"} THEN MaxCalls - left[r] ELSE 0)
                         + (IF pc[r] = "await" THEN 1 ELSE 0)
      BY <3>2 DEF Handled
    <3>7. Handled(r) <= m
      BY <3>1, <3>2, <3>3, <3>4, <3>5, <3>6
    <3>8. made[r][k] <= m
      BY <3>1, <3>2, <3>3, <3>6, <3>7
    <3> QED
      BY <3>1, <3>3, <3>8
  <2>3. made \in [Runs -> [Calls -> 0 .. MaxTurns * MaxCalls]]
    BY <2>1, <2>2 DEF Typed
  <2>4. order \in [Runs -> 0 .. Cardinality(Runs)]
    <3>1. Cardinality(Stamped) \in Nat /\ Cardinality(Runs) \in Nat
          /\ Cardinality(Stamped) <= Cardinality(Runs)
      BY RunAssumption, FS_Subset, FS_CardinalityType DEF Stamped
    <3>2. \A r \in Runs : order[r] \in Nat /\ order[r] <= Cardinality(Stamped)
      BY <2>1 DEF Inv, Sent, Typed
    <3>3. \A r \in Runs : order[r] \in 0 .. Cardinality(Runs)
      BY <3>1, <3>2
    <3> QED
      BY <2>1, <3>3 DEF Typed
  <2>5. turn \in [Runs -> 0 .. MaxTurns] /\ left \in [Runs -> 0 .. MaxCalls]
    <3>1. \A r \in Runs : turn[r] \in 0 .. MaxTurns /\ left[r] \in 0 .. MaxCalls
      BY <2>1 DEF Inv, Budget, Typed
    <3> QED
      BY <2>1, <3>1 DEF Typed
  <2>6. \A r \in Runs : pc[r] \in {"tools", "await"} => left[r] > 0 /\ turn[r] < MaxTurns
    BY DEF Inv, Budget
  <2> QED
    BY <2>1, <2>3, <2>4, <2>5, <2>6 DEF Typed, TypeOK
<1> QED
  BY <1>1, InvTheorem, PTL

(* The latest message sent to an existing conversation can be interrupted until
   its run ends (web.ts:201), for any number of runs of the conversation.       *)
THEOREM NewestTheorem == Spec => []NewestIsInterruptible
<1>1. Inv => NewestIsInterruptible
  BY DEF Inv
<1> QED
  BY <1>1, InvTheorem, PTL

(* A run beside which no other runs makes a call once, and is refused only calls
   that it made (runner.ts:328-339).                                            *)
THEOREM RepeatsTheorem == Spec => []RepeatsAreItsOwn
<1>1. Inv => RepeatsAreItsOwn
  BY DEF Inv, Typed, Alone, RepeatsAreItsOwn
<1> QED
  BY <1>1, InvTheorem, PTL
=============================================================================
