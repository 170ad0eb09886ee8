------------------------------- MODULE Screens -------------------------------
(***************************************************************************)
(* One pane of one page of the console, and one handler that bears on it:  *)
(* the inputs a person changes, the requests of the pane with their        *)
(* answers in any order, the command and what follows it. The pages are    *)
(* the records of the modules FinancePages, SalesPages, RulePages and      *)
(* AdminPages.                                                             *)
(*                                                                         *)
(* An effect of React runs after the render in which one of its            *)
(* dependencies changed; fetch has no timeout, so a request ends with an   *)
(* answer or a failure whenever it does.                                   *)
(***************************************************************************)
EXTENDS ScreenParts, Sequences

CONSTANTS Pages,         \* the pages by name
          MaxChanges,    \* changes of an input by the person
          MaxFlight,     \* requests of the pane under way at once
          MaxPolls,      \* the same for a polled pane
          MaxFaults,     \* requests and commands that fail
          MaxElsewhere,  \* writes of others to what a polled pane shows
          Unwatched,     \* <<page, pane, input>>, see ShowsWhatIsChosen
          LeftBehind,    \* <<page, handler, pane>>, see ShowsWhatWasWritten
          Premature,     \* <<page, handler, pane>>, see ShowsWhatWasWritten
          Outlived,      \* <<page, input, input>>, see ChoicesFit
          Hidden         \* <<page, pane>>, see PolledCatchesUp

VARIABLES subject,   \* the page, its pane and its handler under study
          input,     \* which inputs differ from those the page opened with
          flight,    \* requests of the pane under way, oldest first
          shown,     \* what the pane displays
          notice,    \* its loading and error flags
          call,      \* the command of the handler
          db,        \* version of the tables the pane reads
          chances,   \* changes, faults and writes of others that are left
          excuse     \* what the person may hold against a stale pane

screenVars == <<subject, input, flight, shown, notice, call, db, chances, excuse>>

NoOp    == "none"
Nothing == [with |-> <<>>, ver |-> 0]

Page    == Pages[subject.page]
Pane    == Page.panes[subject.pane]
Op      == Page.ops[subject.op]

------------------------------------------------------------------------------
(* Static facts of a page.                                                 *)

PaneReads(pane)   == UNION {q.reads : q \in pane.ask}
PaneParams(pane)  == UNION {q.params : q \in pane.ask}
OpWrites(op)      == op.does.writes \cup op.does.later
(* The inputs that bear on the pane: those it carries or watches and those *)
(* that reset one of them.                                                 *)
Bearing(page, pane) ==
    LET own == pane.uses \cup pane.deps \cup pane.needs
    IN  own \cup {r[1] : r \in {x \in page.resets \cup page.follows : x[2] \in own}}

(* A handler bears on a pane that it requests again or changes, or whose   *)
(* tables it writes.                                                       *)
Touches(page, o, p) ==
    LET op == page.ops[o]
    IN  \/ p \in op.again \cup op.patches
        \/ OpWrites(op) \cap PaneReads(page.panes[p]) # {}

(* What the page shows, and what its controls call.                        *)
ShownPanes(page)  == UNION {s.shows : s \in page.sections}
OfferedOps(page)  == UNION {s.offers : s \in page.sections}

(* Every pane of every page, alone and with each handler that bears on it. *)
Subjects ==
    UNION { UNION { {[page |-> g, pane |-> p, op |-> o] :
                        o \in {NoOp} \cup {x \in OfferedOps(Pages[g]) : Touches(Pages[g], x, p)}}
                    : p \in ShownPanes(Pages[g])}
            : g \in DOMAIN Pages}

------------------------------------------------------------------------------
(* What the pages must keep for the properties below to hold whatever the  *)
(* bounds: TLC evaluates it on the records of every page.                  *)

Adjusts(page) == page.resets \cup page.follows
Held(g, p)    == {i \in Pages[g].panes[p].uses : <<g, p, i>> \notin Unwatched}

(* What the requests of a pane carry is taken by a route, and a change of  *)
(* it runs the effect of the pane or takes back an input the pane needs;   *)
(* a pane that keeps its answers carries no more than it needs.            *)
Watches(g, p) ==
    LET page == Pages[g]
        pane == page.panes[p]
        held == Held(g, p)
    IN  /\ held \subseteq PaneParams(pane) /\ pane.needs \subseteq pane.deps
        /\ IF pane.once
           THEN held \subseteq pane.needs /\ \A r \in page.follows : r[2] \notin pane.deps
           ELSE \A i \in held \ pane.deps :
                  /\ \E j \in pane.needs : <<i, j>> \in Adjusts(page)
                  /\ \A r \in Adjusts(page) : r[2] # i
        /\ \A o \in OfferedOps(page) : Touches(page, o, p) =>
              /\ page.ops[o].closes \cap held \subseteq pane.needs
              /\ pane.once => p \notin page.ops[o].patches

(* A pane is asked for again whenever it is shown again.                   *)
Renewed(pane) == pane.needs \subseteq pane.deps /\ ~pane.once

(* What handler o writes reaches pane p: it asks again, with inputs that   *)
(* the pane can be asked for, or changes the pane itself, before the       *)
(* answer only if nothing else fills it, or closes it.                     *)
FollowsUp(g, o, p) ==
    LET pane == Pages[g].panes[p]
        op   == Pages[g].ops[o]
    IN  /\ op.does.later \cap PaneReads(pane) = {}
        /\ pane.deps = {} \/ Renewed(pane)
        /\ \/ /\ p \in op.again
              /\ IF op.by = "closure" THEN pane.needs \subseteq op.needs ELSE Renewed(pane)
           \/ p \in op.patches /\ (op.early => pane.deps = {})
           \/ Renewed(pane) /\ op.closes \cap pane.needs # {}

(* Whatever changes the second input of the pair sets the first to its     *)
(* default.                                                                *)
TakesBack(page, x) ==
    LET pairs == Adjusts(page)
    IN  /\ x[1] # x[2] /\ <<x[2], x[1]>> \in pairs
        /\ \A r \in pairs : r[2] = x[2] => r[1] = x[1] \/ <<r[1], x[1]>> \in pairs
        /\ \A o \in OfferedOps(page) :
              x[2] \in page.ops[o].closes => x[1] \in page.ops[o].closes

ASSUME BoundAssumption ==
    /\ {MaxChanges, MaxFlight, MaxPolls, MaxFaults, MaxElsewhere} \subseteq Nat
    /\ MaxFlight > 0 /\ MaxPolls <= MaxFlight

ASSUME PageAssumption ==
    \A g \in DOMAIN Pages :
      /\ \A p \in ShownPanes(Pages[g]) :
            /\ {Pages[g].panes[p].once, Pages[g].panes[p].timer} \subseteq BOOLEAN
            /\ Pages[g].panes[p].late \in {"taken", "dropped"}
            /\ Pages[g].panes[p].fails \in {"said", "kept", "cleared", "stuck", "lasting"}
      /\ \A o \in OfferedOps(Pages[g]) : o # NoOp /\ Pages[g].ops[o].early \in BOOLEAN

ASSUME WatchAssumption ==
    \A g \in DOMAIN Pages : \A p \in ShownPanes(Pages[g]) : Held(g, p) # {} => Watches(g, p)

ASSUME FollowUpAssumption ==
    \A g \in DOMAIN Pages :
      \A p \in ShownPanes(Pages[g]), o \in OfferedOps(Pages[g]) :
        LET pane == Pages[g].panes[p]
            op   == Pages[g].ops[o]
        IN  Touches(Pages[g], o, p) =>
              /\ (<<g, o, p>> \notin LeftBehind /\ ~pane.timer
                    /\ OpWrites(op) \cap PaneReads(pane) # {}) => FollowsUp(g, o, p)
              /\ (op.early /\ p \in op.patches) => <<g, o, p>> \in Premature

ASSUME ChoiceAssumption ==
    \A g \in DOMAIN Pages : \A x \in Pages[g].options :
      <<g, x[1], x[2]>> \notin Outlived => TakesBack(Pages[g], x)

------------------------------------------------------------------------------
(* The inputs that bear on the pane and its handler.                       *)
Relevant ==
    Bearing(Page, Pane)
      \cup (IF subject.op = NoOp THEN {} ELSE Op.needs)

(* An input is 0 while it is as the page opened and 1 when it differs; a   *)
(* request may still carry what an effect is about to replace.             *)
Left == 2

Chosen(inputs) == \A i \in inputs : input[i] = 1

ResetBy_None(pairs, i) == {}  \* mutant: the handler sets one input only
ResetBy(pairs, i) == {r[2] : r \in {x \in pairs : x[1] = i}} \cap Relevant

------------------------------------------------------------------------------
(* Requests.                                                               *)

Request(with) == [with |-> with, at |-> "asked", ver |-> 0, old |-> FALSE]

Room == IF Pane.timer THEN MaxPolls ELSE MaxFlight

(* An error that nothing takes back stays whatever comes after it.         *)
Notice(new) == IF Pane.fails = "lasting" /\ notice = "error" THEN "error" ELSE new

(* Requests with the inputs `withs`, one after the other: those that were  *)
(* cancelled are forgotten, and what was held against the pane before      *)
(* gives way to `why`.                                                     *)
AskInTurn(withs, why) ==
    LET asked == [k \in 1..Len(withs) |-> Request(withs[k])]
    IN  /\ Pane.late = "taken" => Len(flight) + Len(withs) <= Room
        /\ flight' = IF Pane.late = "dropped" THEN <<asked[Len(withs)]>> ELSE flight \o asked
        /\ notice' = Notice("loading")
        /\ excuse' = why
        /\ UNCHANGED shown

(* mutant: nothing is requested while something is under way.              *)
Ask_Idle(with) ==
    IF notice = "loading" THEN UNCHANGED <<flight, shown, notice, excuse>>
    ELSE AskInTurn(<<with>>, {})
Ask(with) == AskInTurn(<<with>>, {})

ScreenInit ==
    /\ subject \in Subjects
    /\ input = [i \in Relevant |-> 0]
    /\ flight = IF Pane.needs = {} THEN <<Request(input)>> ELSE <<>>
    /\ shown = Nothing
    /\ notice = IF Pane.needs = {} THEN "loading" ELSE "quiet"
    /\ call = [at |-> "none", with |-> input, ver |-> 0]
    /\ db = 1
    /\ chances = [changes |-> MaxChanges, faults |-> MaxFaults, others |-> MaxElsewhere]
    /\ excuse = {}

(* The effect of the pane runs when something it watches has changed.      *)
Watched(next) == \E j \in Pane.deps : next[j] # input[j]
Unmet(next)   == \E j \in Pane.needs : next[j] = 0

(* Nothing is chosen any more: the pane is empty, what is under way stays. *)
Leave(under) ==
    /\ flight' = IF Pane.late = "dropped" THEN <<>> ELSE under
    /\ shown' = IF Pane.once THEN shown ELSE Nothing
    /\ notice' = Notice("quiet")
    /\ excuse' = {}

(* The person changes an input and the handler sets those it resets to     *)
(* their default. Where another effect adjusts an input after that render, *)
(* the effect of the pane has run with the one that is left over and runs  *)
(* again.                                                                  *)
Change(i) ==
    LET reset == ResetBy(Page.resets, i)
        late  == ResetBy(Page.follows, i)
        next  == [j \in Relevant |-> IF j = i THEN 1 - input[i]
                                     ELSE IF j \in reset \cup late THEN 0 ELSE input[j]]
        first == [j \in Relevant |-> IF j \in late THEN Left ELSE next[j]]
        twice == Pane.deps \cap late # {} /\ i \in Pane.deps
        stray == twice /\ Chosen(Pane.needs) /\ Len(flight) < Room
    IN  /\ chances.changes > 0
        /\ input' = next
        /\ chances' = [chances EXCEPT !.changes = @ - 1]
        /\ IF ~Watched(next) \/ (~Unmet(next) /\ Pane.once /\ shown # Nothing)
           THEN UNCHANGED <<flight, shown, notice, excuse>>
           ELSE IF Unmet(next)
           THEN Leave(IF stray THEN Append(flight, Request(first)) ELSE flight)
           ELSE IF twice THEN AskInTurn(<<first, next>>, {})
           ELSE Ask(IF i \in Pane.deps THEN first ELSE next)
        /\ UNCHANGED <<subject, call, db>>

(* The route reads its tables.                                             *)
Serve(k) ==
    /\ flight[k].at = "asked"
    /\ flight' = [flight EXCEPT ![k].at = "served", ![k].ver = db]
    /\ UNCHANGED <<subject, input, shown, notice, call, db, chances, excuse>>

Forget(k) == [j \in 1..Len(flight) - 1 |->
                IF j < k THEN [flight[j] EXCEPT !.old = TRUE] ELSE flight[j + 1]]

(* An answer comes in and is displayed, whatever came in before it. What   *)
(* the routes do not take from the request is not in the answer.           *)
Arrive(k) ==
    LET r == flight[k]
    IN  /\ r.at = "served"
        /\ flight' = Forget(k)
        /\ shown' = [with |-> [i \in Pane.uses \cap PaneParams(Pane) |-> r.with[i]],
                     ver |-> r.ver]
        /\ notice' = Notice("quiet")
        /\ excuse' = IF r.old THEN excuse \cup {"overtaken"} ELSE excuse \ {"swallowed"}
        /\ UNCHANGED <<subject, input, call, db, chances>>

(* A request fails, before or after it was served.                         *)
Fail(k) ==
    /\ chances.faults > 0
    /\ chances' = [chances EXCEPT !.faults = @ - 1]
    /\ flight' = Forget(k)
    /\ shown' = IF Pane.fails = "cleared" THEN Nothing ELSE shown
    /\ notice' = CASE Pane.fails \in {"said", "lasting"} -> "error"
                   [] Pane.fails = "stuck" -> "loading"
                   [] OTHER                -> "quiet"
    /\ excuse' = IF Pane.fails \in {"kept", "cleared"} THEN excuse \cup {"swallowed"} ELSE excuse
    /\ UNCHANGED <<subject, input, call, db>>

(* The interval of a polled pane.                                          *)
Tick ==
    /\ Pane.timer
    /\ Chosen(Pane.needs)
    /\ UNCHANGED <<subject, input, call, db, chances>>
    /\ Ask(input)

------------------------------------------------------------------------------
(* The handler.                                                            *)

Patches == subject.pane \in Op.patches

(* What is under way is older than what the page now shows.                *)
Patch(version) ==
    /\ shown' = [shown EXCEPT !.ver = version]
    /\ flight' = [k \in 1..Len(flight) |-> [flight[k] EXCEPT !.old = TRUE]]

(* The button is not disabled while its command is under way or done.      *)
Submit_Again ==
    /\ subject.op # NoOp
    /\ call.at # "sent"
    /\ Chosen(Op.needs)
    /\ call' = [call EXCEPT !.at = "sent", !.with = input]
    /\ UNCHANGED <<subject, input, flight, shown, notice, db, chances, excuse>>

(* An early patch shows the outcome before the command is sent.            *)
Submit ==
    /\ subject.op # NoOp
    /\ call.at = "none"
    /\ Chosen(Op.needs)
    /\ call' = [call EXCEPT !.at = "sent", !.with = input]
    /\ IF Op.early /\ Patches THEN Patch(db + 1) ELSE UNCHANGED <<flight, shown>>
    /\ UNCHANGED <<subject, input, notice, db, chances, excuse>>

(* The route commits its writes; what it leaves to another process is not  *)
(* among them.                                                             *)
Bump(tables) == IF tables \cap PaneReads(Pane) # {} THEN db + 1 ELSE db

Commit ==
    /\ call.at = "sent"
    /\ db' = Bump(Op.does.writes)
    /\ call' = [call EXCEPT !.at = "committed", !.ver = db']
    /\ UNCHANGED <<subject, input, flight, shown, notice, chances, excuse>>

(* The inputs a handler asks again with, when it does.                     *)
Carried == IF Op.by = "closure" THEN call.with ELSE input
(* mutant: the handler does not ask while something is under way.          *)
Reloads_Idle == notice # "loading" /\ subject.pane \in Op.again /\ \A j \in Pane.needs : Carried[j] = 1
Reloads == subject.pane \in Op.again /\ \A j \in Pane.needs : Carried[j] = 1
Reload  == AskInTurn(<<Carried>>, IF \A i \in Pane.uses : Carried[i] = input'[i]
                                  THEN {} ELSE {"closure"})

(* The answer: the page asks again for the panes that depend on it, with   *)
(* the inputs of the render the handler belongs to, or changes them        *)
(* itself.                                                                 *)
Return ==
    LET next == [j \in Relevant |-> IF j \in Op.closes THEN 0 ELSE input[j]]
    IN
    /\ call.at = "committed"
    /\ call' = [call EXCEPT !.at = IF Op.does.later = {} THEN "done" ELSE "left"]
    /\ input' = next
    /\ UNCHANGED <<subject, db, chances>>
    /\ IF Watched(next) /\ Unmet(next) THEN Leave(flight)
       ELSE IF Reloads THEN Reload
       ELSE IF Patches /\ ~Op.early
       THEN Patch(call.ver) /\ UNCHANGED <<notice, excuse>>
       ELSE UNCHANGED <<flight, shown, notice, excuse>>

(* The process the route left behind has written its tables.               *)
FinishLater ==
    /\ call.at = "left"
    /\ db' = Bump(Op.does.later)
    /\ call' = [call EXCEPT !.at = "done", !.ver = db']
    /\ UNCHANGED <<subject, input, flight, shown, notice, chances, excuse>>

(* The command fails, or its answer is lost; the page says so.             *)
Refuse ==
    /\ call.at \in {"sent", "committed"}
    /\ chances.faults > 0
    /\ chances' = [chances EXCEPT !.faults = @ - 1]
    /\ call' = [call EXCEPT !.at = "failed"]
    /\ UNCHANGED <<subject, input, flight, shown, notice, db, excuse>>

(* The route answers that it refuses, and the handler asks again anyway.   *)
RefuseUnread ==
    /\ call.at = "sent"
    /\ chances.faults > 0
    /\ Op.anyway /\ Reloads
    /\ chances' = [chances EXCEPT !.faults = @ - 1]
    /\ call' = [call EXCEPT !.at = "failed"]
    /\ UNCHANGED <<subject, input, db>>
    /\ Reload

(* Somebody else writes what a polled pane shows.                          *)
Elsewhere ==
    /\ Pane.timer
    /\ chances.others > 0
    /\ chances' = [chances EXCEPT !.others = @ - 1]
    /\ db' = db + 1
    /\ UNCHANGED <<subject, input, flight, shown, notice, call, excuse>>

------------------------------------------------------------------------------
ScreenNext ==
    \/ \E i \in Relevant : Change(i)
    \/ \E k \in 1..Len(flight) : Serve(k) \/ Arrive(k) \/ Fail(k)
    \/ Tick
    \/ Submit \/ Commit \/ Return \/ FinishLater \/ Refuse \/ RefuseUnread
    \/ Elsewhere

(* Answers and commands are under way in the network and on the server     *)
(* whatever the person does; an interval fires while the page is open.     *)
ScreenFairness ==
    /\ WF_screenVars(\E k \in 1..Len(flight) : Serve(k))
    /\ WF_screenVars(\E k \in 1..Len(flight) : Arrive(k))
    /\ WF_screenVars(Tick)
    /\ WF_screenVars(Commit) /\ WF_screenVars(Return) /\ WF_screenVars(FinishLater)

ScreenSpec == ScreenInit /\ [][ScreenNext]_screenVars /\ ScreenFairness

------------------------------------------------------------------------------
(* The state has the shape the actions give it.                            *)
ScreenTypeOK ==
    /\ subject \in Subjects
    /\ input \in [Relevant -> 0..1]
    /\ Len(flight) <= MaxFlight
    /\ \A k \in 1..Len(flight) :
         /\ flight[k].with \in [Relevant -> 0..Left]
         /\ flight[k].at \in {"asked", "served"}
         /\ flight[k].ver \in 0..db
         /\ flight[k].old \in BOOLEAN
    /\ shown.ver \in 0..db + 1
    /\ notice \in {"quiet", "loading", "error"}
    /\ call.at \in {"none", "sent", "committed", "left", "done", "failed"}
    /\ db \in 1..3 + MaxElsewhere
    /\ excuse \subseteq {"overtaken", "swallowed", "closure"}

(* Requested by a handler only, never when an input changes.               *)
OnDemand == Pane.deps = {} /\ Pane.needs # {}

(* The pane is at rest and nothing that happened on the way explains what  *)
(* it shows.                                                               *)
AtRest ==
    /\ flight = <<>> /\ notice = "quiet" /\ excuse = {}
    /\ Chosen(Pane.needs)
    /\ OnDemand => shown # Nothing

(* A pane at rest shows what was read for the inputs chosen now: every     *)
(* input its request carries is watched by the effect that sends it, and   *)
(* taken by a route behind it. What may go wrong besides is that an older  *)
(* answer came in last, a failure was swallowed, or a handler asked again  *)
(* with the inputs of the render it began in; the pairs of pane and input  *)
(* in Unwatched are those of the code that break it without.               *)
ShowsWhatIsChosen ==
    AtRest => \A i \in Pane.uses :
                 \/ <<subject.page, subject.pane, i>> \in Unwatched
                 \/ i \in DOMAIN shown.with /\ shown.with[i] = input[i]

(* A pane at rest shows neither less nor more than was written: not less   *)
(* than its handler wrote, the work it left to a process included, when    *)
(* the handler has answered (LeftBehind lists those that do not ask again  *)
(* for it), and nothing that was never written (Premature lists those that *)
(* change the pane before the command is sent).                            *)
ShowsWhatWasWritten ==
    AtRest =>
      /\ (call.at = "done" /\ ~Pane.timer
            /\ OpWrites(Op) \cap PaneReads(Pane) # {}
            /\ <<subject.page, subject.op, subject.pane>> \notin LeftBehind)
         => shown.ver >= call.ver
      /\ (call.at # "sent" /\ <<subject.page, subject.op, subject.pane>> \notin Premature)
         => shown.ver <= db

(* An input that was chosen among what another input offers does not       *)
(* outlive a change of that one, but for the pairs in Outlived.            *)
ChoicesFit ==
    [][\A x \in Page.options :
         (x[1] \in Relevant /\ x[2] \in Relevant /\ input[x[1]] = 1 /\ input'[x[1]] = 1
            /\ <<subject.page, x[1], x[2]>> \notin Outlived)
         => input'[x[2]] = input[x[2]]]_screenVars

(* The loading flag of a pane comes down, whatever fails.                  *)
LoadingEnds == (notice = "loading") ~> (notice # "loading")

(* A polled pane comes to show what others have written, whatever failed   *)
(* on the way, but for the panes in Hidden, where one failed poll covers   *)
(* the page for good.                                                      *)
PolledCatchesUp ==
    [](Pane.timer /\ Pane.needs = {} /\ <<subject.page, subject.pane>> \notin Hidden
        => <>(shown.ver >= db /\ notice # "error"))
==============================================================================
