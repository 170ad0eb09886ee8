----------------------------- MODULE ScreenParts -----------------------------
(***************************************************************************)
(* The vocabulary in which the pages of ui/src/app and the routes of       *)
(* ui/src/app/api are written down as data; Screens gives it a meaning.    *)
(*                                                                         *)
(* A route is the parameters it takes from its caller and the tables it    *)
(* reads or writes. A page keeps inputs (the address, its useState         *)
(* selections, the brand of the context), panes (state filled by an        *)
(* answer) and operations (handlers that post something).                  *)
(***************************************************************************)
EXTENDS Naturals

(* A GET handler: what it reads from the request, the tables of its SQL.   *)
Query(params, tables) == [params |-> params, reads |-> tables]

(* A handler that writes in one statement or in one transaction.           *)
Command(tables) == [writes |-> tables, later |-> {}]

(* One that answers before a process or a service it started has written.  *)
Detached(tables, later) == [writes |-> tables, later |-> later]

(* A pane filled by the routes `ask`, whose requests carry the inputs      *)
(* `uses` and are repeated when one of the inputs `deps` changes (the      *)
(* dependency list of its effect). Unless said otherwise a late answer is  *)
(* taken like any other and a failure is said.                             *)
Asks(ask, uses, deps) ==
    [ask |-> ask, uses |-> uses, deps |-> deps, needs |-> {},
     late |-> "taken", fails |-> "said", timer |-> FALSE, once |-> FALSE]

Loads(ask, uses) == Asks(ask, uses, uses)

(* A pane a server component renders from the address: the router commits  *)
(* the newest navigation only, and a failing one shows the error page.     *)
Given(ask, uses) == [Loads(ask, uses) EXCEPT !.late = "dropped"]

(* A copy of rendered data that useState took when the page was mounted.   *)
Frozen(ask, uses) == [Given(ask, uses) EXCEPT !.deps = {}]

(* The cleanup of the effect marks or aborts the request under way.        *)
Dropping(pane) == [pane EXCEPT !.late = "dropped"]

(* A failure leaves the pane as it was, or empties it, without a word, or  *)
(* leaves its loading flag up, or is said in place of the page by an error *)
(* that nothing takes back.                                                *)
Keeping(pane)  == [pane EXCEPT !.fails = "kept"]
Clearing(pane) == [pane EXCEPT !.fails = "cleared"]
Hanging(pane)  == [pane EXCEPT !.fails = "stuck"]
Lasting(pane)  == [pane EXCEPT !.fails = "lasting"]

(* Nothing is requested before these inputs are chosen.                    *)
Needing(pane, inputs) == [pane EXCEPT !.needs = inputs]

(* An answer is kept for its choice and not asked for again.               *)
Once(pane) == [pane EXCEPT !.once = TRUE]

(* The request is repeated by setInterval while the page is open.          *)
Polled(pane) == [pane EXCEPT !.timer = TRUE]

(* A handler that sends a command and, when it succeeded, requests the     *)
(* panes `again`: by calling the load function of the render it was        *)
(* created in, which carries the inputs of that render, or by changing a   *)
(* key that an effect watches, which carries those of the next.            *)
Does(command, again) ==
    [does |-> command, again |-> again, by |-> "closure", patches |-> {},
     early |-> FALSE, anyway |-> FALSE, needs |-> {}, closes |-> {}]

ByEffect(op) == [op EXCEPT !.by = "effect"]

(* The panes a handler changes itself, after the answer or before it.      *)
Patching(op, panes) == [op EXCEPT !.patches = panes]
Early(op)           == [op EXCEPT !.early = TRUE]

(* A handler that asks again without looking whether the route refused.    *)
Anyway(op) == [op EXCEPT !.anyway = TRUE]

(* A handler that returns at once, or a button that is disabled, unless    *)
(* these inputs are chosen.                                                *)
Requiring(op, inputs) == [op EXCEPT !.needs = inputs]

(* A part of what a page renders: the panes it shows and the handlers its  *)
(* controls call.                                                          *)
Section(shows, offers) == [shows |-> shows, offers |-> offers]

(* A button that only loads.                                               *)
Refreshes(again) == Does(Command({}), again)

(* A handler that reloads or leaves the page when it succeeded: all its    *)
(* panes are loaded anew.                                                  *)
Renewing(command, panes) == ByEffect(Does(command, panes))

(* Inputs that a handler sets back to their default when it succeeded: the *)
(* selection it has dealt with, the dialog it was called from.             *)
Closing(op, inputs) == [op EXCEPT !.closes = inputs]

NoOps == [o \in {} |-> {}]

(* A page. resets: pairs <<i, j>> where the handler that changes input i    *)
(* sets j to its default. follows: those where an effect does it one       *)
(* render later. options: those where the choices of i depend on j.        *)
Screen(panes, ops, sections) ==
    [panes |-> panes, ops |-> ops, sections |-> sections,
     resets |-> {}, follows |-> {}, options |-> {}]
==============================================================================
