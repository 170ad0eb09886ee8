# Verification of the WDG data foundation

TLA+ models of the parts of this repository where several activities meet: worker
loops, conversations, websocket runs, MCP connections, approvals, rules and the
snapshot they classify, pipeline scripts, scheduled sweeps, and the pages of the
console over the API.  Every module is translated from the source; TLC checks
small instances, TLAPS proves the central invariants for all instances.
`PROJECT.json` lists components, runs, mutants, the lines each definition stands
for, hazards, findings and theorems.

## 1. The system

The repository ingests bank, POS and delivery data of several restaurant brands
into PostgreSQL, classifies bank transactions by rules, and serves reports through
a Next.js UI and an LLM agent.

| Layer | Where | State it keeps |
|---|---|---|
| Agent service (Node) | `agent/src` | in memory: worker loops, AbortController pool, table of seen tool calls, MCP backends, routes, retry timers; in PostgreSQL: `agent.tasks`, `agent.task_steps`, `agent.conversations`, `agent.messages`, `agent.events` |
| UI and API (Next.js) | `ui/src/app/api`, `ui/src/lib` | in memory: `pipelinePids`, pools, caches; everything else in PostgreSQL |
| MCP tools | `ui/src/mcp` | none of its own; calls the API |
| ETL and jobs (Python) | `scripts` | files, `ops.pipeline_run`, `ops.pipeline_step_run`, `ops.discount_model_snapshot`, `ops.notification*`, brand schemas |
| Scheduler daemon (Python) | `scripts/wdg_scheduler_daemon.py` | APScheduler jobs, `reload_event`, `sys.argv` |
| Database code | `sql`, `supabase`, `ops` | rules, overrides, dictionaries, snapshots, views, triggers |
| Deployment | `deploy/systemd`, `scripts/*.sh` | units and installers |

How the parts interact.  The web channel of the agent starts a run per user frame;
a run reads and extends the conversation, calls tools through the MCP bridge, and
may start a compression it does not wait for.  The task queue runs handlers that
use the same bridge.  Tools call the UI's API, which submits proposals; operators
approve them in batches, which writes rules and overrides and refreshes a
snapshot.  The UI spawns detached pipeline scripts and kills them on cancel; the
scripts, the API and the daemon's clean-up write the same `ops.pipeline_run` rows.
The daemon fires sweep jobs from `ops.notification_schedule`; sweeps write
notifications that users dismiss through the API.

### Components, behaviours that are hard, and what makes them correct

* **Task queue** (`agent/src/tasks`): several polling loops over one table without
  row locks, cancels that race with execution, process exits.  Correct: a task is
  executed at most once at a time, in order, ends with an outcome that matches its
  steps, and a final status stays.
* **Conversation history** (`conversation/manager.ts`, `agent/runner.ts`):
  overlapping runs append to one history while compressions delete from it.
  Correct: what is replayed to the LLM pairs calls and results; nothing is deleted
  that no summary has.
* **Agent runs and web channel** (`channels/web.ts`, `agent/runner.ts`): one
  controller per conversation, one call table per process, many runs.  Correct: an
  interrupt reaches the run, a call is refused only if the run made it.
* **MCP bridge** (`mcp/bridge.ts`): retries, pings, refreshes and shutdown
  interleave at every await.  Correct: a backend is connected and watched, or
  retried, or given up; a healthy one is routed.
* **Approval of proposals** (`ui/src/app/api/approval/proposals`): concurrent batch
  transactions without row locks.  Correct: a proposal is settled once; rules,
  overrides and outcomes agree.
* **Discount-model runs** (`admin/discount-model`, `scripts/discount_model`): four
  scripts, an API and a clean-up share a row, processes are killed at any point.
  Correct: one complete version stays active; failures and cancellations are
  recorded.
* **Scheduler daemon and sweeps** (`wdg_scheduler_daemon.py`,
  `run_notification_sweep.py`, `notification_sweep.py`): threads share `sys.argv`, a
  failed statement poisons a connection, a blocking call hides the reload loop.
  Correct: each job runs its own task, an edit of the schedule takes effect, a
  sweep's failure for one brand stays with that brand, run rows settle.
* **Rules and snapshots** (`api/rules/**`, `api/match/**`, `sql/40_*`,
  `sql/00_rules_history.sql`): conflict checks outside transactions, refreshes
  after the commit that wait for each other's rows, a log written by a trigger.
  Correct: what the snapshot says of a transaction is what a recorded version of a
  rule said; a request that ran alone leaves what it refreshed up to date.
* **Classification** (`sql/10_*_fn_classify.sql`, `sql/40_*_apply_classification.sql`,
  `scripts/classify.py`): a decision list over five text fields, written down nine
  times. Correct: a change of one rule moves only the transactions it should, and
  the views that explain the cascade see what it answers with.
* **Pages of the console** (`ui/src/app/**/page.tsx`, `components`): React state
  filled by requests that nothing cancels, handlers that reload some panes by
  name, polls, copies made at mount. Correct: a pane at rest shows what is
  chosen now and what was written; a choice does not outlive the list it was
  taken from; loading ends; a polled pane comes back after a failure.
* **API routes behind the pages** (`ui/src/app/api`, `ui/src/lib/queries`,
  `agent/src/api`): which parameters a route takes, which tables it reads or writes,
  and what it leaves to a process.
* **Uploads and imports** (`api/upload`, `scripts/import_*`, `run_pipeline_oneclick.py`,
  `ops_logger.py`): deduplication by hash, background processes, step logging.
* **Configuration, dictionary, stores, users, skills** (`api/admin/**`,
  `agent/src/config`, `agent/src/skills`): single-row statements, and files the
  agent reads at start.

## 2. Modules

Each module's header says which files it translates and what one step is; `map` in
`PROJECT.json` gives the lines of every definition.

| Module | Models | State ↔ code | Steps |
|---|---|---|---|
| `TaskQueue` | `agent/src/tasks/scheduler.ts`, its callers, the weekly review handler | `status`, `kind`, `steps` = `agent.tasks`, `agent.task_steps`; `pc`, `task`, `pos`, `anyFailed` = a worker loop and the locals of `runTask` | code between two database awaits; `pickTask`'s SELECT and UPDATE are two steps because the SELECT takes no lock |
| `TaskLifecycle` | what `TaskQueue` promises about one row | `claims` = who selected the row | submit, withdraw, claim, start, finish, die |
| `Conversation` | `AgentRunner.handle` and `ConversationManager` on one conversation | `kind`, `callsOf`, `visible` = `agent.messages`; `prompt` = the history replayed to the LLM; `picked` = the rows a compression summarises | one statement; an id is taken at the INSERT, the row is seen at the COMMIT |
| `McpBridge` | `UnifiedMcpBridge` as `server.ts` starts and stops it | `stamp` = the `backends` Map with its insertion order, `status`, `timer`, `route`, `listed` = the fields of the class; `pc`, `be`, `tries`, `cur`, `pos` = activities suspended at an await | code between two awaits |
| `AgentRun` | `channels/web.ts` and the turns of `agent/runner.ts` | `pool` = `abortControllers`, `seen` = `_toolCallSeen`, `bound` = the sockets' conversations, `pc`, `turn`, `left` = a run | code between two awaits |
| `Approval` | `ui/src/app/api/approval/proposals/**` | `status`, `final` = `ops.approval_proposal`, `rules` = `bank_rule_map`, `override` = `bank_txn_override`, `mine`, `overrides`, `writer` = an open transaction | one statement of a READ COMMITTED transaction; the last updates and COMMIT are one |
| `ModelRun` | the discount-model API, scripts 01–04, the daemon's clean-up | `status`, `active`, `flag` = `ops.pipeline_run`, `snaps` = `ops.discount_model_snapshot`, `pc` = the process tree, `tracked` = `pipelinePids` | one database transaction of a script or route |
| `NotificationSweep` | the daemon's jobs, `run_notification_sweep.py`, `notification_sweep.py`, the dismiss route | `argv` = `sys.argv`, `run` = a sweep's locals, `active` = `ops.notification`, `data` = what a query would find | one statement |
| `Rules` | `api/rules/**`, `api/match`, `rerun-match-by-file`, the brands' refresh functions, the history trigger | `rules`, `history`, `overrides`, `snapshot` = `bank_rule_map`, `bank_rule_map_history`, `bank_txn_override`, `bank_txn_classified_snapshot`; `call` = a request between its statements | one transaction, or the statements of a read before it; a refresh reads at its start and writes row by row, waiting for rows another refresh holds |
| `Classify` | the cascade of each brand, the list by priority of `50_yufeng_rule_settle.sql` and `classify.py`, the conflict views, the previews | none: sets of rules in, sets of winners out | — |
| `ScreenParts` | the vocabulary of pages and routes | none | — |
| `Endpoints` | 152 routes and query functions as records | `params`, `reads`, `writes`, `later` | — |
| `FinancePages`, `SalesPages`, `RulePages`, `AdminPages`, `AgentPages` | 43 pages and widgets as records, one definition per load function, handler and block of the markup | `panes`, `ops`, `sections`, `resets`, `follows`, `options` | — |
| `Screens` | what the records mean: one pane and one handler of a page at a time | `input` = address and `useState` selections, `flight` = requests under way, `shown`, `notice` = what the pane displays, `call` = the handler's command, `db` = the version of the tables it reads | an event of the page: a change, a request served, an answer, a failure, a tick, a commit |

A page is data because 43 pages repeat a dozen patterns: `Loads` (an effect
that asks again when what it carries changes), `Given` and `Frozen` (rendered on
the server, or copied from that once), `Keeping`, `Clearing`, `Lasting` (what a
failure does), `Polled`, `Needing`, `Does` with `ByEffect`, `Patching`, `Early`,
`Anyway`, `Closing` (what a handler does after its command). `ScreenParts`
says what each means in terms of the code, `Screens` gives each its steps, and
the page modules say which pane and which handler is which. The tables of a
record come from the SQL of the route, the parameters from what the route takes
from the request, so that a page that sends what its route ignores, or
watches less than it sends, is noticed.

`MC<Module>` gives a module's constants their values for TLC (functions, symmetry
sets); the `.cfg` files choose the instance.  A module `<Module>Proofs`
(of `TaskQueue`, `Conversation`, `McpBridge`, `Approval`, `ModelRun`,
`NotificationSweep`, `Rules`) extends its module with invariants, lemmas and
theorems; `ConsoleProofs` does so for `Screens` and for `AgentRun`, the pages and the
runs their chat starts.
Operators named `<Action>_<Change>` are plausible slips of a definition
(a dropped guard, a missing reset); each property is shown to notice one of them.

What the models abstract: message texts, tool names and JSON become a kind or a
model value; a bank transaction is its id, a suggestion its lvl1 code; a sweep's
query returns *fine*, *bad* or *empty*; a version is its run.  Control is kept:
guards, early returns, catch blocks, what is written when a statement fails.
In `Rules` a text is the set of keywords it contains, and `Whole` says which it
equals; in `Screens` a value is the inputs it was read for and the version of the
tables it was read from, an input is either as the page opened or changed.

## 3. Runs

Bounds are the CONSTANTS of the `.cfg`; all state space below them is searched.

| Run | Instance | Question |
|---|---|---|
| `task_queue` | 2 workers, 2 rows, 2 steps, 1 process exit | outcome, termination, and `TaskLifecycle` as the abstract specification |
| `task_queue_exclusive` (violation) | 2 workers, 1 row | is a row handed to one worker at a time? No |
| `conversation` | 2 runs, 1 compression, window 1, limit 3, 2 turns, 5 ids, 1 exit | is every replayed history acceptable to the LLM API, and what may a compression delete? |
| `mcp_bridge` | 1 primary and 1 secondary with a common tool, 2 loops, 2 tries, 2 pings, 4 insertions | does a backend stay watched, routed, and come back? |
| `agent_run` | 2 sockets, 2 runs, an existing and a new conversation, 1 call, 2 turns of 2 blocks | does an interrupt reach the latest run and end it, are repeats a run's own? |
| `approval` | 2 proposals for one transaction (one without a code, one with a code the dictionary lacks), 2 calls of batch-action | do rules, overrides and outcomes agree whatever interleaves and fails? |
| `model_run` | an active version and 2 full runs, 2 failing database calls | is the active version complete, are cancellations and failures recorded? |
| `model_run_live` | a full and a publish run, 1 failing call | does every `running` row settle? |
| `notification_sweep` | 2 jobs, 1 brand and an unknown brand code, 2 days, 1 fault | is a success complete, is only what was found in order resolved? |
| `rules` | 3 transactions of 2 files, 2 keywords, 2 categories, up to 4 rules, 2 requests at a time, 3 in all, 1 failing refresh, both kinds of refresh | does the snapshot agree with the rules, and settling with what is settled? |
| `rules_settled` (violation) | same | does a settled transaction leave the list? Not where the refresh ignores overrides |
| `screens` | every pane and handler of 43 pages, 2 changes of an input, 2 requests under way, 1 failure, 1 write of somebody else | does a pane show what is chosen and what was written, does loading end, does a polled pane catch up? |

Four more configurations are kept beside these and find a counterexample of one
property each: `MCConversationInterleaved.cfg`, `MCApprovalTwice.cfg`,
`MCModelRunKept.cfg` and `MCRulesSwitch.cfg` (see the disagreements below).

Why the bounds suffice.  Every hazard these runs look for needs two actors and one
disturbance: two workers that read one row, two runs that write into one history, a
ping that fails while a loop connects, two approvals of one proposal, a run that
publishes while another is cancelled, a rule deleted while a refresh that read it
waits for a row, two answers that overtake each other.  Each instance has those two actors, one
more row or message than they contend for, and one or two failures, so every pair
of steps meets in every order with a failure at any point.  Conversation's window
of 1 and limit of 3 make a compression and a cut history happen within five rows; in the
source they are 10 and 30, and `ReplayTheorem` holds for all values.  Two tries
and two boot attempts stand for 10 and 3: the retry counter is used only in a
comparison with the last try.  `MaxTasks`, `MaxIds`,
`MaxStamps`, `MaxPings` and `MaxDay` cut behaviours short. They do not help a liveness
property: `MaxTasks` and `MaxPings` disable only actions that owe no fairness, and a bridge
out of stamps sees its next connection attempts fail, which is an answer like any other.

A page's panes do not share requests and a handler is bound to one render, so one
pane with one handler is enough to show what the page does to that pane; two panes
that must agree with each other are beyond the model. Two changes of an input are
enough for a choice to be left and taken up again, two requests for an answer to
be overtaken.  In `Rules` four rules suffice for a request to add one beside three that
disagree in field, direction and category, and each class of transaction
(matched by text, by name, by both) has a member.

Symmetry is used in four safety runs, over values that occur in no constant
other than the set: runs and compressions of `Conversation`, calls of
`Approval`, unpublished full runs of `ModelRun`, the sessions of `Rules`.  No run with a liveness property
uses it.

Deadlock is checked only in `notification_sweep`, whose jobs fire for ever. The
other systems may rest: no task queued, no frame to come, no proposal pending, or at
a bound.

### Fairness

* `TaskQueue`: weak fairness of each worker's loop. One event loop serves all of
  them, the driver returns or throws, tool calls are cut off by the bridge.
  Callers, errors and exits owe nothing. `QueuedSettles` therefore excepts tasks
  that were executed when the process died: `start()` repairs no RUNNING row.
* `McpBridge`: weak fairness of the answer to every request and the end of every
  sleep; each request has a timeout. No fairness of pings.
* `AgentRun`: weak fairness of each statement, tool call and abort. None for the
  model's stream: its timeout is disarmed by the first event
  (`runner.ts:199`), so `InterruptedEnds` must hold though a stream stalls.
* `ModelRun`: time passes (`Age`) and the hourly clean-up takes its two steps. None of
  the scripts: they can be killed or hang, and `RunsSettle` must hold all the same.
* `Screens`: weak fairness of serving and answering a request, of the interval of a
  polled page, and of a command's commit, answer and later writes. `fetch` has no
  timeout, but a connection ends with an answer or an error, and `Fail` owes nothing.
  Changes, submits and faults are the person's and the network's and owe nothing.

### Exceptions the properties name

The properties of `Screens` hold of every page but for the pairs that
`MCScreens.tla` lists, each a defect of the page it names. The assumptions of `Screens`
(section 4) name the same pairs: TLC refuses a list that lacks one, and without the
assumptions finds the property violated, but for three kinds that only the assumptions show.
The comparison of the dictionaries does not follow the picked brands, of which an input
has two values here, nor what another handler than the one under study wrote; and the
chat's window, closed and opened during a message, takes three changes.
`KnownUnwatched`: panes that do not follow an input they were read for.
`KnownLeftBehind`: handlers that write what a pane shows and do not reload it.
`KnownPremature`: panes changed before or without the answer. `KnownOutlived`:
selections that outlive a change of what they were chosen from. `KnownHidden`: the
polled page that one failure covers for good. Three causes are excused for all pages,
because nearly all have them: an answer that came in last though it was asked for
earlier, a failure that is only logged, and a handler that reloads with the inputs of
the render it began in.

### Disagreements shown by a run

1. `task_queue_exclusive`: the design sketch has `FOR UPDATE SKIP LOCKED`, the code a
   plain SELECT; two workers can execute one task.
2. `rules_settled`: settling a transaction promises that it leaves the list of the
   unclassified at once (`api/rules/settle/route.ts:7`). yufeng's and bonjur's refresh
   reads no overrides, and a rule on the counterparty is settled as `exact` though its
   value may be a part of the name, so the transaction may stay.

### Disagreements shown by a further configuration

3. `MCConversationInterleaved.cfg`: overlapping runs put rows between a calls row and
   its results, which `runner.ts:408` says follow immediately.
4. `MCApprovalTwice.cfg`: two concurrent approvals insert two rules for one proposal
   (`batch-action/route.ts:46`, `:86`).
5. `MCModelRunKept.cfg`: a failure after `activate_version` leaves no active version; the
   DDL promises the previous one (`00_discount_model_ddl.sql:85`, `:88`).
6. `MCRulesSwitch.cfg`: the switch of the rules page sends `rule_id` and `enabled` only;
   PUT then writes the second condition, lvl2 and the group as NULL
   (`api/rules/route.ts:290`), though the comment at `:247` says a PUT may change `enabled`
   alone.

### Other disagreements met while modelling

Not kept as runs; found by TLC on these modules or by reading, each with its place.

* A cancelled task is set RUNNING or DONE by the worker that had selected it
  (`agent/src/tasks/scheduler.ts:118`; sketch 13:320-321). `FinishedIsFinalUnlessHeld`
  states what is left.
* Two compressions that overlap read one window and delete two, so that what the
  second deletes nobody summarised and fewer than a window may be left; a round that commits late with
  smaller ids is deleted unread (`manager.ts:250`; sketch 15:153).
* The bridge drops the routes of healthy backends while it refreshes
  (`bridge.ts:280`; `:11`); overlapping refreshes list a tool twice (`:281`);
  `server.ts:175` goes on without its primary although `bridge.ts:5` calls it
  required, and `server.ts:145` starts the scheduler before it connects.
* A run is told to use the previous result of a call that only a run of another
  conversation made, because the table of calls is per process
  (`runner.ts:331`; `:64`, `:337`).
* A second message in a conversation takes over its controller: the older run goes on
  and no interrupt reaches it; a run of a new conversation is registered under a key nobody looks up
  (`web.ts:205-207`; `spec-chat-agent.md:387`).
* A proposal whose lvl1 code the dictionary lacks is marked executed without a
  rule (`batch-action/route.ts:189`; `README.md:44-46`); a failing snapshot
  refresh aborts the whole approval although `:173` calls it best effort (`:183`).
* A cancelled pipeline step still runs its body (`_common.py:225`;
  `00_discount_model_ddl.sql:83`); 01 records a full run as a success before 02
  starts (`01_prepare_data.py:221`; `OPS_DDL.sql:249`).
* Two jobs due in the same minute share `sys.argv`: one may run the other's task
  (`wdg_scheduler_daemon.py:168`; `seed_notification_schedule.py:12-13`). The
  reload loop stands behind the blocking `start()` and is not reached
  (`:271-281`; its docstring). A cron day-of-week is passed on as written, where 0 is
  Monday, while the page means Sunday.
* A sweep's failed query leaves its run row `running` and passes over the brands
  that follow; dated notifications accumulate, and a dismissed one reappears.
* The cascade's header says the counterparty is tried only where the three texts are
  empty (`10_yufeng_fn_classify.sql:5`); it is tried wherever they did not match (`:135`).
  `classify.py:8` and `:30` claim the order of the SQL; it has one list by
  priority. The regression view's selected rule is by priority, not by field.
  `v_match_preview` and `fn_preview` show a category that is not that of the rule shown.
* The CSV import of rules takes the first row for a header twice, so a plain export is
  refused; the retry of a dual match is refused by the check that refused it first;
  `rerun-match-by-file` records a success though files failed; comments in
  `match/route.ts` promise that an overridden transaction disappears at once while the
  list reads the snapshot; `candidate-extractor` has `ILKE` for `ILIKE`.
* `bank-entry-stats` ends an unmatched period a day early in UTC+8 (`route.ts:118`).
* u/income: the metrics are copied when the page is mounted; a change of span keeps
  the period, which the server then refuses as invalid.
* Gelato sales: the days of a drill-down ignore the switch that leaves out "other". Discount
  page: keeps the model of the previous store when the new one has none, and shows
  the month's bands as all bands when the second request fails.
* Rules page: after a change of brand the order being edited is posted for the new
  brand. Match page: selection, queue and page number survive it. On both an error
  is shown until the page is left.
* Pipeline page and u/admin/tasks/[id]: one failure replaces the page for good, though the
  latter goes on polling behind it.
* Notifications: the bell marks and removes entries though the request failed; the
  page's dismiss calls no route at all. Schedules page: saving one row reloads all and
  drops unsaved edits of the others.
* Agent configuration says "saved" after a failed save; the cron page keeps edits the
  agent has no route for; a skill's switch reads, changes and writes the whole text.
* Upload page: may post the store of the previous brand until the new stores arrive;
  a delivery upload (xintiandi) reloads nothing. Category sync does not reload the
  dictionary beside it; its filter needs the reload button.
* Dictionary: the comparison of the brands stays when other brands are picked and when
  a category under it is saved, copied or synchronised.
* Lineage: node states are remembered by run id only. Chat: reopening the window loads
  the history over what is being streamed.

## 4. Proofs

Proved for every value of the constants, under the modules' assumptions only:
`TaskQueueAssumption`, `ConversationAssumption`, `RunAssumption` (`AgentRun`),
`BridgeAssumption` (`McpBridge`), `ApprovalAssumption`, `KindAssumption`,
`PublishedAssumption` and `MaxFaultsAssumption` (`ModelRun`), `SweepAssumption`
(`NotificationSweep`), `ClassifyAssumption`, `RulesAssumption`, and those of `Screens`,
explained with its theorems.  They say that bounds are
numbers, that names meant to differ do, that a filter is a non-empty list of brands, that
backends, runs, proposals, calls and the rules at the start are finitely many, that these
have ids of their own, and what type the inputs of a request have.  Three theorems have a
hypothesis of their own, explained below.  Each inductive invariant was an invariant of a
TLC run before it was proved.

**`TaskQueueProofs!SafetyTheorem`**: `TypeOK`, `OncePerWorker`, `RunningIsHeld`,
`StartsInOrder` for any number of workers, rows, steps and exits (`TypeTheorem` and
`HeldTheorem` state two of them alone). They are not
inductive: that a worker never executes a task twice needs `UnstartedIsUnpicked` (a
row still queued was never executed, as the UPDATE leaves the queue and nothing
returns to it) and `HeldIsRow` (what a worker selected exists and was not executed
by it); order needs `RowsExist` (rows are numbered without gaps, so a new row is
younger than all). The conjunction `Inv` is inductive, one lemma per action.
Order is proved only, no run repeats it.

**`TaskQueueProofs!OutcomeTheorem`**: `OutcomeMatchesSteps`, by a second invariant on
top of `Inv` (`OutcomeInv`).  That `completeTask` judges by what the worker remembers while
the steps are rows of a table is harmless only because a step the worker has passed
was recorded (`Recorded`) and what it remembers of failures is true of the rows
(`Truthful`), a task nobody executed has no recorded step (`Fresh`), and while a worker
is the only one to have executed a task nobody else writes its rows (`Sole`).

**`TaskQueueProofs!FinalTheorem`**: `FinishedIsFinalUnlessHeld` as an action
property, from the same `Inv`; no run repeats it.

**`TaskQueueProofs!RefinementTheorem`**: `Spec => ImplementsLifecycle`. A claim is read
off the worker loops (`Hand`); under `Inv` each action is one action of
`TaskLifecycle` or a stutter, `HeldIsRow` supplying that a task that finishes has left
the queue.

**`ConversationProofs!ReplayTheorem`** and `TypeTheorem`: `ReplayIsPaired`
(`NoOrphanResults` and `CallsAreAnswered`) for any number of runs and compressions
and any window, limit and turn budget. The argument: a round commits as a whole
(`OpenRound`), so a committed calls row has a committed younger results row
(`TableAnswered`); a compression deletes the oldest rows (`OldestDownward`), so it
never deletes results without their calls; a LIMIT keeps the newest
(`NewestUpward`), so a history that has the calls has the results; what lacks its
calls is pruned (`PromptAnswered`).

**`ConversationProofs!WindowTheorem`** and `DeletionTheorem`: `CompressionKeepsWindow` and
`DeletesNothingNewer`, for any window and any number of runs beside the compression,
under `LoneCompression`: no two compressions overlap.  The code does not ensure that
(two messages in quick succession start two), and without it both properties are false;
the theorems say what the four separate statements keep when it holds.  The invariant
(`WindowInv`): from the count to the DELETE there are more than two windows of rows, and
the rows read for the summary are a window's worth and still there.  A row beyond them
that the DELETE took would have a whole window of older rows.  `OldestCount` (a LIMIT n
yields at most n rows, and n if there are as many) rests on `Extremes`, which has a
least and a greatest member of a set of ids from well-foundedness, without induction.

**`McpBridgeProofs`**: `TypeTheorem`, `WatchedTheorem` (`ConnectedIsWatched`) and `QuietTheorem`
(`QuietRoutesComplete`) for any backends, tools and loops.  A refresh clears the table and
fills it entry by entry while others do the same; the invariant (`Reached`) says that a
backend that answered has its tools in the table or some refresh has still to get to it,
which rests on the entries' order of connection (`Distinct`, and a refresh visits every
entry stamped later than where it is).  `Watched`: a connected secondary has its timer, or the
loop that connected it is still in its refresh and will start one.  `Booting` separates the
primaries, which run only while the boot waits for them, from loops, timers and pings.

**`ConsoleProofs`**, the agent's runs: `TypeTheorem`, `NewestTheorem` (`NewestIsInterruptible`) and `RepeatsTheorem`
(`RepeatsAreItsOwn`) for any clients, runs, conversations and budgets.  `Sent`: stamps count
the messages that named a conversation, so a new one is newer than all, and that
conversation exists, so the run keeps to it.  `Budget`: a run has made each call at most
once per block it handled, turns times blocks.  `Alone`: beside a run that is alone nobody is
busy, and the process-wide table of calls holds exactly what this run made.

**`ConsoleProofs`**, the pages: `ScreenTypeTheorem`, `ChosenTheorem` (`ShowsWhatIsChosen`),
`WrittenTheorem` (`ShowsWhatWasWritten`) and, as an action property, `FitTheorem`
(`ChoicesFit`), for any pages and any number of changes, requests, failures and polls.
What a page must be like is stated as assumptions on its record, which TLC evaluates on the
43 records.  `WatchAssumption`: what a pane carries is taken by a route, and is watched by
the effect that sends it, or its change takes back an input the pane needs.
`FollowUpAssumption`: a handler whose writes reach a pane asks for it again with inputs it
can be asked for, changes it itself, or closes it, and leaves none of them to a later
process.  `ChoiceAssumption`: whatever changes an input takes back what was chosen among its
options.  So each theorem turns a property of all interleavings into a table of the page a
reviewer can check.

The inductive `PaneInv` says of the last request what the property says of the pane at rest:
if nothing overtook it, it carries what is chosen now (`InStep`), and once the handler has
answered it is yet unserved or as new as the tables (`UpTo`); when it ends, it leaves that in
the pane or a cause the property excuses.  A pane that keeps its answers asks with everything it
needs chosen and nothing else (`OnceInv`), so a kept answer stays right.  A pane patched before
the command was sent has overtaken all that is under way (`EarlyInv`), so no later answer takes
the patch back unexcused.  The proof found what the bounded run had not: the brand of the
lineage page clears the object in one chain of effects (the record said in two), and the
pairs named in section 3 that only the assumptions show.

**`ModelRunProofs`**: `TypeTheorem`, `ActiveTheorem`, `CancelTheorem`, `SwitchTheorem` and
`FailureTheorem` for any runs, kinds of run and interleaving of cancels, kills and clean-ups.
Per run (`RunInv`): the row of a full run is closed by 01, so a cancel that is accepted
came before that (`TrainInv`), what 03 publishes is not cancelled and is activated only with three
snapshots (`PublishInv`), and an active run is past its activation, undone unless calls
failed (`ActiveInv`).  `FailureTheorem` has the hypothesis `MaxFaults <= 2`: 04 tries to
record a failure three times, so three failing calls in a row do leave it unrecorded;
`FailureInv` counts them (`faults >= 3` or recorded) and holds without the hypothesis.

**`NotificationSweepProofs`**: `TypeTheorem`, `SuccessTheorem` (`SuccessIsComplete`) and
`ResolvedTheorem` (`ResolvedWasFine`) for any jobs, brands and filters, any number of faults.  A
sweep swallows the errors of its queries, but then its transaction is aborted and stays so;
`Fits` says of a run that is not aborted that the queries of all brands before its position
have answered (`Past`), those of this brand as far as its check, and that a run about to resolve
has seen every kind it covers in order.

**`RulesProofs`**, first part: what the cascade promises the code that refreshes only
some rows, for any set of rules, texts, keywords and categories.
`OnlyCitedRowsChange`: removing a rule changes no transaction's classification
that did not cite it, so DELETE may refresh the files that cite it and no others.
`NewRuleYields`: a rule added with the highest priority number wins only where
every earlier step and its own found nothing. `WinnersAreSeen`: the conflict view, the
preview and the Python list contain every rule the cascade answers with. They
rest on `HitsAreLocal` (whether a rule hits depends on that rule alone) and
`OneStep` (a rule is of one step).

**`RulesProofs!TypeTheorem`**: `TypeOK` for any requests, files, rules and log.  That ids are
unique is not inductive: a batch has inserted rules nobody else sees yet, an import
draws as many ids as it keeps rows, and a roll-back puts an old id back.  `TypeInv` adds that
ids in the table or the log are below the sequence (`Recorded`), that those a batch
prepared are in neither (`Drawn`) and that no two batches share one (`Apart`).  Most
steps are shown to be `Quietly(I)`: they add at most the ids of `I` and neither classify
nor prepare; that such a step keeps the invariants is proved once.

**`RulesProofs!ExplainedTheorem`**: `SnapshotExplained`, by `LogInv`.  What a refresh holds
may be older than the rules but not than the log: a row is explained when it is read,
because the rules of the table are versions of the log, and stays so as the log only grows
(`WinnersWinAlone`: a rule that wins among others wins alone).

**`RulesProofs!LoneTheorem`** and `SettleTheorem`: `LoneWriterIsCurrent` and, as an action
property, `LoneSettle`, both by `LoneInv`.  `Lone`: beside an undisturbed request no other is
in flight.  `Refreshing`: what it has refreshed is current, what it has read of the open
file is what the rules give, and a row that still cites the rule it deletes is of a file
it has yet to refresh; once deleted or disabled the rule can win nothing, so no refresh
brings it back (`RowsCiteEnabled`).  `Settling`: what was checked before the priority was
read, and the priority, still hold of the rules at the write; with `NewRuleYields` this
gives the order of steps.  Both speak of a request that ran alone, as the properties do.
With two settlings at once both may add: their checks, priorities and inserts are
statements of their own (`settle/route.ts:95`, 117, 139), so two rules may contradict each
other or share a priority, and a refresh may classify by rules that have since changed.

**`ApprovalProofs`**: `TypeTheorem`, `SettledTheorem` and `RepeatTheorem` (`TypeOK`,
`SettledTogether`, `RepeatYields`) for any proposals, transactions, codes and number of
calls, under `ApprovalAssumption`. The inductive `Inv` says of each call that what it
settles comes from rows it read, complete and to be approved (`Reads`), that its
overrides come from its own rules and that it holds their rows until it ends (`Writes`),
and that what was committed when it read is neither among its rows nor later in
priority than what it writes (`Follows`: those proposals were no longer pending). The
new priority needs the highest one to exist: priorities are bounded (`Bounded`), and a
bounded set of naturals has a greatest member (`Greatest`, from the well-foundedness
of the strict subset order, as induction over numbers is out of reach).

Model-checked only: liveness (out of the prover's reach): `LoadingEnds` and
`PolledCatchesUp` of the pages, and those of the other modules named in section 3.

## 5. Not modelled

`PROJECT.json` lists each part. The importers and the steps of the one-click
pipeline appear as later writes of an upload only. The arithmetic of reports and
reconciliation is SQL aggregation over tables no model changes; their routes appear as what
they read. Login looks a session up and keeps nothing. The MCP tools are
adapters; cron and notifier feed the queue with `Enqueue`. `admin/match`,
`admin/rules` and `admin/pipeline` are copies of `match`, `rules` and `pipeline`
(the first posts a direction when it settles) and are covered by their
records. Left out of modelled parts: the websocket handshake and event log, the HTML
monthly report, argument parsing beyond `--start`/`--end`, LLM content, charts
and wording of the pages, two panes of a page at once, the audit log of settled
transactions.

## 6. Plan

1. `Upload` and `PipelineRun`: deduplication by hash against retries of an import, the
   step log of `ops_logger.py` against exits of the detached process; an abstract
   `RunRecord` that both this and `ModelRun` implement.
2. `AgentRun` composed with `Conversation` and `McpBridge` through small
   abstract interfaces (a history, a set of routed tools).
3. Two handlers of a page at once in `Screens`, so that what one writes is asked for again
   with what the other has changed.
