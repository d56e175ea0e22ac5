# TLA+ models of the orchestrator and the link service

This directory specifies, model-checks and proves properties of the two programs
in this repository: the **orchestrator** (`orchestrator/`, driven by `scenarios/`),
which runs a graph of engineering stages with approvals, retries, rollbacks and
re-planning, and the **link service** (`service/app/`), the URL shortener the stages
work on, together with what the brownfield scenario makes of it
(`runs/brownfield/workspace/app/`). Every definition is translated from the code;
`PROJECT.json` maps each to its lines.

## 1. Inventory

| Part | State it keeps | Operations | Correct when |
|---|---|---|---|
| Engine (`engine.py`) | `statuses`, `_approved_nodes`, `_safe_stopped`, `_pending_approval_by_node` | `run`, `_run_wave`, `_execute_node`, `_terminal_failure`, `decide_approval`, `amend_spec_and_replan` | handlers see settled inputs, approvals are used once, a run settles what it reports settled, failures are neither lost nor left half undone |
| Dependency graph (`graph.py`) | constant | `ready_nodes`, `reachable_from`, `_validate`, `topological_waves` | reachability is the transitive closure; exactly the acyclic graphs get in |
| Run context (`state.py`) | records with versions and input hashes, spec version | `put`, `get`, `amend_spec` | the lineage noted is the lineage there was |
| Re-planner (`replanner.py`) | none, writes `statuses` | `on_spec_amendment` | what an amendment makes out of date runs again |
| Approval gate (`governance.py`) | `_requests`, one file each | `request`, `decide`, `pending` | a paused run can be decided |
| Policy engine (`governance.py`) | rules | `evaluate` | no blocking violation passes a gate |
| Rollback registry, retries (`reliability.py`) | undo actions; the attempt under way | `register`, `rollback_node`, `run_with_retries` | undone work does not count as done; every attempt is used, and no more |
| Agents, capabilities (`agents.py`, `capabilities.py`) | `applied_capabilities`, files, webhook and outbox | one handler per stage | a capability is applied in full, once, and seen by the rules; what is announced is what was released |
| Audit log, metrics (`audit.py`, `metrics.py`) | event log | `emit`, `compute_metrics` | the summary agrees with the statuses |
| Scenario scripts (`scenarios/`) | none | run, approve, amend | they come to an end |
| Links (`shortener.py`, `db.py`) | tables `links` and `clicks` | create, look up, redirect, deactivate | a code has one owner; a deactivated link stays gone |
| Redirect cache (`cache.py`) | LRU of entries with a deadline | `get`, `set`, `invalidate`, `clear` | answers are out of date only for a bounded time |
| Rate limiter (`rate_limit.py`) | a window per client | `allow` | a client is neither let through too often nor refused without cause |
| HTTP layer, analytics (`main.py`, `analytics.py`) | none | routes | |
| Brownfield service (`runs/brownfield/...`) | the same tables, the database's write lock | `shorten`, `shorten/bulk` | answers agree with the table, item by item |

How they interact. `Orchestrator.run` submits a wave of ready nodes to a thread
pool; every pool thread runs `_execute_node`, which reads the run context, asks
the approval gate, calls handlers through `run_with_retries`, writes the dict
`statuses` **without a lock** and emits an event to the audit log afterwards; its
failure path walks the graph and calls the rollback registry. Between runs the
caller, a script in `scenarios/`, decides approvals and amends the spec. The
service's requests each run in a thread of their own and share the SQLite file, the
cache and the limiter.

What is hard: cascades and rollbacks of threads that race over `statuses`; events that reach
the log in another order than the statuses they tell of; a re-plan or a late decision
between two runs; exceptions that escape a wave; a webhook that got the message although the
call failed; in the service, statements of other requests between a SELECT and an INSERT,
between an INSERT and its COMMIT, between a COMMIT and the answer, between a read and a
cache fill, between a commit and an invalidation, between reading the clock and taking a
lock. `PROJECT.json` lists these hazards line by line with the properties that cover them,
and says where none does.

## 2. Modules

| Module | What it is |
|---|---|
| `DepGraph` | the dependency graph as constants with their assumptions, and the operators the engine uses (`Dependents`, `ReachableFrom`, `Downstream`) |
| `GraphAlgorithms`, `MCGraphAlgorithms` | the loops of `graph.py` that compute them, for any set of graphs |
| `Workflow` | what a run promises, without statuses, waves and threads |
| `Engine` | one orchestrator run: engine, context, gate, registry, re-planner |
| `EngineProperties` | its properties, among them that it implements `Workflow`, and its inductive invariants |
| `AuditedRun` | `Engine` with the attempts of `run_with_retries`, the audit log and the metrics |
| `ScenarioDriver` | `AuditedRun` driven by a script of `scenarios/`, with the notification of its last node |
| `Scenarios` | the workflow graphs of `graphs.py` |
| `MCEngine`, `MCScenario` | small graphs, and the ambiguous scenario, for TLC |
| `LinkService`, `LinkServiceProperties`, `MCLinkService` | the shortener over tables and cache |
| `LinkAllocation` | what clients of the brownfield service are promised about codes |
| `BulkShorten`, `MCBulkShorten` | that service's creation of links, which implements it |
| `RateLimiter`, `MCRateLimiter` | the fixed-window limiter |
| `Implementation`, `MCImplementation` | the implementation node: tasks, capabilities, retries, policy rules and the policy scan |
| `EngineProofs`, `EngineFailureProofs`, `ScenarioProofs`, `GraphAlgorithmsProofs`, `BulkShortenProofs`, `LinkServiceProofs`, `RateLimiterProofs`, `ImplementationProofs` | the theorems (section 4) |

**Engine.** `phase` is where the caller's thread is in `run` (`idle` outside it,
`loop` between waves, `wave` inside `_run_wave`); `pc[n]` is where the pool thread
of node `n` is in `_execute_node`. Each statement that touches shared state is an
action: `Start` (line 154), `GateFails`, `RequestApproval`, `AutoApprove`,
`AutoReject` and `Park` (157-172, 256-286), `BeginWork` (174), `Complete`
(209-217), `HandlerFails`; then the failure path, `BeginFailure`, one
`CascadeCheck` and one `CascadeSkip` per descendant (the test and the write of line
230-231 are two steps), `Undo` (237-248), `EndFailure` (250). `GateRaises`,
`RequestRaises` and `UndoRaises` are exceptions that leave `_execute_node`;
`RunRaises` is `fut.result()` raising them out of `run`. A record's output hash is
its version; a request's id is its place in the list of requests (two requests of a
node in the same millisecond would share an id in the code; the model does not
follow that). `put`, `register` and the status write of a completion are one step:
no other thread reads the record or the registration of a node that is executing,
and the status is written whatever it was. `reachable_from` returns a set, so
cascades visit nodes in any order. `Approve` and `Reject` decide any request, one that has
been decided before included, as `decide` does not look at its status; `DecisionRaises` is
the file write at the end of `decide` failing, after which the request has its status and
`decide_approval` does nothing more, and `AutoRaises` the same inside a pool thread, or the
callback itself raising. `granted` and `redecided` count decisions; only the properties and
the bound `MaxRedecisions` read them.

**Workflow** is the abstract specification: nodes begin, finish or are abandoned; one
begins only on finished outputs nobody is replacing, its output is computed from what is
current when it is stored, and where a human must agree each execution uses up one
agreement. `Engine` implements it with `working` the nodes whose handler runs and
its own `granted` the approvals that no execution has used; statuses, waves and requests
disappear.

**AuditedRun and ScenarioDriver.** Each adds to the module before it and leaves its actions
alone. A thread writes a status (an action of `Engine`) and then owes the log an event,
`unsaid[n]`, which `Emit` delivers in a step of its own; a thread that owes one does nothing
else and keeps its worker. `latest` and `failureOpen` are the dictionaries of
`compute_metrics` (`latest_terminal`, `failure_open_at`), folded along with the log.
`attempt` is the loop variable of `run_with_retries`; a failing last attempt goes on to the
fallback, if the node has one. `ScenarioDriver` is the script: `Asks` calls `run`,
`Approves` and `Resumes` are the loop over a paused run, `FailsToApprove` its end by a
decision that cannot be written, `Amends` the one re-plan of `run_ambiguous.py`, `Ends` the
rest. The other two scripts are the same with `Rounds = 1`, on graphs with the same kinds of
node. `Notify` is the release notification, whose post may arrive although it is reported as
failed.

**GraphAlgorithms.** A graph is any function from names to lists of names, so lists may
repeat a name or hold an unknown one. `stack` is the list of `reachable_from`, popped from
its end, in which a node may stand several times; the dependents of a node, one that names
it twice twice, are pushed in any order (`Pushed`), as the order in which a graph declares
its nodes is left out. `queue` is a set, since a node's degree falls to 0 only once. `taken`
is only observed by the properties.

**LinkService.** A request's record holds its thread's position and locals. One step is one
SQL statement with its commit, or one locked cache method. Python's `sqlite3` begins a
transaction at the first INSERT or UPDATE, so the SELECT of `create_short_link` does not
protect the INSERT after it: `Select` and `Insert` are two steps and the primary key
decides. `TellCreated` is the answer after the commit: others may be redirected to a link
before its owner is told of it, and if the process ends in between the link is there and
nobody is told. `DbRaises` is a database error, `Restart` the end of the process followed by
`create_app` (tables stay, cache empty, requests unanswered), `Tick` the clock.
`LinkServiceProperties` adds the observation variable `changed`, the time a code's row last
changed, which no action reads.

**BulkShorten** goes one level deeper, as the brownfield scenario replaced the SELECT by
a reaction to `IntegrityError`: `Insert` takes the database's write lock, `Commit` gives
it back, `Conflict` is the rolled back INSERT with what the `except` clause does next,
`DbRaises` any other error of the database, and `Crash` the end of the process. Uncommitted
rows are not in `links`. A batch calls `create_short_link` for each entry (`at`) and
collects `results`; `Invalid` is an entry that raises an `AppError`, `Malformed` one that
raises something else. In the refinement to `LinkAllocation` a client sees nothing of a
request before its answer, and of one that broke off only that it did.

**RateLimiter.** `ReadClock` is line 33 of `rate_limit.py`, before the lock, and
`Allow` the rest of `allow`; one client key, as keys never meet. `admitted` and
`denied` are the times of the answers, in order, and are only observed by the properties
and the bound `MaxPerTick`.
`reset()` is only called by `create_app` before serving and is the initial state.

**Implementation.** What the handler of the implementation node does to the workspace,
which `Engine` sees only as success or failure. A capability is a sequence of steps, one
per `_replace_or_raise` or `_write` (`Registry`); `times` counts how often each step's
text is in the workspace, and `Anchors` derives from it whether a patch finds its anchor.
A module's text is reduced to the marks the four policy rules look for. `Apply` is one
step, `HandlerRaises` a missing anchor or an `OSError`, `PolicyViolation` the gate inside
the attempt, and `AttemptRaises` the rest of `run_with_retries`; results an attempt has
collected go with it, while files and `applied_capabilities` stay. `PolicyScan` is the node
that checks the workspace afterwards. `before` is only observed by the properties.

## 3. Runs

| Run | Bounds | What it shows |
|---|---|---|
| `engine_replan` | 4 nodes, two of which need approval, 2 re-plans from either end, decisions on one node that cannot be written, 1 second decision, 4 workers | types, single-use approvals, settled inputs and results, decidable pauses; that `Workflow` is implemented |
| `engine_wave` | 6 nodes, three in one wave, two rollbacks, 2 workers | skips have a cause, failures are undone, every run returns |
| `engine_auto` | the same graph, both answers of `auto_decision`, raising gates, requests, callbacks and undos, decisions that cannot be written, 1 re-plan, 2 workers | lineage and failures with decisions inside threads and with exceptions |
| `script_ambiguous` | the 9-node scenario graph with its attempts, 5 nodes that may fail, a release decision that may not be written, 2 rounds | the script ends, the metrics agree with the statuses, what begins ends, the release announced is the current one |
| `graph_algorithms` | all graphs of 3 nodes with lists of up to 2 entries, the 3 scenario graphs | the loops of `graph.py` end, with the right result |
| `link_service` | 4 requests (a creation, a deletion, a redirect, and one that creates the same link, looks it up or redirects), an expiry on the first, 2 codes, cache of 1 entry, cache lifetime 1, clock 0..4 | ownership of codes, expiry, deletion, bounded staleness |
| `brownfield_service` | 3 requests (one alias, the same alias or any code, a batch), 3 codes, batches of up to 3, 2 tries | answers agree with the table, locks are given back, requests end; `LinkAllocation` is implemented |
| `implementation` | the 3 lexicons, 4 seeds, 2 anchors that may be missing, 4 steps that may raise, 2 attempts, 2 re-plans | no task half done or done twice, what the rules have seen, the scan as backstop |
| `rate_limiter` | 2 threads, limit 2, window 2, lateness 2, 4 requests per unit, clock 0..6 | bounded bursts, justified refusals |

Why the bounds are enough. A race in the engine needs two threads of one wave and a node
they share upstream or downstream: the graphs have two or three parallel nodes between a
common ancestor and a common descendant, and fewer workers than nodes once. One re-plan
makes a second execution and a superseded request possible, two make the superseded request
old twice; one second decision reopens a node on either kind of request, and a decision that
could not be written can be taken again. In `graph_algorithms`, two entries are what a
repeated dependency takes and three nodes what a cycle behind an acyclic part takes. In the
service, a stale answer takes one request each to create, to fill late, to delete and to
read; expiry, eviction (a second code in a cache of one) and a collision all occur. The
clock outlasts the claimed staleness, `CacheTTL + 2 * Latency`, by one. In
`brownfield_service` one request can wait for the transaction of another that then commits,
fails or dies, a batch can use up the codes and run out of tries, and one batch is over the
limit. In the limiter four windows can open, so that eight requests are admitted and the
seventh and eighth are compared with the first two (`BurstBounded` speaks of requests six
places apart); three windows can meet within one stretch of a window's length, as lateness 2
allows, and the bound of two windows that holds without lateness is exceeded.

In `implementation`, a step may raise after a patch that consumed its anchor and after one
that did not, two attempts are what every scenario gives the node, and with two re-plans a
task can be dropped and come back.

`MaxReplans`, `MaxRedecisions`, `MaxTime`, `MaxPerTick`, `Latency`, `MayAsk`, `LinkTTLs` and
`MayPost` bound behaviours and have no counterpart in the code. `Latency` is a real
assumption of `StaleAnswersBounded`, `BurstBounded` and `RefusalJustified`: a thread that
sleeps for longer between two statements makes each claim later by as much. The limiter's
run does not check deadlock, since its clock and its requests run out; nor do the runs of
`Implementation`, where a failed node stays as it is, of `BulkShorten`, whose requests are
all served at some time, of `GraphAlgorithms` and of `ScenarioDriver`, whose loops and
scripts end.

Fairness. `FairSpec` of `Engine` and `ScriptSpec`: the run loop and each pool thread are
weakly fair, which says that Python threads are scheduled and that handlers, gates and
undo actions return or raise (the webhook has a timeout of 5 seconds); in `ScriptSpec`
the script is a program as well and goes on. In `Engine` nothing is assumed of the caller,
who need never approve anything or call `run` again. `FairSpec` of `GraphAlgorithms`: a
loop goes on. `FairSpec` of `BulkShorten`: a thread that has begun goes on; one that
waits for the write lock is woken or gets `database is locked` after sqlite3's
timeout, which is what makes weak fairness enough. `RunReturns`, `KeepsFairPromise`,
`ScriptTerminates`, `EveryLoopEnds` and `EveryRequestEnds` use it.

### Where the code and its documents disagree

Three runs expect a violation; each checks what a document or comment says.

* `x_autoreject`: a node rejected by the callback is not left `ROLLED_BACK` but
  parked, without a request (`architecture.md:98`, `engine.py:171`).
* `x_policy`: a policy violation is retried, the retry skips the capabilities that are
  already applied, has nothing left to check, and completes (`governance.py:7`,
  `agents.py:336`). `ReleaseHasNoSecret` shows that the policy scan makes up for it where
  a secret is concerned.
* `x_raise`: after an exception escaped from `run`, the next `run` reports
  `completed` with a node still `RUNNING` and others pending (`engine.py:85`). The
  same property holds in `engine_replan`, where nothing raises.

More were met while modelling and have no run of their own:

* a node that runs while its dependency is rolled back ends `COMPLETED`, where
  `architecture.md:122-124` has everything downstream skipped (`engine.py:217`);
* deciding a request that a re-plan left behind reopens a node that has completed since
  (`engine.py:279`), against `architecture.md:97-98`;
* a decision whose file cannot be written leaves its run paused with nothing in
  `pending_approvals()`: `decide` sets the status first, and `decide_approval` does not get
  to line 275 (`governance.py:115-119`). Only deciding the same request again, by its id,
  frees the node. `PauseIsDecidable` therefore promises a listed request only where the
  file can be written;
* approving a request a second time, after its node has completed, makes that node run again
  and nothing downstream of it (`engine.py:278-279`), so that what is downstream was computed
  from an output that is no longer there;
* a re-plan does not reopen failed, skipped or rolled-back nodes downstream of the
  amended one, against `replanner.py:45`;
* the rollback that `architecture.md:126` calls wired into every scenario has no undo
  action there (`AmbiguousUndoable` is empty);
* the metrics can count a node under another outcome than its status once something is
  rolled back: a sibling that completes while the rollback's cascade skips it has its
  status and its event written in different orders (`engine.py:217-222, 245-248`,
  `metrics.py:64`). `MetricsAgree` is checked on the scenario's graph, where nothing can
  be rolled back, and only of runs that have finished: a paused run still counts stale
  nodes as completed. The event `policy_violation` counted at `metrics.py:86` is never
  emitted;
* the loser of a race for an alias gets a 500, as `service/app/shortener.py` lacks the
  `IntegrityError` handling of `architecture.md:161`; the brownfield service has it, and
  `TakenMeansTaken` shows what it gives;
* `runs/brownfield/workspace/app/shortener.py:61-65` says that the SELECT before the INSERT
  "could silently drop one of two links sharing a code". The table had its primary key then
  as well: the second INSERT raises and is answered with that 500, and no link is dropped or
  replaced (`OneWinnerPerCode`, of the service that still has the SELECT);
* an entry of a batch that is no string or object, or one whose five codes are all taken,
  ends the whole batch with a 500 after earlier entries were stored, where
  `agents.py:276-279` speaks of per-item error reporting (`Malformed`, `Conflict`;
  `LinkAllocation` lets a request break off for that reason);
* a fill that overtakes a deletion keeps a deactivated link alive for longer than the
  `CACHE_TTL_SECONDS` of `cache.py:7`, by the time the requests take
  (`StaleAnswersBounded` states the bound that does hold).

## 4. Proofs

Every invariant and every action property that a passing run checks is also the subject
of a theorem, which holds for every graph, every choice of approvals, gates, undo actions
and re-plans, any number of workers, attempts and rounds of a script, any requests, codes,
windows and limits of the service, and any task lexicons, seeded workspaces and failing
steps, within the hypotheses the table names.

| Module | Theorem | Property | Rests on |
|---|---|---|---|
| `EngineProofs` | `TypeCorrect` | `TypeOK` | |
| | `BarrierCorrect` | `DependencyBarrier` | `ThreadInv`, `BarrierInv` |
| | `ApprovalCorrect` | `OneApprovalPerExecution` | `CreditInv` |
| | `PauseCorrect` | `PauseIsDecidable` | |
| | `LineageCorrect` | `LineageFresh`, if `PlainCaller` | `OpenInv`, `ReworkInv` |
| | `EngineKeepsPromise` | `KeepsPromise` | the first four |
| `EngineFailureProofs` | `FailuresStayVisible` | `FailureStaysVisible`, if `PlainCaller` | `BrokenInv`, `VisibleInv` |
| | `RunsSettle` | `RunSettlesEveryNode`, if nothing raises or rejects and the graph is `DeclaredInOrder` | `SettleInv` |
| | `SkippedNodesHaveCause` | `SkippedHasCause`, if `PlainCaller`, no callback rejects, and `NoRetry` | `CauseInv` |
| | `FailuresAreUndone` | `FailureUndone`, if `PlainCaller`, no undo action raises, and `NoRedo` | `UndoneInv` |
| `ScenarioProofs` | `ScriptsDriveTheEngine` | (`ScriptSpec` implies `Spec`) | `RoundInv` |
| | `ScriptTypeCorrect` | `ScriptTypeOK` | `AttemptsOK`, `EventsOK` |
| | `MetricsAgreeWithStatuses` | `MetricsAgree`, if `Plain` | `AgreeInv`, `RecoveryInv` |
| | `NotificationsAreCurrent` | `NotificationCurrent`, if `Plain` | `AnnouncedInv`, `AllDoneInv` |
| `GraphAlgorithmsProofs` | `LoopsTyped` | `TypeOK` | |
| | `ValidateCorrect` | `ValidateExact` | `KahnInv` |
| | `ReachableCorrect` | `ReachableExact` | `ReachInv` |
| | `WavesCorrect` | `WavesAreLayers` | `KahnInv`, `LayerInv` |
| `BulkShortenProofs` | `TypeCorrect` | `TypeOK` | `WriterInv`, `BodyInv` |
| | `TakenCorrect` | `TakenMeansTaken` | `IInv` |
| | `BulkKeepsAllocation` | `KeepsAllocation` | `IInv` |
| `LinkServiceProofs` | `TypeCorrect` | `TypeOK` | `RequestInv` |
| | `OneWinner` | `OneWinnerPerCode` | `RowsInv`, `CopiesInv` |
| | `ExpiryIsHonoured` | `ExpiryHonoured` | `ExpiryInv` |
| | `DeletionIsSeen` | `DeletionReachesCache` | `StaleInv` |
| | `DeletedForGood` | `DeletionIsFinal` | `RowsInv`, `CopiesInv` |
| | `StaleBounded` | `StaleAnswersBounded` | `StaleInv` |
| `RateLimiterProofs` | `TypeCorrect` | `TypeOK` | |
| | `BurstsAreBounded` | `BurstBounded` | `WindowInv`, `SpacedInv` |
| | `RefusalsAreJustified` | `RefusalJustified` | `WindowInv`, `LateInv` |
| `ImplementationProofs` | `TypeCorrect` | `TypeOK` | `UnderWayInv` |
| | `CompletedIsWhole` | `NothingHalfApplied` | `AppliedInv`, `RestInv` |
| | `FirstAttemptIsVetted` | `VettedUnlessRetried` | `AttemptInv` |
| | `ReleaseIsClean` | `ReleaseHasNoSecret` | `ScanInv` |
| | `OnlyTheDelta` | `AppliedStaysUntouched` | `UnderWayInv` |

Assumptions: `DepGraphAssumption` (a finite graph), `Acyclic`, `EngineAssumption` (types
of the constants) and `RollbackIsUpstream` (a node's `rollback_on_failure` names nodes it
depends on, as `graph.py:63` says) for the engine; for scripts also `AttemptsAssumption`
(each node has an attempt, fallbacks belong to nodes), `RoundsAssumption` and
`ScenarioAssumption` (the graph has the nodes all scenarios share, with the report before
its announcement, and a script of several rounds may re-plan from `requirements`);
`RateLimiterAssumption` (types, and a window that is not empty); that the graphs are
functions to lists for `GraphAlgorithms`; the shapes of requests for `BulkShorten` and
`LinkService`; and that lexicons name registered capabilities and an attempt is made, for
`Implementation`. TLC evaluates all of them on every run that uses them. That a graph is
`Acyclic` is what `ValidateCorrect` proves of every graph `_validate` lets through.

The hypotheses in the table restrict the caller or the callbacks; each is there because the
code does not keep the property without it: with one of them dropped from a theorem about
the engine, TLC finds a violation on a graph of three or four nodes.

* `PlainCaller`: the caller decides what `pending_approvals()` lists, and re-plans start at
  nodes that need no approval. Otherwise approving a request that was decided before, or that
  the re-plan has superseded, reopens a node behind which others have completed or run.
* `NoRetry`, an action property, `[][NoRetry]_vars`: no re-plan starts at a node that failed
  or was rolled back. It would become stale, and what had been skipped because of it stay
  skipped, as `on_spec_amendment` does not look for skipped nodes. `NoRedo` asks the same of
  nodes upstream of a failure, whose work the failure has undone.
* Nothing raises or rejects, for `RunsSettle`: `x_raise` and `x_autoreject` are what happens
  otherwise. A callback that rejects also leaves a parked node with skips downstream of it
  that nothing failed or rolled back is the cause of.
* `DeclaredInOrder`: `_skip_unreachable_remainder` goes over the nodes once, in the order they
  were declared. On a graph declared against its dependencies the pass leaves nodes pending
  and `run` returns all the same (`engine.py:140-151`). TLC checks that the three scenarios
  are declared in order (`ScenarioGraphs` of `MCScenario`).
* `Plain`, for scripts: the above, and no undo action. With one, the event of a node that
  completes and that of the cascade that skips it may be logged in the other order than they
  are written (section 3). No scenario has undo actions, and none has a callback that raises
  or decides.

*Engine.* `DependencyBarrier` is not inductive: that the outputs of a working node's
dependencies stay put needs that no thread of the wave executes one of them, from
the moment nodes are queued (`BarrierInv`), and that statuses other threads may
write never make a dependency of an executing node look ready again
(`ThreadInv`). `OneApprovalPerExecution` compares a count of executions with one of
decisions to approve; what keeps the difference is that a node which is approved and
can still begin has one approval more than executions (`CreditInv`), and that
re-planning revokes the approval of everything it makes run again. `LineageFresh`
needs that while a node is to be run, is running or waits for a decision, nothing
downstream of it is completed (`ReworkInv`); approving a superseded request breaks
this, hence `PlainCaller`; `OpenInv` says what follows for the requests. The module begins
with the facts about reachability all of this needs.

*Refinement.* `EngineKeepsPromise` shows step by step that an action of `Engine` is one of
`Workflow` or leaves all it sees alone: `BeginWork` is `Begin`, for which
`DependencyBarrier`, `BarrierInv` and `CreditInv` give the three parts of its guard;
`Complete` is `Finish`, `HandlerFails` is `Abandon`, and the ways to approve are `Agree`.

*Failures.* That a failure stays visible is not inductive, as a cascade of another thread
tests a status and writes it later. `BrokenInv` says that nothing downstream of a node which
is not in order, or which a cascade is about to skip, is completed or executing; so a node
that fails in a wave is downstream of no other such node, and no cascade that has passed its
test writes to it. `VisibleInv` keeps one such node: of the failed nodes, one that is marked
by no cascade. `CauseInv` carries the cause of a skip from the moment a cascade has the node
on its list; a cause is lost only when a rollback overwrites it, and then to a node further
upstream. `UndoneInv`: upstream of a failed node everything is completed or rolled back, at
rest and in no cascade's reach, and what the failure undoes is undone or still on its list.
`SettleInv` says that parked nodes have a request and running ones a thread; when nothing is
ready or parked, the first node in declared order that the last pass leaves out would be
ready (`OnePassSettles`).

*Scenarios.* `ScriptsDriveTheEngine` makes every theorem about the engine one about scripts.
`AgreeInv` relates three things that change at different times, status, event under way and
log: an event that is not yet logged tells of a node that has ended as it says and is at
rest, and if none is under way for a node that has ended, the log knows how. For that a
cascade may only reach nodes that have not ended, which `CalmInv` and `FailedInv` give where
nothing is rolled back. `NotificationCurrent` speaks of a report that may be posted, lost and
posted again: `AnnouncedInv` says that a completed notification has announced the report it
was given, `LineageFresh` that this is the one there is, and `AllDoneInv` that both nodes are
completed when the release is.

*Graph algorithms.* `KahnInv` relates degrees to entries not yet ticked off, counted with
repetitions, and says that nothing popped lies on a cycle; if the queue runs empty early,
the set of what is left gives the cycle. `ReachInv` bounds `seen` and the stack by the
closure from above, and closes them under dependents from below. `LayerInv` puts every
placed node directly behind one of its dependencies.

*Brownfield service.* `WriterInv`: one thread is between INSERT and COMMIT, and its key
stays free until then. `ResultsInv`: while a request is served, its results are what the
table holds for the items done, and it holds nothing for those to come. A `Commit` is then
a `Claim`, and `Respond` and the refusals an `Answer`.

*Link service.* `RowsInv`: a code has one row; whoever was told that a code is theirs, or is
about to be (`Wins`), has its row, and a row's owner is one of these or was lost with the
process (`Owns`). `CopiesInv`: for a copy in the cache or in a request's hands there is a
row of the same code and owner (`HasRow`), as rows are never removed. That is what
`OneWinnerPerCode` needs once the SELECT protects nothing. `StaleInv` bounds, for cache
entries, fills and answers each in its own terms, the time of a copy that differs from its
row by the time `changed` of the row (`Lags`): a fill differs only if it asked before the
change, an entry lives for `CacheTTL` after its fill, and `Latency` is added for each
request on the way.

*Rate limiter.* How many requests a stretch of time saw is a sum, and sums take induction;
the properties compare the times of the request i and of the one so many places later instead.
`SpacedInv` counts back from the present window in steps of `MaxRequests`: what was admitted
k steps before it was admitted k windows earlier, but for the lateness of a thread. Opening a
window adds a step, as it ends one that admitted at most `MaxRequests`.

*Implementation.* `NothingHalfApplied` speaks of completed nodes only; between the steps of
a capability a thread may raise, and the next attempt meets what was left. `UnderWayInv`
therefore says how far the capability under way has come: steps before the k-th have been
done in this attempt, and none of the others has. `AttemptInv` says that an attempt has
only tasks to do that are not applied, that what belongs to no task has not been begun, and
that the results of a first attempt are those of everything it applied. That no two
capabilities share a step (`StepsApart`) keeps what is applied out of reach. `ScanInv` ties
a passed scan to a completed implementation: while the workspace changes, no scan counts.

Only model-checked: the five liveness properties, `RunReturns`, `KeepsFairPromise`,
`ScriptTerminates`, `EveryLoopEnds` and `EveryRequestEnds`, since liveness under fairness is
beyond the prover; and what the hypotheses above leave out.

## 5. Not modelled

What handlers other than the ones named above compute, prompts, reports and generated
code (of the health check, that it fails a fixed number of times); durations, timestamps,
counters and wording of the audit log; `rollback_all_after` (no caller); URL and alias
validation beyond being refused (no state); cache statistics; analytics (read-only
queries); the copies of the service under `orchestrator/templates` and in the other runs,
which equal `service/app` in what is modelled; several server processes, which
`testing_and_tradeoffs.md` rules out.

## 6. Plan

1. Proofs: weaker hypotheses, where the code keeps a weaker property without them: the
   metrics of a scenario with undo actions up to the nodes a rollback reached, and skips
   after a callback has rejected.
2. Several undo actions per node in the rollback registry, and which of them run twice.
3. Events of the audit log that cannot be written: `emit` raises then, between a status and
   what the engine does next.
