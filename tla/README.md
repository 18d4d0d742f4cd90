# flowspec-devkitd: TLA+ models, checks and proofs

`flowspec` executes *flows*: graphs of steps, each of which runs as a job of an external executor
(`devkitd`), waits for a human, or stands for another flow. This directory holds TLA+ models of the
crates `flowspec-domain`, `flowspec-app` and `flowspec-server`, the TLC configurations that check
them on small instances, and proofs checked by TLAPS. Source paths below are relative to
`src/crates/` unless they begin with `docs/`.

## The system

| component | state | operations | talks to |
|---|---|---|---|
| flow graph and validation (`flowspec-domain/src/flow`) | none (pure) | `entry_steps`, `find_cycle`, `validate` | called when a flow is loaded or pushed by the platform |
| decision engine (`flowspec-domain/src/run/engine.rs`, `derive.rs`) | none (pure) | `decide(flow, rows, event)` gives a list of commands | called by the scheduler under the lock of the run |
| scheduler (`flowspec-app/src/scheduler.rs`) | lock of each run, map of in-flight tasks, map of hook continuations | `submit`, `execute_commands`, `hook_batch_finished`, the step, re-attach, hook and deadline tasks, `shutdown` | engine, store, devkitd |
| boot recovery (`flowspec-app/src/recovery.rs`, `Scheduler::recover`) | none | a plan per running run, executed before anything is served | store, scheduler |
| use cases (`flowspec-app/src/use_cases`) | none | start, approve, reject, cancel, advance, queries | store, scheduler |
| state store (`flowspec-server/src/state`) | SQLite: `runs`, `step_runs`, `hook_runs`, `run_links`, `run_events` | `create_run`, `apply` (one transaction), queries, outbox reads and marks | everything |
| event pump (`flowspec-server/src/platform/pump.rs`) | the batch it has in hand | drains `run_events` to the platform, events, then state, then mark | store, platform |
| action poller (`flowspec-server/src/platform/poller.rs`) | the list it has in hand | trigger, approve, reject, cancel; ack or delete | platform, use cases |
| devkitd client (`flowspec-server/src/devkitd`) | one connection behind a mutex, the locals of each `wait` | start, wait (poll until an end, a deadline or too many failures), cancel (three tries) | devkitd |
| MCP server, flow source, templates, configuration, wiring | none, or files | requests to use cases, YAML reading, substitution | use cases |

An event of a run (a step's end, an answer of a human, a cancellation, the deadline) is submitted by
the task that observed it. `submit` takes the lock of the run, loads the rows, asks the engine, and
executes the commands; a command list that begins with hooks is put aside until the hook batch is
done, *without* the lock. One list is written in several transactions, with calls to devkitd between
them, and tasks take themselves out of the in-flight map *before* they submit. After a crash only
the store and devkitd's jobs are left. A step's task starts its job, stores the job id and waits,
through the one connection that all steps of all runs share; cancelling a step cancels the job whose
id is stored, waits for that call, and then aborts the task at whatever await it is by then.

What is hard about it: events of one run racing for its lock, tasks that finish while a fail-fast
cancels them, decisions on rows that are older than their application (hooks, approvals, recovery
plans), transactions torn by a crash, requests whose answer is lost, redelivered actions, and joins
inside retry loops. PROJECT.json lists every such hazard with its line and the properties that
cover it.

What makes the parts correct: an accepted flow always has something to wait for, starts a step when
its needs are met and not twice; a run ends once, with no step left active, and says so once; a
running step always has somebody who will report on it; a retry is a new attempt; a key names one
run; every event reaches the platform in order and no state is left behind.

## The modules

| module | models | state and actions against the code |
|---|---|---|
| `FlowEngine` | `engine.rs`, `derive.rs`, entry steps | operators only: one `On...` per event handler returns the record of commands that handler returns; `Route`, `Launch`, `TerminalIfDone`, `FailFast` are its helpers |
| `Scheduler` | one run under `scheduler.rs`, `recovery.rs`, `approvals.rs`, `cancel_run.rs`, `advance_run.rs` | `rows`, `phase`, `ended` are the store; `turn` is what the holder of the run lock has left to do, `tasks`, `hooks`, `clients`, `followOns` are the tokio tasks by their next await; `jobs` is devkitd. An action is the stretch of code between two awaits: cancelling a step is `CancelJob`, a call to devkitd, and then `AbortTask`, and the task may move on between the two; `StartFails` is a start that devkitd refused or, if it is unreachable, one whose answer got lost, the job being there or not |
| `StoredRun` | the tables `step_runs` and `run_events` in `sqlite_store.rs`, the mutation batches of `scheduler.rs`, `latest_steps` | `Scheduler` with two more variables: `table`, every attempt of every step with the columns it fills, and `told`, the last event of every step; each action that writes is joined with its transaction (`Apply`), all others with `StoreNothing` |
| `RunContract` | what the queries and the outbox let others see of a run | the abstract specification, `Work` and `End`: no code of its own. `Scheduler` implements it with the rows it decides on (`KeepsContract`), `StoredRun` with those `latest_steps` reads (`SeenKeepsContract`) |
| `SchedulerProofs`, `RunProofs`, `OrderProofs` | theorems about `Scheduler` | |
| `StoreProofs` | theorems about `StoredRun` | |
| `DevkitdClient` | `devkitd/client.rs` with its callers, the step task and `CancelSteps` in `scheduler.rs` | `fate`, `known` are devkitd; `line`, `answer` the tokio mutex (in its line `Abort` closes the gap a dropped caller leaves) and the request under way; `task` is the step's task with its loop counters, `stop` the cancellation; `Serve` is devkitd answering, a `...Fails` action any call that returns a transport error, before or after `Serve` |
| `JobPort` | trait `Devkitd` and `DevkitdError` of `ports.rs` | the abstract specification of a call: which verdict which fate of the job allows |
| `ClientProofs` | theorems about `DevkitdClient` and `JobPort` | |
| `Outbox` | `run_events` in `sqlite_store.rs`, `pump.rs`, the push calls of `platform/client.rs` | `version`, `log`, `pushed` are the store; `batch`, `pc`, `snapshot` the pump's locals, one action per await; `got`, `seen` what the platform keeps; `Fails` is any await returning an error, the request having landed or not |
| `OutboxProofs` | theorems about `Outbox` | |
| `Intake` | `poller.rs`, `start_flow.rs`, the action calls of `platform/client.rs` | `queue`, `status` the platform; `runs` the store; `call`, `todo` the locals of the poller and of MCP callers, one action per await; the engine and the scheduler are two guards, `RunWaits` and `RunEnds`, which let a run come further whenever it could; `todo` are the places in `queue` of what the last GET brought, handled from the lowest on |
| `IntakeProofs` | theorems about `Intake` | |
| `FlowLoad` | `validate.rs`, the graph functions of `dag.rs` | operators: the load rules, the sets the cycle search looks at, and the guaranteed predecessors, which the code collects recursively, as the least set closed under the same rule |
| `AnyFlow` | loading composed with running | the cycle search as steps (`Visit`, `CloseCycle`, `Backtrack`, `Judge`), then the engine's decisions applied one after the other; `flow` is a *variable*, so one run covers every flow of a set |
| `FlowProofs` | theorems about `AnyFlow` and `FlowLoad` | |
| `MCScheduler`, `MCStored`, `MCAnyFlow` | | the flows the runs use |

`Scheduler` EXTENDS `FlowEngine`, and `StoredRun` EXTENDS `Scheduler`: its behaviours are the
scheduler's, so a run of it checks properties of both. The verdicts `Scheduler` lets a wait give are
those of `JobPort`, which `DevkitdClient` is shown to keep; the two are not joined in one run.
`AnyFlow` instantiates `FlowLoad` (which extends `FlowEngine`) with the flow that was read, so that the
same engine is checked twice: under every interleaving for a few flows, and for very many flows
without interleaving.

### Abstractions

- Step ids, inputs, outputs and messages are model values or left out. The order in which a flow
  lists the targets of a route is a set; activations of a turn may happen in any order. So no list
  names a step twice: the code would count such a step as two sources and start it twice (below).
- A template only matters by failing: `BadInput` are the steps whose input cannot be resolved (the
  whole decision becomes an error), `BadWith` those whose `with:` block cannot be built.
- `pending`, `skipped` and `waiting_on_subflow` are in the source's enum but never stored, and
  nothing ever submits `SubflowFinished`: they are left out. A subflow step is the stub the code has:
  a row with attempt 1 and a `StepFailed` follow-on. The cancelled branch of `derive::phase` needs a
  flag the engine never sees set.
- A row keeps whether its job id is stored, not the id. Two tasks of the same step and attempt
  collapse into one. A deadline task aborting its own entry is harmless and left out.
- A graceful shutdown aborts tasks at awaits and leaves store and jobs alone: it is a `Crash`.
- Errors of store calls are modelled in `Outbox` and `Intake`, and as the failing `SetJobId` in
  `DevkitdClient`; in `Scheduler` a transaction either happens or a crash comes first. `build_step_request` failing in a re-attach
  task is left out too.
- In `StoredRun` a column holds something or nothing; what it holds, timestamps and the event that
  tells `step_started`, which has no order towards the end of the step, are left out.
- In `DevkitdClient` a job is one attempt of a step. The sleeps between polls and between cancels are
  left out: time only matters by the deadline having passed. devkitd may answer at any time, and not
  at all (the call then fails); what becomes of a job is followed until its task is over.
- In `Intake` a run is its key and how far it has come; `Moves(i, "over")` is the decision of a
  cancellation. A reject is handled like an approve, and only one step waits at a time, so that
  `AmbiguousStep` does not occur.
- In `FlowLoad` rules about texts, names and fields are left out, and a route to `"done"` is no
  target. Steps are numbers in the order of their ids, as the search sorts them.
- In `AnyFlow` retries, hooks and subflows are empty; those are the Scheduler's.

## The runs

Bounds: `MaxAttempt` (from this attempt on nothing fails or is rejected), `MaxCrashes`,
`MaxApplies`, `MaxFailures`, `MaxWaits`, `MaxMishaps`. A loop of a flow goes round once or twice
with `MaxAttempt` 2 or 3, which is when a second attempt meets leftovers of the first; one crash at
every possible place already separates what is stored from what is remembered. In `Client` nothing
is bounded but the number of jobs: `Budget` is the length of the client's list of retry delays, and
two jobs are what it takes for one caller to wait behind another of either kind.

| run | asks |
|---|---|
| `FanOut` | a reviewed step that runs again when rejected and fans out when approved, a join, a retry, `after_run` hooks of a completed run, one reviewer: under every interleaving with cancel and deadline, routes are taken, needs respected, retries not exceeded, there is one job per step, no status is overwritten, an ended run stays as it is, and completed means completed |
| `HandlerCrash` | parallel steps, failure routes, an unreachable devkitd, an unbuildable step, a subflow step, a crash anywhere: the inductive invariant `Coherent`, the refinement `KeepsContract`, and `EventuallyEnds` |
| `Stored` | the run in SQLite: an after hook with a retry, a subflow whose handler is reviewed and sends the run back, `before_run` hooks, deadline, cancellation, one client, an unreachable devkitd, a crash anywhere: the latest attempts and the events agree with the rows the engine decides on, results are stored with the status that needs them, the run is never stuck, somebody always reports on a running step, attempts are never reused, and once an end is stored nothing starts |
| `Client` | two jobs on one connection, one with a deadline and a cancellation, one with unreadable answers; any call may fail before or after devkitd acted: the refinement `KeepsPort`, the ways in which a job may be left alive, and that every wait and cancel returns |
| `Delivery` | three runs (one not the platform's, one refused for good), batches of two, a failure, a crash: nothing lost, no gap, no stale state, and everything delivered |
| `Intake` | poller and MCP caller with the same key, two mishaps: one run per key, no acked action deleted, cancels hold, every trigger answered, every run started |
| `Loaded` | all 512 graphs of three steps, all flows of three steps with forward routes, joins and failure routes (at most one of them to step 1), of four steps with one failure route, and of three steps with a review: the search is exact, what is accepted never stalls, starts no step twice, and its guarantees hold |

`SearchIsExact` compares the search with a definition that does not search: a set of steps each of
which leads into the set. `CHECK_DEADLOCK FALSE` stands in `Client` (all calls returned),
`Delivery` (an empty outbox and no more transactions), `Intake` (all bounds used up), `Loaded` and
`StaleGate` (a rejected flow, an ended run); the scheduler's runs do check for deadlock, an ended
run being allowed to stutter explicitly.

Every property of a passing run has a mutant: a definition next to the modelled one, marked *Mutant*, that is wrong
the way a change of the code could be, and under which TLC finds the property violated.

### Fairness

- Step, hook and follow-on tasks are polled by tokio as long as the runtime is up: weak fairness.
  The run lock is a FIFO `tokio::sync::Mutex`, so a task that waits for it gets it: strong fairness
  of the submits that contend for it. devkitd ends every job, and a stopped runtime is started again
  (`EventuallyEnds` is about a flow without human steps; the deadline is not relied on).
- The pump and the poller are loops that tick for ever; weak fairness on their steps. A request that
  is refused fails: part of the pump's progress.
- In `Client` every call returns, with an answer or an error (each step of a task and of a
  cancellation is weakly fair; the mutex is FIFO, so whoever is in its line gets to its head), a
  deadline passes, and devkitd ends the jobs that have none. Nothing makes devkitd reachable, and
  `Serve` is not fair. A call that hangs would stop all polls, cancels and deadlines of all runs,
  since the mutex is held for the whole call; the transport has no timeout of its own.
- Humans, MCP clients, cancellations and the platform's users owe nothing.

## Where the code disagrees with its documentation

Five runs are expected to end in a violation; PROJECT.json `findings` quotes the lines.

- `Resurrected`: a step cancelled by fail-fast becomes completed when its already finished task
  submits (`architecture.md:108` promises an `IllegalTransition`, which nothing constructs).
- `AfterRunCrash`: a crash while `after_run` hooks run leaves the run running for good.
- `FanOutTorn`: a crash between the activations of a fan-out loses the later targets: recovery
  re-attaches the first target, the server is up again, and nobody will start the second.
  `RoutesTaken` only speaks while the server is up and no turn is under way.
- `CancelledJob`: a run cancelled before the id of a job is stored ends without the job being
  cancelled (`docs/architecture.md:145`: "cancellation is end-to-end"); the task stores the id, and
  waits for a job of a run that is over. A `SetJobId` that fails (`scheduler.rs:587`) and a start whose
  answer is lost leave a job alive as well; they are exceptions of `LeftAlive`.
- `StaleGate`: in the second round of a retry loop a join opens on the completions of the first.

Further disagreements met while modelling, with the constants that show them where there are any (no
run is kept for them):

- *Repeated targets.* A route list that names a step twice is accepted; `incoming_edges` counts two
  sources (`dag.rs:45`), so that `needs:` is demanded, and `activate_targets` starts the step twice with
  the same attempt. The models have sets there.
- *A flow that can never start.* Two steps that fail back to the entry step make it a join; the
  rules then demand `needs:` of it, the flow is accepted, and its gate can never open: the run has
  no active step and does not end (`docs/flowspec-spec.md:750`). `Flows <- GatedEntries`,
  `NeverStalls`: 1 to 2 to 3, 2 and 3 failing back to 1, 1 needing both.
- *Partial joins.* `multi_target_needs` only asks for a non-empty `needs:`, and
  `needs_matches_sources` only that needs route there; the specification (`docs/flowspec-spec.md:375`)
  wants all sources listed. A join that lists some is started once per remaining source, even while
  it is active. `Flows <- PartialJoins`, `RunsOnce`.
- *Self-reject exemption.* `is_self_reject_loop` exempts every edge of the step to itself from the
  search, `on_approve` included, where the documentation exempts the `on_reject` edge.
- *Acyclic* (`docs/flowspec-spec.md:376`): the search ignores `on_failure` edges on purpose. With a
  retry loop `guaranteed_predecessors` may name steps of the previous round (`GuaranteeHolds` is
  claimed for flows without loops), and along an `on_failure` edge it names a step that failed.
- *Two answers to one review*: each is decided on its own, since the waiting step is resolved before
  the lock is taken (`docs/architecture.md:129`). `FanOut` with two clients violates `LegalTransitions`
  and `RetryBudget`, `Stored` with two `ResultsKept` (a second attempt is completed by the approval of
  the first, without output).
- *A retry after a cancellation*: a task whose step fail-fast has cancelled may still fail, and the
  step is then retried (`docs/flowspec-spec.md:191` says never). With the activation held back behind
  an after hook the same attempt is then started twice, and `INSERT OR REPLACE` hides the first:
  `Stored` with a retry of `c`, `FreshAttempts`.
- *Events name no attempt*: `StepCompleted` and `StepFailed` carry the step only, so a task of the first
  attempt that was not aborted reports on the second. The retried attempt's own row stays running for
  ever, without `failure_reason`; a re-attached task stores no `failure_detail`.
- *Late polls*: the deadline is looked at before the last poll, so a job that ended during the last
  sleep is reported as a timeout.
- *Durations*: completing or cancelling a step stores `started_at: None` with its `completed_at`
  (`scheduler.rs:331`, `:358`), which `sqlite_store.rs:641` writes as NULL, so the `duration_seconds` of
  `docs/flowspec-spec.md:800` is never there (`queries.rs:377`).
- *Queries*: `list_runs` says "newest first" (`queries.rs:189`) but orders ascending before its limit
  (`sqlite_store.rs:215`); `failed_in` looks at the hooks of all attempts, as its comment admits.
- *Derived phase* (`docs/flowspec-spec.md:752`): a run that timed out is stored as failed while its rows,
  none of which failed, derive to another phase; `docs/architecture.md:129` does document failed.
- *Hooks*: with `AfterHooks = {"b"}` in a fan-out, `RunningHasActive` fails, and with failure
  handlers and `AfterRunHooks`, `TerminalHasNoActive` (`docs/flowspec-spec.md:750`): the commands
  behind a batch are applied to rows that have moved on. While `after_run` hooks of a failed run are
  under way, the late report of a cancelled sibling changes its status: `LegalTransitions` with `"failed"` in `AfterRunHooks`.
  With `BeforeRunHooks` and a cancellation a failing hook flips the stored phase of a cancelled run
  and reports a second end: `EndReported` (`docs/flowspec-spec.md:748`).
- *Templates*: with `BadInput = {"b"}` the mark of the finished predecessor is dropped together with
  the error, and the run has nothing left to wait for: `NeverStuck` (`docs/flowspec-spec.md:456`).
- *Subflows*: with `Retries` of a subflow step above 0, every retry inserts attempt 1 again and the
  run never ends: `EventuallyEnds` (`docs/flowspec-spec.md:191`).
- *Store errors*: a failing store call in `start_flow` after `create_run` deletes the trigger of a run
  that exists, and one in the poller's lookup is taken for an unknown run: `DeletedNeverRan` and
  `CancelHolds` without `faults = 0`.
- *Ended approvals*: an approval of a run that is over is neither acked nor deleted, and delivered
  again for ever (`poller.rs:251`).
- *Head of line*: with the refused run first (`Rejected` the lowest platform id) and as many events
  as a batch, `Delivered` fails: the outbox query has no way past it.

## The proofs

Every theorem holds for all values of the constants; where more is assumed, the hypothesis has a name
and stands in the theorem. The hypotheses exclude what the section above lists, and nothing else
known to us:

| hypothesis | meaning | without it |
|---|---|---|
| `Hookless` | no step and no run has hooks | *Hooks*, `AfterRunCrash`: a decision is applied to rows that have changed since |
| `Resolvable` | no template fails | *Templates* |
| `Startable` | some entry step needs nothing | *A flow that can never start* |
| `Rooted` | some step is routed to by none | the same, and the empty flow |
| `Orderly` | a step with several sources needs them all; a step that loops on rejection does so in no other way | *Partial joins*, *Self-reject exemption*; of the run, a step two sources route to is started twice |
| `GatesRouted` | each step a gate waits for leads to the gated step when it completes, while `validate.rs:156` (`needs_matches_sources`) is content with any route | a gate whose last need completes on another route is passed over |
| `Apart` | no step routes at once to a gated step and to one the gate waits for | the second starts again while the gated step starts on what it had completed before |
| `Unhandled` | no step has a failure route: the first one out of retries ends the run | *Resurrected siblings*, the run `Resurrected`: the cancelled siblings still report, and their handlers start |
| `OneClient` | one caller answers reviews at a time | *Two answers to one review* |
| `MaxCrashes = 0` | the runtime is not restarted | `FanOutTorn`: the steps a torn turn had left to start are never started; and a crash between the start of a job and the storing of its id makes recovery start a second job beside it |
| `~Unreachable` | devkitd answers within the deadline of a wait | the wait gives up, and the job lives on beside that of the retry |
| `OwnKey` | the MCP callers do not use the key of a trigger that does not validate | they start a run under it, with a document of their own, and the trigger is deleted all the same |

### The run

`SchedulerProofs`, for every flow, any number of clients and all bounds:

- `TypeCorrect`: `Spec => []TypeOK`.
- `CoherentAlways`: for flows without hooks, `Spec => []Coherent`. That a run which runs has an active
  step is not inductive: between two transactions of a turn it only holds together with what the
  holder of the lock is still going to do. `Fits` says what a decision must be with respect to the
  rows it is applied to (it ends the run exactly if it leaves nothing active, and starts only new
  attempts), and `TurnFits` that the turn in progress does. The lemmas show of every `On...` operator
  that what it returns fits the rows it was given; the rows do not change under the lock, apart from
  job ids.
- `EndsForGood`, `AttemptsAreFresh`, `EndStopsEverything`: `[][...]_vars` properties, from the same
  invariant.
- `KeepsItsContract`: `Spec => Contract!Spec`, the refinement: every step maps to `Work`, `End` or a
  stutter.

`RunProofs` goes on from there, each time with an invariant about the turn in progress:

- `CompletedRunsAreReal`: for flows without hooks, `Spec => []CompletedIsReal`. `EndHolds` adds that
  commands which end the run as completed leave only completed steps behind when they are written;
  the lemmas show it of every decision (`derive::phase` is asked about the very rows the commands
  make), and that a cancellation or a deadline never asks for completed.
- `NobodyIsForgotten`: for flows without hooks whose steps can all be built (`Resolvable`),
  `Spec => []RunningHasSource`. `HasSource` as the run checks it counts a mark that has been flushed
  as a source, which is not inductive; `Source` asks for a task of the *latest* attempt, an event, an
  entry of the recovery plan, or a command of the turn that is still to be written. `TurnSound` says
  what the lock holder may do to it: it aborts only tasks of steps it cancels. That every step the
  engine makes running is in the commands, and that an end cancels all that is active, comes from
  `DecisionsCover`.
- `SomethingMovesOn`: with `Startable` as well, `Spec => []NeverStuck`. `CoherentAlways` gives an
  active step and `NobodyIsForgotten` somebody for each that is running; what is left is the run that
  has not begun. `StartInv`: until a step has a row, the call of `start_flow`, the restart in the
  recovery plan or a turn that starts a step is there, also across a crash between `create_run` and
  the first turn. `KnownInv` says that events, plans, clients and commands only name steps that have
  a row, so that none of them is the first to create one.

`OrderProofs` is about the order in which steps run, for any interleaving, where `FlowProofs` has none:

- `EveryRouteIsTaken` (`RoutesTaken`), with `Resolvable`, `GatesRouted` and `MaxCrashes = 0`. `RoutesServed`:
  on the rows the commands of the turn are going to leave, every target that is due has a row or is
  in those commands. A decision serves the route of the step it marks (`activate_targets`), and can
  make a gate due only by completing a need of it, which by `GatesRouted` routes to it: whichever
  predecessor comes last finds the others completed. Nothing but a completion opens a route
  (`NothingDue`), and `HumanWaits` tells which route a completion takes.
- `NeedsAreMet` (`NeedsGate`), `EndsAreKept` (`LegalTransitions`) and `RetriesAreBounded` (`RetryBudget`), with
  `Unhandled`, `Orderly` and `OneClient`, and any number of crashes: three views of `OrderInv`. Its core
  is `Placed`: whatever has a row follows sources that are through (`Through`), attempts are within
  budget (`InBudget`), and the commands of the turn keep it so (`InOrder`: they mark an active step,
  start the next attempt of one that is not over, and only after its sources and needs). A decision
  is in order only if the step it is about is as the event says: running if it is a task that
  reports, waiting if it is a human. That is `Tended`, which says it of every task, queued event,
  recovery plan and caller while the run goes on, and is inductive only with `Exclusive`: no step is
  looked after twice, so that the event that is taken leaves nothing behind which speaks of the step
  it decided. `Booted` and `Unstarted` are about restarts: nothing is under way while the runtime is down,
  and the plan that recovery makes is the only one who knows of the steps in it.
- `GatesHold` (`NeedsGate`) again, with `Apart` alone: with failure routes, joins of any kind, any number
  of callers and of crashes. `NeedsGate` does not depend on who decides, only on what a decision
  starts: `GateOpen` says that what the commands of the turn start for the first time has its needs
  completed on the rows those commands leave, and that none of these needs is started by them too. A
  decision is taken on the very rows it is written to (`RouteOpens`), a retry starts a step that has
  a row (`AgainOpens`), a transaction only makes the rest of the commands true (`TransactionOpens`).
- `NeverTwoJobs` (`OneJobPerStep`), with `MaxCrashes = 0` and `~Unreachable` besides: by `Manned` a job that
  is alive is waited for by a task of its attempt, by `Exclusive` a step has one task. The task of a
  cancelled step is aborted only after devkitd has let go of its job (`Struck`): what an abort
  silences had nothing left to wait for.

But for its `after_run` hooks the flow of `FanOut` meets all of these hypotheses.

`StoreProofs`, for flows without hooks: `StoreTyped`, `StoreHoldsRows` (`LatestIsRows`),
`EventsFollowRows` (`EventsTellRows`), and the refinement `ReadersSeeTheContract`
(`SeenKeepsContract`): what is read from `step_runs`, the phase and the end event keep the run
contract. Since the latest attempts are the rows, a step of the store is `Work`, `End` or a stutter
as it is of the run. TLC checks the two halves, `LatestIsRows` in `Stored` and `KeepsContract` in
`HandlerCrash`; `Stored` has hooks, with which the contract itself is not kept (*Hooks* above). That an action of `StoredRun` is one of `Scheduler` joined with its transaction,
so that its behaviours are runs, holds by definition and is no theorem. `OnTop` says that the highest attempt in `step_runs`
is the row the engine sees, job id included. It stays so because an attempt is new when it is
inserted (`Fits` again) and because whoever writes outside the lock, or after a crash, finds the key
it writes to (`KeysStored` for tasks and recovery plans, `KnownInv` for the commands of a turn): a
batch is never rolled back for a row that is not there. `Told` carries the events: every command but a cancellation that changes
a status writes the event that tells it, in the same transaction.

`ResultsAreKept` (`ResultsKept`), with `Unhandled`, `Orderly` and `OneClient`: the columns the status of a
latest row is asked for are filled. A mark fills the column of its own status, except that a human's
decision on a waiting step stands on the output stored when the step began to wait. So the
invariant is `Answers`: commands that tell a human's decision mark a step that is waiting. Of the decision
itself that is `Tended`; the rest of the turn does not touch the row. What is written outside the lock
only adds columns (`FilledGrows`), and a new attempt starts with a status that asks for none.

### The flow

`FlowProofs`, for every set of finite flows:

- `Exact`: `Spec => []SearchIsExact`. `SInv` is the invariant of a depth-first search: the finished
  steps lead to finished steps only and no set of them leads into itself (`DoneInv`), the stack is a path
  whose steps are the grey ones (`StackInv`). A set of steps each of which leads into the set is what
  remains when there is a cycle, which spares the proof an induction on paths.
- `KeepsGoing`: an accepted flow never stalls if it is `Rooted`.
- `StartsOnce`, `GuaranteeKept`, `JoinsWait`: in an `Orderly` flow without loops every step is started
  once, after its guaranteed predecessors have ended and its needs have completed. The invariant is
  `Ordered`: whatever has started follows sources that are through. That such a flow is `Rooted`
  follows (`NoLoops`). `GuaranteeKept` uses that the guaranteed predecessors are the *least* closed
  set: the steps that have ended are closed too. `JoinsWait` is about `JoinWaits`, which the run
  `StaleGate` violates with a retry loop.
- `Typed`: `TypeOK`, with the number of grey steps as the height of the stack.

### The edges

`ClientProofs`, for any number of jobs on the connection and any list of delays:

- `Typed` and `JobsLeftAlive` (`LeftAlive`). `LineInv`: nobody is twice in the line of the mutex, and
  whoever is in it is at a call. `AnswerFits` says what the answer that is on its way to the caller at
  the head still implies of the job when it arrives, and `JobFits` ties the counters of a task and of a
  cancellation to what became of the job: an abort only follows an answer, or three failures.
- `ImplementsPort`: `Spec => KeepsPort`, the refinement. Every action leaves the port alone, moves one
  job's fate, or reports a verdict that the fate backs (`TrueOf`).

`IntakeProofs`, for any callers, keys, actions, failing store calls, lost answers and restarts:

- `OneRunForEveryKey`: `Spec => []OneRunPerKey`. That a key names one run follows from the unique column;
  that everybody is *told* that run needs `KnowsRun`: a call past its find or its create holds a run
  of its own key, at every await until its answer. No step takes a run away or changes its key.
- `Typed` and `AckedIsFinal` (`NeverDeletesAcked`). `QInv`: an action is queued once and not before the
  trigger of its run, and what the poller has in hand is still pending, since nobody else settles it.
- `DeletedHasNoRun` (`DeletedNeverRan`), with `OwnKey`. `Valid`: no call of `start_flow` is under way, and no
  run exists, with a key that does not validate; `Refused`: an error at hand, and a deleted trigger,
  mean such a key, as long as no store call has failed.
- `CancelIsFinal` (`CancelHolds`), with `OwnKey`. `InOrder`: a cancel at hand comes after its trigger, or
  the trigger has been dealt with (`Dealt`: it has a run, or never will), so that the cancel finds all
  there will ever be of the run; `Settled` is stable because a key gets no second run and over stays
  over.

`OutboxProofs`, for all runs, batch sizes, and numbers of failures and crashes: `OutboxTypes`,
`NothingIsLost`, `NoGaps`, `SnapshotIsCurrent`. The invariant adds to the four properties what the
pump's locals mean: `Closed` (of what precedes an event of the batch, everything is marked or in the
batch too, which is what makes the mark of a range safe), `Dated` (no event and no snapshot is newer
than its run), `Progress` (what is known of the batch at each `pc`: from `snapshot` on its events are
at the platform, at `state` the snapshot in hand is at least as new as they are, at `mark` the
platform's is) and `Marked` (only stored events are marked). The properties need each other: `NoGap` after a push rests on
`NothingLost`, since what precedes the batch has been marked.

### Assumptions, and what is not proved

The assumptions are those named in the modules (`FlowAssumption`, `SchedulerAssumption`,
`ClientAssumption`, `OutboxAssumption`, `IntakeAssumption`, `AnyFlowAssumption`): types of the constants and
finiteness. Nothing else is assumed of the graph than the hypotheses a theorem names, so those of
`SchedulerProofs`, `RunProofs` and `StoreProofs` hold for flows the loader would reject.

Only model-checked: all liveness (`EventuallyEnds`, `Delivered`, `Answered`, `RunsStart`, `Returns`), which
TLAPS cannot do under fairness; and flows with hooks. `RoutesTaken`, `LegalTransitions`,
`RetryBudget`, `NeedsGate`, `OneJobPerStep` and `ResultsKept` do not hold for every flow, and runs check them
where they do. What is proved of them, but for `RoutesTaken` and `NeedsGate`, is narrower in two ways: a
flow with failure routes or a partial join, and several clients, are only model-checked, on the flows
of the runs.

## Not modelled

The MCP server, configuration and wiring (no state of their own), YAML reading and schema checks,
template substitution beyond its failure, the wire format, the test kit, the rules of `validate`
about texts. Of the devkitd client the decoding and truncation of output. Of the store `hook_runs`,
which nothing but a query reads, `run_links`, which nothing writes, timestamps, and the filters of
`list_runs`. Of the queries everything but the latest row of every step and the snapshot for the
platform: they read and shape what is there. `on_subflow_finished` of the engine, since nothing
submits its event. Several waiting steps at once, and the difference between a reject and an approve,
in `Intake`. Several runs under one scheduler: each has its own lock, and they share nothing but the
store's thread and the connection to devkitd, which `Client` does have two users of.

## Plan

Done, in this order: `FlowEngine`, `Scheduler` with its runs and proofs; `RunContract` and the
refinement; `Outbox` and its proofs; `Intake`; `FlowLoad` and `AnyFlow`; `DevkitdClient` and `JobPort`;
`StoredRun`; `RunProofs` and `IntakeProofs`; `ClientProofs` with the refinement of the port, `FlowProofs`,
`StoreProofs`, and the rest of `IntakeProofs`; `OrderProofs`.

Left, in the order of what they would add:

1. `EndsAreKept`, `RetriesAreBounded`, `NeverTwoJobs` and `ResultsAreKept` with failure routes, for the part of a run before its first failure.
2. Several waiting steps and rejections in `Intake`, and rounds of a review with an identity.
