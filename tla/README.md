# Formal models of robot_agent

TLA+ models, TLC configurations and TLAPS proofs for the agent runtime in
`src/src/robot_agent`. All paths below are relative to that directory unless
they start with `src/`.

## 1. The system

`AgentRuntime.run(goal, world)` takes a natural-language goal and an immutable
`WorldState`, parses the goal, asks a planner for a plan, validates and
schedules it, executes it step by step (skills change the world, tools do not),
retries a failed step in place, replans from the current world when the retries
are used up, verifies the goal on the final world, and returns a `RunReport`.
While it runs it writes records to a `MemorySink` and hands `RuntimeEvent`s to
observers; one observer, `WebMonitor`, feeds an `EventBroadcaster` from which
browser connections are served by their own threads.

### Components, state and operations

| Component | Source | State it keeps | Operations | What makes it correct |
|---|---|---|---|---|
| Task status machine | `core/task.py` | `status`, `error` (immutable value) | `to` | moves only along `_ALLOWED`; a finished task is terminal |
| Agent runtime loop | `runtime/agent_runtime.py`, `monitor.py` | task, world, `replans`, `_RunState.trace`, `plan_history` | `run` and its private methods | one report or one exception per call; bounded recovery; success only for a verified goal; report, trace, memory and event stream agree |
| Planning pipeline | `runtime/planner_pipeline.py` | none | `prepare` | a plan, or the name of the stage that failed |
| Step executor | `runtime/step_executor.py` | trace (shared with the loop), attempt counter | `execute`, `run_with_retry` | every attempt recorded once; a retry starts from the world before the step |
| Runtime hooks | `runtime/hooks.py`, `events.py` | `_diagnostics`, observers | `reset`, `remember`, `emit` | a failing observer harms nobody else; no memory record lost in silence |
| Plan graph, scheduler | `planning/dependency_graph.py`, `runtime/task_manager.py` | none (Kahn's loop inside) | `build_dependency_graph`, `topological_order`, `schedule` | an order exists iff the graph is acyclic; it respects every dependency; ties go to the plan's order |
| Plan validator | `planning/validator.py` | `max_steps` | `validate` | a validated plan can be scheduled and its references resolve |
| Execution context | `runtime/context.py` | outputs per step id | `record`, `resolve_params` | a reference finds the output of the step it names, of the same plan |
| Goals, entities | `planning/goal.py`, `entity_resolver.py` | none | `parse_goal`, `is_satisfied`, `resolve` | the goal denotes the same objects before and after execution |
| Rule planner | `planning/mock_planner.py` | none | `plan` | its plans pass the validator and reach the goal when no step fails |
| LLM planner | `planning/llm_planner.py` | `last_source`, `last_diagnostic` | `plan` | the two describe the last call, whatever path it took |
| Skills | `skills/*` | registry | `invoke`, `execute`, `check_success` | a successful check means the postcondition holds |
| Simulated backend, grid world | `backends/sim_backend.py`, `world/*` | `WorldState` (objects, holding, robot cell, failure budgets) | `navigate_to`, `detect`, `grasp`, `place` | held object and location agree; failure budgets only shrink |
| Memory store | `memory/memory.py`, `core/io.py` | list and dict in memory, JSON file | `record`, `store`, `recall`, `clear`, atomic write | the file holds the old or the new value after a crash |
| Event broadcaster | `display/web/broadcaster.py` | history window, one bounded queue per subscriber, drop counter | `publish`, `subscribe`, `unsubscribe`, `history`, `latest` | never blocks the producer; each subscriber sees an ordered, duplicate-free stream whose gaps are counted |
| Web monitor | `display/web/server.py` | pending queue, closed flag, stop event, thread | `on_event`, `stop`, `_publish_loop` | an accepted event is published or counted as dropped; `stop` ends |
| Dashboard server and page | `display/web/server.py`, `dashboard_html.py` | HTTP server and thread; page state | `start`, `stop`, `_stream_events`; `apply` | a page shows the state after the last event |
| Artifacts, replay | `reporting/*` | JSON file | save, load, `build_replay_payloads` | a replay shows the run that was recorded |
| LLM-free tools, capabilities, frozen values, errors | `tools/registry.py`, `core/*` | registries | lookups, type checks | — (pure) |
| Terminal display, CLI, demo, scenarios | `display/terminal.py`, `cli.py`, `demo`, `scenarios` | none | wiring and formatting | the server is stopped after the monitor |
| ROS2 backend | `backends/ros2_backend.py` | none | every operation raises `NotImplementedError` | — |

### Interactions

* The runtime calls planner, validator, scheduler, skills, tools, memory sink
  and observers synchronously. All of them are constructor arguments, so each
  may return anything of its type, or raise.
* One `RuntimeHooks` object and its diagnostics outlive a call of `run`; the
  trace and the plan history do not.
* `WebMonitor.on_event` runs in the runtime's thread. With `min_interval > 0` a
  queue and a daemon thread lie between it and `EventBroadcaster.publish`.
* The command line starts the server before the monitor and stops the monitor
  before the server, in a `finally` around the wait for Ctrl+C.
* Each SSE connection is a thread that takes from its queue without the
  broadcaster's lock, while `publish` fills the queues with the lock held.

### What is hard about it

* Failures of boundaries at every place of the loop, failures during the
  handling of failures (memory sink under `RAISE`), and what the report and the
  event stream say afterwards.
* Retries, replans and plan steps as one sequence, with an off-by-one at each
  bound.
* Worlds: which snapshot a retry, a replan, an event and the report refer to.
* The web side: real threads, queues that are emptied while they are found
  full, a stop that races the producer.
* Persistence: crashes between the steps of the atomic write.
* Plans of a language model: default ids that meet others, references whose
  values are known only when a step runs, a diagnosis of the last call that must
  be set on every path.
* Ctrl+C anywhere, and exceptions between the start of a thread and the handler
  that stops it.

`PROJECT.json` lists these hazards line by line with the properties that cover
them.

## 2. Plan

| # | Module | Models | Composes / refines | State |
|---|---|---|---|---|
| 1 | `TaskLifecycle` | life of one task as the caller sees it (abstract) | — | done |
| 2 | `AgentRuntime` | run loop, executor, pipeline, hooks | refines `TaskLifecycle` | done, proved |
| 3 | `EventBroadcaster` | publishers, SSE connections and their queues | — | done, safety proved |
| 4 | `WebMonitor` | `on_event`, `stop`, publisher thread | — | done, safety proved |
| 5 | `PlanScheduling` | dependency graph, Kahn's loop | — | done, proved (with 8) |
| 6 | `Plans`, `Capabilities` | what a plan is made of; contracts and their check | — | done |
| 7 | `LLMPlanner` | reading an answer, fallback modes, diagnosis | extends 6 | done |
| 8 | `PlanExecution` | planner, validator, scheduler, context, retries, replans | extends 7, composes 5 | done, proved |
| 9 | `RobotWorld`, `PickAndPlace` | grid world, backend, skills; goals, rule planner, validator under the loop | `PickAndPlace` extends `RobotWorld` | done, proved |
| 10 | `KeyValueStore` | what the long-term memory promises (abstract) | — | done |
| 11 | `MemoryStore` | store and atomic write, system call by system call | refines 10 | done, proved |
| 12 | `DashboardPage` | run, publisher, artifact replay, `/state`, `/events`, page script | — | done, safety proved |
| 13 | `WebCommand` | `demo --web`, `replay --web`: start, run, Ctrl+C, stop | composes 4 | done, safety proved |

The order put the control loop first, since every other component is driven by
it, then the concurrent part, then the data a plan is made of, then what
composes them. Every safety property the runs check now has a theorem. What is
worth doing next are refinements: that what one connection of `EventBroadcaster` is
shown implements an abstract stream that keeps order and loses only what it counts,
and that the steps of `WebCommand`, seen through its monitor, are steps of
`WebMonitor`.

## 3. Modules and their correspondence to the code

`PROJECT.json` gives for each definition the lines it stands for. Operators named
`X_Something` beside an operator `X` are slips: plausible mistakes in the code
of `X`. No specification uses them. Each is there to show that a property would
be violated if the code had the slip.

### TaskLifecycle

Three variables: `status`, `recoveries` (how many recoveries were begun) and
`result` (how the call ended). `Allowed` is `_ALLOWED` of `core/task.py:24`;
`Move` is `Task.to`. `Return` and `Raise` say what a caller of `run` may get: a
report of a terminal task, or an exception. `Ends` is the promise that a call
ends. A `Raise` may leave a recovery counted that was not entered, because
`replans += 1` (`agent_runtime.py:231`) precedes the announcement that can raise.

### AgentRuntime

`pc` is the place in `run()`:

| `pc` | place | left by |
|---|---|---|
| `idle`, `returned`, `raised` | no call in progress | `Run` (lines 148-157) |
| `start` | `_start_task` | `StartTask` |
| `prepare` | first `_planner.prepare` | `PreparePlan`, `PrepareFails` |
| `execute` | `run_with_retry` of one step | `Attempt` |
| `exhausted` | after a step has failed for good | `GiveUp`, `AnnounceReplan` |
| `replan` | second `prepare` | `Replan`, `ReplanFails` |
| `finalize` | goal verification and `_finalize_task` | `FinalizeTask`, `VerifyGoalRaises` |
| `finish` | last event and report | `Finish` |
| `failing` | `_failure_report` | `FailureReport` |

Variables follow the code's names; `planHistory` and `trace` are those of
`_RunState`, `seen[o]` the events observer `o` was handed in this run,
`recorded`, `sinkFailed` and `diagnostics` what happened to memory records and
observers, `reports` the report the call returned.

Abstractions. A plan is the sequence of its step kinds (skill or tool), since
parameters do not steer the loop. A world is a model value and `GoalWorlds` are
those where the goal holds. Boundaries are nondeterministic: planner, validator
and scheduler yield any plan of at most `MaxSteps` steps (an empty one only in a
goal world, as `validator.py` demands) or fail in a stage; a skill hands back
any world and the monitor accepts or rejects it, or it raises; `remember` does
what its policy says with a sink that may fail at each record; any subset of
`FaultyObservers` raises at each event. An event's `count` is the number of
trace records that existed when it was built and lets properties refer to the
step a `step_result` carries. The context of outputs is left out: a failed
resolution is the raising outcome of `_run_skill`, and what resolves is the
subject of `PlanExecution`.

A step that exhausts its retries keeps the world of its last attempt
(`StepExhausted`), and replanning starts from there; only retries go back to the
world before the step.

### EventBroadcaster

Any number of publishers and connections. `publish` is cut at every operation on
a queue (`Publish`, `Put`, `Evict`, `PutAgain`), because a connection takes from
its queue without the broadcaster's lock; `pc[p] # "outside"` means that `p`
holds the lock. `Subscribe` and `Unsubscribe` are one step each, taken while the
lock is free. `Serve`, `Disconnect` and `WriteFails` are the handler thread of
`_stream_events` in `display/web/server.py` and its client: a dead client is
noticed by the next write, an event or a ping. A payload is the number of its
publication; `got[c]` and `since[c]` record what `c` has taken and the first
event it was due.

### WebMonitor

Threads that call `on_event`, threads that call `stop` (one may do both), and the
thread of `_publish_loop`. `throttled` is chosen at the start and tells the two
ways of the monitor apart: through the pending queue and the thread, or
straight to the broadcaster. `stop` sets `_closed` without the lock that
`on_event` looks at it under, so the two interleave at every step; the test of
the loop (`is_set()`, then `empty()`) is two steps. `accepted`, `dropped` and
`stoppedBy` are history variables. `join` may time out at any moment. `Stream`,
of which the properties speak, is what was published, is in hand, waits in the
queue and is about to be put, one after the other.

### WebCommand

The main thread of `demo --web` and `replay --web` (`cli.py`): `at` is where it is
between `start` and `ended`, `ending` what ended the command and where that came
up. `server` follows the thread and the socket of `DashboardServer`, `publisher`
the thread of a replay. The monitor is an instance of `WebMonitor` in which the
main thread is the one caller and the one stopper. `stream` has the handler thread of
each connection to `/events`: a browser may connect while the loop of the server
accepts connections and leave whenever it likes, and the handler ends when its next
write fails, an event or a ping. The stop of the server neither asks the handlers to end nor joins them. What they
write is the subject of `EventBroadcaster`. Every call that may raise has a disjunct
for it, which goes to the handler the code has or leaves the command; `Interrupt` is
Ctrl+C, possible at any place, and only the wait expects it. A `thread.start` that
fails after the socket was bound is left out, and so is a second server.

### PlanScheduling and PlanExecution

`PlanScheduling` is `build_dependency_graph` and `topological_order`, one action
per turn of Kahn's loop. A step is its id and the ids it depends on; ids may be
unknown or shared and dependencies repeated, since the validator is not the only
caller. Edges are counted once per mention, as in the code.

`PlanExecution` takes a plan from the planner through `PlanValidator.validate`,
the scheduler and `StepExecutor.execute`. It runs the loop of `PlanScheduling`
twice per plan (`SortStep`, by way of `Graph!Next`), because validator and
scheduler each do. The shape of the plan, its graph, its references, the
capabilities it calls and the types of their arguments are exact; whether the
goal holds already and whether a step serves it are left open, as is whether an
attempt succeeds and what it puts out. A skill's parameters are checked twice, by
the validator with references unknown (`Supported`) and by `SkillManager.invoke`
with values (`Invocable`); a tool's only by the validator. `madeBy` is a history
variable: which step recorded an output.

### Plans, Capabilities and LLMPlanner

`Plans` has the data: calls of skills and tools (a skill and a tool may share a
name), arguments that are values or references. `Capabilities` is the check of a
call against what a skill or tool says of its parameters; values are told apart
by their type only.

`LLMPlanner` is `LLMPlanner.plan`. An answer of the model is a list of steps with
the fields it chose to write; `Readable` and `ParsePlan` are `_parse_plan`, with
the default id of a step that has none and the choice between skill and tool.
The text around the JSON is abstracted: a text without such a list is one of the
failures that may always happen, as are exceptions of the client. `FallBack` and
`PlanRaises` follow the two fallback modes, and `last_diagnostic` is the number
of the call it is about. The planner fallen back on may plan anything, ill-shaped
plans included, or raise.

### RobotWorld and PickAndPlace

`RobotWorld` has the world of `world/state.py`, the four operations of the
simulated backend with their checks in the order of the code, and the
postconditions of the four skills. Entities are numbered in the order of their
ids, so that `First` is the code's choice among sorted ids. A fault budget is
charged only after the checks that precede `should_fail` (`GetsToFaults`).

`PickAndPlace` adds goal parsing and resolution, the rule planner, the
validator's checks of a step against the goal, and the loop around them.
`start` is what a run begins with: the planner, the text, the world and the
fault budgets. A text is the set of entities it names, the colour and whether it
has a word for containers; the search for tokens is abstracted to that. Plans of
the rule planner are chains, so they are carried out in the order they are
written. With `planner = "any"` the plan is any of `AnyPlans`, and only the
validator stands between it and the world.

### KeyValueStore and MemoryStore

`KeyValueStore` is what a caller of `store` and `recall` may rely on; a loss of
power goes back to one of the `recoverable` contents, all of which were stored
whole. `MemoryStore` has one action per system call of `atomic_write_text`, each
of which may fail, `Crash` (the program) and `PowerLoss` (the machine) anywhere,
and `Settle`, when the file system writes the directory of its own accord. What
files and disks do is external: a replaced file whose content was not synced may
be found torn, a directory that was not synced may be found as it was. The
refinement maps `contents` to what the file says and `recoverable` to what the
disk may hold. `noted` says whether the code knows the path of the temporary file
when an exception comes, which it does from the first line of the `with` on
(`PathNoted`): the `finally` removes only what it knows. One `Memory` object uses a path, and values JSON cannot encode
make `store` raise before it does anything, so both are left out.

### DashboardPage

One run with its events, the payloads made from them or, for `replay --web`, from
the artifact of its report, and a page. `/state` is asked and answered beside
the event stream, the stream may break off and is opened again by the browser
(external), and then tells everything once more. `page` has the fields of the
script's `state` that steer what is shown; the event log, which the script
only writes, is left out. Worlds are numbered by the attempt that reported them.
History and queues hold the whole run, since what happens when they do not is
the subject of `EventBroadcaster`. Exceptions of the memory sink under `RAISE`
are not considered here.

## 4. Runs

| Run | Question | Bounds |
|---|---|---|
| `runtime_control` | do trace, events, worlds and report tell one story? | plans of ≤ 2 steps, 1 retry, 1 replan, no memory, one observer |
| `runtime_memory` | what do failing sinks and observers do to a run; does the loop implement `TaskLifecycle`, termination included? | all policies, one faulty and one healthy observer, plans of ≤ 1 step, 1 retry, 1 replan |
| `broadcast` | what are connections shown, what is dropped and counted? | 2 publishers, 2 connections, window 3, queues of 2, 4 events |
| `monitor` | what may a stop strand, does the thread end? | 2 callers with 3 events each, 2 stoppers of whom one is a caller, queue of 2 |
| `execution_plans` | are order and verdict the ones a plan determines; do references of valid plans read what the validator meant, and calls keep their contracts; who planned? | answers of up to 4 steps, with missing, repeated and default ids, right and wrong types; all graphs of 4 steps with ≤ 2 dependencies, 3 steps with shared and unknown ids; 1 retry, 1 replan |
| `pick` | does the world keep sense and the goal its meaning; which faults are recovered from? | 4 entities, a row of 3 cells and one beyond, a crate that may be a container and carried, up to 9 faults, any plan of ≤ 3 steps |
| `memory` | is the store atomic? | 2 keys, 2 values |
| `web_command` | which ways out leave a server or a thread; is the monitor emptied before the server closes; does a stop end? | queue of 2, 4 events, Ctrl+C up to twice, 2 connections |
| `page` | does a page come to show the run? | plans of 1 and 2 steps that share an id, 1 retry, 1 replan, 1 lost connection |
| `runtime_strict_finding`, `memory_durable_finding`, `page_late_state_finding` | see Findings | as small as it takes |

Why the bounds are enough. *Runtime*: two steps, one retry and one replan are
the smallest values for which a step follows a passed one, an attempt follows a
failed one and a plan follows a given up one; one goal world and one other are
enough since the loop only asks whether a world satisfies the goal and hands it
on. *Broadcast*: a queue of two overflows at the third event and is emptied by
two; a window of three is larger than a queue, so a replay is cut, and slides at
the fourth event. *Monitor*: three events of two callers overflow a queue of two
twice. *Execution*: four steps give chains, forks, joins, diamonds and cycles
with a tail; a third step may refer to two others, of which one may be abandoned
by a replan; two types are enough to be the wrong one, and two calls of the
planner to leave a diagnosis standing. *Pick*: budgets reach from none to more than
`(MaxRetries + 1) * (MaxReplans + 1)` attempts use up, for one skill and for
two; poses outside the grid and a second container make goals fail; a crate that
can be carried, empty or full, is what the world's sense depends on. *Memory*: a
second key is what a lost update would lose, a second value what an old file
would show. *Command*: four events overflow a
queue of two, a second Ctrl+C is what interrupts the answer to the first, and of two
connections one may be held open while the other is left.
*Page*: an id that occurs in the plan given up and in the one after
it is what marks could confuse. Proofs drop these bounds for the theorems
below.

Fairness.

* `AgentRuntime`, `PlanScheduling`, `PlanExecution`, `PickAndPlace`: weak fairness
  of the steps of a call. `run` is synchronous and single threaded and every
  boundary it calls is taken to return or raise. Calling it is not fair.
* `WebCommand`: the threads go on, and the main thread does once it stops what it
  has started (`Stopping`). A handler whose browser has left finds out, since it
  writes a ping after each second without an event. The run may take as long as it
  likes, nobody needs to press Ctrl+C, and no browser needs to leave.
* `EventBroadcaster`: a publisher that holds the lock goes on, and a handler
  thread goes on while it has an event, a failing write or a lock to wait for;
  `q.get(timeout=1.0)` never waits longer than a second. A publisher is never
  blocked, so the lock is always released again, and with finitely many events
  weak fairness of `Unsubscribe` is enough. Publishing, connecting and
  disconnecting are not fair.
* `WebMonitor`: each thread goes on once it is inside a method, since every
  wait has a timeout. Emitting and stopping are not fair.
* `DashboardPage`: the run, its publisher and the stream go on. The answer to
  `/state` is asked no fairness: `EndIsShown` starts where it is settled.
* `MemoryStore` has no liveness: programs may crash for ever.

`CHECK_DEADLOCK FALSE` is in the configurations of `broadcast`,
`execution_plans`, `pick`, `page`, `page_late_state_finding` and `web_command`,
where all is done in the end and the system really stops.

Properties, by module:

* `AgentRuntime`: `RetriesBeforeReplans` (the trace follows the recovery policy);
  `StreamsTellTheTrace`, `WorldsAreConnected` (what an observer can conclude
  from its events alone); `SuccessIsEarned`, `ReportAgreesWithLastEvent` (the
  report against world, plan and events); `NothingForgottenInSilence` (records
  and diagnostics of this run account for every `remember`);
  `StrictMemorySpeaksUp` (under `RAISE` a failed record never ends in success,
  and only such a failure leaves `run` as an exception); `EveryStepIsPaidFor` (a
  count made of the limits falls with every step, so a run is bounded whatever
  its boundaries do); `Lifecycle` (refinement of `TaskLifecycle` with its end).
* `EventBroadcaster`: `SecondPutFindsRoom` (`publish` raises nothing);
  `StreamsInOrder`, `DropsAreCounted` (a stream is ordered, without duplicates,
  and its gaps are the drop counter); `StateNotBehindStreams`; `StaysUpToDate`
  and `DeadConnectionsLeave` (liveness).
* `WebMonitor`: `AcceptedInOrder` (an accepted event is published once, about to
  be, or among the dropped, and order is kept), `DropsTheOldest`,
  `AtMostOneStranded` (what a stop that races an emission may leave behind: one
  event, and none where one thread does both, as in the command line),
  `StopEndsThread`. `SecondPutFindsRoom` (`on_event` raises nothing) is proved and
  no longer part of the run.
* `WebCommand`: `NothingLeftBehind` (which ends of the command may leave a server
  or a publisher thread), `PublishedBeforeClosed` (when the server is asked to
  end, everything a demo emitted and did not drop has been published, unless
  `join` gave up), `StopIsComplete` (liveness: a command that begins to stop ends
  for good, and unless interrupted so do the loop of the server, the publisher of a
  replay, the thread of the monitor and the handler of every browser that leaves).
* `PlanExecution`, about the sorts of `PlanScheduling`: `OrderIsTheFirst` (the
  order respects the dependencies and is determined), `VerdictIsExact` (a refusal
  for a cycle means a cycle); about runs: `ValidPlansAreScheduled`, `ReferencesReadTheirSource`
  (a reference leads to the very step the validator meant, carried out under this
  plan), `DoneAsExpected` (expectations were met and still are),
  `CallsKeepContracts` (names, required parameters and types of every call done),
  `SourceTellsWhoPlanned` (`last_source` and `last_diagnostic` describe the plan in
  hand).
* `PickAndPlace`: `WorldMakesSense` (see below for its premise), `OnlyTheGoalMoves` (for any planner),
  `GoalDoesNotDrift` (planner and validator mean the same goal at every replan),
  `RecoveryIsExact` (a run succeeds iff its faults exhaust no more steps than
  there are replans), `ContractsKept` (what the backend calls a success
  satisfies the postcondition).
* `MemoryStore`: `NoLitter`, `IsAtomic`. `FileIsWhole` and `MemoryIsTheFile` are
  proved, and follow from the refinement the run checks.
* `DashboardPage`: `MarksAreTheRuns`, `DoneWhenSucceeded`, `ReplayTellsTheRun`,
  `EndIsShown`.

The type invariants serve readers and proofs, which show them for every value of
the constants; the runs check what they imply.

### Findings

* `runtime_strict_finding`. `run` catches every exception around the goal
  verification (`agent_runtime.py:181`), and the memory record of the verdict is
  made inside that `try`. A sink that fails there under `RAISE` does not reach
  the caller, as `src/tests/test_runtime_exceptions.py:290` says of the policy:
  the run returns a FAILED report naming the goal verification, although the
  goal was verified.
* `memory_durable_finding`. `atomic_write_text` calls itself durable and atomic
  (`core/io.py:16`), but syncs the temporary file only. The directory
  `os.replace` changes is not synced, so a loss of power may take back a store
  that has returned. `IsAtomic` says what remains: whole calls only.
* `page_late_state_finding`. The page applies the answer to `/state` whenever it
  comes (`dashboard_html.py:204`). Answered early and handled late, it takes the
  page back to an earlier event, and nothing corrects it after the last one.

Seen while modelling, without a run of their own: a browser that opens late gets
at most `queue_limit` events of the history (`broadcaster.py:58`), where the
docstring (lines 3-4) speaks of the complete run; a live page never shows the
plan, which live payloads do not carry (`serializer.py:66`), though the docstring
of `dashboard_html.py` (line 3) names it; the replans counter on a live page goes
back to 0 with every `step_result`, whose event leaves `replans` at its default
(`step_executor.py:134`).

The backend does not move the contents of a container that is carried
(`backends/sim_backend.py`). `WorldMakesSense` therefore presumes that what may be
carried is empty (`CarriedEmpty`), as in all the built-in scenarios; no document
says otherwise.

`ToolRegistry.call` does not look at the types of its arguments again, so a tool
may be handed a value of another type through a reference; `CallsKeepContracts`
says that this is the only way. The design note
`src/docs/superpowers/specs/2026-09-13-runtime-reliability-design.md` (line 15)
asks for checks at this boundary.

The repository's README says of `WebMonitor.stop()` that demo exits leave no
publisher threads behind (`src/README.md:104`). `NothingLeftBehind` lists the ends
that do, within the process: an error while the address of the dashboard is
printed (`cli.py:65` and `cli.py:89` are outside the `try`), a replay whose printing
raises, and a Ctrl+C before or after the wait. The handlers of `/events` are not
among what it counts: whose browser goes on listening goes on too, however the
command ends (`display/web/server.py:144` looks at no stop, and `server_close` does not
join daemon threads). `StopIsComplete` says when they end. All these threads are
daemons and end with the process.

## 5. Proofs

Proofs are in the eight modules named `X_proofs`, each about the module `X`. They
hold for every value of the constants that satisfies the `ASSUME`s of the modules,
which TLC evaluates in the runs.

| Theorem | States | for every |
|---|---|---|
| `AgentRuntime_proofs!TypeCorrect` | `[]TypeOK`; bounds replans, attempts and plans | set of worlds, observers and policies, retry, replan and step limit |
| `RecoveryPolicy` | `[]RetriesBeforeReplans` | same |
| `ReportAgrees` | `[]ReportAgreesWithLastEvent` | same |
| `SuccessEarned` | `[]SuccessIsEarned` | same |
| `PlanHistory` | `[]PlanHistoryMatchesReplans` | same |
| `StrictMemory` | `[]StrictMemorySpeaksUp` | same |
| `StreamsTell` | `[]StreamsTellTheTrace` | same |
| `WorldsConnected` | `[]WorldsAreConnected` | same |
| `NothingForgotten` | `[]NothingForgottenInSilence` | same |
| `StepsArePaidFor` | `EveryStepIsPaidFor` | same |
| `RuntimeIsATaskLife` | `Spec` implements `TaskLifecycle!Safety` | same |
| `EventBroadcaster_proofs!TypeCorrect` | `[]TypeOK`; bounds queues and history | number of publishers, connections and events, window and queue limit |
| `RoomForTheSecondPut` | `[]SecondPutFindsRoom` | same |
| `StreamsKeepOrder` | `[]StreamsInOrder` | same |
| `StateIsUpToDate` | `[]StateNotBehindStreams` | same |
| `DropsCounted` | `[]DropsAreCounted` | same |
| `WebMonitor_proofs!TypeCorrect` | `[]TypeOK`; bounds the queue | set of stoppers, finite set of callers, queue limit |
| `RoomForTheSecondPut` | `[]SecondPutFindsRoom` | same |
| `AcceptedAreTold` | `[]AcceptedInOrder` | same |
| `OldestGivenUp` | `[]DropsTheOldest` | same |
| `OneStrandedAtMost` | `[]AtMostOneStranded` | same |
| `WebCommand_proofs!NothingLeft` | `[]NothingLeftBehind` | queue limit, number of events, of Ctrl+C's and of connections |
| `PublishedFirst` | `[]PublishedBeforeClosed` | same |
| `PlanExecution_proofs!OrderRespects` | `[]Graph!OrderRespectsDependencies` for `Graph!Spec`, the loop of `PlanScheduling` alone | plan of any length, with any ids and dependencies |
| `OrderIsFirst` | `[]Graph!FirstThatCan` for `Graph!Spec` | same |
| `Verdict` | `[]Graph!VerdictIsExact` for `Graph!Spec` | same |
| `OrderIsDetermined`, `VerdictIsRight` | `[]OrderIsTheFirst`, `[]VerdictIsExact`: the same, for both sorts of every plan of a run | set of capabilities, answers, fallback plans, values and limits |
| `SchedulerAgrees` | `[]ValidPlansAreScheduled` | same |
| `ReferencesAreRight` | `[]ReferencesReadTheirSource` | same |
| `ExpectationsWereMet` | `[]DoneAsExpected` | same |
| `ContractsAreKept` | `[]CallsKeepContracts` | same |
| `SourceIsTrue` | `[]SourceTellsWhoPlanned` | same |
| `PickAndPlace_proofs!NothingElseMoves` | `[]OnlyTheGoalMoves` | set of worlds, texts, plans and budgets, grid and limits |
| `WorldStaysSensible` | `[]WorldMakesSense` | same |
| `GoalStands` | `[]GoalDoesNotDrift` | same |
| `BackendKeepsContracts` | `ContractsKept` | same |
| `RecoveryExact` | `[]RecoveryIsExact` | same |
| `MemoryStore_proofs!NeverTorn` | `[]FileIsWhole` | keys and values |
| `MemoryAgrees` | `[]MemoryIsTheFile` | same |
| `NothingLeftLying` | `[]NoLitter` | same |
| `StoreIsAtomic` | `Spec => IsAtomic`, the whole refinement of `KeyValueStore` | same |
| `DashboardPage_proofs!TypeCorrect` | `[]TypeOK`; bounds replans, attempts, versions and what was sent and read | set of step ids and plans, retry and replan limit, number of lost connections |
| `MarksAreRight` | `[]MarksAreTheRuns` | same |
| `SuccessIsShown` | `[]DoneWhenSucceeded` | same |
| `ReplayIsTrue` | `[]ReplayTellsTheRun` | same |

*AgentRuntime.* The base invariant is `TypeOK /\ Control`: which status and
pending error go with each place of the loop (`StatusAtPlace`, `ErrorAtPlace`),
that the plan in hand is the last of the history and the index lies in it
(`PlanInHand`). None of the properties is inductive alone: whether a step passed
is forgotten by the control state, so `TraceInHand` ties the place to the last
record of the trace (what the next record must be while executing, a last failed
attempt when exhausted, a completed plan when finalizing). `ReportInHand` says
that the report and the last event are the state the call ended in,
`StrictInHand` where a sink failure has led.
`EventsInHand` is about what each observer holds: its events speak of attempts the
trace has, the last of them is as far as the trace (`StreamInHand`), and the world
in hand is the one an earlier event shows, the last one unless an attempt is being
repeated (`WorldInHand`). A longer trace leaves all of that alone (`LongerTrace`),
since events point into it by number. `MemoryInHand` is the sum the property
speaks of, made good for every place. `StepsArePaidFor` needs no more than
`TypeOK`: an attempt is paid for by its plan, a new plan by a replan. With the
fairness of `Spec` it is the reason why a run ends.

*EventBroadcaster.* That the second put finds room needs that one publisher at
most is inside `publish` (`OneInside`): only a publisher adds to a queue. The
order of a stream across replay, drops and disconnects needs that what waits for
a connection is a run of consecutive numbers that ends with the event the
connection is due (`StreamsInHand`), which is one less while a publisher still
has to serve it; for the replay, that the history is such a run as well
(`HistoryInHand`); and `ConnectionsInHand`, that subscribers are the connections
being served or leaving. `StateNotBehindStreams` follows from `NothingEarly`:
nothing waits in a queue before the history has it. The drop counter is the
number of gaps (`DropsInHand`): events a connection was due, older than what waits
for it, and was not shown. An eviction that leaves a queue empty moves the gap up
to what the connection is due at once, which is why a publisher about to put again
(`Evicted`) is an exception to "an empty queue means all was shown".

*WebMonitor.* `OneInQueue` is the lock: one caller at most is between the look at
`_closed` and its last put, so the put after an eviction finds the room the
eviction made. `Modes` keeps the two ways of the monitor apart, `Stopped` says what
it takes to be closed and for the thread to leave. `Strands` is the state of
`AtMostOneStranded` made inductive: once the thread is gone nobody is let in any
more, and the event that waits is the one that was on its way. For order and
completeness, `Stream` is one sequence: an acceptance appends to it
(`EnterStream`), an eviction removes one element of it (`EvictStream`), and putting,
taking and publishing leave it as it is (`PutStream`, `LoopStream`); that
appending keeps the order needs that events are new (`Fresh`), and that evictions
hit the oldest that `OlderDropped` events are older than all that wait.

*WebCommand.* What the main thread has started and stopped at each place of its
way (`OnTheWay`); the steps of all others leave it alone. For
`PublishedBeforeClosed`, every accepted event is in one place (`EventsInPlace`):
published, in the hand of the thread, waiting, about to be put, or dropped, with
lengths that add up; and the thread leaves only when told to and with nothing left
(`ThreadInHand`). Both end with a Ctrl+C in the middle of `on_event`, which can only
lead past the closing of the server.

*PlanScheduling.* The loop never looks at the order it makes, only at in-degrees
and at the queue. `Counted` says what these mean: an in-degree is the number of
mentions of steps that are not ordered yet (`Open`), and the queue holds the
steps that have none. A popped step then has all its sources in the order, and a
step that could take the place is in the queue, from which the least one is
taken. For the verdict, the order is as long as the plan exactly when it holds
every step (a counting argument over finite sets), the first ordered step of a
knot would wait for one ordered before it, and the steps left over by a loop that
falls short form a knot. `IdToIndex` takes the last step of a name, whose
existence needs that a bounded set of naturals has a greatest element (`Greatest`).

*PlanExecution.* The graph it sorts is an instance of `PlanScheduling`, about whose
loop the lemmas are stated; each sort is that loop (`InLoop`, `FirstThatCan`), and the
stages between the sorts only have to keep their results (`Stages`: what each stage
knows of the plan, its shape, its legal graph, its references). `Progress` is about
execution: the context holds exactly the outputs of the steps done, made under
this plan, and each of them resolved and was invocable when it ran; since ids are
distinct, nothing is recorded over. A valid plan is sorted the second time as it
was the first, because the same steps make the same graph.

*PickAndPlace.* `GoalKept` says that what parsing looks at (`SameThings`: colours,
containers, what can be grasped) is as it was at the start, and that the goal is
what the text meant there; `PlanKept` that each step of the plan in hand passed
the validator for this goal; `Untouched` that nothing has moved before there is a
goal. A grasp is of the goal's object because its reference expects it, whatever
detection puts first. Each step then moves the robot, takes the goal's object or
puts what is held into the goal's container (`Moves`, `Takes`, `Puts`).
`RecoveryIsExact` compares a run with an account of its faults (`Account`). In a
run that only faults can stop, the rule planner's plan is always the rest of one
way (`OnTheWay`): what the robot, the object and the gripper are at each step of
it. A skill that was called with success has no faults left (`FaultsSpent`), so
what it has used is all it ever uses; of that, each full round of
`MaxRetries + 1` attempts was answered by a replan (`ReplansCounted`) and the rest
are attempts of the present step (`AttemptsCounted`).

*MemoryStore.* The invariant says what the temporary file holds at each place of
the write (`TempAtPlace`: the candidate from `fsync` on, synced before
`replace`), that the candidate is the dictionary with the entry of the call
(`CallInHand`), and that the file is what memory or the candidate says
(`FileAtPlace`). `FileIsWhole` rests on `TempAtPlace`, and each action then
maps to an action of `KeyValueStore` or to a stutter. `NoLitter` needs
`LitterExcused`: a temporary file that outlives its call was left by an `unlink`
that failed or by a machine or program that went down.

*DashboardPage.* Run and page meet in one number: the attempt a payload is about
(`StepOf`). The events announce every attempt, each in the place the replay of the
artifact gives it, which is its place among the events less the replans before it
(`EventsTell`). The page has the marks of all it was told on its connection, and no mark without an
attempt that gives the reason (`PageInHand`): no step takes a mark away, and `/state`,
however late it is answered or applied, only repeats a payload that was published.
A replay's plan is the last one, all of whose steps have passed
when the run has succeeded (`DoneSoFar`).

Each proof has one step per action, and below it one per conjunct that the action
can disturb.

Model-checked only. Liveness: the end of a call in `Lifecycle`, of which
`RuntimeIsATaskLife` is the safety part, `StaysUpToDate`, `DeadConnectionsLeave`,
`StopEndsThread`, `StopIsComplete` and `EndIsShown`. Fairness is a statement about
`ENABLED`, which is beyond the prover.

## 6. Not modelled

* The ROS2 stub: its raising operations are the raising skills of `AgentRuntime`.
* Frozen containers, types and exception classes: no decisions of their own.
* The finding of JSON in a model's text and the wording of its prompt; what the
  built-in tools compute (any value); references inside lists and mappings.
* Short-term memory, a list that is only appended to and cleared.
* Malformed artifacts and the conversion of worlds to and from JSON.
* Terminal formatting, argument parsing, page layout, and the HTTP library; a
  thread that cannot be started.
