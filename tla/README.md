# TLA+ specifications of y-agent

Specifications of the concurrent and fault-handling parts of y-agent
(`src/crates`), model-checked with TLC on small instances; the safety properties
that the passing runs check are also proved with TLAPS, for every instance (some of
them under a condition that section 4 states). Each
definition is a translation of the code that `PROJECT.json` names for it under
`map`; the configurations are the `.cfg` files of the runs listed below.

    tlasany M.tla                             parse a module
    tlc -workers 2 -config X.cfg M            check a run (module M, X.cfg)
    tlapm SingletonSupervisorProofs.tla       check the proofs
    tlapm BackgroundWakeProofs.tla
    tlapm ChatTurnsProofs.tla
    tlapm TopologicalOrderProofs.tla
    tlapm WorkflowExecutorProofs.tla
    tlapm SchedulerManagerProofs.tla
    tlapm AgentDelegationProofs.tla
    tlapm CapabilityPackProofs.tla            (some minutes)

## 1. The system

y-agent is an assistant runtime: a set of Rust crates around one service layer,
reached from a command line and terminal UI (`y-cli`), an HTTP server (`y-web`),
a desktop application (`y-gui`) and chat bots (`y-bot`). A process builds one
`ServiceContainer` over a SQLite database in WAL mode; several processes may
share the database. Inside a process everything runs as tokio tasks that share
state under async locks and exchange messages over bounded channels.

| Component | Source | State it keeps | Operations | Interacts through | Hard behaviour |
|---|---|---|---|---|---|
| Coordination store | `y-storage/src/coordination.rs` | `runtime_leases`, `runtime_instances` | acquire, renew, release a fenced lease; register, heartbeat, prune | SQL statements of many processes | expiry racing renewal, stale owners |
| Singleton supervision | `y-service/src/instance_coordination.rs`, `container.rs` | the lease a process holds, whether it runs the role | boot, tick, reconcile, shutdown | coordination store; `LeaseManagedService` start and stop | pauses longer than a lease, crashes, storage errors |
| Scheduler manager | `y-scheduler/src` | schedules, trigger queue, execution history | start, stop, recover, evaluate, handle | channel, locks, persistence trait, dispatcher | aborts at awaits, restart between two writes, full queue |
| Scheduler service | `y-service/src/scheduler_service.rs`, `y-storage/src/schedule_store.rs` | schedule and execution rows | create, update, delete, pause, resume, trigger | manager and SQLite in two steps | overlapping calls, failed writes, other processes |
| Task graph | `y-agent/src/orchestrator/dag.rs` | nodes and dependency lists | validate, order, ready | the executor | malformed graphs |
| Workflow executor | `y-agent/src/orchestrator/executor.rs` | completed tasks, outputs, artifacts, checkpoint | execute, recover | task executors, semaphore, join handles | tasks that finish in any order, failure strategies, detached tasks |
| Background wake | `y-service/src/background_wake.rs`, `background_tasks.rs` | reserved, consumed, killed, delivered tasks | reserve, commit, release, observe | runtime events, chat turns | completion racing an observation |
| Capability packs | `y-service/src/capability_pack` | transaction journal, installed owners | install, roll back, recover | file system, owners | crash between durable phases |
| Provider pool | `y-provider/src` | freeze states, leases, health | route, lease, freeze, thaw | concurrent requests | concurrent errors of one provider |
| Agent pool, delegation | `y-agent/src/agent` | permits, active delegations, instance states | spawn, delegate, collect | runners, semaphore | cancellation holding a permit |
| Chat turns | `y-service/src/chat*.rs`, `agent_service` | active turns, follow-up queue, pending runs | prepare, run, cancel, queue | session events, provider pool, tools | cancel racing completion |
| Session events | `y-service/src/session_events.rs`, `y-web/src/routes/events.rs` | ordered event rows, live channel | publish, replay, follow | subscribers | gap between replay and live |
| Sessions, transcripts | `y-session/src`, `y-storage/src` | session tree, checkpoints, messages | branch, checkpoint, archive | chat, rewind | two stores written in turn |
| Rewind and file history | `y-journal/src`, `y-service/src/rewind.rs` | mutation journal, file versions | record, roll back | tools, sessions | partial rollback |
| Guardrails | `y-guardrails/src` | permission mode, rules, pending approvals | decide, ask, answer | tools, UI | answer after timeout |
| Hooks | `y-hooks/src` | handlers, subscribers | publish, chain | every service | lagging subscribers |
| MCP | `y-mcp/src` | connections, tools | connect, call, reconnect | external servers | reconnect racing calls |
| Tools, runtime, browser | `y-tools`, `y-runtime`, `y-browser` | activation sets, processes | execute | operating system | mostly I/O |
| Context, knowledge, skills, prompts | `y-context`, `y-knowledge`, `y-skills`, `y-prompt` | indexes, versions | assemble, retrieve, evolve | chat | mostly text |
| Presentation | `y-cli`, `y-web`, `y-gui`, `y-bot` | views | render, route | services | not protocol |

What makes each correct, for the components the specifications reach:

* **Coordination and supervision.** At most one process runs a role, as long as
  it is punctual; whatever happens, tokens identify the current owner; the role
  is taken over when its owner goes away.
* **Scheduler.** What is dispatched is durable first; memory and rows agree; a
  restart repeats at most what was not recorded; a due schedule fires; start and
  the queue make progress; each policy does what its comment says.
* **Workflow.** Only acyclic graphs run; a task runs after what it depends on;
  Ok means everything is settled; which failure is reported does not depend on
  timing; recovery repeats no committed task; the execution ends.
* **Background wake.** A completion wakes a session at most once and never for a
  result that was already seen; a reservation is given back on each exit; each
  completion is decided; limits per hour hold.
* **Capability packs.** What is installed is whole, or the former version is,
  across crashes and failing writes; what runs was approved for the version that
  is installed; each version is newer than the one it replaces; a start succeeds
  or asks for an operator.
* **Provider pool, agent pool.** Permits, counters and trackers balance on each
  exit; a response that was shown is not generated again; what a batch reports of
  a delegation is what became of it; every run ends.
* **Chat turns.** An accepted TODO is answered once or taken back; a run ends.
* **Session events.** Each client reads each event after its place once, in order,
  sees an open question even if it connected after it was asked, and sees the end
  of a run.

`PROJECT.json` lists every component with its status, and every hazard found in
the code with its line and the properties that cover it.

## 2. Modules

    FencedLease <- SingletonSupervisor <- SingletonSupervisorProofs
                     |  implements SingletonRole
    SchedulerManager <- SchedulerManagerProofs
    TaskDag <- TopologicalOrder <- WorkflowExecutor <- WorkflowExecutorProofs
                              <- TopologicalOrderProofs <-
    BackgroundWake <- BackgroundWakeProofs
    CapabilityPack <- CapabilityPackProofs
                     |  implements PackVersions
    ProviderPool <- AgentDelegation <- AgentDelegationProofs
    SessionEvents <- ChatTurns <- ChatTurnsProofs
                     |  implements EventLog

`A <- B` says that B extends A: `WorkflowExecutor` executes what
`TopologicalOrder` validated, `AgentDelegation` composes agent runs with the pool
they call, `ChatTurns` the runs of a session with the streams that follow them.
A module `MCx` gives the constants of `x` values for TLC. Definitions preceded
by a comment `Mutant:` are plausible mistakes in the operator that follows them;
`PROJECT.json` pairs each with the property that notices it. No definition uses
them otherwise.

### FencedLease, SingletonSupervisor, SingletonRole

*Code.* A singleton role is guarded by one row of `runtime_leases`. A process
acquires it when it is its own or has expired, with an incremented token unless
it still held it live; it renews and releases with its identity and token in the
WHERE clause. `supervise_loop` selects over shutdown, the renewal interval and
requests, and AWAITS the service's `start` and `stop` inside the loop.

*Model.* `row` is the lease with the time it has left. `mode[i]` is where
process i is: `new` (before `supervise_singleton`), `booting` (the start that
`supervise_singleton` awaits before it spawns the loop), `idle` (in the select),
`starting` and `stopping` (the service calls awaited in the loop), `draining` and
`releasing` (shutdown), `gone`. `lease[i]` is the loop's `Option<RuntimeLease>`
by its token, `running[i]` whether the service runs, `tickIn[i]` the next
interval tick, `work[i]` what is left of the pending call.

Actions: `Boot` is `supervise_singleton` with its first acquisition; the interval
is made when the loop is spawned, so `tickIn` does not run while a process is
booting and the first renewal comes `StartTime + Renewal` after the acquisition;
`Tick` and `Request` are `reconcile_ownership` from the interval and from
`reconcile_now`; `StartDone`, `StopDone`, `Shutdown`, `Drained`, `Release` are
the ends of awaited calls; `Crash` is the death of a process; `Clock` ages
everything by one unit. Each storage call may fail (`Fault`). Time may not pass
a process that is `Overdue`, so `TickSlack`, `StartTime` and `StopTime` are how
late a process may be: with values beyond `Ttl` they model a suspended process.
A service counts as running from the moment `start` is called to the moment
`stop` returns.

*Abstraction.* `SingletonRole` has one runner at a time, a term that grows each
time another process takes over, and nothing else. Under `Punctual` the
supervisor implements it (`RoleSpec`).

### SchedulerManager

*Code.* `start` recovers missed runs, sends the recovery triggers into the
bounded channel and only then spawns the evaluation loop and the executor loop.
The executor loop records an execution, sets `last_fire` in memory, persists
`last_fire`, persists the record, and spawns the workflow. `stop` aborts both
loops. Service calls change the manager's memory and the rows in two steps.

*Model.* `store` and `rows` are the schedules in memory and in SQLite, by
identifier, as `[enabled, last]`; `calls` the service calls with the step each
awaits; `phase`, `ticks`, `pending`, `batch`, `queue`, `handling` are the
manager: recovery triggers still to be sent, fired triggers still to be sent,
the channel, and where the executor loop is in `handle_fired_trigger`. `runs`
are all executions ever recorded, `kept` those the in-memory history retains,
`saved` the execution rows, `inFlight` the spawned workflows, `settling` those
whose outcome is in memory and whose row is still to be written (`Complete`, then
`PersistUpdate`; a trigger of the service has the same two steps). One action per
stretch of code between two awaits.

The data is abstracted to the schedule's kind, period and policies. A cron
expression is a period: its next fire is the next multiple. The order in which
the triggers of different schedules are sent within one recovery or one tick is
left open (`SendRecovered`, `SendFired`), because the code takes it from a hash
map; the occurrences of one schedule keep their order. The command line runs
the same operations in a process that ends after each of them; only their
effect on the rows outlives it (`CreateElsewhere`, `ChangeElsewhere`).

### TaskDag, TopologicalOrder, WorkflowExecutor

`TaskDag` has the graph and its ready tasks, and `Orderable`, the definition of
acyclic. `TopologicalOrder` runs `validate` step by step: the in-degrees, the
work queue and the order, on lists that may repeat an identifier or name an
absent one. The queue is a set because its order comes from hash iteration.

`WorkflowExecutor` validates the graph and then executes it. `state`,
`completed`, `outputs`, `artifacts`, `step` and `checkpoint` are the executor's
fields; `joining` the handles of the round that it still awaits, in the order of
`Rank` (priority, then identifier);
`work[t]` the spawned task: waiting for a permit, running, pausing before a retry,
or done as `good` (with an acceptable artifact), `bare` (without), `failed` or
`panicked`. `StartRound` spawns the ready tasks; `AbandonRound` is the early
return on an unresolved input or a missing executor, after the tasks before it
were spawned; `Join` awaits the next handle and applies the failure strategy; the
round's last join saves the checkpoint. `Recover` makes a new executor from the
checkpoint. Rollback and Compensation end the workflow exactly as FailFast does
and are written `abort`. Whether an attempt succeeds, fails for good, fails
transiently or panics is free. What each task is given (its strategy, what it
`Needs`) is chosen when the workflow starts.

### BackgroundWake

*Code.* The native runtime publishes the completion of a background process, once
per process, to a channel the wake loop receives from. The loop asks whether the
session is busy, then reserves the task in `BackgroundWakePolicy`, whose methods
each hold one mutex; a task that is being observed is deferred for up to three
seconds and admitted again. The reserved turn is prepared and started by a task
of its own, which then commits or releases. Polls and writes, from a client or a
tool call, observe a process around the read; a kill is announced before it is
carried out.

*Model.* `process`, `monitored`, `notified` and `events` are the runtime;
`consumed`, `killed`, `observing`, `reserved`, `delivered` and `history` the
policy; `wake[t]` says where the handling of t's completion is: `turn`, `plan`
and `reserve` are the steps of `admit_terminal_event`, `deferred` the wait for
an observer, `preparing` and `begun` the start of the turn. `caller[c]` is where
a poll or kill is. Each action is one stretch between two awaits or one critical
section, except `StartTurn`, which joins the preparation of a turn, the durable
`ChatStarted` and `begin_turn`: none of them reads the policy. `turn_active` is
derived from the running turns. `committedAt` (when a wake was committed) and
`rivals` (the wakes whose reservations were open at the same time) are history
variables of the properties. `Early` tasks had their wake at time zero. The clock moves freely, so cooldown and window are compared with
every delay.

### CapabilityPack, PackVersions

*Code.* An installation writes a journal (`transaction.json`) before and after
each phase: snapshot, apply, await commit. The commit decision is made durable in
the journal; the ownership index and the final status follow. Anything that fails
before the decision compensates from the snapshots. When the container is built,
`recover` rolls back what was not decided, completes what was, and the stores are
reconciled before grants are activated again. Hooks, MCP and LSP servers of a
pack run only under a grant of the user for a workspace.

*Model.* `files`, `journal`, `owned` and `grants` are what is durable; `live` what
runs; `job` the operation that has the lifecycle lock, with the step that comes
next (`rec` is its record in memory, which a failing write leaves ahead of or
behind the journal). Each step is one write or one call between two writes. A
write may fail before or after it took effect (`Fault`); the process may die
between any two steps (`Crash`); `Stop` is an orderly end. A version fixes one
content for each of its resources, so what a resource holds is a value. `todo` is
the set of resources that are left to apply or to restore; `Order` gives each its
place in `resource_order`, which decides the next one (`InHand`): the earliest when
applying, the latest when restoring.

*Abstraction.* `PackVersions` has one history of versions per pack. `Standing`
reads it from the stores as recovery will: a version counts from the decision in
the journal on, and no longer once its rollback is marked.

*After an error.* A start that fails builds no container (`ReturnError` leads to
`down`). A server that answers a call with an error goes on serving (`ReturnError`
leads to `idle`), and the next operation finds whatever the failed one left: a
transaction that is not settled, or one that is rolled back and still listed
(`Open`). Recovery is meant to settle these, and only a start runs it. Two history
variables say where it came too late: `overlaid`, an installation or a rollback
went ahead while a transaction other than its own was open; `loose`, the packs that
a failed revocation left running, or that were activated while their own
transaction was open. `InstalledIsWhole`, `LiveIsGranted` and `RecoveryEnds` except
exactly these, and the deviations of section 3 say what happens then. Nothing is
assumed of what follows an error, and `VersionsSpec` has no exception in the run.

*Limits.* One write fails in the life of a process. A save and the step that leads
to it are one action, except where something durable is changed in between. Not
modelled: changes of workspace trust, edits of the files by the user, a second
process on the same data directory.

### ProviderPool, AgentDelegation

*Code.* `call_llm` goes through its routes; the pool selects a provider that is
not frozen and has room, takes a global permit and then one of the provider, and
gives both back when the request returns, although a stream is still to be read.
An error freezes the provider for a while or for good and tells whether the same
turn may be sent again. An agent run asks, executes tools, and asks again; a tool,
or the compaction of its history, delegates to child runs, each of which takes a
permit of the agent pool before it starts and keeps it while it waits for its own
children. A swarm runs its items in chunks and looks at its cancellation token
before each; a list of Task calls runs one after the other and looks at the token
before each too. Task and AgentSwarm hand the token of their turn on to what they
delegate; the compaction of a history delegates without one.

*Model.* `call[c]` is the model call of run c (`route`, `attempt`, `provider`,
whether output was `shown`), `freeze`, `global`, `free`, `active` the pool;
`run[r]` where the run's loop is, `batch[r]` the delegation it awaits with the
result of each item, `permits` and `tracked` the agent pool, `cancelled` the
turns whose token is set; `Cancelled(r)` says that r has such a token, which the
summarizer of the turn itself has not. An operator's thaw (`CheckAndThaw`) asks
nothing about the provider but its health; a check that fails freezes it again and
counts among the errors of `MaxErrors`. Every interleaving of the runs, the providers' answers,
the thaw timers and the cancellation is explored.

*Limits.* The semaphores are not FIFO, a provider of several is chosen freely, and
a workflow's own agents (roots that are not turns) are allowed by the module but
absent from the instance. Not modelled: steers and questions (`ChatTurns` has
them), response schemas, metrics, a turn whose future is dropped as a whole.

### SessionEvents, EventLog, ChatTurns

*Code.* A publisher inserts a row and then broadcasts it on a bounded channel. An
event stream takes its floor (the newest row, or the client's Last-Event-ID),
subscribes, reads the rows of open questions if it came without a cursor, reads
the rows behind its cursor, and from then on treats each live message as a hint
to read what is behind its cursor; a receiver that lagged does the same. A chat
request clears the session's queue, records the run, opens its queue, announces it
and spawns the worker, which loops over model calls and tools, takes a steer at
the top of each iteration and the next TODO when the model stops, closing the
queue in the same critical section if there is none. A forwarder stores and emits
the run's progress; after the turn the worker closes the queue, publishes the end
and removes the token.

*Model.* `log` is the table, `unsent` the rows not yet broadcast, `open` the
questions that await an answer; `feed[s]` a client's stream with the stage of its
handshake, its cursor, how far it has read (`upTo`), its channel, and what it has
`shown`. `run[r]` is where the request, turn and worker of r are, `queue` and
`slot` the session's TODO queue and steer, `fate` what became of each TODO
(history). Runs overlap freely, as nothing refuses a second request. Each storage
call may fail (`MaxFaults`); connections break and requests are dropped
(`MaxBreaks`); clients steer, unsteer and delete `MaxMoves` times.

*Abstraction.* `EventLog` has a length and the place of each reader: it joins at
the end, reads the next event, and leaves only while it has read nothing.

*Limits.* A run asks at most once; permission and plan-review requests work the
same way and are not told apart. Not modelled: deltas (they have no row), pruning
of short-lived rows, streams over all sessions, frames lost in flight (a client
presents the identifier it received), the terminal UI's own worker, resend.

## 3. Runs

Passing runs:

| Run | Instance | What it shows |
|---|---|---|
| `supervisor_punctual` | 3 processes, lease 6, renewal 2, slack 1, start 1, stop 1, 2 faults, fair | one runner at a time, the refinement of `SingletonRole`, takeover after crashes and faults |
| `supervisor_paused` | 2 processes, lease 3, pauses up to 4, 1 fault | tokens fence and hand over in order, punctual or not |
| `scheduler_durability` | 1 cron schedule with catch-up, 3 executions, retention 1, 1 fault, 2 overlapping calls, command line | dispatch durable first, records agree with rows but for an outcome that is being written, saved `last_fire` behind memory |
| `scheduler_progress` | 1 interval schedule with backfill capped at 2, queue of 1, 2 calls one at a time, fair | memory and rows agree between calls, backfill is exact, due schedules fire, start returns if and only if what it recovers fits into the queue |
| `workflow` | all graphs of 3 tasks, one list repeating an entry or naming an absent task, 5 strategies, a retry, deep rigor, 2 permits, 1 recovery, fair | validate is exact; order, completeness, reported failure, committed tasks are not rerun, execute returns |
| `background_wake` | 3 tasks of 1 session, one of which woke it before, 1 caller, cooldown 1, window 3, 2 wakes per window, 2 acts of callers, users and faults, fair | a completion is received once, reserved once, delivered or settled; what was seen or killed stays quiet; cooldown and budget hold between wakes that did not overlap; each completion is decided |
| `capability_pack` | 2 packs that share a resource, 2 versions, 2 workspaces, 3 transactions, 2 crashes, 1 failing write, errors the server goes on after, fair | what is installed is whole, what runs was granted, the refinement of `PackVersions`, starts succeed or ask for an operator, unless an operation went ahead over an open transaction |
| `agents` | a turn with 2 children and a grandchild, 2 providers of 1 permit, 1 global permit, 2 agent permits, 2 iterations, 1 error, cancellation, fair | permits, counters and tracker balance; a batch reports what became of its items; every run ends |
| `chat_turns` | 2 runs that may overlap, 1 TODO, 2 moves, 1 dropped request, 1 iteration | an accepted TODO is answered once or taken back, and lost only to a failed, overlapping or abandoned run |
| `session_events` | 1 run of 2 iterations, 1 client, channel of 2, 1 failing call, 1 break, fair | the refinement of `EventLog`, open questions are shown, the end of a run reaches the client, runs end and leave no TODO |

The bounds. Three processes are an owner, its successor and a bystander; the
proofs remove the bound. `MaxFaults` caps how often a storage call fails;
`MaxToken` caps how often the row changes hands (in `supervisor_punctual` it is
large enough never to be reached, or nobody could take over). In the scheduler
one schedule shows every interleaving of the loops with calls, because schedules
share only the queue. Two time units let a schedule fire, fall due
again, and let recovery find two occurrences where the queue holds one, so
`StartCompletes` sees starts that return and starts that wait for ever; the cap of
two never cuts (the theorem is for every cap). Three tasks give
every shape a round can have (parallel, chained, joined, forked); `MaxRepeat` and
`MaxOdd` bound how long a list is and how many lists are odd. In
`background_wake`, two tasks complete after an earlier wake, with a budget of two
in a window of three and a cooldown of one: the budget refuses a third wake that the
cooldown would allow, and the cooldown a second one that the budget would. Two acts
are enough for two of a poll, a kill and a fault (a lost event, a failed start, a
failed read, a client that disconnects) on top of the two completions. Two packs are one that is
updated and one that wants its resource, and three transactions are an
installation, an update and a retry; two crashes let recovery itself be
interrupted, and one failing write, anywhere, leaves the server to go on after it
(with two the instance has four million states and the properties hold too). Two agent permits suffice for the longest chain of delegations of
`agents` (two); one permit per provider makes every wait happen. Two runs are
enough for each way one run can disturb another of its session, and one client,
because clients share nothing but the log, which `ChatTurnsProofs` makes precise.
A run of `session_events` writes more rows than its channel of two holds, so a
stream lags.

No symmetry is used, as almost all runs check temporal properties. Deadlock is not
checked, as every bounded instance ends: clocks, tokens, executions and calls run
out, and an execution returns.

Fairness. `SingletonSupervisor` assumes that time passes and that a live process
takes its due steps: they are polls of a tokio interval and the ends of awaited
calls. It assumes nothing of `Boot`, `Request`, `Shutdown` and `Crash`.
`SchedulerManager` assumes that the runtime polls both loops, the caller of
`start` and open service calls, and that dispatched workflows return; not that
anybody calls the service. `WorkflowExecutor` assumes that the caller polls
`execute` and that each spawned task is polled and its attempts end; a fair task
may still fail for ever, and the bound on attempts is the code's own.
`BackgroundWake` assumes that the wake loop and the tasks it spawns are polled;
callers, users and processes owe nothing, so an observation may last for ever.
`CapabilityPack` assumes that a process that is down is started again and that an
operation under way takes its next step; users need not answer. `AgentDelegation`
assumes that something that can proceed does (`WF(Proceed)` over all runs
together, enough for `AllEnd` because every run's steps are bounded): tasks are
polled and requests answer or time out. `ChatTurns` assumes that the request
handler, the turn, the forwarder and each connected stream are polled; a client
need not connect, answer or stay.

Runs that end in a violation, each a sentence of the code or its documentation
that the code does not keep (`findings` in `PROJECT.json` quotes them):

| Run | What TLC exhibits |
|---|---|
| `pack_dropped` | the client of an installation goes away: the handler is dropped, the transaction stays open, a retry commits, and the next start rolls the abandoned one back over the committed version |
| `replay_of_output` | a stream fails after deltas were shown, and the same turn is sent again |

Deviations seen while modelling, present in the models but without a run (each
is a short behaviour of the module named):

* `SchedulerManager`: a one-time schedule is fired by recovery before its time and
  at each tick after it, as nothing disables it (`trigger.rs:68`,
  `recovery.rs:38`, against `onetime.rs:3`; no run holds a one-time schedule).
* `SchedulerManager`: `start` sends the recovery triggers at `manager.rs:262`, before
  it spawns the loops that receive them (`:272`, `:310`), and waits for ever, with
  neither loop, when they exceed the channel, although it is documented to start
  both (`manager.rs:222`): a channel of 256 (`queue.rs:14`) against up to 100
  triggers of each backfilling schedule (`recovery.rs:73`). `scheduler_progress` has
  both cases, and `StartCompletes` tells them apart. A stop between the
  record and the spawn leaves a record Running (`manager.rs:434`, against
  `manager.rs:376`).
* `SchedulerManager`: a skipped schedule is fired by the first tick, not at its
  next occurrence (`recovery.rs:58`, against `config.rs:28`).
* `SchedulerManager`: the concurrency policy is not consulted (`manager.rs:411`,
  against `config.rs:41`), and a lagging executor loop runs one occurrence twice
  (`manager.rs:431`, against `interval.rs:9`).
* `SchedulerManager`: the foreign key of the history refuses to delete a schedule
  that has run (`schedule_store.rs:285`, against `scheduler_service.rs:385`).
* `SchedulerManager`: overlapping pause and resume leave memory and rows in
  disagreement (`scheduler_service.rs:409`; `StoreMirrorsRows` holds between
  calls that do not overlap), and a schedule paused by the command line keeps
  firing in the process that runs the scheduler (`commands/schedule.rs:289`).
* `TopologicalOrder`: a dependency list that repeats an identifier is refused as
  a cycle (`dag.rs:174`, against `dag.rs:138`); `ValidateExact` states what is
  decided instead.
* `WorkflowExecutor`: tasks of the round go on, detached, after a FailFast
  failure (`executor.rs:304`, against `failure.rs:17`), and a dependent of a task
  that failed under ContinueOnError runs (`executor.rs:314`, against
  `failure.rs:20`). The dispatcher runs every workflow with light rigor
  (`orchestrator_dispatcher.rs:69`).
* `BackgroundWake`: two completions are reserved before either is committed, and
  make two wake turns within one cooldown, or one more than the hour may have
  (`background_wake.rs:217`, against `:30` and `:34`). `BudgetKept` excepts
  exactly the wakes whose reservations overlapped (`rivals`).
* `BackgroundWake`: a turn begins although its task was killed, or its session
  became busy, after the reservation (`background_wake.rs:640`, against
  `ARCHITECTURE.md:463` and `:469`); the observation of a request that its client
  drops stays, and the completion is suppressed although nobody saw it
  (`background_tasks.rs:168`, against `ARCHITECTURE.md:468`); a cooldown longer
  than an hour is cut to an hour by the pruning of the history
  (`background_wake.rs:221`), which is why `BudgetKept` speaks of shorter ones;
  the completion monitor gives up while an output pipe is open
  (`native.rs:397`).

* `CapabilityPack`, a server that goes on after an error. A rollback whose
  `uncommit` fails (`service.rs:725`) leaves the version listed although its files
  are restored; an update is then installed on top of it, and every later start is
  refused, as the version below is rolled back and not current
  (`ownership.rs:223`, called at `service.rs:570`), without any failed compensation. A
  rollback whose last write fails stays RollingBack; an installation commits over it
  and the next start restores the older content. The pack whose rollback failed can
  be granted and activated with the restored content. `revoke_activation` removes the
  grant first (`service.rs:380`), and when the deactivation fails (`:394`) the pack
  runs on without a grant, and cannot be revoked until it is granted again. `overlaid` and `loose` mark
  these states.
* `CapabilityPack`: a decision whose write fails after the rename leaves the
  journal at CommitDecided with the resources restored; a second process that
  starts rolls back a transaction the first is applying, as the lock is local to
  the process (`container.rs:656`); a grant holds the lifecycle lock while the user
  is asked.
* `ProviderPool`: a timed freeze replaces a permanent one (`freeze.rs:106`, against
  `freeze.rs:10`), as does a failed health check; a provider with no more than a
  fifth of its permits free is refused, and the caller is told that no provider is
  available; a global permit is held while the caller waits for the provider's;
  streams escape both limits (`pool.rs:537`); a request that is dropped leaks its
  `active_requests`.
* `AgentDelegation`: the cancellation of a turn does not reach a run that waits for
  an agent permit (`pool.rs:530`, against `docs/standards/AGENT_AUTONOMY.md:293`),
  and `max_delegation_depth` is not checked on this path (`config.rs:27`), so with
  fewer permits than the longest chain the runs wait for each other.
* `SessionEvents`: a replay reads ahead, so the end of a run may be delivered before
  deltas that were queued before it; a replay that fails is logged and not tried
  again until the next message (`RunEndReaches` excepts faults); a stream over all
  sessions, which the web frontend uses, gets no open questions without a cursor
  (`events.rs:292`, against `docs/guides/ARCHITECTURE.md:428`).
* `ChatTurns`: overlapping runs of a session discard each other's TODOs
  (`TodosKept` excepts them); a request dropped while it prepares leaves its token
  in `pending_runs`, an accepting queue without a run, or a ChatStarted without an
  end; after a panic progress may follow ChatError (`chat_worker.rs:222`).

## 4. Proofs

`SingletonSupervisorProofs` proves for every set of processes, every lease
duration and every bound:

| Theorem | States | Assumes |
|---|---|---|
| `TypeCorrect` | `Spec => []TypeOK` | the constants' assumptions |
| `TokensFenceCorrect` | `Spec => []TokensFence` | the same |
| `HandoverCorrect` | `Spec => HandoverOrder` | the same |
| `MarginCorrect` | `Spec => []Margin`, the invariant behind the next two | `Punctual` |
| `MutualExclusion` | `Spec => []AtMostOneRunning` | `Punctual` |
| `RoleRefined` | `Spec => RoleSpec` | `Punctual` |

`Punctual` is `StartTime + Renewal + TickSlack + StopTime < Ttl`: the first start,
the whole interval that begins after it, the delay of its tick and the stop after a
renewal that fails fit in the lease together. The defaults of `CoordinationPolicy`
leave room for it but the code does not enforce it, so it is a hypothesis of the
theorems and not an assumption on the constants.

*Fencing.* `TokensFence` is inductive once strengthened by what a process may
believe: tokens in `lease` never exceed the row's, equal ones belong to the same
process, a process whose token is the row's is its owner, and a process in a mode
without a lease holds 0. No timing enters, and this is why it survives pauses.

*Mutual exclusion.* `AtMostOneRunning` is not inductive: nothing in it says why
a runner's row has not expired. `Margin` does: a runner owns the row with its
token, and the time left exceeds the time to its next renewal plus the time a
stop takes, or what remains of the call it is in; while its loop is not spawned yet
it exceeds both together, since the interval only begins after the start. `Clock`
preserves it because all of these decrease together and an overdue process stops the clock; renewing,
starting and stopping re-establish it by `Punctual`. From `Margin`, two runners
own the same row and are equal.

*Refinement.* The role's runner is the row's owner while it runs, its term the
token. `Margin` gives that a runner is always the owner, so acquisitions map to
the role's start with a larger term, the ends of stops and crashes to its stop,
and everything else stutters.

`BackgroundWakeProofs` proves for every set of tasks, sessions and callers and
every cooldown, window and budget:

| Theorem | States |
|---|---|
| `TypeCorrect` | `Spec => []TypeOK` |
| `PublishedOnceCorrect` | `Spec => []PublishedOnce` |
| `ReservationCorrect` | `Spec => []ReservationOwned` |
| `DeliveredCorrect` | `Spec => []DeliveredOrSettled` |
| `CompletionsKeptCorrect` | `Spec => []CompletionsKept`, the three together |
| `QuietCorrect` | `Spec => SettledStaysQuiet` |
| `BudgetCorrect` | `Cooldown <= Window` implies `Spec => BudgetKept` |

*Reservations.* Only `PublishedOnce` is inductive alone. A completion that is
received sets its task's handling to its beginning; were a turn for it under way,
its reservation would be lost from sight, so `ReservationOwned` needs
`PublishedOnce`: nothing was done for a task whose completion still waits. That in
turn is inductive over the channel, where only a task that is not notified gains
an event. `TaskMoves` sums up what any step does to one task: nothing, settle it,
reserve it, commit it or release it. From it the other facts follow task by task;
`DeliveredOrSettled` uses `ReservationOwned` to know that a turn that finds its
reservation gone belongs to a settled task, and `SettledStaysQuiet` to know that
a settled task has none to commit. The invariant is `WakeInv`.

*Budget.* `BudgetKept` compares, when a wake is committed, with all wakes committed
before, except those whose reservation overlapped; the guard looks at the history
that `Recent` prunes, when the task is reserved. What is committed in between was
reserved at the same time, so `rivals` has it, and time only adds distance. `HistoryKept` ties them: the history is in the
order of time, and each committed wake of the rolling hour has a place of its own
in it. Pruning drops a prefix, and in a sorted history a prefix holds only what is
older than the hour, so each place moves down by as much; the places count the
wakes, so a history shorter than the budget means fewer wakes than the budget. The
last entry is no older than any wake of the hour, which gives the cooldown, but only
a cooldown that is no longer than the hour: a longer one is cut by the pruning (see
above), so the hypothesis is needed. The first place that stays is the least element
of a set of naturals, which the library's well-foundedness of `<` gives.

`ChatTurnsProofs` proves for every number of runs, clients and TODOs, every
capacity of the channel and any number of faults and breaks, from the constants'
assumptions:

| Theorem | States |
|---|---|
| `FeedRefined` | `Spec => FeedSpec`: the stream of each client implements `EventLog` |
| `QuestionShownCorrect` | `Spec => []QuestionShown` |
| `TypeCorrect` | `Spec => []TypeOK` |
| `TodosKeptCorrect` | `Spec => TodosKept` |

*Streams.* `Steps` sums up all that a step of `ChatTurns` does to the events:
publish a row, broadcast one, ask, resume, or move one stream; when the worker does
which is not used. `FeedTypes` bounds a cursor by what was read and that by the
log. Under it a stream that connects without a cursor joins the log, a delivery
reads the next event, the end of a connection that has delivered nothing leaves,
and every other step is a stutter: neither the channel nor its order enters, which
is why a lagging channel or two publishers that broadcast in the wrong order lose
nothing.

*Questions.* `QuestionShown` speaks of live streams only and is not inductive.
`ShownInv` says what it takes from the earlier stages: once the open questions are
listed, and until the stream is live, one whose row is behind the floor is among
the listed ones; a stream with a cursor has shown it already. It survives a question
that is asked meanwhile because the question is opened before its row is written,
so that row is behind no cursor.

*TODOs.* That a queued TODO is injected or taken back, and lost only for the reasons
`TodosKept` names, depends on both the queue and the runs; `TurnInv` has both.
`QueueInv`: no TODO is listed twice, the slot holds at most one, and a TODO's fate is
`queued` exactly while it is listed. `HeldInv`: while the queue takes
or holds TODOs, some run holds it, or its request died after it had opened the queue.
A step that discards TODOs belongs to a run that replaces or clears the queue; either
that run holds the queue, and then a replacement means two runs, and a clearing at the
end that it did not complete, or somebody else does, and then there are two.

`TopologicalOrderProofs` and `WorkflowExecutorProofs` prove for every finite set of
tasks, any dependency lists, strategies, limits and recoveries, from the
constants' assumptions:

| Theorem | States |
|---|---|
| `ValidateCorrect` | `OrderInit /\ [][Validate]_orderVars => []ValidateExact` |
| `TypeCorrect` | `Spec => []TypeOK` |
| `DependencyOrderCorrect` | `Spec => []DependencyOrder` |
| `OkMeansAllCorrect` | `Spec => []OkMeansAll` |
| `FirstFailureCorrect` | `Spec => []FirstFailureReported` |
| `RestoredNotRerunCorrect` | `Spec => RestoredNotRerun` |

*Validation.* `SortInv` counts: the in-degree of a task that is not placed is at
least the number of its dependencies that are not placed, with equality when no
list repeats an entry. So a task enters the queue only after all its dependencies
(`QueueFree`), the order is sorted (`OrderSorted`), and when the queue runs dry
early each remaining task waits for another, which a numbering of the tasks would
contradict at its smallest (`OrderedProgress`).

*Execution.* `OkMeansAll` needs the graph: the rounds end when nothing is ready, and
`OrderedProgress` gives a ready task in an accepted graph until all are settled.
`FirstFailureReported` needs `RoundInv`: what was spawned and is not settled is
still awaited, so a task that precedes the failed one is settled. `SettledInv` says
that checkpoint, outputs and settled tasks are nested, which is what recovery
relies on; `AttemptsLeft` that a task pausing before a retry has one left.

`SchedulerManagerProofs` proves for every set of schedules, every capacity and
retention, any number of faults, and any service calls beside a command line, from
the constants' assumptions:

| Theorem | States |
|---|---|
| `TypeCorrect` | `Spec => []TypeOK` |
| `RowsTrailMemoryCorrect` | `Spec => []RowsTrailMemory` |
| `DurableBeforeDispatchCorrect` | `Spec => []DurableBeforeDispatch` |
| `StoreMirrorsRowsCorrect` | `Serial` implies `Spec => []StoreMirrorsRows` |
| `BackfillCorrect` | `Spec => BackfillExact` |

*Disk behind memory.* `persist_last_fire` writes the start time of the record in
hand, not what memory says at that moment, so neither property is inductive. `Inv`
follows the record: it is held by one task (`Custody`), it is the latest a trigger
made, and records are made in the order of time (`Aged`); memory took its
`last_fire` at least as late (`HandledInMemory`). Hence the row grows, stays behind
memory and covers every earlier dispatch; when the record is dispatched, the row has
its start time (`HandledOnDisk`). A creation writes the row before it registers the
schedule, which could clear a `last_fire` that a record already set: `Creating` says
that it has no record by then, unless an update cleared it too. The history is
mirrored but for `settling`: a record is in it from the moment its outcome reaches
memory until the row is written, only while it is no longer in flight, and its row
says Running.

*Memory as on disk.* With two calls open on one schedule `StoreMirrorsRows` is false
(see the limits above). `Serial` assumes one call at a time and no other process;
`Mirror` then says for the open call which of its steps the difference is.

*Backfill.* `ReplayExact` is about numbers: for a last fire `L`, a period `P` and a
time `N >= L`, what a replay sends are occurrences after `L` and until `N`, in order,
and as many as the cap allows, but for one due at `N` itself. It rests on three facts
of division (`Division`, `Periods`, `Multiples`). `Aged` gives `L <= N`: a schedule
cannot have fired in the future.

`AgentDelegationProofs` proves for every tree of runs, any providers, routes and
permits, and any errors and cancellations, from the constants' assumptions (an agent
is no child of two delegations of one list, routes name sets of providers, limits are
positive):

| Theorem | States |
|---|---|
| `InvariantCorrect` | `Spec => []IInv`, the invariant behind the next three |
| `TypeCorrect` | `Spec => []TypeOK` |
| `AccountedCorrect` | `Spec => []Accounted` |
| `BatchFaithfulCorrect` | `Spec => []BatchFaithful` |

*Pool.* `PoolInv` counts: free permits plus the calls that hold one are the limit, of
all providers together and of each; the active requests are those dropped plus those
in flight. Each step moves one call, so a lemma per operation only says by how much
the permits move and what its call holds before and after (`Balanced`), and
`PoolStep` turns that into the counts once for all. `Routed` keeps a call on one of
its routes, and knows the provider of a call that holds its permit.

*Agents.* A run has a call only while it asks (`Calling`), so a run that ends or is
cancelled elsewhere holds nothing of the pool. `AgentInv` says that an item has one
parent (`Disjoint`) and nobody waits for a permit who needs none (`Awaited`); hence
the end of a run settles exactly one item, of the batch that still waits for it.
`BatchShaped` makes the items different children of the run, `Reported` ties the result
of each to its run: settled ones are over, those that were not admitted never began. `Bounded` is the limit of a chunk: a
new chunk starts only when the one before it is settled.

`CapabilityPackProofs` proves for every set of packs, versions, resources and
workspaces, any order and contents of the resources, and any number of transactions,
crashes and failing writes:

| Theorem | States | Assumes |
|---|---|---|
| `TypeCorrect` | `Spec => []TypeOK` | the constants' assumptions |
| `PackCorrect` | `Spec => [](overlaid \/ PackInv)`, the invariant behind the next three | the same |
| `InstalledIsWholeCorrect` | `Spec => []InstalledIsWhole` | the same |
| `LiveIsGrantedCorrect` | `Spec => []LiveIsGranted` | the same |
| `VersionsFollowed` | `Spec =>` the history starts as `PackVersions` does, and each step up to the first that sets `overlaid` is one of `PackVersions` or leaves the history | the same |

Nothing is assumed of what follows an error, and the properties' own exceptions are
all there are. `PackInv` holds until an operation goes ahead over an open transaction
that is not its own; from then on nothing is claimed, because recovery may bring older
content back. `Spec` has no dropped requests: `pack_dropped` shows that with them
`CommitsAsOne`, which is `InstalledIsWhole` for a server without crashes, errors or
anything open, fails. That `VersionsSpec` holds after `overlaid` too is only
model-checked.

*Stores.* `InstalledIsWhole` only speaks of quiet moments. `Stored` says what holds
between any two writes: every version in the stack of a pack carries the snapshots of
what the version below it, or the user, had put there (`StackAt`); at most one
transaction is open (`OnePending`: one that begins while another is open sets
`overlaid`), and a rollback by its durable snapshots would
bring back what should stand (`Undoable`); a resource that belongs to no open
transaction is already right (`Whole`). What should stand, `Target`, leaves out the
top of a stack once its rollback is marked. Each kind of write has one lemma
(`BuildStep`, `RollbackWrite`, `TakeBack`, `ListStep`, `UnlistStep`, `CommitStep`), so
an action is proved by naming the one it makes.

*Operation.* `JobInv` says how far the operation in progress has come and what its
record in memory has to do with the journal. They differ only after a failing write,
which is why `RollingBack` allows a snapshot that is not durable only when a write of
this process has failed (`hit`): then no further write fails, and the rollback makes
it durable. A crash at any step leaves a state that `Starting` accepts because
`Stored` does not mention the operation.

*What runs.* `RunsGranted` adds that nothing of a pack runs while its resources
change (`Taken`): the executables are taken down first, which also ends a pack's being
`loose`. With it, what was activated under a grant is still what the installed version
put there.

*Refinement.* `Standing` is cut in two: the listed versions that stand, `Base`, and a
commit that is decided and not listed yet. `DecideWrite` maps the decision to
`Install`, which needs that no other pack owns a resource and that the version is
newer, and as nothing else is open (`OnePending`), it is the only commit that is not
listed; `UndecideWrite` and `TakeBackWrite` map to `Rollback`; `ListWrite` and
`UnlistWrite` change both parts so that the history stays; every other write, even
one that fails, is a stutter (`QuietWrite`).

Only model-checked: the liveness properties, `RecoveryEnds` and `StartCompletes` among
them (the prover does not reason about ENABLED and fairness), and `VersionsSpec` after
an operation went ahead over an open transaction.

## 5. Plan

Done: the modules above. Next, in order:

1. `SchedulerFailover`: `SingletonSupervisor` with a scheduler per process and
   one database; what a takeover repeats from a stale store.
2. Approvals of guardrails, file history and rewind, the session tree, the hook
   event bus.

Not modelled, and why: crates that are conversion, text, numeric retrieval or
operating-system I/O (see the components with status `not_modelled`), and within
modelled components the parts their notes in `PROJECT.json` and the limits above
name: instance diagnostics, manual workflow runs, the placeholder executors.
