# Agentic Primitives Gateway: TLA+ models and proofs

The gateway is a FastAPI service that runs declarative LLM agents and teams of
agents for many users on a fleet of stateless replicas, in front of pluggable
"primitives" (memory, tools, tasks, identity, policy ...).  This directory holds
TLA+ models of its concurrent and distributed parts, TLC configurations that
check them on small instances, and TLAPS proofs of the results that should hold
for every instance.

Paths below are relative to `src/agentic_primitives_gateway/` of the
repository.

## 1. Inventory

What each part keeps, what it does, and what is hard about it.

| Part | State | Operations | What makes it correct, and hard |
|---|---|---|---|
| Agent run loop (`agents/runner.py`) | the run's context: messages, `turns_used` | `run`, `run_stream`, `resume`; per turn: checkpoint, LLM call, tools; `_finalize` | every accepted run comes to one end; a resumed run continues where it was |
| Checkpoints, heartbeats, orphan scan (`agents/checkpoint.py`) | Redis: `checkpoint:{key}`, `:lock`, `replica:{id}:heartbeat`, `checkpoint:cancel:{run}` | `save`, `delete`, `acquire_lock`, `recover_orphaned_runs`, `mark_cancelled` | crashes at any await, late heartbeats, expired locks, two replicas recovering one run, cancellation racing recovery |
| Team runner (`agents/team_runner.py`, `team_agent_loop.py`) | phase, cancel event, worker loops, checkpoint | plan, workers poll/claim/execute, re-plan, synthesise, retry a task, resume | no task executed twice at once, none started before its dependencies, the run ends; cancellation reaches everybody |
| Task board (`primitives/tasks/`) | tasks: status, assignee, depends_on | `create`, `claim` (compare-and-set), `update` (last writer wins), `get_available` | atomicity of claim against update, crash between the two |
| Background runs (`routes/_background.py`) | task table, per-run event queue; Redis status and event log | `start`, `rekey`, `cancel`, stream, reconnect, `get_status_async`, stale cleanup | a status that is final stays final, a reconnecting reader sees every event and the end |
| Session registry (`agents/session_registry.py`) | session ids with metadata, per primitive | `register`, `unregister`, `list_sessions`, `is_registered` | informational: nothing reads it to decide anything |
| Agent and team specs (`agents/base_store.py`, `file_store.py`, `redis_store.py`) | versions, deployed and draft pointers, proposals, claims of names | create, make a version, propose, approve, reject, deploy, delete, fork, seed | one deployed version per name; every write replaces all state, so replicas undo each other's; nothing serves unapproved under the gate |
| Provider registry and config watcher (`registry.py`, `watcher.py`) | provider instances, the watcher's stamp and last error | `get_primitive`, `reload`, watch | what is handed out is open and of one configuration, a failed reload leaves the old one, a good change is served |
| Audit (`audit/`) | one bounded queue and worker per sink, counters | `emit`, the workers, `shutdown` | no event vanishes uncounted, order survives late writes, one sink does not stall another, shutdown ends unless the closing of a sink hangs |
| Credentials (`credentials/`) | TTL cache, admin tokens, attributes taken to be declared | resolve, read, write, delete | nobody is served what was replaced, a write that is reported is stored, other attributes survive; with an admin client or without |
| Authentication, access (`auth/`) | principal per request | authenticate, check access | pure decisions over requester, owner and sharing |
| Policy enforcement (`enforcement/`) | loaded policies, the engine and provider they come from | provision, refresh loop, enforce | what the provider in service says, in its first page, is enforced in the end, failed refreshes and reloads notwithstanding |
| Tools (`agents/tools/`, `primitives/tools/`) | tool catalogue, MCP server registry | build tools, call, delegate to sub-agents | delegation depth, name clashes |
| Memory, knowledge, LLM, browser, code interpreter, identity, observability, evaluations, policy primitives | mostly in the services behind them | request and response | adapters; little state of their own |
| Export (`agents/export.py`), models, UI, client, deployment | none | | generated code, data shapes, presentation |

How they interact: a route starts a run through the background-run manager,
which owns its asyncio task and its event queue.  The runner calls the LLM and
tool primitives through the registry, and saves checkpoints.  A team run creates
tasks on the board, and its workers are agents that run the same kind of loop.
Replicas share only Redis: checkpoints, heartbeats, locks, the event log, the
task board and the specs.  Nothing is ordered between two Redis calls, and every
`await` is a point where other coroutines, other replicas and crashes come in
between.  The `hazards` of `PROJECT.json` list where this bites, each with the
properties that would notice.

## 2. Plan

Modules are written one system part at a time, the most important first.  A part
has one module with its state and actions, an abstract module where there is a
promise worth stating on its own, an `MC...` module that gives TLC its model
values, and a `...Proofs` module for the theorems.

| Order | Modules | About |
|---|---|---|
| 1 | `CheckpointRecovery`, `DurableRuns`, `MCCheckpointRecovery`, `CheckpointRecoveryProofs`, `CheckpointRecoverySafety` | durable agent runs on a fleet, and the promise they keep |
| 2 | `TaskBoard`, `TeamExecution`, `WorkQueue`, `MCTeamExecution`, `TeamExecutionProofs` | team runs, their task board, and the work queue it implements |
| 3 | `BackgroundRuns`, `MCBackgroundRuns`, `BackgroundRunsProofs` | background tasks, event store, reconnect |
| 4 | `SpecStore`, `VersionLedger`, `MCSpecStore`, `SpecStoreProofs` | versions, pointers, proposals and claims of agent and team specs on several replicas; the ledger the file backend implements |
| 5 | `AuditRouter`, `ProviderReload`, `PolicyRefresh`, `Gateway`, `MCGateway`, `AuditRouterProofs`, `GatewayProofs` | one gateway process from start to shutdown: audit fan-out, provider reload and policy refresh on one event loop |
| 6 | `Credentials`, `MCCredentials`, `CredentialsProofs` | one user's credentials: cache, resolver and writer against the identity provider |

All of it is done; what is left out is in section 8.

`TeamExecution` extends `TaskBoard`; it has its own view of the checkpoint store
(one key, present or not) and takes from `CheckpointRecovery` that a resume may
begin when the process has died.  `PolicyRefresh` extends `ProviderReload`,
through which it reads, and `Gateway` composes both with `AuditRouter`: its
actions conjoin an operation of one part with the events it reports.
`DurableRuns`, `WorkQueue` and `VersionLedger` are the abstract specifications;
the detailed modules instantiate them with a refinement mapping (`Promise`,
`Queue`, `Ledger`).

The refinements are proved as well as checked: of `WorkQueue`, of
`VersionLedger`, and of `DurableRuns` up to its fairness, which is only checked
(section 6).

## 3. Modules and their correspondence to the code

In all modules an action is the code between two awaits that touch shared state,
so everything that the event loop, another replica or a crash can put between
two such awaits is a behaviour of the model.  What may happen besides the normal
course is the constant `Events`: a run of TLC, and an assumption of a theorem,
names the set it allows.  Operators named `Bug...` are not used by any
behaviour; each is a variant of the definition that follows it with a plausible
mistake, and shows which property would notice that mistake.

### CheckpointRecovery

Replicas (`up`, `beat`) are process incarnations: `ReplicaHeartbeat` draws a
fresh id when a process starts, so a restart is another element of `Replica`.
Redis is `cp`, `lock`, `cancelKey`.  Per run there is the original execution
(`opc`, `home`, `octx`) and, per scan loop, a recovery (`rpc`, `rctx`).  The
scan's two reads (`scan`, `check`), the gap before `resume` (`orphan`), and
each await of `resume` (`lock`, `claim`, `restore`, the loop, `fin`, `release`)
are separate positions.  `api` is the cancel endpoint, in its order: cancel the
local tasks, delete the checkpoint, set the mark.  `outcome` and `failedAt` are
history variables: how a run came to an end, and on which replicas an exception
has ended a resume of it.  `resume` catches whatever `_resume_from_data` raises
(`agents/runner.py:856`): the lookup of the agent (`ResumeRestore`) and of the
cancel mark (`RecTurnCheck`) raise when the store does, and `Fails` notes it.

Messages and tools are abstracted to the number of completed turns; the lock's
60 s are an event that may come at any time after a recovery has taken it
(`longRecovery`), and the heartbeat's TTL an event that follows a death, or with
`suspect` may hit a live replica.

### TaskBoard and TeamExecution

`TaskBoard` holds the board with the atomic claim (the Lua script of
`primitives/tasks/redis.py`, the lock-free body of the in-memory provider) and
the unconditional update.  `TeamExecution` is one streamed run with
checkpointing: the executor's `phase`, a loop per worker (`wpc`, `todo`), and a
sub-task per worker and task (`spc`), which runs an agent that may use the board
tools `create_task`, `complete_task` and `fail_task`.  `claim_task` is not among
the tools a worker gets (`_WORKER_BOARD_TOOLS`), so agents do not claim.
A process may die at any point; a resume then reads the checkpoint, claims it,
announces itself, lists the tasks and resets those in progress.  The cancel
endpoint is modelled call by call, asked of the executing replica or of another.

An agent's look at the cancel signals and the tool call that follows are one
action.  Task text, priorities and upstream results are left out.  Errors and
TTLs of the event store are left out, and so are revoked access and the race for
the lock of the checkpoint: `CheckpointRecovery` has them.  The number of tasks
is bounded by the set `Task`.  After a cancel through the executing replica no
orphan scan looks at the run before its checkpoint is deleted, unless the
process dies.

### BackgroundRuns

A background task per run (`pc`, `key`, `now`), its queue (`out`), the manager's
table (`tracked`), the Redis event store (`log`, `status`), one cancel request
and one client that reconnects.  Each call of the store is an await; a
cancellation that arrives there finds the call executed or not, and goes to the
handler, or to nobody when the task is before its `try` block or in its
`finally` clause.  Team runs start under a placeholder (unique, because the spec
whose `id()` it contains lives as long as the run) and are re-keyed at their
first event; chat turns share the key of their session.  The polls of the
reconnect stream read the events and then the status, as two steps.  The runs
are about team runs; what chat turns (`sessions`) add is in section 7.

Owner keys, TTLs of the store, the event list kept without a store, and deletion
of a run's data are left out; so are errors of the cancel endpoint's own store
calls.  `cleanup` may remove any entry that is done; with `stale` any entry.

### SpecStore and VersionLedger

`store` is what the backend holds: all versions, the pointers and lists of each
identity, the set of proposals.  Every operation of `base_store.py` is an
operator from one such state to the next (`CreateVersion`, `DeployVersion`,
`ArchiveIdentity` ...).  A request loads the state (`Loads`, with the checks the
operation makes before it changes anything in `Applies`) and saves what it made
of it (`Written`).  On the file backend nothing suspends it in between, and
requests run one at a time (`Turn`); on Redis the saves of other replicas come
in between, and a save undoes them.  `saves` and `races` bound a run; `races`
counts the saves of a stale state.  The reads that a route makes before the
operation (resolve the name, check access) may be as old as the request:
`shown` and `vacant` hold what it may have seen.  `claims` is the Redis hash
with which `create` reserves a name (HSETNX); an error, a lost answer and a
replica that dies with the request are `CreateFails`, `SaveUnanswered`,
`Dropped`.  `approvals`, `won` and `deleted` are history.

A proposal is kept as the string "owner:name:version" and decoded by splitting
at the first two colons.  An owner's id is any subject of a token, so it may
have colons of its own: those in `Coloned` do, and their proposals come back as
somebody else's (`Decodes`) and are never shown (`Pending`).  Names with a colon
behave the same way and are left out; so are owners and names whose joined keys
coincide ("a:b" with "c", "a" with "b:c").

`VersionLedger` says what docs/concepts/agent-versioning.md says of one
version's life, without pointers or copies, in `Make`, `Propose`, `Approve`,
`Reject` and `Deploy`.  The document calls rejected versions terminal, and
archived those that were deployed; `models/agents.py:174` calls both terminal.
The store does three things
besides, which are steps with names of their own: `Revive` deploys an archived
or rejected version while the gate is off, `TooMany` lets retention archive
proposed and rejected ones, and `RetireAll` archives all versions of what is
deleted.  The content of specs and what reads nothing back (timestamps, commit
messages) are left out.

### Gateway, with AuditRouter, ProviderReload and PolicyRefresh

One process along `life`: provision the policy engine, load its policies, start
the watcher, serve; then stop the watcher, the enforcer and the router, in that
order (`main.py`, `lifespan`).  Which parts are configured, and how many calls,
refreshes, changes and faults may still come, is `scenario`.

`AuditRouter`: `Emit` puts an event on the queue of every sink or counts its
refusal.  A worker takes one event, and its write succeeds, fails, or misses its
deadline and may land later all the same.  `StopRouter` puts a sentinel on each
queue that has room; `Deadline` cancels the workers that are left.  A sink
outside `Prompt` may hang for ever, when it writes and when it is closed (`CloseSink`,
which waits without a deadline).  A sink in `Echoing` writes through the
registry, so that its writes are reported in turn; `EchoesExcluded` says whether
`audit.filter` drops those reports.

`ProviderReload`: a generation is what one reload builds; the watcher compares
the stamp of the file, remembers it before it reloads, builds everything, swaps
(`Swap`) and closes the old providers one by one (`CloseOld`), giving way to
requests between two.  From the poll to the swap nothing suspends the event
loop, so that only the file may change (`Loading`).  A configuration in
`broken` cannot be built.

`PolicyRefresh`: the state of an engine is a number of changes, and the last of
them that shows in the first page of its policies, which is all the enforcer asks
for; a change behind that page, or of a policy without a text, does not show.  An
engine lives in a service or in the provider instance itself (`kept`), and the
refresh loop reads it through the provider that was current when it asked.

The three parts share one event loop, with one exception: `routes/health.py`
runs the providers' health checks in executor threads, and what those report
reaches `emit` from another thread.  That is left out; `emit` is one step.

### Credentials

One user's attributes at the identity provider, the admin tokens of resolver and
writer, the cache entry, and requests that resolve, read, write and delete.
Every HTTP call is two steps, the provider's (it answers, and a PUT takes
effect) and the gateway's (it takes the answer up), with refusals, errors and
lost answers in between (`MaxFaults`).  An attribute is a number, new with every
write.  `admin` says which of resolver and writer has a client of its own
at the provider; one that has none asks for no token, logs no warning, and goes
straight to what the user's own token may do (`Unaided`).  `raced` notes that a declaration of attributes overwrote a newer one,
`overtaken` that a write succeeded while a resolve had its answer already.
Eviction and expiry of the cache are one action that may come at any time.

## 4. Runs

Every passing run explores its instance completely.  All of them allow the
system to stop, because runs end: deadlock is not checked, and what has to go on
is stated as a liveness property instead.

| Run | Instance | Shows |
|---|---|---|
| `suspicion` | 2 replicas that scan each other and themselves, 2 turns; lapsed heartbeats, locks that expire under a recovery, cancel | executions overlap, and still no checkpointed run is lost, and no recovery that loads the checkpoint after the cancel request was answered makes a model call |
| `faults` | 2 replicas, 2 turns; store errors at every call, graceful stop, revocation, cancel with an expiring mark | types (the turn counter stays within `max_turns`); no checkpoint is parked under a live replica that does not execute it, but for withdrawn access and replicas where an exception ended a resume |
| `promise` | 3 replicas, one stable, 2 scanners, 2 turns; fairness, cancel | refinement of `DurableRuns`; only the dead are taken over, by one recovery at a time; recorded runs end; a cancel request is final |
| `team_adverse` | 2 workers, 2 tasks; failing agents, models and board calls, status tools, tasks created by workers, cancel from both sides, 1 crash | a sub-task works only on a task claimed for its worker |
| `team_work` | 2 workers, 3 tasks; failing agents and models, tasks created by workers, absent workers, unknown dependencies, 1 crash | refinement of `WorkQueue`; dependencies come first; the synthesis sees every task finished |
| `team_ends` | 2 workers, 2 tasks; fairness, worker-created tasks, cancel from both sides | the run ends; a cancelled run stops |
| `bg_cancel` | 2 team runs, store errors, cancel | a run is found under its id and told when it is cancelled |
| `bg_stream` | 2 team runs, failing runs, a client that reconnects; fairness | live stream and replay agree; every stream is closed; the client outlasts the run, and stops |
| `spec_store` | 2 requests of an administrator, one name owned by him, whose id has a colon, and by the system, 3 versions, cap 1; file and Redis, gate on and off | pointers and numbers agree after any stale save, and the queue is complete for the owner without a colon; one winner of a name nobody deletes; the gate is kept; the file backend implements `VersionLedger` |
| `gateway` | 2 sinks of which one may hang, queues of 2, 2 primitives, 2 configurations, in the scenarios of `MCGateway`; fairness | types; no event vanishes, order, isolation of sinks, shutdown ends unless it stands at a `close()` that hangs; open providers of one configuration, which is the file's when the watcher is content; changes of the file, and of policies in the first page, get through |
| `audit_echo` (violation) | one call of a provider, an echoing sink without a filter | the observability sink reports its own writes to itself until its queue refuses events |
| `credentials` | 2 requests, 2 attributes, 3 requests or changes by others in all, 1 fault; with and without admin clients | the cache is fresh, reported writes are stored, other attributes survive, up to the races and the mode without an admin client that the properties name |

The finding in `PROJECT.json` quotes the line that `audit_echo` contradicts.

Bounds.  A takeover needs a replica that dies, one that takes over and one that
competes: three replicas, two scanners.  Overlapping executions need two
replicas that suspect each other.  Two turns tell "before the first model call",
"between two" and "after the last" apart; with one turn a recovery would never
call the model, because the saved counter is already at the limit.  Two workers
and two tasks are enough for two claims of one task, a dependency, and a task
for somebody else; three tasks for a second wave that depends on the first; one
crash for a resume with tasks in every status.  `MaxTokens`, `Quiet` and
`MaxSilent` stand for an unbounded number of tokens, 25 polls and 900 polls:
what matters is that `Quiet` is smaller than `MaxSilent` and that a run can log
an event while the client is silent.

In `spec_store` three versions are a deployed one, its rival and one more that
retention (`Cap` is 1) puts something away for; one race is one lost update, and
`SpecStoreProofs` has no bound on races.  `MCGateway` says which scenario
combines which parts: together they make a queue overflow, a write land late, a
reload fail and be followed by a good one, a call in flight over a reload, a
provider swapped under a refresh, and all three parts stop.  Three requests in
`credentials` let a write be reported between the answer and the fill of a
resolve while the user changes elsewhere; one fault is a lost answer, a refusal
with its second token, or an error.  What these bounds cut off is covered by the
theorems about the same invariants (section 6).

Symmetry: the two replicas of `suspicion` and `faults` may change places
together with their scanners (`PairSymmetry`), and workers and tasks are
interchangeable (`WorkerAndTaskSymmetry`), and so are the requests of
`spec_store` and `credentials`.  It is used in runs without liveness properties
only.

## 5. Fairness

`CheckpointRecovery`: coroutines that are ready run, model calls return or
raise, scans repeat, dead processes are replaced, keys expire.  Liveness is
claimed only when some replica is `Stable`: with replicas that may all die again
and again no run could end.  Crashes, lapsed heartbeats, users and
administrators get no fairness.  `TeamExecution`: executor, workers, sub-tasks
(agents have `max_turns`), resumes and cancel requests go on; whether an agent
creates tasks or fails is never assumed.  `BackgroundRuns`: a task goes on or
sees its cancellation, the endpoint and the client go on; errors, cleanup, users
and reconnects get none.  `Gateway`: the event loop runs every task that is
ready, and the calls that refresh policies and close providers return or time
out, so the watcher (`Watch`), the refresh loop (`Tick`, `Answer`), the workers
of the sinks in `Prompt` and the steps of shutdown (`RouterStops`) go on, the
closing of a sink outside `Prompt` excepted (`AtHangingSink`).  A
refresh may fail instead of answering, but not for ever (the scenario bounds
failures); a sink outside `Prompt`, users, changes and the order to stop get
nothing.  `SpecStore` and `Credentials` claim no liveness: every operation is a
bounded sequence of calls.  All fairness is weak.

## 6. Proofs

All theorems are proved for any constants that satisfy the named assumptions
(`ConstantsAssumption`, `NobodyAssumption`, `TeamAssumption`,
`ProviderReloadAssumption`, `PolicyRefreshAssumption`, `AuditRouterAssumption`,
`CredentialsAssumption`, `SpecStoreAssumption`, `RunsAssumption`); nothing else
is assumed except what a theorem's statement says of `Events` and, where it
matters, that there is a worker.

* `TypeCorrect`.  `TypeOK` alone is not inductive: that a counter stays below
  `MaxTurns` when a loop increments it follows from the test made one await
  earlier, so `TypeInv` adds `TurnsOK`, which says what the position in a loop
  implies for its counter.
* `NoRunIsStranded`, `RunsAreKept`.  `EndInv` says that only replicas that were
  started own a checkpoint, that an execution is in its clean-up only if the run
  is over or the process is being stopped, and that a scanner which is reading
  has no recovery under way.  With it `AdoptedRunsAreRunning` is preserved by
  every step; its two exceptions, withdrawn access and `failedAt`, are where it would
  break.  `NoRunIsLost` needs in addition that no store call raises and
  nothing is stopped gracefully, which the theorem assumes (section 7 says
  why).
* `TheLivingAreLeftAlone`.  Assumes that no live heartbeat lapses.  `LiveInv`:
  live replicas have a heartbeat, an original execution is at a live replica and
  is the only owner its checkpoint has had, and a run that was not submitted
  concerns nobody.  A recovery passes the scan only if it reads an owner
  without a heartbeat, hence not that of a live execution.
* `CancelledStayCancelled`.  Assumes that no store call raises and that no cancel
  mark expires.  `CancelInv`: an answered cancel request has left its mark, and a
  recovery that loaded its checkpoint after the answer is never past the look at
  the mark.
* `RecoveriesExclude`.  Assumes that no replica is stopped gracefully and that no
  recovery outlives its lock, and speaks of runs no resume of which was ended by an
  exception: such a resume deletes checkpoint and lock of a run that has not ended, while
  another recovery may have loaded it.  `LockInv`: a recovery past the lock of a run that has
  not ended is at the replica whose name the lock has, and no other recovery is
  there.  Nothing compares names when the lock is deleted
  (`agents/checkpoint.py`, `release_lock`), so this rests on who can reach the
  deletion.
* `PromiseIsImplemented`.  The refinement of `DurableRuns`, without its fairness,
  under `SpareRecoveries`: no live heartbeat lapses, no recovery outlives its lock,
  nothing is stopped gracefully, no access is revoked and no store call raises, for
  each of which section 7 says how the promise breaks; crashes and cancel requests
  are in, so no resume is ended by an exception (`NothingFails`).
  `KeepInv` joins the invariants above and adds that whoever keeps the checkpoint
  of a run and lives executes it, and that a recovery past the lock comes from a
  scan that is alive.  So the name in a checkpoint is replaced only when its owner
  is dead, which is what the abstract step demands.
* `TeamTypeCorrect`, `WorkIsExclusive`.  `ExclusiveWork` is not inductive: a
  task could be pending while a sub-task still has it, and be claimed by
  another worker.  `WorkInv` adds that a task which is worked on is not pending
  (`WorkIsClaimed`), which holds because only the reset of a resume makes tasks
  pending again, and then no sub-task exists (`IdleWhileDown`), and that a
  resume has a phase to go to (`ResumeHasLoaded`).  The update is
  unconditional, so the compare-and-set of the claim alone does not give this.
* `DependenciesFirst`, `SynthesisIsLast`.  Crashes, resumes, re-planning, tasks
  created by working agents and a user who cancels through the executing replica
  are in; a request through another replica, which is not bound to the life of
  the run, is out (`NoRemoteCancel`).  `StopInv` says what a request does to the
  run: it has ended the executor before it touches the board, whatever is left of
  it meets no resume (`RequestFollows`), and a resume resets only what is in
  progress (`ResetsAreOpen`).  `WorkersWork` says where the loops and the
  sub-tasks can be in each phase, and which of them a cancelled executor leaves
  behind.
  `DependenciesFirst` also leaves out the agents' `complete_task` and `fail_task`
  (`NoStatusTools`), which make a task that was done fail.  As long as nobody has
  cancelled, a step changes at most one task, in one of four ways (`BoardStep`:
  added, taken, worked, undone), which needs that whoever works on a task has it
  claimed or in progress (`InHand`); hence what is done stays done, and the
  dependencies found done by the claim still are when the agent starts.  After a
  cancel request done tasks do fail: those that were in progress when the request
  listed them and finished before it came to them.  But nobody works on what builds
  on them (`DepsStand`: the dependencies of what is worked on are done and not
  listed), because a task could only be claimed behind a task that was done, the
  request lists after the cancel event is set, and then nothing claimed is started.
  Of what is merely claimed this is not true (three tasks are needed to see it),
  which is why `WorkFollowsDependencies` speaks of it only before a cancellation
  (`InWork`).
  `SynthesisIsLast` leaves out a board whose calls raise (`BoardAnswers`), since a
  worker then leaves with tasks in its hands, and assumes that there is a worker.
  The checkpoint's phase follows the executor's (`SavedFollows`), because a crash
  goes back to it, and once all loops have ended nothing is left to do
  (`NothingLeft`): the two looks of a worker at the board are not atomic, but
  only planners and agents at work add tasks, and while nobody works only planners,
  resets and cancel requests touch the board (`QuietBoard`).
* `QueueIsImplemented`.  Assumes that nobody cancels and no agent calls
  `complete_task` or `fail_task` (`LeftAlone`), which settle tasks nobody holds.
  The refinement maps each kind of `BoardStep` to a step of the queue, and the
  executor's steps to closing and reopening it.  It holds with a board whose calls
  raise.
* `RunsTypeCorrect`, `RunsAreTracked`, `CancelFindsTheRun`, `StreamsMatch`,
  `ClientsOutlastRuns`.  About team runs (`Teams`), whose key changes when their
  first event names them.  `Position` says which events a run may still emit,
  `KeysFollow` under which key the manager and the store have it at each step of
  that change.  `RunsAreTracked` excludes stale entries (`Prompt`: no run gets
  older than `stale_seconds`).  `StreamsMatch` relates the queue, the log and the
  emission under way (`InStep`); it excludes cancel requests, which write to the
  log themselves, and store errors, which are swallowed and leave a gap.
  `ClientsOutlastRuns` allows store errors: what the client has read of the log
  and the status is true of the run or older (`DoneIsLast`, `Follows`).
* `RegistryIsInvariant`, `ServedAreOpen`, `OneConfig`, `ReadyIsCurrent`.  That
  open providers are served does not follow from itself: `NewestInService` adds
  that everything in service is of the newest generation and that whatever is
  closed, or on the watcher's list, is older.  `ReadyServesTheFile` needs what a
  kept stamp tells (`Remembered`), also in the middle of a reload, and what holds
  before the watcher's first look (`NotYetWatched`).
* `AuditIsInvariant`, `EventsAreAccountedFor`, `EventsAreInOrder`.
  `AuditRouterProofs` shows that every operation of the router keeps `AuditInv`,
  which is said of one sink at a time: what waits is newer than what is being
  written (`Lined`), that is newer than all that was written, confirmed or given
  up (`Behind`), and a worker that has ended has left nothing that was reported
  before the shutdown (`Ended`).  `GatewayProofs` shows that every step of the
  process is an operation of the router or leaves it alone.
* `GatewayTypes`.  `AuditInv` speaks of what waits and what is written; the type of
  the counters needs that what is counted was reported as well (`CountedInv`).
  That a provider and the enforcer's policies come from a generation that exists
  needs that generations only grow (`GenerationsGrow`).
* `CredentialsAreInvariant`, `CacheStaysFresh`, `NothingIsDropped`,
  `OnlyTheirOwnChanges`.  The invariant says what each request that is under way
  still believes: the attributes it has read are the current ones unless the
  clock has moved (`Reading`), the names it was told are declared unless
  declarations raced (`Declaring`), and a write past its declaration without a
  warning is about a known attribute (`Writing`).  The last two hold as long as
  nothing excuses a dropped write (`excused`): declarations that raced, or a writer
  without an admin client.  `Passing` sums up what others
  may do in the meantime.
* `StoreIsSound`, `PointersAlwaysAgree`, `NumbersAreInOrder`,
  `QueueIsAlwaysComplete`, `GateIsAlwaysKept`, `LedgerIsImplemented`,
  `NameIsWonOnce`.  The queue is complete but for owners in `Coloned`.  A save replaces all state by one that was made from an old
  copy, so nothing can be preserved by looking at the stored state alone.  `Sound` is therefore said of a state, any state, and
  `StoreInv` says it of what is stored and of every copy a request holds; each
  operation maps a sound state it applies to to a sound one, and what the others
  hold stays sound because versions and approvals only grow (`SoundStays`).  The
  gate is part of `Sound` (`Cleared`): a draft or proposal marked as approved is
  one an administrator approved.  For the ledger, `Alone` says what the file
  backend has and Redis has not: a request that has begun is the only one, and
  the state it loaded is still the stored one.  Its save is then one operation on
  the stored state, whose effect on every version's status and identity is one
  step of the ledger (`SaveIsRecorded`).  That a name is won once has a reason for
  each backend (`WinInv`).  On Redis whoever creates holds the claim, is alone in
  that, and no create has succeeded since the claim was taken.  With files a
  winner has left a version that serves (`Serving`), only a deletion takes that
  away (`ServiceStays`), and the next create looks at the store with nobody coming
  in between.  Assumed of the constants: the value
  that stands for "nothing" is not a name.

Only model-checked: liveness (`RecordedRunsEnd`, `CancelSticks`, `RunEnds`,
`CancelledRunStops`, `StreamEnds`, `ClientStops`, `SinksAreIsolated`,
`ShutdownEnds`, `ChangesAreServed`, `ChangesAreEnforced`) and the fairness that
`RecoveryKeepsPromise` adds to `PromiseIsKept`, which are outside what the prover
handles.  Every safety property of the passing runs is proved, under what its
theorem assumes.

## 7. What the passing runs assume, and why

A property is checked under the events it can hold under.  The following
combinations are allowed by the modules and were left out of the passing runs,
because there the code departs from the property; each can be seen by adding the
event to the run's configuration.  They are behaviours of the code, at the lines
given, and a change there should bring the event back into the run.

| Left out | Where | What happens with it |
|---|---|---|
| `cancelTTL` in `suspicion` | `routes/agents.py:596` | the cancel mark lives 300 s; a recovery that loaded the checkpoint before and comes to its turn after that goes on with a cancelled run |
| `shutdown`, `storeError` in `suspicion` | `agents/runner.py:242`, `818` | a graceful stop cancels the run's task, whose clean-up deletes the checkpoint of a run that could have been resumed; an error of the first save leaves a run without one |
| runs with `revoke` in `AdoptedRunsAreRunning` | `agents/runner.py:872` | the early returns of a resume leave the checkpoint in the name of a live replica that does not execute the run, so no scan looks at it until that replica dies |
| runs in `failedAt`, in `AdoptedRunsAreRunning` | `agents/runner.py:858`, `984` | a resume that has saved its claim looks up the agent, and then the cancel mark; an error of Redis in either is logged and nothing else, and the checkpoint, when its deletion fails too, stays in the name of a replica that does not execute the run |
| `storeError` in `promise`, runs with `failedAt` in `OneRecoveryAtATime` | `agents/runner.py:858`, `984`, `1021` | an error of the look at the cancel mark finalizes the run: its checkpoint and its lock are deleted although it has not ended, and a recovery that loaded it before saves it again and takes it over from a live replica |
| `suspect`, `longRecovery` in `promise` | `agents/checkpoint.py:113`, `282` | a run gets a second execution beside the first; two recoveries of one run may overlap too, because the checkpoint is loaded before the lock is taken (`agents/runner.py:842`) |
| `taskFails`, `modelError`, `ghostDep` in `team_ends` | `agents/team_runner.py:1437` | a pending task behind a failed or unknown one keeps all workers polling; `global_timeout_seconds` is read by nobody |
| `statusTools` in `team_ends` | `agents/team_runner.py:1027` | a task completed by its agent lets the other workers leave; a task the agent then creates for one of them waits for ever |
| crashes in `team_ends` | `agents/team_runner.py:428`, `449` | claimed tasks stay claimed, because a resume resets only those in progress, and the run waits for them; a resume that has loaded the checkpoint overwrites a cancellation |
| `boardError` in `team_work` | `agents/team_runner.py:915` | a board call that raises ends a worker's loop; when no worker is left the run goes on to the synthesis with tasks that nobody did |
| `statusTools`, `cancelHere`, `cancelThere` in `team_work` | `agents/team_runner.py:1067` | the last update is unconditional: a task that its agent or a cancel request failed becomes done when the agent returns, which no work queue does.  `SynthesisSeesEverything` holds with the first two, `WorkFollowsDependencies` with `cancelHere` (section 6); the run leaves them out for `QueueIsKept` |
| `statusTools`, `cancelThere` in `WorkFollowsDependencies` | `primitives/tasks/in_memory.py:99` | an agent's `fail_task`, or a request to another replica while this one works on, fails a task that was done, under the agents that build on it |
| `cancel`, `storeError` in `bg_stream` | `routes/_background.py:295` | a cancellation or an error that arrives in the `finally` clause, or before the `try`, leaves the queue without its sentinel; a cancelled run may end as idle |
| `sessions` in `bg_cancel`, `bg_stream` | `routes/_background.py:299`, `352` | a second turn replaces the entry of one that executes, which no cancel request reaches then; an earlier turn's last event looks like the end to a client that reconnects.  `TrackedRuns` and `StreamMatchesLog` are stated for team runs, which have a key of their own |
| `stale` in `bg_cancel` | `routes/_background.py:170` | an entry older than `stale_seconds` is dropped while its run executes |

The remaining modules name their exceptions in the properties themselves:

| Exception | Where | What happens |
|---|---|---|
| names that are deleted, in `OneWinnerUntilDeleted` | `agents/base_store.py:804`, `redis_store.py:112` | a deletion archives and then releases the claim, which by then may be that of a concurrent `create`: a second create of the name succeeds, against the comments at `base_store.py:708` and `redis_store.py:91` |
| owners in `Coloned`, in `QueueIsComplete` | `agents/base_store.py:476` | the key of a proposal is split at its first two colons; with an owner "f:1:anna" it names owner "f" and a version that does not exist, so the proposal is never shown to an administrator, though it can be approved by its id |
| `Revive`, `TooMany` and `RetireAll`, in `LedgerIsKept` | `agents/base_store.py:347`, `264`, `403` | docs/concepts/agent-versioning.md:41 calls rejected versions terminal, line 51 archived those that were deployed, and `models/agents.py:174` both terminal; without the gate `deploy_version` takes any status, retention archives proposed and rejected versions, and a deletion archives everything.  The ledger has these as steps of their own, so the property says that there is no fourth departure |
| the Redis backend, in `LedgerIsKept` | `agents/redis_store.py:56` | of two writes that overlap the later one undoes the earlier one, a deployment or a rejection too; docs/getting-started/configuration.md:463 says that any pod can serve any request |
| versions that bypass the gate, in `GateIsKept` | `agents/base_store.py:730` | an agent's tool `create_agent` deploys without approval, as seeding does; docs/guides/admin-approval.md names seeding only, and says that a fork deploys while the code makes a draft of it |
| `overtaken`, in `CacheIsFresh` | `credentials/oidc.py:163` | a resolve that was answered before a write fills the cache after the write has invalidated it, with what was replaced, for a TTL |
| `raced`, in `ReportedWritesAreStored` | `credentials/writer/keycloak.py:163`, `187` | of two writes that declare new attributes one undoes the other's profile, and the writer takes both for declared: later writes of the lost one are dropped by the provider and reported as updated |
| a writer without an admin client, in `ReportedWritesAreStored` | `credentials/writer/keycloak.py:93`, `140` | no attribute is declared and no warning logged; the write goes to the Account API, which drops an attribute that is not declared, and is reported as updated |
| `warned`, in `ReportedWritesAreStored` | `credentials/writer/keycloak.py:155` | a profile that cannot be read, with an expired token say, is a warning in the log: the write goes on and the undeclared attribute is dropped |
| a clock that has moved, in `OnlyTheirOwn` | `credentials/writer/keycloak.py:226` | of two overlapping GET and PUT of the attributes the second undoes the first |
| `cut`, and events after the sentinel, in `NoEventVanishes` | `audit/router.py:111`, `153` | a full queue refuses the sentinel, so that shutdown waits for its deadline and the rest of the queue is lost; docs/concepts/governance.md:32 says that every queue is drained.  What is reported after the sentinels is neither written nor counted |
| `AtHangingSink`, in `ShutdownEnds` | `audit/router.py:170` | the closing of a sink has no deadline, so one that hangs keeps the process from ending; the docstring at line 146 says that the whole shutdown is bounded by `timeout` |
| workers that have ended, in `SinksAreIsolated` | `audit/router.py:165` | what is still on the queue of a worker that the sentinel or the deadline has ended is not written; `NoEventVanishes` says what it may be |
| `unseen`, in `ReadyServesTheFile` and `ChangesAreServed` | `watcher.py:92` | a change between the start of the process and the watcher's first look is taken for the state it has loaded |
| `broken`, in `ChangesAreServed` | `watcher.py:103` | a reload that fails is not tried again before the file changes once more; a file that is absent or cut off loads as the defaults |
| pages behind the first, in `ChangesAreEnforced` | `enforcement/cedar.py:224`, `primitives/policy/noop.py:124` | the enforcer asks once, for 100 policies, and follows no `next_token`: with more of them, a change behind the first page is never enforced.  The property is about what the page shows |
| the provider in service, in `ChangesAreEnforced` | `enforcement/cedar.py:255` | with the in-memory policy provider a reload loses the seeded policies, and the next refresh enforces none, which denies every request; docs/concepts/policy.md:54 says that seeding makes enforcement work with that provider |

Other departures from what a reader may expect, met while modelling and not the
subject of a property: `turns_used` is saved before the turn
(`agents/runner.py:988`), so a resumed run has one turn less than `max_turns`
allows.  A client that reconnects and stops after `Quiet` silent polls
(`routes/_background.py:360`) may miss the last events, if they were logged
between its last look at the events and at the status.  The cancel endpoint
builds key and mark from the caller's principal (`routes/agents.py:598`), so an
administrator who cancels another user's run marks a key nobody reads.
`delete_team_run` on a run that executes (`routes/teams.py:325`) deletes events
that the task then writes anew, without an owner.  A replica that refuses to
start does not wait for the event that says why (`main.py:404` calls it
durable).  Old providers are closed under calls that still use them, those left
when the watcher is stopped are not closed at all, and neither are the last ones
at exit; a build that fails leaves what it had built.  A deletion of a
credential does not renew an expired token, and a PUT whose answer is lost is an
error that does not invalidate the cache; other replicas' caches are never
invalidated.

## 8. Not modelled

The parts listed as not modelled in `PROJECT.json`.  The session registry and the
registry of tool servers are dictionaries with one call per operation, and
nothing decides by the first.  Authentication is done by a library within one
request; the access rules that decide what a request may change are operators of
`SpecStore`.  Adapters for external services, the exporter, prompts, models, the
client and the UI keep no state that the properties of this project could be
about: they translate requests and responses, and make up most of the
repository's lines.

Of the modelled parts are left out: `retry_task_stream`, which checks the status
of a task and then resets it, so that two retries run it twice
(`agents/team_runner.py:1295`); the non-streaming team run, whose phases are
those of the streamed one; token streaming inside an agent turn and the merge of
a tool's stream with it; `delete_team_run`; the event store of a single replica,
a list in memory; of the spec store `archive_version`, `update`, `delete` by
bare name and `get_draft`, which nothing calls; sampling, redaction and the I/O
of audit sinks, rotation included; the evaluation of policies and the choice
between several providers of one primitive, which depend on the request alone.

## 9. Running the checks

    tlc -config CR_suspicion.cfg MCCheckpointRecovery.tla
    tlapm SpecStoreProofs.tla

`PROJECT.json` lists for every run its module, configuration and properties; for
every definition that models code the lines it stands for (`map`); and for every
checked property a variant of the model that violates it (`mutants`).
