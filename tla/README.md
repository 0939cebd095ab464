# OpenFrame tenant: a TLA+ verification project

OpenFrame's tenant repository holds the endpoint agent (`clients/openframe-client`,
Rust), the desktop chat (`clients/openframe-chat`, Rust and TypeScript), thin Spring
Boot services over libraries kept elsewhere, and deployment manifests. The agent and
the chat bridge carry the program's own logic, and this project models them.

## Inventory

| component | state | operations | hard part | modules |
|---|---|---|---|---|
| Durable script results (`result_store.rs`, `execution_listener.rs`, `result_outbox_run_manager.rs`) | redb tables, handler tasks, flusher | accept a batch, mark started, complete, prune, flush, recover | crash between transactions, redelivery, remove by key after an await | `ResultStore` |
| Tool lifecycle (`tool_run_manager.rs`, the install, update, uninstall, restart services) | running set, updating counters, locks, registry, processes | supervise, install, update, uninstall, restart, stop all, restart all | supervisors that outlive what replaced them, leaked flags | `ToolLifecycle` |
| Replacing a tool's program (`tool_updater/`, `system_service.rs`, `binary_writer.rs`) | program, backup, aside copy, service, SCM permits | update of a program, service or application, reinstall, rollback | SCM calls that never return, survivors, half-done updates | `ToolUpdate` over `ServiceControl` |
| Deactivation (`deactivation_service.rs`) and the session with the gateway (tokens, NATS) | phase, 410 counter, marker file, command queue, token files | authenticate, refresh, reauthenticate, suspend, recover, self-uninstall | decision and command in two critical sections, restarts near the deadline, gated callers | `GatewaySession` over `Deactivation` |
| Installation, removal, registration (`service.rs`, `uninstall.rs`, `agent_registration_service.rs`) | service, binary, configuration, machine record | install over an old agent, remove, register, register again | a removal's script beside the next installation, identity over reinstallation | `AgentInstall` |
| Agent self-update (`openframe_client_update_service.rs`, `update_handler_service.rs`, `last_known_good_service.rs`, `update_scripts/`) | executable, reserve, anchor, boot marker, update state | start, swap, verify, roll back, promote | crash or power loss between any two file operations, two writers of one file | `ClientUpdate` |
| Client update gate (`client_update_gate.rs`) | pending flag with a time limit, parked messages | park, dispatch, defer | check then act, expiry, redelivery | `UpdateGate` |
| Tool connection ids (`tool_connection_processing_manager.rs`) and mesh self-heal | mark, wake handle, loop; timers, log position | resolve, publish, nudge; detect, refresh, restart | lost wake-ups, stale timers, a busy tool | `MeshSelfHeal` over `ToolConnections` |
| Chat bridge (`nats_bridge/`) | connection, dialog entry, router task, channel | connect, subscribe, create a consumer, route, resubscribe | overlapping routers, resume points read before awaits | `ChatBridge` over `ChunkStream` |
| Chat front end, log shipping, script executor, doctor, heartbeats, Spring Boot mains, manifests | | | | not modelled |

How they interact: messages from JetStream reach the listeners, which pass the update
gate and start operations on tools; operations share the tool's flags with supervisors,
connection loop, mesh watcher and update gate; every gateway call reports its status to
the deactivation service, whose supervisor stops and restarts all tools; the agent's
self-update ends the process, and everything kept in memory with it. Three modules
compose others: `GatewaySession` extends `Deactivation`, `ToolUpdate` extends
`ServiceControl`, `MeshSelfHeal` extends `ToolConnections`. `ResultStore` refines
`ResultDelivery`, `ChatBridge` refines `ChunkStream`. The theorems about a module are in the
module named after it with `Proofs` at the end (those about `AgentInstall` in
`GatewaySessionProofs`); all of them hold for every value of the constants that the module's
assumption admits, and the bounds on failures and messages are constants like the others.

In all modules an action is what a task does between two points at which another task,
process or failure can act: an `.await`, a transaction, a file operation, a line of a
script. A constant `MaxFaults` (`MaxInstallFaults` in `AgentInstall`) bounds failing steps
and crashes, which may strike at any step. History variables, marked as such, are read by
no action.

A property that the code does not have in all circumstances is weakened by a history
variable to the circumstances in which it holds; each such exclusion is listed under
*Limits* in its section. Thirteen configurations are not part of the regular runs: TLC ends
them with a counterexample, which is the evidence for a limit.

| counterexample | shows |
|---|---|
| `ResultStore_atleastonce.cfg` | the flusher's remove-by-key drops a newer result of the same key (`result_outbox_run_manager.rs:76`) |
| `ResultStore_notstarted.cfg` | after a failing `journal_mark_started` recovery reports a script that ran as not executed (`execution_listener.rs:199`) |
| `ToolLifecycle_oneop.cfg` | an update takes no lock and overlaps an install (`tool_agent_update_service.rs:115`) |
| `ToolLifecycle_second.cfg` | uninstall then install within a supervisor's sleep leaves two supervisors (`tool_run_manager.rs:620`) |
| `ToolLifecycle_recovers.cfg` | a restart cut after `try_mark_running` leaves the tool marked; the next restart reports success and starts nothing (`tool_restart_service.rs:72`) |
| `ClientUpdate_unread.cfg` | while the anchor cannot be read an update to any version is accepted, and the anchor then falls to it (`openframe_client_update_service.rs:108`) |
| `ClientUpdate_standsdown.cfg` | the updater script takes a missing state file for an uninstalled agent (`update_scripts/macos.rs:65`), though the agent itself had cleared it |
| `ToolUpdate_marked.cfg` | a service that a reinstallation marked for deletion before it was cut short disappears under a later update (`system_service.rs:664`) |
| `ToolUpdate_hangs.cfg` | an update blocks for ever in a query of the SCM that has no time limit (`system_service.rs:559`, `tool_updater/service.rs:180`) |
| `AgentInstall_bare.cfg` | an installation that reports success may end without its binary: on macOS run from the installed binary, on Windows overtaken by the script of the removal it replaced (`service.rs:347`, `:247`) |
| `ToolConnections_unannounced.cfg` | an install that fails to run the tool once its record is saved is never published: its redelivery finds the tool installed (`tool_installation_service.rs:549`) |
| `ToolConnections_nudge.cfg` | an install that meets a loop between its last look at the registry and the removal of its mark is never published (`tool_connection_processing_manager.rs:130`) |
| `ChatBridge_lost.cfg` | a chunk whose `channel.send` fails, that cannot be read, or that was published between the tails of two creating tasks is never delivered (`dialogs.rs:282`, `:239`, `:117`) |

The `ResultStore` and `ToolLifecycle` ones run with `MCResultStore` and `MCToolLifecycle`,
the others with the module they are named after.

## Durable script results

`ResultDelivery` states the promise: an accepted script is owed an answer, the debt is
discharged only once an answer went out, or the entry is declared shed (capacity,
quarantined file). `ResultStore` is the code, `MCResultStore` its small instances,
`ResultStoreProofs` the theorems.

*State.* `journal`, `outbox`, `created` are the redb tables; every redb transaction is
one action. `task` is one handler per message (`run_unbounded`), with the batch and the
index of its loop; `flusher` is the loop of `ResultOutboxRunManager` with the keys it
has read, the key and the bytes in hand. `phase` and `enabled` are start-up and whether
the store could be opened. `accepted`, `delivered`, `persisted`, `shed`, `runs`,
`begun` and `unpruned` are history; no action reads them.

*Actions.* `Deliver` .. `PublishDirectly` are `handle_message` and `handle_durable` call
by call, each `...Fails` the `Err` branch of the call of the same name. `Flush...` is the
flusher: the key is loaded, published (or the publish times out, with the bytes possibly
delivered), then removed by key. `Crash` loses all tasks and keeps the tables; `Open`,
`OpenDegraded`, `RecoverEntry`, `RecoverPrune`, `StartListening` are start-up.

*Abstracted.* A result is its kind and the number of the run it is of; subjects, texts
and the truncation of oversized payloads are left out, and so is the skip of an entry
that cannot be decoded. `Oversized` names the keys whose ids alone exceed
`OUTBOX_MAX_PAYLOAD_BYTES`, so that truncation does not help: the flusher passes over
their results (`FlushSkip`). The order of equal timestamps in the prune is left open. Tasks
do not panic.

*Bounds.* Deliveries, crashes, failing calls and clock ticks are bounded by constants.
Two handlers and two batches suffice for every pairwise race of handlers, flusher and
recovery; a capacity of one makes the prune fire with two results; one batch names a
script twice, so that both requests share one key; a crash and a failing call at any
place cover each pair of neighbouring transactions, and the second failing call makes the
clean-up after a failed completion fail too. One key is oversized; `EventuallyAnswered` speaks
of the others, and also holds for both scripts of the batch when none is.

*Limits.* `HonestJournal` is about a mark that succeeds: a mark that fails is logged and the
script runs all the same (`ResultStore_notstarted.cfg`). `ExclusiveBatch` is about two running
copies of a batch; a copy that arrives when the results of the first wait in the outbox runs
again, as the code intends, and may replace them (`ResultStore_atleastonce.cfg`).

| run | shows |
|---|---|
| `results_crash` | type invariant, no accepted script forgotten, the outbox bound, refinement of `ResultDelivery`, with a crash and two failing calls at any step |
| `results_live` | every accepted script is answered or shed; a redelivered batch is worked on by one durable handler at a time; the journal never calls a begun script unstarted |

*Fairness* (`results_live` only). Handler and flusher steps are weakly fair: tokio polls
ready tasks. `FlushPublish` is strongly fair: the flusher retries on every tick, and a
broker that is reachable again and again accepts some attempt. Start-up is weakly fair:
the service manager restarts the agent. Failing database calls are excluded there: with
them a handler may fall back to a single best-effort publish, as intended by the code.

*Proofs* (`ResultStoreProofs`, for every set of batches, handlers and every bound).
`TypeCorrect` is the type invariant. `NothingForgotten` needs the strengthening
`DeliveryInv`: while the agent is down or recovering no handler and no flusher is at work
(`Quiet`); a key the flusher is about to remove was answered or is absent (`FlushSound`);
a key a handler is about to unjournal was answered (`UnjournalSound`). The same invariant
gives `ImplementsResultDelivery`, one abstract step or stutter per action.
`OneHandlerPerBatch` assumes that the scripts of a batch have different ids
(`DistinctScripts`; with a repeated id the first completion clears the key of both, and
exclusion can fail) and rests on ownership: every script a handler has still to run
(`Remaining`) is in the journal and is in no other handler's remainder.

`MarkBeforeRun` (`HonestJournal`) makes the same assumption: with a repeated id a
redelivered batch may journal a key again whose script is about to start under the mark of
another handler. On top of ownership `HonestInv` says that a handler about to start a
script finds its mark in the journal. `OutboxBounded` (`OutboxBound`) is inductive once the
outbox is known to be finite (`BoundInv`): a completion adds at most one key and one prune
to come, every prune that is lost is counted, and the last prune leaves no more than the
capacity. The batches themselves may be infinitely many.

## Tool lifecycle

`ToolLifecycle` follows one managed tool through the agent, `MCToolLifecycle` holds its
small instances, `ToolLifecycleProofs` the theorems. The tool is a supervised (Standard)
one on Unix. Tools share only the `shutting_down` flag; everything else is kept per tool,
so one tool shows the protocol.

*State.* `running`, `updating`, `lock`, `shuttingDown` are the fields of `ToolRunManager`
for this tool; `record` is its entry in `installed_tools.json`, `binary` the version on
disk. `sup` holds one program counter per loop spawned by `run_tool`, `procs` the loops
whose child is alive, `orphan` a process that outlived an earlier agent. `op` is one
record per delivered message, with the stage it is at and what it read (`copy`, `backup`).
`runner` holds the two tasks that execute `run()`: start-up and the deactivation
supervisor. `promise` is history: what the last operation that did its work achieved.

*Actions.* Every `.await` at which another task can act separates two actions, except in a kill.

| actions | code |
|---|---|
| `SupTop`, `SupWait`, `SupCheck`, `SupArgsFail`, `SupLaunch`, `SupSpawn`, `SupReap`, `SupWake` | the loop in `ToolRunManager::run_tool` |
| `Begin`, `Lock`, `TryLock`, `MarkUpdating`, `ClearUpdating`, `End` | the frame every operation has: listener, lock (waited for by installs, tried by uninstall and restart, not taken by updates), `mark_updating`, `clear_updating`, acknowledgement |
| `Inspect` .. `RunTool` | `install_inner`; a reinstall also stops and removes the old tool |
| `UpdateRead` .. `UpdateFinalize` | `process_update`, `run_update`, `StandardUpdater` |
| `UninstallFind` .. `Unsupervise` | `uninstall_by_tool_agent_id`, then `clear_running_tool` |
| `RestartLookup`, `RestartStop`, `RestartTimeout` | `ToolRestartService`; the timeout may cut the restart at any stage, its `UpdatingGuard` lowers the flag |
| `RunRead` .. `RunSpawnFails` | `ToolRunManager::run`, started by `Boot` or `RestartAllClear` |
| `StopAll`, `StopAllClear`, `StopAllKill`, `RestartAll`, `RestartAllClear` | commands of the deactivation supervisor |
| `ProcessExit`, `Crash` | the environment |

A restart operation comes from the mesh self-heal: the call that would start the
restart-message listener is commented out in `lib.rs`.

*Abstracted.* A version stands for the binary and all that is downloaded with it. A kill
either succeeds or leaves some of the processes it was sent to alive (`KillFails`);
a failing download, asset, command, file operation, save or read of the registry is a `Fault`
at the stage it belongs to.

`ToolKillService` lists the processes and then awaits their ends one by one; `KillAll` is one
step that stands for the moment of the list. No reachable state is lost by that: a state
within the kill is reached without it, since any process may exit by itself (`ProcessExit`),
and a state after it by killing early, since what other tasks do in between (spawn a process,
which is on no list and survives in both; reap a dead one; work on other fields) does not depend
on whether the listed processes are dead already or the operation has moved on.

The bounds on tasks are also a bound on overlap: with `Sups` all taken no further loop
is spawned.

*Bounds.* Two operations overlap, and a third follows in the lock run; two supervisors
are the smallest number with which the tool can run twice. One crash, one failure
and one `stop_all` may happen at any step, which covers every pair of neighbouring
stages. Two versions tell an old binary from a new one.

| run | shows |
|---|---|
| `tools_locked` | operations other than updates exclude each other; what an acknowledged operation achieved still holds when the agent is quiet |
| `tools_one_supervisor` | without uninstall and `stop_all` there are never two processes of the tool, updates beside other operations included; the updating counter counts exactly the operations in flight, on every error path |
| `tools_live` | a tool that stays installed and is not stopped is launched again and again |

*Fairness* (`tools_live` only). Supervisors, operations, `run()` and the deactivation
commands under way are weakly fair: tokio polls ready tasks and every sleep ends. `Boot`
is weakly fair: the service manager restarts the agent. Messages, process exits, crashes
and `RestartAll` are not fair. That run has one operation task and no failing calls:
`ToolLifecycle_recovers.cfg` shows that a failure at the wrong place does end supervision.

*Proofs* (`ToolLifecycleProofs`, for all sets of tasks, supervisors and versions, and
every bound).

- `ToolTypeCorrect`: `TypeOK`, with the path every kind of operation takes (`OpShape`). No run
  checks it by itself; the proofs of the others rest on it.
- `FlagsAlwaysBalanced`: `FlagsBalanced` is inductive given `TypeOK`; the proof follows
  the set of operations in flight, which one step changes by at most one element.
- `LockedOperationsExclude`: `OneOperation`, assuming no update is sent. The
  strengthening `LockInv` says that every operation past its lock is the one the lock names.
- `OneProcessAlive`: `OneProcess`, assuming that neither uninstall nor `stop_all` occurs.
  `OneProcess` alone is not inductive: two loops may be about to spawn. `SoleInv` treats an
  operation at `run_tool`, a runner at `run_tool` and a live loop as claims to the single
  entry in `running_tools`: there is at most one claim, none while the entry is absent,
  and no loop beside a left-over process. Both assumptions exclude events that clear the entry
  while a loop may still live: `ToolLifecycle_second.cfg` shows it for uninstall, and
  `restart_all` after `stop_all` opens the same window.

- `PromisesKept`: `KeepsPromise`, assuming `UpdatesAlone`: if updates occur, the operations of
  the tool come one after another (an update takes no lock and may change the version under
  an install). Uninstalls, `stop_all` and `restart_all` are allowed. The invariant
  `PromiseInv` states the promise whenever every operation in progress is `Clean` (has neither
  failed, nor done its work, nor begun to change the disk), and for the others what they know
  of the disk at their stage (`Local`, and `UpdateLocal` for updates). A step that changes the
  disk is made under the lock, or by an update, by an operation that is no longer clean
  (`Decides`), so that the promise is either restated or withdrawn when it ends. An update
  whose last `set_state` fails is acknowledged without a promise; no older one is broken by
  that, because a record that needs a repair leaves none (`RepairIsFree`). The run
  `tools_locked` checks the property without updates.

*Limits.* `KeepsPromise` speaks of what was acknowledged: a crash in the middle of an operation
withdraws the promise until the redelivered message is done. A tool is taken as stopped by
its processes; `KillFails` needs one that survived.

`EventuallySupervised` is model-checked only.

## Replacing a tool's program

`ServiceControl` is `system_service.rs` on Windows, `ToolUpdate` what is built on it.
`ToolLifecycle` knows that an update stops, replaces and records a tool; here is how.

*State.* `svc`, `marked`, `wedged`, `recover` are what the service control manager (SCM)
knows of the tool's service, `late` counts the calls that timed out and were abandoned, `free` the permits
of the `TimedPermitPool`, `ctl` the procedure under way. `exec`, `old`, `backup` are the
program, the one moved aside because a process held it, and the copy kept for the
rollback; `run` the process from each place. `kind` .. `assetVersion` are the registry's
record, `op` the operation and its step, `left` the deliveries each message has left.

*Actions.* `StopCall` .. `DeleteWait` are `stop_service`, `force_stop_service_windows`,
`delete_service_windows`; `StartCall` .. `AttemptFails` are `start_service`. Each SCM call
`Answers`, `TimesOut` (it keeps its permit and may still take effect, `LateReturns`), or
gets `NoPermit`. A deletion only marks the service: the SCM removes it once it is stopped
(`MarkTakesEffect`), be the call that marked it waited for, abandoned or long forgotten. Two
queries of the update path go round the permit pool and may never return (`Hangs`).
`ReceiveUpdate` .. `EndOperation` are `process_update` and `run_update`
with the updaters for programs, services and applications, the migration between them and
the older update without a download configuration; `BeginReinstall` .. `EnterTool` the part
of `install_inner` that touches program and service.

*Abstracted.* A file is a version, absent, or torn. One tool, one operation at a time.
Retries inside a download are one success or failure; rounds of polling are one wait.

*Bounds.* Two permits and two rounds let the pool run dry in the middle of a stop; three
faults do it and leave one for a file operation, or wedge a service, mark it and cut the
reinstallation short; two deliveries let a failed update be
tried again; two versions tell old from new.

| run | shows |
|---|---|
| `tool_update` | a complete program is left (`BinarySurvives`), the record never names a version that is not the one in place and running (`HonestRecord`), the service disappears only after a reinstallation has called for its deletion (`ServiceNotLost`), every operation ends unless it hangs in a query without a time limit (`OperationEnds`) |

*Fairness.* Operations and SCM procedures go on, because every wait in them has a time
limit, except in the step `hung`, which only the end of the agent leaves; a service told to stop ends unless it is wedged; a user logs in one day (the
application's `finalize` waits for a console user). Abandoned calls need not return, and a
mark for deletion need not take effect.

*Limits.* A crash while the program is written, or restored from its backup, leaves it torn,
and the next attempt's `backup_binary` then overwrites the good backup with it; a rollback
whose copy fails half-way leaves it torn beside its backup, which nothing copies back; a
service marked for deletion by a reinstallation that failed vanishes as soon as it is
stopped, in a later update if need be, and a deletion that timed out may mark the service
that was registered since; an update whose unlimited query of the SCM never returns is never
over and holds back no lock, but its message is not acknowledged; an abandoned stop may take effect
after the service was started again; a reinstallation interrupted after it deleted the
service is not repaired by update messages; an application whose update failed is gone
until it is retried; while an old process survives, the message is acknowledged and the old
version stays recorded.

*Proofs* (`ToolUpdateProofs`, for any versions, permits, rounds, deliveries and faults).

- `ToolUpdateTypeCorrect`: `TypeOK`. Part of it is that permits and abandoned calls add up
  to the size of the pool, whatever order the calls return in.
- `ProgramSurvives`: `BinarySurvives`. `Whole` adds that during the steps between the
  backup and the end of the rollback the backup is complete, `Written` what the program file
  is at each step of an operation.
- `RecordAlwaysHonest`: `HonestRecord`. `InUse` says that a process runs the version of the
  file it was started from and keeps the file moved aside in its place; with `Written` the
  version about to be recorded is in place and the file aside is gone.
- `ServiceNeverLost`: `ServiceNotLost`. `Allowed`: the procedure deletes a service only for
  the caller that allows it, and that is a reinstallation. `Condemned`: a mark, or an
  abandoned call that may still set one, is left by a reinstallation since the service was
  registered.

The last two need `Consistent`: what the message, the record and the SCM have to do with one
another (an application has no service; a procedure is under way only at a step that waits
for one).

## The session with the gateway

`Deactivation` is `deactivation_service.rs` with its supervisor and the two calls of the
tool manager it makes; `GatewaySession` composes it with the tasks that talk to the gateway.

*State.* `phase`, `consecutive`, `goneSince`, `backoff`, `triggered` are the service's
locked state, `marker` its file, `commands` the queue to the supervisor, `due` the callers
between the two critical sections of `record_gone`. `shuttingDown` and `supervised` stand
for the tools. `gateway` is what the gateway answers at present, `call` and `wire` the call
and the pending reply of each caller: "loop" (initial authentication, then the refresh
loop) and "nats" (the reauthentication callback). `hasToken`, `configBy` and `agree` are
the two token files.

*Actions.* `Answer` draws a reply, `HandleReply` records its status and goes on, so replies
of the two callers may cross. `SaveConfig`, `SaveShared` write the token; `AuthAttempt`,
`RefreshGo`, `NatsReauth` start calls, gated as in the code; `Supervisor` takes commands
from the queue; `Tick` and `ClockJumps` are the clocks, `Crash` and `Boot` a restart.

*Abstracted.* Timestamps are ages counted up to the limit they are compared with. A token
is known by the caller that got it. The tools are one flag pair: `ToolLifecycle` has the rest.

*Bounds.* `StopAfter` is three for the code's five, which leaves room for a reply of another
kind before, between and after the counted ones; a deadline of two ticks and a grace of one let
a restart fall on either side of both; two turns of the gateway allow gone-and-back and
back-and-gone; one fault at any step.

| run | shows |
|---|---|
| `session` | an uninstall is founded (`FoundedUninstall`), the tools follow the suspension (`ToolsFollowPhase`), a gateway that stays healthy brings the agent back to work with both token files alike (`Recovers`), one that stays gone ends it (`GoneForGood`) |

*Fairness.* Time passes, requests are answered or time out (`REAUTH_TIMEOUT`), tokio polls
ready tasks, and the service manager restarts the agent.

*Limits.* A 2xx between the decision and `request_uninstall` is not heeded, so
`NeverWipesRestored` does not hold (`deactivation_service.rs:206`); once triggered, the
uninstall silences every later status; a restart of the tools that cannot read the registry
leaves them unsupervised; each failed reauthentication counts two 410s (refresh token, then
credentials); the initial authentication is not gated; a crash between the two token writes
leaves `shared_token.enc` behind until the next refresh. A clock set forward, or a marker
that could not be removed, shortens the wait.

*Proofs* (`GatewaySessionProofs`, for all limits and any number of replies, faults, restarts
and turns of the gateway). Of every step only what it does to the deactivation service matters;
`StepsOf` sorts the actions of `GatewaySession` by that.

- `SuspensionTypeCorrect`: `TypeOK` of `Deactivation`.
- `ToolsAlwaysFollow`: `ToolsFollowPhase` is inductive. A command is appended in the critical
  section that changes the phase, so it is the last order of the queue (`FollowsAppend`);
  taking the first one either leaves a later order or moves it into the flag (`FollowsTail`).
- `UninstallFounded`: `FoundedUninstall` rests on `Grounds`, which ties the limits together:
  a suspended agent has counted `StopAfter` 410s in this process, the marker is the age the
  service holds, and that age is no more than the time for which every answer was 410.

## Installing, registering and removing the agent

`AgentInstall` covers Windows and macOS, one per behaviour.

*State.* What the disk and the service manager hold (`service`, `binary`, `onPath`,
`config`, `agentConfig`, `record`), the agent process, the installer, the remover (the
installer's child or the detached self-uninstall), the clean-up script that deletes the
Windows binary later, and the backend (`issued`, `refused`). `inPlace` says that the
installer runs from the installed binary.

*Actions.* `StartInstall` .. `InstallService` are `Service::install`; `StartRemoval` ..
`RemoveBinary` the removal; `ScriptDeletes`, `ScriptPath` the script; `AgentBoots` ..
`FetchInitialKey` start-up and registration; `SecretRefused` the backend.

*Abstracted.* A machine with its secret is a number; a configuration is absent, without
key, complete or corrupt. Removing directories is one step, which may fail part way. One
removal and one installation run at a time, side by side if need be.

*Bounds.* Two installations are what it takes to replace one; three machines allow two
changes of identity; three faults combine an unreadable record with a refused secret and a
crash.

| run | shows |
|---|---|
| `agent_install` | the device keeps its machine (`IdentityKept`), a successful installation is not undone (`InstallStands`), an installed agent with a usable configuration registers (`Registers`) |

*Fairness.* Processes run on, the script ends, the service manager restarts the agent and
the backend answers in the end. Nobody has to install or remove.

*Limits.* `BinaryStays` does not hold (`AgentInstall_bare.cfg`), and `InstallStands` names
the two cases. The installer waits three seconds and the script may take a minute, so it may
delete the new binary (`service.rs:247`). An installer run from the installed binary copies
nothing (`service.rs:347`), and on macOS its own child has deleted that binary before
(`uninstall.rs:486`); launchd accepts the start all the same. A removal that is not the
installer's child withdraws the promise when it runs beside an installation (`beside`), as
one that begins later does. A configuration a crash left half written keeps the agent from
starting (`initial_configuration_service.rs:93`); `Registers` is about a usable one. An agent
older than the machine record loses its identity in a plain uninstall.

*Proofs* (in `GatewaySessionProofs`, which extends both modules; they share no variable).
They hold for both platforms, any machines, installations and faults.

- `InstallTypeCorrect`: `InstallTypeOK`, with `Resumable` (an agent that registers its machine again
  has it from the record).
- `InstallationStands`: `InstallStands`. `Standing`: while an installation stands no remover
  is at work, a clean-up script that is still to delete the binary is a late one, and a binary
  that is missing is one of the two exceptions; before that, an installer past the removal has
  no child left, and a remover that is not its child has set `beside`.
- `MachineKept`: `IdentityKept`. `Recorded`: the first machine of the device is in the record,
  or the record is still to be written from `agent_config.json` and then nothing that wipes
  the directories has begun; and what the steps of a registration have read still holds.

## Agent self-update

`ClientUpdate` follows the agent, its files and the updater script.

*State.* `exe`, `prev`, `lkg` are the versions in the executable, the copy of before the
swap and the reserve; `anchor`, `marker`, `file` are `last_known_good.json`, the boot marker
and `update_state.json`; `loaded` the service manager; `pc`, `version`, `held` the process;
`script`, `copy` the script and what it read of the state file; `queue` the messages.

*Actions.* `Boot` .. `ResolveUpdate` are the start of the agent up to the resolution of a
pending update, `ReceiveUpdate` .. `AcknowledgeUpdate` a message, `Script...`, `Stamp...`,
`Fail...`, `Restore...` the script, whose lines the Windows and macOS forms share.

*Abstracted.* A version either starts and connects, never reaches its boot marker
(`Broken`) or reaches it and never connects (`Flaky`). Phases nothing tells apart are one.
The agent replaces its files by renaming. The scripts copy over the executable (`cp`,
`Copy-Item`): a copy that is not complete, failed or was cut short cannot start, and `exe` is
then `None` as when there is no file. A failing read or write of the state file, the anchor
or the reserve ends the operation it belongs to, as in the code.

*Bounds.* A version that cannot start lies between two good ones; two messages and two
faults; the crash-loop guard is at one boot, the smallest with which it both counts and fires.

| run | shows |
|---|---|
| `client_update` | a rollback never restores a binary that cannot start (`ReserveStarted`), one that can is always on disk (`Recoverable`), the anchor falls only to a version that no anchor was there, or could be read, to refuse (`AnchorNeverFalls`), and if the scripts run to their end a version that starts comes up again (`ComesBack`) |

*Fairness.* Process and script run when they can; a version that cannot live crashes.

*Limits.* `ComesBack` leaves out a script that was killed, lost its power or stood down:
power lost inside the swap leaves no executable in place, and a state file the agent itself
has cleared makes the script stand down (`ClientUpdate_standsdown.cfg`); a second message
may overwrite the state file while the script runs. A `Flaky` version is never rolled back,
because `record_boot_attempt` does not count boots of the target version; the run has none.
While there is no anchor nothing is refused (`openframe_client_update_service.rs:105`), and
`seed_if_missing` may write the anchor while an update to a lower version is under way; that
update then lowers it (`update_handler_service.rs:142`). The history variable `unguarded`
records these versions and `AnchorNeverFalls` excludes them. An anchor that cannot be read or
parsed counts as none: it refuses nothing (`openframe_client_update_service.rs:106`,
`ClientUpdate_unread.cfg`), and
`seed_if_missing` writes the running version over it (`last_known_good_service.rs:95`), also
when that version is a lower one or an update to a lower one is under way. These versions are
`unguarded` too.

*Proofs* (`ClientUpdateProofs`, for any versions, whichever cannot start or connect, and any
number of updates, faults, crashes and losses of power).

- `UpdateTypeCorrect`: `TypeOK`, with `Shape` (a phase is stamped only on a state that was
  read, an update under way has a target).
- `ReserveAlwaysStarted` and `AlwaysRecoverable`: `ReserveStarted` and `Recoverable` follow
  from `Binaries`, which follows the script: past its check it moves aside a binary that
  reached its boot marker, and until it has started the service again no agent runs that
  could copy the new one into the reserve.
- `AnchorFallsUnguardedOnly`: `AnchorNeverFalls`. The state file may come to name a version
  that a later update has overtaken, because the script stamps a phase on what it read
  before. `Overtaken` says that no binary of such a version is left that could run and be
  promoted; `Held` says why: when the anchor rises while the script is about to stamp
  an older state, the agent has started anew since then, from the binary in place, which is
  also the reserve.

## Client update gate

`UpdateGate` follows tool messages and one client update through JetStream, the listeners
and the pending flag, in ticks of a minute.

*State.* `sent` is JetStream's view of each message, `age` the age of the flag, `parked`,
`wake`, `gated` and `ops` the handlers in front of the gate, past it and at work, `client`
the step of `process_update`, `script` the updater under way.

A fault is a lost stream, a failing `Progress` or final ack, a failing download or launch, or a
script that ends with the old version running again; each leaves the message to its redelivery.

*Bounds.* The limits keep the order of the code's constants (progress interval below the
ack wait, that below the flag's limit); one tool message suffices because tools do not share
a lock; three deliveries and two faults.

| run | shows |
|---|---|
| `update_gate` | no tool message passes the gate between the launch of the updater and the stop of the service (`GateHoldsUntilStop`) or while a deferred update is to come again (`GateSurvivesDeferral`), a parked message is not delivered twice (`OneParkedCopy`), parking ends (`ToolMessagesSettle`) |

*Fairness.* Time passes, consumers are provisioned, tasks run. Streams need not break.

*Limits.* `GateHoldsUntilStop` is about messages that reach the gate; an operation that passed
it earlier and begins after the check at the launch is not kept out by the code. A message
for the running version, or one below the anchor, clears the flag while
another update is under way; a client stream that was lost stops the redelivery the flag
waits for. Both are excluded by `excused`.

*Proofs* (`UpdateGateProofs`, for any tools, deliveries and faults, and any times in the
order of `GateAssumption`: progress before the ack wait, the ack wait and the stop of the
service before the limit of the flag).

- `GateTypeCorrect`: `TypeOK`.
- `OneCopyParked`: `OneParkedCopy`. `Parking`: the timer of a parked message runs longer
  than its handler sleeps.
- `GateHolds`: `GateHoldsUntilStop`. `Stopping`: the flag's age and the time left to the
  updater add up to at most `StopWithin`.
- `DeferralHolds`: `GateSurvivesDeferral`. `PutOff` and `Handled`: the age of the flag and the
  timer of the deferred message add up to at most `AckWait`, its stream is open, and it is
  settled only once the updater runs.

## Connection ids and mesh self-heal

`ToolConnections` is the loop that publishes the id a tool got from its own server, and the
operations on the tool; `MeshSelfHeal` adds the watcher of the meshcentral agent, which
shares the tool's flag and lock with them.

*State.* `marked`, `wake`, `permit`, `loop`, `ending` are the manager's entries for the tool
and its loop, `published` what the backend was told. `agent`, `msh`, `log`, `tail` are the
external agent, `watch`, `stuck`, `quiet`, `cool` the watcher and its timers, in polls; `mute`
is how long the agent itself has been quiet. `suspended` is the flag of the deactivation
service, `commands` and `stopped` what the tools have been told of it.

*Abstracted.* An id is current or old; a log line is a marker of health, of failure, or
other; the `.msh` is good, outdated or without a server. The tool has a `tool_type` (without
one `run` and `run_new_tool` pass over it). A scan for the `.msh` that fails puts the decision
off by a poll and is left out.

*Bounds.* Two operations make an install meet the loop of an earlier one; one fault; two log
lines between polls, so that a connect and a failure come in either order in one batch; limits
of one and two polls keep the order of the code's durations. A suspension counts as an
operation and as a fault; counted as an operation alone, so that a fault may follow it, the
model has 1.9 million states, in which the same properties hold.

| run | shows |
|---|---|
| `mesh_and_connections` | a running loop can always be woken (`LoopReachable`), never rests on the id of a replaced tool (`NoStaleRest`), the id is published in the end (`Publishes`); a healthy agent is not healed (`HealthyLeftAlone`), a sick one recovers (`MeshRecovers`) |

*Fairness.* The tasks run and every wait of theirs has a limit; an agent that starts comes
to connect or to fail, a healthy one logs; operations and suspensions end, and the commands
of a suspension are taken.

*Of the agent, which is external,* the model assumes what the watcher's constants assume: it
logs, or comes to connect, before it has been mute for `SILENCE_DURATION` (`Speaks`), and with
a `.msh` that is the server's it fails only by a fault.

*Limits.* `Publishes` leaves out a tool that has no loop while nothing is left to start one
(`missed`): an install that met a loop that had left (`ToolConnections_nudge.cfg`), one that
failed between the saved record and its call (`ToolConnections_unannounced.cfg`), a start of
the agent that could not list the tools. `HealthyLeftAlone` leaves out a log that could not be
read and one that lost the connect to a rotation before it was read: both may bring a healthy
agent down. After a suspension longer than `SILENCE_DURATION` the first poll heals an agent
that has just been started and has logged nothing; the model has that heal, and the agent
recovers from it. The directory an uninstall removed before it failed leaves a record that no
heal can start (`remains`), which `MeshRecovers` leaves to the redelivered uninstall or a
repairing install. A supervised agent whose restart ran into its time limit can stay marked
without a supervisor, as in the limits of `ToolLifecycle`; the agent is taken here as one that a
successful restart starts. A torn `tool_connections.json` makes every save fail and the loop publish every
15 seconds; an uninstall leaves the connection's entry. The stuck timer runs on through a
suspension; an unreadable log may lead to a heal of a healthy agent; a restart of the agent
forgets the cool-down.

*Proofs* (`MeshSelfHealProofs`, for any number of operations, faults and lines between two
polls, and all durations of the watcher in the order of `MeshAssumption`).

- `MeshTypeCorrect`: `TypeOK`, with `HealHoldsLock` (the watcher restarts the tool exactly
  while it holds the tool's lock).
- `LoopAlwaysReachable`: `LoopReachable`. `Single`: a loop that left removes its handle
  before its mark, so no successor starts until both are gone.
- `NeverRestsOnStaleId`: `NoStaleRest`. `Fresh` follows the id through the loop: unless there
  is a permit to wake it, or an install that has still to announce itself, what it has
  resolved and what it has published are current.

- `HealthyIsLeftAlone`: `HealthyLeftAlone`. `UpSeen`: an agent that is up, and whose log shows
  its connect, logged that connect last, so either it is still to be read, and every failure to
  be read comes before it, or it has been read and no failure is held against the agent; and
  when nothing is left to be read, the silence held against it is no longer than its own. With
  the tail and the age of the log that seed the timers at a start, no timer comes due beside it. What a batch of
  lines does to the timers (`Sees`) is stated by its last connect and last failure, not line
  by line, so that no induction over the lines is needed.

## Chat bridge

`ChunkStream` states the promise: a subscription is one run of consecutive chunks, each given
once and in its turn, which begins behind the replay point the page named or, when it named
none, behind the tail the stream has once the bridge has asked for it; a chunk the bridge
passes over is declared `missed`. `ChatBridge` is the bridge for one dialog, with the page that opens it, and refines `ChunkStream`
(`ConsecutiveRun`); a run ends where `mixed` becomes true.

*State.* `dialog` is the dialog's entry (replay point, last delivered number, task,
generation), `creators` the tasks inside `recreate_dialog_consumer`, `routers` those inside
`dialog_router`, `channel` the page's registered channel, `page` the WebView and its queue of
commands. `got`, `base`, `lost`, `mixed`, `gaveUp` are history.

*Actions.* `Connected` and `Disconnected` are the connection's events; `subscribe_dialog`,
`unsubscribe_dialog`, `resubscribe_all_dialogs`, `recreate_dialog_consumer`, `get_stream`,
`create_and_store_consumer` follow the functions of these names: `get_stream` is the three
requests, `create_and_store_consumer` the lock, which does not need the connection any more.
`Take`, `Skip`, `Deliver`, `Leave` are the router; a send may fail, after the number was kept.
An aborted task dies at its next await, not at once.

*Abstracted.* A chunk is its number in the stream. Back-offs are waits of any length; five
attempts are one.

*Bounds.* Two subscriptions, chunks, creating tasks and routers: what it takes for one to
overtake another; one lost connection, failing request or send, unreadable chunk, broken
stream or reload.

| run | shows |
|---|---|
| `chat_bridge` | what the page gets of a subscription is one consecutive run (`ConsecutiveRun`); chunks reach the page once and in order (`InOrder`), between the resume point and the last number the bridge kept every one was given or is in `lost` (`NoGap`), an open dialog gets a live consumer that catches up (`Served`) |

*Fairness.* The connector dials until it is connected, and some task that can run does.

*Limits.* `lost` names the chunks the bridge never delivers: the number is kept before the
send, and a failing send is only logged (`dialogs.rs:266`, `:282`); an unreadable chunk is
passed over (`:232`, `:239`); of two creating tasks that both start at the tail, the second
starts behind what was published in between (`:117`, `:171`). `ChatBridge_lost.cfg` is the
counterexample to the stronger `NoChunkLost`. Excluded by `mixed`: a task that read an earlier
subscription of the same dialog and stores into the new one; a page that reloads while the
consumer lives, which is not rewound; a chunk sent on a channel that was replaced meanwhile.
Excluded by `gaveUp`: the last of the attempts failed, or no client appeared in fifty polls.

*Proofs* (`ChatBridgeProofs`, for any number of chunks, subscriptions, creating tasks, routers,
attempts and failures).

- `ChatTypeCorrect`: the types of what the resume points depend on (`TypeOK` of the proof module).
- `NothingSkipped`: `NoGap`. Tasks and routers of earlier subscriptions are told apart by
  their entry (`Entries`). Of the present one, a creating task resumes no later than at the
  chunk after the last one given or passed over, also with a resume point it read before an
  await (`CreatorOK`), and a router is no further (`RouterOK`); `Given` is `NoGap` itself. `Origin`
  ties the replay point of the dialog to the one the page asked for.
- `ChunksInOrder`: `InOrder`. `Newest`: the last number the bridge kept is at least every
  chunk the page has, and one of them is the newest.
- `OneConsecutiveRun`: `ConsecutiveRun`, one abstract step or stutter per action
  (`StepOfTheRun`). Besides the two above it needs the other direction, `Above`: nothing at or
  below the beginning of the run was given, or can be: what a router holds or a task asks for
  lies behind it, or the last number does, below which nothing is given. Until
  the run has a beginning nothing was given and nothing is asked for (`NoBase`).

## What is proved, and what the provers leave to TLC

Every safety invariant, action property and refinement of the runs is a theorem. Theorems
with an assumption beyond those of the module are `OneHandlerPerBatch` and `MarkBeforeRun`
(`DistinctScripts`), `LockedOperationsExclude` (no update is sent), `PromisesKept`
(`UpdatesAlone`) and `OneProcessAlive` (neither uninstall nor `stop_all` occurs); each section
says what the code does without it, and the run that checks the same property has the same
restriction, or a stronger one, in its constants.

What stays with TLC is liveness under fairness, which the provers do not reach:
`EventuallyAnswered`, `EventuallySupervised`, `OperationEnds`, `Recovers`, `GoneForGood`,
`Registers`, `ComesBack`, `ToolMessagesSettle`, `Publishes`, `MeshRecovers` and `Served`.

No module that has a theorem uses a `RECURSIVE` operator.

What the attempts at a proof changed in the models: `AnchorNeverFalls` was false beyond the
bounds of its run and got its exception; several actions with overlapping `CASE` arms, of
which TLC takes the first and the semantics of TLA+ any one, now say which one it is
(`KillForUpdate`, `Download` and `FillBinary` of `ToolUpdate`, `Finish` of `GatewaySession`,
`ReadRecord` and `RegisterAgain` of `AgentInstall`); `ControlTypeOK` bounds the permits;
`GateAssumption` keeps the client's update apart from the tool messages; `LastOrder` of
`Deactivation` is stated with quantifiers over the queue, `Sees` of `MeshSelfHeal` with
quantifiers over the lines where it was a fold.

## What is not modelled

- The chat's notifications, click stash and token watcher, and its front end (React state
  over the chunks the bridge delivers).
- Log rotation and shipping: best effort, nothing else reads their state.
- The script executor, archives, paths and permissions: calls of the operating system. Their
  outcomes appear as results or faults of the actions that use them.
- Of the tool lifecycle: `uninstall_all` of the command line, session handling of GUI
  applications. Of the self-update: clean-up of temporary files, transcripts, the reported
  status, two scripts at once on Windows; Linux has no launcher.
- Diagnostics (read only), heartbeats (one stateless message), the Spring Boot mains over
  libraries kept elsewhere, the manifests.

## Plan

1. `UpdateGate`: an abstract gate that is shut from the launch of the updater to the stop of
   the service, and the refinement, which `Stopping` and `PutOff` already carry.
2. `ToolLifecycle`: how far `KeepsPromise` holds for an update that ends beside an operation
   that has not begun to change the disk; `OneProcess` with a `stop_all` whose supervisors have
   all left before `restart_all`.
3. `ToolLifecycle` for several tools at once, which share the `shutting_down` flag.
