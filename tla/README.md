# Verification of distributed-workbench

TLA+ models of the parts of distributed-workbench that decide who may change
what and when, TLC configurations that check them on small instances, and TLAPS
proofs for every size. Paths below are relative to the repository; `runtime` is
`crates/workbench-runtime/src`, `core` is `crates/workbench-core/src`.

- `tlc -workers 2 -config <Run>.cfg <Module>` runs a configuration; which module
  goes with which is in `PROJECT.json`, "runs".
- `tlapm <Module>.tla` checks the proofs of a module: `DesktopQueueProofs`,
  `ResourceArbiterProofs`, `DriverHandoffProofs`, `ExecutorWorkProofs`,
  `ControllerWorkProofs`, `PeersProofs`, `ReadGrantsProofs`, `SharedRecordsProofs`.

## The system

A **Controller** owns durable orchestration state: sessions, driver leases,
tasks, approvals, generations. **Executors** run on each node and carry out
file, process and GUI operations. Agents talk to a Controller by RPC, the
Controller to Executors by RPC over local sockets, TCP or SSH; every request is
served by a thread of its own. State is shared under mutexes, and each process
writes it as one JSON snapshot that replaces the file atomically.

| Component | Source | State | Operations | What is hard |
|---|---|---|---|---|
| Desktop queue | `runtime/desktop.rs`, gate and reaper in `runtime/executor.rs`, `runtime/computer_use.rs` | FIFO of jobs, epoch, in-flight and quarantine flags, maintenance owner, the host process | submit, get, renew, finish, cancel, maintenance, recover, begin/end of an action, reap | threads between check and use, crash in an action, failing saves, expiry without a request |
| Resource leases and locks | `runtime/resource.rs`, `core/lease.rs` | lease table, fences, active and quarantined resources | acquire, renew, validate, release, recover, begin, drop of a Permit | expiry under a running operation, crash, failing saves |
| Driver leases and handoff | `runtime/controller.rs`, `core/lease.rs` | lease and fence of each workspace, handoff requests, reported mutations | `driver.*`, `agent.mutation.*` | drain against new work, expiry, restart |
| Capability invocation and tasks | `runtime/controller.rs`, `core/task.rs` | tasks by idempotency key, workers | `capability.invoke`, `task.*` | no gate: checks are stale when used, late answers, cancellation |
| Executor fences | `runtime/executor.rs` (`enforce_authority`) | highest accepted fence per resource | admit or refuse a request | delayed requests, crash |
| Execution pools | `runtime/executor.rs` (`ExecutionCapacity`) | slots per class | acquire, release | leaked slots |
| Approvals | `runtime/controller.rs` | single-use permissions for dangerous commands | request, decide, consume, expire | double use, lost save, restart |
| Read grants | `runtime/controller.rs`, `executor.rs` | the same grant in two processes | request, approve, revoke, find, read, archive the session | overlapping and late decisions, copies that come back |
| Peer connections | `runtime/peer.rs`, `rpc.rs`, `transport.rs` | attempts, generations, socket leases, pending calls | connect, accept, handshake, call, reconnect | each side notices a break by itself |
| Processes and tunnels | `runtime/process.rs`, `executor.rs` | process records, readiness, desired state | start, stop, restart, ensure, reconcile, wait | pids that are used again, restart, check before lock |
| Artifact relay | `runtime/controller.rs`, `executor.rs` | staging, destination, backup | digest, chunks, commit | source that changes, given-up calls, crash between renames |
| Generations and transactions | `runtime/generation.rs`, `executor.rs`, `controller.rs` | generation trees and markers, `current` and `previous`, journal | materialize, apply, record, activate | late calls, crash between two renames |
| Observability and dashboard | `core/observability.rs`, `runtime/controller.rs`, `workbench-cli` | events per Controller, cursors, replay buffer | append, query, prune, poll, stream | nodes that fail or restart between pages |
| Sessions and work handoffs | `runtime/controller.rs` | sessions, agents, ports | put, transition, handoff records | archiving while grants are decided |
| Updater and rollout | `updater/*.go` | installed releases, rollout stage | install, activate, roll back | crash, partial rollout |

Native providers, clipboard, file capabilities, the command line, the web
interface and packaging are I/O and presentation and are left out;
`PROJECT.json`, "components", lists them with reasons. The desktop queue and the
resource locks run inside the Executor: `desktop_dispatch` and
`resource_dispatch` wrap every request. The Controller's driver lease reaches the
Executor as the fence inside a request. Resource leases and driver leases share
the table of `core/lease.rs`; relay, tunnels and activation use the resource
leases of `ResourceArbiter` for their own resources.

## Modules

### DesktopQueue

One Executor's desktop. `queue` is the `DesktopQueue` in memory and `disk` the
contents of `desktop-queue.json`; `save()` may fail, and then the handler
returns the error and leaves its changes in memory. `pc` and `req` say where
each RPC thread is in `desktop_dispatch`: it reconciles (`Arrive`), runs a
command (`Command`, one disjunct per action of `command()`) or begins an action
(`Begin`), acts (`Act`, `StartFails`, `Refused`), ends it (`EndCertain`,
`EndUncertain`) and reconciles again (`Post`). What a thread does under the
queue mutex is one step. `Reaper` is the once-a-second thread, `Lapse` the
passing of a session's `expires_at`, `Restart` a crash followed by `open()`.
`host` is the session for which the computer-use host runs; a bare discovery call
may start one for any session it names (`NamedHosts`). `touched`, `doubt`,
`lastEpoch`, `lastActor` and `acked` are history for the properties.

### ResourceArbiter

`Resources` of one Executor. `Acquire`, `Renew`, `Validate`, `Release`, `Recover`
and `Read` are `command()`; `Begin` is `begin()` for a set of resources with the
grants presented, `End` the drop of the Permit; the operation runs in between,
outside the mutex. `disk` is `executor-resources.json`. A token is a number that
is never issued twice and stands for its owner as well. `given`, `dead` and
`uncertain` are history.

### DriverHandoff

One workspace session: the driver lease and its handoff requests in the
Controller, the calls of its drivers, their tasks, and the Executor's fence for
the workspace. Actions that hold the session gate (`requires_session_gate`) are
one step each. `capability.invoke` does not hold it, so its critical sections are
steps: `Check` (draining), `Authorize` (lease), `Accept` (asynchronous calls; the
worker starts again at `Check`), `Submit`, `Run`, `Dispatch`, `Finish`. The
request travels on `wire`: it may arrive late, after its call has timed out, or
never. `task.cancel` is split where the code reads the task and later changes it.
The two processes share a clock that does not step back.

Each call has its own idempotency key; approvals, re-used keys, the capability's
own locks and the limit on workers are in `Invocations`.

### Invocations

`capability.invoke` from the side of its records. An invocation checks and
consumes an approval (`CheckApproval`), finds or makes the task of its key
(`Submit`, `Retry`), marks it running (`Run`), takes the capability's lock and
calls the Executor (`Dispatch`), receives an answer, a broken connection or a
timeout (`Receive`) and records it (`Record`); `Accept` is the asynchronous call,
whose worker holds a slot of `async_active`. Each critical section is a step, and
each `persist()` may fail. `disk` is the state file, `RestartController` a crash
followed by `open_with_id`. `working` is what the Executor really carries out.
`spent`, `revoked`, `pruned`, `uncancelled` and `restarted` are history.
`uncancelled` has the keys of tasks that `task.cancel` left as `FailedToCancel`:
`TaskTable::retry` takes such a task for one that has ended although its command
still runs, so `SingleFlight` leaves these keys out (see Findings).

`SingleFlight` is about `working`: while the Controller has an invocation of a key
in flight, the Executor carries out no other one of the key, except one that the
Controller has given up (broken connection, deadline) or lost in a restart. Beside
such a one a retry does run, in the code and in the model. A lock or a resource
that cannot be rendered (`controller.rs:2150-2157`) ends the invocation with its
task still running: nothing but a cancellation or a restart settles it.
`task.cancel` is one step here; `DriverHandoff` has its two critical sections.

### Processes

The process table and the tunnels in it, over an operating system (external) that
starts foreign programs under old pids. A request takes its permit, checks,
kills, spawns and inserts in separate steps; the reconciler lists candidates
before it takes a permit. `stop` is two steps under the mutex of the records:
`Kill` compares pid and birth identity, and `Signal` sends the signal, after the
log was looked at and the port probed (`process.rs:367-417`). What gets the pid in
between is signalled; `NoStrangerSignalled` is about every pid that had changed
hands before the comparison, which is what
`persisted_pid_identity_is_revalidated_and_never_signals_a_reused_pid`
(`process.rs:729`) and `docs/tunnel-observation.md:4-8` promise. In `start` the
check and the spawn are one step and the insertion another. `waiter` is the
Controller's `wait_for_tunnel_readiness`.

One name of the table is locked under three keys: `tunnel.*` lock the tunnel,
`process.*` lock `process:<id>` (`executor.rs:3028, 3045`) and `agent.*` lock
`agent:<id>` (`executor.rs:3140, 3151`). `overlapped` has the names that were used
under two of them at a time; `OneProcessPerName` is about the others.

### Relay and MirroredArtifact

`artifact.transfer` in its three modes (archive, files, local copy). An artifact
is a function from chunks to bytes, and a digest stands for the contents it was
computed from, so that a digest taken while the source changes is one of no real
state. `DigestChunk` to `SendChunk` are the Controller, `BeginOperation` to
`Clean` the destination's Executor, with the commit's two renames as steps.
`MirroredArtifact` is what a transfer promises: the destination changes in one
step from one whole state of the source to another. `Relay` implements it under
the mapping `content <- Visible`: the destination, or the backup while a commit
has put it aside.

### Peers

A connector on one node, an acceptor per attempt on the other, the socket leases,
the status file with its generation, and calls of an exposed socket from
`pending` to their answer: the reader of the other side takes the frame
(`ReadCall`), also out of its buffer after a break, a thread calls the local role
and writes its answer or `LOCAL_ROLE_UNAVAILABLE` (`RunCall`), and the reader of
this side delivers it if the call still waits (`AnswerCall`). Either side notices a break on its own (`Disconnected`,
`AcceptorEnds`); two connectors may run at once.

### Observability

The SQLite store of each Controller with its AUTOINCREMENT counter, the query
over all registered Controllers in threads, the dashboard's poller with its
cursors and replay buffer, and the event stream of a browser that reconnects with
`Last-Event-ID`.

### ReadGrants

`listed` is the Controller's record of a grant, `held` the Executor's, each with
its file. Approve and revoke take no session gate, so their parts interleave; a
call that was given up may arrive late or never. `find_read_grant` copies what the
Executor has back to the Controller. Archiving a session (`session.put`) revokes
the grants it listed one by one. Requests are numbered as they start, which
replaces symmetry.

### Generations

`generations/<id>` (marker, completeness of the copy, overlay), the links `current`
and `previous`, and the steps of `materialize_derived`, `apply_overlays`,
`record_state` and `activate` at which a file operation may fail or the Executor
may die. Calls pass the pool of mutating calls, their resource keys and
quarantine, and the driver's fence; an activation needs the lease of the runtime.
Every generation has one publisher (external) that calls in order, repeats what
failed and records the activation in its transaction. `Send` is the Controller's
dispatch of such a call, where its fence is taken from the wall clock: `Millisecond`
is the time of each dispatch, which does not go back, several calls may share a
millisecond, and the Executor admits equal fences (`executor.rs:672`). `Timely` is
assumed of a publisher: it does not dispatch again in the millisecond of a call of
its own that is still under way, since it gives a call up only after its time-out.
That a publisher repeats a call which is still queued inside the Controller is not
modelled; it would have the same idempotency key.

### MC modules

The `MC` modules add symmetry and a view that drops what neither a later step nor a
property of the run reads: in `MCDriverHandoff` closed requests, the stamp of a
request that has arrived, and the Controller's file when it will not crash again;
in `MCControllerWork` the outcome of an invocation that has ended, the tasks in the
file when no restart can follow, and the events of frames already kept; in
`MCExecutorWork` the copies of a transfer that is over and backups that are not in
use; in `MCDesktopQueue` what was acknowledged once a save has failed, after which
`DurableWhileSaved` asks nothing. `DesktopFair` uses neither view nor symmetry.

TLC checks some modules side by side: `MCExecutorWork` (Relay, Processes),
`MCControllerWork` (Observability, Invocations) and `MCSharedRecords` (ReadGrants,
Generations). The two modules of each share no variable, so no behaviour is lost
by running only one of them in each (`part`), and their state spaces add instead
of multiplying. Invariants of one such module that belong together are checked as
one formula, defined in the MC module (`ExecutorInv`, `ControllerInv`,
`RecordsInv`, `DurableWhileSaved`) or the module itself (`PeerInv`, `GrantInv`);
its comment says what each part is about.

## Runs

Each property states the case it covers in a comment above it. `expect:
violation` runs show where the code departs from what the repository says.

| Run | Instance | Shows |
|---|---|---|
| DesktopFaults | 2 submissions, 2 threads, 1 operator, 1 failing save, 1 crash | `OneOwner`, `ActingOwns`, `OwnHost`, `HandoverClean`, `Quarantined`, `EpochFences`, `Fifo`, `SafePointHolds`, types, and `DurableWhileSaved`: without a failed save, what was acknowledged survives and a failed cleanup quarantines |
| DesktopFair | 2 submissions, 2 threads, no faults, `FairSpec` | `ExpiryReaps`, `NoLostWakeup` |
| ArbiterFaults | 2 resources, 2 threads, 3 leases, 1 failing save, 2 crashes | `Exclusion`, `UncertainQuarantined`, `NoStaleGrant`, `BusyMeansExecuting`, `FencesIncrease`, `LeaseStaysUnderOperation`, types |
| DriverHooks | 2 agents, 2 leases, 2 requests, clock to 2, 1 failing save, 1 crash | `FencesIncrease`, `DrainedHandoff` |
| DriverTasks | 2 agents, 1 call that may be cancelled, 1 request, 1 failing save, 1 crash of either process | `OutcomeIsFinal` |
| DriverWrites | 2 agents, 2 calls, 2 leases, 1 failing save, 1 crash of the Executor | `DelayedWriteFenced` |
| DriverStaleWriter | 2 agents, 2 calls, no faults | violation of `NoStaleWriter`: a call authorized before a handoff writes after the new driver |
| ExecutorWork | Relay: 2 transfers, 2 chunks, 2 changes of the source, 1 call given up or crash. Processes: 1 name, 2 requests, 2 pids, 2 starts, 1 crash | `MirrorsSource` (refinement of `MirroredArtifact`), `NoStrangerSignalled`, `OneProcessPerName`, `ReadyIsCurrent`, `ExecutorInv` (types, `CommitUndisturbed`, `SuccessMeansInstalled`) |
| TunnelStopped | Processes with 1 tunnel and 1 process | violation of `StoppedStaysStopped`: the reconciler starts a tunnel that was stopped after it had listed it |
| ControllerWork | Observability: 2 Controllers, 2 events each, pages of 1, 2 frames kept, 1 restart. Invocations: 2 invocations of 1 dangerous command, 2 approvals, 2 attempts, 1 worker, 2 faults | `FailureSkipsNothing`, `ShownOnce`, `ApprovalSpentOnce`, `SingleFlight`, `OneWriter`, `WorkIsVisible`, `ControllerInv` (types, worker slots, `RevokedForGood`, `StreamHasNoGap`) |
| PeerFaults | 2 connectors, 4 attempts, 1 call, 2 crashes, fairness of a call's thread | `CallsAnswered`, `PeerInv` (types, `SocketsStay`, `SocketsServed`, `GenerationFresh`) |
| SharedRecords | ReadGrants: 2 grants, 5 requests, 2 faults. Generations: 2 generations, 9 calls at 6 times, a pool of 2, 2 faults | `NoReadAfterRevocation`, `CurrentIsWhole`, `RecordsInv` (types, `RevocationHolds`, `ApprovalEffective`, `OneRequest`, `CurrentIsLatest`) |

`DriverHandoff` also defines `TypeOK`, which is proved and not run, and
`QueuedMeansInProgress` and `CancelStopsRunning`, which fail (see Findings); no run
checks these three.

**Bounds.** Two threads, agents or calls are what it takes for one to overtake
the other; two jobs, leases or requests for one to succeed the other; one failing
save and one crash for each to come at every point, before or after the other.
The arbiter has two crashes, because what the first leaves in the snapshot must
survive the second. Durations are 1 and 2 on a clock to 1 or 2, so that an expiry
falls before, between and after the steps of a handoff. Five requests are a
request for a grant, its approval, its revocation, a lookup and a read, in any
overlap. Nine calls let both publishers finish after one of them has repeated a
call; they are dispatched at the times 1, 2, 2, 3, 4, 4, 5, 6, 6, so that calls of
both publishers meet in a millisecond. The process table has one name, used as a
tunnel, a process and an agent: to it a process of another name is what `Foreign`
is, a program on its pid or its port. One dangerous command with two approvals is what it takes to spend one
twice; pages of one event make every second event of a poll one that the merge
may cut. Two chunks and two changes let a source change before, in and after the
reading of a digest. Four attempts let two connectors each lose a transport and
try again. The bounds on failures, crashes, tokens, requests and time stand in
the guards. The desktop, arbiter and driver models still answer requests at their
bounds, so deadlock is checked; in the runs ExecutorWork, TunnelStopped,
ControllerWork, PeerFaults and SharedRecords everybody may have finished, and it
is not.

**Fairness.** `DesktopFair`: `Reaper` is a thread that wakes every second for
ever; `Lapse` is time; a thread that has begun an action finishes it and returns,
since every host call has a deadline (`computer_use.rs`). Nobody is obliged to
send a request, so the liveness properties hold with all submitters gone.
`PeerFaults`: only the thread of a call is fair, with its `recv_timeout`; the
network, the other node and the supervisors owe nothing.

**Findings.** Besides the two violations above, which `PROJECT.json` quotes, the
models show, without a run of their own:

- A save that fails in `begin()` of `desktop.rs` leaves `in_flight` set: the reaper
  then never ends the session (`ExpiryReaps` fails with one failing save).
- A repeated `desktop.submit` after a failed save is acknowledged from memory and
  not saved; a crash loses it (`AckedDurable` with one failing save).
- A worker that is refused by its second check of drain or lease leaves its task
  queued, and the handoff that refused it waits for the task
  (`QueuedMeansInProgress` of `DriverHandoff`).
- `task.cancel` that read the task as queued cancels it after its worker started
  it, without `process.stop` (`CancelStopsRunning`).
- A synchronous call is dispatched before its task is saved, although the comment
  at `executor.rs:3377` says a task is visible first; `WorkIsVisible` is stated for
  accepted calls.
- `process.*`, `agent.*` and `tunnel.*` lock different keys for one name of the
  process table (`executor.rs:3028, 3045, 3140, 3151`): `process.start` and
  `agent.start` of a name can both pass the check and both spawn, and the name has
  two processes. `overlapped` leaves such names out.
- Between the comparison of the birth identity and the signal, `stop` reads the log
  and probes the port (`process.rs:261, 269`): a pid that is used again in this
  window is signalled.
- An error in `render_lock` or `command_resources` (`controller.rs:2150-2157`)
  returns with the task left running; its key can then not be retried.
- A decision about a read grant that overlaps another one may undo it on the
  Executor; `overlap` leaves such grants out. A grant whose late approval arrives
  after its session was archived stays in force; `session.transition` to archived
  revokes nothing.
- A crash between the renames of a relay commit leaves the former destination
  under a backup name that nothing restores.
- Activating the current generation again, or a failure between the two links,
  loses the generation to roll back to. `record_state` allows any state after any
  other, so `CurrentIsWhole` rests on publishers that record ready only after
  apply succeeded.
- The list of `desktop.submit` never shrinks: at 10000 jobs it refuses for ever. A
  stream of bare native actions can keep the gate from a queued job.
- The execution fence is wall-clock milliseconds with the lease fence cut off at
  65535: a clock that steps back makes every request stale, and after 65535 leases
  of a session two drivers of the same millisecond have the same execution fence
  (the hypothesis of `DelayedWritesFenced`).
- `TaskTable::retry` takes a task that is `FailedToCancel` for one that has ended. Of
  two invocations that have read the same failed task, one runs it again; if that
  run cannot be cancelled, the other retries it while it is still carried out. This
  takes a third invocation, the one that failed first, and so is beyond the run's
  instance: the proof of `SingleFlight` met it.
- Any agent's tasks and mutations count as busy, so a handoff may expire before it
  gets ready; a second request replaces the first as successor, which then can
  neither be cancelled nor awaited.
- Two callers that have read the same attempt count can exceed `maxAttempts`; a
  caller that repeats an approved command gets `APPROVAL_INVALID` and not the
  recorded result, because the approval is checked before the key.
- The merge of `observability.query` drops the oldest events beyond its limit while
  the cursors advance; `finish_run` reads and updates under two locks, so two
  callers can both succeed.
- `session.handoff` is refused (`controller.rs:1190`), whereas
  `docs/fabric-architecture.md:107` describes a handoff in two phases.
- `begin()` in `resource.rs` leaks `active` as `desktop.rs` leaks `in_flight`:
  after a failing save the resource is busy until the Executor restarts.
  `BusyMeansExecuting` is therefore stated for runs without a failed save.
- `recover_orphans` settles queued and running tasks only. A task persisted as
  `Cancelling` stays so after a restart and keeps driver handoffs from getting
  ready.
- The quarantine after a failed cleanup can be lost with two failing saves and a
  crash; `CleanupQuarantined` is checked without failing saves.

## Proofs

TLAPS proves every safety invariant and every action property that a passing run
checks, and the refinement, for any number of threads, agents, nodes, requests,
faults and crashes and any bounds. What is assumed of the constants is in the
named assumption of each module (`BoundsAssumption`, `ArbiterAssumption`,
`DriverAssumption`, `ProcessesAssumption`, `RelayAssumption`,
`InvocationsAssumption`, `ObservabilityAssumption`, `PeersAssumption`,
`ReadGrantsAssumption`, `GenerationsAssumption`): bounds are natural numbers, the
capacities and durations that the code has are positive, the times of dispatch
(`Millisecond`) do not go back, the markers for "nobody" are not members of the
sets they extend. `DelayedWritesFenced` has a hypothesis of its own
(`MaxTokens <= 65535`), because without it the code does not have the property.

Each module has one inductive invariant in named parts, one lemma per action or
per part, and theorems that follow from the invariant. Where several processes
keep a record, the invariant speaks of memory and of the file, since a restart
turns the file into memory.

**DesktopQueueProofs** (`TypeCorrect`, `Ownership`, `ActingForOwner`,
`CallsInOwnHost`, `CleanHandover`, `DoubtQuarantines`, `Fencing`). `OneOwner` and
the others are not inductive: what a restart makes of the file matters, so the
invariant `IInv` speaks of both copies of the queue. `Good` holds of each (one
owner, epochs bounded by the queue's), `Fenced` relates each to the job that acted
last, `ThreadInv` says what a thread between `begin()` and `end()` may rely on in
memory and on disk, and `NativeInv` that traces of an action or a doubtful outcome
are covered by the file, so that `open()` would quarantine. One lemma per action.
A second invariant, `KeptInv`, says how the file lags behind: it has no job that
memory lacks, a job that still waits in memory waits in the file (`Behind`), and
as long as no save has failed it has every job and the quarantine (`Saved`). It
gives `AnswersSurvive` and `FirstComeFirstServed` (a restart promotes nobody out
of turn); `MaintenanceIsSafe` follows from the step relation and `IInv`.

**ResourceArbiterProofs**. Three invariants, each using the ones before:

- `FenceInv`: types; fences in memory and on disk lie between what callers were
  given and the number of leases issued. Gives `ArbiterTypes`, `ArbiterFences`.
- `LockInv`: Permits are disjoint, busy in memory and in the snapshot, and not
  quarantined; what is uncertain is quarantined and in the snapshot. The snapshot
  part is what makes it inductive over a crash. Gives `ArbiterExclusion`,
  `ArbiterQuarantine` and, for the step relation, `ArbiterLeaseStays`.
- `TokenInv`: tokens of a table are distinct and not dead, on disk too, and an
  operation's grants are tokens of its resources' leases. Gives
  `ArbiterNoStaleGrant`. `ArbiterBusy` needs only the types.

**DriverHandoffProofs**. `FenceInv` places the file's fence between what was given
out and the fence in memory, whatever writes fail: a lease is told to its owner
only once it is saved. Gives `DriverFences`. `HandoffInv` says that a request is
ready only while its predecessor edits nothing, in memory and in the file
(`ReadyIdle`), so that a restart cannot complete one early. Gives `HandoffsDrain`.
`CancelInv` ties the steps of `task.cancel` to the task; it gives
`OutcomesAreFinal`. `AuthInv` bounds the lease a call was authorized with, and on
top of all, `StampInv` orders execution fences as their leases (`Ordered`) and says
that what an Executor has accepted outranks, in its file too, every request of an
earlier lease that may still arrive (`Covered`). Gives `DelayedWritesFenced`.
`DriverTypeCorrect` is `TypeOK`.

**ExecutorWorkProofs**, about Processes and Relay.

- `TableIInv`: a live process with the birth identity in a record, or in a request
  about to insert one, was started for that name (`Owned`). Births are never used
  twice, although pids are. Gives `StrangersAreSpared`, `ProcessTableTyped`, and
  with the step relation `ReadyMeansListening`.
- `NamesIInv`: requests that work on a name exclude each other, and none works in
  quarantine (`LocksKept`); a live process is the one in the record, or is about to
  be inserted, or its name is in quarantine (`LiveKnown`). That last case is a crash
  between spawn and insert. Both are about names that are not `overlapped`. Gives
  `NamesHaveOneProcess`.
- `RelayIInv`: for every copy that is not verified there is a state of the source
  that is no older than what was digested and no newer than what was copied
  (`Between`). Since the source only moves on, a copy whose digest is the expected
  one is that state, although source and copy change at any time. `DestKept` says
  that the destination is missing only while a commit has put it aside. Gives
  `RelayMirrors`, the refinement: each step of the relay is one of
  `MirroredArtifact` or leaves `Visible` alone. `CommitsUndisturbed` and
  `SuccessIsReal` follow as well.
- `ExecutorComponents`: a behaviour of `MCExecutorWork` is one of each component;
  hence `ExecutorSafe`.

**ControllerWorkProofs**, about Invocations and Observability.

- `CallIInv`: `SlotsCounted` (the workers under way are as many as `async_active`
  says; gives `SlotsAreCounted`), `ApprovalsGone` (an approval that was used or
  whose revocation was confirmed is out of use in memory and in the file; gives
  `ApprovalsAreSpentOnce`, `RevocationLasts`), `FlightRuns` (while a command is under
  way its task cannot be submitted or retried, unless it was pruned or could not be
  cancelled) and `GivenUp` (a command that works for an invocation that has ended
  was given up or lost in a restart; both give `KeysRunOnce`), `LockKept` (gives `LockExcludes`), `TasksKept`
  (gives `AcceptedWorkIsVisible`).
- `ObsIInv`: what a poll has passed over it has got, or an earlier poll merged it
  (`Gathered`); what was merged is behind the cursors of all Controllers that stayed
  registered, also of those the poll still waits for (`GatheredOnce`); the newest
  frames are kept without a gap (`FramesKept`). Gives `NothingSkipped`,
  `EventsShownOnce`, `StreamWithoutGap`.
- `ControllerComponents` and `ControllerSafe` as above.

**PeersProofs** (`PeerTransportSafe`). A connector that is not off holds the lease
of its node, an acceptor past its start that of the other (`LeaseA`, `LeaseB`);
sockets and generations rest on them. A bridge that ends removes its sockets before
its lease is free, and those of a crashed process take no calls, so a socket never
leads to a bridge that does not read (`SocketsServed`).

**ReadGrantsProofs** (`GrantsAgree`, `ReadsRefused`). `RevokeInv` follows a
revocation from the Executor's answer to its confirmation: the grant is out of
force in memory and file (`PerformedHolds`), one decision about it is under way
(`OneDecision`), it cannot be asked for again (`NotAskedAgain`) and no approval of
it is on its way (`NoApprovalLeft`), an approval whose caller has given up included.
`ApprovalKept` does the same for approvals without faults, `AskInv` for the session
gate.

**SharedRecordsProofs**, about Generations and its composition with ReadGrants.
`GenIInv` says which calls can still arrive, and that a publisher awaits the newest
of its own (`CallsKept`), which exclude each other (`Alone`), and that once an
overlay is applied the fence, which then is later than theirs, refuses every call
that would apply it again (`Fenced`): this is what keeps `TreesKept`, what succeeded calls have left on disk,
and with it `InUseIsWhole`. `SwapsOrdered` orders activations by the leases of the
runtime; it gives `LatestLeaseWins`. `RecordsComponents` and `RecordsAgree` are about
the composition.

**Only model-checked**: the liveness properties `ExpiryReaps`, `NoLostWakeup` and
`CallsAnswered`, which are out of the prover's reach (fairness), and the two
violations, which are counterexamples.

## Not modelled

Operator nonces (consumed under the state lock before their action, which is
`task.cancel` or `process.stop`), the records of agents, ports, runs and work
handoffs (one request replaces a record as a whole), client-side `task.submit`
and `task.transition`, failing saves of the process table, data packs, code
signing, launching and inspecting applications, file capabilities, clipboard,
native providers, wire formats, the command line and the web interface. The
updater is a separate program in Go that runs alone under a file lock.

## Plan

1. *Proofs*: the safety properties are proved; shorter invariants where a lemma
   cites many definitions.
2. *Models*: the updater's install, activate and roll back over crashes; a failing
   save of the process table.

Not planned: what is I/O only (native providers, clipboard, file capabilities,
transport encodings), and presentation.
