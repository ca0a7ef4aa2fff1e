---------------------------- MODULE DriverHandoff ----------------------------
(***************************************************************************)
(* The driver lease of one workspace session: how agents acquire it and    *)
(* hand it over (controller.rs over lease.rs), how the capability calls of *)
(* its owner become tasks (controller.rs, capability.invoke, over task.rs) *)
(* and how the Executor fences them (executor.rs, enforce_authority).      *)
(*                                                                         *)
(* The driver.* and agent.mutation.* actions hold the session gate, so     *)
(* each of them is one step.  capability.invoke, driver.renew and          *)
(* task.cancel do not: each of their critical sections is a step of its    *)
(* own, and everything else may come between them.                         *)
(*                                                                         *)
(* `disk' is the state file of the Controller; persist() may fail, and     *)
(* then the caller gets an error while the change to memory stays.  An     *)
(* owner's token is unguessable, so it stands for having been given it     *)
(* (`known').  Every call has an idempotency key of its own, and the       *)
(* capability takes no locks besides the driver lease.  An agent's harness *)
(* reports one mutation at a time.                                         *)
(***************************************************************************)
EXTENDS Naturals, Sequences, FiniteSets

CONSTANTS
  Agent,             \* the agents of the session
  Editor,            \* those whose harness reports its mutations
  Call,              \* bound: the invocations of mutating capabilities
  Cancellable,       \* those whose task somebody may cancel
  Nobody,            \* Option::None of an agent
  Ttl,               \* the durations callers ask for
  MaxTokens,         \* bound: leases issued
  MaxRequests,       \* bound: handoff requests
  MaxTime,           \* bound: the clock
  MaxSaveFailures,   \* bound: writes that fail
  MaxCrashes,        \* bound: crashes of the Controller
  MaxExecCrashes     \* bound: crashes of the Executor

ASSUME DriverAssumption ==
  /\ Editor \subseteq Agent /\ Nobody \notin Agent
  /\ Cancellable \subseteq Call
  /\ Ttl \subseteq Nat \ {0}
  /\ MaxTokens \in Nat /\ MaxRequests \in Nat /\ MaxTime \in Nat
  /\ MaxSaveFailures \in Nat /\ MaxCrashes \in Nat /\ MaxExecCrashes \in Nat

VARIABLES
  lease,       \* the lease of workspace:<session>, or NoLease
  fence,       \* LeaseTable.fences of that resource
  requests,    \* driver_handoff_requests
  mutations,   \* agent_mutations, by agent
  task,        \* the state of each call's task
  disk,        \* the Controller's state file
  pc,          \* where each call is in capability.invoke
  caller,      \* the owner it was made by
  auth,        \* required_authority: the lease it was validated with
  cancel,      \* where the task.cancel of each call is
  wire,        \* each call's request to the Executor
  stamp,       \* the _authority in it, and the lease fence it was made from
  execFence,   \* the Executor's fence record, in memory
  execDisk,    \* and in its file
  now, minted, failures, crashes, execCrashes,
  known,       \* tokens that were returned to their owner
  \* The rest is history, read by the properties only.
  editing,     \* agents whose mutation was admitted and has not finished
  given,       \* the token and fence of the last lease an agent was given
  written,     \* the highest lease fence under which the Executor has written
  late         \* calls dispatched after their lease was superseded

table    == <<lease, fence>>
control  == <<requests, mutations, task>>
calls    == <<pc, caller, auth, cancel>>
executor == <<wire, stamp, execFence, execDisk, written>>
clock    == <<now, minted, crashes, execCrashes>>
vars     == <<table, control, disk, calls, executor, clock, failures, known,
              editing, given, late>>

-----------------------------------------------------------------------------
(* Types.                                                                  *)

NoLease == [owner |-> Nobody, token |-> 0, fence |-> 0, expires |-> 0, to |-> Nobody]
Lease   == [owner: Agent \cup {Nobody}, token: Nat, fence: Nat, expires: Nat,
            to: Agent \cup {Nobody}]

Open      == {"draining", "ready"}
Handoff   == [by: Agent, prev: Agent \cup {Nobody}, expires: Nat,
              state: Open \cup {"completed", "cancelled", "expired"}]

Terminal  == {"succeeded", "failed", "cancelled", "failedToCancel",
              "timedOut", "outcomeUnknown"}
TaskState == {"queued", "running", "cancelRequested", "cancelling"} \cup Terminal
NoTask    == "none"

PC   == {"idle", "worker", "checked", "authorized", "submitted", "running",
         "sent", "done"}
Cancel == {"none", "queued", "requested", "stopping"}
NoStamp == [fence |-> 0, expires |-> 0, lease |-> 0]
Wire == {"none", "transit", "executing", "refused", "over"}

-----------------------------------------------------------------------------
(* TaskTable and LeaseTable.                                               *)

\* A fault: a result overwrites whatever the task has become.
CanTransitionAny(from, to) == from # "queued" \/ to \in {"running", "cancelled"}

\* TaskTable::transition.
CanTransition(from, to) ==
  \/ from = "queued" /\ to \in {"running", "cancelled"}
  \/ from = "running" /\ to \in {"cancelRequested", "succeeded", "failed",
                                 "cancelled", "timedOut", "outcomeUnknown"}
  \/ from = "cancelRequested" /\ to = "cancelling"
  \/ from = "cancelling" /\ to \in {"cancelled", "failedToCancel"}

\* TaskTable::recover_orphans.
Recovered(s) == IF s \in {"queued", "running"} THEN "outcomeUnknown" ELSE s

\* LeaseTable::validate of a token the agent has been given.
Valid(a) ==
  /\ lease # NoLease
  /\ lease.owner = a
  /\ lease.expires > now
  /\ lease.token \in known

\* LeaseTable::cancel_handoff, where its error is ignored.
WithoutTarget(l, a) == IF l.to = a THEN [l EXCEPT !.to = Nobody] ELSE l

-----------------------------------------------------------------------------
(* persist(): the state as the step leaves it.                             *)

PersistOk  == /\ disk' = [lease |-> lease', fence |-> fence', requests |-> requests',
                          mutations |-> mutations', task |-> task']
              /\ UNCHANGED failures
PersistErr == /\ failures < MaxSaveFailures
              /\ failures' = failures + 1
              /\ UNCHANGED disk
Persist    == PersistOk \/ PersistErr

-----------------------------------------------------------------------------
(* Driver leases.                                                          *)

\* A fault: a handoff keeps the fence of the lease it takes over.
NextFenceOfLease(l, f) == IF l = NoLease THEN f + 1 ELSE f

\* The fence of the next lease: LeaseTable::acquire and take_handoff.
NextFence(l, f) == f + 1

\* The lease l becomes a's, with a new token and fence.  The caller learns the
\* token if persist() works.
Grant(a, l) ==
  /\ minted < MaxTokens
  /\ minted' = minted + 1
  /\ fence' = NextFence(l, fence)
  /\ \E ttl \in Ttl :
       lease' = [owner |-> a, token |-> minted + 1, fence |-> fence',
                 expires |-> now + ttl, to |-> Nobody]
  /\ \/ PersistOk /\ known' = known \cup {minted + 1} /\ given' = [token |-> minted + 1, fence |-> fence']
     \/ PersistErr /\ UNCHANGED <<known, given>>
  /\ UNCHANGED <<now, crashes, execCrashes>>

\* driver.acquire, and driver.take when there is no lease.
Acquire(a) ==
  /\ lease.expires <= now
  /\ UNCHANGED control
  /\ Grant(a, NoLease)
  /\ UNCHANGED <<calls, executor, editing, late>>

\* driver.take of a lease that was handed to the caller.
Take(a) ==
  /\ lease # NoLease
  /\ lease.to = a
  /\ UNCHANGED control
  /\ Grant(a, lease)
  /\ UNCHANGED <<calls, executor, editing, late>>

Renew(a) ==
  /\ Valid(a)
  /\ \E ttl \in Ttl : lease' = [lease EXCEPT !.expires = now + ttl]
  /\ UNCHANGED <<fence, control>>
  /\ Persist
  /\ UNCHANGED <<calls, executor, clock, known, editing, given, late>>

\* driver.handoff: the owner names its successor.
HandoffTo(a, b) ==
  /\ Valid(a)
  /\ lease' = [lease EXCEPT !.to = b]
  /\ UNCHANGED <<fence, control>>
  /\ Persist
  /\ UNCHANGED <<calls, executor, clock, known, editing, given, late>>

Release(a) ==
  /\ Valid(a)
  /\ lease' = NoLease
  /\ UNCHANGED <<fence, control>>
  /\ Persist
  /\ UNCHANGED <<calls, executor, clock, known, editing, given, late>>

\* Every request reaps expired leases first.  The lease may expire just after
\* that, so the reaping is a step that need not come before a request's own.
Reap ==
  /\ lease # NoLease
  /\ lease.expires <= now
  /\ lease' = NoLease
  /\ UNCHANGED <<fence, control>>
  /\ Persist
  /\ UNCHANGED <<calls, executor, clock, known, editing, given, late>>

-----------------------------------------------------------------------------
(* Automatic handoff.                                                      *)

\* A fault: a request that is ready no longer holds its predecessor back.
DrainingUntilReady(a) ==
  \E i \in DOMAIN requests :
    requests[i].prev = a /\ requests[i].expires > now /\ requests[i].state = "draining"

\* workspace_is_draining.
Draining(a) ==
  \E i \in DOMAIN requests :
    /\ requests[i].prev = a
    /\ requests[i].expires > now
    /\ requests[i].state \in Open

Busy ==
  \/ \E c \in Call : task[c] \in {"queued", "running", "cancelling"}
  \/ mutations # {}

\* refresh_driver_handoff: what it makes of a request ...
Refreshed(r, busy) ==
  CASE r.state \in Open /\ r.expires <= now -> [r EXCEPT !.state = "expired"]
    [] r.state = "draining" /\ r.expires > now /\ ~busy -> [r EXCEPT !.state = "ready"]
    [] OTHER -> r

\* ... of all requests ...
RefreshedAll(rs, busy) == [i \in DOMAIN rs |-> Refreshed(rs[i], busy)]

\* ... and of the lease, whose successor loses its claim with an expired one.
RefreshedLease(l, rs) ==
  IF \E i \in DOMAIN rs : /\ rs[i].state \in Open /\ rs[i].expires <= now
                          /\ rs[i].prev # Nobody /\ rs[i].by = l.to
  THEN [l EXCEPT !.to = Nobody] ELSE l

\* driver.handoff.status.
Status ==
  /\ RefreshedAll(requests, Busy) # requests
  /\ requests' = RefreshedAll(requests, Busy)
  /\ lease' = RefreshedLease(lease, requests)
  /\ UNCHANGED <<fence, mutations, task>>
  /\ Persist
  /\ UNCHANGED <<calls, executor, clock, known, editing, given, late>>

MayRequest(b) == lease.owner # b

\* driver.handoff.request.  With a lease that has expired but is not reaped
\* request_handoff fails and nothing changes.
Request(b) ==
  /\ MayRequest(b)
  /\ lease = NoLease \/ lease.expires > now
  /\ Len(requests) < MaxRequests
  /\ \E ttl \in Ttl :
       LET r  == [by |-> b, prev |-> lease.owner, expires |-> now + ttl,
                  state |-> IF lease = NoLease THEN "ready" ELSE "draining"]
           rs == Append(requests, r)
           l  == IF lease = NoLease THEN lease ELSE [lease EXCEPT !.to = b]
       IN  /\ requests' = RefreshedAll(rs, Busy)
           /\ lease' = RefreshedLease(l, rs)
  /\ UNCHANGED <<fence, mutations, task>>
  /\ Persist
  /\ UNCHANGED <<calls, executor, clock, known, editing, given, late>>

\* The request that await and cancel find: the latest open one of b.
IsLatest(rs, i, b) ==
  /\ rs[i].by = b /\ rs[i].state \in Open
  /\ \A k \in (i + 1)..Len(rs) : ~(rs[k].by = b /\ rs[k].state \in Open)

\* driver.handoff.await that succeeds.  (One that fails is a Status.)
Await(b) ==
  LET rs == RefreshedAll(requests, Busy)
      l  == RefreshedLease(lease, requests)
  IN  \E i \in DOMAIN rs :
        /\ IsLatest(rs, i, b)
        /\ rs[i].state = "ready"
        /\ IF rs[i].prev # Nobody THEN l # NoLease /\ l.to = b
                                  ELSE l.expires <= now
        /\ requests' = [rs EXCEPT ![i].state = "completed"]
        /\ UNCHANGED <<mutations, task>>
        /\ Grant(b, IF rs[i].prev # Nobody THEN l ELSE NoLease)
        /\ UNCHANGED <<calls, executor, editing, late>>

\* driver.handoff.cancel.
CancelHandoff(b) ==
  \E i \in DOMAIN requests :
    /\ IsLatest(requests, i, b)
    /\ requests[i].prev = Nobody \/ (lease # NoLease /\ lease.to = b)
    /\ requests' = [requests EXCEPT ![i].state = "cancelled"]
    /\ lease' = IF requests[i].prev = Nobody THEN lease ELSE WithoutTarget(lease, b)
    /\ UNCHANGED <<fence, mutations, task>>
    /\ Persist
    /\ UNCHANGED <<calls, executor, clock, known, editing, given, late>>

\* agent.mutation.start.  The agent writes only if it gets an Ok.
MutationStart(a) ==
  /\ ~Draining(a)
  /\ mutations' = mutations \cup {a}
  /\ UNCHANGED <<table, requests, task>>
  /\ \/ PersistOk /\ editing' = editing \cup {a}
     \/ PersistErr /\ UNCHANGED editing
  /\ UNCHANGED <<calls, executor, clock, known, given, late>>

\* agent.mutation.finish: the write is over, whatever becomes of the record.
MutationFinish(a) ==
  /\ a \in editing
  /\ editing' = editing \ {a}
  /\ mutations' = mutations \ {a}
  /\ requests' = RefreshedAll(requests,
       mutations' # {} \/ \E c \in Call : task[c] \in {"queued", "running", "cancelling"})
  /\ lease' = RefreshedLease(lease, requests)
  /\ UNCHANGED <<fence, task>>
  /\ Persist
  /\ UNCHANGED <<calls, executor, clock, known, given, late>>

-----------------------------------------------------------------------------
(* capability.invoke.                                                      *)

Goto(c, l) == pc' = [pc EXCEPT ![c] = l] /\ UNCHANGED <<caller, auth>>
Return(c)  == /\ pc' = [pc EXCEPT ![c] = "done"]
              /\ caller' = [caller EXCEPT ![c] = Nobody]
              /\ auth' = [auth EXCEPT ![c] = NoLease]
Becomes(c, s) == task' = [task EXCEPT ![c] = s]

\* The call arrives, or the worker of an accepted call resumes it.
Check(c, a) ==
  /\ pc[c] = "idle" \/ (pc[c] = "worker" /\ caller[c] = a)
  /\ IF Draining(a)
     THEN Return(c)
     ELSE /\ pc' = [pc EXCEPT ![c] = "checked"]
          /\ caller' = [caller EXCEPT ![c] = a]
          /\ UNCHANGED auth
  /\ UNCHANGED <<table, control, disk, cancel, executor, clock,
                 failures, known, editing, given, late>>

Authorize(c) ==
  /\ pc[c] = "checked"
  /\ IF Valid(caller[c])
     THEN /\ pc' = [pc EXCEPT ![c] = "authorized"]
          /\ auth' = [auth EXCEPT ![c] = lease]
          /\ UNCHANGED caller
     ELSE Return(c)
  /\ UNCHANGED <<table, control, disk, cancel, executor, clock,
                 failures, known, editing, given, late>>

\* executionMode async: a worker is started if persist() works.
Accept(c) ==
  /\ pc[c] = "authorized"
  /\ task[c] = NoTask
  /\ Becomes(c, "queued")
  /\ UNCHANGED <<table, requests, mutations>>
  /\ \/ PersistOk /\ Goto(c, "worker")
     \/ PersistErr /\ Return(c)
  /\ UNCHANGED <<cancel, executor, clock, known, editing,
                 given, late>>

\* submit_traced; a worker finds its task, which may have been cancelled.
Submit(c) ==
  /\ pc[c] = "authorized"
  /\ IF task[c] = NoTask THEN Becomes(c, "queued") ELSE UNCHANGED task
  /\ IF task[c] \in {NoTask, "queued"} THEN Goto(c, "submitted") ELSE Return(c)
  /\ UNCHANGED <<table, requests, mutations, disk, cancel,
                 executor, clock, failures, known, editing, given, late>>

Run(c) ==
  /\ pc[c] = "submitted"
  /\ IF CanTransition(task[c], "running")
     THEN Becomes(c, "running") /\ Goto(c, "running")
     ELSE Return(c) /\ UNCHANGED task
  /\ UNCHANGED <<table, requests, mutations, disk, cancel,
                 executor, clock, failures, known, editing, given, late>>

\* A fault: the fence has no room for the lease's.
ExecutionFenceOfClock(f) == now * 65536

\* executor_execution_fence.
ExecutionFence(f) == now * 65536 + (IF f < 65535 THEN f ELSE 65535)

\* call_executor_with_timeout sends the request.
Dispatch(c) ==
  /\ pc[c] = "running"
  /\ Goto(c, "sent")
  /\ stamp' = [stamp EXCEPT ![c] = [fence |-> ExecutionFence(auth[c].fence),
                                    expires |-> auth[c].expires,
                                    lease |-> auth[c].fence]]
  /\ wire' = [wire EXCEPT ![c] = "transit"]
  /\ late' = IF lease.token = auth[c].token THEN late ELSE late \cup {c}
  /\ UNCHANGED <<table, control, disk, cancel, execFence,
                 execDisk, written, clock, failures, known, editing, given>>

\* The states that a response, a deadline or a lost connection leads to.
Outcome(w) ==
  {"failed", "outcomeUnknown"} \cup (IF w = "over" THEN {"succeeded"} ELSE {})

\* The call returns.  A success that finds the task changed is not persisted.
Finish(c) ==
  /\ pc[c] = "sent"
  /\ Return(c)
  /\ \E s \in Outcome(wire[c]) :
       /\ IF CanTransition(task[c], s) THEN Becomes(c, s) ELSE UNCHANGED task
       /\ UNCHANGED <<table, requests, mutations>>
       /\ IF s = "succeeded" /\ ~CanTransition(task[c], s)
          THEN UNCHANGED <<disk, failures>> ELSE Persist
  /\ UNCHANGED <<cancel, executor, clock, known, editing, given, late>>

-----------------------------------------------------------------------------
(* task.cancel, one of each task at a time.  It reads the state of the     *)
(* task, and changes it in a later critical section.                       *)

CancelAt(c, l) == cancel' = [cancel EXCEPT ![c] = l]

CancelReadsQueued(c) ==
  /\ cancel[c] = "none"
  /\ task[c] = "queued"
  /\ CancelAt(c, "queued")
  /\ UNCHANGED <<table, control, disk, pc, caller, auth, executor, clock,
                 failures, known, editing, given, late>>

\* A task that was queued is cancelled, or fails to be.
CancelQueued(c) ==
  /\ cancel[c] = "queued"
  /\ CancelAt(c, "none")
  /\ UNCHANGED <<table, requests, mutations>>
  /\ IF CanTransition(task[c], "cancelled")
     THEN Becomes(c, "cancelled") /\ Persist
     ELSE UNCHANGED <<task, disk, failures>>
  /\ UNCHANGED <<pc, caller, auth, executor, clock, known, editing, given, late>>

CancelRequest(c) ==
  /\ cancel[c] = "none"
  /\ task[c] = "running"
  /\ Becomes(c, "cancelRequested")
  /\ CancelAt(c, "requested")
  /\ UNCHANGED <<table, requests, mutations, disk, pc, caller, auth, executor,
                 clock, failures, known, editing, given, late>>

CancelBegin(c) ==
  /\ cancel[c] = "requested"
  /\ Becomes(c, "cancelling")
  /\ UNCHANGED <<table, requests, mutations>>
  /\ \/ PersistOk /\ CancelAt(c, "stopping")
     \/ PersistErr /\ CancelAt(c, "none")
  /\ UNCHANGED <<pc, caller, auth, executor, clock, known, editing, given, late>>

\* process.stop has answered.
CancelEnd(c) ==
  /\ cancel[c] = "stopping"
  /\ Becomes(c, "cancelled") \/ Becomes(c, "failedToCancel")
  /\ CancelAt(c, "none")
  /\ UNCHANGED <<table, requests, mutations>>
  /\ Persist
  /\ UNCHANGED <<pc, caller, auth, executor, clock, known, editing, given, late>>

-----------------------------------------------------------------------------
(* The Executor.  A request arrives late, even after its call has returned *)
(* with a timeout, or never.                                               *)

\* enforce_authority.
Admits(s) == s.expires > now /\ s.fence > 0 /\ s.fence >= execFence

\* The fence file is written before the operation starts.
Execute(c) ==
  /\ wire[c] = "transit"
  /\ Admits(stamp[c])
  /\ execFence' = stamp[c].fence
  /\ \/ /\ execDisk' = stamp[c].fence
        /\ wire' = [wire EXCEPT ![c] = "executing"]
        /\ written' = IF stamp[c].lease > written THEN stamp[c].lease ELSE written
        /\ UNCHANGED failures
     \/ /\ failures < MaxSaveFailures
        /\ failures' = failures + 1
        /\ wire' = [wire EXCEPT ![c] = "refused"]
        /\ UNCHANGED <<execDisk, written>>
  /\ UNCHANGED <<table, control, disk, calls, stamp, clock, known, editing,
                 given, late>>

Refuse(c) ==
  /\ wire[c] = "transit"
  /\ ~Admits(stamp[c])
  /\ wire' = [wire EXCEPT ![c] = "refused"]
  /\ UNCHANGED <<table, control, disk, calls, stamp, execFence, execDisk, written,
                 clock, failures, known, editing, given, late>>

Complete(c) ==
  /\ wire[c] = "executing"
  /\ wire' = [wire EXCEPT ![c] = "over"]
  /\ UNCHANGED <<table, control, disk, calls, stamp, execFence, execDisk, written,
                 clock, failures, known, editing, given, late>>

-----------------------------------------------------------------------------
(* The environment.                                                        *)

Tick ==
  /\ now < MaxTime
  /\ now' = now + 1
  /\ UNCHANGED <<table, control, disk, calls, executor, minted, crashes, execCrashes,
                 failures, known, editing, given, late>>

\* The Controller dies and opens its state file.
ControllerRestart ==
  /\ crashes < MaxCrashes
  /\ crashes' = crashes + 1
  /\ lease' = IF disk.lease.expires <= now THEN NoLease ELSE disk.lease
  /\ fence' = IF disk.lease.fence > disk.fence THEN disk.lease.fence ELSE disk.fence
  /\ requests' = disk.requests
  /\ mutations' = disk.mutations
  /\ task' = [c \in Call |-> Recovered(disk.task[c])]
  /\ PersistOk
  /\ pc' = [c \in Call |-> IF pc[c] = "idle" THEN "idle" ELSE "done"]
  /\ caller' = [c \in Call |-> Nobody]
  /\ auth' = [c \in Call |-> NoLease]
  /\ cancel' = [c \in Call |-> "none"]
  /\ UNCHANGED <<executor, now, minted, execCrashes, known, editing,
                 given, late>>

\* The Executor dies with what it executes and reads its fence file.
ExecutorRestart ==
  /\ execCrashes < MaxExecCrashes
  /\ execCrashes' = execCrashes + 1
  /\ execFence' = execDisk
  /\ wire' = [c \in Call |-> IF wire[c] = "executing" THEN "refused" ELSE wire[c]]
  /\ UNCHANGED <<table, control, disk, calls, stamp, execDisk, written, now, minted,
                 crashes, failures, known, editing, given, late>>

-----------------------------------------------------------------------------
Init ==
  /\ lease = NoLease /\ fence = 0
  /\ requests = <<>> /\ mutations = {}
  /\ task = [c \in Call |-> NoTask]
  /\ disk = [lease |-> NoLease, fence |-> 0, requests |-> <<>>, mutations |-> {},
             task |-> task]
  /\ pc = [c \in Call |-> "idle"]
  /\ caller = [c \in Call |-> Nobody]
  /\ auth = [c \in Call |-> NoLease]
  /\ cancel = [c \in Call |-> "none"]
  /\ wire = [c \in Call |-> "none"]
  /\ stamp = [c \in Call |-> NoStamp]
  /\ execFence = 0 /\ execDisk = 0
  /\ now = 0 /\ minted = 0 /\ failures = 0 /\ crashes = 0 /\ execCrashes = 0
  /\ known = {} /\ editing = {} /\ given = [token |-> 0, fence |-> 0]
  /\ written = 0 /\ late = {}

Driver(a) ==
  \/ Acquire(a) \/ Take(a) \/ Renew(a) \/ Release(a)
  \/ \E b \in Agent : HandoffTo(a, b)
  \/ Request(a) \/ Await(a) \/ CancelHandoff(a)
Hook(a) == MutationStart(a) \/ MutationFinish(a)
Invoke(c) ==
  \/ \E a \in Agent : Check(c, a)
  \/ Authorize(c) \/ Accept(c) \/ Submit(c) \/ Run(c) \/ Dispatch(c) \/ Finish(c)
TaskCancel(c) ==
  \/ CancelReadsQueued(c) \/ CancelQueued(c)
  \/ CancelRequest(c) \/ CancelBegin(c) \/ CancelEnd(c)
ExecutorStep(c) == Execute(c) \/ Refuse(c) \/ Complete(c)

\* task.get, driver.status and whatever else changes nothing.
Read == UNCHANGED vars

Next ==
  \/ \E a \in Agent : Driver(a)
  \/ \E a \in Editor : Hook(a)
  \/ \E c \in Call : Invoke(c) \/ ExecutorStep(c)
  \/ \E c \in Cancellable : TaskCancel(c)
  \/ Status \/ Reap \/ Read
  \/ Tick \/ ControllerRestart \/ ExecutorRestart

Spec == Init /\ [][Next]_vars

-----------------------------------------------------------------------------
(* Properties.                                                             *)

\* Every variable has its type; a request is never opened by the owner it
\* would take over from.
TypeOK ==
  /\ lease \in Lease /\ fence \in Nat
  /\ \A i \in DOMAIN requests :
       requests[i] \in Handoff /\ requests[i].by # requests[i].prev
  /\ mutations \subseteq Editor /\ editing \subseteq Editor
  /\ task \in [Call -> TaskState \cup {NoTask}]
  /\ pc \in [Call -> PC] /\ caller \in [Call -> Agent \cup {Nobody}]
  /\ auth \in [Call -> Lease] /\ cancel \in [Call -> Cancel]
  /\ wire \in [Call -> Wire] /\ stamp \in [Call -> [fence: Nat, expires: Nat, lease: Nat]]
  /\ execFence \in Nat /\ execDisk \in Nat /\ written \in Nat
  /\ now \in 0..MaxTime /\ minted \in 0..MaxTokens /\ known \subseteq 1..minted
  /\ failures \in 0..MaxSaveFailures /\ crashes \in 0..MaxCrashes
  /\ execCrashes \in 0..MaxExecCrashes /\ given \in [token: Nat, fence: Nat] /\ late \subseteq Call

\* Handing the driver over rotates its fence: each lease an agent is given has
\* a higher fence than all before, over failed writes and restarts too.
FencesIncrease ==
  [][given'.token # given.token => given'.fence > given.fence]_vars

\* A handoff drains its predecessor: when a request completes, the owner it
\* took over from has no reported mutation under way.
DrainedHandoff ==
  [][\A i \in DOMAIN requests \cap DOMAIN requests' :
       requests[i].state \in Open /\ requests'[i].state = "completed"
         => requests[i].prev \notin editing]_vars

\* A request that was dispatched while its driver was in office is not executed
\* after a successor's, however late it arrives, over failed writes of the fence
\* file and crashes of the Executor.
DelayedWriteFenced ==
  [][\A c \in Call \ late :
       wire[c] = "transit" /\ wire'[c] = "executing" => stamp[c].lease >= written]_vars

\* A task's outcome is final: while the Controller lives, neither a response
\* nor a cancellation that comes late replaces it.
OutcomeIsFinal ==
  [][\A c \in Call : task[c] \in Terminal /\ crashes' = crashes
       => task'[c] = task[c]]_vars

\* "Capability execution is already fenced by driver/resource leases": no write
\* under a driver's lease once a successor has written.
NoStaleWriter ==
  [][\A c \in Call :
       wire[c] = "transit" /\ wire'[c] = "executing" => stamp[c].lease >= written]_vars

\* "running_task_cancel_propagates_process_stop_to_executor": a task that has
\* been dispatched is not cancelled without stopping what the Executor runs.
CancelStopsRunning ==
  [][\A c \in Call : task[c] = "running" => task'[c] # "cancelled"]_vars

\* "task {} is already in progress": a task that blocks its key and the
\* workspace's handoffs has somebody working on it.
QueuedMeansInProgress ==
  \A c \in Call : task[c] \in {"queued", "running"} => pc[c] # "done"
=============================================================================
