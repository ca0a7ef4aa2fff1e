---------------------------- MODULE Invocations ----------------------------
(***************************************************************************)
(* capability.invoke of the Controller seen from the caller: the one-time  *)
(* approval of a dangerous command, the idempotency key and its task, the  *)
(* retry policy, the resource lock of the capability and the call of the   *)
(* Executor, with breaking and late answers, failing writes of the state   *)
(* file and restarts.  Driver leases and their fences are the subject of   *)
(* module DriverHandoff.                                                   *)
(***************************************************************************)
EXTENDS Naturals, FiniteSets

CONSTANTS
  Invocation,    \* calls of capability.invoke
  Key,           \* idempotency keys; each stands for one command
  Dangerous,     \* the keys whose command requires approval
  Approval,      \* approvals
  CommandOf,     \* the command whose digest an approval names
  NoApproval, NoHolder,
  Attempts,      \* contract.retry.max_attempts
  AsyncMaximum,  \* async_maximum
  MaxFaults      \* bound: failing writes, prunes and restarts together

ASSUME InvocationsAssumption ==
  /\ Dangerous \subseteq Key
  /\ CommandOf \in [Approval -> Key]
  /\ NoApproval \notin Approval /\ NoHolder \notin Invocation
  /\ {Attempts, AsyncMaximum, MaxFaults} \subseteq Nat

VARIABLES
  task,       \* TaskTable: the task of every key
  approval,   \* the approvals
  lock,       \* the lease of the resource that every command uses
  disk,       \* the state file: task, approval and lock
  inv,        \* each invocation: step, key, approval, worker, outcome, lapsed
  working,    \* the invocations whose command the Executor carries out
  active,     \* async_active
  spent,      \* history: the invocations every approval authorised
  revoked,    \* history: the approvals whose revocation was confirmed
  pruned,     \* history: the keys that were forgotten
  uncancelled, \* history: the keys whose running task could not be cancelled
  restarted,  \* history: the Controller has restarted
  faults

records == <<task, approval, lock>>
invVars == <<records, disk, inv, working, active, spent, revoked, pruned, uncancelled, restarted, faults>>

-----------------------------------------------------------------------------
NoTask == [state |-> "none", attempt |-> 0]
\* submit and submit_traced.
NewTask == [state |-> "queued", attempt |-> 0]
TaskTerminal == {"succeeded", "failed", "outcome-unknown", "cancelled", "failed-to-cancel"}
Idle == [step |-> "idle", key |-> CHOOSE k \in Key : TRUE, approval |-> NoApproval,
         worker |-> FALSE, outcome |-> "none", lapsed |-> FALSE]

\* TaskTable::transition allows what the code of an invocation asks for only
\* from these states.
Moves(k, to) ==
  CASE to = "running"   -> task[k].state = "queued"
    [] to = "cancelled" -> task[k].state \in {"queued", "running", "cancelling"}
    [] to \in {"succeeded", "failed", "outcome-unknown", "cancelling"} -> task[k].state = "running"
    [] to = "failed-to-cancel" -> task[k].state = "cancelling"

Moved(k, to) == IF Moves(k, to) THEN [task EXCEPT ![k].state = to] ELSE task

\* persist() saves the records as they are after the step, or fails.
Saved == disk' = [task |-> task', approval |-> approval', lock |-> lock']
Saves == Saved /\ UNCHANGED faults
SaveFails == faults < MaxFaults /\ faults' = faults + 1 /\ UNCHANGED disk

Step(t, s) == inv' = [inv EXCEPT ![t].step = s]

\* A fault: only an invocation that got to the Executor gives its slot back.
EndsEarly(t) ==
  /\ inv' = [inv EXCEPT ![t].step = "done"]
  /\ active' = IF inv[t].worker /\ inv[t].step = "record" THEN active - 1 ELSE active

\* The invocation ends; a worker gives its slot back.
Ends(t) ==
  /\ inv' = [inv EXCEPT ![t].step = "done"]
  /\ active' = IF inv[t].worker THEN active - 1 ELSE active

-----------------------------------------------------------------------------
(* Approvals.                                                              *)

Requestable(a) == approval[a] = "none"

\* approval.request: a pending or approved record of the same command (even
\* one that has expired) is returned instead of a new one.
RequestApproval(a) ==
  /\ Requestable(a)
  /\ \A b \in Approval : CommandOf[b] = CommandOf[a] => approval[b] \notin {"pending", "approved", "expired"}
  /\ approval' = [approval EXCEPT ![a] = "pending"]
  /\ UNCHANGED <<task, lock, inv, working, active, spent, revoked, pruned, uncancelled, restarted>>
  /\ Saves \/ SaveFails

\* approval.approve.
Approve(a) ==
  /\ approval[a] = "pending"
  /\ approval' = [approval EXCEPT ![a] = "approved"]
  /\ UNCHANGED <<task, lock, inv, working, active, spent, revoked, pruned, uncancelled, restarted>>
  /\ Saves \/ SaveFails

\* approval.revoke, in whatever state the approval is.
Revoke(a) ==
  /\ approval[a] # "none"
  /\ approval' = [approval EXCEPT ![a] = "revoked"]
  /\ UNCHANGED <<task, lock, inv, working, active, spent, pruned, uncancelled, restarted>>
  /\ \/ Saves /\ revoked' = revoked \cup {a}
     \/ SaveFails /\ UNCHANGED revoked

\* The time of an approval passes.
Expire(a) ==
  /\ approval[a] = "approved"
  /\ approval' = [approval EXCEPT ![a] = "expired"]
  /\ disk' = [disk EXCEPT !.approval[a] = IF @ = "approved" THEN "expired" ELSE @]
  /\ UNCHANGED <<task, lock, inv, working, active, spent, revoked, pruned, uncancelled, restarted, faults>>

-----------------------------------------------------------------------------
(* capability.invoke.                                                      *)

\* command_requires_approval.
FirstStep(k) == IF k \in Dangerous THEN "approve" ELSE "submit"

Invoke(t, k, a) ==
  /\ inv[t] = Idle
  /\ k \in Dangerous \/ a = NoApproval
  /\ inv' = [inv EXCEPT ![t] = [Idle EXCEPT !.step = FirstStep(k), !.key = k, !.approval = a]]
  /\ UNCHANGED <<records, disk, working, active, spent, revoked, pruned, uncancelled, restarted, faults>>

\* Asynchronous: a slot is taken, the task submitted, the state saved and a
\* worker started that makes the call again as the one who resumes it.
Accept(t, k, a) ==
  /\ inv[t] = Idle
  /\ k \in Dangerous \/ a = NoApproval
  /\ active < AsyncMaximum
  /\ UNCHANGED <<approval, lock, working, spent, revoked, pruned, uncancelled, restarted>>
  /\ IF task[k] # NoTask
     THEN Step(t, "done") /\ UNCHANGED <<task, disk, active, faults>>
     ELSE /\ task' = [task EXCEPT ![k] = NewTask]
          /\ \/ /\ Saves
                /\ active' = active + 1
                /\ inv' = [inv EXCEPT ![t] = [Idle EXCEPT !.step = FirstStep(k), !.key = k,
                                                          !.approval = a, !.worker = TRUE]]
             \/ SaveFails /\ Step(t, "done") /\ UNCHANGED active

\* A fault: the approval is checked without being used up.
ConsumedNot(a) == approval

Consumed(a) == [approval EXCEPT ![a] = "consumed"]
Authorizes(a, k) == a # NoApproval /\ approval[a] = "approved" /\ CommandOf[a] = k

\* The approval is consumed and that is saved before anything else is done.
CheckApproval(t) ==
  LET a == inv[t].approval
      k == inv[t].key
  IN  /\ inv[t].step = "approve"
      /\ UNCHANGED <<task, lock, working, revoked, pruned, uncancelled, restarted>>
      /\ \/ /\ Authorizes(a, k)
            /\ approval' = Consumed(a)
            /\ \/ Saves /\ Step(t, "submit") /\ UNCHANGED active
               \/ SaveFails /\ Ends(t)
            /\ spent' = [spent EXCEPT ![a] = IF inv'[t].step = "submit" THEN @ \cup {t} ELSE @]
         \/ /\ ~Authorizes(a, k)
            /\ Ends(t)
            /\ UNCHANGED <<approval, disk, spent, faults>>

\* submit_traced, and what is done about a task that exists.
Submit(t) ==
  LET k == inv[t].key
  IN  /\ inv[t].step = "submit"
      /\ \/ /\ task[k] = NoTask
            /\ task' = [task EXCEPT ![k] = NewTask]
            /\ Step(t, "run") /\ UNCHANGED active
         \/ /\ task[k].state \in {"failed", "outcome-unknown"} /\ task[k].attempt < Attempts
            /\ Step(t, "retry") /\ UNCHANGED <<task, active>>
         \/ /\ task[k].state = "queued" /\ inv[t].worker
            /\ Step(t, "run") /\ UNCHANGED <<task, active>>
         \/ /\ task[k] # NoTask
            /\ ~(task[k].state \in {"failed", "outcome-unknown"} /\ task[k].attempt < Attempts)
            /\ ~(task[k].state = "queued" /\ inv[t].worker)
            /\ Ends(t) /\ UNCHANGED task
      /\ UNCHANGED <<approval, lock, disk, working, spent, revoked, pruned, uncancelled, restarted, faults>>

\* A fault: what another invocation did since the task was read is not noticed.
RetryableSeen(k) == TRUE

\* TaskTable::retry, in a critical section of its own.
Retryable(k) == task[k].state \in {"failed", "outcome-unknown", "failed-to-cancel"}

Retry(t) ==
  LET k == inv[t].key
  IN  /\ inv[t].step = "retry"
      /\ IF Retryable(k)
         THEN task' = [task EXCEPT ![k].state = "queued"] /\ Step(t, "run") /\ UNCHANGED active
         ELSE Ends(t) /\ UNCHANGED task
      /\ UNCHANGED <<approval, lock, disk, working, spent, revoked, pruned, uncancelled, restarted, faults>>

Run(t) ==
  LET k == inv[t].key
  IN  /\ inv[t].step = "run"
      /\ IF Moves(k, "running")
         THEN /\ task' = [task EXCEPT ![k] = [state |-> "running", attempt |-> @.attempt + 1]]
              /\ Step(t, "lock") /\ UNCHANGED active
         ELSE Ends(t) /\ UNCHANGED task
      /\ UNCHANGED <<approval, lock, disk, working, spent, revoked, pruned, uncancelled, restarted, faults>>

\* The leases of the capability's locks (render_lock, command_resources) can be
\* acquired; they all stand for one resource.
LockFree == lock = NoHolder

\* The lock is acquired and the request sent; or it is held and the task fails;
\* or the locks cannot be named from the input (the `?` of render_lock and
\* command_resources) and the call returns with its task left running.
Dispatch(t) ==
  /\ inv[t].step = "lock"
  /\ UNCHANGED <<approval, spent, revoked, pruned, uncancelled, restarted>>
  /\ \/ /\ LockFree
        /\ lock' = t
        /\ Step(t, "wait")
        /\ working' = working \cup {t}
        /\ UNCHANGED <<task, disk, active, faults>>
     \/ /\ ~LockFree
        /\ task' = Moved(inv[t].key, "failed")
        /\ UNCHANGED <<lock, working>>
        /\ Saves \/ SaveFails
        /\ Ends(t)
     \/ Ends(t) /\ UNCHANGED <<task, lock, working, disk, faults>>

\* The Executor ends the command, whether or not anybody waits for it.
Work(t) ==
  /\ t \in working
  /\ working' = working \ {t}
  /\ UNCHANGED <<records, disk, inv, active, spent, revoked, pruned, uncancelled, restarted, faults>>

\* A fault: a deadline releases the lock as well.
KeptNever(outcome) == FALSE
Kept(outcome) == outcome = "outcome-unknown"

\* call_executor_with_timeout: the response, or while there is none an error of
\* the transport or the deadline.
Outcomes(t) == IF t \in working THEN {"failed", "outcome-unknown"}
                                ELSE {"succeeded", "failed", "outcome-unknown"}

\* The response, the end of the connection, or the deadline.  Only after a
\* deadline does the lock stay until its time has passed.
Receive(t) ==
  /\ inv[t].step = "wait"
  /\ \E outcome \in Outcomes(t) :
       /\ lock' = IF lock = t /\ ~Kept(outcome) THEN NoHolder ELSE lock
       /\ inv' = [inv EXCEPT ![t].step = "record", ![t].outcome = outcome]
  /\ UNCHANGED <<task, approval, disk, working, active, spent, revoked, pruned, uncancelled, restarted, faults>>

\* The outcome is recorded if the task still runs, and saved.
Record(t) ==
  /\ inv[t].step = "record"
  /\ task' = Moved(inv[t].key, inv[t].outcome)
  /\ UNCHANGED <<approval, lock, working, spent, revoked, pruned, uncancelled, restarted>>
  /\ \/ ~(inv[t].outcome = "succeeded" /\ task' = task) /\ (Saves \/ SaveFails)
     \/ inv[t].outcome = "succeeded" /\ task' = task /\ UNCHANGED <<disk, faults>>
  /\ Ends(t)

\* The lease outlives the deadline of the call it was acquired for.
LockExpires ==
  /\ lock # NoHolder
  /\ inv[lock].step # "wait"
  /\ lock' = NoHolder
  /\ inv' = [inv EXCEPT ![lock].lapsed = TRUE]
  /\ UNCHANGED <<task, approval, disk, working, active, spent, revoked, pruned, uncancelled, restarted, faults>>

-----------------------------------------------------------------------------
(* Other operations on tasks, and the restart.                             *)

\* task.retry: the task is queued again, but nothing runs it.
TaskRetry(k) ==
  /\ Retryable(k)
  /\ task' = [task EXCEPT ![k].state = "queued"]
  /\ UNCHANGED <<approval, lock, inv, working, active, spent, revoked, pruned, uncancelled, restarted>>
  /\ Saves \/ SaveFails

\* task.cancel of a task that waits or runs, and its end.  (That the handler reads
\* the task in a critical section before the one that moves it is the subject of
\* DriverHandoff.)
TaskCancel(k) ==
  /\ \/ task[k].state = "queued"     /\ task' = Moved(k, "cancelled")
     \/ task[k].state = "running"    /\ task' = Moved(k, "cancelling")
     \/ task[k].state = "cancelling" /\ task' \in {Moved(k, "cancelled"), Moved(k, "failed-to-cancel")}
  /\ uncancelled' = IF task'[k].state = "failed-to-cancel" THEN uncancelled \cup {k} ELSE uncancelled
  /\ UNCHANGED <<approval, lock, inv, working, active, spent, revoked, pruned, restarted>>
  /\ Saves \/ SaveFails

\* prune_terminal_before and prune_retention take tasks that have ended.
Prunable(k) == task[k].state \in TaskTerminal

\* task.prune removes tasks that have ended, with their keys.
TaskPrune(k) ==
  /\ faults < MaxFaults
  /\ Prunable(k)
  /\ faults' = faults + 1
  /\ pruned' = pruned \cup {k}
  /\ task' = [task EXCEPT ![k] = NoTask]
  /\ UNCHANGED <<approval, lock, inv, working, active, spent, revoked, uncancelled, restarted>>
  /\ Saved \/ UNCHANGED disk

\* A fault: the tasks of the last process are forgotten.
OrphanedForgotten(table) ==
  [k \in Key |-> IF table[k].state \in {"queued", "running"} THEN NoTask ELSE table[k]]

\* recover_orphans.
Orphaned(table) ==
  [k \in Key |-> IF table[k].state \in {"queued", "running"}
                 THEN [table[k] EXCEPT !.state = "outcome-unknown"] ELSE table[k]]

RestartController ==
  /\ faults < MaxFaults
  /\ faults' = faults + 1
  /\ restarted' = TRUE
  /\ task' = Orphaned(disk.task) /\ approval' = disk.approval /\ lock' = disk.lock
  /\ disk' = [disk EXCEPT !.task = Orphaned(disk.task)]
  /\ inv' = [t \in Invocation |-> IF inv[t] = Idle THEN Idle ELSE [inv[t] EXCEPT !.step = "done"]]
  /\ active' = 0
  /\ UNCHANGED <<working, spent, revoked, pruned, uncancelled>>

-----------------------------------------------------------------------------
InvInit ==
  /\ task = [k \in Key |-> NoTask]
  /\ approval = [a \in Approval |-> "none"]
  /\ lock = NoHolder
  /\ disk = [task |-> task, approval |-> approval, lock |-> lock]
  /\ inv = [t \in Invocation |-> Idle]
  /\ working = {} /\ active = 0
  /\ spent = [a \in Approval |-> {}] /\ revoked = {} /\ pruned = {} /\ uncancelled = {}
  /\ restarted = FALSE /\ faults = 0

InvNext ==
  \/ \E a \in Approval : RequestApproval(a) \/ Approve(a) \/ Revoke(a) \/ Expire(a)
  \/ \E t \in Invocation :
       \/ \E k \in Key, a \in Approval \cup {NoApproval} : Invoke(t, k, a) \/ Accept(t, k, a)
       \/ CheckApproval(t) \/ Submit(t) \/ Retry(t) \/ Run(t)
       \/ Dispatch(t) \/ Work(t) \/ Receive(t) \/ Record(t)
  \/ \E k \in Key : TaskRetry(k) \/ TaskCancel(k) \/ TaskPrune(k)
  \/ LockExpires
  \/ RestartController

InvSpec == InvInit /\ [][InvNext]_invVars

-----------------------------------------------------------------------------
(* Properties.                                                             *)

\* The steps of an invocation that holds a slot of async_active.
Under == {"approve", "submit", "retry", "run", "lock", "wait", "record"}

\* The records have their types, and async_active counts the workers that are
\* under way: no path leaks a slot or gives one back twice.
InvTypeOK ==
  /\ \A k \in Key : task[k].state \in {"none", "queued", "running", "cancelling"} \cup TaskTerminal
  /\ \A a \in Approval : approval[a] \in {"none", "pending", "approved", "consumed", "revoked", "expired"}
  /\ lock \in Invocation \cup {NoHolder}
  /\ working \subseteq Invocation
  /\ active = Cardinality({t \in Invocation : inv[t].worker /\ inv[t].step \in Under})

\* An approval authorises one invocation, of the command it was given for,
\* whatever fails to be saved and however often the Controller restarts.
ApprovalSpentOnce ==
  \A a \in Approval : /\ Cardinality(spent[a]) <= 1
                      /\ \A t \in spent[a] : inv[t].key = CommandOf[a]

\* An approval whose revocation was confirmed is never again one that can be
\* used, not even after a restart.
RevokedForGood ==
  \A a \in revoked : {approval[a], disk.approval[a]} \cap {"pending", "approved"} = {}

\* The steps of an invocation whose task runs on its behalf.
Flight == {"lock", "wait", "record"}

\* While an invocation of a key is in flight at the Controller no other one of
\* the key is, and the Executor carries out no other, except one the Controller
\* gave up (its connection broke or its deadline passed) or lost in a restart: a
\* retry may then run beside the first.  Excused are keys whose task was pruned
\* while an invocation was at it, or that task.cancel could not stop:
\* TaskTable::retry takes a task that is FailedToCancel for one that has ended.
SingleFlight ==
  \A t, u \in Invocation :
    /\ t # u /\ inv[t].key = inv[u].key /\ inv[t].key \notin pruned \cup uncancelled
    /\ inv[t].step \in Flight
    => /\ inv[u].step \notin Flight
       /\ u \in working => restarted \/ inv[u].outcome \in {"failed", "outcome-unknown"}

\* Two commands work on the resource at once only if one of them was given up
\* because its connection broke or its lease ran out: a deadline that passes
\* never admits a second writer by itself.
OneWriter ==
  \A t, u \in working :
    t # u /\ ~restarted
    => \E x \in {t, u} : /\ inv[x].step \in {"record", "done"}
                         /\ inv[x].outcome = "failed" \/ inv[x].lapsed

\* What the Executor works on for an accepted asynchronous call has a task,
\* also after failing writes and restarts, unless the task was pruned.  (The
\* comment at executor.rs:3377 says so of every call; a synchronous one is
\* dispatched before its task is saved.)
WorkIsVisible ==
  \A t \in working : inv[t].worker => inv[t].key \in pruned \/ task[inv[t].key] # NoTask
=============================================================================
