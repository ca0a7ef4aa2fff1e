------------------------ MODULE ControllerWorkProofs ------------------------
(***************************************************************************)
(* Proofs about Invocations, for any sets of invocations, keys and         *)
(* approvals and any bounds; about Observability, for any number of        *)
(* Controllers and browsers and any bounds; and about the two together in  *)
(* MCControllerWork.                                                       *)
(*                                                                         *)
(* The inductive invariant of Invocations, CallIInv, has these parts:      *)
(* types and the shape of invocations (CallTypes, CallShape), the slots of *)
(* async_active (SlotsCounted), where approvals that were used or revoked  *)
(* stand in memory and in the state file (ApprovalsGone), what the task of *)
(* a command under way can be (FlightRuns), which commands have lost the   *)
(* lock (LockKept) and that tasks of accepted calls are saved (TasksKept). *)
(* The one of Observability, ObsIInv, follows an event from the store      *)
(* (LogTypes) through the poll that gathers it (PollTypes, Gathered,       *)
(* GatheredOnce) to the frames that browsers receive (FramesKept).         *)
(***************************************************************************)
EXTENDS MCControllerWork, FiniteSetTheorems, WellFoundedInduction, TLAPS

-----------------------------------------------------------------------------
(* Invocations *)

TaskState == {"none", "queued", "running", "cancelling"} \cup TaskTerminal
Task == [state: TaskState, attempt: Nat]
ApprovalState == {"none", "pending", "approved", "consumed", "revoked", "expired"}
Holder == Invocation \cup {NoHolder}
Outcome == {"none", "succeeded", "failed", "outcome-unknown"}
CallRecord == [step: Under \cup {"idle", "done"}, key: Key \cup {Idle.key},
               approval: Approval \cup {NoApproval}, worker: BOOLEAN, outcome: Outcome,
               lapsed: BOOLEAN]

CallTypes ==
  /\ task \in [Key -> Task] /\ approval \in [Approval -> ApprovalState] /\ lock \in Holder
  /\ disk \in [task: [Key -> Task], approval: [Approval -> ApprovalState], lock: Holder]
  /\ inv \in [Invocation -> CallRecord]
  /\ working \subseteq Invocation
  /\ spent \in [Approval -> SUBSET Invocation]
  /\ revoked \subseteq Approval /\ pruned \subseteq Key /\ uncancelled \subseteq Key
  /\ restarted \in BOOLEAN /\ faults \in Nat

\* An invocation that has not started is Idle, and one that has names a key.
ShapedCall(r) ==
  /\ r.step = "idle" => r = Idle
  /\ r.step # "idle" => r.key \in Key
  /\ r.outcome # "none" => r.step \in {"record", "done"}
  /\ r.step = "record" => r.outcome # "none"
\* What is held, carried out or authorised has started.
HeldStarted == \A t \in Invocation : t = lock \/ t = disk.lock \/ t \in working =>
                                     inv[t].step \in {"wait", "record", "done"}
SpentStarted == \A a \in Approval : \A t \in spent[a] :
                  inv[t].step # "idle" /\ inv[t].key = CommandOf[a]
CallShape == (\A t \in Invocation : ShapedCall(inv[t])) /\ HeldStarted /\ SpentStarted

\* The workers under way are as many as async_active counts.
Workers == {t \in Invocation : inv[t].worker /\ inv[t].step \in Under}
SlotsCounted == IsFiniteSet(Workers) /\ active = Cardinality(Workers)

\* An approval that was used, or whose revocation was confirmed, is not usable
\* again, in memory or in the state file.
Gone(a) ==
  /\ spent[a] # {} => /\ approval[a] \in {"consumed", "revoked"}
                      /\ disk.approval[a] \in {"consumed", "revoked"}
  /\ \A t, u \in spent[a] : t = u
  /\ a \in revoked => approval[a] = "revoked" /\ disk.approval[a] = "revoked"
ApprovalsGone == \A a \in Approval : Gone(a)

\* While a command is under way its task cannot be run again.
InFlight(t) == inv[t].step \in Flight
Excused == pruned \cup uncancelled
UncancelledKnown ==
  \A k \in Key : task[k].state = "failed-to-cancel" \/ disk.task[k].state = "failed-to-cancel"
                 => k \in uncancelled
FlightOn ==
  \A t \in Invocation : InFlight(t) /\ inv[t].key \notin Excused =>
    task[inv[t].key].state \in {"running", "cancelling", "cancelled"}
FlightAlone ==
  \A t, u \in Invocation :
    InFlight(t) /\ InFlight(u) /\ inv[t].key = inv[u].key => t = u \/ inv[t].key \in Excused
FlightRuns == UncancelledKnown /\ FlightOn /\ FlightAlone

\* A command that works has no answer, and its invocation ends only when the
\* Controller gives it up or restarts.
GivenUp ==
  \A t \in working : /\ inv[t].outcome # "succeeded"
                     /\ inv[t].step = "done" => restarted \/ inv[t].outcome # "none"

\* A command that works holds the lock, or is one whose connection broke or whose
\* lease ran out.
LockKept ==
  ~restarted =>
    \A t \in working : \/ lock = t
                       \/ /\ inv[t].step \in {"record", "done"}
                          /\ inv[t].outcome = "failed" \/ inv[t].lapsed

\* The task of an accepted call is there and saved, until it is pruned.
TasksKept ==
  \A t \in Invocation : inv[t].worker =>
    \/ inv[t].key \in pruned
    \/ task[inv[t].key].state # "none" /\ disk.task[inv[t].key].state # "none"

CallIInv ==
  /\ CallTypes /\ CallShape /\ SlotsCounted /\ ApprovalsGone /\ FlightRuns
  /\ GivenUp /\ LockKept /\ TasksKept

-----------------------------------------------------------------------------
(* How a step changes invocations and the state file.                      *)

\* Invocation t goes on to a step; everything else about invocations stays.
GoesTo(t, s) ==
  /\ inv'[t].step = s /\ inv'[t].key = inv[t].key /\ inv'[t].approval = inv[t].approval
  /\ inv'[t].worker = inv[t].worker /\ inv'[t].outcome = inv[t].outcome
  /\ inv'[t].lapsed = inv[t].lapsed
  /\ \A u \in Invocation \ {t} : inv'[u] = inv[u]

\* Invocation t starts.
Begins(t, s, k, a, worker) ==
  /\ inv'[t].step = s /\ inv'[t].key = k /\ inv'[t].approval = a
  /\ inv'[t].worker = worker /\ inv'[t].outcome = "none" /\ inv'[t].lapsed = FALSE
  /\ \A u \in Invocation \ {t} : inv'[u] = inv[u]

\* The state file is as the records are after the step, or as it was.
Written == disk'.task = task' /\ disk'.approval = approval' /\ disk'.lock = lock'
MayWrite == Written \/ disk' = disk

LEMMA StepGoes ==
  ASSUME CallTypes, NEW t \in Invocation, NEW s \in Under \cup {"idle", "done"}, Step(t, s)
  PROVE  inv' \in [Invocation -> CallRecord] /\ GoesTo(t, s)
  BY DEF CallTypes, Step, GoesTo, CallRecord

LEMMA EndsGoes ==
  ASSUME CallTypes, NEW t \in Invocation, Ends(t)
  PROVE  /\ inv' \in [Invocation -> CallRecord] /\ GoesTo(t, "done")
         /\ active' = IF inv[t].worker THEN active - 1 ELSE active
  BY DEF CallTypes, Ends, GoesTo, CallRecord

LEMMA StartBegins ==
  ASSUME CallTypes, NEW t \in Invocation, NEW s \in Under, NEW k \in Key,
         NEW a \in Approval \cup {NoApproval}, NEW w \in BOOLEAN,
         inv' = [inv EXCEPT ![t] = [Idle EXCEPT !.step = s, !.key = k, !.approval = a, !.worker = w]]
  PROVE  inv' \in [Invocation -> CallRecord] /\ Begins(t, s, k, a, w)
  <1> DEFINE r == [Idle EXCEPT !.step = s, !.key = k, !.approval = a, !.worker = w]
  <1>1. /\ r.step = s /\ r.key = k /\ r.approval = a /\ r.worker = w /\ r.outcome = "none"
        /\ r.lapsed = FALSE /\ r \in CallRecord
      BY DEF Idle, CallRecord, Outcome
  <1>2. inv' = [inv EXCEPT ![t] = r]
      OBVIOUS
  <1> HIDE DEF r
  <1> QED
      BY <1>1, <1>2 DEF CallTypes, Begins

LEMMA SavesWrites ==
  ASSUME CallTypes, task' \in [Key -> Task], approval' \in [Approval -> ApprovalState],
         lock' \in Holder, Saves \/ SaveFails
  PROVE  /\ disk' \in [task: [Key -> Task], approval: [Approval -> ApprovalState], lock: Holder]
         /\ MayWrite /\ faults' \in Nat
         /\ Saves => Written
  BY DEF CallTypes, Saves, Saved, SaveFails, MayWrite, Written

\* TaskTable::transition.
LEMMA MovedTask ==
  ASSUME CallTypes, NEW k \in Key,
         NEW to \in {"running", "cancelled", "succeeded", "failed", "outcome-unknown",
                     "cancelling", "failed-to-cancel"}
  PROVE  /\ Moved(k, to) \in [Key -> Task]
         /\ \A j \in Key \ {k} : Moved(k, to)[j] = task[j]
         /\ \/ Moved(k, to)[k] = task[k]
            \/ Moves(k, to) /\ Moved(k, to)[k].state = to
  BY DEF CallTypes, Task, TaskState, TaskTerminal, Moved

\* What the state file says of tasks and the lock is what it said or what is so.
TasksWritten == disk'.task = task' \/ disk'.task = disk.task
LockWritten == disk'.lock = lock' \/ disk'.lock = disk.lock

-----------------------------------------------------------------------------
(* What each action does, as far as the invariant is concerned.            *)

LEMMA ApprovalDoes ==
  ASSUME CallTypes, NEW a \in Approval,
         RequestApproval(a) \/ Approve(a) \/ Revoke(a) \/ Expire(a)
  PROVE  /\ CallTypes' /\ TasksWritten /\ LockWritten
         /\ UNCHANGED <<task, lock, inv, working, active, spent, pruned, uncancelled, restarted>>
         /\ \A b \in Approval :
              /\ approval[b] \in {"consumed", "revoked"} => approval'[b] \in {approval[b], "revoked"}
              /\ disk'.approval[b] \in {approval'[b], disk.approval[b]} \/ disk.approval[b] = "approved"
         /\ \A b \in revoked' : b \in revoked \/ (approval'[b] = "revoked" /\ disk'.approval[b] = "revoked")
         /\ revoked \subseteq revoked'
  <1>1. CASE RequestApproval(a) \/ Approve(a)
    <2>1. PICK s \in {"pending", "approved"} :
            /\ approval' = [approval EXCEPT ![a] = s]
            /\ approval[a] \in {"none", "pending"}
        BY <1>1 DEF RequestApproval, Approve, Requestable
    <2>2. /\ UNCHANGED <<task, lock, inv, working, active, spent, revoked, pruned, uncancelled, restarted>>
          /\ Saves \/ SaveFails
        BY <1>1 DEF RequestApproval, Approve
    <2>3. approval' \in [Approval -> ApprovalState]
        BY <2>1 DEF CallTypes, ApprovalState
    <2>4. task' \in [Key -> Task] /\ lock' \in Holder
        BY <2>2 DEF CallTypes
    <2>5. /\ disk' \in [task: [Key -> Task], approval: [Approval -> ApprovalState], lock: Holder]
          /\ MayWrite /\ faults' \in Nat
        BY <2>2, <2>3, <2>4, SavesWrites
    <2>6. CallTypes'
        BY <2>2, <2>3, <2>5 DEF CallTypes
    <2> QED
        BY <2>1, <2>2, <2>5, <2>6 DEF CallTypes, MayWrite, Written, TasksWritten, LockWritten
  <1>2. CASE Revoke(a)
    <2>1. /\ approval' = [approval EXCEPT ![a] = "revoked"]
          /\ UNCHANGED <<task, lock, inv, working, active, spent, pruned, uncancelled, restarted>>
          /\ (Saves /\ revoked' = revoked \cup {a}) \/ (SaveFails /\ UNCHANGED revoked)
        BY <1>2 DEF Revoke
    <2>2. approval' \in [Approval -> ApprovalState]
        BY <2>1 DEF CallTypes, ApprovalState
    <2>3. task' \in [Key -> Task] /\ lock' \in Holder
        BY <2>1 DEF CallTypes
    <2>4. /\ disk' \in [task: [Key -> Task], approval: [Approval -> ApprovalState], lock: Holder]
          /\ MayWrite /\ faults' \in Nat /\ (Saves => Written)
        BY <2>1, <2>2, <2>3, SavesWrites
    <2>5. revoked' \subseteq Approval
        BY <2>1 DEF CallTypes
    <2>6. CallTypes'
        BY <2>1, <2>2, <2>4, <2>5 DEF CallTypes
    <2> QED
        BY <2>1, <2>4, <2>6 DEF CallTypes, MayWrite, Written, TasksWritten, LockWritten
  <1>3. CASE Expire(a)
    <2>1. /\ approval' = [approval EXCEPT ![a] = "expired"] /\ approval[a] = "approved"
          /\ disk' = [disk EXCEPT !.approval[a] = IF @ = "approved" THEN "expired" ELSE @]
          /\ UNCHANGED <<task, lock, inv, working, active, spent, revoked, pruned, uncancelled,
                         restarted, faults>>
        BY <1>3 DEF Expire
    <2>2. /\ disk'.task = disk.task /\ disk'.lock = disk.lock
          /\ disk'.approval = [disk.approval EXCEPT ![a] = IF @ = "approved" THEN "expired" ELSE @]
          /\ disk' \in [task: [Key -> Task], approval: [Approval -> ApprovalState], lock: Holder]
        BY <2>1 DEF CallTypes, ApprovalState
    <2>3. approval' \in [Approval -> ApprovalState]
        BY <2>1 DEF CallTypes, ApprovalState
    <2>4. CallTypes'
        BY <2>1, <2>2, <2>3 DEF CallTypes
    <2> QED
        BY <2>1, <2>2, <2>4 DEF CallTypes, TasksWritten, LockWritten
  <1> QED
      BY <1>1, <1>2, <1>3

LEMMA InvokeDoes ==
  ASSUME CallTypes, NEW t \in Invocation, NEW k \in Key, NEW a \in Approval \cup {NoApproval},
         Invoke(t, k, a)
  PROVE  /\ CallTypes' /\ inv[t] = Idle
         /\ \E s \in {"approve", "submit"} : Begins(t, s, k, a, FALSE)
         /\ UNCHANGED <<records, disk, working, active, spent, revoked, pruned, uncancelled, restarted>>
  <1>1. FirstStep(k) \in {"approve", "submit"} /\ {"approve", "submit"} \subseteq Under
      BY DEF FirstStep, Under
  <1> DEFINE r == [Idle EXCEPT !.step = FirstStep(k), !.key = k, !.approval = a]
  <1>2. /\ r.step = FirstStep(k) /\ r.key = k /\ r.approval = a /\ r.worker = FALSE
        /\ r.outcome = "none" /\ r.lapsed = FALSE /\ r \in CallRecord
      BY <1>1 DEF Idle, CallRecord, Outcome
  <1>2a. inv' = [inv EXCEPT ![t] = r]
      BY DEF Invoke
  <1> HIDE DEF r
  <1>3. inv' \in [Invocation -> CallRecord] /\ Begins(t, FirstStep(k), k, a, FALSE)
      BY <1>2, <1>2a DEF CallTypes, Begins
  <1>4. CallTypes'
      BY <1>3 DEF Invoke, CallTypes, records
  <1> QED
      BY <1>1, <1>3, <1>4 DEF Invoke

LEMMA AcceptDoes ==
  ASSUME CallTypes, NEW t \in Invocation, NEW k \in Key, NEW a \in Approval \cup {NoApproval},
         Accept(t, k, a)
  PROVE  /\ CallTypes' /\ inv[t] = Idle /\ TasksWritten /\ LockWritten /\ MayWrite
         /\ UNCHANGED <<approval, lock, working, spent, revoked, pruned, uncancelled, restarted>>
         /\ \/ /\ GoesTo(t, "done") /\ UNCHANGED active
               /\ task' = task
            \/ /\ GoesTo(t, "done") /\ UNCHANGED active
               /\ task[k] = NoTask /\ task' = [task EXCEPT ![k] = NewTask]
            \/ /\ task[k] = NoTask /\ task' = [task EXCEPT ![k] = NewTask]
               /\ disk'.task = task' /\ active' = active + 1
               /\ \E s \in {"approve", "submit"} : Begins(t, s, k, a, TRUE)
  <1>1. FirstStep(k) \in {"approve", "submit"} /\ {"approve", "submit"} \subseteq Under
      BY DEF FirstStep, Under
  <1>2. /\ inv[t] = Idle
        /\ UNCHANGED <<approval, lock, working, spent, revoked, pruned, uncancelled, restarted>>
      BY DEF Accept
  <1>3. CASE task[k] # NoTask
    <2>1. Step(t, "done") /\ UNCHANGED <<task, disk, active, faults>>
        BY <1>3 DEF Accept
    <2>2. inv' \in [Invocation -> CallRecord] /\ GoesTo(t, "done")
        BY <2>1, StepGoes
    <2>3. CallTypes'
        BY <1>2, <2>1, <2>2 DEF CallTypes
    <2> QED
        BY <1>2, <2>1, <2>2, <2>3 DEF TasksWritten, LockWritten, MayWrite
  <1>4. CASE task[k] = NoTask
    <2>1. /\ task' = [task EXCEPT ![k] = NewTask]
          /\ \/ /\ Saves
                /\ active' = active + 1
                /\ inv' = [inv EXCEPT ![t] = [Idle EXCEPT !.step = FirstStep(k), !.key = k,
                                                          !.approval = a, !.worker = TRUE]]
             \/ SaveFails /\ Step(t, "done") /\ UNCHANGED active
        BY <1>4 DEF Accept
    <2>2. task' \in [Key -> Task]
        BY <2>1 DEF CallTypes, NewTask, Task, TaskState
    <2>3. approval' \in [Approval -> ApprovalState] /\ lock' \in Holder
        BY <1>2 DEF CallTypes
    <2>4. /\ disk' \in [task: [Key -> Task], approval: [Approval -> ApprovalState], lock: Holder]
          /\ MayWrite /\ faults' \in Nat /\ (Saves => Written)
        BY <2>1, <2>2, <2>3, SavesWrites
    <2>5. TasksWritten /\ LockWritten
        BY <2>4 DEF MayWrite, Written, TasksWritten, LockWritten
    <2>6. CASE SaveFails /\ Step(t, "done") /\ UNCHANGED active
      <3>1. inv' \in [Invocation -> CallRecord] /\ GoesTo(t, "done")
          BY <2>6, StepGoes
      <3>2. CallTypes'
          BY <1>2, <2>2, <2>4, <3>1 DEF CallTypes
      <3> QED
          BY <1>2, <1>4, <2>1, <2>4, <2>5, <2>6, <3>1, <3>2
    <2>7. CASE /\ Saves
               /\ active' = active + 1
               /\ inv' = [inv EXCEPT ![t] = [Idle EXCEPT !.step = FirstStep(k), !.key = k,
                                                         !.approval = a, !.worker = TRUE]]
      <3>1. inv' \in [Invocation -> CallRecord] /\ Begins(t, FirstStep(k), k, a, TRUE)
          BY <1>1, <2>7, StartBegins
      <3>2. CallTypes'
          BY <1>2, <2>2, <2>4, <3>1 DEF CallTypes
      <3>3. disk'.task = task'
          BY <2>4, <2>7 DEF Written
      <3> QED
          BY <1>1, <1>2, <1>4, <2>1, <2>4, <2>5, <2>7, <3>1, <3>2, <3>3
    <2> QED
        BY <2>1, <2>6, <2>7
  <1> QED
      BY <1>3, <1>4

\* Invocation t ends, or goes on without giving up its slot.
EndsOr(t, s) ==
  \/ GoesTo(t, "done") /\ active' = IF inv[t].worker THEN active - 1 ELSE active
  \/ GoesTo(t, s) /\ UNCHANGED active

LEMMA CheckApprovalDoes ==
  ASSUME CallTypes, NEW t \in Invocation, CheckApproval(t)
  PROVE  /\ CallTypes' /\ inv[t].step = "approve" /\ TasksWritten /\ LockWritten /\ MayWrite
         /\ UNCHANGED <<task, lock, working, revoked, pruned, uncancelled, restarted>>
         /\ EndsOr(t, "submit")
         /\ \A b \in Approval :
              \/ approval'[b] = approval[b] /\ spent'[b] = spent[b]
              \/ /\ approval[b] = "approved" /\ approval'[b] = "consumed"
                 /\ CommandOf[b] = inv[t].key
                 /\ \/ spent'[b] = spent[b] /\ disk' = disk
                    \/ spent'[b] = spent[b] \cup {t} /\ Written
  <1> DEFINE a == inv[t].approval
             k == inv[t].key
  <1>0. /\ inv[t].step = "approve"
        /\ UNCHANGED <<task, lock, working, revoked, pruned, uncancelled, restarted>>
      BY DEF CheckApproval
  <1>1. CASE ~Authorizes(a, k)
    <2>1. Ends(t) /\ UNCHANGED <<approval, disk, spent, faults>>
        BY <1>1 DEF CheckApproval
    <2>2. /\ inv' \in [Invocation -> CallRecord] /\ GoesTo(t, "done")
          /\ active' = IF inv[t].worker THEN active - 1 ELSE active
        BY <2>1, EndsGoes
    <2>3. CallTypes'
        BY <1>0, <2>1, <2>2 DEF CallTypes
    <2> QED
        BY <1>0, <2>1, <2>2, <2>3 DEF EndsOr, TasksWritten, LockWritten, MayWrite
  <1>2. CASE Authorizes(a, k)
    <2>1. a \in Approval /\ approval[a] = "approved" /\ CommandOf[a] = k
        BY <1>2 DEF Authorizes, CallTypes, CallRecord
    <2>2. /\ approval' = [approval EXCEPT ![a] = "consumed"]
          /\ (Saves /\ Step(t, "submit") /\ UNCHANGED active) \/ (SaveFails /\ Ends(t))
          /\ spent' = [spent EXCEPT ![a] = IF inv'[t].step = "submit" THEN @ \cup {t} ELSE @]
        BY <1>2 DEF CheckApproval, Consumed
    <2>3. approval' \in [Approval -> ApprovalState]
        BY <2>2 DEF CallTypes, ApprovalState
    <2>4. task' \in [Key -> Task] /\ lock' \in Holder
        BY <1>0 DEF CallTypes
    <2>5. /\ disk' \in [task: [Key -> Task], approval: [Approval -> ApprovalState], lock: Holder]
          /\ MayWrite /\ faults' \in Nat /\ (Saves => Written)
        BY <2>2, <2>3, <2>4, SavesWrites
    <2>6. TasksWritten /\ LockWritten
        BY <2>5 DEF MayWrite, Written, TasksWritten, LockWritten
    <2>7. spent' \in [Approval -> SUBSET Invocation]
        BY <2>2 DEF CallTypes
    <2>8. CASE Saves /\ Step(t, "submit") /\ UNCHANGED active
      <3>1. inv' \in [Invocation -> CallRecord] /\ GoesTo(t, "submit")
          BY <2>8, StepGoes DEF Under
      <3>2. CallTypes'
          BY <1>0, <2>3, <2>5, <2>7, <3>1 DEF CallTypes
      <3>3. spent' = [spent EXCEPT ![a] = spent[a] \cup {t}]
          BY <2>2, <3>1 DEF GoesTo
      <3>4. Written
          BY <2>5, <2>8
      <3>5. EndsOr(t, "submit")
          BY <2>8, <3>1 DEF EndsOr
      <3>6. \A b \in Approval :
              \/ approval'[b] = approval[b] /\ spent'[b] = spent[b]
              \/ /\ approval[b] = "approved" /\ approval'[b] = "consumed"
                 /\ CommandOf[b] = inv[t].key
                 /\ spent'[b] = spent[b] \cup {t}
          BY <2>1, <2>2, <3>3 DEF CallTypes
      <3> QED
          BY <1>0, <2>5, <2>6, <3>2, <3>4, <3>5, <3>6
    <2>9. CASE SaveFails /\ Ends(t)
      <3>1. /\ inv' \in [Invocation -> CallRecord] /\ GoesTo(t, "done")
            /\ active' = IF inv[t].worker THEN active - 1 ELSE active
          BY <2>9, EndsGoes
      <3>2. CallTypes'
          BY <1>0, <2>3, <2>5, <2>7, <3>1 DEF CallTypes
      <3>3. spent' = spent
          BY <2>2, <3>1 DEF GoesTo, CallTypes
      <3>4. disk' = disk
          BY <2>9 DEF SaveFails
      <3>5. EndsOr(t, "submit")
          BY <3>1 DEF EndsOr
      <3>6. \A b \in Approval :
              \/ approval'[b] = approval[b]
              \/ /\ approval[b] = "approved" /\ approval'[b] = "consumed"
                 /\ CommandOf[b] = inv[t].key
          BY <2>1, <2>2 DEF CallTypes
      <3> QED
          BY <1>0, <2>5, <2>6, <3>2, <3>3, <3>4, <3>5, <3>6
    <2> QED
        BY <2>2, <2>8, <2>9
  <1> QED
      BY <1>1, <1>2

\* An invocation that has started names a key.
LEMMA StartedKey ==
  ASSUME CallShape, NEW t \in Invocation, inv[t].step # "idle" PROVE inv[t].key \in Key
  BY DEF CallShape, ShapedCall

LEMMA SubmitDoes ==
  ASSUME CallTypes, CallShape, NEW t \in Invocation, Submit(t)
  PROVE  /\ CallTypes' /\ inv[t].step = "submit" /\ inv[t].key \in Key
         /\ UNCHANGED <<approval, lock, disk, working, spent, revoked, pruned, uncancelled, restarted>>
         /\ EndsOr(t, "retry") \/ EndsOr(t, "run")
         /\ \/ task' = task
            \/ task[inv[t].key] = NoTask /\ task' = [task EXCEPT ![inv[t].key] = NewTask]
  <1>1. inv[t].step = "submit" /\ inv[t].key \in Key
      BY StartedKey DEF Submit
  <1>2. UNCHANGED <<approval, lock, disk, working, spent, revoked, pruned, uncancelled, restarted, faults>>
      BY DEF Submit
  <1>3. /\ Ends(t) \/ ((Step(t, "run") \/ Step(t, "retry")) /\ UNCHANGED active)
        /\ \/ task' = task
           \/ task[inv[t].key] = NoTask /\ task' = [task EXCEPT ![inv[t].key] = NewTask]
      BY DEF Submit
  <1>4. task' \in [Key -> Task]
      BY <1>1, <1>3 DEF CallTypes, NewTask, Task, TaskState
  <1>5. inv' \in [Invocation -> CallRecord] /\ (EndsOr(t, "retry") \/ EndsOr(t, "run"))
      BY <1>3, EndsGoes, StepGoes DEF EndsOr, Under
  <1>6. CallTypes'
      BY <1>2, <1>4, <1>5 DEF CallTypes
  <1> QED
      BY <1>1, <1>2, <1>3, <1>5, <1>6

LEMMA RetryDoes ==
  ASSUME CallTypes, CallShape, NEW t \in Invocation, Retry(t)
  PROVE  /\ CallTypes' /\ inv[t].step = "retry" /\ inv[t].key \in Key
         /\ UNCHANGED <<approval, lock, disk, working, spent, revoked, pruned, uncancelled, restarted>>
         /\ EndsOr(t, "run")
         /\ \A k \in Key : \/ task'[k] = task[k]
                           \/ Retryable(k) /\ task'[k].state = "queued"
  <1>1. inv[t].step = "retry" /\ inv[t].key \in Key
      BY StartedKey DEF Retry
  <1>2. UNCHANGED <<approval, lock, disk, working, spent, revoked, pruned, uncancelled, restarted, faults>>
      BY DEF Retry
  <1>3. /\ Ends(t) \/ (Step(t, "run") /\ UNCHANGED active)
        /\ \/ task' = task
           \/ Retryable(inv[t].key) /\ task' = [task EXCEPT ![inv[t].key].state = "queued"]
      BY DEF Retry
  <1>4. /\ task' \in [Key -> Task]
        /\ \A k \in Key : task'[k] = task[k] \/ (Retryable(k) /\ task'[k].state = "queued")
      BY <1>1, <1>3 DEF CallTypes, Task, TaskState
  <1>5. inv' \in [Invocation -> CallRecord] /\ EndsOr(t, "run")
      BY <1>3, EndsGoes, StepGoes DEF EndsOr, Under
  <1>6. CallTypes'
      BY <1>2, <1>4, <1>5 DEF CallTypes
  <1> QED
      BY <1>1, <1>2, <1>4, <1>5, <1>6

LEMMA RunDoes ==
  ASSUME CallTypes, CallShape, NEW t \in Invocation, Run(t)
  PROVE  /\ CallTypes' /\ inv[t].step = "run" /\ inv[t].key \in Key
         /\ UNCHANGED <<approval, lock, disk, working, spent, revoked, pruned, uncancelled, restarted>>
         /\ \/ /\ GoesTo(t, "done") /\ active' = IF inv[t].worker THEN active - 1 ELSE active
               /\ task' = task
            \/ /\ GoesTo(t, "lock") /\ UNCHANGED active
               /\ task[inv[t].key].state = "queued" /\ task'[inv[t].key].state = "running"
               /\ \A k \in Key \ {inv[t].key} : task'[k] = task[k]
  <1>1. inv[t].step = "run" /\ inv[t].key \in Key
      BY StartedKey DEF Run
  <1>2. UNCHANGED <<approval, lock, disk, working, spent, revoked, pruned, uncancelled, restarted, faults>>
      BY DEF Run
  <1>3. CASE Moves(inv[t].key, "running")
    <2>1. /\ task' = [task EXCEPT ![inv[t].key] = [state |-> "running", attempt |-> @.attempt + 1]]
          /\ Step(t, "lock") /\ UNCHANGED active /\ task[inv[t].key].state = "queued"
        BY <1>3 DEF Run, Moves
    <2>2. task[inv[t].key].attempt + 1 \in Nat
        BY <1>1 DEF CallTypes, Task
    <2>3. /\ task' \in [Key -> Task] /\ task'[inv[t].key].state = "running"
          /\ \A k \in Key \ {inv[t].key} : task'[k] = task[k]
        BY <1>1, <2>1, <2>2 DEF CallTypes, Task, TaskState
    <2>4. inv' \in [Invocation -> CallRecord] /\ GoesTo(t, "lock")
        BY <2>1, StepGoes DEF Under
    <2>5. CallTypes'
        BY <1>2, <2>3, <2>4 DEF CallTypes
    <2> QED
        BY <1>1, <1>2, <2>1, <2>3, <2>4, <2>5
  <1>4. CASE ~Moves(inv[t].key, "running")
    <2>1. Ends(t) /\ task' = task
        BY <1>4 DEF Run
    <2>2. /\ inv' \in [Invocation -> CallRecord] /\ GoesTo(t, "done")
          /\ active' = IF inv[t].worker THEN active - 1 ELSE active
        BY <2>1, EndsGoes
    <2>3. CallTypes'
        BY <1>2, <2>1, <2>2 DEF CallTypes
    <2> QED
        BY <1>1, <1>2, <2>1, <2>2, <2>3
  <1> QED
      BY <1>3, <1>4

LEMMA DispatchDoes ==
  ASSUME CallTypes, CallShape, NEW t \in Invocation, Dispatch(t)
  PROVE  /\ CallTypes' /\ inv[t].step = "lock" /\ inv[t].key \in Key
         /\ UNCHANGED <<approval, spent, revoked, pruned, uncancelled, restarted>>
         /\ \/ /\ lock = NoHolder /\ lock' = t /\ working' = working \cup {t}
               /\ GoesTo(t, "wait") /\ UNCHANGED <<task, disk, active>>
            \/ /\ UNCHANGED <<lock, working>> /\ MayWrite
               /\ GoesTo(t, "done") /\ active' = IF inv[t].worker THEN active - 1 ELSE active
               /\ \A j \in Key \ {inv[t].key} : task'[j] = task[j]
               /\ \/ task'[inv[t].key] = task[inv[t].key]
                  \/ task'[inv[t].key].state = "failed"
  <1>0. \/ LockFree /\ lock' = t /\ Step(t, "wait") /\ working' = working \cup {t}
           /\ UNCHANGED <<task, disk, active, faults>>
        \/ ~LockFree /\ task' = Moved(inv[t].key, "failed") /\ UNCHANGED <<lock, working>>
           /\ (Saves \/ SaveFails) /\ Ends(t)
        \/ Ends(t) /\ UNCHANGED <<task, lock, working, disk, faults>>
      BY DEF Dispatch
  <1>1. /\ inv[t].step = "lock" /\ inv[t].key \in Key
        /\ UNCHANGED <<approval, spent, revoked, pruned, uncancelled, restarted>>
      BY StartedKey DEF Dispatch
  <1>2. CASE LockFree /\ lock' = t /\ Step(t, "wait") /\ working' = working \cup {t}
             /\ UNCHANGED <<task, disk, active, faults>>
    <2>1. /\ lock = NoHolder /\ lock' = t /\ working' = working \cup {t}
          /\ Step(t, "wait") /\ UNCHANGED <<task, disk, active, faults>>
        BY <1>2 DEF LockFree
    <2>2. inv' \in [Invocation -> CallRecord] /\ GoesTo(t, "wait")
        BY <2>1, StepGoes DEF Under
    <2>3. CallTypes'
        BY <1>1, <2>1, <2>2 DEF CallTypes, Holder
    <2> QED
        BY <1>1, <2>1, <2>2, <2>3
  <1>3. CASE ~LockFree /\ task' = Moved(inv[t].key, "failed") /\ UNCHANGED <<lock, working>>
             /\ (Saves \/ SaveFails) /\ Ends(t)
    <2>1. /\ task' = Moved(inv[t].key, "failed") /\ UNCHANGED <<lock, working>>
          /\ Saves \/ SaveFails
          /\ Ends(t)
        BY <1>3
    <2>2. /\ task' \in [Key -> Task]
          /\ \A j \in Key \ {inv[t].key} : task'[j] = task[j]
          /\ task'[inv[t].key] = task[inv[t].key] \/ task'[inv[t].key].state = "failed"
        BY <1>1, <2>1, MovedTask
    <2>3. approval' \in [Approval -> ApprovalState] /\ lock' \in Holder
        BY <1>1, <2>1 DEF CallTypes
    <2>4. /\ disk' \in [task: [Key -> Task], approval: [Approval -> ApprovalState], lock: Holder]
          /\ MayWrite /\ faults' \in Nat
        BY <2>1, <2>2, <2>3, SavesWrites
    <2>5. /\ inv' \in [Invocation -> CallRecord] /\ GoesTo(t, "done")
          /\ active' = IF inv[t].worker THEN active - 1 ELSE active
        BY <2>1, EndsGoes
    <2>6. CallTypes'
        BY <1>1, <2>1, <2>2, <2>4, <2>5 DEF CallTypes
    <2> QED
        BY <1>1, <2>1, <2>2, <2>4, <2>5, <2>6
  <1>4. CASE Ends(t) /\ UNCHANGED <<task, lock, working, disk, faults>>
    <2>1. /\ inv' \in [Invocation -> CallRecord] /\ GoesTo(t, "done")
          /\ active' = IF inv[t].worker THEN active - 1 ELSE active
        BY <1>4, EndsGoes
    <2>2. CallTypes'
        BY <1>1, <1>4, <2>1 DEF CallTypes
    <2> QED
        BY <1>1, <1>4, <2>1, <2>2 DEF MayWrite
  <1> QED
      BY <1>0, <1>2, <1>3, <1>4

LEMMA WorkDoes ==
  ASSUME CallTypes, NEW t \in Invocation, Work(t)
  PROVE  /\ CallTypes' /\ working' \subseteq working
         /\ UNCHANGED <<records, disk, inv, active, spent, revoked, pruned, uncancelled, restarted>>
  BY DEF Work, CallTypes, records

LEMMA ReceiveDoes ==
  ASSUME CallTypes, CallShape, NEW t \in Invocation, Receive(t)
  PROVE  /\ CallTypes' /\ inv[t].step = "wait" /\ inv[t].key \in Key
         /\ UNCHANGED <<task, approval, disk, working, active, spent, revoked, pruned, uncancelled,
                        restarted>>
         /\ inv'[t].step = "record" /\ inv'[t].key = inv[t].key
         /\ inv'[t].worker = inv[t].worker /\ inv'[t].outcome # "none"
         /\ \A u \in Invocation \ {t} : inv'[u] = inv[u]
         /\ \/ lock' = lock
            \/ lock = t /\ lock' = NoHolder /\ inv'[t].outcome # "outcome-unknown"
         /\ inv'[t].outcome = "succeeded" => t \notin working
  <1>1. /\ inv[t].step = "wait" /\ inv[t].key \in Key
        /\ UNCHANGED <<task, approval, disk, working, active, spent, revoked, pruned, uncancelled,
                       restarted, faults>>
      BY StartedKey DEF Receive
  <1>2. PICK o \in Outcomes(t) :
          /\ lock' = IF lock = t /\ ~Kept(o) THEN NoHolder ELSE lock
          /\ inv' = [inv EXCEPT ![t].step = "record", ![t].outcome = o]
      BY DEF Receive
  <1>3. o \in {"succeeded", "failed", "outcome-unknown"} /\ (o = "succeeded" => t \notin working)
      BY DEF Outcomes
  <1>4. /\ inv' \in [Invocation -> CallRecord]
        /\ inv'[t].step = "record" /\ inv'[t].key = inv[t].key
        /\ inv'[t].worker = inv[t].worker /\ inv'[t].outcome = o
        /\ \A u \in Invocation \ {t} : inv'[u] = inv[u]
    <2> DEFINE mid == [inv EXCEPT ![t].step = "record"]
    <2>1. /\ mid \in [Invocation -> CallRecord] /\ mid[t].step = "record"
          /\ mid[t].key = inv[t].key /\ mid[t].worker = inv[t].worker
          /\ \A u \in Invocation \ {t} : mid[u] = inv[u]
        BY DEF CallTypes, CallRecord, Under
    <2>2. inv' = [mid EXCEPT ![t].outcome = o]
        BY <1>2
    <2> HIDE DEF mid
    <2> QED
        BY <1>3, <2>1, <2>2 DEF CallRecord, Outcome
  <1>5. lock' \in Holder
      BY <1>2 DEF CallTypes, Holder
  <1>6. CallTypes'
      BY <1>1, <1>4, <1>5 DEF CallTypes
  <1> QED
      BY <1>1, <1>2, <1>3, <1>4, <1>6 DEF Kept

LEMMA RecordDoes ==
  ASSUME CallTypes, CallShape, NEW t \in Invocation, Record(t)
  PROVE  /\ CallTypes' /\ inv[t].step = "record" /\ inv[t].key \in Key
         /\ UNCHANGED <<approval, lock, working, spent, revoked, pruned, uncancelled, restarted>>
         /\ MayWrite
         /\ GoesTo(t, "done") /\ active' = IF inv[t].worker THEN active - 1 ELSE active
         /\ \A j \in Key \ {inv[t].key} : task'[j] = task[j]
         /\ \/ task'[inv[t].key] = task[inv[t].key]
            \/ task'[inv[t].key].state \in {"succeeded", "failed", "outcome-unknown"}
  <1>1. /\ inv[t].step = "record" /\ inv[t].key \in Key
        /\ UNCHANGED <<approval, lock, working, spent, revoked, pruned, uncancelled, restarted>>
        /\ task' = Moved(inv[t].key, inv[t].outcome) /\ Ends(t)
        /\ (Saves \/ SaveFails) \/ UNCHANGED <<disk, faults>>
      BY StartedKey DEF Record
  <1>2. inv[t].outcome \in {"succeeded", "failed", "outcome-unknown"}
      BY <1>1 DEF CallShape, ShapedCall, CallTypes, CallRecord, Outcome
  <1>3. /\ task' \in [Key -> Task]
        /\ \A j \in Key \ {inv[t].key} : task'[j] = task[j]
        /\ \/ task'[inv[t].key] = task[inv[t].key]
           \/ task'[inv[t].key].state \in {"succeeded", "failed", "outcome-unknown"}
      BY <1>1, <1>2, MovedTask
  <1>4. approval' \in [Approval -> ApprovalState] /\ lock' \in Holder
      BY <1>1 DEF CallTypes
  <1>5. /\ disk' \in [task: [Key -> Task], approval: [Approval -> ApprovalState], lock: Holder]
        /\ MayWrite /\ faults' \in Nat
    <2>1. CASE Saves \/ SaveFails
        BY <1>3, <1>4, <2>1, SavesWrites
    <2>2. CASE UNCHANGED <<disk, faults>>
        BY <2>2 DEF CallTypes, MayWrite
    <2> QED
        BY <1>1, <2>1, <2>2
  <1>6. /\ inv' \in [Invocation -> CallRecord] /\ GoesTo(t, "done")
        /\ active' = IF inv[t].worker THEN active - 1 ELSE active
      BY <1>1, EndsGoes
  <1>7. CallTypes'
      BY <1>1, <1>3, <1>5, <1>6 DEF CallTypes
  <1> QED
      BY <1>1, <1>3, <1>5, <1>6, <1>7

LEMMA LockExpiresDoes ==
  ASSUME CallTypes, LockExpires
  PROVE  /\ CallTypes' /\ lock \in Invocation /\ inv[lock].step # "wait" /\ lock' = NoHolder
         /\ \A u \in Invocation \ {lock} : inv'[u] = inv[u]
         /\ inv'[lock].lapsed = TRUE /\ inv'[lock].step = inv[lock].step
         /\ inv'[lock].key = inv[lock].key /\ inv'[lock].worker = inv[lock].worker
         /\ inv'[lock].outcome = inv[lock].outcome
         /\ UNCHANGED <<task, approval, disk, working, active, spent, revoked, pruned, uncancelled,
                        restarted>>
  <1>1. /\ lock \in Invocation /\ inv[lock].step # "wait" /\ lock' = NoHolder
        /\ inv' = [inv EXCEPT ![lock].lapsed = TRUE]
        /\ UNCHANGED <<task, approval, disk, working, active, spent, revoked, pruned, uncancelled,
                       restarted, faults>>
      BY DEF LockExpires, CallTypes, Holder
  <1>2. /\ inv' \in [Invocation -> CallRecord]
        /\ \A u \in Invocation \ {lock} : inv'[u] = inv[u]
        /\ inv'[lock].lapsed = TRUE /\ inv'[lock].step = inv[lock].step
        /\ inv'[lock].key = inv[lock].key /\ inv'[lock].worker = inv[lock].worker
        /\ inv'[lock].outcome = inv[lock].outcome
      BY <1>1 DEF CallTypes, CallRecord
  <1>3. CallTypes'
      BY <1>1, <1>2 DEF CallTypes, Holder
  <1> QED
      BY <1>1, <1>2, <1>3

LEMMA TaskRetryDoes ==
  ASSUME CallTypes, NEW k \in Key, TaskRetry(k)
  PROVE  /\ CallTypes' /\ MayWrite
         /\ UNCHANGED <<approval, lock, inv, working, active, spent, revoked, pruned, uncancelled,
                        restarted>>
         /\ Retryable(k) /\ task'[k].state = "queued"
         /\ \A j \in Key \ {k} : task'[j] = task[j]
  <1>1. /\ task' = [task EXCEPT ![k].state = "queued"] /\ Retryable(k)
        /\ UNCHANGED <<approval, lock, inv, working, active, spent, revoked, pruned, uncancelled,
                       restarted>>
        /\ Saves \/ SaveFails
      BY DEF TaskRetry
  <1>2. /\ task' \in [Key -> Task] /\ task'[k].state = "queued"
        /\ \A j \in Key \ {k} : task'[j] = task[j]
      BY <1>1 DEF CallTypes, Task, TaskState
  <1>3. approval' \in [Approval -> ApprovalState] /\ lock' \in Holder
      BY <1>1 DEF CallTypes
  <1>4. /\ disk' \in [task: [Key -> Task], approval: [Approval -> ApprovalState], lock: Holder]
        /\ MayWrite /\ faults' \in Nat
      BY <1>1, <1>2, <1>3, SavesWrites
  <1>5. CallTypes'
      BY <1>1, <1>2, <1>4 DEF CallTypes
  <1> QED
      BY <1>1, <1>2, <1>4, <1>5

LEMMA TaskCancelDoes ==
  ASSUME CallTypes, NEW k \in Key, TaskCancel(k)
  PROVE  /\ CallTypes' /\ MayWrite
         /\ UNCHANGED <<approval, lock, inv, working, active, spent, revoked, pruned, restarted>>
         /\ \A j \in Key \ {k} : task'[j] = task[j]
         /\ task[k].state # "none"
         /\ task'[k].state \in {"cancelled", "cancelling", "failed-to-cancel"}
         /\ uncancelled' = IF task'[k].state = "failed-to-cancel" THEN uncancelled \cup {k}
                                                                 ELSE uncancelled
  <1>1. /\ uncancelled' = IF task'[k].state = "failed-to-cancel" THEN uncancelled \cup {k}
                                                                 ELSE uncancelled
        /\ UNCHANGED <<approval, lock, inv, working, active, spent, revoked, pruned, restarted>>
        /\ Saves \/ SaveFails
      BY DEF TaskCancel
  <1>2. PICK to \in {"cancelled", "cancelling", "failed-to-cancel"} :
          Moves(k, to) /\ task' = Moved(k, to) /\ task[k].state # "none"
      BY DEF TaskCancel, Moves
  <1>2a. task' = [task EXCEPT ![k].state = to]
      BY <1>2 DEF Moved
  <1>3. /\ task' \in [Key -> Task]
        /\ \A j \in Key \ {k} : task'[j] = task[j]
        /\ task'[k].state = to
      BY <1>2a DEF CallTypes, Task, TaskState, TaskTerminal
  <1>4. approval' \in [Approval -> ApprovalState] /\ lock' \in Holder
      BY <1>1 DEF CallTypes
  <1>5. /\ disk' \in [task: [Key -> Task], approval: [Approval -> ApprovalState], lock: Holder]
        /\ MayWrite /\ faults' \in Nat
      BY <1>1, <1>3, <1>4, SavesWrites
  <1>6. CallTypes'
      BY <1>1, <1>3, <1>5 DEF CallTypes
  <1> QED
      BY <1>1, <1>2, <1>3, <1>5, <1>6

LEMMA TaskPruneDoes ==
  ASSUME CallTypes, NEW k \in Key, TaskPrune(k)
  PROVE  /\ CallTypes' /\ MayWrite
         /\ UNCHANGED <<approval, lock, inv, working, active, spent, revoked, uncancelled, restarted>>
         /\ \A j \in Key \ {k} : task'[j] = task[j]
         /\ task'[k] = NoTask /\ pruned' = pruned \cup {k}
  <1>1. /\ pruned' = pruned \cup {k} /\ task' = [task EXCEPT ![k] = NoTask]
        /\ UNCHANGED <<approval, lock, inv, working, active, spent, revoked, uncancelled, restarted>>
        /\ Saved \/ UNCHANGED disk
        /\ faults' = faults + 1
      BY DEF TaskPrune
  <1>2. /\ task' \in [Key -> Task] /\ task'[k] = NoTask
        /\ \A j \in Key \ {k} : task'[j] = task[j]
      BY <1>1 DEF CallTypes, Task, TaskState, NoTask
  <1>3. /\ disk' \in [task: [Key -> Task], approval: [Approval -> ApprovalState], lock: Holder]
        /\ MayWrite
    <2>1. approval' \in [Approval -> ApprovalState] /\ lock' \in Holder
        BY <1>1 DEF CallTypes
    <2>2. CASE Saved
        BY <1>2, <2>1, <2>2 DEF Saved, MayWrite, Written
    <2>3. CASE UNCHANGED disk
        BY <2>3 DEF CallTypes, MayWrite
    <2> QED
        BY <1>1, <2>2, <2>3
  <1>4. CallTypes'
      BY <1>1, <1>2, <1>3 DEF CallTypes
  <1> QED
      BY <1>1, <1>2, <1>3, <1>4

LEMMA RestartControllerDoes ==
  ASSUME CallTypes, CallShape, RestartController
  PROVE  /\ CallTypes' /\ active' = 0 /\ restarted' = TRUE
         /\ UNCHANGED <<working, spent, revoked, pruned, uncancelled>>
         /\ disk'.task = task' /\ disk'.approval = approval' /\ disk'.lock = lock'
         /\ approval' = disk.approval /\ lock' = disk.lock
         /\ \A k \in Key : \/ task'[k] = disk.task[k]
                           \/ task'[k].state = "outcome-unknown"
         /\ \A t \in Invocation : /\ inv[t].step = "idle" => inv'[t] = inv[t]
                                  /\ inv[t].step # "idle" => inv'[t].step = "done"
                                  /\ inv'[t].key = inv[t].key /\ inv'[t].worker = inv[t].worker
                                  /\ inv'[t].outcome = inv[t].outcome
                                  /\ inv'[t].lapsed = inv[t].lapsed
  <1>1. /\ active' = 0 /\ restarted' = TRUE /\ faults' = faults + 1
        /\ UNCHANGED <<working, spent, revoked, pruned, uncancelled>>
        /\ task' = Orphaned(disk.task) /\ approval' = disk.approval /\ lock' = disk.lock
        /\ disk' = [disk EXCEPT !.task = Orphaned(disk.task)]
        /\ inv' = [t \in Invocation |-> IF inv[t] = Idle THEN Idle ELSE [inv[t] EXCEPT !.step = "done"]]
      BY DEF RestartController
  <1>2. /\ task' \in [Key -> Task]
        /\ \A k \in Key : task'[k] = disk.task[k] \/ task'[k].state = "outcome-unknown"
      BY <1>1 DEF CallTypes, Task, TaskState, TaskTerminal, Orphaned
  <1>3. /\ disk'.task = task' /\ disk'.approval = approval' /\ disk'.lock = lock'
        /\ disk' \in [task: [Key -> Task], approval: [Approval -> ApprovalState], lock: Holder]
      BY <1>1, <1>2 DEF CallTypes
  <1>4. Idle.step = "idle" /\ (\A t \in Invocation : inv[t].step = "idle" <=> inv[t] = Idle)
      BY DEF CallShape, ShapedCall, Idle
  <1>5. ASSUME NEW t \in Invocation
        PROVE  /\ inv[t].step = "idle" => inv'[t] = inv[t]
               /\ inv[t].step # "idle" => inv'[t].step = "done"
               /\ inv'[t].key = inv[t].key /\ inv'[t].worker = inv[t].worker
               /\ inv'[t].outcome = inv[t].outcome /\ inv'[t].lapsed = inv[t].lapsed
               /\ inv'[t] \in CallRecord
    <2>1. CASE inv[t] = Idle
        BY <1>1, <1>4, <2>1 DEF CallTypes
    <2>2. CASE inv[t] # Idle
        BY <1>1, <1>4, <2>2 DEF CallTypes, CallRecord
    <2> QED
        BY <2>1, <2>2
  <1>6. inv' \in [Invocation -> CallRecord]
      BY <1>1, <1>5
  <1>7. CallTypes'
      BY <1>1, <1>2, <1>3, <1>6 DEF CallTypes
  <1> QED
      BY <1>1, <1>2, <1>3, <1>5, <1>7

-----------------------------------------------------------------------------
(* The invariant, part by part.                                            *)

LEMMA IdleIs ==
  ASSUME NEW k \in Key
  PROVE  /\ Idle.step = "idle" /\ Idle.key \in Key /\ Idle.worker = FALSE
         /\ Idle.outcome = "none" /\ Idle.lapsed = FALSE
  BY DEF Idle

\* The types of the records.
LEMMA TypesNext ==
  ASSUME CallTypes, CallShape, [InvNext]_invVars
  PROVE  CallTypes'
  <1>1. ASSUME NEW a \in Approval, RequestApproval(a) \/ Approve(a) \/ Revoke(a) \/ Expire(a)
        PROVE  CallTypes'
      BY <1>1, ApprovalDoes
  <1>2. ASSUME NEW t \in Invocation, NEW k \in Key, NEW a \in Approval \cup {NoApproval}, Invoke(t, k, a)
        PROVE  CallTypes'
      BY <1>2, InvokeDoes
  <1>3. ASSUME NEW t \in Invocation, NEW k \in Key, NEW a \in Approval \cup {NoApproval}, Accept(t, k, a)
        PROVE  CallTypes'
      BY <1>3, AcceptDoes
  <1>4. ASSUME NEW t \in Invocation, CheckApproval(t)
        PROVE  CallTypes'
      BY <1>4, CheckApprovalDoes
  <1>5. ASSUME NEW t \in Invocation, Submit(t)
        PROVE  CallTypes'
      BY <1>5, SubmitDoes
  <1>6. ASSUME NEW t \in Invocation, Retry(t)
        PROVE  CallTypes'
      BY <1>6, RetryDoes
  <1>7. ASSUME NEW t \in Invocation, Run(t)
        PROVE  CallTypes'
      BY <1>7, RunDoes
  <1>8. ASSUME NEW t \in Invocation, Dispatch(t)
        PROVE  CallTypes'
      BY <1>8, DispatchDoes
  <1>9. ASSUME NEW t \in Invocation, Work(t)
        PROVE  CallTypes'
      BY <1>9, WorkDoes
  <1>10. ASSUME NEW t \in Invocation, Receive(t)
        PROVE  CallTypes'
      BY <1>10, ReceiveDoes
  <1>11. ASSUME NEW t \in Invocation, Record(t)
        PROVE  CallTypes'
      BY <1>11, RecordDoes
  <1>12. ASSUME NEW k \in Key, TaskRetry(k)
        PROVE  CallTypes'
      BY <1>12, TaskRetryDoes
  <1>13. ASSUME NEW k \in Key, TaskCancel(k)
        PROVE  CallTypes'
      BY <1>13, TaskCancelDoes
  <1>14. ASSUME NEW k \in Key, TaskPrune(k)
        PROVE  CallTypes'
      BY <1>14, TaskPruneDoes
  <1>15. ASSUME LockExpires
        PROVE  CallTypes'
      BY <1>15, LockExpiresDoes
  <1>16. ASSUME RestartController
        PROVE  CallTypes'
      BY <1>16, RestartControllerDoes
  <1>17. CASE UNCHANGED invVars
      BY <1>17 DEF invVars, records, CallTypes
  <1> QED
      BY <1>1, <1>2, <1>3, <1>4, <1>5, <1>6, <1>7, <1>8, <1>9, <1>10, <1>11, <1>12, <1>13, <1>14,
         <1>15, <1>16, <1>17
         DEF InvNext

\* The shape of invocations.
LEMMA ShapeNext ==
  ASSUME CallTypes, CallShape, [InvNext]_invVars
  PROVE  CallShape'
  <1>1. ASSUME NEW a \in Approval, RequestApproval(a) \/ Approve(a) \/ Revoke(a) \/ Expire(a)
        PROVE  CallShape'
      BY <1>1, ApprovalDoes DEF CallShape, HeldStarted, SpentStarted, CallTypes, LockWritten
  <1>2. ASSUME NEW t \in Invocation, NEW k \in Key, NEW a \in Approval \cup {NoApproval}, Invoke(t, k, a)
        PROVE  CallShape'
    <2>a. /\ inv[t] = Idle /\ lock' = lock /\ working' = working /\ spent' = spent
          /\ disk'.lock \in {lock, disk.lock}
          /\ GoesTo(t, "done") \/ \E s \in {"approve", "submit"} : Begins(t, s, k, a, FALSE)
        BY <1>2, InvokeDoes DEF records, LockWritten
    <2>b. Idle.step = "idle" /\ Idle.key \in Key /\ Idle.outcome = "none"
        BY IdleIs
    <2>0. /\ inv[t].step = "idle" /\ \A u \in Invocation \ {t} : inv'[u] = inv[u]
          /\ inv'[t].step \in {"approve", "submit", "done"} /\ inv'[t].key \in Key
          /\ inv'[t].outcome = "none"
        BY <2>a, <2>b DEF GoesTo, Begins
    <2>1. \A u \in Invocation : ShapedCall(inv'[u])
      <3>1. ShapedCall(inv'[t])
          BY <2>a, <2>0 DEF CallShape, ShapedCall, CallTypes
      <3>2. \A u \in Invocation \ {t} : inv'[u] = inv[u]
          BY <2>a, <2>0 DEF CallTypes
      <3> QED
          BY <3>1, <3>2 DEF CallShape
    <2>2. HeldStarted'
        BY <2>a, <2>0, InvocationsAssumption DEF CallShape, HeldStarted, CallTypes
    <2>3. SpentStarted'
        BY <2>a, <2>0 DEF CallShape, SpentStarted, CallTypes
    <2> QED
        BY <2>1, <2>2, <2>3 DEF CallShape
  <1>3. ASSUME NEW t \in Invocation, NEW k \in Key, NEW a \in Approval \cup {NoApproval}, Accept(t, k, a)
        PROVE  CallShape'
    <2>a. /\ inv[t] = Idle /\ lock' = lock /\ working' = working /\ spent' = spent
          /\ disk'.lock \in {lock, disk.lock}
          /\ GoesTo(t, "done") \/ \E s \in {"approve", "submit"} : Begins(t, s, k, a, TRUE)
        BY <1>3, AcceptDoes DEF records, LockWritten
    <2>b. Idle.step = "idle" /\ Idle.key \in Key /\ Idle.outcome = "none"
        BY IdleIs
    <2>0. /\ inv[t].step = "idle" /\ \A u \in Invocation \ {t} : inv'[u] = inv[u]
          /\ inv'[t].step \in {"approve", "submit", "done"} /\ inv'[t].key \in Key
          /\ inv'[t].outcome = "none"
        BY <2>a, <2>b DEF GoesTo, Begins
    <2>1. \A u \in Invocation : ShapedCall(inv'[u])
      <3>1. ShapedCall(inv'[t])
          BY <2>a, <2>0 DEF CallShape, ShapedCall, CallTypes
      <3>2. \A u \in Invocation \ {t} : inv'[u] = inv[u]
          BY <2>a, <2>0 DEF CallTypes
      <3> QED
          BY <3>1, <3>2 DEF CallShape
    <2>2. HeldStarted'
        BY <2>a, <2>0, InvocationsAssumption DEF CallShape, HeldStarted, CallTypes
    <2>3. SpentStarted'
        BY <2>a, <2>0 DEF CallShape, SpentStarted, CallTypes
    <2> QED
        BY <2>1, <2>2, <2>3 DEF CallShape
  <1>4. ASSUME NEW t \in Invocation, CheckApproval(t)
        PROVE  CallShape'
    <2>1. \A u \in Invocation : ShapedCall(inv'[u])
      <3>1. ShapedCall(inv'[t])
          BY <1>4, CheckApprovalDoes
             DEF CallShape, ShapedCall, EndsOr, GoesTo, MayWrite, Written, TasksWritten,
                 LockWritten, CallTypes
      <3>2. \A u \in Invocation \ {t} : inv'[u] = inv[u]
          BY <1>4, CheckApprovalDoes
             DEF EndsOr, GoesTo, MayWrite, Written, TasksWritten, LockWritten, CallTypes
      <3> QED
          BY <3>1, <3>2 DEF CallShape
    <2>2. HeldStarted'
        BY <1>4, CheckApprovalDoes, InvocationsAssumption
           DEF CallShape, HeldStarted, EndsOr, GoesTo, MayWrite, Written, TasksWritten,
               LockWritten, CallTypes
    <2>3. SpentStarted'
        BY <1>4, CheckApprovalDoes
           DEF CallShape, SpentStarted, EndsOr, GoesTo, MayWrite, Written, TasksWritten,
               LockWritten, CallTypes
    <2> QED
        BY <2>1, <2>2, <2>3 DEF CallShape
  <1>5. ASSUME NEW t \in Invocation, Submit(t)
        PROVE  CallShape'
    <2>1. \A u \in Invocation : ShapedCall(inv'[u])
      <3>1. ShapedCall(inv'[t])
          BY <1>5, SubmitDoes
             DEF CallShape, ShapedCall, EndsOr, GoesTo, MayWrite, Written, TasksWritten,
                 LockWritten, CallTypes
      <3>2. \A u \in Invocation \ {t} : inv'[u] = inv[u]
          BY <1>5, SubmitDoes
             DEF EndsOr, GoesTo, MayWrite, Written, TasksWritten, LockWritten, CallTypes
      <3> QED
          BY <3>1, <3>2 DEF CallShape
    <2>2. HeldStarted'
        BY <1>5, SubmitDoes, InvocationsAssumption
           DEF CallShape, HeldStarted, EndsOr, GoesTo, MayWrite, Written, TasksWritten,
               LockWritten, CallTypes
    <2>3. SpentStarted'
        BY <1>5, SubmitDoes
           DEF CallShape, SpentStarted, EndsOr, GoesTo, MayWrite, Written, TasksWritten,
               LockWritten, CallTypes
    <2> QED
        BY <2>1, <2>2, <2>3 DEF CallShape
  <1>6. ASSUME NEW t \in Invocation, Retry(t)
        PROVE  CallShape'
    <2>1. \A u \in Invocation : ShapedCall(inv'[u])
      <3>1. ShapedCall(inv'[t])
          BY <1>6, RetryDoes
             DEF CallShape, ShapedCall, EndsOr, GoesTo, MayWrite, Written, TasksWritten,
                 LockWritten, CallTypes
      <3>2. \A u \in Invocation \ {t} : inv'[u] = inv[u]
          BY <1>6, RetryDoes
             DEF EndsOr, GoesTo, MayWrite, Written, TasksWritten, LockWritten, CallTypes
      <3> QED
          BY <3>1, <3>2 DEF CallShape
    <2>2. HeldStarted'
        BY <1>6, RetryDoes, InvocationsAssumption
           DEF CallShape, HeldStarted, EndsOr, GoesTo, MayWrite, Written, TasksWritten,
               LockWritten, CallTypes
    <2>3. SpentStarted'
        BY <1>6, RetryDoes
           DEF CallShape, SpentStarted, EndsOr, GoesTo, MayWrite, Written, TasksWritten,
               LockWritten, CallTypes
    <2> QED
        BY <2>1, <2>2, <2>3 DEF CallShape
  <1>7. ASSUME NEW t \in Invocation, Run(t)
        PROVE  CallShape'
    <2>1. \A u \in Invocation : ShapedCall(inv'[u])
      <3>1. ShapedCall(inv'[t])
          BY <1>7, RunDoes
             DEF CallShape, ShapedCall, EndsOr, GoesTo, MayWrite, Written, TasksWritten,
                 LockWritten, CallTypes
      <3>2. \A u \in Invocation \ {t} : inv'[u] = inv[u]
          BY <1>7, RunDoes
             DEF EndsOr, GoesTo, MayWrite, Written, TasksWritten, LockWritten, CallTypes
      <3> QED
          BY <3>1, <3>2 DEF CallShape
    <2>2. HeldStarted'
        BY <1>7, RunDoes, InvocationsAssumption
           DEF CallShape, HeldStarted, EndsOr, GoesTo, MayWrite, Written, TasksWritten,
               LockWritten, CallTypes
    <2>3. SpentStarted'
        BY <1>7, RunDoes
           DEF CallShape, SpentStarted, EndsOr, GoesTo, MayWrite, Written, TasksWritten,
               LockWritten, CallTypes
    <2> QED
        BY <2>1, <2>2, <2>3 DEF CallShape
  <1>8. ASSUME NEW t \in Invocation, Dispatch(t)
        PROVE  CallShape'
    <2>1. \A u \in Invocation : ShapedCall(inv'[u])
      <3>1. ShapedCall(inv'[t])
          BY <1>8, DispatchDoes
             DEF CallShape, ShapedCall, EndsOr, GoesTo, MayWrite, Written, TasksWritten,
                 LockWritten, CallTypes
      <3>2. \A u \in Invocation \ {t} : inv'[u] = inv[u]
          BY <1>8, DispatchDoes
             DEF EndsOr, GoesTo, MayWrite, Written, TasksWritten, LockWritten, CallTypes
      <3> QED
          BY <3>1, <3>2 DEF CallShape
    <2>2. HeldStarted'
        BY <1>8, DispatchDoes, InvocationsAssumption
           DEF CallShape, HeldStarted, EndsOr, GoesTo, MayWrite, Written, TasksWritten,
               LockWritten, CallTypes
    <2>3. SpentStarted'
        BY <1>8, DispatchDoes
           DEF CallShape, SpentStarted, EndsOr, GoesTo, MayWrite, Written, TasksWritten,
               LockWritten, CallTypes
    <2> QED
        BY <2>1, <2>2, <2>3 DEF CallShape
  <1>9. ASSUME NEW t \in Invocation, Work(t)
        PROVE  CallShape'
      BY <1>9, WorkDoes DEF CallShape, HeldStarted, SpentStarted, records, CallTypes
  <1>10. ASSUME NEW t \in Invocation, Receive(t)
        PROVE  CallShape'
    <2>1. \A u \in Invocation : ShapedCall(inv'[u])
      <3>1. ShapedCall(inv'[t])
          BY <1>10, ReceiveDoes DEF CallShape, ShapedCall, CallTypes
      <3>2. \A u \in Invocation \ {t} : inv'[u] = inv[u]
          BY <1>10, ReceiveDoes DEF CallTypes
      <3> QED
          BY <3>1, <3>2 DEF CallShape
    <2>2. HeldStarted'
        BY <1>10, ReceiveDoes, InvocationsAssumption DEF CallShape, HeldStarted, CallTypes
    <2>3. SpentStarted'
        BY <1>10, ReceiveDoes DEF CallShape, SpentStarted, CallTypes
    <2> QED
        BY <2>1, <2>2, <2>3 DEF CallShape
  <1>11. ASSUME NEW t \in Invocation, Record(t)
        PROVE  CallShape'
    <2>1. \A u \in Invocation : ShapedCall(inv'[u])
      <3>1. ShapedCall(inv'[t])
          BY <1>11, RecordDoes
             DEF CallShape, ShapedCall, EndsOr, GoesTo, MayWrite, Written, TasksWritten,
                 LockWritten, CallTypes
      <3>2. \A u \in Invocation \ {t} : inv'[u] = inv[u]
          BY <1>11, RecordDoes
             DEF EndsOr, GoesTo, MayWrite, Written, TasksWritten, LockWritten, CallTypes
      <3> QED
          BY <3>1, <3>2 DEF CallShape
    <2>2. HeldStarted'
        BY <1>11, RecordDoes, InvocationsAssumption
           DEF CallShape, HeldStarted, EndsOr, GoesTo, MayWrite, Written, TasksWritten,
               LockWritten, CallTypes
    <2>3. SpentStarted'
        BY <1>11, RecordDoes
           DEF CallShape, SpentStarted, EndsOr, GoesTo, MayWrite, Written, TasksWritten,
               LockWritten, CallTypes
    <2> QED
        BY <2>1, <2>2, <2>3 DEF CallShape
  <1>12. ASSUME NEW k \in Key, TaskRetry(k)
        PROVE  CallShape'
      BY <1>12, TaskRetryDoes
         DEF CallShape, HeldStarted, SpentStarted, CallTypes, MayWrite, Written
  <1>13. ASSUME NEW k \in Key, TaskCancel(k)
        PROVE  CallShape'
      BY <1>13, TaskCancelDoes
         DEF CallShape, HeldStarted, SpentStarted, CallTypes, MayWrite, Written
  <1>14. ASSUME NEW k \in Key, TaskPrune(k)
        PROVE  CallShape'
      BY <1>14, TaskPruneDoes
         DEF CallShape, HeldStarted, SpentStarted, CallTypes, MayWrite, Written
  <1>15. ASSUME LockExpires
        PROVE  CallShape'
    <2>0. /\ lock \in Invocation /\ inv[lock].step # "idle"
          /\ \A u \in Invocation : inv'[u].step = inv[u].step /\ inv'[u].key = inv[u].key
          /\ lock' = NoHolder /\ disk' = disk /\ working' = working /\ spent' = spent
        BY <1>15, LockExpiresDoes DEF CallShape, HeldStarted
    <2>1. \A u \in Invocation : ShapedCall(inv'[u])
      <3>1. ShapedCall(inv'[lock])
          BY <1>15, <2>0, LockExpiresDoes DEF CallShape, ShapedCall, CallTypes
      <3>2. \A u \in Invocation \ {lock} : inv'[u] = inv[u]
          BY <1>15, <2>0, LockExpiresDoes DEF CallTypes
      <3> QED
          BY <3>1, <3>2 DEF CallShape
    <2>2. HeldStarted'
        BY <2>0, InvocationsAssumption DEF CallShape, HeldStarted, CallTypes
    <2>3. SpentStarted'
        BY <2>0 DEF CallShape, SpentStarted, CallTypes
    <2> QED
        BY <2>1, <2>2, <2>3 DEF CallShape
  <1>16. ASSUME RestartController
        PROVE  CallShape'
    <2>0. /\ \A u \in Invocation : inv'[u].step \in {inv[u].step, "done"} /\ inv'[u].key = inv[u].key
          /\ lock' = disk.lock /\ disk'.lock = disk.lock /\ working' = working /\ spent' = spent
        BY <1>16, RestartControllerDoes
    <2>1. ASSUME NEW u \in Invocation PROVE ShapedCall(inv'[u])
        BY <1>16, RestartControllerDoes DEF CallShape, ShapedCall
    <2>2. HeldStarted'
        BY <2>0, InvocationsAssumption DEF CallShape, HeldStarted, CallTypes
    <2>3. SpentStarted'
        BY <2>0 DEF CallShape, SpentStarted, CallTypes
    <2> QED
        BY <2>1, <2>2, <2>3 DEF CallShape
  <1>17. CASE UNCHANGED invVars
      BY <1>17 DEF invVars, records, CallShape, HeldStarted, SpentStarted
  <1> QED
      BY <1>1, <1>2, <1>3, <1>4, <1>5, <1>6, <1>7, <1>8, <1>9, <1>10, <1>11, <1>12, <1>13, <1>14,
         <1>15, <1>16, <1>17
         DEF InvNext

\* No invocation takes or gives back a slot.
LEMMA SlotsStay ==
  ASSUME SlotsCounted, active' = active,
         \A u \in Invocation : /\ inv'[u].worker = inv[u].worker
                               /\ inv'[u].step \in Under <=> inv[u].step \in Under
  PROVE  SlotsCounted'
  <1>1. Workers' = Workers
      BY DEF Workers
  <1> QED
      BY <1>1 DEF SlotsCounted

\* An invocation that was under way goes on or ends.
LEMMA SlotGoes ==
  ASSUME SlotsCounted, NEW t \in Invocation, inv[t].step \in Under, NEW s \in Under, EndsOr(t, s)
  PROVE  SlotsCounted'
  <1>1. CASE GoesTo(t, s) /\ UNCHANGED active
    <2>1. \A u \in Invocation : /\ inv'[u].worker = inv[u].worker
                                /\ inv'[u].step \in Under <=> inv[u].step \in Under
        BY <1>1 DEF GoesTo
    <2> QED
        BY <1>1, <2>1, SlotsStay
  <1>2. CASE GoesTo(t, "done") /\ active' = IF inv[t].worker THEN active - 1 ELSE active
    <2>1. Workers' = Workers \ {t}
        BY <1>2 DEF GoesTo, Workers, Under
    <2>2. t \in Workers <=> inv[t].worker
        BY DEF Workers
    <2>3. /\ IsFiniteSet(Workers \ {t})
          /\ Cardinality(Workers \ {t}) = IF t \in Workers THEN Cardinality(Workers) - 1
                                                           ELSE Cardinality(Workers)
        BY FS_RemoveElement DEF SlotsCounted
    <2> QED
        BY <1>2, <2>1, <2>2, <2>3 DEF SlotsCounted
  <1> QED
      BY <1>1, <1>2 DEF EndsOr

\* An accepted call takes a slot.
LEMMA SlotTaken ==
  ASSUME SlotsCounted, NEW t \in Invocation, inv[t].step \notin Under, active' = active + 1,
         NEW s \in Under, NEW k, NEW a, Begins(t, s, k, a, TRUE)
  PROVE  SlotsCounted'
  <1>1. Workers' = Workers \cup {t} /\ t \notin Workers
      BY DEF Begins, Workers
  <1>2. /\ IsFiniteSet(Workers \cup {t})
        /\ Cardinality(Workers \cup {t}) = Cardinality(Workers) + 1
      BY <1>1, FS_AddElement DEF SlotsCounted
  <1> QED
      BY <1>1, <1>2 DEF SlotsCounted

\* The slots of async_active.
LEMMA SlotsNext ==
  ASSUME CallTypes, CallShape, SlotsCounted, [InvNext]_invVars
  PROVE  SlotsCounted'
  <1>1. ASSUME NEW a \in Approval, RequestApproval(a) \/ Approve(a) \/ Revoke(a) \/ Expire(a)
        PROVE  SlotsCounted'
      BY <1>1, ApprovalDoes, SlotsStay
  <1>2. ASSUME NEW t \in Invocation, NEW k \in Key, NEW a \in Approval \cup {NoApproval}, Invoke(t, k, a)
        PROVE  SlotsCounted'
    <2>1. Idle.step = "idle" /\ Idle.worker = FALSE
        BY IdleIs
    <2>2. /\ inv[t] = Idle /\ inv'[t].worker = FALSE /\ active' = active
          /\ \A u \in Invocation \ {t} : inv'[u] = inv[u]
        BY <1>2, InvokeDoes DEF Begins
    <2>3. Workers' = Workers
        BY <2>1, <2>2 DEF Workers
    <2> QED
        BY <2>2, <2>3 DEF SlotsCounted
  <1>3. ASSUME NEW t \in Invocation, NEW k \in Key, NEW a \in Approval \cup {NoApproval}, Accept(t, k, a)
        PROVE  SlotsCounted'
    <2>1. /\ inv[t].step = "idle" /\ inv[t].worker = FALSE
        BY <1>3, AcceptDoes, IdleIs
    <2>2. CASE GoesTo(t, "done") /\ UNCHANGED active
      <3>1. Workers' = Workers
          BY <2>1, <2>2 DEF GoesTo, Workers, Under
      <3> QED
          BY <2>2, <3>1 DEF SlotsCounted
    <2>3. ASSUME active' = active + 1, NEW s \in {"approve", "submit"}, Begins(t, s, k, a, TRUE)
          PROVE  SlotsCounted'
        BY <2>1, <2>3, SlotTaken DEF Under
    <2>4. \/ GoesTo(t, "done") /\ UNCHANGED active
          \/ /\ active' = active + 1
             /\ \E s \in {"approve", "submit"} : Begins(t, s, k, a, TRUE)
        BY <1>3, AcceptDoes
    <2> QED
        BY <2>2, <2>3, <2>4
  <1>4. ASSUME NEW t \in Invocation, CheckApproval(t)
        PROVE  SlotsCounted'
    <2>1. EndsOr(t, "submit")
        BY <1>4, CheckApprovalDoes DEF EndsOr
    <2>2. inv[t].step \in Under /\ {"submit"} \subseteq Under
        BY <1>4, CheckApprovalDoes DEF Under
    <2> QED
        BY <2>1, <2>2, SlotGoes
  <1>5. ASSUME NEW t \in Invocation, Submit(t)
        PROVE  SlotsCounted'
    <2>1. EndsOr(t, "retry") \/ EndsOr(t, "run")
        BY <1>5, SubmitDoes DEF EndsOr
    <2>2. inv[t].step \in Under /\ {"retry", "run"} \subseteq Under
        BY <1>5, SubmitDoes DEF Under
    <2> QED
        BY <2>1, <2>2, SlotGoes
  <1>6. ASSUME NEW t \in Invocation, Retry(t)
        PROVE  SlotsCounted'
    <2>1. EndsOr(t, "run")
        BY <1>6, RetryDoes DEF EndsOr
    <2>2. inv[t].step \in Under /\ {"run"} \subseteq Under
        BY <1>6, RetryDoes DEF Under
    <2> QED
        BY <2>1, <2>2, SlotGoes
  <1>7. ASSUME NEW t \in Invocation, Run(t)
        PROVE  SlotsCounted'
    <2>1. EndsOr(t, "lock")
        BY <1>7, RunDoes DEF EndsOr
    <2>2. inv[t].step \in Under /\ {"lock"} \subseteq Under
        BY <1>7, RunDoes DEF Under
    <2> QED
        BY <2>1, <2>2, SlotGoes
  <1>8. ASSUME NEW t \in Invocation, Dispatch(t)
        PROVE  SlotsCounted'
    <2>1. EndsOr(t, "wait")
        BY <1>8, DispatchDoes DEF EndsOr
    <2>2. inv[t].step \in Under /\ {"wait"} \subseteq Under
        BY <1>8, DispatchDoes DEF Under
    <2> QED
        BY <2>1, <2>2, SlotGoes
  <1>9. ASSUME NEW t \in Invocation, Work(t)
        PROVE  SlotsCounted'
      BY <1>9, WorkDoes, SlotsStay
  <1>10. ASSUME NEW t \in Invocation, Receive(t)
        PROVE  SlotsCounted'
    <2>1. \A u \in Invocation : /\ inv'[u].worker = inv[u].worker
                                /\ inv'[u].step \in Under <=> inv[u].step \in Under
        BY <1>10, ReceiveDoes DEF Under
    <2> QED
        BY <1>10, ReceiveDoes, <2>1, SlotsStay
  <1>11. ASSUME NEW t \in Invocation, Record(t)
        PROVE  SlotsCounted'
    <2>1. EndsOr(t, "record")
        BY <1>11, RecordDoes DEF EndsOr
    <2>2. inv[t].step \in Under /\ {"record"} \subseteq Under
        BY <1>11, RecordDoes DEF Under
    <2> QED
        BY <2>1, <2>2, SlotGoes
  <1>12. ASSUME NEW k \in Key, TaskRetry(k)
        PROVE  SlotsCounted'
      BY <1>12, TaskRetryDoes, SlotsStay
  <1>13. ASSUME NEW k \in Key, TaskCancel(k)
        PROVE  SlotsCounted'
      BY <1>13, TaskCancelDoes, SlotsStay
  <1>14. ASSUME NEW k \in Key, TaskPrune(k)
        PROVE  SlotsCounted'
      BY <1>14, TaskPruneDoes, SlotsStay
  <1>15. ASSUME LockExpires
        PROVE  SlotsCounted'
    <2>1. \A u \in Invocation : inv'[u].worker = inv[u].worker /\ inv'[u].step = inv[u].step
        BY <1>15, LockExpiresDoes
    <2> QED
        BY <1>15, LockExpiresDoes, <2>1, SlotsStay
  <1>16. ASSUME RestartController
        PROVE  SlotsCounted'
    <2>1. \A u \in Invocation : inv'[u].step \in {"idle", "done"}
        BY <1>16, RestartControllerDoes
    <2>2. Workers' = {}
        BY <2>1 DEF Workers, Under
    <2> QED
        BY <1>16, RestartControllerDoes, <2>2, FS_EmptySet DEF SlotsCounted
  <1>17. CASE UNCHANGED invVars
      BY <1>17 DEF invVars, records, SlotsCounted, Workers
  <1> QED
      BY <1>1, <1>2, <1>3, <1>4, <1>5, <1>6, <1>7, <1>8, <1>9, <1>10, <1>11, <1>12, <1>13, <1>14,
         <1>15, <1>16, <1>17
         DEF InvNext

\* Approvals that were used or revoked.
LEMMA GoneNext ==
  ASSUME CallTypes, CallShape, ApprovalsGone, [InvNext]_invVars
  PROVE  ApprovalsGone'
  <1>1. ASSUME NEW a \in Approval, RequestApproval(a) \/ Approve(a) \/ Revoke(a) \/ Expire(a)
        PROVE  ApprovalsGone'
    <2> SUFFICES ASSUME NEW b \in Approval PROVE Gone(b)'
        BY DEF ApprovalsGone
    <2> QED
        BY <1>1, ApprovalDoes DEF ApprovalsGone, Gone, MayWrite
  <1>2. ASSUME NEW t \in Invocation, NEW k \in Key, NEW a \in Approval \cup {NoApproval}, Invoke(t, k, a)
        PROVE  ApprovalsGone'
    <2> SUFFICES ASSUME NEW b \in Approval PROVE Gone(b)'
        BY DEF ApprovalsGone
    <2> QED
        BY <1>2, InvokeDoes DEF ApprovalsGone, Gone, records
  <1>3. ASSUME NEW t \in Invocation, NEW k \in Key, NEW a \in Approval \cup {NoApproval}, Accept(t, k, a)
        PROVE  ApprovalsGone'
    <2> SUFFICES ASSUME NEW b \in Approval PROVE Gone(b)'
        BY DEF ApprovalsGone
    <2> QED
        BY <1>3, AcceptDoes DEF ApprovalsGone, Gone, MayWrite, Written
  <1>4. ASSUME NEW t \in Invocation, CheckApproval(t)
        PROVE  ApprovalsGone'
    <2>1. ASSUME NEW b \in Approval, approval'[b] = approval[b], spent'[b] = spent[b]
          PROVE  Gone(b)'
        BY <1>4, CheckApprovalDoes, <2>1 DEF ApprovalsGone, Gone, MayWrite, Written
    <2>2. ASSUME NEW b \in Approval, approval[b] = "approved", approval'[b] = "consumed",
                 \/ spent'[b] = spent[b]
                 \/ spent'[b] = spent[b] \cup {t} /\ Written
          PROVE  Gone(b)'
        BY <1>4, CheckApprovalDoes, <2>2 DEF ApprovalsGone, Gone, Written
    <2> QED
        BY <1>4, CheckApprovalDoes, <2>1, <2>2 DEF ApprovalsGone
  <1>5. ASSUME NEW t \in Invocation, Submit(t)
        PROVE  ApprovalsGone'
    <2> SUFFICES ASSUME NEW b \in Approval PROVE Gone(b)'
        BY DEF ApprovalsGone
    <2> QED
        BY <1>5, SubmitDoes DEF ApprovalsGone, Gone, MayWrite, Written
  <1>6. ASSUME NEW t \in Invocation, Retry(t)
        PROVE  ApprovalsGone'
    <2> SUFFICES ASSUME NEW b \in Approval PROVE Gone(b)'
        BY DEF ApprovalsGone
    <2> QED
        BY <1>6, RetryDoes DEF ApprovalsGone, Gone, MayWrite, Written
  <1>7. ASSUME NEW t \in Invocation, Run(t)
        PROVE  ApprovalsGone'
    <2> SUFFICES ASSUME NEW b \in Approval PROVE Gone(b)'
        BY DEF ApprovalsGone
    <2> QED
        BY <1>7, RunDoes DEF ApprovalsGone, Gone, MayWrite, Written
  <1>8. ASSUME NEW t \in Invocation, Dispatch(t)
        PROVE  ApprovalsGone'
    <2> SUFFICES ASSUME NEW b \in Approval PROVE Gone(b)'
        BY DEF ApprovalsGone
    <2> QED
        BY <1>8, DispatchDoes DEF ApprovalsGone, Gone, MayWrite, Written
  <1>9. ASSUME NEW t \in Invocation, Work(t)
        PROVE  ApprovalsGone'
    <2> SUFFICES ASSUME NEW b \in Approval PROVE Gone(b)'
        BY DEF ApprovalsGone
    <2> QED
        BY <1>9, WorkDoes DEF ApprovalsGone, Gone, records
  <1>10. ASSUME NEW t \in Invocation, Receive(t)
        PROVE  ApprovalsGone'
    <2> SUFFICES ASSUME NEW b \in Approval PROVE Gone(b)'
        BY DEF ApprovalsGone
    <2> QED
        BY <1>10, ReceiveDoes DEF ApprovalsGone, Gone, MayWrite, Written
  <1>11. ASSUME NEW t \in Invocation, Record(t)
        PROVE  ApprovalsGone'
    <2> SUFFICES ASSUME NEW b \in Approval PROVE Gone(b)'
        BY DEF ApprovalsGone
    <2> QED
        BY <1>11, RecordDoes DEF ApprovalsGone, Gone, MayWrite, Written
  <1>12. ASSUME NEW k \in Key, TaskRetry(k)
        PROVE  ApprovalsGone'
    <2> SUFFICES ASSUME NEW b \in Approval PROVE Gone(b)'
        BY DEF ApprovalsGone
    <2> QED
        BY <1>12, TaskRetryDoes DEF ApprovalsGone, Gone, MayWrite, Written
  <1>13. ASSUME NEW k \in Key, TaskCancel(k)
        PROVE  ApprovalsGone'
    <2> SUFFICES ASSUME NEW b \in Approval PROVE Gone(b)'
        BY DEF ApprovalsGone
    <2> QED
        BY <1>13, TaskCancelDoes DEF ApprovalsGone, Gone, MayWrite, Written
  <1>14. ASSUME NEW k \in Key, TaskPrune(k)
        PROVE  ApprovalsGone'
    <2> SUFFICES ASSUME NEW b \in Approval PROVE Gone(b)'
        BY DEF ApprovalsGone
    <2> QED
        BY <1>14, TaskPruneDoes DEF ApprovalsGone, Gone, MayWrite, Written
  <1>15. ASSUME LockExpires
        PROVE  ApprovalsGone'
    <2> SUFFICES ASSUME NEW b \in Approval PROVE Gone(b)'
        BY DEF ApprovalsGone
    <2> QED
        BY <1>15, LockExpiresDoes DEF ApprovalsGone, Gone, MayWrite, Written
  <1>16. ASSUME RestartController
        PROVE  ApprovalsGone'
    <2>1. /\ approval' = disk.approval /\ disk'.approval = disk.approval
          /\ spent' = spent /\ revoked' = revoked
        BY <1>16, RestartControllerDoes
    <2> QED
        BY <2>1 DEF ApprovalsGone, Gone
  <1>17. CASE UNCHANGED invVars
      BY <1>17 DEF invVars, records, ApprovalsGone, Gone
  <1> QED
      BY <1>1, <1>2, <1>3, <1>4, <1>5, <1>6, <1>7, <1>8, <1>9, <1>10, <1>11, <1>12, <1>13, <1>14,
         <1>15, <1>16, <1>17
         DEF InvNext

\* An invocation in flight has started, and so has a worker.
LEMMA FlightKey ==
  ASSUME CallShape, NEW t \in Invocation, InFlight(t) \/ inv[t].worker PROVE inv[t].key \in Key
  <1>1. Idle.worker = FALSE
      BY DEF Idle
  <1>2. ShapedCall(inv[t])
      BY DEF CallShape
  <1> QED
      BY <1>1, <1>2 DEF ShapedCall, InFlight, Flight

\* What Invoke and Accept have in common.
LEMMA CallBegins ==
  ASSUME CallTypes, CallShape, NEW t \in Invocation, NEW k \in Key,
         NEW a \in Approval \cup {NoApproval}, Invoke(t, k, a) \/ Accept(t, k, a)
  PROVE  /\ inv[t].step = "idle" /\ \A u \in Invocation \ {t} : inv'[u] = inv[u]
         /\ inv'[t].step \in {"approve", "submit", "done"} /\ inv'[t].key \in Key
         /\ lock' = lock /\ working' = working /\ restarted' = restarted
         /\ pruned' = pruned /\ uncancelled' = uncancelled /\ TasksWritten
         /\ t \notin working /\ t # lock
         /\ \A j \in Key : \/ task'[j] = task[j]
                           \/ task[j].state = "none" /\ task'[j].state = "queued"
         /\ inv'[t].worker => task'[inv'[t].key].state = "queued" /\ disk'.task = task'
  <1>1. /\ Idle.step = "idle" /\ Idle.key \in Key /\ Idle.worker = FALSE
        /\ NoTask.state = "none" /\ NewTask.state = "queued"
      BY IdleIs DEF NoTask, NewTask
  <1>2. inv[t].step = "idle" /\ inv[t] = Idle
      BY <1>1, InvokeDoes, AcceptDoes
  <1>3. t \notin working /\ t # lock
      BY <1>2 DEF CallShape, HeldStarted
  <1>4. CASE Invoke(t, k, a)
    <2>1. PICK s \in {"approve", "submit"} : Begins(t, s, k, a, FALSE)
        BY <1>4, InvokeDoes
    <2> QED
        BY <1>2, <1>3, <1>4, <2>1, InvokeDoes DEF Begins, records, TasksWritten
  <1>5. CASE Accept(t, k, a)
    <2>1. /\ UNCHANGED <<approval, lock, working, spent, revoked, pruned, uncancelled, restarted>>
          /\ TasksWritten
        BY <1>5, AcceptDoes
    <2>2. CASE GoesTo(t, "done") /\ (task' = task \/ (task[k] = NoTask /\ task' = [task EXCEPT ![k] = NewTask]))
      <3>1. \A j \in Key : \/ task'[j] = task[j]
                           \/ task[j].state = "none" /\ task'[j].state = "queued"
          BY <1>1, <2>2 DEF CallTypes
      <3>2. inv'[t].step = "done" /\ inv'[t].key \in Key /\ inv'[t].worker = FALSE
          BY <1>1, <1>2, <2>2 DEF GoesTo
      <3> QED
          BY <1>2, <1>3, <2>1, <2>2, <3>1, <3>2 DEF GoesTo
    <2>3. ASSUME task[k] = NoTask, task' = [task EXCEPT ![k] = NewTask], disk'.task = task',
                 NEW s \in {"approve", "submit"}, Begins(t, s, k, a, TRUE)
          PROVE  /\ inv'[t].step \in {"approve", "submit", "done"} /\ inv'[t].key = k
                 /\ \A u \in Invocation \ {t} : inv'[u] = inv[u]
                 /\ task'[k].state = "queued" /\ disk'.task = task'
                 /\ \A j \in Key : \/ task'[j] = task[j]
                                   \/ task[j].state = "none" /\ task'[j].state = "queued"
      <3>1. /\ task'[k].state = "queued"
            /\ \A j \in Key : \/ task'[j] = task[j]
                              \/ task[j].state = "none" /\ task'[j].state = "queued"
          BY <1>1, <2>3 DEF CallTypes
      <3> QED
          BY <2>3, <3>1 DEF Begins
    <2>4. \/ GoesTo(t, "done") /\ (task' = task \/ (task[k] = NoTask /\ task' = [task EXCEPT ![k] = NewTask]))
          \/ /\ task[k] = NoTask /\ task' = [task EXCEPT ![k] = NewTask] /\ disk'.task = task'
             /\ \E s \in {"approve", "submit"} : Begins(t, s, k, a, TRUE)
        BY <1>5, AcceptDoes
    <2> QED
        BY <1>2, <1>3, <2>1, <2>2, <2>3, <2>4
  <1> QED
      BY <1>4, <1>5

\* The tasks of commands under way.
LEMMA FlightNext ==
  ASSUME CallTypes, CallShape, FlightRuns, [InvNext]_invVars
  PROVE  FlightRuns'
  <1>1. ASSUME NEW a \in Approval, RequestApproval(a) \/ Approve(a) \/ Revoke(a) \/ Expire(a)
        PROVE  FlightRuns'
    <2>1. UNCHANGED <<inv, task, pruned, uncancelled>> /\ TasksWritten
        BY <1>1, ApprovalDoes DEF records, TasksWritten
    <2> QED
        BY <2>1
           DEF FlightRuns, UncancelledKnown, FlightOn, FlightAlone, InFlight, Flight, Excused,
               TasksWritten
  <1>2. ASSUME NEW t \in Invocation, NEW k \in Key, NEW a \in Approval \cup {NoApproval}, Invoke(t, k, a)
        PROVE  FlightRuns'
    <2>1. \A u \in Invocation : InFlight(u)' => InFlight(u) /\ inv'[u] = inv[u]
        BY <1>2, CallBegins DEF InFlight, Flight
    <2>2. Excused' = Excused
        BY <1>2, CallBegins DEF Excused
    <2>3. UncancelledKnown'
        BY <1>2, CallBegins DEF FlightRuns, UncancelledKnown, TasksWritten
    <2>4. FlightOn'
        BY <1>2, <2>1, <2>2, CallBegins, FlightKey DEF FlightRuns, FlightOn
    <2>5. FlightAlone'
        BY <2>1, <2>2 DEF FlightRuns, FlightAlone
    <2> QED
        BY <2>3, <2>4, <2>5 DEF FlightRuns
  <1>3. ASSUME NEW t \in Invocation, NEW k \in Key, NEW a \in Approval \cup {NoApproval}, Accept(t, k, a)
        PROVE  FlightRuns'
    <2>1. \A u \in Invocation : InFlight(u)' => InFlight(u) /\ inv'[u] = inv[u]
        BY <1>3, CallBegins DEF InFlight, Flight
    <2>2. Excused' = Excused
        BY <1>3, CallBegins DEF Excused
    <2>3. UncancelledKnown'
        BY <1>3, CallBegins DEF FlightRuns, UncancelledKnown, TasksWritten
    <2>4. FlightOn'
        BY <1>3, <2>1, <2>2, CallBegins, FlightKey DEF FlightRuns, FlightOn
    <2>5. FlightAlone'
        BY <2>1, <2>2 DEF FlightRuns, FlightAlone
    <2> QED
        BY <2>3, <2>4, <2>5 DEF FlightRuns
  <1>4. ASSUME NEW t \in Invocation, CheckApproval(t)
        PROVE  FlightRuns'
    <2>1. UncancelledKnown'
        BY <1>4, CheckApprovalDoes
           DEF FlightRuns, UncancelledKnown, TasksWritten, NewTask, CallTypes
    <2>2. FlightOn'
        BY <1>4, CheckApprovalDoes, FlightKey
           DEF FlightRuns, UncancelledKnown, FlightOn, FlightAlone, InFlight, Flight, Excused, EndsOr,
               GoesTo, NewTask, NoTask, CallTypes
    <2>3. FlightAlone'
        BY <1>4, CheckApprovalDoes, FlightKey
           DEF FlightRuns, FlightOn, FlightAlone, InFlight, Flight, Excused, EndsOr, GoesTo, CallTypes
    <2> QED
        BY <2>1, <2>2, <2>3 DEF FlightRuns
  <1>5. ASSUME NEW t \in Invocation, Submit(t)
        PROVE  FlightRuns'
    <2>1. UncancelledKnown'
        BY <1>5, SubmitDoes
           DEF FlightRuns, UncancelledKnown, MayWrite, Written, NewTask, CallTypes
    <2>2. FlightOn'
        BY <1>5, SubmitDoes, FlightKey
           DEF FlightRuns, UncancelledKnown, FlightOn, FlightAlone, InFlight, Flight, Excused, EndsOr,
               GoesTo, NewTask, NoTask, CallTypes
    <2>3. FlightAlone'
        BY <1>5, SubmitDoes, FlightKey
           DEF FlightRuns, FlightOn, FlightAlone, InFlight, Flight, Excused, EndsOr, GoesTo, CallTypes
    <2> QED
        BY <2>1, <2>2, <2>3 DEF FlightRuns
  <1>6. ASSUME NEW t \in Invocation, Retry(t)
        PROVE  FlightRuns'
    <2>1. UncancelledKnown'
        BY <1>6, RetryDoes
           DEF FlightRuns, UncancelledKnown, MayWrite, Written, NewTask, CallTypes, Retryable
    <2>2. FlightOn'
        BY <1>6, RetryDoes, FlightKey
           DEF FlightRuns, UncancelledKnown, FlightOn, FlightAlone, InFlight, Flight, Excused, EndsOr,
               GoesTo, NewTask, NoTask, CallTypes, Retryable
    <2>3. FlightAlone'
        BY <1>6, RetryDoes, FlightKey
           DEF FlightRuns, FlightOn, FlightAlone, InFlight, Flight, Excused, EndsOr, GoesTo, CallTypes
    <2> QED
        BY <2>1, <2>2, <2>3 DEF FlightRuns
  <1>7. ASSUME NEW t \in Invocation, Run(t)
        PROVE  FlightRuns'
    <2>1. UncancelledKnown'
        BY <1>7, RunDoes DEF FlightRuns, UncancelledKnown, MayWrite, Written, NewTask, CallTypes
    <2>2. FlightOn'
        BY <1>7, RunDoes, FlightKey
           DEF FlightRuns, UncancelledKnown, FlightOn, FlightAlone, InFlight, Flight, Excused, EndsOr,
               GoesTo, NewTask, NoTask, CallTypes
    <2>3. FlightAlone'
        BY <1>7, RunDoes, FlightKey
           DEF FlightRuns, FlightOn, FlightAlone, InFlight, Flight, Excused, EndsOr, GoesTo, CallTypes
    <2> QED
        BY <2>1, <2>2, <2>3 DEF FlightRuns
  <1>8. ASSUME NEW t \in Invocation, Dispatch(t)
        PROVE  FlightRuns'
    <2>1. UncancelledKnown'
        BY <1>8, DispatchDoes
           DEF FlightRuns, UncancelledKnown, MayWrite, Written, NewTask, CallTypes
    <2>2. FlightOn'
        BY <1>8, DispatchDoes, FlightKey
           DEF FlightRuns, UncancelledKnown, FlightOn, FlightAlone, InFlight, Flight, Excused, EndsOr,
               GoesTo, NewTask, NoTask, CallTypes
    <2>3. FlightAlone'
        BY <1>8, DispatchDoes, FlightKey
           DEF FlightRuns, FlightOn, FlightAlone, InFlight, Flight, Excused, EndsOr, GoesTo, CallTypes
    <2> QED
        BY <2>1, <2>2, <2>3 DEF FlightRuns
  <1>9. ASSUME NEW t \in Invocation, Work(t)
        PROVE  FlightRuns'
    <2>1. UNCHANGED <<inv, task, pruned, uncancelled>> /\ TasksWritten
        BY <1>9, WorkDoes DEF records, TasksWritten
    <2> QED
        BY <2>1
           DEF FlightRuns, UncancelledKnown, FlightOn, FlightAlone, InFlight, Flight, Excused,
               TasksWritten
  <1>10. ASSUME NEW t \in Invocation, Receive(t)
        PROVE  FlightRuns'
    <2>1. UncancelledKnown'
        BY <1>10, ReceiveDoes DEF FlightRuns, UncancelledKnown, CallTypes, NewTask, CallTypes
    <2>2. FlightOn'
        BY <1>10, ReceiveDoes, FlightKey
           DEF FlightRuns, UncancelledKnown, FlightOn, FlightAlone, InFlight, Flight, Excused, EndsOr,
               GoesTo, NewTask, NoTask, CallTypes
    <2>3. FlightAlone'
        BY <1>10, ReceiveDoes, FlightKey
           DEF FlightRuns, FlightOn, FlightAlone, InFlight, Flight, Excused, EndsOr, GoesTo, CallTypes
    <2> QED
        BY <2>1, <2>2, <2>3 DEF FlightRuns
  <1>11. ASSUME NEW t \in Invocation, Record(t)
        PROVE  FlightRuns'
    <2>1. UncancelledKnown'
        BY <1>11, RecordDoes
           DEF FlightRuns, UncancelledKnown, MayWrite, Written, NewTask, CallTypes
    <2>2. FlightOn'
        BY <1>11, RecordDoes, FlightKey
           DEF FlightRuns, UncancelledKnown, FlightOn, FlightAlone, InFlight, Flight, Excused, EndsOr,
               GoesTo, NewTask, NoTask, CallTypes
    <2>3. FlightAlone'
        BY <1>11, RecordDoes, FlightKey
           DEF FlightRuns, FlightOn, FlightAlone, InFlight, Flight, Excused, EndsOr, GoesTo, CallTypes
    <2> QED
        BY <2>1, <2>2, <2>3 DEF FlightRuns
  <1>12. ASSUME NEW k \in Key, TaskRetry(k)
        PROVE  FlightRuns'
    <2>1. UncancelledKnown'
        BY <1>12, TaskRetryDoes
           DEF FlightRuns, UncancelledKnown, MayWrite, Written, NewTask, CallTypes, Retryable
    <2>2. FlightOn'
        BY <1>12, TaskRetryDoes, FlightKey
           DEF FlightRuns, UncancelledKnown, FlightOn, FlightAlone, InFlight, Flight, Excused, EndsOr,
               GoesTo, NewTask, NoTask, CallTypes, Retryable
    <2>3. FlightAlone'
        BY <1>12, TaskRetryDoes, FlightKey
           DEF FlightRuns, FlightOn, FlightAlone, InFlight, Flight, Excused, EndsOr, GoesTo, CallTypes
    <2> QED
        BY <2>1, <2>2, <2>3 DEF FlightRuns
  <1>13. ASSUME NEW k \in Key, TaskCancel(k)
        PROVE  FlightRuns'
    <2>1. UncancelledKnown'
        BY <1>13, TaskCancelDoes
           DEF FlightRuns, UncancelledKnown, MayWrite, Written, NewTask, CallTypes
    <2>2. FlightOn'
        BY <1>13, TaskCancelDoes, FlightKey
           DEF FlightRuns, UncancelledKnown, FlightOn, FlightAlone, InFlight, Flight, Excused, EndsOr,
               GoesTo, NewTask, NoTask, CallTypes
    <2>3. FlightAlone'
        BY <1>13, TaskCancelDoes, FlightKey
           DEF FlightRuns, FlightOn, FlightAlone, InFlight, Flight, Excused, EndsOr, GoesTo, CallTypes
    <2> QED
        BY <2>1, <2>2, <2>3 DEF FlightRuns
  <1>14. ASSUME NEW k \in Key, TaskPrune(k)
        PROVE  FlightRuns'
    <2>1. UncancelledKnown'
        BY <1>14, TaskPruneDoes
           DEF FlightRuns, UncancelledKnown, MayWrite, Written, NewTask, CallTypes, NoTask
    <2>2. FlightOn'
        BY <1>14, TaskPruneDoes, FlightKey
           DEF FlightRuns, UncancelledKnown, FlightOn, FlightAlone, InFlight, Flight, Excused, EndsOr,
               GoesTo, NewTask, NoTask, CallTypes
    <2>3. FlightAlone'
        BY <1>14, TaskPruneDoes, FlightKey
           DEF FlightRuns, FlightOn, FlightAlone, InFlight, Flight, Excused, EndsOr, GoesTo, CallTypes
    <2> QED
        BY <2>1, <2>2, <2>3 DEF FlightRuns
  <1>15. ASSUME LockExpires
        PROVE  FlightRuns'
    <2>1. /\ \A u \in Invocation : inv'[u].step = inv[u].step /\ inv'[u].key = inv[u].key
          /\ UNCHANGED <<task, disk, pruned, uncancelled>>
        BY <1>15, LockExpiresDoes
    <2> QED
        BY <2>1 DEF FlightRuns, UncancelledKnown, FlightOn, FlightAlone, InFlight, Flight, Excused
  <1>16. ASSUME RestartController
        PROVE  FlightRuns'
    <2>1. \A u \in Invocation : ~InFlight(u)'
        BY <1>16, RestartControllerDoes DEF InFlight, Flight
    <2>2. UncancelledKnown'
        BY <1>16, RestartControllerDoes DEF FlightRuns, UncancelledKnown
    <2> QED
        BY <2>1, <2>2 DEF FlightRuns, FlightOn, FlightAlone
  <1>17. CASE UNCHANGED invVars
      BY <1>17
         DEF invVars, records, FlightRuns, UncancelledKnown, FlightOn, FlightAlone, InFlight, Flight,
             Excused
  <1> QED
      BY <1>1, <1>2, <1>3, <1>4, <1>5, <1>6, <1>7, <1>8, <1>9, <1>10, <1>11, <1>12, <1>13, <1>14,
         <1>15, <1>16, <1>17
         DEF InvNext

\* The commands nobody waits for.
LEMMA GivenUpNext ==
  ASSUME CallTypes, CallShape, GivenUp, [InvNext]_invVars
  PROVE  GivenUp'
  <1>1. ASSUME NEW a \in Approval, RequestApproval(a) \/ Approve(a) \/ Revoke(a) \/ Expire(a)
        PROVE  GivenUp'
      BY <1>1, ApprovalDoes DEF GivenUp, records
  <1>2. ASSUME NEW t \in Invocation, NEW k \in Key, NEW a \in Approval \cup {NoApproval}, Invoke(t, k, a)
        PROVE  GivenUp'
      BY <1>2, CallBegins DEF GivenUp, CallTypes
  <1>3. ASSUME NEW t \in Invocation, NEW k \in Key, NEW a \in Approval \cup {NoApproval}, Accept(t, k, a)
        PROVE  GivenUp'
      BY <1>3, CallBegins DEF GivenUp, CallTypes
  <1>4. ASSUME NEW t \in Invocation, CheckApproval(t)
        PROVE  GivenUp'
      BY <1>4, CheckApprovalDoes
         DEF GivenUp, CallShape, ShapedCall, HeldStarted, CallTypes, EndsOr, GoesTo
  <1>5. ASSUME NEW t \in Invocation, Submit(t)
        PROVE  GivenUp'
      BY <1>5, SubmitDoes
         DEF GivenUp, CallShape, ShapedCall, HeldStarted, CallTypes, EndsOr, GoesTo
  <1>6. ASSUME NEW t \in Invocation, Retry(t)
        PROVE  GivenUp'
      BY <1>6, RetryDoes
         DEF GivenUp, CallShape, ShapedCall, HeldStarted, CallTypes, EndsOr, GoesTo
  <1>7. ASSUME NEW t \in Invocation, Run(t)
        PROVE  GivenUp'
      BY <1>7, RunDoes
         DEF GivenUp, CallShape, ShapedCall, HeldStarted, CallTypes, EndsOr, GoesTo
  <1>8. ASSUME NEW t \in Invocation, Dispatch(t)
        PROVE  GivenUp'
    <2>1. t \notin working /\ inv[t].outcome = "none"
        BY <1>8, DispatchDoes DEF CallShape, ShapedCall, HeldStarted
    <2>2. CASE working' = working \cup {t} /\ GoesTo(t, "wait")
        BY <1>8, DispatchDoes, <2>1, <2>2 DEF GivenUp, GoesTo, CallTypes
    <2>3. CASE working' = working /\ GoesTo(t, "done")
        BY <1>8, DispatchDoes, <2>1, <2>3 DEF GivenUp, GoesTo, CallTypes
    <2> QED
        BY <1>8, DispatchDoes, <2>2, <2>3
  <1>9. ASSUME NEW t \in Invocation, Work(t)
        PROVE  GivenUp'
      BY <1>9, WorkDoes DEF GivenUp, records
  <1>10. ASSUME NEW t \in Invocation, Receive(t)
        PROVE  GivenUp'
      BY <1>10, ReceiveDoes DEF GivenUp, CallTypes
  <1>11. ASSUME NEW t \in Invocation, Record(t)
        PROVE  GivenUp'
      BY <1>11, RecordDoes
         DEF GivenUp, CallShape, ShapedCall, HeldStarted, CallTypes, EndsOr, GoesTo
  <1>12. ASSUME NEW k \in Key, TaskRetry(k)
        PROVE  GivenUp'
      BY <1>12, TaskRetryDoes DEF GivenUp, CallTypes
  <1>13. ASSUME NEW k \in Key, TaskCancel(k)
        PROVE  GivenUp'
      BY <1>13, TaskCancelDoes DEF GivenUp, CallTypes
  <1>14. ASSUME NEW k \in Key, TaskPrune(k)
        PROVE  GivenUp'
      BY <1>14, TaskPruneDoes DEF GivenUp, CallTypes
  <1>15. ASSUME LockExpires
        PROVE  GivenUp'
      BY <1>15, LockExpiresDoes
         DEF GivenUp, CallShape, ShapedCall, HeldStarted, CallTypes, EndsOr, GoesTo
  <1>16. ASSUME RestartController
        PROVE  GivenUp'
      BY <1>16, RestartControllerDoes
         DEF GivenUp, CallShape, ShapedCall, HeldStarted, CallTypes, EndsOr, GoesTo
  <1>17. CASE UNCHANGED invVars
      BY <1>17 DEF invVars, GivenUp
  <1> QED
      BY <1>1, <1>2, <1>3, <1>4, <1>5, <1>6, <1>7, <1>8, <1>9, <1>10, <1>11, <1>12, <1>13, <1>14,
         <1>15, <1>16, <1>17
         DEF InvNext

\* The lock.
LEMMA LockNext ==
  ASSUME CallTypes, CallShape, LockKept, [InvNext]_invVars
  PROVE  LockKept'
  <1>1. ASSUME NEW a \in Approval, RequestApproval(a) \/ Approve(a) \/ Revoke(a) \/ Expire(a)
        PROVE  LockKept'
      BY <1>1, ApprovalDoes
         DEF LockKept, CallShape, ShapedCall, HeldStarted, CallTypes, EndsOr, GoesTo
  <1>2. ASSUME NEW t \in Invocation, NEW k \in Key, NEW a \in Approval \cup {NoApproval}, Invoke(t, k, a)
        PROVE  LockKept'
      BY <1>2, CallBegins DEF LockKept, CallTypes
  <1>3. ASSUME NEW t \in Invocation, NEW k \in Key, NEW a \in Approval \cup {NoApproval}, Accept(t, k, a)
        PROVE  LockKept'
      BY <1>3, CallBegins DEF LockKept, CallTypes
  <1>4. ASSUME NEW t \in Invocation, CheckApproval(t)
        PROVE  LockKept'
      BY <1>4, CheckApprovalDoes
         DEF LockKept, CallShape, ShapedCall, HeldStarted, CallTypes, EndsOr, GoesTo
  <1>5. ASSUME NEW t \in Invocation, Submit(t)
        PROVE  LockKept'
      BY <1>5, SubmitDoes
         DEF LockKept, CallShape, ShapedCall, HeldStarted, CallTypes, EndsOr, GoesTo
  <1>6. ASSUME NEW t \in Invocation, Retry(t)
        PROVE  LockKept'
      BY <1>6, RetryDoes
         DEF LockKept, CallShape, ShapedCall, HeldStarted, CallTypes, EndsOr, GoesTo
  <1>7. ASSUME NEW t \in Invocation, Run(t)
        PROVE  LockKept'
      BY <1>7, RunDoes DEF LockKept, CallShape, ShapedCall, HeldStarted, CallTypes, EndsOr, GoesTo
  <1>8. ASSUME NEW t \in Invocation, Dispatch(t)
        PROVE  LockKept'
    <2>1. t \notin working /\ t # lock /\ NoHolder \notin working
        BY <1>8, DispatchDoes, InvocationsAssumption DEF CallShape, HeldStarted, CallTypes
    <2>2. \A u \in Invocation \ {t} : inv'[u] = inv[u]
        BY <1>8, DispatchDoes DEF GoesTo
    <2>3. CASE lock = NoHolder /\ lock' = t /\ working' = working \cup {t}
        BY <1>8, DispatchDoes, <2>1, <2>2, <2>3 DEF LockKept, CallTypes
    <2>4. CASE UNCHANGED <<lock, working>>
        BY <1>8, DispatchDoes, <2>1, <2>2, <2>4 DEF LockKept, CallTypes
    <2> QED
        BY <1>8, DispatchDoes, <2>3, <2>4
  <1>9. ASSUME NEW t \in Invocation, Work(t)
        PROVE  LockKept'
      BY <1>9, WorkDoes DEF LockKept, CallShape, ShapedCall, HeldStarted, CallTypes, records
  <1>10. ASSUME NEW t \in Invocation, Receive(t)
        PROVE  LockKept'
    <2>1. inv'[t].outcome \in {"succeeded", "failed", "outcome-unknown"}
        BY <1>10, ReceiveDoes DEF CallTypes, CallRecord, Outcome
    <2>2. ASSUME ~restarted, NEW u \in working, u # t
          PROVE  \/ lock' = u
                 \/ /\ inv'[u].step \in {"record", "done"}
                    /\ inv'[u].outcome = "failed" \/ inv'[u].lapsed
        BY <1>10, ReceiveDoes, <2>2 DEF LockKept, CallTypes
    <2>3. ASSUME ~restarted, t \in working
          PROVE  lock' = t \/ (inv'[t].step = "record" /\ inv'[t].outcome = "failed")
        BY <1>10, ReceiveDoes, <2>1, <2>3 DEF LockKept
    <2> QED
        BY <1>10, ReceiveDoes, <2>2, <2>3 DEF LockKept
  <1>11. ASSUME NEW t \in Invocation, Record(t)
        PROVE  LockKept'
      BY <1>11, RecordDoes
         DEF LockKept, CallShape, ShapedCall, HeldStarted, CallTypes, EndsOr, GoesTo
  <1>12. ASSUME NEW k \in Key, TaskRetry(k)
        PROVE  LockKept'
      BY <1>12, TaskRetryDoes
         DEF LockKept, CallShape, ShapedCall, HeldStarted, CallTypes, EndsOr, GoesTo
  <1>13. ASSUME NEW k \in Key, TaskCancel(k)
        PROVE  LockKept'
      BY <1>13, TaskCancelDoes
         DEF LockKept, CallShape, ShapedCall, HeldStarted, CallTypes, EndsOr, GoesTo
  <1>14. ASSUME NEW k \in Key, TaskPrune(k)
        PROVE  LockKept'
      BY <1>14, TaskPruneDoes
         DEF LockKept, CallShape, ShapedCall, HeldStarted, CallTypes, EndsOr, GoesTo
  <1>15. ASSUME LockExpires
        PROVE  LockKept'
      BY <1>15, LockExpiresDoes
         DEF LockKept, CallShape, ShapedCall, HeldStarted, CallTypes, EndsOr, GoesTo
  <1>16. ASSUME RestartController
        PROVE  LockKept'
      BY <1>16, RestartControllerDoes
         DEF LockKept, CallShape, ShapedCall, HeldStarted, CallTypes, EndsOr, GoesTo
  <1>17. CASE UNCHANGED invVars
      BY <1>17 DEF invVars, records, LockKept
  <1> QED
      BY <1>1, <1>2, <1>3, <1>4, <1>5, <1>6, <1>7, <1>8, <1>9, <1>10, <1>11, <1>12, <1>13, <1>14,
         <1>15, <1>16, <1>17
         DEF InvNext

\* No task goes away but by pruning.
LEMMA TasksStay ==
  ASSUME CallShape, TasksKept, pruned \subseteq pruned', TasksWritten,
         \A t \in Invocation : inv'[t].worker = inv[t].worker /\ inv'[t].key = inv[t].key,
         \A k \in Key : task'[k].state = "none" => task[k].state = "none" \/ k \in pruned'
  PROVE  TasksKept'
  BY FlightKey DEF TasksKept, TasksWritten

\* The tasks of accepted calls.
LEMMA TasksNext ==
  ASSUME CallTypes, CallShape, TasksKept, [InvNext]_invVars
  PROVE  TasksKept'
  <1>1. ASSUME NEW a \in Approval, RequestApproval(a) \/ Approve(a) \/ Revoke(a) \/ Expire(a)
        PROVE  TasksKept'
    <2>1. \A u \in Invocation : inv'[u].worker = inv[u].worker /\ inv'[u].key = inv[u].key
        BY <1>1, ApprovalDoes DEF EndsOr, GoesTo, MayWrite, Written
    <2>2. \A j \in Key : task'[j].state = "none" => task[j].state = "none" \/ j \in pruned'
        BY <1>1, ApprovalDoes DEF CallTypes, NewTask, EndsOr, GoesTo, MayWrite, Written
    <2>3. TasksWritten /\ pruned \subseteq pruned'
        BY <1>1, ApprovalDoes DEF TasksWritten, EndsOr, GoesTo, MayWrite, Written
    <2> QED
        BY <2>1, <2>2, <2>3, TasksStay
  <1>2. ASSUME NEW t \in Invocation, NEW k \in Key, NEW a \in Approval \cup {NoApproval}, Invoke(t, k, a)
        PROVE  TasksKept'
      BY <1>2, CallBegins, FlightKey DEF TasksKept, TasksWritten
  <1>3. ASSUME NEW t \in Invocation, NEW k \in Key, NEW a \in Approval \cup {NoApproval}, Accept(t, k, a)
        PROVE  TasksKept'
      BY <1>3, CallBegins, FlightKey DEF TasksKept, TasksWritten
  <1>4. ASSUME NEW t \in Invocation, CheckApproval(t)
        PROVE  TasksKept'
    <2>1. \A u \in Invocation : inv'[u].worker = inv[u].worker /\ inv'[u].key = inv[u].key
        BY <1>4, CheckApprovalDoes DEF EndsOr, GoesTo, MayWrite, Written
    <2>2. \A j \in Key : task'[j].state = "none" => task[j].state = "none" \/ j \in pruned'
        BY <1>4, CheckApprovalDoes DEF CallTypes, NewTask, EndsOr, GoesTo, MayWrite, Written
    <2>3. TasksWritten /\ pruned \subseteq pruned'
        BY <1>4, CheckApprovalDoes DEF TasksWritten, EndsOr, GoesTo, MayWrite, Written
    <2> QED
        BY <2>1, <2>2, <2>3, TasksStay
  <1>5. ASSUME NEW t \in Invocation, Submit(t)
        PROVE  TasksKept'
    <2>1. \A u \in Invocation : inv'[u].worker = inv[u].worker /\ inv'[u].key = inv[u].key
        BY <1>5, SubmitDoes DEF EndsOr, GoesTo, MayWrite, Written
    <2>2. \A j \in Key : task'[j].state = "none" => task[j].state = "none" \/ j \in pruned'
        BY <1>5, SubmitDoes DEF CallTypes, NewTask, EndsOr, GoesTo, MayWrite, Written
    <2>3. TasksWritten /\ pruned \subseteq pruned'
        BY <1>5, SubmitDoes DEF TasksWritten, EndsOr, GoesTo, MayWrite, Written
    <2> QED
        BY <2>1, <2>2, <2>3, TasksStay
  <1>6. ASSUME NEW t \in Invocation, Retry(t)
        PROVE  TasksKept'
    <2>1. \A u \in Invocation : inv'[u].worker = inv[u].worker /\ inv'[u].key = inv[u].key
        BY <1>6, RetryDoes DEF EndsOr, GoesTo, MayWrite, Written
    <2>2. \A j \in Key : task'[j].state = "none" => task[j].state = "none" \/ j \in pruned'
        BY <1>6, RetryDoes DEF CallTypes, NewTask, EndsOr, GoesTo, MayWrite, Written, Retryable
    <2>3. TasksWritten /\ pruned \subseteq pruned'
        BY <1>6, RetryDoes DEF TasksWritten, EndsOr, GoesTo, MayWrite, Written
    <2> QED
        BY <2>1, <2>2, <2>3, TasksStay
  <1>7. ASSUME NEW t \in Invocation, Run(t)
        PROVE  TasksKept'
    <2>1. \A u \in Invocation : inv'[u].worker = inv[u].worker /\ inv'[u].key = inv[u].key
        BY <1>7, RunDoes DEF EndsOr, GoesTo, MayWrite, Written
    <2>2. \A j \in Key : task'[j].state = "none" => task[j].state = "none" \/ j \in pruned'
        BY <1>7, RunDoes DEF CallTypes, NewTask, EndsOr, GoesTo, MayWrite, Written
    <2>3. TasksWritten /\ pruned \subseteq pruned'
        BY <1>7, RunDoes DEF TasksWritten, EndsOr, GoesTo, MayWrite, Written
    <2> QED
        BY <2>1, <2>2, <2>3, TasksStay
  <1>8. ASSUME NEW t \in Invocation, Dispatch(t)
        PROVE  TasksKept'
    <2>1. \A u \in Invocation : inv'[u].worker = inv[u].worker /\ inv'[u].key = inv[u].key
        BY <1>8, DispatchDoes DEF EndsOr, GoesTo, MayWrite, Written
    <2>2. \A j \in Key : task'[j].state = "none" => task[j].state = "none" \/ j \in pruned'
        BY <1>8, DispatchDoes DEF CallTypes, NewTask, EndsOr, GoesTo, MayWrite, Written
    <2>3. TasksWritten /\ pruned \subseteq pruned'
        BY <1>8, DispatchDoes DEF TasksWritten, EndsOr, GoesTo, MayWrite, Written
    <2> QED
        BY <2>1, <2>2, <2>3, TasksStay
  <1>9. ASSUME NEW t \in Invocation, Work(t)
        PROVE  TasksKept'
    <2>1. \A u \in Invocation : inv'[u].worker = inv[u].worker /\ inv'[u].key = inv[u].key
        BY <1>9, WorkDoes DEF records
    <2>2. \A j \in Key : task'[j].state = "none" => task[j].state = "none" \/ j \in pruned'
        BY <1>9, WorkDoes DEF CallTypes, NewTask, records
    <2>3. TasksWritten /\ pruned \subseteq pruned'
        BY <1>9, WorkDoes DEF TasksWritten, records
    <2> QED
        BY <2>1, <2>2, <2>3, TasksStay
  <1>10. ASSUME NEW t \in Invocation, Receive(t)
        PROVE  TasksKept'
    <2>1. \A u \in Invocation : inv'[u].worker = inv[u].worker /\ inv'[u].key = inv[u].key
        BY <1>10, ReceiveDoes DEF CallTypes
    <2>2. \A j \in Key : task'[j].state = "none" => task[j].state = "none" \/ j \in pruned'
        BY <1>10, ReceiveDoes DEF CallTypes, NewTask, CallTypes
    <2>3. TasksWritten /\ pruned \subseteq pruned'
        BY <1>10, ReceiveDoes DEF TasksWritten, CallTypes
    <2> QED
        BY <2>1, <2>2, <2>3, TasksStay
  <1>11. ASSUME NEW t \in Invocation, Record(t)
        PROVE  TasksKept'
    <2>1. \A u \in Invocation : inv'[u].worker = inv[u].worker /\ inv'[u].key = inv[u].key
        BY <1>11, RecordDoes DEF EndsOr, GoesTo, MayWrite, Written
    <2>2. \A j \in Key : task'[j].state = "none" => task[j].state = "none" \/ j \in pruned'
        BY <1>11, RecordDoes DEF CallTypes, NewTask, EndsOr, GoesTo, MayWrite, Written
    <2>3. TasksWritten /\ pruned \subseteq pruned'
        BY <1>11, RecordDoes DEF TasksWritten, EndsOr, GoesTo, MayWrite, Written
    <2> QED
        BY <2>1, <2>2, <2>3, TasksStay
  <1>12. ASSUME NEW k \in Key, TaskRetry(k)
        PROVE  TasksKept'
    <2>1. \A u \in Invocation : inv'[u].worker = inv[u].worker /\ inv'[u].key = inv[u].key
        BY <1>12, TaskRetryDoes DEF EndsOr, GoesTo, MayWrite, Written
    <2>2. \A j \in Key : task'[j].state = "none" => task[j].state = "none" \/ j \in pruned'
        BY <1>12, TaskRetryDoes
           DEF CallTypes, NewTask, EndsOr, GoesTo, MayWrite, Written, Retryable
    <2>3. TasksWritten /\ pruned \subseteq pruned'
        BY <1>12, TaskRetryDoes DEF TasksWritten, EndsOr, GoesTo, MayWrite, Written
    <2> QED
        BY <2>1, <2>2, <2>3, TasksStay
  <1>13. ASSUME NEW k \in Key, TaskCancel(k)
        PROVE  TasksKept'
    <2>1. \A u \in Invocation : inv'[u].worker = inv[u].worker /\ inv'[u].key = inv[u].key
        BY <1>13, TaskCancelDoes DEF EndsOr, GoesTo, MayWrite, Written
    <2>2. \A j \in Key : task'[j].state = "none" => task[j].state = "none" \/ j \in pruned'
        BY <1>13, TaskCancelDoes DEF CallTypes, NewTask, EndsOr, GoesTo, MayWrite, Written
    <2>3. TasksWritten /\ pruned \subseteq pruned'
        BY <1>13, TaskCancelDoes DEF TasksWritten, EndsOr, GoesTo, MayWrite, Written
    <2> QED
        BY <2>1, <2>2, <2>3, TasksStay
  <1>14. ASSUME NEW k \in Key, TaskPrune(k)
        PROVE  TasksKept'
    <2>1. \A u \in Invocation : inv'[u].worker = inv[u].worker /\ inv'[u].key = inv[u].key
        BY <1>14, TaskPruneDoes DEF EndsOr, GoesTo, MayWrite, Written
    <2>2. \A j \in Key : task'[j].state = "none" => task[j].state = "none" \/ j \in pruned'
        BY <1>14, TaskPruneDoes DEF CallTypes, NewTask, EndsOr, GoesTo, MayWrite, Written
    <2>3. TasksWritten /\ pruned \subseteq pruned'
        BY <1>14, TaskPruneDoes DEF TasksWritten, EndsOr, GoesTo, MayWrite, Written
    <2> QED
        BY <2>1, <2>2, <2>3, TasksStay
  <1>15. ASSUME LockExpires
        PROVE  TasksKept'
    <2>1. \A u \in Invocation : inv'[u].worker = inv[u].worker /\ inv'[u].key = inv[u].key
        BY <1>15, LockExpiresDoes DEF CallTypes
    <2>2. \A j \in Key : task'[j].state = "none" => task[j].state = "none" \/ j \in pruned'
        BY <1>15, LockExpiresDoes DEF CallTypes, NewTask, CallTypes
    <2>3. TasksWritten /\ pruned \subseteq pruned'
        BY <1>15, LockExpiresDoes DEF TasksWritten, CallTypes
    <2> QED
        BY <2>1, <2>2, <2>3, TasksStay
  <1>16. ASSUME RestartController
        PROVE  TasksKept'
    <2>1. ASSUME NEW u \in Invocation, inv'[u].worker, inv'[u].key \notin pruned'
          PROVE  task'[inv'[u].key].state # "none" /\ disk'.task[inv'[u].key].state # "none"
      <3>1. inv[u].worker /\ inv'[u].key = inv[u].key /\ inv[u].key \notin pruned /\ disk'.task = task'
          BY <1>16, RestartControllerDoes, <2>1
      <3>2. inv[u].key \in Key /\ disk.task[inv[u].key].state # "none"
          BY <3>1, FlightKey DEF TasksKept
      <3> QED
          BY <1>16, RestartControllerDoes, <3>1, <3>2
    <2> QED
        BY <2>1 DEF TasksKept
  <1>17. CASE UNCHANGED invVars
      BY <1>17 DEF invVars, records, TasksKept
  <1> QED
      BY <1>1, <1>2, <1>3, <1>4, <1>5, <1>6, <1>7, <1>8, <1>9, <1>10, <1>11, <1>12, <1>13, <1>14,
         <1>15, <1>16, <1>17
         DEF InvNext

LEMMA CallInit ==
  ASSUME InvInit PROVE CallIInv
  <1>1. /\ Idle.step = "idle" /\ Idle.worker = FALSE /\ Idle.outcome = "none"
        /\ Idle \in CallRecord
      BY DEF Idle, CallRecord, Outcome
  <1>2. CallTypes
      BY <1>1 DEF InvInit, CallTypes, Task, TaskState, NoTask, ApprovalState, Holder
  <1>3. CallShape
      BY <1>1, InvocationsAssumption
      DEF InvInit, CallShape, ShapedCall, HeldStarted, SpentStarted
  <1>4. SlotsCounted
    <2>1. Workers = {}
        BY <1>1 DEF InvInit, Workers, Under
    <2> QED
        BY <2>1, FS_EmptySet DEF InvInit, SlotsCounted
  <1>5. ApprovalsGone
      BY DEF InvInit, ApprovalsGone, Gone
  <1>6. FlightRuns
      BY <1>1
         DEF InvInit, FlightRuns, UncancelledKnown, FlightOn, FlightAlone, InFlight, Flight,
             NoTask
  <1>7. LockKept
      BY DEF InvInit, LockKept
  <1>8. TasksKept
      BY <1>1 DEF InvInit, TasksKept
  <1>9. GivenUp
      BY DEF InvInit, GivenUp
  <1> QED
      BY <1>2, <1>3, <1>4, <1>5, <1>6, <1>7, <1>8, <1>9 DEF CallIInv

LEMMA CallNext ==
  ASSUME CallIInv, [InvNext]_invVars PROVE CallIInv'
  BY TypesNext, ShapeNext, SlotsNext, GoneNext, FlightNext, GivenUpNext, LockNext, TasksNext
  DEF CallIInv

\* Whatever interleaves, breaks off, is lost or restarts, the records and the
\* invocations keep to the invariant.
THEOREM CallInvariance == InvSpec => []CallIInv
  BY CallInit, CallNext, PTL DEF InvSpec

-----------------------------------------------------------------------------
(* What it says of the code.                                               *)

\* The records have their types and async_active counts the workers under way:
\* no path of capability.invoke leaks a slot or gives one back twice.
THEOREM SlotsAreCounted == InvSpec => []InvTypeOK
  <1>1. CallIInv => InvTypeOK
      BY
         DEF CallIInv, CallTypes, SlotsCounted, Workers, InvTypeOK, Task, TaskState,
             ApprovalState, Holder
  <1> QED
      BY <1>1, CallInvariance, PTL

\* An approval is used by one invocation at most, of its own command, across
\* failing writes and restarts: it is consumed and saved before the call goes on.
THEOREM ApprovalsAreSpentOnce == InvSpec => []ApprovalSpentOnce
  <1>1. ASSUME CallIInv PROVE ApprovalSpentOnce
    <2>1. ASSUME NEW a \in Approval PROVE Cardinality(spent[a]) <= 1
      <3>1. \A t, u \in spent[a] : t = u
          BY <1>1 DEF CallIInv, ApprovalsGone, Gone
      <3>2. CASE spent[a] = {}
          BY <3>2, FS_EmptySet
      <3>3. CASE spent[a] # {}
        <4>1. PICK t : t \in spent[a]
            BY <3>3
        <4>2. spent[a] = {t}
            BY <3>1, <4>1
        <4>3. Cardinality({t}) = 1
            BY FS_Singleton
        <4> QED
            BY <4>2, <4>3
      <3> QED
          BY <3>2, <3>3
    <2> QED
        BY <1>1, <2>1 DEF CallIInv, CallShape, SpentStarted, ApprovalSpentOnce
  <1> QED
      BY <1>1, CallInvariance, PTL

\* approval.revoke, once it has been confirmed, is not undone by a restart.
THEOREM RevocationLasts == InvSpec => []RevokedForGood
  <1>1. CallIInv => RevokedForGood
      BY DEF CallIInv, CallTypes, ApprovalsGone, Gone, RevokedForGood
  <1> QED
      BY <1>1, CallInvariance, PTL

\* While an invocation of an idempotency key is in flight, no other one is, and
\* the Executor carries out another only if the Controller gave it up or lost it
\* in a restart, but for the two ways TaskTable lets go of a task that still runs.
THEOREM KeysRunOnce == InvSpec => []SingleFlight
  <1>1. ASSUME CallIInv PROVE SingleFlight
    <2> SUFFICES ASSUME NEW t \in Invocation, NEW u \in Invocation,
                        t # u, inv[t].key = inv[u].key, inv[t].key \notin pruned \cup uncancelled,
                        InFlight(t)
                 PROVE  /\ ~InFlight(u)
                        /\ u \in working =>
                             restarted \/ inv[u].outcome \in {"failed", "outcome-unknown"}
        BY DEF SingleFlight, InFlight
    <2>1. ~InFlight(u)
        BY <1>1 DEF CallIInv, FlightRuns, FlightAlone, Excused
    <2>2. u \in working => inv[u].step = "done"
        BY <1>1, <2>1 DEF CallIInv, CallShape, HeldStarted, InFlight, Flight
    <2>3. inv[u].outcome \in {"none", "succeeded", "failed", "outcome-unknown"}
        BY <1>1 DEF CallIInv, CallTypes, CallRecord, Outcome
    <2> QED
        BY <1>1, <2>1, <2>2, <2>3 DEF CallIInv, GivenUp
  <1> QED
      BY <1>1, CallInvariance, PTL

\* Only an invocation whose connection broke or whose lease ran out lets another
\* command at the resource while its own still works.
THEOREM LockExcludes == InvSpec => []OneWriter
  <1>1. CallIInv => OneWriter
      BY DEF CallIInv, LockKept, OneWriter
  <1> QED
      BY <1>1, CallInvariance, PTL

\* What the Executor does for an accepted asynchronous call has a task.
THEOREM AcceptedWorkIsVisible == InvSpec => []WorkIsVisible
  <1>1. CallIInv => WorkIsVisible
      BY DEF CallIInv, CallTypes, TasksKept, WorkIsVisible, NoTask
  <1> QED
      BY <1>1, CallInvariance, PTL

-----------------------------------------------------------------------------
(* Observability *)

Cursor == 0..MaxEvents
Frame == [seq: Nat, events: SUBSET Event]

\* Events are numbered by the store that holds them.
LogTypes ==
  /\ log \in [Node -> SUBSET Event] /\ lastId \in [Node -> Cursor]
  /\ \A n \in Node : IsFiniteSet(log[n]) /\ \A e \in log[n] : e.at = n /\ e.id <= lastId[n]

PollTypes ==
  /\ registered \subseteq Node \ {Home}
  /\ poll \in [active: BOOLEAN, asked: SUBSET Node, got: SUBSET Event, cur: [Node -> Cursor]]
  /\ ~poll.active => poll = NoPoll
  /\ cursors \in [Node -> Cursor]
  /\ \A n \in Node : cursors[n] <= lastId[n] /\ poll.cur[n] <= lastId[n]
  /\ merged \subseteq Event /\ rejoined \subseteq Node

\* What a poll has passed over it has got, or an earlier one merged it.
Gathered ==
  /\ FailureSkipsNothing
  /\ \A n \in Node : \A e \in log[n] : e.id <= poll.cur[n] => e \in merged \cup poll.got

\* What was merged is behind the cursors of the Controllers that were registered
\* all the time, and of those the poll still waits for.
GatheredOnce ==
  /\ \A e \in merged : e.at \in (registered \cup {Home}) \ rejoined => e.id <= cursors[e.at]
  /\ poll.active => \A e \in merged : e.at \in (registered \cup {Home} \cup poll.asked) \ rejoined
                                        => e.id <= poll.cur[e.at]
  /\ \A e \in poll.got : e.id <= poll.cur[e.at] /\ (e \notin merged \/ e.at \in rejoined)

\* The newest frames are kept, without a gap.
FramesKept ==
  /\ sequence \in Nat /\ replay \in Seq(Frame)
  /\ Len(replay) <= sequence /\ Len(replay) <= MaxReplay
  /\ Len(replay) < MaxReplay => Len(replay) = sequence
  /\ \A i \in 1..Len(replay) : replay[i].seq = sequence - Len(replay) + i
  /\ client \in [Client -> Nat] /\ seen \in [Client -> SUBSET Nat]
  /\ \A c \in Client : client[c] <= sequence
  /\ StreamHasNoGap

ObsIInv == LogTypes /\ PollTypes /\ Gathered /\ GatheredOnce /\ FramesKept

-----------------------------------------------------------------------------
(* Cursors and pages.                                                      *)

\* The largest of numbers up to N.
LEMMA MaxOfBounded ==
  ASSUME NEW N \in Nat, NEW S, S \subseteq 0..N, S # {}
  PROVE  Max(S) \in S /\ \A y \in S : y <= Max(S)
  <1> DEFINE R == OpToRel(<, Nat)
             T == {x \in Nat : \E y \in S : x = N - y}
  <1>1. IsWellFoundedOn(R, Nat)
      BY NatLessThanWellFounded
  <1>2. T \subseteq Nat /\ T # {}
    <2>1. PICK y \in S : TRUE
        OBVIOUS
    <2>2. N - y \in T
        BY <2>1
    <2> QED
        BY <2>2
  <1>3. PICK x \in T : \A z \in T : <<z, x>> \notin R
    <2> HIDE DEF R, T
    <2> QED
        BY <1>1, <1>2, WFMin
  <1>4. \A z \in T : ~(z < x)
    <2> SUFFICES ASSUME NEW z \in T PROVE ~(z < x)
        OBVIOUS
    <2>1. <<z, x>> \notin R
        BY <1>3
    <2>2. z \in Nat /\ x \in Nat
        OBVIOUS
    <2>3. <<z, x>> \in R <=> z < x
        BY <2>2 DEF OpToRel
    <2> QED
        BY <2>1, <2>3
  <1>5. PICK m \in S : x = N - m
      BY <1>3
  <1>6. \A y \in S : y <= m
    <2> SUFFICES ASSUME NEW y \in S PROVE y <= m
        OBVIOUS
    <2>1. N - y \in T
        OBVIOUS
    <2> QED
        BY <1>4, <1>5, <2>1
  <1>7. \E a \in S : \A y \in S : a >= y
      BY <1>5, <1>6
  <1> QED
      BY <1>7 DEF Max

\* ObservabilityStore::query: a page is the events between the old cursor and the
\* new one, without any left out.
LEMMA PageCovers ==
  ASSUME LogTypes, NEW n \in Node, NEW c \in Cursor, c <= lastId[n]
  PROVE  /\ Page(n, c) \subseteq log[n]
         /\ After(Page(n, c), c) \in Cursor /\ After(Page(n, c), c) <= lastId[n]
         /\ c <= After(Page(n, c), c)
         /\ \A e \in Page(n, c) : e.id > c /\ e.id <= After(Page(n, c), c)
         /\ \A e \in log[n] : e.id <= After(Page(n, c), c) => e.id <= c \/ e \in Page(n, c)
  <1> DEFINE S == {c} \cup {e.id : e \in Page(n, c)}
             m == After(Page(n, c), c)
  <1>1. Page(n, c) \subseteq log[n] /\ \A e \in Page(n, c) : e.id > c
      BY DEF Page
  <1>2. /\ \A e \in log[n] : e.id \in Cursor /\ e.id \in Nat /\ e.id <= lastId[n]
        /\ lastId[n] \in Cursor /\ MaxEvents \in Nat
      BY ObservabilityAssumption DEF LogTypes, Event, Cursor
  <1>3. S \subseteq 0..MaxEvents /\ S # {}
      BY <1>1, <1>2 DEF Cursor
  <1>4. m = Max(S)
      BY DEF After
  <1>5. m \in S /\ \A y \in S : y <= m
    <2> HIDE DEF S, m
    <2> QED
        BY <1>2, <1>3, <1>4, MaxOfBounded
  <1>6. m \in Cursor /\ m <= lastId[n] /\ c <= m /\ \A e \in Page(n, c) : e.id <= m
    <2> HIDE DEF m
    <2> QED
        BY <1>1, <1>2, <1>5 DEF Cursor
  <1>7. ASSUME NEW e \in log[n], e.id <= m, e.id > c PROVE e \in Page(n, c)
    <2>1. PICK f \in Page(n, c) : m = f.id
      <3> HIDE DEF m
      <3> QED
          BY <1>2, <1>5, <1>7 DEF Cursor
    <2> DEFINE A == {g \in log[n] : g.id > c /\ g.id < e.id}
               B == {g \in log[n] : g.id > c /\ g.id < f.id}
    <2>2. IsFiniteSet(B) /\ A \in SUBSET B
      <3>1. IsFiniteSet(log[n]) /\ B \in SUBSET log[n]
          BY DEF LogTypes
      <3>2. A \in SUBSET B
        <4> SUFFICES ASSUME NEW g \in A PROVE g.id < f.id
            OBVIOUS
        <4>1. g.id \in Nat /\ e.id \in Nat /\ f.id \in Nat /\ g.id < e.id /\ e.id <= f.id
            BY <1>1, <1>2, <1>7, <2>1
        <4> QED
            BY <4>1
      <3> QED
          BY <3>1, <3>2, FS_Subset
    <2>3. Cardinality(A) <= Cardinality(B)
        BY <2>2, FS_Subset
    <2>4. Cardinality(B) < PageLimit
        BY DEF Page
    <2>5. Cardinality(A) \in Nat /\ Cardinality(B) \in Nat /\ PageLimit \in Nat
        BY <2>2, FS_Subset, FS_CardinalityType, ObservabilityAssumption
    <2>6. Cardinality(A) < PageLimit
      <3> HIDE DEF A, B
      <3> QED
          BY <2>3, <2>4, <2>5
    <2> QED
        BY <1>7, <2>6 DEF Page
  <1>8. \A e \in log[n] : e.id <= m => e.id <= c \/ e \in Page(n, c)
    <2>1. \A e \in log[n] : e.id > c \/ e.id <= c
        BY <1>2 DEF Cursor
    <2> HIDE DEF m
    <2> QED
        BY <1>7, <2>1
  <1> QED
      BY <1>1, <1>6, <1>8

-----------------------------------------------------------------------------
(* The stores and the poll, step by step.                                  *)

Polled == LogTypes /\ PollTypes /\ Gathered /\ GatheredOnce

LEMMA HomeIsNode == Home \in Node /\ 1 \in Node /\ MaxEvents \in Nat
  BY ObservabilityAssumption DEF Home, Node

\* NoPoll has gathered nothing.
LEMMA NoPollIs ==
  /\ NoPoll.active = FALSE /\ NoPoll.asked = {} /\ NoPoll.got = {}
  /\ \A n \in Node : NoPoll.cur[n] = 0
  /\ NoPoll \in [active: BOOLEAN, asked: SUBSET Node, got: SUBSET Event, cur: [Node -> Cursor]]
  BY HomeIsNode DEF NoPoll, Cursor

\* Events have numbers from 1.
LEMMA EventIds ==
  ASSUME LogTypes, NEW n \in Node, NEW e \in log[n]
  PROVE  e \in Event /\ e.id \in Nat /\ e.id > 0 /\ e.at = n /\ e.id <= lastId[n] /\ lastId[n] \in Nat
  BY HomeIsNode DEF LogTypes, Event, Cursor

LEMMA AppendNext ==
  ASSUME Polled, NEW n \in Node, NEW label \in Node \cup {Local}, NEW time \in 0..MaxTime,
         AppendEvent(n, label, time)
  PROVE  Polled'
  <1> DEFINE e == [at |-> n, id |-> lastId[n] + 1, label |-> label, time |-> time]
  <1>1. /\ lastId[n] < MaxEvents /\ lastId' = [lastId EXCEPT ![n] = lastId[n] + 1]
        /\ log' = [log EXCEPT ![n] = log[n] \cup {e}]
        /\ UNCHANGED <<registered, poll, cursors, merged, rejoined>>
      BY DEF AppendEvent, NextId, dashboard, obsHistory
  <1>2. lastId[n] \in Nat /\ lastId[n] + 1 \in 1..MaxEvents /\ lastId[n] + 1 \in Cursor
      BY <1>1, HomeIsNode DEF Polled, LogTypes, Cursor
  <1>3. e \in Event /\ e.at = n /\ e.id = lastId[n] + 1
      BY <1>2 DEF Event
  <1> HIDE DEF e
  <1>4. log' \in [Node -> SUBSET Event] /\ lastId' \in [Node -> Cursor]
      BY <1>1, <1>2, <1>3 DEF Polled, LogTypes
  <1>5. \A m \in Node : lastId'[m] \in Nat /\ lastId[m] \in Nat /\ lastId[m] <= lastId'[m]
      BY <1>1, <1>2, HomeIsNode DEF Polled, LogTypes, Cursor
  <1>6. ASSUME NEW m \in Node
        PROVE  IsFiniteSet(log'[m]) /\ \A f \in log'[m] : f.at = m /\ f.id <= lastId'[m]
    <2>1. CASE m # n
        BY <1>1, <2>1 DEF Polled, LogTypes
    <2>2. CASE m = n
      <3>1. IsFiniteSet(log[n] \cup {e})
          BY FS_AddElement DEF Polled, LogTypes
      <3>2. \A f \in log[n] : f.at = n /\ f.id \in Nat /\ f.id <= lastId[n]
          BY EventIds DEF Polled
      <3>3. log'[n] = log[n] \cup {e} /\ lastId'[n] = lastId[n] + 1
          BY <1>1 DEF Polled, LogTypes
      <3> QED
          BY <1>2, <1>3, <2>2, <3>1, <3>2, <3>3
    <2> QED
        BY <2>1, <2>2
  <1>7. LogTypes'
      BY <1>4, <1>6 DEF LogTypes
  <1>8. \A m \in Node : cursors[m] \in Nat /\ poll.cur[m] \in Nat
      BY DEF Polled, PollTypes, Cursor
  <1>9. PollTypes'
      BY <1>1, <1>5, <1>8 DEF Polled, PollTypes
  <1>10. Gathered'
    <2>1. ASSUME NEW m \in Node, NEW f \in log'[m]
          PROVE  f \in log[m] \/ (f.id > cursors[m] /\ f.id > poll.cur[m])
      <3>1. CASE m = n /\ f = e
          BY <1>2, <1>3, <1>8, <3>1 DEF Polled, PollTypes
      <3> QED
          BY <1>1, <2>1, <3>1 DEF Polled, LogTypes
    <2>2. ASSUME NEW m \in Node, NEW f \in log'[m]
          PROVE  f.id \in Nat
        BY <1>7, <2>2, HomeIsNode DEF LogTypes, Event
    <2> QED
        BY <1>1, <1>8, <2>1, <2>2 DEF Polled, Gathered, FailureSkipsNothing
  <1>11. GatheredOnce'
      BY <1>1 DEF Polled, GatheredOnce
  <1> QED
      BY <1>7, <1>9, <1>10, <1>11 DEF Polled

\* A poll that fails is as if it had not begun.
LEMMA PollDropped ==
  ASSUME Polled, poll' = NoPoll, log' = log, UNCHANGED <<lastId, registered, cursors, merged, rejoined>>
  PROVE  Polled'
  <1>1. LogTypes'
      BY DEF Polled, LogTypes
  <1>2. \A n \in Node : lastId[n] \in Nat
      BY DEF Polled, LogTypes, Cursor
  <1>3. PollTypes'
      BY <1>2, NoPollIs DEF Polled, PollTypes
  <1>4. Gathered'
    <2>1. ASSUME NEW n \in Node, NEW e \in log[n] PROVE ~(e.id <= NoPoll.cur[n])
        BY EventIds, NoPollIs DEF Polled
    <2> QED
        BY <2>1 DEF Polled, Gathered, FailureSkipsNothing
  <1>5. GatheredOnce'
      BY NoPollIs DEF Polled, GatheredOnce
  <1> QED
      BY <1>1, <1>3, <1>4, <1>5 DEF Polled

LEMMA RestartNext ==
  ASSUME Polled, NEW n \in Node, RestartNode(n)
  PROVE  Polled'
  <1>1. PICK cutoff \in 0..(MaxTime + 1), k \in 0..MaxEvents :
          log' = [log EXCEPT ![n] = Pruned(log[n], cutoff, k)]
      BY DEF RestartNode
  <1>2. Pruned(log[n], cutoff, k) \in SUBSET log[n]
      BY DEF Pruned
  <1>3. /\ poll' = poll \/ poll' = NoPoll
        /\ UNCHANGED <<lastId, registered, cursors, merged, rejoined>>
      BY DEF RestartNode, obsHistory
  <1>4. \A m \in Node : log'[m] \subseteq log[m]
      BY <1>1, <1>2 DEF Polled, LogTypes
  <1>5. LogTypes'
    <2>1. \A m \in Node : IsFiniteSet(log'[m])
        BY <1>4, FS_Subset DEF Polled, LogTypes
    <2>2. log' \in [Node -> SUBSET Event]
        BY <1>1, <1>2 DEF Polled, LogTypes
    <2> QED
        BY <1>3, <1>4, <2>1, <2>2 DEF Polled, LogTypes
  <1>6. \A m \in Node : lastId[m] \in Nat
      BY DEF Polled, LogTypes, Cursor
  <1>7. PollTypes'
      BY <1>3, <1>6, NoPollIs DEF Polled, PollTypes
  <1>8. Gathered'
    <2>1. ASSUME NEW m \in Node, NEW e \in log[m] PROVE ~(e.id <= NoPoll.cur[m])
        BY EventIds, NoPollIs DEF Polled
    <2> QED
        BY <1>3, <1>4, <2>1 DEF Polled, Gathered, FailureSkipsNothing
  <1>9. GatheredOnce'
      BY <1>3, NoPollIs DEF Polled, GatheredOnce
  <1> QED
      BY <1>5, <1>7, <1>8, <1>9 DEF Polled

LEMMA RegisterNext ==
  ASSUME Polled, NEW n \in Node \ {Home}, Register(n) \/ Unregister(n)
  PROVE  Polled'
  <1>1. /\ UNCHANGED <<log, lastId, poll, cursors, merged>>
        /\ registered' \subseteq Node \ {Home}
        /\ rejoined \subseteq rejoined' /\ rejoined' \subseteq Node
        /\ registered' \ rejoined' \subseteq registered \ rejoined
      BY DEF Register, Unregister, store, dashboard, obsHistory, Polled, PollTypes
  <1>2. LogTypes' /\ PollTypes' /\ Gathered'
      BY <1>1 DEF Polled, LogTypes, PollTypes, Gathered, FailureSkipsNothing
  <1>3. GatheredOnce'
      BY <1>1 DEF Polled, GatheredOnce
  <1> QED
      BY <1>2, <1>3 DEF Polled

LEMMA PollStartsNext ==
  ASSUME Polled, PollStarts
  PROVE  Polled'
  <1> DEFINE c == cursors[Home]
             page == Page(Home, c)
             end == After(page, c)
  <1>1. /\ ~poll.active /\ poll'.active = TRUE /\ poll'.asked = registered /\ poll'.got = page
        /\ poll'.cur = [n \in Node |-> CASE n = Home -> end
                                         [] n \in registered -> cursors[n]
                                         [] OTHER -> 0]
        /\ poll' \in [active: {TRUE}, asked: {registered}, got: {page}, cur: {poll'.cur}]
        /\ UNCHANGED <<log, lastId, registered, cursors, merged, rejoined>>
      BY DEF PollStarts, store, obsHistory
  <1>2. /\ Home \in Node /\ c \in Cursor /\ c <= lastId[Home]
        /\ \A n \in Node : cursors[n] \in Cursor /\ cursors[n] <= lastId[n] /\ lastId[n] \in Nat
        /\ registered \subseteq Node \ {Home}
      BY HomeIsNode DEF Polled, PollTypes, LogTypes, Cursor
  <1>3. /\ page \subseteq log[Home] /\ end \in Cursor /\ end <= lastId[Home] /\ c <= end
        /\ \A e \in page : e.id > c /\ e.id <= end
        /\ \A e \in log[Home] : e.id <= end => e.id <= c \/ e \in page
      BY <1>2, PageCovers DEF Polled
  <1> HIDE DEF end, page
  <1>4. /\ poll'.cur[Home] = end
        /\ \A n \in registered : poll'.cur[n] = cursors[n]
        /\ \A n \in Node : poll'.cur[n] = end \/ poll'.cur[n] = cursors[n] \/ poll'.cur[n] = 0
        /\ \A n \in Node \ {Home} : poll'.cur[n] = cursors[n] \/ poll'.cur[n] = 0
        /\ poll'.cur \in [Node -> Cursor]
      BY <1>1, <1>2, <1>3, HomeIsNode DEF Cursor
  <1>5. LogTypes'
      BY <1>1 DEF Polled, LogTypes
  <1>6. PollTypes'
    <2>1. page \subseteq Event
        BY <1>2, <1>3 DEF Polled, LogTypes
    <2>2. poll' \in [active: BOOLEAN, asked: SUBSET Node, got: SUBSET Event, cur: [Node -> Cursor]]
        BY <1>1, <1>2, <1>4, <2>1
    <2>3. \A n \in Node : poll'.cur[n] <= lastId[n]
        BY <1>2, <1>3, <1>4
    <2> QED
        BY <1>1, <2>2, <2>3 DEF Polled, PollTypes
  <1>7. Gathered'
    <2>1. ASSUME NEW n \in Node, NEW e \in log[n], e.id <= poll'.cur[n]
          PROVE  e \in merged \cup page
      <3>1. CASE n = Home
          BY <1>3, <1>4, <2>1, <3>1 DEF Polled, Gathered, FailureSkipsNothing
      <3>2. CASE n # Home
        <4>1. e.id \in Nat /\ e.id > 0
            BY EventIds DEF Polled
        <4>2. poll'.cur[n] = cursors[n]
            BY <1>4, <2>1, <3>2, <4>1
        <4> QED
            BY <2>1, <4>2 DEF Polled, Gathered, FailureSkipsNothing
      <3> QED
          BY <3>1, <3>2
    <2> QED
        BY <1>1, <2>1 DEF Polled, Gathered, FailureSkipsNothing
  <1>8. GatheredOnce'
    <2>1. ASSUME NEW e \in merged, e.at \in (registered \cup {Home}) \ rejoined
          PROVE  e.id <= poll'.cur[e.at]
      <3>1. e.id <= cursors[e.at] /\ e.id \in Nat
          BY <2>1, HomeIsNode DEF Polled, GatheredOnce, PollTypes, Event
      <3>2. CASE e.at = Home
          BY <1>2, <1>3, <1>4, <3>1, <3>2 DEF Cursor
      <3>3. CASE e.at \in registered
          BY <1>4, <3>1, <3>3
      <3> QED
          BY <2>1, <3>2, <3>3
    <2>2. ASSUME NEW e \in page
          PROVE  e.id <= poll'.cur[e.at] /\ (e \notin merged \/ e.at \in rejoined)
      <3>1. e.at = Home /\ e.id \in Nat /\ c \in Nat
          BY <1>2, <1>3, EventIds DEF Polled, Cursor
      <3>2. e.id > c /\ e.id <= end
          BY <1>3
      <3> QED
          BY <1>4, <3>1, <3>2 DEF Polled, GatheredOnce
    <2> QED
        BY <1>1, <2>1, <2>2 DEF Polled, GatheredOnce
  <1> QED
      BY <1>5, <1>6, <1>7, <1>8 DEF Polled

LEMMA PollAnsweredNext ==
  ASSUME Polled, NEW n \in Node \ {Home}, PollAnswered(n)
  PROVE  Polled'
  <1> DEFINE c == poll.cur[n]
             page == Page(n, c)
             end == After(page, c)
  <1>0. /\ poll \in [active: BOOLEAN, asked: SUBSET Node, got: SUBSET Event, cur: [Node -> Cursor]]
        /\ n \in Node /\ c \in Cursor /\ c <= lastId[n]
        /\ \A m \in Node : poll.cur[m] \in Cursor /\ lastId[m] \in Nat
      BY DEF Polled, PollTypes, LogTypes, Cursor
  <1>1. /\ n \in poll.asked
        /\ poll' = [poll EXCEPT !.asked = poll.asked \ {n}, !.got = poll.got \cup page, !.cur[n] = end]
        /\ UNCHANGED <<log, lastId, registered, cursors, merged, rejoined>>
      BY DEF PollAnswered, store, obsHistory
  <1>2. /\ page \subseteq log[n] /\ end \in Cursor /\ end <= lastId[n] /\ c <= end
        /\ \A e \in page : e.id > c /\ e.id <= end
        /\ \A e \in log[n] : e.id <= end => e.id <= c \/ e \in page
      BY <1>0, PageCovers DEF Polled
  <1>2a. page \subseteq Event
      BY <1>2 DEF Polled, LogTypes
  <1>3. poll.active
      BY <1>1, NoPollIs DEF Polled, PollTypes
  <1> HIDE DEF c, page, end
  <1>4. /\ poll' \in [active: BOOLEAN, asked: SUBSET Node, got: SUBSET Event, cur: [Node -> Cursor]]
        /\ poll'.active = TRUE /\ poll'.asked = poll.asked \ {n} /\ poll'.got = poll.got \cup page
        /\ poll'.cur[n] = end /\ \A m \in Node \ {n} : poll'.cur[m] = poll.cur[m]
      BY <1>0, <1>1, <1>2, <1>2a, <1>3
  <1>5. LogTypes'
      BY <1>1 DEF Polled, LogTypes
  <1>6. PollTypes'
      BY <1>1, <1>2, <1>4 DEF Polled, PollTypes
  <1>7. Gathered'
    <2>1. ASSUME NEW m \in Node, NEW e \in log[m], e.id <= poll'.cur[m]
          PROVE  e \in merged \cup poll'.got
      <3>1. CASE m = n
          BY <1>2, <1>4, <2>1, <3>1 DEF Polled, Gathered, c
      <3>2. CASE m # n
          BY <1>4, <2>1, <3>2 DEF Polled, Gathered
      <3> QED
          BY <3>1, <3>2
    <2> QED
        BY <1>1, <2>1 DEF Polled, Gathered, FailureSkipsNothing
  <1>8. GatheredOnce'
    <2>0. ASSUME NEW m \in Node PROVE poll.cur[m] \in Nat /\ poll'.cur[m] \in Nat /\ poll.cur[m] <= poll'.cur[m]
        BY <1>0, <1>2, <1>4 DEF Cursor, c
    <2>0a. \A e \in Event : e.at \in Node /\ e.id \in Nat
        BY DEF Event
    <2>1. ASSUME NEW e \in merged, e.at \in (registered \cup {Home} \cup poll'.asked) \ rejoined
          PROVE  e.id <= poll'.cur[e.at]
      <3>1. e.id <= poll.cur[e.at] /\ e.at \in Node /\ e.id \in Nat
          BY <1>3, <1>4, <2>0a, <2>1 DEF Polled, GatheredOnce, PollTypes
      <3> QED
          BY <2>0, <3>1
    <2>2. ASSUME NEW e \in page
          PROVE  e.id <= poll'.cur[e.at] /\ (e \notin merged \/ e.at \in rejoined)
      <3>1. e.at = n /\ e.id \in Nat /\ c \in Nat
          BY <1>0, <1>2, EventIds DEF Polled, Cursor
      <3>2. e.id > c /\ e.id <= end
          BY <1>2
      <3> QED
          BY <1>1, <1>3, <1>4, <3>1, <3>2 DEF Polled, GatheredOnce, c
    <2>3. ASSUME NEW e \in poll.got
          PROVE  e.id <= poll'.cur[e.at] /\ (e \notin merged \/ e.at \in rejoined)
      <3>1. e.at \in Node /\ e.id \in Nat
          BY <1>0, <2>0a
      <3>2. e.id <= poll.cur[e.at] /\ (e \notin merged \/ e.at \in rejoined)
          BY DEF Polled, GatheredOnce
      <3> QED
          BY <2>0, <3>1, <3>2
    <2> QED
        BY <1>1, <1>4, <2>1, <2>2, <2>3 DEF Polled, GatheredOnce
  <1> QED
      BY <1>5, <1>6, <1>7, <1>8 DEF Polled

LEMMA PollFailsNext ==
  ASSUME Polled, NEW n \in Node \ {Home}, PollFails(n)
  PROVE  Polled'
  <1>1. /\ poll' = [poll EXCEPT !.asked = poll.asked \ {n}] /\ n \in poll.asked
        /\ UNCHANGED <<log, lastId, registered, cursors, merged, rejoined>>
      BY DEF PollFails, store, obsHistory
  <1>2. poll.active
      BY <1>1, NoPollIs DEF Polled, PollTypes
  <1>3. /\ poll' \in [active: BOOLEAN, asked: SUBSET Node, got: SUBSET Event, cur: [Node -> Cursor]]
        /\ poll'.active = TRUE /\ poll'.asked \subseteq poll.asked /\ poll'.got = poll.got
        /\ poll'.cur = poll.cur
      BY <1>1, <1>2 DEF Polled, PollTypes
  <1>4. LogTypes' /\ PollTypes' /\ Gathered'
      BY <1>1, <1>3 DEF Polled, LogTypes, PollTypes, Gathered, FailureSkipsNothing
  <1>5. GatheredOnce'
      BY <1>1, <1>2, <1>3 DEF Polled, GatheredOnce
  <1> QED
      BY <1>4, <1>5 DEF Polled

LEMMA PollEndsNext ==
  ASSUME Polled, PollEnds
  PROVE  Polled'
  <1>1. /\ poll.active /\ poll.asked = {} /\ poll' = NoPoll /\ cursors' = poll.cur
        /\ merged' = merged \cup poll.got
        /\ UNCHANGED <<log, lastId, registered, rejoined>>
      BY DEF PollEnds, store
  <1>2. LogTypes'
      BY <1>1 DEF Polled, LogTypes
  <1>3. \A n \in Node : lastId[n] \in Nat
      BY DEF Polled, LogTypes, Cursor
  <1>4. PollTypes'
      BY <1>1, <1>3, NoPollIs DEF Polled, PollTypes
  <1>5. Gathered'
    <2>1. ASSUME NEW n \in Node, NEW e \in log[n] PROVE ~(e.id <= NoPoll.cur[n])
        BY EventIds, NoPollIs DEF Polled
    <2> QED
        BY <1>1, <2>1 DEF Polled, Gathered, FailureSkipsNothing
  <1>6. GatheredOnce'
      BY <1>1, NoPollIs DEF Polled, GatheredOnce
  <1> QED
      BY <1>2, <1>4, <1>5, <1>6 DEF Polled

-----------------------------------------------------------------------------
(* The frames.                                                             *)

\* The frame of a poll holds nothing but what was gathered.
LEMMA FrameOfPoll == Merged(poll.got) \subseteq poll.got
  BY DEF Merged, Newest, Distinct

\* A new frame is appended, and the oldest dropped if there are too many.
Grown(next) == IF Len(next) > MaxReplay THEN Tail(next) ELSE next

LEMMA ReplayGrows ==
  ASSUME FramesKept, NEW events \in SUBSET Event,
         replay' = Grown(Append(replay, [seq |-> sequence + 1, events |-> events])),
         sequence' = sequence + 1, UNCHANGED <<client, seen>>
  PROVE  FramesKept' /\ replay'[Len(replay')].events = events
  <1> DEFINE f == [seq |-> sequence + 1, events |-> events]
             next == Append(replay, f)
             n == Len(replay)
  <1>0. MaxReplay \in Nat /\ MaxReplay > 0 /\ sequence \in Nat
      BY ObservabilityAssumption DEF FramesKept
  <1>1. f \in Frame /\ f.seq = sequence + 1 /\ f.events = events
      BY <1>0 DEF Frame
  <1>2. replay \in Seq(Frame) /\ n \in Nat /\ replay' = IF Len(next) > MaxReplay THEN Tail(next) ELSE next
      BY DEF FramesKept, Grown
  <1> HIDE DEF f
  <1>3. /\ next \in Seq(Frame) /\ Len(next) = n + 1 /\ next # <<>>
        /\ \A i \in 1..n : next[i] = replay[i]
        /\ next[n + 1] = f
      BY <1>1, <1>2
  <1>4. \A i \in 1..(n + 1) : next[i].seq = sequence - n + i
    <2> SUFFICES ASSUME NEW i \in 1..(n + 1) PROVE next[i].seq = sequence - n + i
        OBVIOUS
    <2>1. CASE i \in 1..n
        BY <1>3, <2>1 DEF FramesKept
    <2>2. CASE i = n + 1
        BY <1>0, <1>1, <1>2, <1>3, <2>2
    <2> QED
        BY <1>2, <2>1, <2>2
  <1> HIDE DEF next
  <1>5. /\ Tail(next) \in Seq(Frame) /\ Len(Tail(next)) = n
        /\ \A i \in 1..n : Tail(next)[i] = next[i + 1]
      BY <1>2, <1>3
  <1>6. n <= sequence /\ n <= MaxReplay /\ (n < MaxReplay => n = sequence)
      BY DEF FramesKept
  <1> HIDE DEF n
  <1>7. /\ replay' \in Seq(Frame) /\ Len(replay') <= sequence' /\ Len(replay') <= MaxReplay
        /\ Len(replay') < MaxReplay => Len(replay') = sequence'
        /\ \A i \in 1..Len(replay') : replay'[i].seq = sequence' - Len(replay') + i
        /\ replay'[Len(replay')].events = events
    <2>1. CASE Len(next) > MaxReplay
      <3>1. replay' = Tail(next) /\ n = MaxReplay /\ Len(replay') = n
          BY <1>0, <1>2, <1>3, <1>5, <1>6, <2>1
      <3>2. \A i \in 1..n : replay'[i].seq = sequence' - n + i
        <4> SUFFICES ASSUME NEW i \in 1..n PROVE replay'[i].seq = sequence' - n + i
            OBVIOUS
        <4>1. i + 1 \in 1..(n + 1)
            BY <1>2
        <4>2. replay'[i] = next[i + 1]
            BY <1>5, <3>1
        <4>3. next[i + 1].seq = sequence - n + (i + 1)
            BY <1>4, <4>1
        <4>4. sequence - n + (i + 1) = (sequence + 1) - n + i
            BY <1>0, <1>2
        <4> QED
            BY <4>2, <4>3, <4>4
      <3>3a. n \in 1..n
          BY <1>0, <1>2, <3>1
      <3>3. n \in 1..n /\ replay'[n] = f
          BY <1>3, <1>5, <3>1, <3>3a
      <3>4. Len(replay') <= sequence' /\ Len(replay') <= MaxReplay /\ ~(Len(replay') < MaxReplay)
          BY <1>0, <1>2, <1>6, <3>1
      <3>5. replay' \in Seq(Frame)
          BY <1>5, <3>1
      <3>6. \A i \in 1..Len(replay') : replay'[i].seq = sequence' - Len(replay') + i
          BY <3>1, <3>2
      <3>7. replay'[Len(replay')].events = events
          BY <1>1, <3>1, <3>3
      <3> QED
          BY <3>4, <3>5, <3>6, <3>7
    <2>2. CASE ~(Len(next) > MaxReplay)
      <3>1. replay' = next /\ Len(replay') = n + 1 /\ n = sequence
          BY <1>0, <1>2, <1>3, <1>6, <2>2
      <3>2. n + 1 <= MaxReplay /\ n + 1 = sequence'
          BY <1>0, <1>2, <1>3, <2>2, <3>1
      <3>3. Len(replay') <= sequence' /\ Len(replay') <= MaxReplay
            /\ (Len(replay') < MaxReplay => Len(replay') = sequence')
          BY <1>0, <1>2, <3>1, <3>2
      <3>4. replay' \in Seq(Frame)
          BY <1>3, <3>1
      <3>5. \A i \in 1..Len(replay') : replay'[i].seq = sequence' - Len(replay') + i
        <4>1. sequence - n = 0 /\ sequence' - Len(replay') = 0
            BY <1>0, <1>2, <3>1, <3>2
        <4>2. \A i \in 1..(n + 1) : replay'[i].seq = sequence - n + i
            BY <1>4, <3>1
        <4> QED
            BY <3>1, <4>1, <4>2
      <3>6. replay'[Len(replay')].events = events
          BY <1>1, <1>3, <3>1
      <3> QED
          BY <3>3, <3>4, <3>5, <3>6
    <2> QED
        BY <2>1, <2>2
  <1>8. StreamHasNoGap' /\ \A c \in Client : client'[c] <= sequence'
      BY <1>0 DEF FramesKept, StreamHasNoGap
  <1>9. sequence' \in Nat
      BY <1>0
  <1> QED
      BY <1>7, <1>8, <1>9 DEF FramesKept

LEMMA StreamNext ==
  ASSUME FramesKept, NEW c \in Client, Stream(c)
  PROVE  FramesKept' /\ UNCHANGED <<log, lastId, registered, poll, cursors, merged, rejoined>>
  <1>1. PICK i \in DOMAIN replay :
          /\ replay[i].seq > client[c]
          /\ client' = [client EXCEPT ![c] = replay[i].seq]
          /\ seen' = [seen EXCEPT ![c] = seen[c] \cup
               {replay[j].seq : j \in {j \in 1..i : replay[j].seq > client[c]}}]
          /\ UNCHANGED <<store, registered, dashboard, restarts, obsHistory>>
      BY DEF Stream
  <1> DEFINE n == Len(replay)
             base == sequence - n
             new == {replay[j].seq : j \in {j \in 1..i : replay[j].seq > client[c]}}
  <1>2. /\ n \in Nat /\ sequence \in Nat /\ n <= sequence /\ base \in Nat /\ i \in 1..n
        /\ MaxReplay \in Nat /\ n <= MaxReplay /\ (n < MaxReplay => n = sequence)
        /\ \A j \in 1..n : replay[j].seq = base + j
        /\ client[c] \in Nat
      BY ObservabilityAssumption DEF FramesKept
  <1>3. UNCHANGED <<sequence, replay>> /\ UNCHANGED <<log, lastId, registered, poll, cursors, merged, rejoined>>
      BY <1>1 DEF dashboard, store, obsHistory
  <1>4. replay[i].seq = base + i /\ base + i <= sequence /\ base + i \in Nat
      BY <1>2
  <1>5. new \subseteq Nat
    <2>1. \A j \in 1..i : replay[j].seq \in Nat
      <3> SUFFICES ASSUME NEW j \in 1..i PROVE replay[j].seq \in Nat
          OBVIOUS
      <3>1. j \in 1..n /\ j \in Nat
          BY <1>2
      <3> QED
          BY <1>2, <3>1
    <2> QED
        BY <2>1
  <1>6. ASSUME NEW s \in 1..(base + i) PROVE s \in seen'[c] \/ s + MaxReplay <= sequence
    <2>1. CASE s <= client[c]
        BY <1>1, <1>2, <2>1 DEF FramesKept, StreamHasNoGap
    <2>2. CASE s > client[c] /\ s <= base
      <3> HIDE DEF n
      <3> QED
          BY <1>2, <2>2
    <2>3. CASE s > client[c] /\ s > base
      <3>1. s - base \in 1..i /\ s - base \in 1..n /\ base + (s - base) = s
        <4> HIDE DEF base, n, new
        <4> QED
            BY <1>2, <2>3
      <3>2. replay[s - base].seq = s
          BY <1>2, <3>1
      <3>3. s \in new
          BY <2>3, <3>1, <3>2
      <3> QED
          BY <1>1, <3>3 DEF FramesKept
    <2> QED
        BY <1>2, <2>1, <2>2, <2>3
  <1>7. client' \in [Client -> Nat] /\ client'[c] = base + i /\ \A d \in Client \ {c} : client'[d] = client[d]
      BY <1>1, <1>4 DEF FramesKept
  <1>8. seen' \in [Client -> SUBSET Nat] /\ \A d \in Client \ {c} : seen'[d] = seen[d]
      BY <1>1, <1>5 DEF FramesKept
  <1> HIDE DEF base, new, n
  <1>9. StreamHasNoGap'
      BY <1>3, <1>6, <1>7, <1>8 DEF FramesKept, StreamHasNoGap
  <1>10. \A d \in Client : client'[d] <= sequence'
      BY <1>3, <1>4, <1>7 DEF FramesKept
  <1> QED
      BY <1>3, <1>7, <1>8, <1>9, <1>10 DEF FramesKept

-----------------------------------------------------------------------------
(* The invariant.                                                          *)

LEMMA ObsIInvInit ==
  ASSUME ObsInit PROVE ObsIInv
  <1>1. LogTypes
      BY HomeIsNode, FS_EmptySet DEF ObsInit, LogTypes, Cursor
  <1>2. PollTypes
      BY HomeIsNode, NoPollIs DEF ObsInit, PollTypes, Cursor
  <1>3. Gathered /\ GatheredOnce
      BY NoPollIs DEF ObsInit, Gathered, GatheredOnce, FailureSkipsNothing
  <1>4. FramesKept
      BY ObservabilityAssumption DEF ObsInit, FramesKept, StreamHasNoGap
  <1> QED
      BY <1>1, <1>2, <1>3, <1>4 DEF ObsIInv

\* What shows a frame shows nothing twice; PollEnds is the only step that does.
Fresh(events) == \A e \in events : e \notin merged \/ e.at \in rejoined
Shows == sequence' > sequence => Fresh(replay'[Len(replay')].events)

LEMMA ObsIInvNext ==
  ASSUME ObsIInv, [ObsNext]_obsVars PROVE ObsIInv' /\ Shows
  <1>0. Polled /\ FramesKept /\ PollTypes
      BY DEF ObsIInv, Polled
  <1>a. ASSUME UNCHANGED <<sequence, replay, client, seen>> PROVE FramesKept' /\ Shows
      BY <1>0, <1>a DEF FramesKept, StreamHasNoGap, Shows
  <1>b. ASSUME Polled', UNCHANGED <<sequence, replay, client, seen>> PROVE ObsIInv' /\ Shows
      BY <1>a, <1>b DEF ObsIInv, Polled
  <1>1. ASSUME NEW n \in Node, OwnEvent(n) \/ HookEvent(n) PROVE ObsIInv' /\ Shows
    <2>1. PICK label \in Node \cup {Local}, time \in 0..MaxTime : AppendEvent(n, label, time)
        BY <1>1, ObservabilityAssumption DEF OwnEvent, HookEvent
    <2>2. UNCHANGED <<sequence, replay, client, seen>>
        BY <2>1 DEF AppendEvent, dashboard, browsers
    <2> QED
        BY <1>0, <1>b, <2>1, <2>2, AppendNext
  <1>2. ASSUME NEW n \in Node, RestartNode(n) PROVE ObsIInv' /\ Shows
    <2>1. UNCHANGED <<sequence, replay, client, seen>>
        BY <1>2 DEF RestartNode, browsers
    <2> QED
        BY <1>0, <1>2, <1>b, <2>1, RestartNext
  <1>3. ASSUME NEW n \in Node \ {Home}, Unregister(n) \/ Register(n) PROVE ObsIInv' /\ Shows
    <2>1. UNCHANGED <<sequence, replay, client, seen>>
        BY <1>3 DEF Unregister, Register, dashboard, browsers
    <2> QED
        BY <1>0, <1>3, <1>b, <2>1, RegisterNext
  <1>4. ASSUME NEW n \in Node \ {Home}, PollAnswered(n) \/ PollFails(n) PROVE ObsIInv' /\ Shows
    <2>1. UNCHANGED <<sequence, replay, client, seen>>
        BY <1>4 DEF PollAnswered, PollFails, browsers
    <2> QED
        BY <1>0, <1>4, <1>b, <2>1, PollAnsweredNext, PollFailsNext
  <1>5. CASE PollStarts
    <2>1. UNCHANGED <<sequence, replay, client, seen>>
        BY <1>5 DEF PollStarts, browsers
    <2> QED
        BY <1>0, <1>5, <1>b, <2>1, PollStartsNext
  <1>6. CASE PollEnds
    <2>1. Polled'
        BY <1>0, <1>6, PollEndsNext
    <2>2. UNCHANGED <<client, seen>>
        BY <1>6 DEF PollEnds, browsers
    <2> DEFINE frame == Merged(poll.got)
    <2>3. CASE frame = {}
      <3>1. UNCHANGED <<sequence, replay>>
          BY <1>6, <2>3 DEF PollEnds
      <3> QED
          BY <1>b, <2>1, <2>2, <3>1
    <2>4. CASE frame # {}
      <3>1. /\ sequence' = sequence + 1
            /\ replay' = Grown(Append(replay, [seq |-> sequence + 1, events |-> frame]))
          BY <1>6, <2>4 DEF PollEnds, Grown
      <3>2. frame \in SUBSET Event /\ Fresh(frame)
          BY <1>0, FrameOfPoll DEF PollTypes, Polled, GatheredOnce, Fresh
      <3> HIDE DEF frame
      <3>3. FramesKept' /\ replay'[Len(replay')].events = frame
          BY <1>0, <2>2, <3>1, <3>2, ReplayGrows
      <3> QED
          BY <2>1, <3>2, <3>3 DEF Shows, ObsIInv, Polled
    <2> QED
        BY <2>3, <2>4
  <1>7. CASE PollAborts
    <2>1. /\ poll' = NoPoll /\ UNCHANGED <<sequence, replay, client, seen>>
          /\ log' = log /\ UNCHANGED <<lastId, registered, cursors, merged, rejoined>>
        BY <1>7 DEF PollAborts, browsers, store, obsHistory
    <2> QED
        BY <1>0, <1>b, <2>1, PollDropped
  <1>8. ASSUME NEW c \in Client, Stream(c) PROVE ObsIInv' /\ Shows
    <2>1. FramesKept' /\ UNCHANGED <<log, lastId, registered, poll, cursors, merged, rejoined>>
        BY <1>0, <1>8, StreamNext
    <2>2. LogTypes' /\ PollTypes' /\ Gathered' /\ GatheredOnce'
        BY <1>0, <2>1 DEF Polled, LogTypes, PollTypes, Gathered, GatheredOnce, FailureSkipsNothing
    <2>3. sequence' = sequence
        BY <1>8 DEF Stream, dashboard
    <2> QED
        BY <1>0, <2>1, <2>2, <2>3 DEF ObsIInv, Shows, FramesKept
  <1>9. CASE UNCHANGED obsVars
    <2>1. /\ UNCHANGED <<log, lastId, registered, poll, cursors, merged, rejoined>>
          /\ UNCHANGED <<sequence, replay, client, seen>>
        BY <1>9 DEF obsVars, store, dashboard, browsers, obsHistory
    <2>2. Polled'
        BY <1>0, <2>1
        DEF Polled, LogTypes, PollTypes, Gathered, GatheredOnce, FailureSkipsNothing
    <2> QED
        BY <1>b, <2>1, <2>2
  <1> QED
      BY <1>1, <1>2, <1>3, <1>4, <1>5, <1>6, <1>7, <1>8, <1>9 DEF ObsNext

\* Events, polls and frames keep to the invariant, for any number of Controllers
\* and browsers.
THEOREM ObservabilityInvariance == ObsSpec => []ObsIInv
  BY ObsIInvInit, ObsIInvNext, PTL DEF ObsSpec

\* No event is skipped because a Controller failed to answer, restarted, pruned
\* its store or was registered anew while a poll was under way.
THEOREM NothingSkipped == ObsSpec => []FailureSkipsNothing
  <1>1. ObsIInv => FailureSkipsNothing
      BY DEF ObsIInv, Gathered
  <1> QED
      BY <1>1, ObservabilityInvariance, PTL

\* A frame shows no event a second time, unless its Controller was unregistered
\* and registered again.
THEOREM EventsShownOnce == ObsSpec => ShownOnce
  <1>1. ASSUME ObsIInv, [ObsNext]_obsVars
        PROVE  [sequence' > sequence =>
                  \A e \in replay'[Len(replay')].events : e \notin merged \/ e.at \in rejoined]_obsVars
      BY <1>1, ObsIInvNext DEF Shows, Fresh
  <1> QED
      BY <1>1, ObservabilityInvariance, PTL DEF ObsSpec, ShownOnce

\* A browser misses no frame that the dashboard still holds.
THEOREM StreamWithoutGap == ObsSpec => []StreamHasNoGap
  <1>1. ObsIInv => StreamHasNoGap
      BY DEF ObsIInv, FramesKept
  <1> QED
      BY <1>1, ObservabilityInvariance, PTL

-----------------------------------------------------------------------------
(* The Controller's two components together.                               *)

\* Neither component's steps touch the other's state.
THEOREM ControllerComponents == Spec => ObsSpec /\ InvSpec
  <1>1. Init => ObsInit /\ InvInit
      BY DEF Init
  <1>2. [Next]_<<part, obsVars, invVars>> => [ObsNext]_obsVars /\ [InvNext]_invVars
      BY DEF Next
  <1> QED
      BY <1>1, <1>2, PTL DEF Spec, ObsSpec, InvSpec

\* What the run ControllerWork checks of both, for every value of the constants.
THEOREM ControllerSafe == Spec => []ControllerInv
  <1>1. ObsIInv => ObsTypeOK /\ StreamHasNoGap
    <2> SUFFICES ASSUME ObsIInv PROVE ObsTypeOK
        BY DEF ObsIInv, FramesKept
    <2>1. \A n \in Node : log[n] \subseteq {e \in Event : e.at = n}
        BY DEF ObsIInv, LogTypes
    <2>2. /\ lastId \in [Node -> 0..MaxEvents] /\ registered \subseteq Node \ {Home}
          /\ poll \in [active: BOOLEAN, asked: SUBSET Node, got: SUBSET Event, cur: [Node -> 0..MaxEvents]]
          /\ cursors \in [Node -> 0..MaxEvents]
        BY DEF ObsIInv, LogTypes, PollTypes, Cursor
    <2>3. /\ \A i \in DOMAIN replay : replay[i].seq = sequence - Len(replay) + i
          /\ \A c \in Client : client[c] \in 0..sequence
        BY DEF ObsIInv, FramesKept
    <2> QED
        BY <2>1, <2>2, <2>3 DEF ObsTypeOK
  <1> QED
      BY <1>1, ControllerComponents, ObservabilityInvariance, SlotsAreCounted, RevocationLasts,
         PTL
      DEF ControllerInv
=============================================================================
