---------------------------- MODULE DesktopQueue ----------------------------
(***************************************************************************)
(* The desktop queue of one Executor (desktop.rs), the gate through which  *)
(* every GUI action passes (executor.rs, desktop_dispatch and              *)
(* reconcile_desktop) and the life of the computer-use host                *)
(* (computer_use.rs).                                                      *)
(*                                                                         *)
(* RPC worker threads run desktop_dispatch concurrently.  What one thread  *)
(* does while it holds the queue mutex is one step; between two such steps *)
(* every other thread, the reaper, the clock and a crash may come.  The    *)
(* queue lives twice: `queue' is the DesktopQueue in memory, `disk' is the *)
(* contents of desktop-queue.json.  save() copies the first to the second  *)
(* and may fail, in which case the handler returns the error with its      *)
(* changes to memory left in place.                                        *)
(*                                                                         *)
(* Time appears only as what the code asks of it: whether a session's      *)
(* expires_at has passed (`lapsed').  A caller's credentials (owner and    *)
(* token) are the index of the job they were issued for.                   *)
(***************************************************************************)
EXTENDS Naturals, Sequences, FiniteSets

CONSTANTS
  Submission,       \* the (owner, requestKey) pairs that callers submit
  Operator,         \* the owners of desktop maintenance
  Thread,           \* the RPC worker threads
  None,             \* maintenance_owner: None
  MaxJobs,          \* the retention limit, 10000 in the code
  MaxSaveFailures,  \* bound: how many times save() fails
  MaxCrashes        \* bound: how many times the Executor crashes

ASSUME BoundsAssumption ==
  MaxJobs \in Nat \ {0} /\ MaxSaveFailures \in Nat /\ MaxCrashes \in Nat

VARIABLES
  queue,      \* DesktopQueue in memory
  disk,       \* DesktopQueue in desktop-queue.json
  pc,         \* where each thread is in desktop_dispatch
  req,        \* what each thread is serving
  host,       \* the session the computer-use host was started for
  failures,   \* save() failures so far
  crashes,    \* crashes so far
  \* The rest is history, read by the properties only.
  touched,    \* whose action changed native state not yet cleaned up
  doubt,      \* why native state is uncertain: {} when it is not
  lastEpoch,  \* the epoch of the last session action that executed
  lastActor,  \* its job
  acked       \* submissions whose desktop.submit returned success

mem     == <<queue, disk, host, failures>>
threads == <<pc, req>>
history == <<touched, doubt, lastEpoch, lastActor, acked>>
vars    == <<mem, threads, crashes, history>>

-----------------------------------------------------------------------------
(* Types.                                                                  *)

JobState == {"queued", "active", "draining", "completed", "expired",
             "cancelled", "interrupted"}
Job   == [sub: Submission, state: JobState, epoch: Nat, lapsed: BOOLEAN]
Queue == [jobs: Seq(Job), epoch: Nat, inFlight: BOOLEAN, blocked: BOOLEAN,
          maint: Operator \cup {None}]
PC    == {"idle", "ready", "run", "acting", "post", "get"}

NoJob     == 0               \* a request without session credentials
NoHost    == 0               \* ComputerUseService(None)
Discovery == MaxJobs + 1     \* the host that computer-use.tools starts by itself
Bare      == MaxJobs + 1     \* `touched' by an action without a session
Kind      == {"call", "tools", "native", "submit", "finish", "other"}
Request   == [kind: Kind, job: Nat]
NoRequest == [kind |-> "other", job |-> NoJob]

-----------------------------------------------------------------------------
(* DesktopQueue: functions of the queue alone.                             *)

EmptyQueue == [jobs |-> <<>>, epoch |-> 0, inFlight |-> FALSE,
               blocked |-> FALSE, maint |-> None]

Owns(q, i)  == q.jobs[i].state \in {"active", "draining"}
HasOwner(q) == \E i \in DOMAIN q.jobs : Owns(q, i)
Queued(q, i) == q.jobs[i].state = "queued"

\* active() is the position of the first job that owns the desktop.
IsOwner(q, i) ==
  i \in DOMAIN q.jobs /\ Owns(q, i) /\ \A k \in 1..(i - 1) : ~Owns(q, k)

\* A fault: the newest waiting job is taken first.
IsNextLifo(q, i) ==
  Queued(q, i) /\ \A k \in (i + 1)..Len(q.jobs) : ~Queued(q, k)

\* The job that promote() finds.
IsNext(q, i) == Queued(q, i) /\ \A k \in 1..(i - 1) : ~Queued(q, k)

\* The queue with the state of its owner and the quarantine set.
OwnerTo(q, s, b) ==
  [q EXCEPT !.blocked = b, !.jobs = [i \in DOMAIN q.jobs |->
     IF IsOwner(q, i) THEN [q.jobs[i] EXCEPT !.state = s] ELSE q.jobs[i]]]

SetState(q, j, s) ==
  [q EXCEPT !.jobs = [i \in DOMAIN q.jobs |->
     IF i = j THEN [q.jobs[i] EXCEPT !.state = s] ELSE q.jobs[i]]]

\* A fault: expiry is left to the next command of the owner.
NeedsCleanupNoExpiry(q) ==
  /\ ~q.blocked
  /\ ~q.inFlight
  /\ \E i \in DOMAIN q.jobs : IsOwner(q, i) /\ q.jobs[i].state = "draining"

NeedsCleanup(q) ==
  /\ ~q.blocked
  /\ ~q.inFlight
  /\ \E i \in DOMAIN q.jobs :
       IsOwner(q, i) /\ (q.jobs[i].lapsed \/ q.jobs[i].state = "draining")

\* cleanup_done(true): the owner's session ends.
CleanedUp(q) ==
  [q EXCEPT !.jobs = [i \in DOMAIN q.jobs |->
     IF IsOwner(q, i)
     THEN [q.jobs[i] EXCEPT !.state = IF q.jobs[i].lapsed
                                      THEN "expired" ELSE "completed"]
     ELSE q.jobs[i]]]

\* cleanup_done(false), after needs_cleanup has set the owner to draining.
CleanupFailed(q) == OwnerTo(q, "draining", TRUE)

\* A fault: promotion forgets that a draining session still owns.
CanPromoteOverDraining(q) ==
  /\ q.maint = None
  /\ ~q.blocked
  /\ ~q.inFlight
  /\ \A i \in DOMAIN q.jobs : q.jobs[i].state # "active"
  /\ \E i \in DOMAIN q.jobs : Queued(q, i)

CanPromote(q) ==
  /\ q.maint = None
  /\ ~q.blocked
  /\ ~q.inFlight
  /\ ~HasOwner(q)
  /\ \E i \in DOMAIN q.jobs : Queued(q, i)

\* A fault: the new session keeps the epoch of its predecessor.
PromotedSameEpoch(q) ==
  [q EXCEPT !.jobs = [i \in DOMAIN q.jobs |->
     IF IsNext(q, i)
     THEN [q.jobs[i] EXCEPT !.state = "active", !.epoch = q.epoch,
                            !.lapsed = FALSE]
     ELSE q.jobs[i]]]

\* The queue after promote() has found a job.
Promoted(q) ==
  [q EXCEPT !.epoch = q.epoch + 1, !.jobs = [i \in DOMAIN q.jobs |->
     IF IsNext(q, i)
     THEN [q.jobs[i] EXCEPT !.state = "active", !.epoch = q.epoch + 1,
                            !.lapsed = FALSE]
     ELSE q.jobs[i]]]

\* A fault: finish completes an active session without draining it.
FinishedUndrained(s) ==
  CASE s = "queued" -> "cancelled"
    [] s = "active" -> "completed"
    [] OTHER        -> s

\* A fault: a state that the rest of the code does not know.
FinishedMisspelt(s) ==
  CASE s = "queued" -> "canceled"
    [] s = "active" -> "draining"
    [] OTHER        -> s

\* What desktop.finish and desktop.cancel make of a job's state.
Finished(s) ==
  CASE s = "queued" -> "cancelled"
    [] s = "active" -> "draining"
    [] OTHER        -> s

\* A fault: the credentials were checked before the wait for the gate.
AdmitsUnchecked(q, kind, j) ==
  /\ ~q.blocked
  /\ ~q.inFlight
  /\ \/ j \in DOMAIN q.jobs
     \/ ~HasOwner(q) /\ q.maint = None /\ kind # "call" /\ j = NoJob

\* A fault: maintenance does not stop actions without a session.
AdmitsInMaintenance(q, kind, j) ==
  /\ ~q.blocked
  /\ ~q.inFlight
  /\ \/ IsOwner(q, j) /\ q.jobs[j].state = "active" /\ ~q.jobs[j].lapsed
     \/ ~HasOwner(q) /\ kind # "call" /\ j = NoJob

\* begin() admits an action of the given kind with the credentials of job j.
Admits(q, kind, j) ==
  /\ ~q.blocked
  /\ ~q.inFlight
  /\ \/ /\ IsOwner(q, j)
        /\ q.jobs[j].state = "active"
        /\ ~q.jobs[j].lapsed
     \/ /\ ~HasOwner(q)
        /\ q.maint = None
        /\ kind # "call"
        /\ j = NoJob

\* A fault: only an outstanding action quarantines.
OpenedIfInFlight(d) ==
  IF d.inFlight THEN [d EXCEPT !.blocked = TRUE, !.inFlight = FALSE] ELSE d

\* open(): an outstanding action or session quarantines the desktop.
Opened(d) ==
  IF d.inFlight \/ HasOwner(d)
  THEN [d EXCEPT !.blocked = TRUE, !.inFlight = FALSE]
  ELSE d

-----------------------------------------------------------------------------
(* Saving.  Every handler ends in one of these four ways; the handler      *)
(* returns Ok after SaveOk and PromoteOk, and an error after the others.   *)

SaveFails == failures < MaxSaveFailures /\ failures' = failures + 1

SaveOk(q)  == queue' = q /\ disk' = q /\ UNCHANGED failures
SaveErr(q) == queue' = q /\ disk' = disk /\ SaveFails

\* self.promote() alone: it saves only when it promotes.
PromoteOk(q) ==
  IF CanPromote(q) THEN SaveOk(Promoted(q))
                   ELSE queue' = q /\ UNCHANGED <<disk, failures>>
PromoteErr(q) == CanPromote(q) /\ SaveErr(Promoted(q))

\* A fault: promote() is left to save.
SavePromoteOkUnsaved(q) == PromoteOk(q)

\* self.save()?; self.promote()
SavePromoteOk(q)  == SaveOk(IF CanPromote(q) THEN Promoted(q) ELSE q)
SavePromoteErr(q) ==
  \/ SaveErr(q)
  \/ CanPromote(q) /\ queue' = Promoted(q) /\ disk' = q /\ SaveFails

-----------------------------------------------------------------------------
(* reconcile_desktop.                                                      *)

\* The desktop_execution mutex is held from begin() until end() is done.
Holds(t) == pc[t] \in {"run", "acting"}
GateFree == \A t \in Thread : ~Holds(t)

\* The host acknowledged its close, or there was none to close.
HostClosed ==
  /\ host' = NoHost
  /\ touched' = 0
  /\ UNCHANGED <<doubt, lastEpoch, lastActor>>

\* close_existing() failed; the host is dropped all the same.
HostCloseFailed ==
  /\ host # NoHost
  /\ host' = NoHost
  /\ doubt' = doubt \cup {"cleanup"}
                    \cup (IF touched # 0 THEN {"action"} ELSE {})
  /\ touched' = 0
  /\ UNCHANGED <<lastEpoch, lastActor>>

NativeUnchanged == UNCHANGED <<host, touched, doubt, lastEpoch, lastActor>>

\* A fault: promotion happens at the end of a cleanup only.
ReconcileOkNoPromote ==
  \/ /\ ~GateFree \/ ~NeedsCleanup(queue)
     /\ NativeUnchanged
     /\ UNCHANGED <<queue, disk, failures>>
  \/ /\ GateFree
     /\ NeedsCleanup(queue)
     /\ HostClosed
     /\ SavePromoteOk(CleanedUp(queue))

ReconcileOk ==
  \/ /\ ~GateFree
     /\ NativeUnchanged
     /\ UNCHANGED <<queue, disk, failures>>
  \/ /\ GateFree
     /\ ~NeedsCleanup(queue)
     /\ NativeUnchanged
     /\ PromoteOk(queue)
  \/ /\ GateFree
     /\ NeedsCleanup(queue)
     /\ HostClosed
     /\ SavePromoteOk(CleanedUp(queue))

ReconcileErr ==
  /\ GateFree
  /\ \/ /\ ~NeedsCleanup(queue)
        /\ NativeUnchanged
        /\ PromoteErr(queue)
     \/ /\ NeedsCleanup(queue)
        /\ HostClosed
        /\ SavePromoteErr(CleanedUp(queue))
     \/ /\ NeedsCleanup(queue)
        /\ HostCloseFailed
        /\ \/ SaveOk(CleanupFailed(queue))
           \/ SaveErr(CleanupFailed(queue))

\* One round of the thread that start_desktop_reaper spawns.
Reaper ==
  /\ ReconcileOk \/ ReconcileErr
  /\ UNCHANGED <<threads, crashes, acked>>

-----------------------------------------------------------------------------
(* desktop_dispatch, one thread.                                           *)

Goto(t, l)       == pc' = [pc EXCEPT ![t] = l] /\ UNCHANGED req
Return(t)        == /\ pc' = [pc EXCEPT ![t] = "idle"]
                    /\ req' = [req EXCEPT ![t] = NoRequest]
Serve(t, l, k, j) == /\ pc' = [pc EXCEPT ![t] = l]
                     /\ req' = [req EXCEPT ![t] = [kind |-> k, job |-> j]]

\* A desktop.* or protected request starts with reconcile_desktop()?.
Arrive(t) ==
  /\ pc[t] = "idle"
  /\ \/ ReconcileOk /\ Goto(t, "ready")
     \/ ReconcileErr /\ Return(t)
  /\ UNCHANGED <<crashes, acked>>

\* A command that command() or begin() rejects, or that only reads.
Reject(t) ==
  /\ pc[t] = "ready"
  /\ Return(t)
  /\ UNCHANGED <<mem, crashes, history>>

\* A command that left the queue as q: on to the trailing reconcile, or out.
SaveAnd(t, l, k, j, q) ==
  \/ SaveOk(q) /\ Serve(t, l, k, j)
  \/ SaveErr(q) /\ Return(t)

SavePromoteAnd(t, k, j, q) ==
  \/ SavePromoteOk(q) /\ Serve(t, "post", k, j)
  \/ SavePromoteErr(q) /\ Return(t)

\* desktop.submit of a submission the queue already holds: no save.
Resubmit(t, s) ==
  /\ pc[t] = "ready"
  /\ \E i \in DOMAIN queue.jobs :
       queue.jobs[i].sub = s /\ Serve(t, "post", "submit", i)
  /\ UNCHANGED <<mem, crashes, history>>

Submit(t, s) ==
  /\ pc[t] = "ready"
  /\ \A i \in DOMAIN queue.jobs : queue.jobs[i].sub # s
  /\ Len(queue.jobs) < MaxJobs
  /\ SavePromoteAnd(t, "submit", Len(queue.jobs) + 1,
       [queue EXCEPT !.jobs = Append(queue.jobs,
          [sub |-> s, state |-> "queued", epoch |-> 0, lapsed |-> TRUE])])
  /\ UNCHANGED <<host, crashes, history>>

\* desktop.get saves too.
Get(t) ==
  /\ pc[t] \in {"ready", "get"}
  /\ IF pc[t] = "ready" THEN SaveAnd(t, "post", "other", NoJob, queue)
                        ELSE (SaveOk(queue) \/ SaveErr(queue)) /\ Return(t)
  /\ UNCHANGED <<host, crashes, history>>

Renew(t, j) ==
  /\ pc[t] = "ready"
  /\ queue.jobs[j].state = "active"
  /\ ~queue.jobs[j].lapsed
  /\ ~queue.blocked
  /\ SaveAnd(t, "post", "other", NoJob, queue)
  /\ UNCHANGED <<host, crashes, history>>

\* desktop.finish and desktop.cancel.
Finish(t, j) ==
  /\ pc[t] = "ready"
  /\ SaveAnd(t, "post", "finish", NoJob,
             SetState(queue, j, Finished(queue.jobs[j].state)))
  /\ UNCHANGED <<host, crashes, history>>

Maintenance(t, o, enabled) ==
  /\ pc[t] = "ready"
  /\ queue.maint \in {None, o}
  /\ SavePromoteAnd(t, "other", NoJob,
       [queue EXCEPT !.maint = IF enabled THEN o ELSE None])
  /\ UNCHANGED <<host, crashes, history>>

\* desktop.recover with confirmDesktopReset: the operator vouches that the
\* native helpers and the desktop have been reset.
Recover(t) ==
  /\ pc[t] = "ready"
  /\ queue.blocked
  /\ ~queue.inFlight
  /\ SavePromoteAnd(t, "other", NoJob,
                    OwnerTo(queue, "interrupted", FALSE))
  /\ touched' = 0
  /\ doubt' = {}
  /\ UNCHANGED <<host, crashes, lastEpoch, lastActor, acked>>

-----------------------------------------------------------------------------
(* A protected action: begin(), the action itself, end().                  *)

Begin(t, kind, j) ==
  /\ pc[t] = "ready"
  /\ GateFree
  /\ Admits(queue, kind, j)
  /\ SaveAnd(t, "run", kind, j, [queue EXCEPT !.inFlight = TRUE])
  /\ UNCHANGED <<host, crashes, history>>

\* The session that a caller of computer-use.tools may name.
NamedHosts == {Discovery} \cup DOMAIN queue.jobs

\* A fault: the host of the previous session is used again.
HostForAny(r) ==
  CASE r.kind = "call" /\ host = NoHost  -> {r.job}
    [] r.kind = "tools" /\ host = NoHost -> NamedHosts
    [] OTHER                             -> {host}

\* ComputerUseService::call drops a host of another session, and starts one
\* when there is none; computer-use.tools takes the host there is.
HostFor(r) ==
  CASE r.kind = "call"                   -> {r.job}
    [] r.kind = "tools" /\ host = NoHost -> NamedHosts
    [] OTHER                             -> {host}

\* dispatch() reaches native code.
Act(t) ==
  /\ pc[t] = "run"
  /\ host' \in HostFor(req[t])
  /\ Goto(t, "acting")
  /\ touched' = IF req[t].job = NoJob THEN Bare ELSE req[t].job
  /\ IF req[t].job = NoJob
     THEN UNCHANGED <<lastEpoch, lastActor>>
     ELSE /\ lastEpoch' = queue.jobs[req[t].job].epoch
          /\ lastActor' = req[t].job
  /\ UNCHANGED <<queue, disk, failures, crashes, doubt, acked>>

\* end(uncertain)?; drop(_gate)
EndAction(t, uncertain) ==
  LET q == [queue EXCEPT !.inFlight = FALSE,
                         !.blocked = queue.blocked \/ uncertain]
  IN  \/ SaveOk(q) /\ Serve(t, "post", "other", NoJob)
      \/ SaveErr(q) /\ Return(t)

\* Host::start failed: COMPUTER_USE_UNAVAILABLE before any action.
StartFails(t) ==
  /\ pc[t] = "run"
  /\ host \notin HostFor(req[t])
  /\ host' = NoHost
  /\ EndAction(t, TRUE)
  /\ UNCHANGED <<crashes, history>>

\* dispatch() refused the action (bad parameters, no authority, a resource
\* that another operation holds) before it reached native code.
Refused(t) ==
  /\ pc[t] = "run"
  /\ EndAction(t, FALSE)
  /\ UNCHANGED <<host, crashes, history>>

\* The action returned with a clear outcome.  The tool `close' also ends the
\* host; a session's traces stay until the session is cleaned up.
EndCertain(t) ==
  /\ pc[t] = "acting"
  /\ host' = host \/ (req[t].kind = "call" /\ host' = NoHost)
  /\ EndAction(t, FALSE)
  /\ touched' = IF touched = Bare THEN 0 ELSE touched
  /\ UNCHANGED <<crashes, doubt, lastEpoch, lastActor, acked>>

\* A timeout, an abort or a lost host (which ComputerUseService then drops).
EndUncertain(t) ==
  /\ pc[t] = "acting"
  /\ host' = host \/ (req[t].kind # "native" /\ host' = NoHost)
  /\ EndAction(t, TRUE)
  /\ doubt' = doubt \cup {"action"}
  /\ UNCHANGED <<crashes, touched, lastEpoch, lastActor, acked>>

\* The trailing reconcile_desktop()?.  finish and cancel then run get; the
\* others return, a submission being acknowledged by that.
Post(t) ==
  /\ pc[t] = "post"
  /\ \/ /\ ReconcileOk
        /\ IF req[t].kind = "finish" THEN Goto(t, "get") ELSE Return(t)
        /\ acked' = IF req[t].kind = "submit"
                    THEN acked \cup {queue.jobs[req[t].job].sub} ELSE acked
     \/ /\ ReconcileErr
        /\ Return(t)
        /\ UNCHANGED acked
  /\ UNCHANGED crashes

-----------------------------------------------------------------------------
(* The environment.                                                        *)

\* The expires_at of the owner passes.
Lapse ==
  /\ \E i \in DOMAIN queue.jobs :
       /\ Owns(queue, i)
       /\ ~queue.jobs[i].lapsed
       /\ queue' = [queue EXCEPT !.jobs[i].lapsed = TRUE]
  /\ UNCHANGED <<disk, host, failures, threads, crashes, history>>

\* The process dies anywhere and is started again: open() reads the file,
\* quarantines and saves.  Native helpers may outlive the process.  (An owner
\* read from the file may be lapsed or lapse at once: it is quarantined.)
Restart ==
  /\ crashes < MaxCrashes
  /\ crashes' = crashes + 1
  /\ queue' = Opened(disk)
  /\ disk' = Opened(disk)
  /\ pc' = [t \in Thread |-> "idle"]
  /\ req' = [t \in Thread |-> NoRequest]
  /\ host' = NoHost
  /\ doubt' = IF touched # 0 THEN doubt \cup {"action"} ELSE doubt
  /\ touched' = 0
  /\ UNCHANGED <<failures, lastEpoch, lastActor, acked>>

-----------------------------------------------------------------------------
Init ==
  /\ queue = EmptyQueue
  /\ disk = EmptyQueue
  /\ pc = [t \in Thread |-> "idle"]
  /\ req = [t \in Thread |-> NoRequest]
  /\ host = NoHost
  /\ failures = 0
  /\ crashes = 0
  /\ touched = 0
  /\ doubt = {}
  /\ lastEpoch = 0
  /\ lastActor = NoJob
  /\ acked = {}

Command(t) ==
  \/ \E s \in Submission : Submit(t, s) \/ Resubmit(t, s)
  \/ \E j \in DOMAIN queue.jobs : Renew(t, j) \/ Finish(t, j)
  \/ \E o \in Operator, enabled \in BOOLEAN : Maintenance(t, o, enabled)
  \/ Get(t)
  \/ Recover(t)
  \/ Reject(t)

Action(t) ==
  \/ \E kind \in {"call", "tools", "native"},
       j \in {NoJob} \cup DOMAIN queue.jobs : Begin(t, kind, j)
  \/ Act(t)
  \/ StartFails(t)
  \/ Refused(t)
  \/ EndCertain(t)
  \/ EndUncertain(t)

Next ==
  \/ \E t \in Thread : Arrive(t) \/ Command(t) \/ Action(t) \/ Post(t)
  \/ Reaper
  \/ Lapse
  \/ Restart

Spec == Init /\ [][Next]_vars

(* Fairness: the reaper runs every second for ever, time passes, and a     *)
(* thread that has begun an action finishes it (every host call has a      *)
(* deadline) and returns.  Nobody is obliged to send a request.            *)
Finishes(t) ==
  Act(t) \/ StartFails(t) \/ Refused(t) \/ EndCertain(t) \/ EndUncertain(t)
Fairness ==
  /\ WF_vars(Reaper)
  /\ WF_vars(Lapse)
  /\ \A t \in Thread : WF_vars(Finishes(t)) /\ WF_vars(Post(t))

FairSpec == Spec /\ Fairness

-----------------------------------------------------------------------------
(* Properties.                                                             *)

\* Every variable has its type; in particular a job's state is one of the
\* seven strings desktop.rs compares with.
TypeOK ==
  /\ queue \in Queue
  /\ disk \in Queue
  /\ pc \in [Thread -> PC]
  /\ req \in [Thread -> Request]
  /\ host \in Nat
  /\ failures \in 0..MaxSaveFailures
  /\ crashes \in 0..MaxCrashes
  /\ touched \in Nat
  /\ doubt \subseteq {"action", "cleanup"}
  /\ lastEpoch \in Nat
  /\ lastActor \in Nat
  /\ acked \subseteq Submission

\* One session at a time owns the desktop, in memory and in the file: the
\* first-match searches of active() never hide a second owner.
OneOwnerIn(q) ==
  \A i, k \in DOMAIN q.jobs : Owns(q, i) /\ Owns(q, k) => i = k
OneOwner == OneOwnerIn(queue) /\ OneOwnerIn(disk)

\* Between begin() and end() the action is alone behind the gate, the session
\* it acts for still owns the desktop (no expiry, cancel, recovery or
\* promotion took it away meanwhile; without a session, nobody owns it), and
\* the file says that an action is in flight.
ActingOwns ==
  \A t \in Thread : Holds(t) =>
    /\ \A u \in Thread : Holds(u) => u = t
    /\ queue.inFlight /\ disk.inFlight /\ ~queue.blocked
    /\ IF req[t].job = NoJob THEN ~HasOwner(queue)
                             ELSE IsOwner(queue, req[t].job)

\* A computer-use call runs in a host started for its own session, so the UI
\* references of an earlier session are gone.
OwnHost ==
  \A t \in Thread :
    pc[t] = "acting" /\ req[t].kind = "call" => host = req[t].job

\* Whatever a session left on the desktop is cleaned up, or the desktop is
\* quarantined, before another session owns it.
HandoverClean ==
  \A i \in DOMAIN queue.jobs :
    Owns(queue, i) /\ ~queue.blocked => touched \in {0, i}

\* A desktop on which the outcome of an action is in doubt is quarantined,
\* through crashes and failed saves, until an operator recovers it.
Quarantined == "action" \in doubt => queue.blocked

\* The same of a cleanup that failed.
CleanupQuarantined == "cleanup" \in doubt => queue.blocked

\* Actions are fenced by session epochs: an action of another session than
\* the last one's carries a higher epoch, so no session acts again once a
\* later one has acted, and no epoch is reused after a crash.
EpochFences == [][lastActor' # lastActor => lastEpoch' > lastEpoch]_vars

\* Sessions are granted in the order of submission: a job that becomes the
\* owner leaves no earlier job waiting.
Fifo ==
  [][\A i \in DOMAIN queue'.jobs :
       (i \in DOMAIN queue.jobs /\ Queued(queue, i) /\ Owns(queue', i))
         => \A k \in 1..(i - 1) : ~Queued(queue', k)]_vars

\* A submission that was answered with success is in the queue for good:
\* "A lost submit response can be recovered by repeating the same
\* owner/request-key" and a restart forgets nobody.
AckedDurable ==
  \A s \in acked : \E i \in DOMAIN queue.jobs : queue.jobs[i].sub = s

\* safePoint of desktop.list.
SafePoint(q) ==
  q.maint # None /\ ~q.blocked /\ ~q.inFlight /\ ~HasOwner(q)

\* Once maintenance has reached its safe point, in memory and in the file, no
\* action runs and none starts, over failing saves and restarts too, until the
\* maintenance owner releases it.
SafePointHolds ==
  [][SafePoint(queue) /\ SafePoint(disk) /\ ~SafePoint(queue') =>
       \E t \in Thread : pc[t] = "ready" /\ pc'[t] # "ready"
                         /\ queue' \in {[queue EXCEPT !.maint = None],
                                        Promoted([queue EXCEPT !.maint = None])}
    ]_vars

\* The session of a submitter that has gone away ends: an expired or draining
\* owner is cleaned up, or the desktop is quarantined.
Ending(q) ==
  \E i \in DOMAIN q.jobs :
    Owns(q, i) /\ (q.jobs[i].lapsed \/ q.jobs[i].state = "draining")
ExpiryReaps == []<>(~Ending(queue) \/ queue.blocked)

\* A free desktop is handed on: a job does not wait for ever while nobody
\* owns the desktop and neither maintenance, quarantine nor an action is in
\* the way, even when no further request arrives.
FreeDesktop(q) ==
  /\ q.maint = None /\ ~q.blocked /\ ~q.inFlight /\ ~HasOwner(q)
  /\ \E i \in DOMAIN q.jobs : Queued(q, i)
NoLostWakeup == []<>(~FreeDesktop(queue))
=============================================================================
