------------------------- MODULE DesktopQueueProofs -------------------------
(***************************************************************************)
(* Machine-checked proofs about DesktopQueue: for any number of threads,   *)
(* submissions, operators, failed saves and crashes.                       *)
(***************************************************************************)
EXTENDS MCDesktopQueue, SequenceTheorems, TLAPS

-----------------------------------------------------------------------------
(* The inductive invariant.                                                *)

\* What holds of the queue in memory and of the one in the file alike.
Good(q) ==
  /\ q \in Queue
  /\ Len(q.jobs) <= MaxJobs
  /\ OneOwnerIn(q)
  /\ \A i \in DOMAIN q.jobs : q.jobs[i].epoch <= q.epoch

\* An owner other than the job a that acted last, at epoch e, is younger.
Fenced(q, a, e) ==
  /\ e <= q.epoch
  /\ \A i \in DOMAIN q.jobs : Owns(q, i) => i = a \/ q.jobs[i].epoch > e

\* open() would quarantine a desktop with this file.
Closed(q) == q.blocked \/ q.inFlight \/ HasOwner(q)

\* The types of the variables other than the two queues.
TypeRest ==
  /\ pc \in [Thread -> PC]
  /\ req \in [Thread -> Request]
  /\ host \in Nat
  /\ failures \in 0..MaxSaveFailures
  /\ crashes \in 0..MaxCrashes
  /\ touched \in Nat
  /\ doubt \subseteq {"action", "cleanup"}
  /\ lastEpoch \in Nat
  /\ lastActor \in Nat
  /\ acked \subseteq Submission

Exclusive == \A t, u \in Thread : Holds(t) /\ Holds(u) => t = u

\* A thread between begin() and end().
Running(t) ==
  /\ queue.inFlight /\ disk.inFlight /\ ~queue.blocked
  /\ req[t].kind = "call" => req[t].job # NoJob
  /\ IF req[t].job = NoJob
     THEN ~HasOwner(queue)
     ELSE /\ req[t].job \in DOMAIN queue.jobs /\ Owns(queue, req[t].job)
          /\ req[t].job \in DOMAIN disk.jobs /\ Owns(disk, req[t].job)
          /\ queue.jobs[req[t].job].epoch <= disk.epoch

\* A thread inside its action.
InAction(t) ==
  /\ touched = IF req[t].job = NoJob THEN Bare ELSE req[t].job
  /\ req[t].kind = "call" => host = req[t].job

\* An action without a session begins on a clean desktop.
CleanStart(t) == pc[t] = "run" /\ req[t].job = NoJob => touched = 0

\* A submission on its way to the acknowledgement.
Accepted(t) ==
  pc[t] = "post" /\ req[t].kind = "submit" => req[t].job \in DOMAIN queue.jobs

ThreadInv ==
  /\ Exclusive
  /\ \A t \in Thread : /\ Holds(t) => Running(t)
                       /\ pc[t] = "acting" => InAction(t)
                       /\ CleanStart(t)
                       /\ Accepted(t)

\* Traces of an action are covered by the file too; so is a doubtful outcome.
NativeInv ==
  /\ touched # 0 => Closed(queue) /\ Closed(disk)
  /\ HandoverClean
  /\ "action" \in doubt => queue.blocked /\ Closed(disk)

IInv ==
  /\ TypeRest
  /\ Good(queue) /\ Good(disk)
  /\ Fenced(queue, lastActor, lastEpoch) /\ Fenced(disk, lastActor, lastEpoch)
  /\ ThreadInv
  /\ NativeInv

-----------------------------------------------------------------------------
(* Operators on queues.                                                    *)

\* A function on 1..n is a sequence of length n.
LEMMA FunIsSeq ==
  ASSUME NEW S, NEW n \in Nat, NEW f \in [1..n -> S]
  PROVE  f \in Seq(S) /\ Len(f) = n /\ DOMAIN f = 1..n
BY IsASeq, LenProperties

\* The jobs of a queue are a function on 1..Len.
LEMMA JobsFun ==
  ASSUME NEW q \in Queue
  PROVE  /\ q.jobs \in Seq(Job) /\ Len(q.jobs) \in Nat
         /\ DOMAIN q.jobs = 1..Len(q.jobs)
         /\ q.jobs \in [1..Len(q.jobs) -> Job]
         /\ q.epoch \in Nat /\ q.inFlight \in BOOLEAN /\ q.blocked \in BOOLEAN
         /\ q.maint \in Operator \cup {None}
<1>1. q.jobs \in Seq(Job)
  BY DEF Queue
<1>2. /\ Len(q.jobs) \in Nat /\ DOMAIN q.jobs = 1..Len(q.jobs)
      /\ q.jobs \in [1..Len(q.jobs) -> Job]
  BY <1>1, LenProperties
<1> QED
  BY <1>1, <1>2 DEF Queue

\* Replacing the jobs one for one keeps a queue a queue.
LEMMA WithJobs ==
  ASSUME NEW q \in Queue, NEW f \in [DOMAIN q.jobs -> Job], NEW e \in Nat,
         NEW b \in BOOLEAN
  PROVE  LET r == [q EXCEPT !.epoch = e, !.blocked = b, !.jobs = f]
         IN  /\ r \in Queue
             /\ r.jobs = f /\ DOMAIN r.jobs = DOMAIN q.jobs
             /\ Len(r.jobs) = Len(q.jobs)
             /\ r.epoch = e /\ r.inFlight = q.inFlight /\ r.blocked = b
             /\ r.maint = q.maint
<1>1. f \in Seq(Job) /\ Len(f) = Len(q.jobs) /\ DOMAIN f = DOMAIN q.jobs
  BY JobsFun, FunIsSeq
<1> QED
  BY <1>1 DEF Queue

\* r keeps the owner, the epochs and the flags of q; it may have more jobs.
Mild(q, r) ==
  /\ r.epoch = q.epoch /\ r.inFlight = q.inFlight /\ r.blocked = q.blocked
  /\ DOMAIN q.jobs \subseteq DOMAIN r.jobs
  /\ \A i \in DOMAIN r.jobs :
       IF i \in DOMAIN q.jobs
       THEN r.jobs[i].epoch = q.jobs[i].epoch /\ (Owns(r, i) <=> Owns(q, i))
       ELSE r.jobs[i].epoch = 0 /\ ~Owns(r, i)

LEMMA MildKeeps ==
  ASSUME NEW q, Good(q), NEW r \in Queue, Len(r.jobs) <= MaxJobs, Mild(q, r),
         NEW a \in Nat, NEW e \in Nat, Fenced(q, a, e)
  PROVE  /\ Good(r) /\ Fenced(r, a, e)
         /\ HasOwner(r) <=> HasOwner(q)
         /\ Closed(r) <=> Closed(q)
<1> q \in Queue
  BY DEF Good
<1>1. OneOwnerIn(r)
  BY DEF Good, Mild, OneOwnerIn
<1>2. \A i \in DOMAIN r.jobs : r.jobs[i].epoch <= r.epoch
  <2> SUFFICES ASSUME NEW i \in DOMAIN r.jobs PROVE r.jobs[i].epoch <= r.epoch
    OBVIOUS
  <2>1. r.epoch \in Nat
    BY JobsFun
  <2> QED
    BY <2>1 DEF Good, Mild
<1>3. Fenced(r, a, e)
  BY DEF Fenced, Mild
<1>4. HasOwner(r) <=> HasOwner(q)
  BY DEF HasOwner, Mild
<1> QED
  BY <1>1, <1>2, <1>3, <1>4 DEF Good, Closed, Mild

\* promote() keeps one owner, and the new one is younger than every other.
LEMMA PromotedKeeps ==
  ASSUME NEW q, Good(q), CanPromote(q), NEW a \in Nat, NEW e \in Nat,
         Fenced(q, a, e)
  PROVE  /\ Good(Promoted(q)) /\ Fenced(Promoted(q), a, e)
         /\ DOMAIN Promoted(q).jobs = DOMAIN q.jobs
         /\ Promoted(q).blocked = FALSE /\ Promoted(q).inFlight = FALSE
<1> DEFINE f == [i \in DOMAIN q.jobs |->
                   IF IsNext(q, i)
                   THEN [q.jobs[i] EXCEPT !.state = "active",
                                          !.epoch = q.epoch + 1,
                                          !.lapsed = FALSE]
                   ELSE q.jobs[i]]
           r == Promoted(q)
<1> q \in Queue
  BY DEF Good
<1>0. q.epoch \in Nat /\ q.epoch + 1 \in Nat
  BY JobsFun
<1>1. f \in [DOMAIN q.jobs -> Job]
  <2> SUFFICES ASSUME NEW i \in DOMAIN q.jobs PROVE f[i] \in Job
    OBVIOUS
  <2>1. q.jobs[i] \in Job
    BY JobsFun
  <2> QED
    BY <1>0, <2>1 DEF Job, JobState
<1>2. /\ r \in Queue /\ r.jobs = f /\ r.epoch = q.epoch + 1
      /\ Len(r.jobs) = Len(q.jobs)
      /\ r.inFlight = FALSE /\ r.blocked = FALSE
  <2>1. r = [q EXCEPT !.epoch = q.epoch + 1, !.jobs = f]
    BY DEF Promoted
  <2>2. f \in Seq(Job) /\ Len(f) = Len(q.jobs)
    BY <1>1, JobsFun, FunIsSeq
  <2>3. q.inFlight = FALSE /\ q.blocked = FALSE
    BY JobsFun DEF CanPromote
  <2> HIDE DEF f
  <2> QED
    BY <1>0, <2>1, <2>2, <2>3 DEF Queue
<1>3. DOMAIN r.jobs = DOMAIN q.jobs
  BY <1>2
<1>4. ASSUME NEW i \in DOMAIN q.jobs
      PROVE  IF IsNext(q, i) THEN Owns(r, i) /\ r.jobs[i].epoch = q.epoch + 1
                             ELSE ~Owns(r, i) /\ r.jobs[i] = q.jobs[i]
  <2>1. q.jobs[i] \in Job /\ r.jobs[i] = f[i]
    BY <1>2, JobsFun
  <2>2. ~Owns(q, i)
    BY DEF CanPromote, HasOwner
  <2>3. CASE IsNext(q, i)
    BY <2>1, <2>3 DEF Owns, Job
  <2>4. CASE ~IsNext(q, i)
    BY <2>1, <2>2, <2>4 DEF Owns
  <2> QED
    BY <2>3, <2>4
<1>5. OneOwnerIn(r)
  <2> SUFFICES ASSUME NEW i \in DOMAIN q.jobs, NEW k \in DOMAIN q.jobs,
                      IsNext(q, i), IsNext(q, k)
               PROVE  i = k
    BY <1>3, <1>4 DEF OneOwnerIn
  <2> QED
    BY JobsFun DEF IsNext
<1>6. \A i \in DOMAIN r.jobs : r.jobs[i].epoch <= r.epoch
  <2> SUFFICES ASSUME NEW i \in DOMAIN q.jobs PROVE r.jobs[i].epoch <= q.epoch + 1
    BY <1>2, <1>3
  <2>1. q.jobs[i].epoch <= q.epoch /\ q.jobs[i].epoch \in Nat /\ q.epoch \in Nat
    BY JobsFun DEF Good, Job
  <2> QED
    BY <1>4, <2>1
<1>7. Fenced(r, a, e)
  <2>1. e <= q.epoch /\ q.epoch \in Nat
    BY JobsFun DEF Fenced
  <2>2. ASSUME NEW i \in DOMAIN r.jobs, Owns(r, i) PROVE r.jobs[i].epoch > e
    <3>1. IsNext(q, i) /\ r.jobs[i].epoch = q.epoch + 1
      BY <1>3, <1>4, <2>2
    <3> QED
      BY <2>1, <3>1
  <2>3. e <= r.epoch
    <3> HIDE DEF f, r
    <3> QED
      BY <1>2, <2>1
  <2> QED
    BY <2>2, <2>3 DEF Fenced
<1> QED
  BY <1>2, <1>3, <1>5, <1>6, <1>7 DEF Good

\* Ending the owner's session leaves nobody owning the desktop.
LEMMA EndedKeeps ==
  ASSUME NEW q, Good(q), NEW r \in Queue, Len(r.jobs) = Len(q.jobs),
         DOMAIN r.jobs = DOMAIN q.jobs, r.epoch = q.epoch,
         \A i \in DOMAIN q.jobs : ~Owns(r, i) /\ r.jobs[i].epoch = q.jobs[i].epoch,
         NEW a \in Nat, NEW e \in Nat, Fenced(q, a, e)
  PROVE  Good(r) /\ Fenced(r, a, e) /\ ~HasOwner(r)
BY DEF Good, Fenced, HasOwner, OneOwnerIn

\* The owner is unique, so active() finds every owner.
LEMMA OwnerUnique ==
  ASSUME NEW q, Good(q), NEW i \in DOMAIN q.jobs
  PROVE  IsOwner(q, i) <=> Owns(q, i)
<1>1. DOMAIN q.jobs = 1..Len(q.jobs) /\ Len(q.jobs) \in Nat
  BY JobsFun DEF Good
<1> QED
  BY <1>1 DEF Good, OneOwnerIn, IsOwner

\* OwnerTo changes the state of the owner only.
LEMMA OwnerToKeeps ==
  ASSUME NEW q, Good(q), NEW s \in {"draining", "interrupted"},
         NEW b \in BOOLEAN, NEW a \in Nat, NEW e \in Nat, Fenced(q, a, e)
  PROVE  /\ Good(OwnerTo(q, s, b)) /\ Fenced(OwnerTo(q, s, b), a, e)
         /\ DOMAIN OwnerTo(q, s, b).jobs = DOMAIN q.jobs
         /\ OwnerTo(q, s, b).blocked = b
<1> DEFINE f == [i \in DOMAIN q.jobs |->
                   IF IsOwner(q, i) THEN [q.jobs[i] EXCEPT !.state = s]
                                    ELSE q.jobs[i]]
           r == OwnerTo(q, s, b)
<1> q \in Queue
  BY DEF Good
<1>1. f \in [DOMAIN q.jobs -> Job]
  <2> SUFFICES ASSUME NEW i \in DOMAIN q.jobs PROVE f[i] \in Job
    OBVIOUS
  <2>1. q.jobs[i] \in Job /\ s \in JobState
    BY JobsFun DEF JobState
  <2> QED
    BY <2>1 DEF Job
<1>2. /\ r \in Queue /\ r.jobs = f /\ r.epoch = q.epoch
      /\ Len(r.jobs) = Len(q.jobs) /\ r.blocked = b
  <2>1. r = [q EXCEPT !.blocked = b, !.jobs = f]
    BY DEF OwnerTo
  <2>2. f \in Seq(Job) /\ Len(f) = Len(q.jobs)
    BY <1>1, JobsFun, FunIsSeq
  <2> HIDE DEF f
  <2> QED
    BY <2>1, <2>2 DEF Queue
<1>3. ASSUME NEW i \in DOMAIN q.jobs
      PROVE  r.jobs[i].epoch = q.jobs[i].epoch /\ (Owns(r, i) => Owns(q, i))
  <2>1. r.jobs[i] = f[i] /\ q.jobs[i] \in Job
    BY <1>2, JobsFun
  <2> QED
    BY <2>1, OwnerUnique DEF Owns, Job
<1>4. DOMAIN r.jobs = DOMAIN q.jobs
  BY <1>2
<1> HIDE DEF r
<1>5. Good(r) /\ Fenced(r, a, e)
  BY <1>2, <1>3, <1>4 DEF Good, Fenced, OneOwnerIn
<1> QED
  BY <1>2, <1>4, <1>5 DEF r

\* A finished session is completed or expired.
LEMMA CleanedUpEffect ==
  ASSUME NEW q, Good(q)
  PROVE  LET r == CleanedUp(q)
         IN  /\ r \in Queue /\ DOMAIN r.jobs = DOMAIN q.jobs
             /\ Len(r.jobs) = Len(q.jobs) /\ r.epoch = q.epoch
             /\ r.inFlight = q.inFlight /\ r.blocked = q.blocked
             /\ \A i \in DOMAIN q.jobs :
                  ~Owns(r, i) /\ r.jobs[i].epoch = q.jobs[i].epoch
<1> DEFINE f == [i \in DOMAIN q.jobs |->
                   IF IsOwner(q, i)
                   THEN [q.jobs[i] EXCEPT !.state = IF q.jobs[i].lapsed
                                                    THEN "expired"
                                                    ELSE "completed"]
                   ELSE q.jobs[i]]
           r == CleanedUp(q)
<1> q \in Queue
  BY DEF Good
<1>1. f \in [DOMAIN q.jobs -> Job]
  BY JobsFun DEF Job, JobState
<1>2. /\ r \in Queue /\ r.jobs = f /\ r.epoch = q.epoch
      /\ Len(r.jobs) = Len(q.jobs)
      /\ r.inFlight = q.inFlight /\ r.blocked = q.blocked
  <2>1. r = [q EXCEPT !.jobs = f]
    BY DEF CleanedUp
  <2>2. f \in Seq(Job) /\ Len(f) = Len(q.jobs)
    BY <1>1, JobsFun, FunIsSeq
  <2> QED
    BY <2>1, <2>2 DEF Queue
<1>3. ASSUME NEW i \in DOMAIN q.jobs
      PROVE  ~Owns(r, i) /\ r.jobs[i].epoch = q.jobs[i].epoch
  <2>1. r.jobs[i] = f[i] /\ q.jobs[i] \in Job
    BY <1>2, JobsFun
  <2> QED
    BY <2>1, OwnerUnique DEF Owns, Job
<1> QED
  BY <1>2, <1>3

-----------------------------------------------------------------------------
(* Steps.                                                                  *)

\* A handler has left q in memory: it may have been promoted from, and the
\* file may be what it was, q, or the promoted queue.
Settle(q) ==
  /\ queue' = q \/ (CanPromote(q) /\ queue' = Promoted(q))
  /\ disk' = disk \/ disk' = q \/ disk' = queue'
  /\ failures' \in 0..MaxSaveFailures

\* Every way in which a handler saves is a Settle.
LEMMA SavesSettle ==
  ASSUME NEW q, failures \in 0..MaxSaveFailures,
         SaveOk(q) \/ SaveErr(q) \/ PromoteOk(q) \/ PromoteErr(q)
           \/ SavePromoteOk(q) \/ SavePromoteErr(q)
  PROVE  Settle(q)
<1>1. ASSUME SaveFails PROVE failures' \in 0..MaxSaveFailures
  BY <1>1, BoundsAssumption DEF SaveFails
<1>2. CASE SaveOk(q)
  BY <1>2 DEF Settle, SaveOk
<1>3. CASE SaveErr(q)
  BY <1>1, <1>3 DEF Settle, SaveErr
<1>4. CASE PromoteOk(q)
  <2>1. CASE CanPromote(q)
    BY <1>4, <2>1 DEF Settle, PromoteOk, SaveOk
  <2>2. CASE ~CanPromote(q)
    BY <1>4, <2>2 DEF Settle, PromoteOk
  <2> QED
    BY <2>1, <2>2
<1>5. CASE PromoteErr(q)
  BY <1>1, <1>5 DEF Settle, PromoteErr, SaveErr
<1>6. CASE SavePromoteOk(q)
  <2>1. CASE CanPromote(q)
    BY <1>6, <2>1 DEF Settle, SavePromoteOk, SaveOk
  <2>2. CASE ~CanPromote(q)
    BY <1>6, <2>2 DEF Settle, SavePromoteOk, SaveOk
  <2> QED
    BY <2>1, <2>2
<1>7. CASE SavePromoteErr(q)
  BY <1>1, <1>7 DEF Settle, SavePromoteErr, SaveErr
<1> QED
  BY <1>2, <1>3, <1>4, <1>5, <1>6, <1>7

LEMMA SettleKeeps ==
  ASSUME IInv, NEW q, Good(q), Fenced(q, lastActor, lastEpoch), Settle(q),
         UNCHANGED <<lastActor, lastEpoch>>
  PROVE  /\ Good(queue)' /\ Good(disk)'
         /\ Fenced(queue, lastActor, lastEpoch)'
         /\ Fenced(disk, lastActor, lastEpoch)'
         /\ DOMAIN queue'.jobs = DOMAIN q.jobs
<1>1. lastActor \in Nat /\ lastEpoch \in Nat
  BY DEF IInv, TypeRest
<1>2. /\ Good(queue') /\ Fenced(queue', lastActor, lastEpoch)
      /\ DOMAIN queue'.jobs = DOMAIN q.jobs
  BY <1>1, PromotedKeeps DEF Settle
<1>3. Good(disk') /\ Fenced(disk', lastActor, lastEpoch)
  BY <1>2 DEF Settle, IInv
<1> QED
  BY <1>2, <1>3

\* No thread enters the gate, and submissions under way stay accepted.
QuietThreads(q) ==
  /\ pc' \in [Thread -> PC] /\ req' \in [Thread -> Request]
  /\ \A u \in Thread :
       pc'[u] \in {"run", "acting"} => pc'[u] = pc[u] /\ req'[u] = req[u]
  /\ \A u \in Thread :
       pc'[u] = "post" /\ req'[u].kind = "submit" => req'[u].job \in DOMAIN q.jobs

LEMMA QuietReturn ==
  ASSUME IInv, NEW q, DOMAIN queue.jobs \subseteq DOMAIN q.jobs,
         NEW t \in Thread, Return(t)
  PROVE  QuietThreads(q)
<1>1. NoRequest \in Request
  BY DEF NoRequest, Request, Kind, NoJob
<1>2. pc \in [Thread -> PC] /\ req \in [Thread -> Request]
  BY DEF IInv, TypeRest
<1>3. \A u \in Thread : Accepted(u)
  BY DEF IInv, ThreadInv
<1> QED
  BY <1>1, <1>2, <1>3 DEF QuietThreads, Return, Accepted, PC

LEMMA QuietServe ==
  ASSUME IInv, NEW q, DOMAIN queue.jobs \subseteq DOMAIN q.jobs,
         NEW t \in Thread, NEW l \in PC \ {"run", "acting"}, NEW k \in Kind,
         NEW j \in Nat, k = "submit" => j \in DOMAIN q.jobs, Serve(t, l, k, j)
  PROVE  QuietThreads(q)
<1>1. [kind |-> k, job |-> j] \in Request
  BY DEF Request
<1>2. pc \in [Thread -> PC] /\ req \in [Thread -> Request]
  BY DEF IInv, TypeRest
<1>3. \A u \in Thread : Accepted(u)
  BY DEF IInv, ThreadInv
<1> QED
  BY <1>1, <1>2, <1>3 DEF QuietThreads, Serve, Accepted

LEMMA QuietGoto ==
  ASSUME IInv, NEW q, DOMAIN queue.jobs \subseteq DOMAIN q.jobs,
         NEW t \in Thread, NEW l \in {"ready", "get"}, Goto(t, l)
  PROVE  QuietThreads(q)
<1>2. pc \in [Thread -> PC] /\ req \in [Thread -> Request]
  BY DEF IInv, TypeRest
<1>3. \A u \in Thread : Accepted(u)
  BY DEF IInv, ThreadInv
<1> QED
  BY <1>2, <1>3 DEF QuietThreads, Goto, Accepted, PC

LEMMA QuietStutter ==
  ASSUME IInv, NEW q, DOMAIN queue.jobs \subseteq DOMAIN q.jobs,
         UNCHANGED threads
  PROVE  QuietThreads(q)
BY DEF IInv, TypeRest, ThreadInv, QuietThreads, Accepted, threads

\* A handler that changes neither the owner nor the native state.
LEMMA MildStep ==
  ASSUME IInv, NEW q \in Queue, Len(q.jobs) <= MaxJobs, Mild(queue, q),
         Settle(q), QuietThreads(q),
         UNCHANGED <<host, touched, doubt, lastEpoch, lastActor>>,
         crashes' \in 0..MaxCrashes, acked' \subseteq Submission
  PROVE  IInv'
<1>1. lastActor \in Nat /\ lastEpoch \in Nat
  BY DEF IInv, TypeRest
<1>2. /\ Good(q) /\ Fenced(q, lastActor, lastEpoch)
      /\ HasOwner(q) <=> HasOwner(queue)
      /\ Closed(q) <=> Closed(queue)
  BY <1>1, MildKeeps DEF IInv
<1>3. /\ Good(queue)' /\ Good(disk)'
      /\ Fenced(queue, lastActor, lastEpoch)'
      /\ Fenced(disk, lastActor, lastEpoch)'
      /\ DOMAIN queue'.jobs = DOMAIN q.jobs
  BY <1>2, SettleKeeps
<1>4. TypeRest'
  BY DEF IInv, TypeRest, QuietThreads, Settle
<1>5. ASSUME Closed(q) PROVE queue' = q /\ (disk' = disk \/ disk' = q)
  BY <1>5 DEF Settle, CanPromote, Closed
<1>6. ThreadInv'
  <2>1. Exclusive'
    BY DEF IInv, ThreadInv, Exclusive, Holds, QuietThreads
  <2>2. ASSUME NEW t \in Thread, Holds(t)' PROVE Running(t)'
    <3>1. Holds(t) /\ Running(t) /\ req'[t] = req[t]
      BY <2>2 DEF IInv, ThreadInv, Holds, QuietThreads
    <3>2. q.inFlight /\ queue' = q /\ (disk' = disk \/ disk' = q)
      BY <1>5, <3>1 DEF Running, Mild, Closed
    <3>3. queue'.inFlight /\ disk'.inFlight /\ ~queue'.blocked
      BY <3>1, <3>2 DEF Running, Mild
    <3>4. CASE req[t].job = NoJob
      BY <1>2, <3>1, <3>2, <3>3, <3>4 DEF Running
    <3>5. CASE req[t].job # NoJob
      <4> DEFINE j == req[t].job
      <4>1. /\ j \in DOMAIN queue.jobs /\ Owns(queue, j)
            /\ j \in DOMAIN disk.jobs /\ Owns(disk, j)
            /\ queue.jobs[j].epoch <= disk.epoch
        BY <3>1, <3>5 DEF Running
      <4>2. /\ j \in DOMAIN q.jobs /\ Owns(q, j)
            /\ q.jobs[j].epoch = queue.jobs[j].epoch
            /\ q.jobs[j].epoch <= q.epoch
        BY <1>2, <4>1 DEF Mild, Good
      <4>3. /\ j \in DOMAIN queue'.jobs /\ Owns(queue', j)
            /\ j \in DOMAIN disk'.jobs /\ Owns(disk', j)
            /\ queue'.jobs[j].epoch <= disk'.epoch
        BY <3>2, <4>1, <4>2
      <4> QED
        BY <3>1, <3>3, <3>5, <4>3 DEF Running
    <3> QED
      BY <3>4, <3>5
  <2>3. ASSUME NEW t \in Thread, pc'[t] = "acting" PROVE InAction(t)'
    BY <2>3 DEF IInv, ThreadInv, QuietThreads, InAction
  <2>4. ASSUME NEW t \in Thread PROVE Accepted(t)' /\ CleanStart(t)'
    BY <1>3 DEF Accepted, CleanStart, QuietThreads, IInv, ThreadInv
  <2> QED
    BY <2>1, <2>2, <2>3, <2>4 DEF ThreadInv
<1>7. NativeInv'
  <2>1. ASSUME touched # 0 PROVE Closed(queue)' /\ Closed(disk)'
    BY <1>2, <1>5, <2>1 DEF IInv, NativeInv
  <2>2. HandoverClean'
    <3> SUFFICES ASSUME NEW i \in DOMAIN queue'.jobs,
                        Owns(queue', i), ~queue'.blocked, touched # 0
                 PROVE  touched = i
      BY DEF HandoverClean
    <3>1. queue' = q
      BY <1>2, <1>5 DEF IInv, NativeInv
    <3> QED
      BY <3>1 DEF Mild, IInv, NativeInv, HandoverClean
  <2>3. ASSUME "action" \in doubt PROVE queue'.blocked /\ Closed(disk)'
    <3>1. queue.blocked /\ Closed(disk) /\ q.blocked
      BY <2>3 DEF IInv, NativeInv, Mild
    <3>2. queue' = q /\ (disk' = disk \/ disk' = q)
      BY <1>5, <3>1 DEF Closed
    <3> QED
      BY <3>1, <3>2 DEF Closed
  <2> QED
    BY <2>1, <2>2, <2>3 DEF NativeInv
<1> QED
  BY <1>3, <1>4, <1>6, <1>7 DEF IInv

\* A handler that ends the owner's session or quarantines the desktop.
LEMMA EndStep ==
  ASSUME IInv, GateFree, NEW q, Good(q), Fenced(q, lastActor, lastEpoch),
         Settle(q), QuietThreads(q), touched' = 0, host' \in Nat,
         doubt' \subseteq {"action", "cleanup"},
         "action" \in doubt' => queue'.blocked /\ Closed(disk'),
         UNCHANGED <<lastEpoch, lastActor>>,
         crashes' \in 0..MaxCrashes, acked' \subseteq Submission
  PROVE  IInv'
<1>1. /\ Good(queue)' /\ Good(disk)'
      /\ Fenced(queue, lastActor, lastEpoch)'
      /\ Fenced(disk, lastActor, lastEpoch)'
      /\ DOMAIN queue'.jobs = DOMAIN q.jobs
  BY SettleKeeps
<1>2. TypeRest'
  BY DEF IInv, TypeRest, QuietThreads, Settle
<1>3. ThreadInv'
  <2>1. \A u \in Thread : ~(pc'[u] \in {"run", "acting"})
    BY DEF QuietThreads, GateFree, Holds
  <2>2. ASSUME NEW t \in Thread PROVE Accepted(t)'
    BY <1>1 DEF Accepted, QuietThreads
  <2> QED
    BY <2>1, <2>2 DEF ThreadInv, Exclusive, Holds, CleanStart
<1>4. NativeInv'
  BY DEF NativeInv, HandoverClean
<1> QED
  BY <1>1, <1>2, <1>3, <1>4 DEF IInv

\* Facts about the invariant that most steps need.
LEMMA Basics ==
  ASSUME IInv
  PROVE  /\ queue \in Queue /\ Len(queue.jobs) <= MaxJobs /\ Good(queue)
         /\ Fenced(queue, lastActor, lastEpoch)
         /\ lastActor \in Nat /\ lastEpoch \in Nat
         /\ failures \in 0..MaxSaveFailures /\ crashes \in 0..MaxCrashes
         /\ acked \subseteq Submission /\ host \in Nat
         /\ Mild(queue, queue)
         /\ DOMAIN queue.jobs = 1..Len(queue.jobs) /\ Len(queue.jobs) \in Nat
<1>1. /\ queue \in Queue /\ Len(queue.jobs) <= MaxJobs /\ Good(queue)
      /\ Fenced(queue, lastActor, lastEpoch)
  BY DEF IInv, Good
<1>2. /\ lastActor \in Nat /\ lastEpoch \in Nat
      /\ failures \in 0..MaxSaveFailures /\ crashes \in 0..MaxCrashes
      /\ acked \subseteq Submission /\ host \in Nat
  BY DEF IInv, TypeRest
<1>3. Mild(queue, queue)
  BY DEF Mild
<1>4. DOMAIN queue.jobs = 1..Len(queue.jobs) /\ Len(queue.jobs) \in Nat
  BY <1>1, JobsFun
<1> QED
  BY <1>1, <1>2, <1>3, <1>4

\* reconcile_desktop(), by the reaper or in a handler.
LEMMA ReconcileStep ==
  ASSUME IInv, ReconcileOk \/ ReconcileErr, QuietThreads(queue),
         UNCHANGED crashes, acked' \subseteq Submission
  PROVE  IInv'
<1>0. crashes' \in 0..MaxCrashes
  BY Basics
<1>1. CASE Settle(queue) /\ NativeUnchanged
  BY <1>0, <1>1, Basics, MildStep DEF NativeUnchanged
<1>2. CASE /\ GateFree /\ NeedsCleanup(queue) /\ HostClosed
           /\ Settle(CleanedUp(queue))
  <2> DEFINE q == CleanedUp(queue)
  <2>1. Good(q) /\ Fenced(q, lastActor, lastEpoch) /\ DOMAIN q.jobs = DOMAIN queue.jobs
    BY Basics, CleanedUpEffect, EndedKeeps
  <2>2. QuietThreads(q)
    BY <2>1 DEF QuietThreads
  <2>3. ~("action" \in doubt') /\ touched' = 0 /\ host' \in Nat
    BY <1>2 DEF HostClosed, NoHost, NeedsCleanup, IInv, NativeInv
  <2>4. /\ doubt' \subseteq {"action", "cleanup"}
        /\ UNCHANGED <<lastEpoch, lastActor>>
    BY <1>2 DEF HostClosed, IInv, TypeRest
  <2> HIDE DEF q
  <2> QED
    BY <1>0, <1>2, <2>1, <2>2, <2>3, <2>4, EndStep DEF q
<1>3. CASE /\ GateFree /\ NeedsCleanup(queue) /\ HostCloseFailed
           /\ (SaveOk(CleanupFailed(queue)) \/ SaveErr(CleanupFailed(queue)))
  <2> DEFINE q == CleanupFailed(queue)
  <2>1. /\ DOMAIN q.jobs = DOMAIN queue.jobs /\ q.blocked
        /\ Good(q) /\ Fenced(q, lastActor, lastEpoch)
    BY Basics, OwnerToKeeps DEF CleanupFailed
  <2> HIDE DEF q
  <2>3. QuietThreads(q)
    BY <2>1 DEF QuietThreads
  <2>4. SaveOk(q) \/ SaveErr(q)
    BY <1>3 DEF q
  <2>5. Settle(q)
    BY <2>4, SavesSettle, Basics
  <2>6. touched' = 0 /\ host' \in Nat /\ UNCHANGED <<lastEpoch, lastActor>>
    BY <1>3 DEF HostCloseFailed, NoHost
  <2>7. doubt' \subseteq {"action", "cleanup"}
    BY <1>3 DEF HostCloseFailed, IInv, TypeRest
  <2>8. ASSUME "action" \in doubt' PROVE queue'.blocked /\ Closed(disk')
    <3>1. ~("action" \in doubt)
      BY <1>3 DEF NeedsCleanup, IInv, NativeInv
    <3>2. touched # 0
      BY <1>3, <2>8, <3>1 DEF HostCloseFailed
    <3>3. Closed(disk)
      BY <3>2 DEF IInv, NativeInv
    <3> QED
      BY <2>1, <2>4, <3>3 DEF SaveOk, SaveErr, Closed
  <2> QED
    BY <1>0, <1>3, <2>1, <2>3, <2>5, <2>6, <2>7, <2>8, EndStep
<1>4. CASE ReconcileOk
  <2>1. CASE ~GateFree /\ NativeUnchanged /\ UNCHANGED <<queue, disk, failures>>
    BY <1>1, <2>1, Basics DEF Settle
  <2>2. CASE GateFree /\ ~NeedsCleanup(queue) /\ NativeUnchanged /\ PromoteOk(queue)
    BY <1>1, <2>2, Basics, SavesSettle
  <2>3. CASE /\ GateFree /\ NeedsCleanup(queue) /\ HostClosed
             /\ SavePromoteOk(CleanedUp(queue))
    BY <1>2, <2>3, Basics, SavesSettle
  <2> QED
    BY <1>4, <2>1, <2>2, <2>3 DEF ReconcileOk
<1>5. CASE ReconcileErr
  <2>1. CASE GateFree /\ ~NeedsCleanup(queue) /\ NativeUnchanged /\ PromoteErr(queue)
    BY <1>1, <2>1, Basics, SavesSettle
  <2>2. CASE /\ GateFree /\ NeedsCleanup(queue) /\ HostClosed
             /\ SavePromoteErr(CleanedUp(queue))
    BY <1>2, <2>2, Basics, SavesSettle
  <2>3. CASE /\ GateFree /\ NeedsCleanup(queue) /\ HostCloseFailed
             /\ (SaveOk(CleanupFailed(queue)) \/ SaveErr(CleanupFailed(queue)))
    BY <1>3, <2>3
  <2> QED
    BY <1>5, <2>1, <2>2, <2>3 DEF ReconcileErr
<1> QED
  BY <1>4, <1>5

\* A command() that leaves q, followed by save() or save() and promote().
LEMMA CommandStep ==
  ASSUME IInv, NEW q \in Queue, Len(q.jobs) <= MaxJobs, Mild(queue, q),
         NEW t \in Thread, NEW k \in Kind, NEW j \in Nat,
         k = "submit" => j \in DOMAIN q.jobs,
         SavePromoteAnd(t, k, j, q) \/ SaveAnd(t, "post", k, j, q),
         UNCHANGED <<host, crashes, history>>
  PROVE  IInv'
<1>1. DOMAIN queue.jobs \subseteq DOMAIN q.jobs
  BY DEF Mild
<1>2. /\ crashes' \in 0..MaxCrashes /\ acked' \subseteq Submission
      /\ UNCHANGED <<host, touched, doubt, lastEpoch, lastActor>>
  BY Basics DEF history
<1>3. "post" \in PC \ {"run", "acting"}
  BY DEF PC
<1>4. CASE SavePromoteAnd(t, k, j, q)
  <2>1. CASE SavePromoteOk(q) /\ Serve(t, "post", k, j)
    BY <1>1, <1>2, <1>3, <2>1, QuietServe, SavesSettle, Basics, MildStep
  <2>2. CASE SavePromoteErr(q) /\ Return(t)
    BY <1>1, <1>2, <2>2, QuietReturn, SavesSettle, Basics, MildStep
  <2> QED
    BY <1>4, <2>1, <2>2 DEF SavePromoteAnd
<1>5. CASE SaveAnd(t, "post", k, j, q)
  <2>1. CASE SaveOk(q) /\ Serve(t, "post", k, j)
    BY <1>1, <1>2, <1>3, <2>1, QuietServe, SavesSettle, Basics, MildStep
  <2>2. CASE SaveErr(q) /\ Return(t)
    BY <1>1, <1>2, <2>2, QuietReturn, SavesSettle, Basics, MildStep
  <2> QED
    BY <1>5, <2>1, <2>2 DEF SaveAnd
<1> QED
  BY <1>4, <1>5

LEMMA SubmitStep ==
  ASSUME IInv, NEW t \in Thread, NEW s \in Submission, Submit(t, s)
  PROVE  IInv'
<1> DEFINE job == [sub |-> s, state |-> "queued", epoch |-> 0, lapsed |-> TRUE]
           js  == Append(queue.jobs, job)
           q   == [queue EXCEPT !.jobs = js]
           n   == Len(queue.jobs)
<1>1. queue.jobs \in Seq(Job) /\ n \in Nat /\ job \in Job /\ n < MaxJobs
  <2>1. queue.jobs \in Seq(Job) /\ n \in Nat /\ n < MaxJobs
    BY Basics, JobsFun DEF Submit
  <2>2. job \in Job
    BY DEF Job, JobState
  <2> QED
    BY <2>1, <2>2
<1>2. /\ js \in Seq(Job) /\ Len(js) = n + 1 /\ js[n + 1] = job
      /\ \A i \in 1..n : js[i] = queue.jobs[i]
  BY <1>1, AppendProperties
<1>3. DOMAIN js = 1..(n + 1) /\ DOMAIN queue.jobs = 1..n
  BY <1>1, <1>2, LenProperties
<1>4. Len(js) <= MaxJobs /\ n + 1 \in DOMAIN js /\ n + 1 \in Nat
  BY <1>1, <1>2, <1>3, BoundsAssumption
<1> HIDE DEF js, n, job
<1>5. /\ q \in Queue /\ q.jobs = js /\ q.epoch = queue.epoch
      /\ q.inFlight = queue.inFlight /\ q.blocked = queue.blocked
  BY <1>2, Basics DEF Queue
<1>6. Mild(queue, q)
  <2>1. ASSUME NEW i \in 1..(n + 1), ~(i \in 1..n) PROVE i = n + 1
    BY <1>1, <2>1
  <2>2. ASSUME NEW i \in 1..(n + 1)
        PROVE  IF i \in 1..n
               THEN js[i].epoch = queue.jobs[i].epoch /\ (Owns(q, i) <=> Owns(queue, i))
               ELSE js[i].epoch = 0 /\ ~Owns(q, i)
    <3>1. CASE i \in 1..n
      BY <1>2, <1>5, <3>1 DEF Owns
    <3>2. CASE ~(i \in 1..n)
      BY <1>2, <1>5, <2>1, <3>2 DEF Owns, job
    <3> QED
      BY <3>1, <3>2
  <2>3. 1..n \subseteq 1..(n + 1)
    BY <1>1
  <2> QED
    BY <1>3, <1>5, <2>2, <2>3 DEF Mild
<1>7. SavePromoteAnd(t, "submit", n + 1, q) /\ UNCHANGED <<host, crashes, history>>
  BY DEF Submit, js, job, n
<1> HIDE DEF q
<1> QED
  BY <1>4, <1>5, <1>6, <1>7, CommandStep DEF Kind

LEMMA FinishStep ==
  ASSUME IInv, NEW t \in Thread, NEW j \in DOMAIN queue.jobs, Finish(t, j)
  PROVE  IInv'
<1> DEFINE s == Finished(queue.jobs[j].state)
           f == [i \in DOMAIN queue.jobs |->
                   IF i = j THEN [queue.jobs[i] EXCEPT !.state = s]
                            ELSE queue.jobs[i]]
           q == SetState(queue, j, s)
<1>1. queue.jobs[j] \in Job /\ queue.jobs[j].state \in JobState
  BY Basics, JobsFun DEF Job
<1>2. /\ s \in JobState
      /\ s \in {"active", "draining"}
           <=> queue.jobs[j].state \in {"active", "draining"}
  BY <1>1 DEF Finished, JobState
<1> HIDE DEF s
<1>3. f \in [DOMAIN queue.jobs -> Job]
  <2> SUFFICES ASSUME NEW i \in DOMAIN queue.jobs PROVE f[i] \in Job
    OBVIOUS
  <2>1. queue.jobs[i] \in Job
    BY Basics, JobsFun
  <2> QED
    BY <1>2, <2>1 DEF Job
<1>4. f \in Seq(Job) /\ Len(f) = Len(queue.jobs) /\ DOMAIN f = DOMAIN queue.jobs
  <2> HIDE DEF f
  <2>1. f \in [1..Len(queue.jobs) -> Job] /\ Len(queue.jobs) \in Nat
    BY <1>3, Basics
  <2> QED
    BY <2>1, FunIsSeq, Basics
<1>5. q = [queue EXCEPT !.jobs = f]
  BY DEF SetState
<1>6. \A i \in DOMAIN queue.jobs :
        /\ f[i].epoch = queue.jobs[i].epoch
        /\ f[i].state \in {"active", "draining"}
             <=> queue.jobs[i].state \in {"active", "draining"}
  <2> SUFFICES ASSUME NEW i \in DOMAIN queue.jobs
               PROVE  /\ f[i].epoch = queue.jobs[i].epoch
                      /\ f[i].state \in {"active", "draining"}
                           <=> queue.jobs[i].state \in {"active", "draining"}
    OBVIOUS
  <2>1. queue.jobs[i] \in Job
    BY Basics, JobsFun
  <2> QED
    BY <1>2, <2>1 DEF Job
<1> HIDE DEF f, q
<1>7. /\ q \in Queue /\ q.jobs = f /\ q.epoch = queue.epoch
      /\ q.inFlight = queue.inFlight /\ q.blocked = queue.blocked
  BY <1>4, <1>5, Basics DEF Queue
<1>8. Mild(queue, q)
  BY <1>4, <1>6, <1>7 DEF Mild, Owns
<1>9. SaveAnd(t, "post", "finish", NoJob, q) /\ UNCHANGED <<host, crashes, history>>
  BY DEF Finish, q, s
<1>10. Len(q.jobs) <= MaxJobs
  BY <1>4, <1>7, Basics
<1> QED
  BY <1>7, <1>8, <1>9, <1>10, CommandStep DEF Kind, NoJob

LEMMA MaintenanceStep ==
  ASSUME IInv, NEW t \in Thread, NEW o \in Operator, NEW b \in BOOLEAN,
         Maintenance(t, o, b)
  PROVE  IInv'
<1> DEFINE m == IF b THEN o ELSE None
           q == [queue EXCEPT !.maint = m]
<1>1. m \in Operator \cup {None}
  OBVIOUS
<1> HIDE DEF m
<1>2. /\ q \in Queue /\ q.jobs = queue.jobs /\ q.epoch = queue.epoch
      /\ q.inFlight = queue.inFlight /\ q.blocked = queue.blocked
  BY <1>1, Basics DEF Queue
<1>3. SavePromoteAnd(t, "other", NoJob, q) /\ UNCHANGED <<host, crashes, history>>
  BY DEF Maintenance, m
<1> HIDE DEF q
<1>4. Mild(queue, q) /\ Len(q.jobs) <= MaxJobs
  BY <1>2, Basics DEF Mild, Owns
<1> QED
  BY <1>2, <1>3, <1>4, CommandStep DEF Kind, NoJob

\* The other commands of desktop_dispatch that leave the owner alone.
LEMMA PlainStep ==
  ASSUME IInv, NEW t \in Thread,
         \/ Get(t) \/ Reject(t)
         \/ \E j \in DOMAIN queue.jobs : Renew(t, j)
         \/ \E s \in Submission : Resubmit(t, s)
  PROVE  IInv'
<1> DOMAIN queue.jobs \subseteq DOMAIN queue.jobs
  OBVIOUS
<1>1. CASE Get(t)
  <2>1. CASE SaveAnd(t, "post", "other", NoJob, queue)
    BY <1>1, <2>1, CommandStep, Basics DEF Get, Kind, NoJob
  <2>2. CASE (SaveOk(queue) \/ SaveErr(queue)) /\ Return(t)
    <3>1. QuietThreads(queue) /\ Settle(queue)
      BY <2>2, QuietReturn, SavesSettle, Basics
    <3>2. UNCHANGED <<host, touched, doubt, lastEpoch, lastActor, crashes, acked>>
      BY <1>1 DEF Get, history
    <3> QED
      BY <3>1, <3>2, Basics, MildStep
  <2> QED
    BY <1>1, <2>1, <2>2 DEF Get
<1>2. CASE Reject(t)
  <2>1. QuietThreads(queue)
    BY <1>2, QuietReturn DEF Reject
  <2>2. /\ Settle(queue)
        /\ UNCHANGED <<host, touched, doubt, lastEpoch, lastActor, crashes, acked>>
    BY <1>2, Basics DEF Reject, history, mem, Settle
  <2> QED
    BY <2>1, <2>2, Basics, MildStep
<1>3. ASSUME NEW j \in DOMAIN queue.jobs, Renew(t, j) PROVE IInv'
  BY <1>3, CommandStep, Basics DEF Renew, Kind, NoJob
<1>4. ASSUME NEW s \in Submission, Resubmit(t, s) PROVE IInv'
  <2>1. PICK i \in DOMAIN queue.jobs : Serve(t, "post", "submit", i)
    BY <1>4 DEF Resubmit
  <2>2. /\ Settle(queue)
        /\ UNCHANGED <<host, touched, doubt, lastEpoch, lastActor, crashes, acked>>
    BY <1>4, Basics DEF Resubmit, history, mem, Settle
  <2>3. "post" \in PC \ {"run", "acting"} /\ "submit" \in Kind /\ i \in Nat
    BY Basics DEF PC, Kind
  <2>4. QuietThreads(queue)
    BY <2>1, <2>3, QuietServe
  <2> QED
    BY <2>2, <2>4, Basics, MildStep
<1> QED
  BY <1>1, <1>2, <1>3, <1>4

LEMMA RecoverStep ==
  ASSUME IInv, NEW t \in Thread, Recover(t)
  PROVE  IInv'
<1> DEFINE q == OwnerTo(queue, "interrupted", FALSE)
<1>1. /\ Good(q) /\ Fenced(q, lastActor, lastEpoch)
      /\ DOMAIN q.jobs = DOMAIN queue.jobs
  BY Basics, OwnerToKeeps
<1>2. GateFree
  BY DEF GateFree, Recover, IInv, ThreadInv, Running
<1>3. SavePromoteAnd(t, "other", NoJob, q)
  BY DEF Recover
<1> HIDE DEF q
<1>4. /\ touched' = 0 /\ doubt' = {} /\ host' \in Nat
      /\ UNCHANGED <<lastEpoch, lastActor>>
      /\ crashes' \in 0..MaxCrashes /\ acked' \subseteq Submission
  BY Basics DEF Recover
<1>5. Settle(q) /\ QuietThreads(q)
  <2>1. CASE SavePromoteOk(q) /\ Serve(t, "post", "other", NoJob)
    <3>1. "post" \in PC \ {"run", "acting"} /\ "other" \in Kind /\ NoJob \in Nat
      BY DEF PC, Kind, NoJob
    <3> QED
      BY <1>1, <2>1, <3>1, QuietServe, SavesSettle, Basics
  <2>2. CASE SavePromoteErr(q) /\ Return(t)
    BY <1>1, <2>2, QuietReturn, SavesSettle, Basics
  <2> QED
    BY <1>3, <2>1, <2>2 DEF SavePromoteAnd
<1> QED
  BY <1>1, <1>2, <1>4, <1>5, EndStep

-----------------------------------------------------------------------------
(* A protected action.                                                     *)

LEMMA BeginStep ==
  ASSUME IInv, NEW t \in Thread, NEW k \in {"call", "tools", "native"},
         NEW j \in {NoJob} \cup DOMAIN queue.jobs, Begin(t, k, j)
  PROVE  IInv'
<1> DEFINE q == [queue EXCEPT !.inFlight = TRUE]
<1>1. /\ q \in Queue /\ q.jobs = queue.jobs /\ q.epoch = queue.epoch
      /\ q.inFlight = TRUE /\ q.blocked = queue.blocked
  BY Basics DEF Queue
<1>2. SaveAnd(t, "run", k, j, q) /\ GateFree /\ Admits(queue, k, j)
  BY DEF Begin
<1> HIDE DEF q
<1>3. ~queue.blocked /\ ~q.blocked
  BY <1>1, <1>2 DEF Admits
<1>4. Good(q) /\ Fenced(q, lastActor, lastEpoch) /\ DOMAIN q.jobs = DOMAIN queue.jobs
  BY <1>1, Basics DEF Good, Fenced, OneOwnerIn, Owns
<1>5. UNCHANGED <<host, crashes, touched, doubt, lastEpoch, lastActor, acked>>
  BY DEF Begin, history
<1>6. ASSUME Settle(q) PROVE queue' = q
  BY <1>1, <1>6 DEF Settle, CanPromote
<1>7. Closed(q) /\ Settle(q) /\ queue' = q
  BY <1>1, <1>2, <1>6, SavesSettle, Basics DEF Closed, SaveAnd
<1>8. /\ Good(queue)' /\ Good(disk)'
      /\ Fenced(queue, lastActor, lastEpoch)'
      /\ Fenced(disk, lastActor, lastEpoch)'
  BY <1>4, <1>5, <1>7, SettleKeeps
<1>9. NativeInv'
  <2>1. disk' = disk \/ disk' = q
    BY <1>7 DEF Settle
  <2>2. touched # 0 => Closed(disk)
    BY DEF IInv, NativeInv
  <2>3. ~("action" \in doubt)
    BY <1>3 DEF IInv, NativeInv
  <2>4. HandoverClean'
    BY <1>1, <1>3, <1>5, <1>7 DEF HandoverClean, Owns, IInv, NativeInv
  <2> QED
    BY <1>5, <1>7, <2>1, <2>2, <2>3, <2>4 DEF NativeInv
<1>10. CASE SaveOk(q) /\ Serve(t, "run", k, j)
  <2>1. [kind |-> k, job |-> j] \in Request /\ "run" \in PC
    BY Basics DEF Request, Kind, NoJob, PC
  <2>2. pc \in [Thread -> PC] /\ req \in [Thread -> Request]
    BY DEF IInv, TypeRest
  <2>3. /\ pc' = [pc EXCEPT ![t] = "run"]
        /\ req' = [req EXCEPT ![t] = [kind |-> k, job |-> j]]
    BY <1>10 DEF Serve
  <2>4. TypeRest'
    BY <1>5, <1>7, <2>1, <2>2, <2>3 DEF IInv, TypeRest, Settle
  <2>5. Exclusive'
    BY <1>2, <2>2, <2>3 DEF Exclusive, GateFree, Holds
  <2>6. Running(t)'
    <3>1. queue' = q /\ disk' = q
      BY <1>10 DEF SaveOk
    <3>2. req'[t] = [kind |-> k, job |-> j]
      BY <2>2, <2>3
    <3>3. CASE j = NoJob
      <4>1. ~HasOwner(queue) /\ k # "call"
        BY <1>2, <3>3, Basics DEF Admits, IsOwner, NoJob
      <4>2. ~HasOwner(q)
        BY <1>1, <4>1 DEF HasOwner, Owns
      <4> QED
        BY <1>1, <1>3, <3>1, <3>2, <3>3, <4>1, <4>2 DEF Running
    <3>4. CASE j # NoJob
      <4>1. j \in DOMAIN q.jobs /\ Owns(q, j)
        BY <1>1, <1>2, <3>4 DEF Admits, IsOwner, Owns
      <4>2. q.jobs[j].epoch <= q.epoch
        BY <1>4, <4>1 DEF Good
      <4> QED
        BY <1>1, <1>3, <3>1, <3>2, <3>4, <4>1, <4>2 DEF Running
    <3> QED
      BY <3>3, <3>4
  <2>7. ASSUME NEW u \in Thread
        PROVE  /\ Holds(u)' => Running(u)'
               /\ (pc[u] = "acting")' => InAction(u)'
               /\ CleanStart(u)'
               /\ Accepted(u)'
    <3>1. CASE u = t
      <4>1. Accepted(t)' /\ ~(pc[t] = "acting")'
        BY <2>2, <2>3 DEF Accepted
      <4>2. ASSUME j = NoJob PROVE touched' = 0
        <5>1. ~HasOwner(queue) /\ ~queue.blocked /\ ~queue.inFlight
          BY <1>2, <4>2, Basics DEF Admits, IsOwner, NoJob
        <5> QED
          BY <1>5, <5>1 DEF IInv, NativeInv, Closed
      <4> QED
        BY <2>2, <2>3, <2>6, <3>1, <4>1, <4>2 DEF CleanStart
    <3>2. CASE u # t
      <4>1. pc'[u] = pc[u] /\ req'[u] = req[u]
        BY <2>2, <2>3, <3>2
      <4>2. ~(pc[u] \in {"run", "acting"})
        BY <1>2 DEF GateFree, Holds
      <4>3. Accepted(u)
        BY DEF IInv, ThreadInv
      <4> QED
        BY <1>4, <1>7, <4>1, <4>2, <4>3 DEF Accepted, Holds, CleanStart
    <3> QED
      BY <3>1, <3>2
  <2>8. ThreadInv'
    BY <2>5, <2>7 DEF ThreadInv
  <2> QED
    BY <1>8, <1>9, <2>4, <2>8 DEF IInv
<1>11. CASE SaveErr(q) /\ Return(t)
  <2>1. QuietThreads(q)
    BY <1>4, <1>11, QuietReturn
  <2>2. TypeRest'
    BY <1>5, <1>7, <2>1 DEF IInv, TypeRest, QuietThreads, Settle
  <2>3. ThreadInv'
    <3>1. \A u \in Thread : ~(pc'[u] \in {"run", "acting"})
      BY <1>2, <2>1 DEF QuietThreads, GateFree, Holds
    <3>2. ASSUME NEW u \in Thread PROVE Accepted(u)'
      BY <1>7, <2>1 DEF Accepted, QuietThreads
    <3> QED
      BY <3>1, <3>2 DEF ThreadInv, Exclusive, Holds, CleanStart
  <2> QED
    BY <1>8, <1>9, <2>2, <2>3 DEF IInv
<1> QED
  BY <1>2, <1>10, <1>11 DEF SaveAnd

LEMMA ActStep ==
  ASSUME IInv, NEW t \in Thread, Act(t)
  PROVE  IInv'
<1> DEFINE j == req[t].job
<1>1. Running(t) /\ pc[t] = "run"
  BY DEF Act, IInv, ThreadInv, Holds
<1>2. pc \in [Thread -> PC] /\ req \in [Thread -> Request] /\ j \in Nat
  BY DEF IInv, TypeRest, Request
<1>3. pc' = [pc EXCEPT ![t] = "acting"] /\ req' = req
  BY DEF Act, Goto
<1>4. /\ queue' = queue /\ disk' = disk /\ failures' = failures
      /\ crashes' = crashes /\ doubt' = doubt /\ acked' = acked
      /\ host' \in HostFor(req[t])
      /\ touched' = IF j = NoJob THEN Bare ELSE j
  BY DEF Act
<1>5. j # NoJob => /\ j \in DOMAIN queue.jobs /\ Owns(queue, j)
                   /\ j \in DOMAIN disk.jobs /\ Owns(disk, j)
                   /\ queue.jobs[j].epoch <= disk.epoch
                   /\ queue.jobs[j].epoch <= queue.epoch
                   /\ queue.jobs[j].epoch \in Nat
  BY <1>1, Basics, JobsFun DEF Running, Good, Job
<1>6. TypeRest'
  <2>1. host' \in Nat
    <3>1. DOMAIN queue.jobs \subseteq Nat
      BY Basics, JobsFun
    <3>2. NamedHosts \subseteq Nat
      BY <3>1, BoundsAssumption DEF NamedHosts, Discovery
    <3> QED
      BY <1>2, <1>4, <3>2, Basics DEF HostFor
  <2>2. touched' \in Nat
    BY <1>2, <1>4, BoundsAssumption DEF Bare
  <2>3. lastEpoch' \in Nat /\ lastActor' \in Nat
    BY <1>2, <1>5, Basics DEF Act
  <2> QED
    BY <1>2, <1>3, <1>4, <2>1, <2>2, <2>3 DEF IInv, TypeRest, PC
<1>7. Fenced(queue, lastActor, lastEpoch)' /\ Fenced(disk, lastActor, lastEpoch)'
  <2>1. CASE j = NoJob
    BY <1>4, <2>1 DEF Act, IInv
  <2>2. CASE j # NoJob
    <3>1. lastActor' = j /\ lastEpoch' = queue.jobs[j].epoch
      BY <2>2 DEF Act
    <3>2. OneOwnerIn(queue) /\ OneOwnerIn(disk)
      BY DEF IInv, Good
    <3> QED
      BY <1>4, <1>5, <2>2, <3>1, <3>2 DEF Fenced, OneOwnerIn
  <2> QED
    BY <2>1, <2>2
<1>8. ThreadInv'
  <2>1. Exclusive'
    BY <1>1, <1>2, <1>3 DEF Exclusive, Holds, IInv, ThreadInv
  <2>2. ASSUME NEW u \in Thread, Holds(u)' PROVE Running(u)'
    <3>1. Running(u)
      BY <1>1, <1>2, <1>3, <2>2 DEF Holds, IInv, ThreadInv
    <3> QED
      BY <1>3, <1>4, <3>1 DEF Running, HasOwner, Owns
  <2>3. ASSUME NEW u \in Thread, pc'[u] = "acting" PROVE InAction(u)'
    <3>1. u = t
      BY <1>1, <1>2, <1>3, <2>3 DEF Holds, IInv, ThreadInv, Exclusive
    <3>2. req[t].kind = "call" => host' = j
      BY <1>4 DEF HostFor
    <3> QED
      BY <1>3, <1>4, <3>1, <3>2 DEF InAction
  <2>4. ASSUME NEW u \in Thread PROVE Accepted(u)' /\ CleanStart(u)'
    <3>1. pc'[u] # "run"
      BY <1>1, <1>2, <1>3 DEF Holds, IInv, ThreadInv, Exclusive
    <3> QED
      BY <1>2, <1>3, <1>4, <3>1 DEF Accepted, CleanStart, IInv, ThreadInv
  <2> QED
    BY <2>1, <2>2, <2>3, <2>4 DEF ThreadInv
<1>9. NativeInv'
  <2>1. Closed(queue)' /\ Closed(disk)'
    BY <1>1, <1>4 DEF Closed, Running
  <2>2. HandoverClean'
    BY <1>1, <1>4, <1>5 DEF HandoverClean, Running, HasOwner, IInv, Good, OneOwnerIn
  <2> QED
    BY <1>4, <2>1, <2>2 DEF NativeInv, IInv
<1>10. Good(queue)' /\ Good(disk)'
  BY <1>4 DEF IInv
<1> QED
  BY <1>6, <1>7, <1>8, <1>9, <1>10 DEF IInv

\* end(uncertain), with what the action left behind.
LEMMA EndActionStep ==
  ASSUME IInv, NEW t \in Thread, Holds(t), NEW b \in BOOLEAN, EndAction(t, b),
         host' \in Nat, touched' = touched \/ touched' = 0,
         touched' # 0 => b \/ HasOwner(queue),
         doubt' = doubt \/ (b /\ doubt' = doubt \cup {"action"}),
         UNCHANGED <<lastEpoch, lastActor, crashes, acked>>
  PROVE  IInv'
<1> DEFINE q == [queue EXCEPT !.inFlight = FALSE, !.blocked = queue.blocked \/ b]
<1>1. Running(t)
  BY DEF IInv, ThreadInv
<1>2. /\ q \in Queue /\ q.jobs = queue.jobs /\ q.epoch = queue.epoch
      /\ q.inFlight = FALSE /\ (q.blocked <=> b)
  <2>1. queue \in Queue /\ queue.blocked = FALSE /\ (queue.blocked \/ b) = b
    BY <1>1, Basics, JobsFun DEF Running
  <2> QED
    BY <2>1 DEF Queue
<1>3. \/ SaveOk(q) /\ Serve(t, "post", "other", NoJob)
      \/ SaveErr(q) /\ Return(t)
  BY DEF EndAction
<1> HIDE DEF q
<1>4. Good(q) /\ Fenced(q, lastActor, lastEpoch) /\ DOMAIN q.jobs = DOMAIN queue.jobs
  BY <1>2, Basics DEF Good, Fenced, OneOwnerIn, Owns
<1>5. QuietThreads(q) /\ Settle(q)
  <2>1. "post" \in PC \ {"run", "acting"} /\ "other" \in Kind /\ NoJob \in Nat
    BY DEF PC, Kind, NoJob
  <2> QED
    BY <1>3, <1>4, <2>1, QuietServe, QuietReturn, SavesSettle, Basics
<1>6. queue' = q /\ (disk' = q \/ disk' = disk)
  BY <1>3 DEF SaveOk, SaveErr
<1>7. /\ Good(queue)' /\ Good(disk)'
      /\ Fenced(queue, lastActor, lastEpoch)'
      /\ Fenced(disk, lastActor, lastEpoch)'
  BY <1>4, <1>5, SettleKeeps
<1>8. TypeRest'
  <2>1. doubt \subseteq {"action", "cleanup"} /\ touched \in Nat
    BY DEF IInv, TypeRest
  <2>2. touched' \in Nat
    BY <2>1
  <2>3. doubt' \subseteq {"action", "cleanup"}
    BY <2>1, Zenon
  <2> QED
    BY <1>5, <2>2, <2>3 DEF IInv, TypeRest, QuietThreads, Settle
<1>9. ThreadInv'
  <2>1. ~(pc'[t] \in {"run", "acting"})
    BY <1>3 DEF Serve, Return, IInv, TypeRest
  <2>2. \A u \in Thread : ~(pc'[u] \in {"run", "acting"})
    BY <1>5, <2>1 DEF QuietThreads, IInv, ThreadInv, Exclusive, Holds
  <2>3. ASSUME NEW u \in Thread PROVE Accepted(u)'
    BY <1>5, <1>6 DEF Accepted, QuietThreads
  <2> QED
    BY <2>2, <2>3 DEF ThreadInv, Exclusive, Holds, CleanStart
<1>10. NativeInv'
  <2>1. Closed(disk) /\ ~("action" \in doubt)
    BY <1>1 DEF Running, Closed, IInv, NativeInv
  <2>2. b \/ HasOwner(queue) => Closed(q)
    BY <1>2 DEF Closed, HasOwner, Owns
  <2>3. HandoverClean'
    BY <1>1, <1>2, <1>6 DEF Running, HandoverClean, IInv, NativeInv, Owns
  <2>4. ASSUME "action" \in doubt' PROVE queue'.blocked /\ Closed(disk')
    <3>1. b
      BY <2>1, <2>4
    <3> QED
      BY <1>2, <1>6, <2>1, <2>2, <3>1
  <2> QED
    BY <1>6, <2>1, <2>2, <2>3, <2>4 DEF NativeInv
<1> QED
  BY <1>7, <1>8, <1>9, <1>10 DEF IInv

\* Every way an action ends.
LEMMA EndsStep ==
  ASSUME IInv, NEW t \in Thread,
         StartFails(t) \/ Refused(t) \/ EndCertain(t) \/ EndUncertain(t)
  PROVE  IInv'
<1>1. Holds(t) /\ Running(t) /\ host \in Nat /\ NoHost \in Nat
  BY Basics DEF StartFails, Refused, EndCertain, EndUncertain, Holds, IInv,
                ThreadInv, NoHost
<1>2. TRUE \in BOOLEAN /\ FALSE \in BOOLEAN
  OBVIOUS
<1>3. req[t].job # NoJob => HasOwner(queue)
  BY <1>1 DEF Running, HasOwner
<1>4. CASE StartFails(t)
  BY <1>1, <1>2, <1>4, EndActionStep DEF StartFails, history
<1>5. CASE Refused(t)
  <2>1. touched # 0 => HasOwner(queue)
    BY <1>3, <1>5 DEF Refused, IInv, ThreadInv, CleanStart
  <2> QED
    BY <1>1, <1>2, <1>5, <2>1, EndActionStep DEF Refused, history
<1>6. CASE EndCertain(t)
  <2>1. host' \in Nat
    BY <1>1, <1>6 DEF EndCertain
  <2>2. touched' = (IF touched = Bare THEN 0 ELSE touched)
    BY <1>6 DEF EndCertain
  <2>3. touched' # 0 => HasOwner(queue)
    <3>1. InAction(t)
      BY <1>6 DEF EndCertain, IInv, ThreadInv
    <3> QED
      BY <1>3, <2>2, <3>1 DEF InAction
  <2> QED
    BY <1>1, <1>2, <1>6, <2>1, <2>2, <2>3, EndActionStep DEF EndCertain
<1>7. CASE EndUncertain(t)
  <2>1. host' \in Nat
    BY <1>1, <1>7 DEF EndUncertain
  <2> QED
    BY <1>1, <1>2, <1>7, <2>1, EndActionStep DEF EndUncertain
<1> QED
  BY <1>4, <1>5, <1>6, <1>7

-----------------------------------------------------------------------------
(* The environment.                                                        *)

LEMMA LapseStep ==
  ASSUME IInv, Lapse
  PROVE  IInv'
<1>1. PICK i \in DOMAIN queue.jobs :
        queue' = [queue EXCEPT !.jobs[i].lapsed = TRUE]
  BY DEF Lapse
<1> DEFINE f == [queue.jobs EXCEPT ![i] = [queue.jobs[i] EXCEPT !.lapsed = TRUE]]
<1>2. queue.jobs[i] \in Job /\ queue.jobs \in [1..Len(queue.jobs) -> Job]
  BY Basics, JobsFun
<1>3. f \in [1..Len(queue.jobs) -> Job]
  BY <1>2 DEF Job
<1>4. \A k \in DOMAIN queue.jobs :
        f[k].epoch = queue.jobs[k].epoch /\ f[k].state = queue.jobs[k].state
  <2> SUFFICES ASSUME NEW k \in DOMAIN queue.jobs
               PROVE  /\ f[k].epoch = queue.jobs[k].epoch
                      /\ f[k].state = queue.jobs[k].state
    OBVIOUS
  <2>1. queue.jobs[k] \in Job
    BY Basics, JobsFun
  <2> QED
    BY <1>2, <2>1 DEF Job
<1> DEFINE q == [queue EXCEPT !.jobs = f]
<1>5. queue' = q
  BY <1>1, Basics DEF Queue
<1> HIDE DEF f
<1>6. f \in Seq(Job) /\ Len(f) = Len(queue.jobs) /\ DOMAIN f = DOMAIN queue.jobs
  BY <1>3, Basics, FunIsSeq
<1>7. /\ q \in Queue /\ q.jobs = f /\ q.epoch = queue.epoch
      /\ q.inFlight = queue.inFlight /\ q.blocked = queue.blocked
  BY <1>6, Basics DEF Queue
<1> HIDE DEF q
<1>8. Mild(queue, q) /\ Len(q.jobs) <= MaxJobs
  BY <1>4, <1>6, <1>7, Basics DEF Mild, Owns
<1>9. /\ disk' = disk /\ failures' = failures /\ UNCHANGED threads
      /\ UNCHANGED <<host, touched, doubt, lastEpoch, lastActor, crashes, acked>>
  BY DEF Lapse, history
<1>10. Settle(q)
  BY <1>5, <1>9, Basics DEF Settle
<1>11. QuietThreads(q)
  BY <1>6, <1>7, <1>9, QuietStutter
<1>12. crashes' \in 0..MaxCrashes /\ acked' \subseteq Submission
  BY <1>9, Basics
<1> QED
  BY <1>7, <1>8, <1>9, <1>10, <1>11, <1>12, MildStep

LEMMA RestartStep ==
  ASSUME IInv, Restart
  PROVE  IInv'
<1> DEFINE q == Opened(disk)
<1>1. disk \in Queue /\ Good(disk) /\ Fenced(disk, lastActor, lastEpoch)
  BY DEF IInv, Good
<1>2. /\ q \in Queue /\ q.jobs = disk.jobs /\ q.epoch = disk.epoch
      /\ Closed(disk) => q.blocked
  <2>1. CASE disk.inFlight \/ HasOwner(disk)
    BY <1>1, <2>1 DEF Opened, Queue
  <2>2. CASE ~(disk.inFlight \/ HasOwner(disk))
    BY <1>1, <2>2 DEF Opened, Closed
  <2> QED
    BY <2>1, <2>2
<1>3. queue' = q /\ disk' = q
  BY DEF Restart
<1> HIDE DEF q
<1>4. Good(q) /\ Fenced(q, lastActor, lastEpoch)
  BY <1>1, <1>2 DEF Good, Fenced, OneOwnerIn, Owns
<1>5. /\ Good(queue)' /\ Good(disk)'
      /\ Fenced(queue, lastActor, lastEpoch)'
      /\ Fenced(disk, lastActor, lastEpoch)'
  BY <1>3, <1>4 DEF Restart
<1>6. TypeRest'
  <2>1. pc' \in [Thread -> PC]
    BY DEF Restart, PC
  <2>2. req' \in [Thread -> Request]
    BY DEF Restart, NoRequest, Request, Kind, NoJob
  <2>3. crashes' \in 0..MaxCrashes
    BY Basics, BoundsAssumption DEF Restart
  <2>4. doubt' \subseteq {"action", "cleanup"}
    BY DEF Restart, IInv, TypeRest
  <2> QED
    BY <2>1, <2>2, <2>3, <2>4 DEF Restart, IInv, TypeRest, NoHost
<1>7. ThreadInv'
  BY DEF Restart, ThreadInv, Exclusive, Holds, Accepted, CleanStart
<1>8. NativeInv'
  <2>1. ASSUME "action" \in doubt' PROVE q.blocked
    <3>1. Closed(disk)
      BY <2>1 DEF Restart, IInv, NativeInv
    <3> QED
      BY <1>2, <3>1
  <2>2. touched' = 0
    BY DEF Restart
  <2> QED
    BY <1>3, <2>1, <2>2 DEF NativeInv, HandoverClean, Closed
<1> QED
  BY <1>5, <1>6, <1>7, <1>8 DEF IInv

-----------------------------------------------------------------------------
(* The specification.                                                      *)

LEMMA InitIInv == Init => IInv
<1> SUFFICES ASSUME Init PROVE IInv
  OBVIOUS
<1>1. /\ EmptyQueue \in Queue /\ EmptyQueue.jobs = <<>>
      /\ EmptyQueue.epoch = 0 /\ EmptyQueue.blocked = FALSE
  BY DEF EmptyQueue, Queue
<1>2. DOMAIN EmptyQueue.jobs = {} /\ Len(EmptyQueue.jobs) = 0
  BY <1>1
<1>3. Good(EmptyQueue) /\ Fenced(EmptyQueue, 0, 0)
  BY <1>1, <1>2, BoundsAssumption DEF Good, Fenced, OneOwnerIn
<1>4. TypeRest
  BY BoundsAssumption DEF Init, TypeRest, PC, NoRequest, Request, Kind, NoJob, NoHost
<1>5. ThreadInv
  BY DEF Init, ThreadInv, Exclusive, Holds, Accepted, CleanStart
<1>6. NativeInv
  BY DEF Init, NativeInv, HandoverClean
<1> QED
  BY <1>3, <1>4, <1>5, <1>6 DEF Init, IInv, NoJob

LEMMA NextIInv == IInv /\ [Next]_vars => IInv'
<1> SUFFICES ASSUME IInv, [Next]_vars PROVE IInv'
  OBVIOUS
<1> DOMAIN queue.jobs \subseteq DOMAIN queue.jobs
  OBVIOUS
<1>1. ASSUME NEW t \in Thread, Arrive(t) PROVE IInv'
  <2>1. QuietThreads(queue)
    BY <1>1, QuietGoto, QuietReturn DEF Arrive
  <2> QED
    BY <1>1, <2>1, ReconcileStep, Basics DEF Arrive
<1>2. ASSUME NEW t \in Thread, Command(t) PROVE IInv'
  BY <1>2, SubmitStep, FinishStep, MaintenanceStep, PlainStep, RecoverStep
     DEF Command
<1>3. ASSUME NEW t \in Thread, Action(t) PROVE IInv'
  BY <1>3, BeginStep, ActStep, EndsStep DEF Action
<1>4. ASSUME NEW t \in Thread, Post(t) PROVE IInv'
  <2>1. QuietThreads(queue)
    BY <1>4, QuietGoto, QuietReturn DEF Post
  <2>2. acked' \subseteq Submission
    <3>1. ASSUME req[t].kind = "submit" PROVE queue.jobs[req[t].job].sub \in Submission
      <4>1. req[t].job \in DOMAIN queue.jobs
        BY <1>4, <3>1 DEF Post, IInv, ThreadInv, Accepted
      <4> QED
        BY <4>1, Basics, JobsFun DEF Job
    <3> QED
      BY <1>4, <3>1, Basics DEF Post
  <2> QED
    BY <1>4, <2>1, <2>2, ReconcileStep DEF Post
<1>5. CASE Reaper
  BY <1>5, QuietStutter, ReconcileStep, Basics DEF Reaper
<1>6. CASE UNCHANGED vars
  <2>1. /\ queue' = queue /\ disk' = disk /\ failures' = failures
        /\ UNCHANGED <<host, touched, doubt, lastEpoch, lastActor, crashes, acked>>
        /\ UNCHANGED threads
    BY <1>6 DEF vars, mem, history
  <2>2. QuietThreads(queue) /\ Settle(queue)
    BY <2>1, QuietStutter, Basics DEF Settle
  <2> QED
    BY <2>1, <2>2, Basics, MildStep
<1> QED
  BY <1>1, <1>2, <1>3, <1>4, <1>5, <1>6, LapseStep, RestartStep DEF Next

\* The inductive invariant holds of every behaviour.
THEOREM Invariance == Spec => []IInv
  BY InitIInv, NextIInv, PTL DEF Spec

\* Type correctness: the handlers of desktop.rs keep the queue well formed,
\* in memory and in the file.
THEOREM TypeCorrect == Spec => []TypeOK
<1>1. IInv => TypeOK
  BY DEF IInv, TypeRest, Good, TypeOK
<1> QED
  BY <1>1, Invariance, PTL

\* At most one session owns the desktop, in memory and in the file.
THEOREM Ownership == Spec => []OneOwner
<1>1. IInv => OneOwner
  BY DEF IInv, Good, OneOwner
<1> QED
  BY <1>1, Invariance, PTL

\* An action between begin() and end() runs alone, for the session that owns
\* the desktop, with its in-flight mark in the file.
THEOREM ActingForOwner == Spec => []ActingOwns
<1>1. ASSUME IInv PROVE ActingOwns
  <2> SUFFICES ASSUME NEW t \in Thread, Holds(t)
               PROVE  /\ \A u \in Thread : Holds(u) => u = t
                      /\ queue.inFlight /\ disk.inFlight /\ ~queue.blocked
                      /\ IF req[t].job = NoJob THEN ~HasOwner(queue)
                         ELSE IsOwner(queue, req[t].job)
    BY DEF ActingOwns
  <2>1. Running(t) /\ \A u \in Thread : Holds(u) => u = t
    BY <1>1 DEF IInv, ThreadInv, Exclusive
  <2>2. req[t].job # NoJob => IsOwner(queue, req[t].job)
    BY <1>1, <2>1, Basics, OwnerUnique DEF Running
  <2> QED
    BY <2>1, <2>2 DEF Running
<1> QED
  BY <1>1, Invariance, PTL

\* A computer-use call runs in a host of its own session.
THEOREM CallsInOwnHost == Spec => []OwnHost
<1>1. IInv => OwnHost
  BY DEF IInv, ThreadInv, InAction, OwnHost
<1> QED
  BY <1>1, Invariance, PTL

\* What a session did to the desktop is cleaned up before the next one owns it.
THEOREM CleanHandover == Spec => []HandoverClean
<1>1. IInv => HandoverClean
  BY DEF IInv, NativeInv
<1> QED
  BY <1>1, Invariance, PTL

\* A doubtful outcome of an action quarantines the desktop until recovery,
\* whatever saves fail and whenever the process dies.
THEOREM DoubtQuarantines == Spec => []Quarantined
<1>1. IInv => Quarantined
  BY DEF IInv, NativeInv, Quarantined
<1> QED
  BY <1>1, Invariance, PTL

\* Session actions are fenced by strictly growing epochs.
THEOREM Fencing == Spec => EpochFences
<1>1. ASSUME IInv, [Next]_vars PROVE [lastActor' # lastActor => lastEpoch' > lastEpoch]_vars
  <2> SUFFICES ASSUME lastActor' # lastActor PROVE lastEpoch' > lastEpoch
    OBVIOUS
  <2>1. ASSUME NEW t \in Thread, Act(t) PROVE lastEpoch' > lastEpoch
    <3>1. req[t].job # NoJob
      BY <2>1 DEF Act
    <3>2. Running(t)
      BY <1>1, <2>1 DEF Act, IInv, ThreadInv, Holds
    <3> QED
      BY <1>1, <2>1, <3>1, <3>2 DEF Act, Running, IInv, Fenced
  <2>2. PICK t \in Thread : Act(t)
    BY <1>1 DEF Next, Arrive, Command, Action, Post, Reaper, Lapse, Restart,
      ReconcileOk, ReconcileErr, NativeUnchanged, HostClosed, HostCloseFailed,
      Submit, Resubmit, Renew, Finish, Maintenance, Get, Recover, Reject, Begin,
      StartFails, Refused, EndCertain, EndUncertain, vars, history
  <2> QED
    BY <2>1, <2>2
<1> QED
  BY <1>1, Invariance, PTL DEF Spec, EpochFences

-----------------------------------------------------------------------------
(* What every handler does to the list of jobs, and what the file has of   *)
(* it: needed for durability and for the order of the sessions.            *)

\* r continues q: no job is lost, none goes back to waiting, and none becomes
\* an owner (that is left to promote()).
Onward(q, r) ==
  /\ DOMAIN q.jobs \subseteq DOMAIN r.jobs
  /\ \A i \in DOMAIN q.jobs :
       /\ r.jobs[i].sub = q.jobs[i].sub
       /\ Queued(r, i) => Queued(q, i)
       /\ Owns(r, i) => Owns(q, i)
  /\ \A i \in DOMAIN r.jobs : i \notin DOMAIN q.jobs => ~Owns(r, i)

\* A step that makes q of the queue, perhaps promotes, and saves or not.
Moves(q) ==
  /\ q \in Queue /\ Onward(queue, q)
  /\ queue' = q \/ (CanPromote(q) /\ queue' = Promoted(q))
  /\ disk' = disk \/ disk' = q \/ disk' = queue'
  /\ failures' = failures \/ failures' = failures + 1
  /\ failures' = failures =>
       \/ disk' = queue'
       \/ /\ disk' = disk /\ queue' = q /\ q.blocked = queue.blocked
          /\ DOMAIN q.jobs = DOMAIN queue.jobs

\* Only desktop.recover lifts a quarantine; a failed cleanup makes one.
Doubts(q) ==
  /\ queue.blocked => q.blocked \/ doubt' = {}
  /\ "cleanup" \in doubt' =>
       \/ "cleanup" \in doubt
       \/ q.blocked /\ (failures' = failures => disk' = queue')

\* The file is an earlier queue: it has no job that the memory does not have,
\* and a job that still waits in memory waits in the file.
Behind ==
  /\ DOMAIN disk.jobs \subseteq DOMAIN queue.jobs
  /\ \A i \in DOMAIN disk.jobs : Queued(queue, i) => Queued(disk, i)

\* As long as no save has failed, the file has every job, and the quarantine.
Saved ==
  /\ \A i \in DOMAIN queue.jobs :
       i \in DOMAIN disk.jobs /\ disk.jobs[i].sub = queue.jobs[i].sub
  /\ AckedDurable
  /\ "cleanup" \in doubt => queue.blocked /\ disk.blocked

KeptInv == Behind /\ (failures = 0 => Saved)

\* promote() starts the first waiting job and changes no other.
LEMMA PromotedJobs ==
  ASSUME NEW q \in Queue
  PROVE  /\ DOMAIN Promoted(q).jobs = DOMAIN q.jobs
         /\ Promoted(q).maint = q.maint
         /\ \A i \in DOMAIN q.jobs :
              /\ Promoted(q).jobs[i].sub = q.jobs[i].sub
              /\ Queued(Promoted(q), i) <=> Queued(q, i) /\ ~IsNext(q, i)
              /\ Owns(Promoted(q), i) => Owns(q, i) \/ IsNext(q, i)
<1> DEFINE f == [i \in DOMAIN q.jobs |->
                   IF IsNext(q, i)
                   THEN [q.jobs[i] EXCEPT !.state = "active",
                                          !.epoch = q.epoch + 1,
                                          !.lapsed = FALSE]
                   ELSE q.jobs[i]]
           r == Promoted(q)
<1>1. r = [q EXCEPT !.epoch = q.epoch + 1, !.jobs = f]
  BY DEF Promoted
<1> HIDE DEF f
<1>2. r.jobs = f /\ r.maint = q.maint
  BY <1>1 DEF Queue
<1>3. DOMAIN f = DOMAIN q.jobs
  BY DEF f
<1>4. ASSUME NEW i \in DOMAIN q.jobs
      PROVE  /\ f[i].sub = q.jobs[i].sub
             /\ f[i].state = IF IsNext(q, i) THEN "active" ELSE q.jobs[i].state
  <2>1. q.jobs[i] \in Job
    BY JobsFun
  <2> QED
    BY <2>1 DEF f, Job
<1> QED
  BY <1>2, <1>3, <1>4 DEF Queued, Owns

\* The ways in which a handler saves.
LEMMA SavesMove ==
  ASSUME IInv, NEW q \in Queue, Onward(queue, q),
         \/ SaveOk(q) \/ SaveErr(q) \/ SavePromoteOk(q) \/ SavePromoteErr(q)
         \/ (PromoteOk(q) \/ PromoteErr(q)) /\ q = queue
  PROVE  Moves(q)
<1> USE DEF Moves
<1>1. CASE SaveOk(q)
  BY <1>1 DEF SaveOk
<1>2. CASE SaveErr(q)
  BY <1>2, Basics DEF SaveErr, SaveFails
<1>3. CASE SavePromoteOk(q)
  BY <1>3 DEF SavePromoteOk, SaveOk
<1>4. CASE SavePromoteErr(q)
  BY <1>4, Basics DEF SavePromoteErr, SaveErr, SaveFails
<1>5. CASE PromoteOk(q) /\ q = queue
  BY <1>5 DEF PromoteOk, SaveOk
<1>6. CASE PromoteErr(q) /\ q = queue
  BY <1>6, Basics DEF PromoteErr, SaveErr, SaveFails
<1> QED
  BY <1>1, <1>2, <1>3, <1>4, <1>5, <1>6

\* A queue with the same jobs.
LEMMA SameJobs ==
  ASSUME NEW q, q.jobs = queue.jobs
  PROVE  Onward(queue, q)
BY DEF Onward, Queued, Owns

\* Steps that leave the queue and the file alone.
LEMMA StillMoves ==
  ASSUME IInv, UNCHANGED <<queue, disk, failures>>
  PROVE  Moves(queue)
BY SameJobs, Basics DEF Moves

\* Ending the session of the owner, or draining it, goes onward.
LEMMA OwnerToOnward ==
  ASSUME NEW q \in Queue, NEW s \in {"draining", "interrupted"}, NEW b \in BOOLEAN
  PROVE  /\ OwnerTo(q, s, b) \in Queue /\ Onward(q, OwnerTo(q, s, b))
         /\ OwnerTo(q, s, b).blocked = b
<1> DEFINE f == [i \in DOMAIN q.jobs |->
                   IF IsOwner(q, i) THEN [q.jobs[i] EXCEPT !.state = s]
                                    ELSE q.jobs[i]]
           r == OwnerTo(q, s, b)
<1>1. ASSUME NEW i \in DOMAIN q.jobs
      PROVE  /\ f[i] \in Job /\ f[i].sub = q.jobs[i].sub
             /\ f[i].state = IF IsOwner(q, i) THEN s ELSE q.jobs[i].state
  <2>1. q.jobs[i] \in Job /\ s \in JobState
    BY JobsFun DEF JobState
  <2> QED
    BY <2>1 DEF Job
<1>2. f \in [DOMAIN q.jobs -> Job] /\ DOMAIN f = DOMAIN q.jobs
  BY <1>1
<1>3. r = [q EXCEPT !.blocked = b, !.jobs = f]
  BY DEF OwnerTo
<1>4. f \in Seq(Job)
  BY <1>2, JobsFun, FunIsSeq
<1> HIDE DEF f
<1>5. r \in Queue /\ r.jobs = f /\ r.blocked = b
  BY <1>3, <1>4 DEF Queue
<1>6. Onward(q, r)
  BY <1>1, <1>2, <1>5 DEF Onward, Queued, Owns, IsOwner
<1> QED
  BY <1>5, <1>6

LEMMA CleanedUpOnward ==
  ASSUME NEW q, Good(q)
  PROVE  /\ CleanedUp(q) \in Queue /\ Onward(q, CleanedUp(q))
         /\ CleanedUp(q).blocked = q.blocked
<1> DEFINE s(i) == IF q.jobs[i].lapsed THEN "expired" ELSE "completed"
           f == [i \in DOMAIN q.jobs |->
                   IF IsOwner(q, i) THEN [q.jobs[i] EXCEPT !.state = s(i)]
                                    ELSE q.jobs[i]]
           r == CleanedUp(q)
<1>0. q \in Queue
  BY DEF Good
<1>1. ASSUME NEW i \in DOMAIN q.jobs
      PROVE  /\ f[i].sub = q.jobs[i].sub
             /\ f[i].state = IF IsOwner(q, i) THEN s(i) ELSE q.jobs[i].state
  <2>1. q.jobs[i] \in Job
    BY <1>0, JobsFun
  <2> QED
    BY <2>1 DEF Job
<1>2. DOMAIN f = DOMAIN q.jobs
  OBVIOUS
<1>3. r = [q EXCEPT !.jobs = f]
  BY DEF CleanedUp
<1>4. r \in Queue /\ r.blocked = q.blocked
  BY CleanedUpEffect
<1> HIDE DEF f
<1>5. r.jobs = f
  BY <1>0, <1>3 DEF Queue
<1>6. Onward(q, r)
  BY <1>1, <1>2, <1>5 DEF Onward, Queued, Owns
<1> QED
  BY <1>4, <1>6

\* reconcile_desktop().
LEMMA ReconcileMoves ==
  ASSUME IInv, ReconcileOk \/ ReconcileErr
  PROVE  \E q : Moves(q) /\ Doubts(q)
<1>0. queue \in Queue /\ Good(queue)
  BY Basics
<1>1. CASE NativeUnchanged /\ Moves(queue)
  BY <1>1 DEF NativeUnchanged, Doubts
<1>2. CASE HostClosed /\ Moves(CleanedUp(queue))
  <2>1. CleanedUp(queue).blocked = queue.blocked
    BY <1>0, CleanedUpOnward
  <2> QED
    BY <1>2, <2>1 DEF HostClosed, Doubts
<1>3. CASE HostCloseFailed /\ (SaveOk(CleanupFailed(queue)) \/ SaveErr(CleanupFailed(queue)))
  <2> DEFINE q == CleanupFailed(queue)
  <2>1. q \in Queue /\ Onward(queue, q) /\ q.blocked
    BY <1>0, OwnerToOnward DEF CleanupFailed
  <2> HIDE DEF q
  <2>2. SaveOk(q) \/ SaveErr(q)
    BY <1>3 DEF q
  <2>3. failures' = failures => disk' = queue'
    BY <2>2, Basics DEF SaveOk, SaveErr, SaveFails
  <2>4. Moves(q)
    BY <2>1, <2>2, SavesMove
  <2> QED
    BY <2>1, <2>3, <2>4 DEF Doubts
<1>4. Onward(queue, queue) /\ CleanedUp(queue) \in Queue /\ Onward(queue, CleanedUp(queue))
  BY <1>0, SameJobs, CleanedUpOnward
<1>5. CASE ReconcileOk
  <2>1. CASE NativeUnchanged /\ UNCHANGED <<queue, disk, failures>>
    BY <1>1, <2>1, StillMoves
  <2>2. CASE NativeUnchanged /\ PromoteOk(queue)
    BY <1>0, <1>1, <1>4, <2>2, SavesMove
  <2>3. CASE HostClosed /\ SavePromoteOk(CleanedUp(queue))
    BY <1>2, <1>4, <2>3, SavesMove
  <2> QED
    BY <1>5, <2>1, <2>2, <2>3 DEF ReconcileOk
<1>6. CASE ReconcileErr
  <2>1. CASE NativeUnchanged /\ PromoteErr(queue)
    BY <1>0, <1>1, <1>4, <2>1, SavesMove
  <2>2. CASE HostClosed /\ SavePromoteErr(CleanedUp(queue))
    BY <1>2, <1>4, <2>2, SavesMove
  <2>3. CASE HostCloseFailed /\ (SaveOk(CleanupFailed(queue)) \/ SaveErr(CleanupFailed(queue)))
    BY <1>3, <2>3
  <2> QED
    BY <1>6, <2>1, <2>2, <2>3 DEF ReconcileErr
<1> QED
  BY <1>5, <1>6

\* A command that saves q and leaves the native state alone.
LEMMA SavedMoves ==
  ASSUME IInv, NEW q \in Queue, Onward(queue, q), queue.blocked => q.blocked,
         SaveOk(q) \/ SaveErr(q) \/ SavePromoteOk(q) \/ SavePromoteErr(q),
         "cleanup" \in doubt' => "cleanup" \in doubt
  PROVE  \E r : Moves(r) /\ Doubts(r)
BY SavesMove DEF Doubts

LEMMA CommandMoves ==
  ASSUME IInv, NEW t \in Thread, Command(t)
  PROVE  \E q : Moves(q) /\ Doubts(q)
<1>0. queue \in Queue /\ Good(queue) /\ Onward(queue, queue)
  BY Basics, SameJobs
<1>1. ASSUME NEW s \in Submission, Submit(t, s) PROVE \E q : Moves(q) /\ Doubts(q)
  <2> DEFINE job == [sub |-> s, state |-> "queued", epoch |-> 0, lapsed |-> TRUE]
             js  == Append(queue.jobs, job)
             q   == [queue EXCEPT !.jobs = js]
             n   == Len(queue.jobs)
  <2>1. queue.jobs \in Seq(Job) /\ n \in Nat /\ DOMAIN queue.jobs = 1..n
    BY <1>0, JobsFun
  <2>2. job \in Job
    BY DEF Job, JobState
  <2>3. /\ js \in Seq(Job) /\ Len(js) = n + 1 /\ js[n + 1] = job
        /\ \A i \in 1..n : js[i] = queue.jobs[i]
    BY <2>1, <2>2, AppendProperties
  <2>4. DOMAIN js = 1..(n + 1)
    BY <2>3, LenProperties
  <2>5. SavePromoteOk(q) \/ SavePromoteErr(q)
    BY <1>1 DEF Submit, SavePromoteAnd
  <2>6. UNCHANGED doubt
    BY <1>1 DEF Submit, history
  <2> HIDE DEF js, n
  <2>7. q \in Queue /\ q.jobs = js /\ q.blocked = queue.blocked
    BY <1>0, <2>3 DEF Queue
  <2> HIDE DEF q
  <2>8. Onward(queue, q)
    <3>1. 1..n \subseteq 1..(n + 1) /\ \A i \in 1..(n + 1) : i \in 1..n \/ i = n + 1
      BY <2>1
    <3> QED
      BY <2>1, <2>3, <2>4, <2>7, <3>1 DEF Onward, Queued, Owns
  <2> QED
    BY <2>5, <2>6, <2>7, <2>8, SavedMoves
<1>2. ASSUME NEW j \in DOMAIN queue.jobs, Finish(t, j) PROVE \E q : Moves(q) /\ Doubts(q)
  <2> DEFINE s == Finished(queue.jobs[j].state)
             f == [i \in DOMAIN queue.jobs |->
                     IF i = j THEN [queue.jobs[i] EXCEPT !.state = s]
                              ELSE queue.jobs[i]]
             q == SetState(queue, j, s)
  <2>1. queue.jobs[j] \in Job /\ queue.jobs[j].state \in JobState
    BY <1>0, JobsFun DEF Job
  <2>2. /\ s \in JobState /\ s # "queued"
        /\ s \in {"active", "draining"} => queue.jobs[j].state \in {"active", "draining"}
    BY <2>1 DEF Finished, JobState
  <2>3. SaveOk(q) \/ SaveErr(q)
    BY <1>2 DEF Finish, SaveAnd
  <2> HIDE DEF s
  <2>4. ASSUME NEW i \in DOMAIN queue.jobs
        PROVE  /\ f[i] \in Job /\ f[i].sub = queue.jobs[i].sub
               /\ f[i].state = IF i = j THEN s ELSE queue.jobs[i].state
    <3>1. queue.jobs[i] \in Job
      BY <1>0, JobsFun
    <3> QED
      BY <2>2, <3>1 DEF Job
  <2>5. f \in [DOMAIN queue.jobs -> Job] /\ DOMAIN f = DOMAIN queue.jobs
    BY <2>4
  <2>6. f \in Seq(Job)
    BY <1>0, <2>5, JobsFun, FunIsSeq
  <2>7. q = [queue EXCEPT !.jobs = f]
    BY DEF SetState
  <2> HIDE DEF f
  <2>8. q \in Queue /\ q.jobs = f /\ q.blocked = queue.blocked
    BY <1>0, <2>6, <2>7 DEF Queue
  <2> HIDE DEF q
  <2>9. Onward(queue, q)
    BY <2>2, <2>4, <2>5, <2>8 DEF Onward, Queued, Owns
  <2>10. UNCHANGED doubt
    BY <1>2 DEF Finish, history
  <2> QED
    BY <2>3, <2>8, <2>9, <2>10, SavedMoves
<1>3. ASSUME NEW o \in Operator, NEW b \in BOOLEAN, Maintenance(t, o, b)
      PROVE  \E q : Moves(q) /\ Doubts(q)
  <2> DEFINE m == IF b THEN o ELSE None
             q == [queue EXCEPT !.maint = m]
  <2>1. m \in Operator \cup {None}
    OBVIOUS
  <2>2. SavePromoteOk(q) \/ SavePromoteErr(q)
    BY <1>3 DEF Maintenance, SavePromoteAnd
  <2> HIDE DEF m
  <2>3. q \in Queue /\ q.jobs = queue.jobs /\ q.blocked = queue.blocked
    BY <1>0, <2>1 DEF Queue
  <2>4. UNCHANGED doubt
    BY <1>3 DEF Maintenance, history
  <2> HIDE DEF q
  <2> QED
    BY <2>2, <2>3, <2>4, SameJobs, SavedMoves
<1>4. CASE Get(t) \/ \E j \in DOMAIN queue.jobs : Renew(t, j)
  BY <1>0, <1>4, SavedMoves DEF Get, Renew, SaveAnd, history
<1>5. CASE Reject(t) \/ \E s \in Submission : Resubmit(t, s)
  BY <1>5, StillMoves DEF Reject, Resubmit, history, mem, Doubts
<1>6. CASE Recover(t)
  <2> DEFINE q == OwnerTo(queue, "interrupted", FALSE)
  <2>1. q \in Queue /\ Onward(queue, q)
    BY <1>0, OwnerToOnward
  <2>2. SavePromoteOk(q) \/ SavePromoteErr(q)
    BY <1>6 DEF Recover, SavePromoteAnd
  <2> HIDE DEF q
  <2>3. Moves(q)
    BY <2>1, <2>2, SavesMove
  <2> QED
    BY <1>6, <2>3 DEF Recover, Doubts
<1> QED
  BY <1>1, <1>2, <1>3, <1>4, <1>5, <1>6 DEF Command

LEMMA ActionMoves ==
  ASSUME IInv, NEW t \in Thread, Action(t)
  PROVE  \E q : Moves(q) /\ Doubts(q)
<1>0. queue \in Queue
  BY Basics
<1>1. ASSUME NEW k \in {"call", "tools", "native"},
             NEW j \in {NoJob} \cup DOMAIN queue.jobs, Begin(t, k, j)
      PROVE  \E q : Moves(q) /\ Doubts(q)
  <2> DEFINE q == [queue EXCEPT !.inFlight = TRUE]
  <2>1. q \in Queue /\ q.jobs = queue.jobs /\ q.blocked = queue.blocked
    BY <1>0 DEF Queue
  <2>2. SaveOk(q) \/ SaveErr(q)
    BY <1>1 DEF Begin, SaveAnd
  <2>3. UNCHANGED doubt
    BY <1>1 DEF Begin, history
  <2> HIDE DEF q
  <2> QED
    BY <2>1, <2>2, <2>3, SameJobs, SavedMoves
<1>2. CASE Act(t)
  BY <1>2, StillMoves DEF Act, Doubts
<1>3. ASSUME NEW u \in BOOLEAN, EndAction(t, u), "cleanup" \in doubt' => "cleanup" \in doubt
      PROVE  \E q : Moves(q) /\ Doubts(q)
  <2> DEFINE b == queue.blocked \/ u
             q == [queue EXCEPT !.inFlight = FALSE, !.blocked = b]
  <2>1. b \in BOOLEAN /\ (queue.blocked => b)
    OBVIOUS
  <2>2. SaveOk(q) \/ SaveErr(q)
    BY <1>3 DEF EndAction
  <2> HIDE DEF b
  <2>3. q \in Queue /\ q.jobs = queue.jobs /\ q.blocked = b
    BY <1>0, <2>1 DEF Queue
  <2> HIDE DEF q
  <2> QED
    BY <1>3, <2>1, <2>2, <2>3, SameJobs, SavedMoves
<1>4. CASE StartFails(t) \/ Refused(t) \/ EndCertain(t) \/ EndUncertain(t)
  BY <1>3, <1>4 DEF StartFails, Refused, EndCertain, EndUncertain, history
<1> QED
  BY <1>1, <1>2, <1>4 DEF Action

LEMMA LapseMoves ==
  ASSUME IInv, Lapse
  PROVE  \E q : Moves(q) /\ Doubts(q)
<1>1. PICK i \in DOMAIN queue.jobs : queue' = [queue EXCEPT !.jobs[i].lapsed = TRUE]
  BY DEF Lapse
<1> DEFINE f == [queue.jobs EXCEPT ![i] = [queue.jobs[i] EXCEPT !.lapsed = TRUE]]
           q == [queue EXCEPT !.jobs = f]
<1>2. queue \in Queue /\ queue.jobs[i] \in Job /\ queue.jobs \in [1..Len(queue.jobs) -> Job]
  BY Basics, JobsFun
<1>3. f \in [1..Len(queue.jobs) -> Job] /\ DOMAIN f = DOMAIN queue.jobs
  BY <1>2 DEF Job
<1>4. ASSUME NEW k \in DOMAIN queue.jobs
      PROVE  f[k].sub = queue.jobs[k].sub /\ f[k].state = queue.jobs[k].state
  <2>1. queue.jobs[k] \in Job
    BY Basics, JobsFun
  <2> QED
    BY <1>2, <2>1 DEF Job
<1>5. queue' = q
  BY <1>1, <1>2 DEF Queue
<1>6. f \in Seq(Job)
  BY <1>3, Basics, FunIsSeq
<1> HIDE DEF f
<1>7. q \in Queue /\ q.jobs = f /\ q.blocked = queue.blocked
  BY <1>2, <1>6 DEF Queue
<1> HIDE DEF q
<1>8. Onward(queue, q) /\ DOMAIN q.jobs = DOMAIN queue.jobs
  BY <1>3, <1>4, <1>7 DEF Onward, Queued, Owns
<1>9. UNCHANGED <<disk, failures, doubt>>
  BY DEF Lapse, history
<1>10. Moves(q) /\ Doubts(q)
  BY <1>5, <1>7, <1>8, <1>9 DEF Moves, Doubts
<1> QED
  BY <1>10

\* Every step but a restart moves the queue onward.
LEMMA NextMoves ==
  ASSUME IInv, [Next]_vars, ~Restart
  PROVE  \E q : Moves(q) /\ Doubts(q)
<1>1. ASSUME NEW t \in Thread, Arrive(t) \/ Post(t) PROVE \E q : Moves(q) /\ Doubts(q)
  BY <1>1, ReconcileMoves DEF Arrive, Post
<1>2. CASE UNCHANGED vars
  BY <1>2, StillMoves DEF vars, mem, history, Doubts
<1>3. CASE Reaper
  BY <1>3, ReconcileMoves DEF Reaper
<1> QED
  BY <1>1, <1>2, <1>3, CommandMoves, ActionMoves, LapseMoves DEF Next

\* open() keeps the jobs of the file, and its quarantine.
LEMMA OpenedJobs ==
  ASSUME NEW d \in Queue
  PROVE  /\ Opened(d).jobs = d.jobs
         /\ d.blocked => Opened(d).blocked
         /\ ~d.inFlight /\ ~HasOwner(d) => Opened(d) = d
BY DEF Opened, Queue

\* A submission is acknowledged when it is in the queue.
LEMMA AckedQueued ==
  ASSUME IInv, [Next]_vars, NEW s \in acked', s \notin acked
  PROVE  \E i \in DOMAIN queue.jobs : queue.jobs[i].sub = s
<1>1. PICK t \in Thread : Post(t) /\ req[t].kind = "submit"
                          /\ s = queue.jobs[req[t].job].sub
  BY DEF Next, Arrive, Command, Action, Post, Reaper, Lapse, Restart, Submit,
    Resubmit, Renew, Finish, Maintenance, Get, Recover, Reject, Begin, Act,
    StartFails, Refused, EndCertain, EndUncertain, vars, history
<1>2. req[t].job \in DOMAIN queue.jobs
  BY <1>1 DEF Post, IInv, ThreadInv, Accepted
<1> QED
  BY <1>1, <1>2

LEMMA BehindStep ==
  ASSUME IInv, Behind, [Next]_vars
  PROVE  Behind'
<1>1. CASE Restart
  <2>1. queue'.jobs = disk.jobs /\ disk'.jobs = disk.jobs
    BY <1>1, OpenedJobs DEF Restart, IInv, Good
  <2> QED
    BY <2>1 DEF Behind, Queued
<1>2. CASE ~Restart
  <2>1. PICK q : Moves(q)
    BY <1>2, NextMoves
  <2>2. q \in Queue /\ Onward(queue, q)
    BY <2>1 DEF Moves
  <2>3. /\ DOMAIN queue'.jobs = DOMAIN q.jobs
        /\ \A i \in DOMAIN q.jobs : Queued(queue', i) => Queued(q, i)
    BY <2>1, <2>2, PromotedJobs DEF Moves
  <2>4. CASE disk' = disk
    BY <2>2, <2>3, <2>4 DEF Behind, Onward
  <2>5. CASE disk' = q \/ disk' = queue'
    BY <2>3, <2>5 DEF Behind
  <2> QED
    BY <2>1, <2>4, <2>5 DEF Moves
<1> QED
  BY <1>1, <1>2

LEMMA SavedStep ==
  ASSUME IInv, failures = 0 => Saved, [Next]_vars, failures' = 0
  PROVE  Saved'
<1>1. CASE Restart
  <2>1. Saved /\ UNCHANGED acked /\ ("cleanup" \in doubt' => "cleanup" \in doubt)
    BY <1>1 DEF Restart
  <2>2. /\ queue'.jobs = disk.jobs /\ disk' = queue'
        /\ disk.blocked => queue'.blocked
    BY <1>1, OpenedJobs DEF Restart, IInv, Good
  <2>3. AckedDurable'
    BY <2>1, <2>2 DEF Saved, AckedDurable
  <2> QED
    BY <2>1, <2>2, <2>3 DEF Saved
<1>2. CASE ~Restart
  <2>1. PICK q : Moves(q) /\ Doubts(q)
    BY <1>2, NextMoves
  <2>2. q \in Queue /\ Onward(queue, q)
    BY <2>1 DEF Moves
  <2>3. failures' = failures /\ failures = 0 /\ Saved
    BY <2>1, Basics DEF Moves
  <2>4. /\ DOMAIN queue'.jobs = DOMAIN q.jobs
        /\ \A i \in DOMAIN q.jobs : queue'.jobs[i].sub = q.jobs[i].sub
        /\ q.blocked => queue' = q
    BY <2>1, <2>2, PromotedJobs DEF Moves, CanPromote
  <2>5. /\ DOMAIN queue.jobs \subseteq DOMAIN queue'.jobs
        /\ \A i \in DOMAIN queue.jobs : queue'.jobs[i].sub = queue.jobs[i].sub
    BY <2>2, <2>4 DEF Onward
  <2>6. \/ disk' = queue'
        \/ /\ disk' = disk /\ queue' = q /\ q.blocked = queue.blocked
           /\ DOMAIN q.jobs = DOMAIN queue.jobs
    BY <2>1, <2>3 DEF Moves
  <2>7. \A i \in DOMAIN queue'.jobs :
          i \in DOMAIN disk'.jobs /\ disk'.jobs[i].sub = queue'.jobs[i].sub
    BY <2>3, <2>5, <2>6 DEF Saved
  <2>8. AckedDurable'
    <3> SUFFICES ASSUME NEW s \in acked'
                 PROVE  \E i \in DOMAIN queue'.jobs : queue'.jobs[i].sub = s
      BY DEF AckedDurable
    <3>1. PICK i \in DOMAIN queue.jobs : queue.jobs[i].sub = s
      BY <2>3, AckedQueued DEF Saved, AckedDurable
    <3> QED
      BY <2>5, <3>1
  <2>9. ASSUME "cleanup" \in doubt' PROVE queue'.blocked /\ disk'.blocked
    <3>1. CASE "cleanup" \in doubt
      <4>1. queue.blocked /\ disk.blocked /\ q.blocked
        BY <2>1, <2>3, <2>9, <3>1 DEF Saved, Doubts
      <4> QED
        BY <2>4, <2>6, <4>1
    <3>2. CASE "cleanup" \notin doubt
      BY <2>1, <2>3, <2>4, <2>9, <3>2 DEF Doubts
    <3> QED
      BY <3>1, <3>2
  <2> QED
    BY <2>7, <2>8, <2>9 DEF Saved
<1> QED
  BY <1>1, <1>2

\* The file lags behind the memory by whole commands only, and by none as long
\* as every save() succeeds.
THEOREM FileFollows == Spec => []KeptInv
<1>1. Init => KeptInv
  BY DEF Init, KeptInv, Behind, Saved, AckedDurable, EmptyQueue
<1>2. IInv /\ KeptInv /\ [Next]_vars => KeptInv'
  BY BehindStep, SavedStep DEF KeptInv
<1> QED
  BY <1>1, <1>2, Invariance, PTL DEF Spec

\* While no save() has failed, a submission that was answered is never
\* forgotten, and a desktop whose cleanup failed stays quarantined, over any
\* number of crashes.
THEOREM AnswersSurvive == Spec => []DurableWhileSaved
<1>1. KeptInv => DurableWhileSaved
  BY DEF KeptInv, Saved, DurableWhileSaved, CleanupQuarantined
<1> QED
  BY <1>1, FileFollows, PTL

\* promote() gives the desktop to the job that was submitted first of those
\* that wait; a restart never lets a waiting job own the desktop.
THEOREM FirstComeFirstServed == Spec => Fifo
<1> DEFINE A == \A i \in DOMAIN queue'.jobs :
                  (i \in DOMAIN queue.jobs /\ Queued(queue, i) /\ Owns(queue', i))
                    => \A k \in 1..(i - 1) : ~Queued(queue', k)
<1>1. ASSUME IInv, KeptInv, [Next]_vars PROVE A
  <2> SUFFICES ASSUME NEW i \in DOMAIN queue'.jobs, i \in DOMAIN queue.jobs,
                      Queued(queue, i), Owns(queue', i), NEW k \in 1..(i - 1)
               PROVE  ~Queued(queue', k)
    OBVIOUS
  <2>1. CASE Restart
    <3>1. queue'.jobs = disk.jobs
      BY <1>1, <2>1, OpenedJobs DEF Restart, IInv, Good
    <3>2. Queued(disk, i)
      BY <1>1, <3>1 DEF KeptInv, Behind
    <3> QED
      BY <3>1, <3>2 DEF Queued, Owns
  <2>2. CASE ~Restart
    <3>1. PICK q : Moves(q)
      BY <1>1, <2>2, NextMoves
    <3>2. q \in Queue /\ ~Owns(q, i) /\ i \in DOMAIN q.jobs
      BY <3>1 DEF Moves, Onward, Queued, Owns
    <3>3. queue' = Promoted(q)
      BY <3>1, <3>2 DEF Moves
    <3>4. IsNext(q, i)
      BY <3>2, <3>3, PromotedJobs
    <3>5. k \in DOMAIN q.jobs
      BY <3>2, JobsFun
    <3> QED
      BY <3>2, <3>3, <3>4, <3>5, PromotedJobs DEF IsNext
  <2> QED
    BY <2>1, <2>2
<1>2. IInv /\ KeptInv /\ [Next]_vars => [A]_vars
  BY <1>1
<1> QED
  BY <1>2, Invariance, FileFollows, PTL DEF Spec, Fifo

\* No waiting session owns the desktop, no action runs, and none can begin,
\* while maintenance is at its safe point: only its release ends it.
THEOREM MaintenanceIsSafe == Spec => SafePointHolds
<1> DEFINE Released == \E t \in Thread :
             pc[t] = "ready" /\ pc'[t] # "ready"
             /\ queue' \in {[queue EXCEPT !.maint = None],
                            Promoted([queue EXCEPT !.maint = None])}
           A == SafePoint(queue) /\ SafePoint(disk) /\ ~SafePoint(queue') => Released
<1>1. ASSUME IInv, [Next]_vars PROVE A
  <2> SUFFICES ASSUME SafePoint(queue), SafePoint(disk), ~SafePoint(queue')
               PROVE  Released
    OBVIOUS
  <2>0. queue \in Queue /\ disk \in Queue
    BY <1>1 DEF IInv, Good
  <2>1. queue.maint # None /\ ~queue.blocked /\ ~queue.inFlight /\ ~HasOwner(queue)
    BY DEF SafePoint
  <2>2. ~CanPromote(queue) /\ ~NeedsCleanup(queue) /\ \A t \in Thread : ~Holds(t)
    BY <1>1, <2>1 DEF CanPromote, NeedsCleanup, IsOwner, HasOwner, IInv, ThreadInv, Running
  <2>3. ASSUME NEW q, queue' = q, q.maint = queue.maint, q.blocked = queue.blocked,
               q.inFlight = queue.inFlight, ~HasOwner(q)
        PROVE  FALSE
    BY <2>1, <2>3 DEF SafePoint
  <2>4. queue' # queue
    BY DEF SafePoint
  <2>5. ASSUME ReconcileOk \/ ReconcileErr PROVE FALSE
    BY <2>2, <2>4, <2>5 DEF ReconcileOk, ReconcileErr, PromoteOk, PromoteErr
  <2>6. ASSUME NEW q, ~CanPromote(q), SavePromoteOk(q) \/ SavePromoteErr(q)
        PROVE  queue' = q
    BY <2>6 DEF SavePromoteOk, SavePromoteErr, SaveOk, SaveErr
  <2>7. ASSUME NEW t \in Thread, Command(t) PROVE Released
    <3>1. ASSUME NEW s \in Submission, Submit(t, s) PROVE FALSE
      <4> DEFINE job == [sub |-> s, state |-> "queued", epoch |-> 0, lapsed |-> TRUE]
                 js  == Append(queue.jobs, job)
                 q   == [queue EXCEPT !.jobs = js]
                 n   == Len(queue.jobs)
      <4>1. queue.jobs \in Seq(Job) /\ n \in Nat /\ DOMAIN queue.jobs = 1..n
        BY <2>0, JobsFun
      <4>2. job \in Job
        BY DEF Job, JobState
      <4>3. /\ js \in Seq(Job) /\ Len(js) = n + 1 /\ js[n + 1] = job
            /\ \A i \in 1..n : js[i] = queue.jobs[i]
        BY <4>1, <4>2, AppendProperties
      <4>4. DOMAIN js = 1..(n + 1)
        BY <4>3, LenProperties
      <4>5. SavePromoteOk(q) \/ SavePromoteErr(q)
        BY <3>1 DEF Submit, SavePromoteAnd
      <4> HIDE DEF js, n
      <4>6. /\ q.jobs = js /\ q.maint = queue.maint /\ q.blocked = queue.blocked
            /\ q.inFlight = queue.inFlight
        BY <2>0 DEF Queue
      <4> HIDE DEF q
      <4>7. ~HasOwner(q)
        <5>1. \A i \in 1..(n + 1) : i \in 1..n \/ i = n + 1
          BY <4>1
        <5> QED
          BY <2>1, <4>1, <4>3, <4>4, <4>6, <5>1 DEF HasOwner, Owns
      <4>8. queue' = q
        BY <2>1, <2>6, <4>5, <4>6 DEF CanPromote
      <4> QED
        BY <2>3, <4>6, <4>7, <4>8
    <3>2. ASSUME NEW j \in DOMAIN queue.jobs, Finish(t, j) PROVE FALSE
      <4> DEFINE s == Finished(queue.jobs[j].state)
                 f == [i \in DOMAIN queue.jobs |->
                         IF i = j THEN [queue.jobs[i] EXCEPT !.state = s]
                                  ELSE queue.jobs[i]]
                 q == SetState(queue, j, s)
      <4>1. queue.jobs[j] \in Job /\ queue.jobs[j].state \in JobState
        BY <2>0, JobsFun DEF Job
      <4>2. s \in {"active", "draining"} => queue.jobs[j].state \in {"active", "draining"}
        BY <4>1 DEF Finished, JobState
      <4>3. queue' = q
        BY <3>2 DEF Finish, SaveAnd, SaveOk, SaveErr
      <4>4. q = [queue EXCEPT !.jobs = f]
        BY DEF SetState
      <4> HIDE DEF s
      <4>5. ASSUME NEW i \in DOMAIN queue.jobs
            PROVE  f[i].state = IF i = j THEN s ELSE queue.jobs[i].state
        <5>1. queue.jobs[i] \in Job
          BY <2>0, JobsFun
        <5> QED
          BY <5>1 DEF Job
      <4>6. DOMAIN f = DOMAIN queue.jobs
        OBVIOUS
      <4> HIDE DEF f
      <4>7. /\ q.jobs = f /\ q.maint = queue.maint /\ q.blocked = queue.blocked
            /\ q.inFlight = queue.inFlight
        BY <2>0, <4>4 DEF Queue
      <4> HIDE DEF q
      <4>8. ~HasOwner(q)
        BY <2>1, <4>2, <4>5, <4>6, <4>7 DEF HasOwner, Owns
      <4> QED
        BY <2>3, <4>3, <4>7, <4>8
    <3>3. ASSUME NEW o \in Operator, NEW b \in BOOLEAN, Maintenance(t, o, b)
          PROVE  Released
      <4>1. b = FALSE
        <5> SUFFICES ASSUME b = TRUE PROVE FALSE
          OBVIOUS
        <5> DEFINE q == [queue EXCEPT !.maint = o]
        <5>1. o = queue.maint
          BY <2>1, <3>3 DEF Maintenance
        <5>2. q = queue
          BY <2>0, <5>1 DEF Queue
        <5>3. SavePromoteOk(q) \/ SavePromoteErr(q)
          BY <3>3 DEF Maintenance, SavePromoteAnd
        <5> QED
          BY <2>2, <2>4, <2>6, <5>2, <5>3
      <4> DEFINE q == [queue EXCEPT !.maint = None]
      <4>2. SavePromoteAnd(t, "other", NoJob, q)
        BY <3>3, <4>1 DEF Maintenance
      <4> HIDE DEF q
      <4>3. queue' = q \/ queue' = Promoted(q)
        BY <4>2 DEF SavePromoteAnd, SavePromoteOk, SavePromoteErr, SaveOk, SaveErr
      <4>4. pc \in [Thread -> PC] /\ pc[t] = "ready"
        BY <1>1, <3>3 DEF IInv, TypeRest, Maintenance
      <4>5. pc'[t] # "ready"
        BY <4>2, <4>4 DEF SavePromoteAnd, Serve, Return
      <4> QED
        BY <4>3, <4>4, <4>5 DEF q
    <3>4. ASSUME Get(t) \/ (\E j \in DOMAIN queue.jobs : Renew(t, j)) \/ Reject(t)
                   \/ (\E s \in Submission : Resubmit(t, s))
          PROVE  FALSE
      BY <2>4, <3>4 DEF Get, Renew, SaveAnd, SaveOk, SaveErr, Reject, Resubmit, mem
    <3>5. ASSUME Recover(t) PROVE FALSE
      BY <2>1, <3>5 DEF Recover
    <3> QED
      BY <2>7, <3>1, <3>2, <3>3, <3>4, <3>5 DEF Command
  <2>8. ASSUME NEW t \in Thread, Action(t) PROVE FALSE
    <3>1. ~Holds(t)
      BY <2>2
    <3>2. PICK k \in {"call", "tools", "native"}, j \in {NoJob} \cup DOMAIN queue.jobs :
            Begin(t, k, j)
      BY <2>8, <3>1 DEF Action, Act, StartFails, Refused, EndCertain, EndUncertain, Holds
    <3> QED
      BY <2>1, <3>2 DEF Begin, Admits, IsOwner, HasOwner
  <2>9. ASSUME Restart PROVE FALSE
    BY <2>0, <2>9, OpenedJobs DEF Restart, SafePoint
  <2>10. ASSUME Lapse PROVE FALSE
    BY <2>1, <2>10 DEF Lapse, HasOwner
  <2>11. ASSUME NEW t \in Thread, Arrive(t) \/ Post(t) PROVE FALSE
    BY <2>5, <2>11 DEF Arrive, Post
  <2>12. ASSUME Reaper \/ UNCHANGED vars PROVE FALSE
    BY <2>4, <2>5, <2>12 DEF Reaper, vars, mem
  <2> QED
    BY <1>1, <2>7, <2>8, <2>9, <2>10, <2>11, <2>12 DEF Next
<1>2. IInv /\ [Next]_vars => [A]_vars
  BY <1>1
<1> QED
  BY <1>2, Invariance, PTL DEF Spec, SafePointHolds
=============================================================================
