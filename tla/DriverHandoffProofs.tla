------------------------ MODULE DriverHandoffProofs ------------------------
(***************************************************************************)
(* Machine-checked proofs about DriverHandoff: for any number of agents,   *)
(* calls, leases, handoff requests, failed writes and crashes of either    *)
(* process.                                                                *)
(***************************************************************************)
EXTENDS DriverHandoff, SequenceTheorems, TLAPS

-----------------------------------------------------------------------------
(* The inductive invariant.                                                *)

Requests == {rs \in Seq(Handoff) : \A i \in DOMAIN rs : rs[i].by # rs[i].prev}
File     == [lease: Lease, fence: Nat, requests: Requests, mutations: SUBSET Editor,
             task: [Call -> TaskState \cup {NoTask}]]

\* The types, the Controller's file included.
StoreTypes ==
  /\ lease \in Lease /\ fence \in Nat /\ requests \in Requests
  /\ mutations \subseteq Editor /\ task \in [Call -> TaskState \cup {NoTask}]
  /\ disk \in File /\ failures \in 0..MaxSaveFailures
CallTypes ==
  /\ pc \in [Call -> PC] /\ caller \in [Call -> Agent \cup {Nobody}]
  /\ auth \in [Call -> Lease] /\ cancel \in [Call -> Cancel]
ExecTypes ==
  /\ wire \in [Call -> Wire] /\ stamp \in [Call -> [fence: Nat, expires: Nat, lease: Nat]]
  /\ execFence \in Nat /\ execDisk \in Nat /\ written \in Nat
ClockTypes ==
  /\ now \in 0..MaxTime /\ minted \in 0..MaxTokens /\ known \subseteq 1..minted
  /\ crashes \in 0..MaxCrashes /\ execCrashes \in 0..MaxExecCrashes
  /\ given \in [token: Nat, fence: Nat] /\ late \subseteq Call /\ editing \subseteq Editor
DriverTypes == StoreTypes /\ CallTypes /\ ExecTypes /\ ClockTypes

-----------------------------------------------------------------------------
(* Operators on leases and requests.                                       *)

LEMMA Constants ==
  /\ Editor \subseteq Agent /\ Nobody \notin Agent /\ Cancellable \subseteq Call
  /\ \A ttl \in Ttl : ttl \in Nat /\ ttl > 0
  /\ MaxTokens \in Nat /\ MaxRequests \in Nat /\ MaxTime \in Nat
  /\ MaxSaveFailures \in Nat /\ MaxCrashes \in Nat /\ MaxExecCrashes \in Nat
  /\ NoLease \in Lease /\ NoLease.token = 0
BY DriverAssumption DEF NoLease, Lease

\* A list of requests is a function on 1..Len.
LEMMA RequestsFun ==
  ASSUME NEW rs \in Requests
  PROVE  /\ rs \in Seq(Handoff) /\ Len(rs) \in Nat /\ DOMAIN rs = 1..Len(rs)
         /\ \A i \in DOMAIN rs : rs[i] \in Handoff /\ rs[i].by # rs[i].prev
<1>1. rs \in Seq(Handoff)
  BY DEF Requests
<1>2. Len(rs) \in Nat /\ DOMAIN rs = 1..Len(rs) /\ \A i \in DOMAIN rs : rs[i] \in Handoff
  BY <1>1, LenProperties, ElementOfSeq
<1> QED
  BY <1>1, <1>2 DEF Requests

\* Requests that change in their state only stay requests.
LEMMA RequestsKept ==
  ASSUME NEW rs \in Requests, NEW f, DOMAIN f = DOMAIN rs,
         f = [i \in DOMAIN f |-> f[i]],
         \A i \in DOMAIN rs : f[i] \in Handoff /\ f[i].by = rs[i].by /\ f[i].prev = rs[i].prev
  PROVE  f \in Requests /\ Len(f) = Len(rs)
<1>1. f \in [1..Len(rs) -> Handoff] /\ Len(rs) \in Nat
  BY RequestsFun
<1>2. f \in Seq(Handoff) /\ Len(f) = Len(rs)
  BY <1>1, IsASeq, LenProperties
<1> QED
  BY <1>2, RequestsFun DEF Requests

\* refresh_driver_handoff closes what has expired, and makes ready what
\* waits while nobody is busy.
LEMMA RefreshedFields ==
  ASSUME NEW r \in Handoff, NEW busy \in BOOLEAN, now \in Nat
  PROVE  /\ Refreshed(r, busy) \in Handoff
         /\ Refreshed(r, busy).by = r.by /\ Refreshed(r, busy).prev = r.prev
         /\ Refreshed(r, busy).expires = r.expires
         /\ \/ Refreshed(r, busy).state = r.state
            \/ r.state \in Open /\ Refreshed(r, busy).state = "expired"
            \/ r.state = "draining" /\ Refreshed(r, busy).state = "ready" /\ ~busy
         /\ r.state \in Open /\ r.expires <= now => Refreshed(r, busy).state = "expired"
<1>1. CASE r.state \in Open /\ r.expires <= now
  BY <1>1 DEF Refreshed, Handoff
<1>2. CASE ~(r.state \in Open /\ r.expires <= now)
  BY <1>2 DEF Refreshed, Handoff, Open
<1> QED
  BY <1>1, <1>2

LEMMA RefreshedRequests ==
  ASSUME NEW rs \in Requests, NEW busy \in BOOLEAN, now \in Nat
  PROVE  /\ RefreshedAll(rs, busy) \in Requests
         /\ DOMAIN RefreshedAll(rs, busy) = DOMAIN rs
         /\ \A i \in DOMAIN rs : RefreshedAll(rs, busy)[i] = Refreshed(rs[i], busy)
<1> DEFINE f == RefreshedAll(rs, busy)
<1>1. DOMAIN f = DOMAIN rs /\ \A i \in DOMAIN rs : f[i] = Refreshed(rs[i], busy)
  BY DEF RefreshedAll
<1>2. f = [i \in DOMAIN f |-> f[i]]
  BY DEF RefreshedAll
<1>3. \A i \in DOMAIN rs : f[i] \in Handoff /\ f[i].by = rs[i].by /\ f[i].prev = rs[i].prev
  BY <1>1, RequestsFun, RefreshedFields
<1> HIDE DEF f
<1>4. f \in Requests
  BY <1>1, <1>2, <1>3, RequestsKept
<1> QED
  BY <1>1, <1>4 DEF f

\* Clearing a claim leaves the lease in office.
LEMMA LeaseTo ==
  ASSUME NEW l \in Lease, NEW b \in Agent \cup {Nobody}
  PROVE  /\ [l EXCEPT !.to = b] \in Lease
         /\ [l EXCEPT !.to = b].token = l.token /\ [l EXCEPT !.to = b].fence = l.fence
BY DEF Lease

LEMMA LeaseUntil ==
  ASSUME NEW l \in Lease, NEW e \in Nat
  PROVE  /\ [l EXCEPT !.expires = e] \in Lease
         /\ [l EXCEPT !.expires = e].token = l.token
         /\ [l EXCEPT !.expires = e].fence = l.fence
BY DEF Lease

LEMMA RefreshedLeaseFields ==
  ASSUME NEW l \in Lease, NEW rs
  PROVE  /\ RefreshedLease(l, rs) \in Lease
         /\ RefreshedLease(l, rs).token = l.token /\ RefreshedLease(l, rs).fence = l.fence
BY DEF RefreshedLease, Lease

-----------------------------------------------------------------------------
(* What a step does to the lease, the requests, the reported mutations and *)
(* the tasks.                                                              *)

\* The lease stays, is renewed or handed on, or is given up.
Keeps ==
  /\ lease' \in Lease
  /\ lease' = NoLease \/ (lease'.token = lease.token /\ lease'.fence = lease.fence)
  /\ UNCHANGED <<fence, minted, known, given>>
  /\ PersistOk \/ UNCHANGED disk

\* A new lease: its owner learns of it if it was saved.
Grants ==
  /\ lease' \in Lease /\ lease'.token = minted + 1 /\ lease'.fence = fence + 1
  /\ fence' = fence + 1 /\ minted' = minted + 1 /\ minted < MaxTokens
  /\ \/ /\ PersistOk /\ known' = known \cup {minted + 1}
        /\ given' = [token |-> minted + 1, fence |-> fence + 1]
     \/ UNCHANGED <<disk, known, given>>

\* A request goes on: it closes, or gets ready when nobody is busy.
Later(r, s) ==
  /\ s.by = r.by /\ s.prev = r.prev /\ s.expires = r.expires
  /\ \/ s.state = r.state
     \/ r.state \in Open /\ s.state \in {"expired", "cancelled"}
     \/ r.state = "draining" /\ s.state = "ready" /\ mutations' = {}
     \/ /\ r.state \in Open /\ s.state = "completed" /\ r.expires > now
        /\ r.state = "ready" \/ mutations = {}

RequestsMove ==
  /\ requests' \in Requests
  /\ DOMAIN requests \subseteq DOMAIN requests'
  /\ \A i \in DOMAIN requests : Later(requests[i], requests'[i])
  /\ \A i \in DOMAIN requests' \ DOMAIN requests :
       /\ requests'[i].state # "completed"
       /\ requests'[i].state = "ready" => requests'[i].prev = Nobody \/ mutations' = {}

\* agent.mutation.start and agent.mutation.finish.
Starts(a) ==
  /\ ~Draining(a) /\ mutations' = mutations \cup {a} /\ UNCHANGED requests
  /\ \/ PersistOk /\ editing' = editing \cup {a}
     \/ UNCHANGED <<disk, editing>>
Ends(a) == mutations' = mutations \ {a} /\ editing' = editing \ {a}

LEMMA GrantGrants ==
  ASSUME DriverTypes, NEW a \in Agent, NEW l, Grant(a, l)
  PROVE  Grants
<1>1. /\ fence \in Nat /\ minted \in Nat /\ now \in Nat
  BY Constants DEF DriverTypes, StoreTypes, ClockTypes
<1>2. PICK ttl \in Ttl : lease' = [owner |-> a, token |-> minted + 1, fence |-> fence',
                                   expires |-> now + ttl, to |-> Nobody]
  BY DEF Grant
<1>3. fence' = fence + 1 /\ now + ttl \in Nat
  BY <1>1, Constants DEF Grant, NextFence
<1>4. lease' \in Lease /\ lease'.token = minted + 1 /\ lease'.fence = fence + 1
  BY <1>1, <1>2, <1>3 DEF Lease
<1> QED
  BY <1>3, <1>4 DEF Grant, Grants, PersistErr

LEMMA DriverStep ==
  ASSUME DriverTypes, NEW a \in Agent, Driver(a)
  PROVE  Keeps \/ Grants
<1>0. lease \in Lease /\ requests \in Requests /\ now \in Nat
  BY Constants DEF DriverTypes, StoreTypes, ClockTypes
<1>1. CASE Acquire(a)
  BY <1>1, GrantGrants DEF Acquire
<1>2. CASE Take(a)
  BY <1>2, GrantGrants DEF Take
<1>3. CASE Await(a)
  <2>1. \E l : Grant(a, l)
    BY <1>3 DEF Await
  <2> QED
    BY <2>1, GrantGrants
<1>4. CASE Renew(a)
  <2>1. PICK ttl \in Ttl : lease' = [lease EXCEPT !.expires = now + ttl]
    BY <1>4 DEF Renew
  <2>2. now + ttl \in Nat
    BY <1>0, Constants
  <2> QED
    BY <1>0, <1>4, <2>1, <2>2, LeaseUntil DEF Renew, Keeps, Persist, PersistErr, clock
<1>5. CASE Release(a)
  BY <1>5, Constants DEF Release, Keeps, Persist, PersistErr, clock
<1>6. ASSUME NEW b \in Agent, HandoffTo(a, b) PROVE Keeps
  <2>1. lease' = [lease EXCEPT !.to = b]
    BY <1>6 DEF HandoffTo
  <2> QED
    BY <1>0, <1>6, <2>1, LeaseTo DEF HandoffTo, Keeps, Persist, PersistErr, clock
<1>7. CASE Request(a)
  <2>1. PICK l, rs : lease' = RefreshedLease(l, rs) /\ (l = lease \/ l = [lease EXCEPT !.to = a])
    BY <1>7 DEF Request
  <2>2. l \in Lease /\ l.token = lease.token /\ l.fence = lease.fence
    BY <1>0, <2>1, LeaseTo
  <2> QED
    BY <1>7, <2>1, <2>2, RefreshedLeaseFields DEF Request, Keeps, Persist, PersistErr, clock
<1>8. CASE CancelHandoff(a)
  <2>1. lease' = lease \/ lease' = [lease EXCEPT !.to = Nobody]
    BY <1>8 DEF CancelHandoff, WithoutTarget
  <2>2. Persist /\ UNCHANGED <<fence, clock, known, given>>
    BY <1>8 DEF CancelHandoff
  <2> QED
    BY <1>0, <2>1, <2>2, LeaseTo DEF Keeps, Persist, PersistErr, clock
<1> QED
  BY <1>1, <1>2, <1>3, <1>4, <1>5, <1>6, <1>7, <1>8 DEF Driver

\* What capability.invoke, task.cancel, the Executor and time leave alone.
Aside ==
  /\ UNCHANGED <<lease, fence, requests, mutations, minted, known, given, editing>>
  /\ PersistOk \/ UNCHANGED disk

LEMMA AsideStep ==
  ASSUME \/ \E c \in Call : Invoke(c) \/ ExecutorStep(c) \/ TaskCancel(c)
         \/ Tick \/ ExecutorRestart \/ Read \/ UNCHANGED vars
  PROVE  Aside
<1>1. ASSUME NEW c \in Call, Invoke(c) PROVE Aside
  BY <1>1 DEF Invoke, Check, Authorize, Accept, Submit, Run, Dispatch, Finish, Aside,
    table, control, executor, clock, Persist, PersistErr
<1>2. ASSUME NEW c \in Call, ExecutorStep(c) PROVE Aside
  BY <1>2 DEF ExecutorStep, Execute, Refuse, Complete, Aside, table, control, clock
<1>3. ASSUME NEW c \in Call, TaskCancel(c) PROVE Aside
  BY <1>3 DEF TaskCancel, CancelReadsQueued, CancelQueued, CancelRequest, CancelBegin,
    CancelEnd, Aside, table, control, clock, Persist, PersistErr
<1>4. CASE Tick \/ ExecutorRestart \/ Read \/ UNCHANGED vars
  BY <1>4 DEF Tick, ExecutorRestart, Read, Aside, vars, table, control, clock
<1> QED
  BY <1>1, <1>2, <1>3, <1>4

\* Every step but a restart of the Controller.
LEMMA TableStep ==
  ASSUME DriverTypes, [Next]_vars, ~ControllerRestart
  PROVE  Keeps \/ Grants
<1>0. lease \in Lease
  BY DEF DriverTypes, StoreTypes
<1>1. ASSUME Aside PROVE Keeps
  BY <1>0, <1>1 DEF Aside, Keeps
<1>2. CASE Status \/ Reap
  BY <1>0, <1>2, Constants, RefreshedLeaseFields
     DEF Status, Reap, Keeps, Persist, PersistErr, clock
<1>3. ASSUME NEW a \in Editor, Hook(a) PROVE Keeps
  BY <1>0, <1>3, RefreshedLeaseFields
     DEF Hook, MutationStart, MutationFinish, Keeps, table, clock, Persist, PersistErr
<1> QED
  BY <1>1, <1>2, <1>3, DriverStep, AsideStep, Constants DEF Next

\* A refresh moves the requests.
LEMMA RefreshMoves ==
  ASSUME NEW rs \in Requests, NEW busy \in BOOLEAN, now \in Nat, ~busy => mutations' = {}
  PROVE  LET f == RefreshedAll(rs, busy)
         IN  /\ f \in Requests /\ DOMAIN f = DOMAIN rs
             /\ \A i \in DOMAIN rs : f[i].state # "completed" \/ f[i] = rs[i]
             /\ \A i \in DOMAIN rs :
                  /\ Later(rs[i], f[i])
                  /\ f[i].state \in Open => f[i].expires > now
<1> DEFINE f == RefreshedAll(rs, busy)
<1>1. /\ f \in Requests /\ DOMAIN f = DOMAIN rs
      /\ \A i \in DOMAIN rs : f[i] = Refreshed(rs[i], busy)
  BY RefreshedRequests
<1>2. ASSUME NEW i \in DOMAIN rs
      PROVE  /\ f[i].state # "completed" \/ f[i] = rs[i]
             /\ Later(rs[i], f[i])
             /\ f[i].state \in Open => f[i].expires > now
  <2> DEFINE r == rs[i]
             s == f[i]
  <2>1. r \in Handoff /\ s = Refreshed(r, busy)
    BY <1>1, RequestsFun
  <2>2. r.expires \in Nat
    BY <2>1 DEF Handoff
  <2> HIDE DEF r, s
  <2>3. /\ s \in Handoff /\ s.by = r.by /\ s.prev = r.prev /\ s.expires = r.expires
        /\ \/ s.state = r.state
           \/ r.state \in Open /\ s.state = "expired"
           \/ r.state = "draining" /\ s.state = "ready" /\ ~busy
        /\ r.state \in Open /\ r.expires <= now => s.state = "expired"
    BY <2>1, RefreshedFields
  <2>4. Later(r, s)
    BY <2>3 DEF Later
  <2>5. s.state = r.state => s = r
    BY <2>1, <2>3 DEF Handoff
  <2>6. s.state \in Open => s.expires > now
    BY <2>2, <2>3 DEF Open
  <2>7. s.state # r.state => s.state # "completed"
    BY <2>3
  <2> QED
    BY <2>4, <2>5, <2>6, <2>7 DEF r, s
<1> QED
  BY <1>1, <1>2

\* A request that closes.
LEMMA Closes ==
  ASSUME NEW rs \in Requests, NEW k \in DOMAIN rs,
         NEW s \in {"completed", "cancelled", "expired"}
  PROVE  LET f == [rs EXCEPT ![k].state = s]
         IN  /\ f \in Requests /\ DOMAIN f = DOMAIN rs
             /\ \A i \in DOMAIN rs : i # k => f[i] = rs[i]
             /\ f[k].by = rs[k].by /\ f[k].prev = rs[k].prev /\ f[k].expires = rs[k].expires
             /\ f[k].state = s
<1> DEFINE f == [rs EXCEPT ![k].state = s]
<1>1. rs[k] \in Handoff /\ DOMAIN rs = 1..Len(rs) /\ rs \in [1..Len(rs) -> Handoff]
  BY RequestsFun
<1>2. /\ DOMAIN f = DOMAIN rs /\ f = [i \in DOMAIN f |-> f[i]]
      /\ f[k] = [rs[k] EXCEPT !.state = s]
      /\ \A i \in DOMAIN rs : i # k => f[i] = rs[i]
  BY <1>1
<1>3. /\ f[k] \in Handoff /\ f[k].by = rs[k].by /\ f[k].prev = rs[k].prev
      /\ f[k].expires = rs[k].expires /\ f[k].state = s
  BY <1>1, <1>2 DEF Handoff
<1>4. \A i \in DOMAIN rs : f[i] \in Handoff /\ f[i].by = rs[i].by /\ f[i].prev = rs[i].prev
  BY <1>2, <1>3, RequestsFun
<1>5. f \in Requests
  BY <1>2, <1>4, RequestsKept
<1> QED
  BY <1>2, <1>3, <1>5

LEMMA RefreshStep ==
  ASSUME DriverTypes, NEW busy \in BOOLEAN, ~busy => mutations' = {},
         requests' = RefreshedAll(requests, busy)
  PROVE  RequestsMove
<1>1. requests \in Requests /\ now \in Nat
  BY Constants DEF DriverTypes, StoreTypes, ClockTypes
<1> QED
  BY <1>1, RefreshMoves DEF RequestsMove

LEMMA RequestStep ==
  ASSUME DriverTypes, NEW b \in Agent, Request(b)
  PROVE  RequestsMove
<1>0. /\ requests \in Requests /\ now \in Nat /\ lease \in Lease
      /\ mutations' = mutations /\ MayRequest(b)
  BY Constants DEF DriverTypes, StoreTypes, ClockTypes, Request
<1>1. PICK r :
        /\ \E ttl \in Ttl :
             r = [by |-> b, prev |-> lease.owner, expires |-> now + ttl,
                  state |-> IF lease = NoLease THEN "ready" ELSE "draining"]
        /\ requests' = RefreshedAll(Append(requests, r), Busy)
  BY DEF Request
<1> DEFINE rs == Append(requests, r)
           n  == Len(requests)
<1>2. /\ r \in Handoff /\ r.by # r.prev /\ r.state # "completed"
      /\ r.state = "ready" => r.prev = Nobody
  BY <1>0, <1>1, Constants DEF Handoff, Open, Lease, MayRequest, NoLease
<1>3. requests \in Seq(Handoff) /\ n \in Nat /\ DOMAIN requests = 1..n
  BY <1>0, RequestsFun
<1>4. /\ rs \in Seq(Handoff) /\ Len(rs) = n + 1 /\ rs[n + 1] = r
      /\ \A i \in 1..n : rs[i] = requests[i]
  BY <1>2, <1>3, AppendProperties
<1>5. DOMAIN rs = 1..(n + 1)
  BY <1>4, LenProperties
<1> HIDE DEF rs, n
<1>6. \A i \in 1..(n + 1) : i \in 1..n \/ i = n + 1
  BY <1>3
<1>7. rs \in Requests
  BY <1>0, <1>2, <1>3, <1>4, <1>5, <1>6, RequestsFun DEF Requests
<1>8. Busy \in BOOLEAN /\ (~Busy => mutations' = {})
  BY <1>0 DEF Busy
<1>9. PICK f : f = RefreshedAll(rs, Busy)
  OBVIOUS
<1>10. /\ f \in Requests /\ DOMAIN f = DOMAIN rs
       /\ \A i \in DOMAIN rs : f[i].state # "completed" \/ f[i] = rs[i]
       /\ \A i \in DOMAIN rs : Later(rs[i], f[i])
  BY <1>0, <1>7, <1>8, <1>9, RefreshMoves
<1>11. requests' = f
  BY <1>1, <1>9 DEF rs
<1>12. 1..n \subseteq 1..(n + 1) /\ n + 1 \in 1..(n + 1)
  BY <1>3
<1>13. \A i \in DOMAIN requests : Later(requests[i], f[i])
  BY <1>3, <1>4, <1>5, <1>10, <1>12
<1>14. /\ f[n + 1].state # "completed"
       /\ f[n + 1].state = "ready" => f[n + 1].prev = Nobody \/ mutations' = {}
  BY <1>2, <1>4, <1>5, <1>10, <1>12 DEF Later, Open
<1> QED
  BY <1>3, <1>5, <1>6, <1>10, <1>11, <1>12, <1>13, <1>14 DEF RequestsMove

LEMMA AwaitStep ==
  ASSUME DriverTypes, NEW b \in Agent, Await(b)
  PROVE  RequestsMove
<1>0. requests \in Requests /\ now \in Nat
  BY Constants DEF DriverTypes, StoreTypes, ClockTypes
<1>1. PICK rs : rs = RefreshedAll(requests, Busy)
  OBVIOUS
<1>2. PICK k \in DOMAIN rs :
        /\ rs[k].state = "ready" /\ requests' = [rs EXCEPT ![k].state = "completed"]
        /\ mutations' = mutations
  BY <1>1 DEF Await
<1>3. Busy \in BOOLEAN /\ (~Busy => mutations' = {})
  BY <1>2 DEF Busy
<1>4. /\ rs \in Requests /\ DOMAIN rs = DOMAIN requests
      /\ \A i \in DOMAIN requests :
           Later(requests[i], rs[i]) /\ (rs[i].state \in Open => rs[i].expires > now)
  BY <1>0, <1>1, <1>3, RefreshMoves
<1>5. /\ requests' \in Requests /\ DOMAIN requests' = DOMAIN requests
      /\ \A i \in DOMAIN requests : i # k => requests'[i] = rs[i]
      /\ requests'[k].by = rs[k].by /\ requests'[k].prev = rs[k].prev
      /\ requests'[k].expires = rs[k].expires /\ requests'[k].state = "completed"
  BY <1>2, <1>4, Closes
<1>6. Later(requests[k], requests'[k])
  BY <1>2, <1>4, <1>5 DEF Later, Open
<1> QED
  BY <1>4, <1>5, <1>6 DEF RequestsMove

LEMMA CancelHandoffStep ==
  ASSUME DriverTypes, NEW b \in Agent, CancelHandoff(b)
  PROVE  RequestsMove
<1>0. requests \in Requests
  BY DEF DriverTypes, StoreTypes
<1>1. PICK k \in DOMAIN requests :
        requests[k].state \in Open /\ requests' = [requests EXCEPT ![k].state = "cancelled"]
  BY DEF CancelHandoff, IsLatest
<1>2. /\ requests' \in Requests /\ DOMAIN requests' = DOMAIN requests
      /\ \A i \in DOMAIN requests : i # k => requests'[i] = requests[i]
      /\ requests'[k].by = requests[k].by /\ requests'[k].prev = requests[k].prev
      /\ requests'[k].expires = requests[k].expires /\ requests'[k].state = "cancelled"
  BY <1>0, <1>1, Closes
<1> QED
  BY <1>1, <1>2 DEF RequestsMove, Later

\* Every step but a restart of the Controller.
LEMMA HandoffStep ==
  ASSUME DriverTypes, [Next]_vars, ~ControllerRestart
  PROVE  RequestsMove
<1>0. requests \in Requests
  BY DEF DriverTypes, StoreTypes
<1>1. ASSUME UNCHANGED requests PROVE RequestsMove
  BY <1>0, <1>1 DEF RequestsMove, Later
<1>2. ASSUME NEW a \in Agent, Driver(a) PROVE RequestsMove
  BY <1>1, <1>2, RequestStep, AwaitStep, CancelHandoffStep
     DEF Driver, Acquire, Take, Renew, Release, HandoffTo, control
<1>3. CASE Status
  <2>1. Busy \in BOOLEAN /\ (~Busy => mutations' = {})
    BY <1>3 DEF Busy, Status
  <2> QED
    BY <1>3, <2>1, RefreshStep DEF Status
<1>4. CASE Reap
  BY <1>1, <1>4 DEF Reap, control
<1>5. ASSUME NEW a \in Editor, MutationStart(a) PROVE RequestsMove
  BY <1>1, <1>5 DEF MutationStart
<1>6. ASSUME NEW a \in Editor, MutationFinish(a) PROVE RequestsMove
  <2> DEFINE busy == mutations' # {} \/ \E c \in Call : task[c] \in {"queued", "running", "cancelling"}
  <2>1. PICK z \in BOOLEAN : z = busy
    OBVIOUS
  <2>2. requests' = RefreshedAll(requests, z)
    BY <1>6, <2>1 DEF MutationFinish
  <2>3. ~z => mutations' = {}
    BY <2>1
  <2> QED
    BY <2>2, <2>3, RefreshStep
<1> QED
  BY <1>1, <1>2, <1>3, <1>4, <1>5, <1>6, AsideStep, Constants DEF Next, Hook, Aside

\* agent.mutation.* alone changes what is reported.
LEMMA EditStep ==
  ASSUME DriverTypes, [Next]_vars, ~ControllerRestart
  PROVE  UNCHANGED <<mutations, editing>> \/ \E a \in Editor : Starts(a) \/ Ends(a)
<1>1. ASSUME NEW a \in Agent, Driver(a) PROVE UNCHANGED <<mutations, editing>>
  BY <1>1 DEF Driver, Acquire, Take, Renew, Release, HandoffTo, Request, Await,
    CancelHandoff, control
<1>2. CASE Status \/ Reap
  BY <1>2 DEF Status, Reap, control
<1>3. ASSUME NEW a \in Editor, Hook(a) PROVE Starts(a) \/ Ends(a)
  BY <1>3 DEF Hook, MutationStart, MutationFinish, Starts, Ends, PersistErr
<1> QED
  BY <1>1, <1>2, <1>3, AsideStep, Constants DEF Next, Aside

\* A task is made, or goes on as TaskTable::transition allows.
TaskMoves(c) ==
  \/ task'[c] = task[c]
  \/ task[c] = NoTask /\ task'[c] = "queued"
  \/ CanTransition(task[c], task'[c])

\* A cancellation under way finds its task as it has left it.
CancelInv ==
  \A c \in Call : /\ cancel[c] = "requested" => task[c] = "cancelRequested"
                  /\ cancel[c] = "stopping" => task[c] = "cancelling"

\* Steps of the call, or of the cancellation, of one task.
TaskOf(c) ==
  /\ task' \in [Call -> TaskState \cup {NoTask}] /\ cancel' \in [Call -> Cancel]
  /\ \A d \in Call : d # c => task'[d] = task[d] /\ cancel'[d] = cancel[d]
  /\ TaskMoves(c)
  /\ cancel'[c] = "requested" => task'[c] = "cancelRequested"
  /\ cancel'[c] = "stopping" => task'[c] = "cancelling"

LEMMA TaskOfStep ==
  ASSUME DriverTypes, CancelInv, NEW c \in Call, Invoke(c) \/ TaskCancel(c)
  PROVE  TaskOf(c)
<1>0. task \in [Call -> TaskState \cup {NoTask}] /\ cancel \in [Call -> Cancel]
  BY DEF DriverTypes, StoreTypes, CallTypes
<1>1. ASSUME UNCHANGED <<task, cancel>> PROVE TaskOf(c)
  BY <1>0, <1>1 DEF TaskOf, TaskMoves, CancelInv
<1>2. ASSUME NEW s \in TaskState, Becomes(c, s), UNCHANGED cancel,
             (task[c] = NoTask /\ s = "queued") \/ CanTransition(task[c], s),
             cancel[c] \in {"requested", "stopping"} => FALSE
      PROVE  TaskOf(c)
  BY <1>0, <1>2 DEF TaskOf, TaskMoves, Becomes, CancelInv
<1>3. cancel[c] \in {"requested", "stopping"} => task[c] \in {"cancelRequested", "cancelling"}
  BY DEF CancelInv
<1>4. CASE \/ \E a \in Agent : Check(c, a)
           \/ Authorize(c) \/ Dispatch(c)
  BY <1>1, <1>4 DEF Check, Authorize, Dispatch, control
<1>5. CASE Accept(c) \/ Submit(c)
  <2>1. cancel' = cancel /\ (task' = task \/ (task[c] = NoTask /\ Becomes(c, "queued")))
    BY <1>5 DEF Accept, Submit
  <2>2. "queued" \in TaskState
    BY DEF TaskState
  <2> QED
    BY <1>1, <1>2, <1>3, <2>1, <2>2 DEF NoTask
<1>6. CASE Run(c) \/ Finish(c)
  <2>1. cancel' = cancel
    BY <1>6 DEF Run, Finish
  <2>2. \/ task' = task
        \/ \E s \in {"running", "succeeded", "failed", "outcomeUnknown"} :
             CanTransition(task[c], s) /\ Becomes(c, s)
    BY <1>6 DEF Run, Finish, Outcome
  <2>3. ASSUME NEW s \in {"running", "succeeded", "failed", "outcomeUnknown"},
               CanTransition(task[c], s), Becomes(c, s)
        PROVE  TaskOf(c)
    <3>1. task[c] \in {"queued", "running"} /\ s \in TaskState
      BY <2>3 DEF CanTransition, TaskState, Terminal
    <3> QED
      BY <1>2, <1>3, <2>1, <2>3, <3>1
  <2> QED
    BY <1>1, <2>1, <2>2, <2>3
<1>7. CASE TaskCancel(c)
  <2> USE DEF CancelAt, Becomes, TaskOf, TaskMoves, CancelInv, CanTransition, TaskState,
              Terminal, Cancel
  <2>1. CASE CancelReadsQueued(c)
    BY <1>0, <2>1 DEF CancelReadsQueued, control
  <2>2. CASE CancelQueued(c)
    BY <1>0, <2>2 DEF CancelQueued
  <2>3. CASE CancelRequest(c)
    BY <1>0, <2>3 DEF CancelRequest
  <2>4. CASE CancelBegin(c)
    BY <1>0, <2>4 DEF CancelBegin
  <2>5. CASE CancelEnd(c)
    BY <1>0, <2>5 DEF CancelEnd
  <2> QED
    BY <1>7, <2>1, <2>2, <2>3, <2>4, <2>5 DEF TaskCancel
<1> QED
  BY <1>4, <1>5, <1>6, <1>7 DEF Invoke

\* Every step but a restart of the Controller.
LEMMA TaskStep ==
  ASSUME DriverTypes, CancelInv, [Next]_vars, ~ControllerRestart
  PROVE  /\ task' \in [Call -> TaskState \cup {NoTask}] /\ cancel' \in [Call -> Cancel]
         /\ CancelInv' /\ \A c \in Call : TaskMoves(c)
<1>0. task \in [Call -> TaskState \cup {NoTask}] /\ cancel \in [Call -> Cancel]
  BY DEF DriverTypes, StoreTypes, CallTypes
<1>1. CASE UNCHANGED <<task, cancel>>
  BY <1>0, <1>1 DEF TaskMoves, CancelInv
<1>2. CASE \E c \in Call : Invoke(c) \/ TaskCancel(c)
  <2>1. PICK c \in Call : TaskOf(c)
    BY <1>2, TaskOfStep
  <2> QED
    BY <2>1 DEF TaskOf, TaskMoves, CancelInv
<1>3. ASSUME NEW a \in Agent, Driver(a) PROVE UNCHANGED <<task, cancel>>
  BY <1>3 DEF Driver, Acquire, Take, Renew, Release, HandoffTo, Request, Await,
    CancelHandoff, control, calls
<1>4. ASSUME NEW a \in Editor, Hook(a) PROVE UNCHANGED <<task, cancel>>
  BY <1>4 DEF Hook, MutationStart, MutationFinish, calls
<1>5. ASSUME NEW c \in Call, ExecutorStep(c) PROVE UNCHANGED <<task, cancel>>
  BY <1>5 DEF ExecutorStep, Execute, Refuse, Complete, control, calls
<1>6. CASE Status \/ Reap \/ Read \/ Tick \/ ExecutorRestart \/ UNCHANGED vars
  BY <1>1, <1>6 DEF Status, Reap, Read, Tick, ExecutorRestart, vars, control, calls
<1> QED
  BY <1>1, <1>2, <1>3, <1>4, <1>5, <1>6, Constants DEF Next

\* A call that has been authorized and not yet dispatched.
Holding == {"authorized", "submitted", "running"}

\* A call takes the lease in office if its owner knows it, keeps it, or lets go.
AuthMoves(c) ==
  /\ \/ auth'[c] = auth[c] \/ auth'[c] = NoLease
     \/ auth'[c] = lease /\ lease.token \in known
  /\ pc'[c] \in Holding =>
       \/ auth'[c] = lease /\ lease.token \in known
       \/ auth'[c] = auth[c] /\ pc[c] \in Holding

LEMMA InvokeStep ==
  ASSUME DriverTypes, NEW c \in Call, Invoke(c)
  PROVE  /\ pc' \in [Call -> PC] /\ caller' \in [Call -> Agent \cup {Nobody}]
         /\ auth' \in [Call -> Lease] /\ \A d \in Call : AuthMoves(d)
<1>0. /\ pc \in [Call -> PC] /\ caller \in [Call -> Agent \cup {Nobody}]
      /\ auth \in [Call -> Lease] /\ lease \in Lease /\ NoLease \in Lease
  BY Constants DEF DriverTypes, CallTypes, StoreTypes
<1> DEFINE P == /\ pc' \in [Call -> PC] /\ caller' \in [Call -> Agent \cup {Nobody}]
                /\ auth' \in [Call -> Lease] /\ \A d \in Call : AuthMoves(d)
<1>1. ASSUME Return(c) PROVE P
  BY <1>0, <1>1 DEF Return, AuthMoves, Holding, PC
<1>2. ASSUME NEW l \in PC, Goto(c, l), l \in Holding => pc[c] \in Holding PROVE P
  BY <1>0, <1>2 DEF Goto, AuthMoves
<1> HIDE DEF P
<1>3. /\ "worker" \in PC /\ "submitted" \in PC /\ "running" \in PC /\ "sent" \in PC
      /\ "worker" \notin Holding /\ "sent" \notin Holding
  BY DEF PC, Holding
<1>4. ASSUME NEW a \in Agent, Check(c, a) PROVE P
  <2>1. CASE Return(c)
    BY <1>1, <2>1
  <2>2. CASE pc' = [pc EXCEPT ![c] = "checked"] /\ caller' = [caller EXCEPT ![c] = a]
             /\ UNCHANGED auth
    BY <1>0, <2>2 DEF P, AuthMoves, Holding, PC
  <2> QED
    BY <1>4, <2>1, <2>2 DEF Check
<1>5. ASSUME Authorize(c) PROVE P
  <2>1. CASE Return(c)
    BY <1>1, <2>1
  <2>2. CASE /\ lease.token \in known /\ pc' = [pc EXCEPT ![c] = "authorized"]
             /\ auth' = [auth EXCEPT ![c] = lease] /\ UNCHANGED caller
    BY <1>0, <2>2 DEF P, AuthMoves, Holding, PC
  <2> QED
    BY <1>5, <2>1, <2>2 DEF Authorize, Valid
<1>6. ASSUME Accept(c) PROVE P
  BY <1>1, <1>2, <1>3, <1>6 DEF Accept
<1>7. ASSUME Submit(c) PROVE P
  <2>1. pc[c] \in Holding
    BY <1>7 DEF Submit, Holding
  <2> QED
    BY <1>1, <1>2, <1>3, <1>7, <2>1 DEF Submit
<1>8. ASSUME Run(c) PROVE P
  <2>1. pc[c] \in Holding
    BY <1>8 DEF Run, Holding
  <2> QED
    BY <1>1, <1>2, <1>3, <1>8, <2>1 DEF Run
<1>9. ASSUME Dispatch(c) PROVE P
  BY <1>2, <1>3, <1>9 DEF Dispatch
<1>10. ASSUME Finish(c) PROVE P
  BY <1>1, <1>10 DEF Finish
<1> QED
  BY <1>4, <1>5, <1>6, <1>7, <1>8, <1>9, <1>10 DEF Invoke, P

\* Every step but a restart of the Controller.
LEMMA CallsStep ==
  ASSUME DriverTypes, [Next]_vars, ~ControllerRestart
  PROVE  /\ pc' \in [Call -> PC] /\ caller' \in [Call -> Agent \cup {Nobody}]
         /\ auth' \in [Call -> Lease] /\ \A d \in Call : AuthMoves(d)
<1>0. /\ pc \in [Call -> PC] /\ caller \in [Call -> Agent \cup {Nobody}]
      /\ auth \in [Call -> Lease]
  BY DEF DriverTypes, CallTypes
<1>1. CASE UNCHANGED <<pc, caller, auth>>
  BY <1>0, <1>1 DEF AuthMoves
<1>2. ASSUME NEW a \in Agent, Driver(a) PROVE UNCHANGED <<pc, caller, auth>>
  BY <1>2 DEF Driver, Acquire, Take, Renew, Release, HandoffTo, Request, Await,
    CancelHandoff, calls
<1>3. ASSUME NEW a \in Editor, Hook(a) PROVE UNCHANGED <<pc, caller, auth>>
  BY <1>3 DEF Hook, MutationStart, MutationFinish, calls
<1>4. ASSUME NEW c \in Call, ExecutorStep(c) PROVE UNCHANGED <<pc, caller, auth>>
  BY <1>4 DEF ExecutorStep, Execute, Refuse, Complete, calls
<1>5. ASSUME NEW c \in Call, TaskCancel(c) PROVE UNCHANGED <<pc, caller, auth>>
  BY <1>5 DEF TaskCancel, CancelReadsQueued, CancelQueued, CancelRequest, CancelBegin, CancelEnd
<1>6. CASE Status \/ Reap \/ Read \/ Tick \/ ExecutorRestart \/ UNCHANGED vars
  BY <1>1, <1>6 DEF Status, Reap, Read, Tick, ExecutorRestart, vars, calls
<1> QED
  BY <1>1, <1>2, <1>3, <1>4, <1>5, <1>6, InvokeStep, Constants DEF Next

\* A write that fails is counted.
LEMMA FailureStep ==
  ASSUME DriverTypes, [Next]_vars
  PROVE  failures' \in 0..MaxSaveFailures
<1>0. failures \in 0..MaxSaveFailures /\ MaxSaveFailures \in Nat
  BY Constants DEF DriverTypes, StoreTypes
<1>1. ASSUME UNCHANGED failures \/ (failures < MaxSaveFailures /\ failures' = failures + 1)
      PROVE  failures' \in 0..MaxSaveFailures
  BY <1>0, <1>1
<1> USE DEF Persist, PersistOk, PersistErr
<1>2. ASSUME NEW a \in Agent, Driver(a) PROVE failures' \in 0..MaxSaveFailures
  BY <1>1, <1>2 DEF Driver, Acquire, Take, Renew, Release, HandoffTo, Request, Await,
    CancelHandoff, Grant
<1>3. ASSUME NEW a \in Editor, Hook(a) PROVE failures' \in 0..MaxSaveFailures
  BY <1>1, <1>3 DEF Hook, MutationStart, MutationFinish
<1>4. ASSUME NEW c \in Call, ExecutorStep(c) PROVE failures' \in 0..MaxSaveFailures
  BY <1>1, <1>4 DEF ExecutorStep, Execute, Refuse, Complete
<1>5. ASSUME NEW c \in Call, TaskCancel(c) PROVE failures' \in 0..MaxSaveFailures
  BY <1>1, <1>5 DEF TaskCancel, CancelReadsQueued, CancelQueued, CancelRequest,
    CancelBegin, CancelEnd
<1>6. ASSUME NEW c \in Call, Invoke(c) PROVE failures' \in 0..MaxSaveFailures
  BY <1>1, <1>6 DEF Invoke, Check, Authorize, Accept, Submit, Run, Dispatch, Finish
<1>7. CASE Status \/ Reap \/ Read \/ Tick \/ ExecutorRestart \/ ControllerRestart \/ UNCHANGED vars
  BY <1>1, <1>7 DEF Status, Reap, Read, Tick, ExecutorRestart, ControllerRestart, vars
<1> QED
  BY <1>2, <1>3, <1>4, <1>5, <1>6, <1>7, Constants DEF Next

-----------------------------------------------------------------------------
(* Types.                                                                  *)

\* The Executor's side changes in its own steps and by a dispatch.
LEMMA ExecutorSteps ==
  ASSUME [Next]_vars
  PROVE  \/ UNCHANGED <<executor, execCrashes>> /\ UNCHANGED late
         \/ \E c \in Call : Dispatch(c) \/ ExecutorStep(c)
         \/ ExecutorRestart
<1>1. ASSUME NEW a \in Agent, Driver(a) PROVE UNCHANGED <<executor, execCrashes>> /\ UNCHANGED late
  BY <1>1 DEF Driver, Acquire, Take, Renew, Release, HandoffTo, Request, Await, Grant,
    CancelHandoff, clock
<1>2. ASSUME NEW a \in Editor, Hook(a) PROVE UNCHANGED <<executor, execCrashes>> /\ UNCHANGED late
  BY <1>2 DEF Hook, MutationStart, MutationFinish, clock
<1>3. ASSUME NEW c \in Call, TaskCancel(c) PROVE UNCHANGED <<executor, execCrashes>> /\ UNCHANGED late
  BY <1>3 DEF TaskCancel, CancelReadsQueued, CancelQueued, CancelRequest,
    CancelBegin, CancelEnd, clock
<1>4. ASSUME NEW c \in Call, Invoke(c), ~Dispatch(c) PROVE UNCHANGED <<executor, execCrashes>> /\ UNCHANGED late
  BY <1>4 DEF Invoke, Check, Authorize, Accept, Submit, Run, Finish, clock
<1>5. CASE Status \/ Reap \/ Read \/ Tick \/ ControllerRestart \/ UNCHANGED vars
  BY <1>5 DEF Status, Reap, Read, Tick, ControllerRestart, vars, clock
<1> QED
  BY <1>1, <1>2, <1>3, <1>4, <1>5, Constants DEF Next

LEMMA ClockStep ==
  ASSUME DriverTypes, [Next]_vars
  PROVE  /\ now' \in 0..MaxTime /\ now' >= now /\ crashes' \in 0..MaxCrashes
         /\ ~ControllerRestart => crashes' = crashes
<1>0. now \in 0..MaxTime /\ crashes \in 0..MaxCrashes /\ MaxTime \in Nat /\ MaxCrashes \in Nat
  BY Constants DEF DriverTypes, ClockTypes
<1>1. ASSUME NEW a \in Agent, Driver(a) PROVE UNCHANGED <<now, crashes>>
  BY <1>1 DEF Driver, Acquire, Take, Renew, Release, HandoffTo, Request, Await, Grant,
    CancelHandoff, clock
<1>2. ASSUME NEW a \in Editor, Hook(a) PROVE UNCHANGED <<now, crashes>>
  BY <1>2 DEF Hook, MutationStart, MutationFinish, clock
<1>3. ASSUME NEW c \in Call, TaskCancel(c) PROVE UNCHANGED <<now, crashes>>
  BY <1>3 DEF TaskCancel, CancelReadsQueued, CancelQueued, CancelRequest,
    CancelBegin, CancelEnd, clock
<1>4. ASSUME NEW c \in Call, Invoke(c) PROVE UNCHANGED <<now, crashes>>
  BY <1>4 DEF Invoke, Check, Authorize, Accept, Submit, Run, Dispatch, Finish, clock
<1>5. ASSUME NEW c \in Call, ExecutorStep(c) PROVE UNCHANGED <<now, crashes>>
  BY <1>5 DEF ExecutorStep, Execute, Refuse, Complete, clock
<1>6. ASSUME Status \/ Reap \/ Read \/ ExecutorRestart \/ UNCHANGED vars PROVE UNCHANGED <<now, crashes>>
  BY <1>6 DEF Status, Reap, Read, ExecutorRestart, vars, clock
<1>7. CASE UNCHANGED <<now, crashes>>
  BY <1>0, <1>7
<1>8. CASE Tick
  BY <1>0, <1>8 DEF Tick
<1>9. CASE ControllerRestart
  BY <1>0, <1>9 DEF ControllerRestart
<1> QED
  BY <1>1, <1>2, <1>3, <1>4, <1>5, <1>6, <1>7, <1>8, <1>9, Constants DEF Next

LEMMA ExecTypesStep ==
  ASSUME DriverTypes, [Next]_vars
  PROVE  ExecTypes' /\ execCrashes' \in 0..MaxExecCrashes /\ late' \subseteq Call
<1>0. /\ ExecTypes /\ late \subseteq Call /\ execCrashes \in 0..MaxExecCrashes
      /\ MaxExecCrashes \in Nat /\ auth \in [Call -> Lease] /\ now \in Nat
  BY Constants DEF DriverTypes, ClockTypes, CallTypes
<1>1. CASE UNCHANGED <<executor, execCrashes>> /\ UNCHANGED late
  BY <1>0, <1>1 DEF ExecTypes, executor
<1>2. ASSUME NEW c \in Call, Dispatch(c)
      PROVE  ExecTypes' /\ execCrashes' \in 0..MaxExecCrashes /\ late' \subseteq Call
  <2>1. auth[c].fence \in Nat /\ auth[c].expires \in Nat
    BY <1>0 DEF Lease
  <2>2. ExecutionFence(auth[c].fence) \in Nat
    BY <1>0, <2>1 DEF ExecutionFence
  <2>3. stamp' \in [Call -> [fence: Nat, expires: Nat, lease: Nat]]
    BY <1>0, <1>2, <2>1, <2>2 DEF Dispatch, ExecTypes
  <2>4. wire' \in [Call -> Wire]
    BY <1>0, <1>2 DEF Dispatch, ExecTypes, Wire
  <2> QED
    BY <1>0, <1>2, <2>3, <2>4 DEF Dispatch, ExecTypes, clock
<1>3. ASSUME NEW c \in Call, ExecutorStep(c)
      PROVE  ExecTypes' /\ execCrashes' \in 0..MaxExecCrashes /\ late' \subseteq Call
  <2>1. stamp[c].fence \in Nat /\ stamp[c].lease \in Nat
    BY <1>0 DEF ExecTypes
  <2>2. wire' \in [Call -> Wire]
    BY <1>0, <1>3 DEF ExecutorStep, Execute, Refuse, Complete, ExecTypes, Wire
  <2> QED
    BY <1>0, <1>3, <2>1, <2>2 DEF ExecutorStep, Execute, Refuse, Complete, ExecTypes, clock
<1>4. CASE ExecutorRestart
  <2>1. wire' \in [Call -> Wire]
    BY <1>0, <1>4 DEF ExecutorRestart, ExecTypes, Wire
  <2> QED
    BY <1>0, <1>4, <2>1 DEF ExecutorRestart, ExecTypes
<1> QED
  BY <1>1, <1>2, <1>3, <1>4, ExecutorSteps

\* What open_with_id makes of the file.
LEMMA RestartTypes ==
  ASSUME DriverTypes, ControllerRestart
  PROVE  DriverTypes' /\ CancelInv'
<1>0. disk \in File /\ NoLease \in Lease /\ pc \in [Call -> PC]
  BY Constants DEF DriverTypes, StoreTypes, CallTypes
<1>1. /\ disk.lease \in Lease /\ disk.fence \in Nat /\ disk.requests \in Requests
      /\ disk.mutations \subseteq Editor /\ disk.task \in [Call -> TaskState \cup {NoTask}]
  BY <1>0 DEF File
<1>2. /\ lease' \in Lease /\ fence' \in Nat /\ requests' \in Requests
      /\ mutations' \subseteq Editor
  BY <1>0, <1>1 DEF ControllerRestart, Lease
<1>3. task' \in [Call -> TaskState \cup {NoTask}]
  <2>1. ASSUME NEW s \in TaskState \cup {NoTask} PROVE Recovered(s) \in TaskState \cup {NoTask}
    BY DEF Recovered, TaskState, Terminal
  <2> QED
    BY <1>1, <2>1 DEF ControllerRestart
<1>4. disk' \in File
  BY <1>2, <1>3 DEF ControllerRestart, PersistOk, File
<1>5. StoreTypes'
  BY <1>2, <1>3, <1>4, FailureStep DEF StoreTypes, Next
<1>6. CallTypes' /\ CancelInv'
  BY <1>0 DEF ControllerRestart, CallTypes, CancelInv, PC, Cancel
<1>7. ExecTypes'
  BY DEF ControllerRestart, executor, DriverTypes, ExecTypes
<1>8. ClockTypes'
  BY ClockStep DEF ControllerRestart, DriverTypes, ClockTypes, Next
<1> QED
  BY <1>5, <1>6, <1>7, <1>8 DEF DriverTypes

LEMMA TypesStep ==
  ASSUME DriverTypes, CancelInv, [Next]_vars
  PROVE  DriverTypes' /\ CancelInv'
<1>1. CASE ControllerRestart
  BY <1>1, RestartTypes
<1>2. CASE ~ControllerRestart
  <2>0. /\ lease \in Lease /\ fence \in Nat /\ disk \in File /\ mutations \subseteq Editor
        /\ minted \in 0..MaxTokens /\ known \subseteq 1..minted /\ MaxTokens \in Nat
        /\ given \in [token: Nat, fence: Nat] /\ editing \subseteq Editor
    BY Constants DEF DriverTypes, StoreTypes, ClockTypes
  <2>1. Keeps \/ Grants
    BY <1>2, TableStep
  <2>2. /\ lease' \in Lease /\ fence' \in Nat /\ minted' \in 0..MaxTokens
        /\ known' \subseteq 1..minted' /\ given' \in [token: Nat, fence: Nat]
    <3>1. CASE Keeps
      BY <2>0, <3>1 DEF Keeps
    <3>2. CASE Grants
      <4>1. minted' \in 0..MaxTokens /\ fence + 1 \in Nat /\ minted + 1 \in Nat
        BY <2>0, <3>2 DEF Grants
      <4>2. 1..minted \subseteq 1..(minted + 1) /\ minted + 1 \in 1..(minted + 1)
        BY <2>0
      <4>3. known' \subseteq 1..minted' /\ given' \in [token: Nat, fence: Nat]
        <5>1. minted' = minted + 1
          BY <3>2 DEF Grants
        <5>2. CASE UNCHANGED <<known, given>>
          BY <2>0, <4>2, <5>1, <5>2
        <5>3. CASE /\ known' = known \cup {minted + 1}
                   /\ given' = [token |-> minted + 1, fence |-> fence + 1]
          BY <2>0, <4>1, <4>2, <5>1, <5>3
        <5> QED
          BY <3>2, <5>2, <5>3 DEF Grants
      <4> QED
        BY <3>2, <4>1, <4>3 DEF Grants
    <3> QED
      BY <2>1, <3>1, <3>2
  <2>3. mutations' \subseteq Editor /\ editing' \subseteq Editor
    BY <1>2, <2>0, EditStep DEF Starts, Ends
  <2>4. requests' \in Requests
    BY <1>2, HandoffStep DEF RequestsMove
  <2>5. /\ task' \in [Call -> TaskState \cup {NoTask}] /\ cancel' \in [Call -> Cancel]
        /\ CancelInv'
    BY <1>2, TaskStep
  <2>6. disk' \in File
    <3>1. PersistOk \/ disk' = disk
      BY <2>1 DEF Keeps, Grants
    <3> QED
      BY <2>0, <2>2, <2>3, <2>4, <2>5, <3>1 DEF PersistOk, File
  <2>7. StoreTypes'
    BY <2>2, <2>3, <2>4, <2>5, <2>6, FailureStep DEF StoreTypes
  <2>8. CallTypes'
    BY <1>2, <2>5, CallsStep DEF CallTypes
  <2>9. ClockTypes'
    BY <2>2, <2>3, ClockStep, ExecTypesStep DEF ClockTypes
  <2> QED
    BY <2>5, <2>7, <2>8, <2>9, ExecTypesStep DEF DriverTypes
<1> QED
  BY <1>1, <1>2

LEMMA InitTypes == Init => DriverTypes /\ CancelInv
<1> SUFFICES ASSUME Init PROVE DriverTypes /\ CancelInv
  OBVIOUS
<1>1. <<>> \in Requests
  BY DEF Requests
<1>2. task \in [Call -> TaskState \cup {NoTask}]
  BY DEF Init
<1>3. disk \in File
  BY <1>1, <1>2, Constants DEF Init, File
<1>4. StoreTypes
  BY <1>1, <1>2, <1>3, Constants DEF Init, StoreTypes
<1>5. CallTypes /\ CancelInv
  BY Constants DEF Init, CallTypes, CancelInv, PC, Cancel
<1>6. ExecTypes
  BY DEF Init, ExecTypes, Wire, NoStamp
<1>7. ClockTypes
  BY Constants DEF Init, ClockTypes
<1> QED
  BY <1>4, <1>5, <1>6, <1>7 DEF DriverTypes

-----------------------------------------------------------------------------
(* Fences of leases.                                                       *)

\* A table of leases, in memory or in the file: the fence of the lease in
\* office is the table's.
Table(l, f) ==
  /\ l.fence <= f /\ l.token <= minted
  /\ l.token # 0 => l.fence = f

\* The file is not ahead of the memory, and not behind what was given out.
FenceInv ==
  /\ Table(lease, fence) /\ Table(disk.lease, disk.fence)
  /\ disk.fence <= fence /\ fence <= minted
  /\ given.fence <= disk.fence
  /\ lease.token \in known => fence <= disk.fence

LEMMA Numbers ==
  ASSUME DriverTypes
  PROVE  /\ fence \in Nat /\ minted \in Nat /\ minted <= MaxTokens /\ given.fence \in Nat
         /\ lease.fence \in Nat /\ lease.token \in Nat /\ lease \in Lease
         /\ disk.fence \in Nat /\ disk.lease.fence \in Nat /\ disk.lease.token \in Nat
         /\ now \in Nat /\ known \subseteq 1..minted
<1>1. disk.lease \in Lease /\ disk.fence \in Nat
  BY DEF DriverTypes, StoreTypes, File
<1> QED
  BY <1>1, Constants DEF DriverTypes, StoreTypes, ClockTypes, Lease

LEMMA DiskFields ==
  ASSUME PersistOk
  PROVE  /\ disk'.lease = lease' /\ disk'.fence = fence' /\ disk'.requests = requests'
         /\ disk'.mutations = mutations' /\ disk'.task = task'
BY DEF PersistOk

LEMMA FenceStep ==
  ASSUME DriverTypes, FenceInv, [Next]_vars
  PROVE  /\ FenceInv' /\ disk'.fence >= disk.fence /\ minted' >= minted
         /\ given'.token # given.token => given'.fence > given.fence
<1>0. /\ fence \in Nat /\ minted \in Nat /\ given.fence \in Nat
      /\ lease.fence \in Nat /\ lease.token \in Nat
      /\ disk.fence \in Nat /\ disk.lease.fence \in Nat /\ disk.lease.token \in Nat
      /\ known \subseteq 1..minted
      /\ NoLease.fence = 0 /\ NoLease.token = 0
  BY Numbers DEF NoLease
<1>1. CASE ControllerRestart
  <2>1. fence' = disk.fence
    BY <1>0, <1>1 DEF ControllerRestart, FenceInv, Table
  <2>2. UNCHANGED <<minted, given, known>> /\ PersistOk
    BY <1>1 DEF ControllerRestart
  <2>3. disk'.fence = fence' /\ disk'.lease = lease'
    BY <2>2, DiskFields
  <2>4. lease' = NoLease \/ lease' = disk.lease
    BY <1>1 DEF ControllerRestart
  <2>5. Table(lease, fence)'
    BY <1>0, <2>1, <2>2, <2>4 DEF FenceInv, Table
  <2> QED
    BY <1>0, <2>1, <2>2, <2>3, <2>5 DEF FenceInv, Table
<1>2. CASE ~ControllerRestart /\ Keeps
  <2>1. /\ UNCHANGED <<fence, minted, known, given>>
        /\ \/ lease' = NoLease
           \/ lease'.token = lease.token /\ lease'.fence = lease.fence
    BY <1>2 DEF Keeps
  <2>2. \/ disk' = disk
        \/ disk'.fence = fence' /\ disk'.lease = lease'
    BY <1>2, DiskFields DEF Keeps
  <2>3. Table(lease, fence)'
    BY <1>0, <2>1 DEF FenceInv, Table
  <2>4. lease'.token \in known' => lease'.token = lease.token
    BY <1>0, <2>1
  <2> QED
    BY <1>0, <2>1, <2>2, <2>3, <2>4 DEF FenceInv, Table
<1>3. CASE ~ControllerRestart /\ Grants
  <2>1. /\ lease'.token = minted + 1 /\ lease'.fence = fence + 1 /\ fence' = fence + 1
        /\ minted' = minted + 1
    BY <1>3 DEF Grants
  <2>2. Table(lease, fence)'
    BY <1>0, <2>1 DEF Table
  <2>3. CASE PersistOk /\ given' = [token |-> minted + 1, fence |-> fence + 1]
    <3>1. disk'.fence = fence' /\ disk'.lease = lease' /\ given'.fence = fence + 1
      BY <2>3, DiskFields
    <3> QED
      BY <1>0, <2>1, <2>2, <3>1 DEF FenceInv, Table
  <2>4. CASE UNCHANGED <<disk, known, given>>
    <3>1. minted + 1 \notin known
      BY <1>0
    <3> QED
      BY <1>0, <2>1, <2>2, <2>4, <3>1 DEF FenceInv, Table
  <2> QED
    BY <1>3, <2>3, <2>4 DEF Grants
<1> QED
  BY <1>1, <1>2, <1>3, TableStep

-----------------------------------------------------------------------------
(* Calls and the leases they were authorized with.                         *)

AuthOk(c) ==
  /\ auth[c].fence <= disk.fence /\ auth[c].token <= minted
  /\ auth[c].token = lease.token /\ auth[c].token # 0 => auth[c].fence = lease.fence
  /\ pc[c] \in Holding => auth[c].token # 0
AuthInv == \A c \in Call : AuthOk(c)

LEMMA AuthStep ==
  ASSUME DriverTypes, CancelInv, FenceInv, AuthInv, [Next]_vars, NEW c \in Call
  PROVE  AuthOk(c)'
<1>0. /\ fence \in Nat /\ minted \in Nat /\ disk.fence \in Nat
      /\ lease.fence \in Nat /\ lease.token \in Nat
      /\ known \subseteq 1..minted /\ auth[c].token \in Nat /\ auth[c].fence \in Nat
      /\ NoLease.fence = 0 /\ NoLease.token = 0
  BY Numbers DEF NoLease, DriverTypes, CallTypes, Lease
<1>1. /\ disk'.fence >= disk.fence /\ minted' >= minted
      /\ disk'.fence \in Nat /\ minted' \in Nat /\ lease'.token \in Nat
  <2>1. DriverTypes'
    BY TypesStep
  <2>2. disk' \in File /\ minted' \in Nat /\ lease' \in Lease
    BY <2>1, Constants DEF DriverTypes, StoreTypes, ClockTypes
  <2> QED
    BY <2>2, FenceStep DEF File, Lease
<1>2. CASE ControllerRestart
  <2>1. auth'[c] = NoLease /\ pc'[c] \notin Holding
    BY <1>2 DEF ControllerRestart, Holding
  <2> QED
    BY <1>0, <1>1, <2>1 DEF AuthOk
<1>3. CASE ~ControllerRestart
  <2>1. /\ \/ auth'[c] = auth[c] \/ auth'[c] = NoLease
           \/ auth'[c] = lease /\ lease.token \in known
        /\ pc'[c] \in Holding =>
             \/ auth'[c] = lease /\ lease.token \in known
             \/ auth'[c] = auth[c] /\ pc[c] \in Holding
    BY <1>3, CallsStep DEF AuthMoves
  <2>2. AuthOk(c) /\ (lease.token \in known => fence <= disk.fence) /\ Table(lease, fence)
    BY DEF AuthInv, FenceInv
  <2>3. \/ lease'.token = 0
        \/ lease'.token = lease.token /\ lease'.fence = lease.fence
        \/ lease'.token = minted + 1
    BY <1>0, <1>3, TableStep DEF Keeps, Grants
  <2>4. /\ auth'[c].fence <= disk.fence /\ auth'[c].token <= minted
        /\ auth'[c].token \in Nat /\ auth'[c].fence \in Nat
        /\ auth'[c].token = lease.token /\ auth'[c].token # 0 => auth'[c].fence = lease.fence
        /\ pc'[c] \in Holding => auth'[c].token # 0
    <3>1. CASE auth'[c] = NoLease /\ pc'[c] \notin Holding
      BY <1>0, <3>1
    <3>2. CASE auth'[c] = lease /\ lease.token \in known
      <4>1. lease.token # 0
        BY <1>0, <3>2
      <4> QED
        BY <1>0, <2>2, <3>2, <4>1 DEF Table
    <3>3. CASE auth'[c] = auth[c] /\ (pc'[c] \in Holding => pc[c] \in Holding)
      BY <1>0, <2>2, <3>3 DEF AuthOk
    <3> QED
      BY <2>1, <3>1, <3>2, <3>3
  <2> QED
    BY <1>0, <1>1, <2>3, <2>4 DEF AuthOk
<1> QED
  BY <1>2, <1>3

-----------------------------------------------------------------------------
(* Stamps: the fence the Executor compares grows with the lease's, as long *)
(* as the leases can be told apart in its lower 16 bits.                   *)

StampOk(c) ==
  /\ stamp[c].lease <= disk.fence
  /\ stamp[c].fence <= now * 65536 + stamp[c].lease
Ordered ==
  \A c \in Call \ late, d \in Call :
    stamp[d].lease > stamp[c].lease => stamp[d].fence > stamp[c].fence

\* A request of an earlier lease than one that has written is too old for the
\* Executor, in memory and after a restart.
Covered ==
  /\ execDisk <= execFence /\ written <= disk.fence
  /\ \A c \in Call \ late : stamp[c].lease < written => stamp[c].fence < execDisk

StampInv == (\A c \in Call : StampOk(c)) /\ Ordered /\ Covered

LEMMA StampNumbers ==
  ASSUME DriverTypes, NEW c \in Call
  PROVE  /\ stamp[c].lease \in Nat /\ stamp[c].fence \in Nat
         /\ execDisk \in Nat /\ execFence \in Nat /\ written \in Nat
         /\ auth[c].fence \in Nat /\ auth[c].token \in Nat
BY DEF DriverTypes, ExecTypes, CallTypes, Lease

LEMMA StampStep ==
  ASSUME MaxTokens <= 65535, DriverTypes, CancelInv, FenceInv, AuthInv, StampInv, [Next]_vars
  PROVE  StampInv'
<1>0. /\ fence \in Nat /\ minted \in Nat /\ disk.fence \in Nat /\ minted <= MaxTokens
      /\ lease.fence \in Nat /\ lease.token \in Nat /\ now \in Nat /\ MaxTokens \in Nat
  BY Numbers, Constants
<1>1. /\ disk'.fence >= disk.fence /\ disk'.fence \in Nat /\ now' >= now /\ now' \in Nat
  <2>1. DriverTypes'
    BY TypesStep
  <2>2. disk' \in File
    BY <2>1 DEF DriverTypes, StoreTypes
  <2>3. now' \in Nat
    BY ClockStep, Constants
  <2> QED
    BY <2>2, <2>3, FenceStep, ClockStep DEF File
<1>2. CASE UNCHANGED <<executor, execCrashes>> /\ UNCHANGED late
  <2>1. UNCHANGED <<stamp, execFence, execDisk, written, late>>
    BY <1>2 DEF executor
  <2>2. ASSUME NEW c \in Call PROVE StampOk(c)'
    BY <1>0, <1>1, <2>1, StampNumbers DEF StampInv, StampOk
  <2>3. Ordered'
    BY <2>1 DEF StampInv, Ordered
  <2>4. Covered'
    <3>1. written \in Nat
      BY DEF DriverTypes, ExecTypes
    <3> QED
      BY <1>0, <1>1, <2>1, <3>1 DEF StampInv, Covered
  <2> QED
    BY <2>2, <2>3, <2>4 DEF StampInv
<1>3. ASSUME NEW c \in Call, Dispatch(c) PROVE StampInv'
  <2> DEFINE f == auth[c].fence
  <2>1. /\ f \in Nat /\ f <= disk.fence /\ disk.fence <= fence /\ fence <= minted
        /\ auth[c].token # 0
        /\ auth[c].token = lease.token => f = lease.fence /\ lease.fence = fence
    <3>1. AuthOk(c) /\ pc[c] \in Holding
      BY <1>3 DEF AuthInv, Dispatch, Holding
    <3> QED
      BY <3>1, StampNumbers DEF AuthOk, FenceInv, Table
  <2> HIDE DEF f
  <2>2. ExecutionFence(f) = now * 65536 + f
    BY <1>0, <2>1 DEF ExecutionFence
  <2>3. /\ stamp'[c].fence = now * 65536 + f /\ stamp'[c].lease = f
        /\ \A d \in Call : d # c => stamp'[d] = stamp[d]
        /\ UNCHANGED <<execFence, execDisk, written, now>>
        /\ late' = IF lease.token = auth[c].token THEN late ELSE late \cup {c}
    BY <1>3, <2>2 DEF Dispatch, DriverTypes, ExecTypes, clock, f
  <2>4. ASSUME NEW d \in Call PROVE StampOk(d)'
    <3>1. CASE d = c
      BY <1>0, <1>1, <2>1, <2>3, <3>1 DEF StampOk
    <3>2. CASE d # c
      BY <1>0, <1>1, <2>3, <3>2, StampNumbers DEF StampInv, StampOk
    <3> QED
      BY <3>1, <3>2
  <2>5. c \notin late' => \A d \in Call : stamp[d].lease <= f
    <3> SUFFICES ASSUME c \notin late', NEW d \in Call PROVE stamp[d].lease <= f
      OBVIOUS
    <3>1. f = fence
      BY <2>1, <2>3
    <3> QED
      BY <1>0, <2>1, <3>1, StampNumbers DEF StampInv, StampOk
  <2>6. Ordered'
    <3> SUFFICES ASSUME NEW d \in Call, d \notin late', NEW e \in Call,
                        stamp'[e].lease > stamp'[d].lease
                 PROVE  stamp'[e].fence > stamp'[d].fence
      BY DEF Ordered
    <3>1. CASE d = c /\ e = c
      BY <2>1, <2>3, <3>1
    <3>2. CASE d = c /\ e # c
      BY <2>1, <2>3, <2>5, <3>2, StampNumbers
    <3>3. CASE d # c /\ e = c
      <4>1. stamp[d].fence <= now * 65536 + stamp[d].lease /\ stamp[d].lease < f
        BY <2>3, <3>3 DEF StampInv, StampOk
      <4> QED
        BY <1>0, <2>1, <2>3, <3>3, <4>1, StampNumbers
    <3>4. CASE d # c /\ e # c
      BY <2>3, <3>4 DEF StampInv, Ordered
    <3> QED
      BY <3>1, <3>2, <3>3, <3>4
  <2>7. Covered'
    <3>1. written <= disk.fence /\ written \in Nat /\ execDisk <= execFence
      BY StampNumbers DEF StampInv, Covered
    <3>2. ASSUME NEW d \in Call, d \notin late', stamp'[d].lease < written
          PROVE  stamp'[d].fence < execDisk
      <4>1. CASE d = c
        <5>1. f = fence
          BY <2>1, <2>3, <3>2, <4>1
        <5> QED
          BY <1>0, <2>1, <2>3, <3>1, <3>2, <4>1, <5>1
      <4>2. CASE d # c
        BY <2>3, <3>2, <4>2 DEF StampInv, Covered
      <4> QED
        BY <4>1, <4>2
    <3> QED
      BY <1>0, <1>1, <2>3, <3>1, <3>2 DEF Covered
  <2> QED
    BY <2>4, <2>6, <2>7 DEF StampInv
<1>4. ASSUME NEW c \in Call, ExecutorStep(c) PROVE StampInv'
  <2>1. UNCHANGED <<stamp, late, now, disk>>
    BY <1>4 DEF ExecutorStep, Execute, Refuse, Complete, clock
  <2>2. (\A d \in Call : StampOk(d)') /\ Ordered'
    BY <2>1 DEF StampInv, StampOk, Ordered
  <2>3. CASE UNCHANGED <<execFence, execDisk, written>>
    BY <2>1, <2>2, <2>3 DEF StampInv, Covered
  <2>4. CASE Execute(c)
    <3>1. stamp[c].fence >= execFence /\ execFence' = stamp[c].fence
      BY <2>4 DEF Execute, Admits
    <3>2. CASE UNCHANGED <<execDisk, written>>
      BY <2>1, <2>2, <3>1, <3>2, StampNumbers DEF StampInv, Covered
    <3>3. CASE /\ execDisk' = stamp[c].fence
               /\ written' = IF stamp[c].lease > written THEN stamp[c].lease ELSE written
      <4>1. written' <= disk.fence
        BY <3>3 DEF StampInv, StampOk, Covered
      <4>2. ASSUME NEW d \in Call \ late, stamp[d].lease < written'
            PROVE  stamp[d].fence < stamp[c].fence
        <5>1. CASE stamp[d].lease < written
          BY <3>1, <5>1, StampNumbers DEF StampInv, Covered
        <5>2. CASE stamp[d].lease < stamp[c].lease
          BY <5>2, StampNumbers DEF StampInv, Ordered
        <5> QED
          BY <3>3, <4>2, <5>1, <5>2
      <4> QED
        BY <2>1, <2>2, <3>1, <3>3, <4>1, <4>2, StampNumbers DEF StampInv, Covered
    <3> QED
      BY <2>4, <3>2, <3>3 DEF Execute
  <2> QED
    BY <1>4, <2>3, <2>4 DEF ExecutorStep, Refuse, Complete
<1>5. CASE ExecutorRestart
  <2>1. UNCHANGED <<stamp, late, now, disk, execDisk, written>> /\ execFence' = execDisk
    BY <1>5 DEF ExecutorRestart
  <2>2. execDisk \in Nat
    BY DEF DriverTypes, ExecTypes
  <2> QED
    BY <2>1, <2>2 DEF StampInv, StampOk, Ordered, Covered
<1> QED
  BY <1>2, <1>3, <1>4, <1>5, ExecutorSteps

-----------------------------------------------------------------------------
(* Handoffs.                                                               *)

\* A request that is ready has nobody of its predecessor at work.
ReadyIdle(rs) ==
  \A i \in DOMAIN rs : rs[i].state = "ready" /\ rs[i].expires > now => rs[i].prev \notin editing

\* What is being edited is reported, in memory and in the file, and the file
\* does not complete a request before the memory does.
HandoffInv ==
  /\ editing \subseteq mutations /\ editing \subseteq disk.mutations
  /\ ReadyIdle(requests) /\ ReadyIdle(disk.requests)
  /\ DOMAIN disk.requests \subseteq DOMAIN requests
  /\ \A i \in DOMAIN disk.requests :
       disk.requests[i].state = "completed" => requests[i].state = "completed"

LEMMA HandoffInvStep ==
  ASSUME DriverTypes, HandoffInv, [Next]_vars
  PROVE  HandoffInv'
<1>0. /\ requests \in Requests /\ disk.requests \in Requests /\ now \in Nat /\ now' \in Nat
      /\ now' >= now /\ editing \subseteq Editor /\ Nobody \notin Editor
  <2>1. disk.requests \in Requests
    BY DEF DriverTypes, StoreTypes, File
  <2> QED
    BY <2>1, ClockStep, Constants DEF DriverTypes, StoreTypes, ClockTypes
<1>1. ASSUME NEW rs \in Requests, NEW i \in DOMAIN rs PROVE rs[i].expires \in Nat
  BY <1>1, RequestsFun DEF Handoff
<1>2. CASE ControllerRestart
  <2>1. /\ requests' = disk.requests /\ mutations' = disk.mutations /\ PersistOk
        /\ UNCHANGED <<editing, now>>
    BY <1>2 DEF ControllerRestart
  <2>2. disk'.requests = requests' /\ disk'.mutations = mutations'
    BY <2>1, DiskFields
  <2> QED
    BY <2>1, <2>2 DEF HandoffInv, ReadyIdle
<1>3. CASE ~ControllerRestart
  <2>1. RequestsMove
    BY <1>3, HandoffStep
  <2>2. \/ disk' = disk
        \/ disk'.requests = requests' /\ disk'.mutations = mutations'
    BY <1>3, TableStep, DiskFields DEF Keeps, Grants
  <2>3. UNCHANGED <<mutations, editing>> \/ \E a \in Editor : Starts(a) \/ Ends(a)
    BY <1>3, EditStep
  <2>4. DOMAIN disk'.requests \subseteq DOMAIN requests'
    BY <2>1, <2>2 DEF HandoffInv, RequestsMove
  <2>5. \A i \in DOMAIN disk'.requests :
          disk'.requests[i].state = "completed" => requests'[i].state = "completed"
    BY <2>1, <2>2 DEF HandoffInv, RequestsMove, Later, Open
  <2>6. CASE editing' \subseteq editing /\ editing' \subseteq mutations'
             /\ (mutations' = mutations \/ \E a \in Editor : Starts(a) \/ Ends(a))
    <3>1. editing' \subseteq disk'.mutations
      BY <2>2, <2>6 DEF HandoffInv
    <3>2. ReadyIdle(requests)'
      <4> SUFFICES ASSUME NEW i \in DOMAIN requests', requests'[i].state = "ready",
                          requests'[i].expires > now', requests'[i].prev \in editing'
                   PROVE  FALSE
        BY DEF ReadyIdle
      <4>1. mutations' # {} /\ requests'[i].prev # Nobody
        BY <1>0, <2>6
      <4>2. i \in DOMAIN requests
        BY <2>1, <4>1 DEF RequestsMove
      <4>3. /\ requests[i].state = "ready" /\ requests'[i].prev = requests[i].prev
            /\ requests'[i].expires = requests[i].expires
        BY <2>1, <4>1, <4>2 DEF RequestsMove, Later
      <4>4. requests[i].expires > now
        BY <1>0, <1>1, <4>2, <4>3
      <4> QED
        BY <2>6, <4>2, <4>3, <4>4 DEF HandoffInv, ReadyIdle
    <3>3. ReadyIdle(disk.requests)'
      <4>1. CASE disk' = disk
        <5> SUFFICES ASSUME NEW i \in DOMAIN disk.requests, disk.requests[i].state = "ready",
                            disk.requests[i].expires > now'
                     PROVE  disk.requests[i].prev \notin editing'
          BY <4>1 DEF ReadyIdle
        <5>1. disk.requests[i].expires > now
          BY <1>0, <1>1
        <5> QED
          BY <2>6, <5>1 DEF HandoffInv, ReadyIdle
      <4>2. CASE disk'.requests = requests'
        BY <3>2, <4>2 DEF ReadyIdle
      <4> QED
        BY <2>2, <4>1, <4>2
    <3> QED
      BY <2>4, <2>5, <2>6, <3>1, <3>2, <3>3 DEF HandoffInv
  <2>7. ASSUME NEW a \in Editor, Starts(a), PersistOk, editing' = editing \cup {a}
        PROVE  HandoffInv'
    <3>1. /\ ~Draining(a) /\ requests' = requests /\ mutations' = mutations \cup {a}
          /\ disk'.requests = requests' /\ disk'.mutations = mutations'
      BY <2>7, DiskFields DEF Starts
    <3>2. ASSUME NEW i \in DOMAIN requests, requests[i].state = "ready",
                 requests[i].expires > now'
          PROVE  requests[i].prev \notin editing'
      <4>1. requests[i].expires > now
        BY <1>0, <1>1, <3>2
      <4>2. requests[i].prev # a
        BY <3>1, <3>2, <4>1 DEF Draining, Open
      <4> QED
        BY <2>7, <3>2, <4>1, <4>2 DEF HandoffInv, ReadyIdle
    <3>3. ReadyIdle(requests)' /\ ReadyIdle(disk.requests)'
      BY <3>1, <3>2 DEF ReadyIdle
    <3> QED
      BY <2>4, <2>5, <2>7, <3>1, <3>3 DEF HandoffInv
  <2>8. CASE UNCHANGED <<mutations, editing>>
    BY <2>6, <2>8 DEF HandoffInv
  <2>9. ASSUME NEW a \in Editor, Starts(a) PROVE HandoffInv'
    BY <2>6, <2>7, <2>9 DEF Starts, HandoffInv
  <2>10. ASSUME NEW a \in Editor, Ends(a) PROVE HandoffInv'
    BY <2>6, <2>10 DEF Ends, HandoffInv
  <2> QED
    BY <2>3, <2>8, <2>9, <2>10
<1> QED
  BY <1>2, <1>3

-----------------------------------------------------------------------------
(* The specification.                                                      *)

DriverIInv == DriverTypes /\ CancelInv /\ FenceInv /\ AuthInv /\ HandoffInv

LEMMA InitDriver == Init => DriverIInv /\ StampInv
<1> SUFFICES ASSUME Init PROVE DriverIInv /\ StampInv
  OBVIOUS
<1>1. DriverTypes /\ CancelInv
  BY InitTypes
<1>2. FenceInv /\ AuthInv
  BY DEF Init, FenceInv, Table, AuthInv, AuthOk, NoLease, Holding
<1>3. HandoffInv
  BY DEF Init, HandoffInv, ReadyIdle
<1>4. StampInv
  BY DEF Init, StampInv, StampOk, Ordered, Covered, NoStamp
<1> QED
  BY <1>1, <1>2, <1>3, <1>4 DEF DriverIInv

LEMMA NextDriver == DriverIInv /\ [Next]_vars => DriverIInv'
BY TypesStep, FenceStep, AuthStep, HandoffInvStep DEF DriverIInv, AuthInv

\* The Controller's memory and file keep to the inductive invariant, over any
\* failed writes and restarts.
THEOREM DriverInvariance == Spec => []DriverIInv
  BY InitDriver, NextDriver, PTL DEF Spec

\* Type correctness of the driver lease, its handoff requests, the calls under
\* it and the Executor's fence record.
THEOREM DriverTypeCorrect == Spec => []TypeOK
<1>1. ASSUME DriverTypes PROVE TypeOK
  <2>1. \A i \in DOMAIN requests : requests[i] \in Handoff /\ requests[i].by # requests[i].prev
    BY <1>1, RequestsFun DEF DriverTypes, StoreTypes
  <2> QED
    BY <1>1, <2>1 DEF DriverTypes, StoreTypes, CallTypes, ExecTypes, ClockTypes, TypeOK
<1>2. DriverIInv => TypeOK
  BY <1>1 DEF DriverIInv
<1> QED
  BY <1>2, DriverInvariance, PTL

\* Every lease that driver.acquire, driver.take or driver.handoff.await gives
\* out has a higher fence than all before, whatever writes fail and whenever
\* the Controller is restarted.
THEOREM DriverFences == Spec => FencesIncrease
<1>1. ASSUME DriverIInv, [Next]_vars
      PROVE  [given'.token # given.token => given'.fence > given.fence]_vars
  BY <1>1, FenceStep DEF DriverIInv
<1> QED
  BY <1>1, DriverInvariance, PTL DEF Spec, FencesIncrease

\* A handoff request completes only when the driver it takes over from has no
\* reported mutation under way, restarts of the Controller included.
THEOREM HandoffsDrain == Spec => DrainedHandoff
<1> DEFINE A == \A i \in DOMAIN requests \cap DOMAIN requests' :
                  requests[i].state \in Open /\ requests'[i].state = "completed"
                    => requests[i].prev \notin editing
<1>1. ASSUME DriverIInv, [Next]_vars PROVE A
  <2> SUFFICES ASSUME NEW i \in DOMAIN requests \cap DOMAIN requests',
                      requests[i].state \in Open, requests'[i].state = "completed"
               PROVE  requests[i].prev \notin editing
    OBVIOUS
  <2>1. CASE ControllerRestart
    <3>1. requests' = disk.requests
      BY <2>1 DEF ControllerRestart
    <3> QED
      BY <1>1, <3>1 DEF DriverIInv, HandoffInv, Open
  <2>2. CASE ~ControllerRestart
    <3>1. Later(requests[i], requests'[i])
      BY <1>1, <2>2, HandoffStep DEF DriverIInv, RequestsMove
    <3>2. requests[i].expires > now /\ (requests[i].state = "ready" \/ mutations = {})
      BY <3>1 DEF Later, Open
    <3> QED
      BY <1>1, <3>2 DEF DriverIInv, HandoffInv, ReadyIdle
  <2> QED
    BY <2>1, <2>2
<1>2. DriverIInv /\ [Next]_vars => [A]_vars
  BY <1>1
<1> QED
  BY <1>2, DriverInvariance, PTL DEF Spec, DrainedHandoff

\* The outcome of a task is final while the Controller lives: what
\* TaskTable::transition refuses, and where task.cancel stands when it changes
\* a task, leave no way to replace it.
THEOREM OutcomesAreFinal == Spec => OutcomeIsFinal
<1> DEFINE A == \A c \in Call : task[c] \in Terminal /\ crashes' = crashes
                  => task'[c] = task[c]
<1>1. ASSUME DriverIInv, [Next]_vars PROVE A
  <2> SUFFICES ASSUME NEW c \in Call, task[c] \in Terminal, crashes' = crashes
               PROVE  task'[c] = task[c]
    OBVIOUS
  <2>1. ~ControllerRestart
    <3>1. crashes \in Nat
      BY <1>1, Constants DEF DriverIInv, DriverTypes, ClockTypes
    <3> QED
      BY <3>1 DEF ControllerRestart
  <2>2. TaskMoves(c)
    BY <1>1, <2>1, TaskStep DEF DriverIInv
  <2> QED
    BY <2>2 DEF TaskMoves, CanTransition, Terminal, NoTask
<1>2. DriverIInv /\ [Next]_vars => [A]_vars
  BY <1>1
<1> QED
  BY <1>2, DriverInvariance, PTL DEF Spec, OutcomeIsFinal

\* A delayed request that was dispatched in its driver's time is not executed
\* after a successor's, as long as the session has had no more leases than the
\* execution fence has room for (executor_execution_fence cuts the fence of a
\* lease off at 65535).
THEOREM DelayedWritesFenced == MaxTokens <= 65535 => (Spec => DelayedWriteFenced)
<1> SUFFICES ASSUME MaxTokens <= 65535 PROVE Spec => DelayedWriteFenced
  OBVIOUS
<1> DEFINE A == \A c \in Call \ late :
                  wire[c] = "transit" /\ wire'[c] = "executing" => stamp[c].lease >= written
<1>1. DriverIInv /\ StampInv /\ [Next]_vars => StampInv'
  BY StampStep DEF DriverIInv
<1>2. ASSUME DriverIInv, StampInv, [Next]_vars PROVE A
  <2> SUFFICES ASSUME NEW c \in Call \ late, wire[c] = "transit", wire'[c] = "executing"
               PROVE  stamp[c].lease >= written
    OBVIOUS
  <2>0. wire \in [Call -> Wire]
    BY <1>2 DEF DriverIInv, DriverTypes, ExecTypes
  <2>1. PICK d \in Call : Dispatch(d) \/ ExecutorStep(d)
    BY <1>2, ExecutorSteps DEF executor, ExecutorRestart
  <2>2. Execute(c)
    BY <2>0, <2>1 DEF Dispatch, ExecutorStep, Execute, Refuse, Complete
  <2>3. stamp[c].fence >= execFence
    BY <2>2 DEF Execute, Admits
  <2>4. /\ execDisk <= execFence
        /\ stamp[c].lease < written => stamp[c].fence < execDisk
    BY <1>2 DEF StampInv, Covered
  <2>5. /\ stamp[c].lease \in Nat /\ stamp[c].fence \in Nat
        /\ execDisk \in Nat /\ execFence \in Nat /\ written \in Nat
    BY <1>2, StampNumbers DEF DriverIInv
  <2> QED
    BY <2>3, <2>4, <2>5
<1>3. DriverIInv /\ StampInv /\ [Next]_vars => [A]_vars
  BY <1>2
<1> QED
  BY <1>1, <1>3, InitDriver, DriverInvariance, PTL DEF Spec, DelayedWriteFenced
=============================================================================
