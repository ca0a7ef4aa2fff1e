--------------------------- MODULE ResourceArbiter ---------------------------
(***************************************************************************)
(* The resource leases and operation locks of one Executor (resource.rs    *)
(* over the LeaseTable of lease.rs), as resource_dispatch in executor.rs   *)
(* uses them: begin() returns a Permit, the operation runs, and dropping   *)
(* the Permit frees its resources.                                         *)
(*                                                                         *)
(* Everything happens under the one `resources' mutex except the operation *)
(* itself, so a command, a begin and a drop are one step each, and other   *)
(* threads, the clock and a crash come between begin and drop.  `disk' is  *)
(* the last snapshot written; writing it may fail, and then the caller     *)
(* gets an error while the change to memory stays.                         *)
(*                                                                         *)
(* A lease's random token is a number that is never issued twice; it also  *)
(* stands for the owner it was issued to.  The digest under which a token  *)
(* is stored identifies the token, so it is the token.                     *)
(***************************************************************************)
EXTENDS Naturals, FiniteSets

CONSTANTS
  Resource,          \* resource names
  Thread,            \* RPC worker threads
  Ttl,               \* the lease durations callers ask for
  MaxTokens,         \* bound: leases issued
  MaxTime,           \* bound: the clock
  MaxSaveFailures,   \* bound: failures of persist()
  MaxCrashes         \* bound: crashes of the Executor

ASSUME ArbiterAssumption ==
  /\ Ttl \subseteq Nat \ {0}
  /\ MaxTokens \in Nat /\ MaxTime \in Nat
  /\ MaxSaveFailures \in Nat /\ MaxCrashes \in Nat

VARIABLES
  leases,       \* LeaseTable.leases in memory
  fences,       \* LeaseTable.fences in memory
  active,       \* resources of operations under way
  quarantined,  \* resources of operations a crash interrupted
  disk,         \* the last snapshot written
  permit,       \* the resources of each thread's Permit
  grant,        \* the tokens each thread presented for them
  now,          \* now_ms()
  minted,       \* tokens generated so far
  failures, crashes,
  \* The rest is history, read by the properties only.
  given,        \* per resource, the lease that a caller was last given
  dead,         \* tokens whose lease was released or given to another caller
  uncertain     \* resources with an interrupted operation nobody has checked

table   == <<leases, fences>>
flags   == <<active, quarantined>>
threads == <<permit, grant>>
history == <<given, dead, uncertain>>
vars    == <<table, flags, disk, threads, now, minted, failures, crashes, history>>

-----------------------------------------------------------------------------
NoToken == 0
NoLease == [token |-> NoToken, fence |-> 0, expiresAt |-> 0]
Lease   == [token: Nat, fence: Nat, expiresAt: Nat]

Live(r) == leases[r].token # NoToken /\ leases[r].expiresAt > now

\* LeaseTable::validate.
Validates(r, tok) == tok # NoToken /\ leases[r].token = tok /\ leases[r].expiresAt > now

\* A fault: an operation under way does not make its resource busy.
AvailableIgnoringActive(r) == r \notin quarantined
\* A fault: a resource that a crash left uncertain is free.
AvailableIgnoringQuarantine(r) == r \notin active

Available(r) == r \notin quarantined /\ r \notin active

-----------------------------------------------------------------------------
(* persist(): the snapshot of the state as the step leaves it.             *)

\* A fault: the snapshot forgets what the last crash left uncertain.
SnapshotActiveOnly ==
  [leases |-> leases', fences |-> fences', active |-> active']

Snapshot ==
  [leases |-> leases', fences |-> fences', active |-> active' \cup quarantined']

PersistOk  == disk' = Snapshot /\ UNCHANGED failures
PersistErr == /\ failures < MaxSaveFailures
              /\ failures' = failures + 1
              /\ UNCHANGED disk

-----------------------------------------------------------------------------
(* command().                                                              *)

\* A fault: fences count from the lease there is, not per resource.
NextFenceOfLease(r) == leases[r].fence + 1
\* A fault: an acquisition takes two fences.
NextFenceTwice(r) == fences[r] + 2

NextFence(r) == fences[r] + 1

\* resource.lease.acquire.  A caller learns its token only if persist() works.
Acquire(r) ==
  /\ Available(r)
  /\ ~Live(r)
  /\ minted < MaxTokens
  /\ minted' = minted + 1
  /\ \E ttl \in Ttl :
       leases' = [leases EXCEPT ![r] = [token |-> minted + 1,
                                        fence |-> NextFence(r),
                                        expiresAt |-> now + ttl]]
  /\ fences' = [fences EXCEPT ![r] = NextFence(r)]
  /\ UNCHANGED flags
  /\ \/ /\ PersistOk
        /\ given' = [given EXCEPT ![r] = leases'[r]]
        /\ dead' = dead \cup ({leases[r].token} \ {NoToken})
     \/ PersistErr /\ UNCHANGED <<given, dead>>
  /\ UNCHANGED <<threads, now, crashes, uncertain>>

Renew(r, tok) ==
  /\ Validates(r, tok)
  /\ \E ttl \in Ttl : leases' = [leases EXCEPT ![r].expiresAt = now + ttl]
  /\ UNCHANGED <<fences, flags>>
  /\ PersistOk \/ PersistErr
  /\ UNCHANGED <<threads, now, minted, crashes, history>>

\* resource.lease.validate writes the snapshot too.
Validate(r, tok) ==
  /\ Validates(r, tok)
  /\ UNCHANGED <<table, flags>>
  /\ PersistOk \/ PersistErr
  /\ UNCHANGED <<threads, now, minted, crashes, history>>

Release(r, tok) ==
  /\ Available(r)
  /\ Validates(r, tok)
  /\ leases' = [leases EXCEPT ![r] = NoLease]
  /\ UNCHANGED <<fences, flags>>
  /\ \/ PersistOk /\ dead' = dead \cup {tok}
     \/ PersistErr /\ UNCHANGED dead
  /\ UNCHANGED <<threads, now, minted, crashes, given, uncertain>>

\* resource.lease.list and resource.lease.status, and every refused command.
Read == UNCHANGED vars

\* resource.lease.recover with confirmExecutionStopped: the operator vouches
\* that the interrupted operation has stopped.
Recover(r) ==
  /\ r \notin active
  /\ quarantined' = quarantined \ {r}
  /\ uncertain' = uncertain \ {r}
  /\ UNCHANGED <<table, active>>
  /\ PersistOk \/ PersistErr
  /\ UNCHANGED <<threads, now, minted, crashes, given, dead>>

-----------------------------------------------------------------------------
(* begin(), the operation and the drop of its Permit.                      *)

\* A fault: the presented token is not compared with the lease's.
AdmitsAnyToken(r, tok) ==
  /\ Available(r)
  /\ IF tok = NoToken THEN ~Live(r) ELSE Live(r)

\* A caller without a token may use a resource that nobody leases.
Admits(r, tok) ==
  /\ Available(r)
  /\ IF tok = NoToken THEN ~Live(r) ELSE Validates(r, tok)

\* resource_dispatch of an operation on the resources R; g[r] is the token in
\* the grant for r, if there is one.  A grant for anything else is refused.
Begin(t, R, g) ==
  /\ permit[t] = {}
  /\ \A r \in R : Admits(r, g[r])
  /\ active' = active \cup R
  /\ UNCHANGED <<table, quarantined>>
  /\ \/ /\ PersistOk
        /\ permit' = [permit EXCEPT ![t] = R]
        /\ grant' = [grant EXCEPT ![t] = {g[r] : r \in R} \ {NoToken}]
     \/ PersistErr /\ UNCHANGED threads      \* `?' drops no Permit
  /\ UNCHANGED <<now, minted, crashes, history>>

\* A fault: a Permit for several resources frees one of them.
EndOfOne(t) ==
  /\ permit[t] # {}
  /\ \E r \in permit[t] : active' = active \ {r}
  /\ permit' = [permit EXCEPT ![t] = {}]
  /\ grant' = [grant EXCEPT ![t] = {}]
  /\ UNCHANGED <<table, quarantined>>
  /\ PersistOk \/ PersistErr
  /\ UNCHANGED <<now, minted, crashes, history>>

\* Drop for Permit: the operation has returned; persist() may fail silently.
End(t) ==
  /\ permit[t] # {}
  /\ active' = active \ permit[t]
  /\ permit' = [permit EXCEPT ![t] = {}]
  /\ grant' = [grant EXCEPT ![t] = {}]
  /\ UNCHANGED <<table, quarantined>>
  /\ PersistOk \/ PersistErr
  /\ UNCHANGED <<now, minted, crashes, history>>

-----------------------------------------------------------------------------
(* The environment.                                                        *)

Tick ==
  /\ now < MaxTime
  /\ now' = now + 1
  /\ UNCHANGED <<table, flags, disk, threads, minted, failures, crashes, history>>

\* LeaseTable::from_snapshot.
RestoredFences ==
  [r \in Resource |-> IF disk.leases[r].fence > disk.fences[r]
                     THEN disk.leases[r].fence ELSE disk.fences[r]]

\* The process dies anywhere; open() reads the snapshot.
Restart ==
  /\ crashes < MaxCrashes
  /\ crashes' = crashes + 1
  /\ leases' = disk.leases
  /\ fences' = RestoredFences
  /\ active' = {}
  /\ quarantined' = disk.active
  /\ permit' = [t \in Thread |-> {}]
  /\ grant' = [t \in Thread |-> {}]
  /\ uncertain' = uncertain \cup UNION {permit[t] : t \in Thread}
  /\ UNCHANGED <<disk, now, minted, failures, given, dead>>

-----------------------------------------------------------------------------
Init ==
  /\ leases = [r \in Resource |-> NoLease]
  /\ fences = [r \in Resource |-> 0]
  /\ active = {} /\ quarantined = {}
  /\ disk = [leases |-> leases, fences |-> fences, active |-> {}]
  /\ permit = [t \in Thread |-> {}]
  /\ grant = [t \in Thread |-> {}]
  /\ now = 0 /\ minted = 0 /\ failures = 0 /\ crashes = 0
  /\ given = [r \in Resource |-> NoLease]
  /\ dead = {} /\ uncertain = {}

\* Callers may present any token that was ever generated.
Next ==
  \/ \E r \in Resource :
       \/ Acquire(r) \/ Recover(r)
       \/ \E tok \in 1..minted : Renew(r, tok) \/ Validate(r, tok) \/ Release(r, tok)
  \/ \E t \in Thread, R \in SUBSET Resource \ {{}} :
       \E g \in [R -> 0..minted] : Begin(t, R, g)
  \/ \E t \in Thread : End(t)
  \/ Read
  \/ Tick
  \/ Restart

Spec == Init /\ [][Next]_vars

-----------------------------------------------------------------------------
(* Properties.                                                             *)

\* Every variable has its type; a resource has had at most one fence for every
\* lease that was issued.
TypeOK ==
  /\ leases \in [Resource -> Lease] /\ fences \in [Resource -> 0..minted]
  /\ active \subseteq Resource /\ quarantined \subseteq Resource
  /\ disk \in [leases: [Resource -> Lease], fences: [Resource -> Nat],
               active: SUBSET Resource]
  /\ permit \in [Thread -> SUBSET Resource] /\ grant \in [Thread -> SUBSET Nat]
  /\ now \in Nat /\ minted \in Nat /\ failures \in Nat /\ crashes \in Nat
  /\ given \in [Resource -> Lease] /\ dead \subseteq Nat
  /\ uncertain \subseteq Resource

\* Operations of two threads never run on a common resource, and none runs on
\* a resource whose last operation is uncertain.
Exclusion ==
  \A t \in Thread :
    /\ \A u \in Thread : t # u => permit[t] \cap permit[u] = {}
    /\ permit[t] \cap uncertain = {}

\* ADR 0003: "restart with an uncertain operation quarantines that resource",
\* also when saves have failed and over several restarts, until recovery.
UncertainQuarantined == uncertain \subseteq quarantined

\* Fences order the holders of a resource: a lease given to a caller has a
\* higher fence than every lease given before, over restarts too.
FencesIncrease ==
  [][\A r \in Resource :
       given'[r].token # given[r].token => given'[r].fence > given[r].fence]_vars

\* ADR 0003: "An in-flight operation keeps its resource busy even after its
\* lease expires": nobody is given the lease under a running operation.
LeaseStaysUnderOperation ==
  [][\A t \in Thread : permit[t] # {} /\ permit'[t] = permit[t] =>
       \A r \in permit[t] : leases'[r].token = leases[r].token]_vars

\* An operation never runs on the token of a lease that was released or has
\* passed to another caller.
NoStaleGrant == \A t \in Thread : grant[t] \cap dead = {}

\* "operation is still executing on {resource}" (available): as long as every
\* write has worked, a resource is busy only while an operation runs on it.
\* (A write that fails in begin() leaves its resources busy until a restart.)
BusyMeansExecuting == failures = 0 => active \subseteq UNION {permit[t] : t \in Thread}
=============================================================================
