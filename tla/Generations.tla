---------------------------- MODULE Generations ----------------------------
(***************************************************************************)
(* Publishing generations of an application: materialize a copy, apply     *)
(* overlays, record it as ready and activate it (generation.rs and the     *)
(* application calls of executor.rs), with the transaction that the        *)
(* Controller keeps about it (controller.rs, transaction.begin and         *)
(* transaction.record).  Every generation has one publisher, a client that *)
(* makes these calls in order and repeats the ones that fail.  A call may  *)
(* be given up and carried out later, file operations may fail and the     *)
(* Executor may crash between any two of them.                             *)
(***************************************************************************)
EXTENDS Naturals, Sequences, FiniteSets, FiniteSetsExt

CONSTANTS
  Gen,           \* generations, and their publishers
  NoGen,
  MaxMutating,   \* size of the Executor's pool for mutating calls
  MaxRequests,   \* bound: calls of the Executor
  MaxGenFaults,  \* bound: failing file operations, calls given up, crashes
  Millisecond    \* now_ms() when a call is dispatched

ASSUME GenerationsAssumption ==
  /\ NoGen \notin Gen
  /\ MaxMutating \in Nat \ {0}
  /\ {MaxRequests, MaxGenFaults} \subseteq Nat
  /\ Millisecond \in [1..MaxRequests -> Nat]
  /\ \A i, j \in 1..MaxRequests : i <= j => Millisecond[i] <= Millisecond[j]

VARIABLES
  tree,        \* generations/<id>: marker, copied completely, overlay
  tmp,         \* generations/.<id>.<pid>.tmp of this process exists
  current, previous,   \* the two links
  stage, waits,        \* each publisher: calls that succeeded, call awaited
  sent,        \* calls on their way
  running,     \* calls that the Executor carries out
  stamp,       \* calls dispatched so far
  fence,       \* the Executor's fence for the workspace driver
  runtime,     \* the lease of runtime:<executor>: publisher and token
  inDoubtKeys, \* resources in quarantine
  transaction, \* TransactionState of every publisher
  genFaults,
  swaps        \* history: token and generation of every change of `current'

files     == <<tree, tmp, current, previous>>
publisher == <<stage, waits, stamp, transaction>>
genVars   == <<files, publisher, sent, running, fence, runtime, inDoubtKeys, genFaults, swaps>>

-----------------------------------------------------------------------------
\* The calls a publisher makes, in this order.
Calls == <<"materialize", "apply", "record", "activate">>

NoTree == [marker |-> "absent", whole |-> FALSE, overlay |-> "base"]
NoLease == [by |-> NoGen, token |-> 0]

\* What a call locks (contract, capability_authority).
KeysOf(kind, g) ==
  CASE kind \in {"materialize", "record"} -> {<<"generation", g>>}
    [] kind = "apply"                     -> {<<"application", g>>}
    [] kind = "activate"                  -> {<<"activation">>, <<"runtime">>}

Locked == UNION {KeysOf(r.kind, r.gen) : r \in running}

Trouble == genFaults < MaxGenFaults /\ genFaults' = genFaults + 1

\* One of the calls that run goes on to its next step.
Goes(r, step) == running' = (running \ {r}) \cup {[r EXCEPT !.step = step]}

\* transaction.record after the answer of an activation.
Recorded(r, state) ==
  IF r.kind = "activate" THEN [transaction EXCEPT ![r.gen] = state] ELSE transaction

\* A call that ran or was refused is answered; its publisher goes on or will
\* repeat it, if it still waits, and gives the lease back.
Answered(r, ok) ==
  /\ IF waits[r.gen] = r.stamp
     THEN /\ waits' = [waits EXCEPT ![r.gen] = 0]
          /\ stage' = [stage EXCEPT ![r.gen] = IF ok THEN @ + 1 ELSE @]
          /\ transaction' = Recorded(r, IF ok THEN "activated" ELSE "failed")
          /\ runtime' = IF r.kind = "activate" /\ runtime = [by |-> r.gen, token |-> r.token]
                        THEN NoLease ELSE runtime
     ELSE UNCHANGED <<waits, stage, transaction, runtime>>
  /\ UNCHANGED <<stamp, sent, fence, inDoubtKeys>>

Ended(r, ok) == running' = running \ {r} /\ Answered(r, ok)

-----------------------------------------------------------------------------
(* The publisher (external) and the Controller's transaction.              *)

\* resource.lease.acquire of the runtime: the publisher's own lease, or a free one.
LeaseFor(g) ==
  IF runtime.by = g THEN {runtime}
  ELSE IF runtime = NoLease /\ <<"runtime">> \notin Locked \cup inDoubtKeys
       THEN {[by |-> g, token |-> stamp + 1]} ELSE {}

\* transaction.begin is repeated without effect; an activation is recorded as
\* started.
TransactionBegun(g, kind) ==
  [transaction EXCEPT ![g] = CASE kind = "activate" -> "running"
                               [] @ = "none" -> "planned"
                               [] OTHER -> @]

\* executor_execution_fence: the fence of a call is the time of its dispatch.
\* Calls may share a millisecond, but a publisher does not repeat a call, nor make
\* its next one, in the millisecond of one of its own that is still on its way: it
\* gives a call up only after its time-out.
FenceOf(n) == Millisecond[n]
Timely(g) == \A r \in sent \cup running : r.gen = g => FenceOf(r.stamp) < FenceOf(stamp + 1)

\* The Controller dispatches the next call of a publisher.
Send(g) ==
  /\ stage[g] < Len(Calls)
  /\ waits[g] = 0
  /\ stamp < MaxRequests
  /\ Timely(g)
  /\ LET kind == Calls[stage[g] + 1]
     IN  /\ \E lease \in IF kind = "activate" THEN LeaseFor(g) ELSE {runtime} :
              /\ runtime' = lease
              /\ sent' = sent \cup {[gen |-> g, kind |-> kind, stamp |-> stamp + 1,
                                     token |-> IF kind = "activate" THEN lease.token ELSE 0,
                                     step |-> "sent", old |-> NoGen]}
         /\ transaction' = TransactionBegun(g, kind)
  /\ stamp' = stamp + 1
  /\ waits' = [waits EXCEPT ![g] = stamp + 1]
  /\ UNCHANGED <<files, stage, running, fence, inDoubtKeys, genFaults, swaps>>

\* The call's time is over, its outcome unknown; the call itself may be late.
GiveUpCall(g) ==
  /\ waits[g] # 0
  /\ Trouble
  /\ waits' = [waits EXCEPT ![g] = 0]
  /\ transaction' = IF Calls[stage[g] + 1] = "activate"
                    THEN [transaction EXCEPT ![g] = "outcome-unknown"] ELSE transaction
  /\ UNCHANGED <<files, stage, stamp, sent, running, fence, runtime, inDoubtKeys, swaps>>

LeaseExpires ==
  /\ runtime # NoLease
  /\ IF waits[runtime.by] = 0 THEN UNCHANGED genFaults ELSE Trouble
  /\ runtime' = NoLease
  /\ UNCHANGED <<files, publisher, sent, running, fence, inDoubtKeys, swaps>>

-----------------------------------------------------------------------------
(* Admission by the Executor.                                              *)

\* A fault: the driver's fence is not compared.
FreshAlways(r) == TRUE

\* enforce_authority: a call of the driver must not be older than one that was
\* admitted; one of the same millisecond is admitted too.
Fresh(r) == r.kind = "activate" \/ FenceOf(r.stamp) >= fence

\* try_acquire of the mutating pool, Resources::begin and the authority.
PoolFree == Cardinality(running) < MaxMutating
MayRun(r) ==
  /\ PoolFree
  /\ KeysOf(r.kind, r.gen) \cap (Locked \cup inDoubtKeys) = {}
  /\ r.kind = "activate" => runtime = [by |-> r.gen, token |-> r.token]
  /\ Fresh(r)

BeginCall(r) ==
  /\ r \in sent
  /\ MayRun(r)
  /\ sent' = sent \ {r}
  /\ running' = running \cup {[r EXCEPT !.step = "begun"]}
  /\ fence' = IF r.kind = "activate" THEN fence ELSE FenceOf(r.stamp)
  /\ UNCHANGED <<files, publisher, runtime, inDoubtKeys, genFaults, swaps>>

RefuseCall(r) ==
  /\ r \in sent
  /\ ~MayRun(r)
  /\ sent' = sent \ {r}
  /\ IF waits[r.gen] = r.stamp
     THEN waits' = [waits EXCEPT ![r.gen] = 0] /\ transaction' = Recorded(r, "failed")
     ELSE UNCHANGED <<waits, transaction>>
  /\ UNCHANGED <<files, stage, stamp, running, fence, runtime, inDoubtKeys, genFaults, swaps>>

-----------------------------------------------------------------------------
(* application.materialize (materialize_derived).                          *)

At(r, kind, step) == r \in running /\ r.kind = kind /\ r.step = step

\* A generation that exists is reused or refused; a temporary directory that
\* an earlier call left is in the way until the Executor restarts.
StartMaterialize(r) ==
  /\ At(r, "materialize", "begun")
  /\ IF tree[r.gen] # NoTree \/ tmp[r.gen]
     THEN /\ Ended(r, tree[r.gen].marker = "materialized")
          /\ UNCHANGED tmp
     ELSE /\ tmp' = [tmp EXCEPT ![r.gen] = TRUE]
          /\ Goes(r, "copied")
          /\ UNCHANGED <<publisher, sent, fence, runtime, inDoubtKeys>>
  /\ UNCHANGED <<tree, current, previous, genFaults, swaps>>

\* The marker is written and the directory renamed.
Installed(g) == [tree EXCEPT ![g] = [marker |-> "materialized", whole |-> TRUE, overlay |-> "base"]]

\* A copy that fails is marked as failed, if that works, and renamed too, if
\* that works.
FinishMaterialize(r) ==
  /\ At(r, "materialize", "copied")
  /\ UNCHANGED <<current, previous, swaps>>
  /\ \/ /\ tree' = Installed(r.gen)
        /\ tmp' = [tmp EXCEPT ![r.gen] = FALSE]
        /\ Ended(r, TRUE)
        /\ UNCHANGED genFaults
     \/ /\ Trouble
        /\ \E marker \in {"failed", "unreadable"} :
             tree' = [tree EXCEPT ![r.gen] = [marker |-> marker, whole |-> FALSE, overlay |-> "base"]]
        /\ tmp' = [tmp EXCEPT ![r.gen] = FALSE]
        /\ Ended(r, FALSE)
     \/ /\ Trouble
        /\ Ended(r, FALSE)
        /\ UNCHANGED <<tree, tmp>>

-----------------------------------------------------------------------------
(* application.apply-artifacts (apply_overlays), whatever the marker says. *)

\* The overlay is copied beside its target, and the target moved away.
OverlayAway(r) ==
  /\ At(r, "apply", "begun")
  /\ \/ /\ tree[r.gen] # NoTree
        /\ tree' = [tree EXCEPT ![r.gen].overlay = "missing"]
        /\ running' = (running \ {r}) \cup
             {[r EXCEPT !.step = "away", !.old = tree[r.gen].overlay]}
        /\ UNCHANGED <<publisher, sent, fence, runtime, inDoubtKeys, genFaults>>
     \/ /\ IF tree[r.gen] = NoTree THEN UNCHANGED genFaults ELSE Trouble
        /\ Ended(r, FALSE)
        /\ UNCHANGED tree
  /\ UNCHANGED <<tmp, current, previous, swaps>>

\* The copy is moved in, or the old target back; an old target that cannot be
\* removed makes the call fail as well.
OverlayIn(r) ==
  /\ At(r, "apply", "away")
  /\ \/ /\ tree' = [tree EXCEPT ![r.gen].overlay = "new"]
        /\ \/ Ended(r, TRUE) /\ UNCHANGED genFaults
           \/ Ended(r, FALSE) /\ Trouble
     \/ /\ Trouble
        /\ tree' \in {tree, [tree EXCEPT ![r.gen].overlay = r.old]}
        /\ Ended(r, FALSE)
  /\ UNCHANGED <<tmp, current, previous, swaps>>

-----------------------------------------------------------------------------
(* application.generation.record and application.activate.                 *)

\* record_state: the marker must be readable; any state replaces any other.
RecordReady(r) ==
  /\ At(r, "record", "begun")
  /\ \/ /\ tree[r.gen].marker \notin {"absent", "unreadable"}
        /\ tree' = [tree EXCEPT ![r.gen].marker = "ready"]
        /\ Ended(r, TRUE)
        /\ UNCHANGED genFaults
     \/ /\ IF tree[r.gen].marker \in {"absent", "unreadable"} THEN UNCHANGED genFaults ELSE Trouble
        /\ Ended(r, FALSE)
        /\ UNCHANGED tree
  /\ UNCHANGED <<tmp, current, previous, swaps>>

\* activate: the marker and the old link are read ...
Activatable(g) == tree[g].marker = "ready"

StartActivate(r) ==
  /\ At(r, "activate", "begun")
  /\ IF Activatable(r.gen)
     THEN /\ running' = (running \ {r}) \cup {[r EXCEPT !.step = "checked", !.old = current]}
          /\ UNCHANGED <<publisher, sent, fence, runtime, inDoubtKeys>>
     ELSE Ended(r, FALSE)
  /\ UNCHANGED <<files, genFaults, swaps>>

\* ... the link is replaced by a rename (replace_directory_link) ...
SwapCurrent(r) ==
  /\ At(r, "activate", "checked")
  /\ \/ /\ current' = r.gen
        /\ swaps' = swaps \cup {<<r.token, r.gen>>}
        /\ IF r.old = NoGen
           THEN Ended(r, TRUE)
           ELSE /\ Goes(r, "swapped")
                /\ UNCHANGED <<publisher, sent, fence, runtime, inDoubtKeys>>
        /\ UNCHANGED genFaults
     \/ /\ Trouble
        /\ Ended(r, FALSE)
        /\ UNCHANGED <<current, swaps>>
  /\ UNCHANGED <<tree, tmp, previous>>

\* ... and the old one becomes the previous, or the call fails although the
\* generation is current.
SwapPrevious(r) ==
  /\ At(r, "activate", "swapped")
  /\ \/ /\ previous' = r.old
        /\ Ended(r, TRUE)
        /\ UNCHANGED genFaults
     \/ /\ Trouble
        /\ Ended(r, FALSE)
        /\ UNCHANGED previous
  /\ UNCHANGED <<tree, tmp, current, swaps>>

-----------------------------------------------------------------------------
(* Faults.                                                                 *)

\* The Executor crashes: what it had begun puts its resources in quarantine,
\* and the temporary directories belong to no process any more.
CrashPublishing ==
  /\ Trouble
  /\ inDoubtKeys' = inDoubtKeys \cup Locked
  /\ waits' = [g \in Gen |-> IF \E r \in running : r.stamp = waits[g] THEN 0 ELSE waits[g]]
  /\ transaction' = [g \in Gen |-> IF \E r \in running : r.stamp = waits[g] /\ r.kind = "activate"
                                   THEN "outcome-unknown" ELSE transaction[g]]
  /\ running' = {}
  /\ tmp' = [g \in Gen |-> FALSE]
  /\ UNCHANGED <<tree, current, previous, stage, stamp, sent, fence, runtime, swaps>>

\* resource.lease.recover.
RecoverKey(key) ==
  /\ key \in inDoubtKeys
  /\ inDoubtKeys' = inDoubtKeys \ {key}
  /\ UNCHANGED <<files, publisher, sent, running, fence, runtime, genFaults, swaps>>

-----------------------------------------------------------------------------
GenInit ==
  /\ tree = [g \in Gen |-> NoTree]
  /\ tmp = [g \in Gen |-> FALSE]
  /\ current = NoGen /\ previous = NoGen
  /\ stage = [g \in Gen |-> 0]
  /\ waits = [g \in Gen |-> 0]
  /\ transaction = [g \in Gen |-> "none"]
  /\ sent = {} /\ running = {} /\ inDoubtKeys = {} /\ swaps = {}
  /\ stamp = 0 /\ fence = 0 /\ genFaults = 0
  /\ runtime = NoLease

GenNext ==
  \/ \E g \in Gen : Send(g) \/ GiveUpCall(g)
  \/ LeaseExpires
  \/ \E r \in sent : BeginCall(r) \/ RefuseCall(r)
  \/ \E r \in running :
       \/ StartMaterialize(r) \/ FinishMaterialize(r)
       \/ OverlayAway(r) \/ OverlayIn(r)
       \/ RecordReady(r)
       \/ StartActivate(r) \/ SwapCurrent(r) \/ SwapPrevious(r)
  \/ CrashPublishing
  \/ \E key \in inDoubtKeys : RecoverKey(key)

GenSpec == GenInit /\ [][GenNext]_genVars

-----------------------------------------------------------------------------
(* Properties.                                                             *)

\* The variables have their types, no call runs beyond the pool, and a
\* transaction that is recorded as activated is one whose generation was.
GenTypeOK ==
  /\ \A g \in Gen : tree[g].overlay \in {"base", "missing", "new"}
  /\ {current, previous} \subseteq Gen \cup {NoGen}
  /\ stage \in [Gen -> 0..Len(Calls)]
  /\ waits \in [Gen -> 0..stamp]
  /\ Cardinality(running) <= MaxMutating
  /\ \A g \in Gen : transaction[g] = "activated" => \E s \in swaps : s[2] = g

\* The generation in use, and the one kept for a rollback, is a complete copy
\* with its overlay, whatever calls are late or repeated, whichever file
\* operation fails and wherever the Executor crashes.
CurrentIsWhole ==
  \A g \in {current, previous} \ {NoGen} : tree[g].whole /\ tree[g].overlay = "new"

\* The generation in use is the one of the latest lease of the runtime under
\* which an activation took place: an activation that was given up does not
\* come back after that of the next publisher.
CurrentIsLatest ==
  \A s \in swaps : s[1] = Max({t[1] : t \in swaps}) => current = s[2]
=============================================================================
