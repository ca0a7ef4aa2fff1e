------------------------ MODULE ResourceArbiterProofs ------------------------
(***************************************************************************)
(* Proofs about ResourceArbiter, for any sets of resources and threads and *)
(* any bounds.  Three inductive invariants, each resting on the ones       *)
(* before: FenceInv (types, and how fences are bounded), LockInv (which    *)
(* resources an operation holds, in memory and in the snapshot) and        *)
(* TokenInv (which tokens operations run on).                              *)
(***************************************************************************)
EXTENDS ResourceArbiter, TLAPS

\* Fences in memory and on disk: no more than leases were issued, and no less
\* than what callers were given.
FencesBounded ==
  \A r \in Resource :
    /\ leases[r].fence <= minted
    /\ disk.leases[r].fence <= minted
    /\ disk.fences[r] <= minted
    /\ given[r].fence <= fences[r]
    /\ given[r].fence <= disk.fences[r]

FenceInv == TypeOK /\ FencesBounded

\* Permits exclude each other.
Disjoint == \A t, u \in Thread : t # u => permit[t] \cap permit[u] = {}

\* What a Permit covers is busy, also in the snapshot, and not quarantined.
PermitsHeld ==
  \A t \in Thread :
    /\ permit[t] \subseteq active
    /\ permit[t] \subseteq disk.active
    /\ permit[t] \cap quarantined = {}

\* What is uncertain is quarantined, and stays so over a restart.
UncertainKept == uncertain \subseteq quarantined /\ uncertain \subseteq disk.active

LockInv == Disjoint /\ PermitsHeld /\ UncertainKept

\* A table's tokens were issued, are not dead, and belong to one resource each.
Tokens(l) ==
  /\ \A r \in Resource : l[r].token <= minted /\ l[r].token \notin dead
  /\ \A r, s \in Resource : r # s /\ l[r].token = l[s].token => l[r].token = NoToken

\* An operation runs on the tokens of leases of its resources.
GrantsHeld ==
  \A t \in Thread : \A k \in grant[t] : \E r \in permit[t] : leases[r].token = k

TokenInv ==
  Tokens(leases) /\ Tokens(disk.leases) /\ dead \subseteq 1..minted /\ GrantsHeld

-----------------------------------------------------------------------------
(* The snapshot.                                                           *)

\* persist() that works leaves a snapshot of the state.
LEMMA PersistOkWrites ==
  ASSUME PersistOk
  PROVE  /\ disk'.leases = leases'
         /\ disk'.fences = fences'
         /\ disk'.active = active' \cup quarantined'
         /\ disk' = [leases |-> leases', fences |-> fences',
                     active |-> active' \cup quarantined']
         /\ failures' = failures
  BY DEF PersistOk, Snapshot

LEMMA PersistErrKeeps ==
  ASSUME PersistErr PROVE disk' = disk /\ failures' = failures + 1
  BY DEF PersistErr

-----------------------------------------------------------------------------
(* FenceInv.                                                               *)

LEMMA FenceInit == Init => FenceInv
  <1> SUFFICES ASSUME Init PROVE FenceInv
      OBVIOUS
  <1>1. NoLease \in Lease
      BY DEF NoLease, Lease, NoToken
  <1>2. TypeOK
      BY <1>1 DEF Init, TypeOK
  <1>3. FencesBounded
      BY DEF Init, FencesBounded, NoLease
  <1> QED
      BY <1>2, <1>3 DEF FenceInv

\* The lease table changes within its type, and with it what is written.
LEMMA FenceSave ==
  ASSUME FenceInv,
         leases' \in [Resource -> Lease], fences' \in [Resource -> 0..minted'],
         active' \subseteq Resource, quarantined' \subseteq Resource,
         minted \in Nat, minted' \in Nat, minted <= minted',
         given' \in [Resource -> Lease],
         \A r \in Resource : /\ leases'[r].fence <= minted'
                             /\ given'[r].fence <= fences'[r],
         \/ PersistOk
         \/ PersistErr /\ given' = given
  PROVE  /\ disk' \in [leases: [Resource -> Lease], fences: [Resource -> Nat],
                        active: SUBSET Resource]
         /\ failures' \in Nat
         /\ FencesBounded'
  <1>0. /\ disk \in [leases: [Resource -> Lease], fences: [Resource -> Nat],
                      active: SUBSET Resource]
        /\ failures \in Nat
      BY DEF FenceInv, TypeOK
  <1>1. CASE PersistOk
    <2>1. fences' \in [Resource -> Nat]
        OBVIOUS
    <2>2. disk' \in [leases: [Resource -> Lease], fences: [Resource -> Nat],
                     active: SUBSET Resource]
        BY <1>1, <2>1, PersistOkWrites
    <2>3. \A r \in Resource : fences'[r] <= minted'
        OBVIOUS
    <2> QED
        BY <1>0, <1>1, <2>2, <2>3, PersistOkWrites DEF FencesBounded
  <1>2. CASE PersistErr /\ given' = given
    <2>1. disk' = disk /\ failures' \in Nat
        BY <1>0, <1>2, PersistErrKeeps
    <2>2. \A r \in Resource : disk.leases[r].fence \in Nat /\ disk.fences[r] \in Nat
        BY <1>0 DEF Lease
    <2>3. \A r \in Resource : /\ disk.leases[r].fence <= minted'
                              /\ disk.fences[r] <= minted'
        BY <2>2 DEF FenceInv, FencesBounded
    <2> QED
        BY <1>0, <1>2, <2>1, <2>3 DEF FencesBounded, FenceInv
  <1> QED
      BY <1>1, <1>2

\* The same for a step that leaves the table, the clock's bounds and the history
\* of leases alone.
LEMMA FenceQuiet ==
  ASSUME FenceInv, UNCHANGED <<table, now, minted, crashes, given, dead>>,
         active' \subseteq Resource, quarantined' \subseteq Resource,
         permit' \in [Thread -> SUBSET Resource], grant' \in [Thread -> SUBSET Nat],
         uncertain' \subseteq Resource,
         PersistOk \/ PersistErr
  PROVE  FenceInv'
  <1>1. /\ leases' = leases /\ fences' = fences /\ now' = now /\ minted' = minted
        /\ crashes' = crashes /\ given' = given /\ dead' = dead
      BY DEF table
  <1>2. /\ leases \in [Resource -> Lease] /\ fences \in [Resource -> 0..minted]
        /\ minted \in Nat /\ now \in Nat /\ crashes \in Nat
        /\ given \in [Resource -> Lease] /\ dead \subseteq Nat
      BY DEF FenceInv, TypeOK
  <1>3. \A r \in Resource : leases[r].fence <= minted /\ given[r].fence <= fences[r]
      BY DEF FenceInv, FencesBounded
  <1>4. /\ disk' \in [leases: [Resource -> Lease], fences: [Resource -> Nat],
                       active: SUBSET Resource]
        /\ failures' \in Nat
        /\ FencesBounded'
      BY <1>1, <1>2, <1>3, FenceSave
  <1>5. TypeOK'
      BY <1>1, <1>2, <1>4 DEF TypeOK
  <1> QED
      BY <1>4, <1>5 DEF FenceInv

LEMMA FenceAcquire ==
  ASSUME FenceInv, NEW r \in Resource, Acquire(r) PROVE FenceInv'
  <1>1. /\ leases \in [Resource -> Lease] /\ fences \in [Resource -> 0..minted]
        /\ minted \in Nat /\ now \in Nat /\ crashes \in Nat
        /\ given \in [Resource -> Lease] /\ dead \subseteq Nat
        /\ active \subseteq Resource /\ quarantined \subseteq Resource
        /\ permit \in [Thread -> SUBSET Resource] /\ grant \in [Thread -> SUBSET Nat]
        /\ uncertain \subseteq Resource
      BY DEF FenceInv, TypeOK
  <1>2. /\ minted' = minted + 1 /\ minted' \in Nat /\ minted <= minted'
        /\ fences' = [fences EXCEPT ![r] = fences[r] + 1]
        /\ active' = active /\ quarantined' = quarantined /\ permit' = permit
        /\ grant' = grant /\ now' = now /\ crashes' = crashes /\ uncertain' = uncertain
      BY <1>1 DEF Acquire, NextFence, flags, threads
  <1>3. PICK ttl \in Ttl :
          leases' = [leases EXCEPT ![r] = [token |-> minted + 1, fence |-> fences[r] + 1,
                                           expiresAt |-> now + ttl]]
      BY DEF Acquire, NextFence
  <1>4. ttl \in Nat
      BY ArbiterAssumption
  <1>5. fences[r] \in Nat /\ fences[r] <= minted
      BY <1>1
  <1>6. [token |-> minted + 1, fence |-> fences[r] + 1, expiresAt |-> now + ttl] \in Lease
    <2>1. minted + 1 \in Nat /\ fences[r] + 1 \in Nat /\ now + ttl \in Nat
        BY <1>1, <1>4, <1>5
    <2> QED
        BY <2>1, SMT DEF Lease
  <1>7. leases' \in [Resource -> Lease]
      BY <1>1, <1>3, <1>6
  <1>8. fences' \in [Resource -> 0..minted']
    <2>1. fences[r] + 1 \in 0..minted'
        BY <1>1, <1>2, <1>5
    <2>2. \A s \in Resource : fences[s] \in 0..minted'
        BY <1>1, <1>2
    <2> QED
        BY <1>1, <1>2, <2>1, <2>2
  <1>9. \A s \in Resource : leases'[s].fence <= minted'
    <2> SUFFICES ASSUME NEW s \in Resource PROVE leases'[s].fence <= minted'
        OBVIOUS
    <2>1. CASE s = r
      <3>1. leases'[r].fence = fences[r] + 1
          BY <1>1, <1>3
      <3> QED
          BY <1>1, <1>2, <1>5, <2>1, <3>1
    <2>2. CASE s # r
      <3>1. leases'[s] = leases[s]
          BY <1>1, <1>3, <2>2
      <3>2. leases[s].fence \in Nat /\ leases[s].fence <= minted
          BY <1>1 DEF FenceInv, FencesBounded, Lease
      <3> QED
          BY <1>1, <1>2, <3>1, <3>2
    <2> QED
        BY <2>1, <2>2
  <1>10. \A s \in Resource : given[s].fence <= fences'[s]
    <2> SUFFICES ASSUME NEW s \in Resource PROVE given[s].fence <= fences'[s]
        OBVIOUS
    <2>1. given[s].fence \in Nat /\ fences[s] \in Nat /\ given[s].fence <= fences[s]
        BY <1>1 DEF FenceInv, FencesBounded, Lease
    <2>2. fences'[s] = fences[s] \/ fences'[s] = fences[s] + 1
        BY <1>1, <1>2
    <2> QED
        BY <2>1, <2>2
  <1>11. \/ PersistOk /\ given' = [given EXCEPT ![r] = leases'[r]]
         \/ PersistErr /\ given' = given
      BY DEF Acquire
  <1>12. given' \in [Resource -> Lease]
      BY <1>1, <1>7, <1>11
  <1>13. \A s \in Resource : given'[s].fence <= fences'[s]
    <2>1. leases'[r].fence = fences'[r] /\ fences'[r] \in Nat
        BY <1>1, <1>2, <1>3, <1>5
    <2>2. CASE given' = given
        BY <1>10, <2>2
    <2>3. CASE given' = [given EXCEPT ![r] = leases'[r]]
      <3>1. \A s \in Resource : s # r => given'[s] = given[s]
          BY <1>1, <2>3
      <3>2. given'[r].fence <= fences'[r]
          BY <1>1, <2>1, <2>3
      <3> QED
          BY <1>10, <3>1, <3>2
    <2> QED
        BY <1>11, <2>2, <2>3
  <1>14. dead' \subseteq Nat
    <2>1. leases[r].token \in Nat
        BY <1>1 DEF Lease
    <2> QED
        BY <1>1, <2>1 DEF Acquire
  <1>15. /\ disk' \in [leases: [Resource -> Lease], fences: [Resource -> Nat],
                        active: SUBSET Resource]
         /\ failures' \in Nat
         /\ FencesBounded'
      BY <1>1, <1>2, <1>7, <1>8, <1>9, <1>11, <1>12, <1>13, FenceSave
  <1>16. TypeOK'
      BY <1>1, <1>2, <1>7, <1>8, <1>12, <1>14, <1>15 DEF TypeOK
  <1> QED
      BY <1>15, <1>16 DEF FenceInv

LEMMA FenceRenew ==
  ASSUME FenceInv, NEW r \in Resource, NEW tok, Renew(r, tok) PROVE FenceInv'
  <1>1. /\ leases \in [Resource -> Lease] /\ fences \in [Resource -> 0..minted]
        /\ minted \in Nat /\ now \in Nat /\ crashes \in Nat
        /\ given \in [Resource -> Lease] /\ dead \subseteq Nat
        /\ active \subseteq Resource /\ quarantined \subseteq Resource
        /\ permit \in [Thread -> SUBSET Resource] /\ grant \in [Thread -> SUBSET Nat]
        /\ uncertain \subseteq Resource
      BY DEF FenceInv, TypeOK
  <1>2. /\ fences' = fences /\ minted' = minted /\ now' = now /\ crashes' = crashes
        /\ given' = given /\ dead' = dead /\ uncertain' = uncertain
        /\ active' = active /\ quarantined' = quarantined
        /\ permit' = permit /\ grant' = grant
        /\ PersistOk \/ PersistErr
      BY DEF Renew, flags, threads, history
  <1>3. PICK ttl \in Ttl : leases' = [leases EXCEPT ![r].expiresAt = now + ttl]
      BY DEF Renew
  <1>4. now + ttl \in Nat
      BY <1>1, ArbiterAssumption
  <1>5. \A s \in Resource : leases'[s] \in Lease /\ leases'[s].fence = leases[s].fence
      BY <1>1, <1>3, <1>4 DEF Lease
  <1>6. leases' \in [Resource -> Lease]
      BY <1>1, <1>3, <1>5
  <1>7. \A s \in Resource : leases'[s].fence <= minted /\ given[s].fence <= fences[s]
      BY <1>5 DEF FenceInv, FencesBounded
  <1>8. /\ disk' \in [leases: [Resource -> Lease], fences: [Resource -> Nat],
                       active: SUBSET Resource]
        /\ failures' \in Nat
        /\ FencesBounded'
      BY <1>1, <1>2, <1>6, <1>7, FenceSave
  <1>9. TypeOK'
      BY <1>1, <1>2, <1>6, <1>8 DEF TypeOK
  <1> QED
      BY <1>8, <1>9 DEF FenceInv

LEMMA FenceRelease ==
  ASSUME FenceInv, NEW r \in Resource, NEW tok \in 1..minted, Release(r, tok)
  PROVE  FenceInv'
  <1>1. /\ leases \in [Resource -> Lease] /\ fences \in [Resource -> 0..minted]
        /\ minted \in Nat /\ now \in Nat /\ crashes \in Nat
        /\ given \in [Resource -> Lease] /\ dead \subseteq Nat
        /\ active \subseteq Resource /\ quarantined \subseteq Resource
        /\ permit \in [Thread -> SUBSET Resource] /\ grant \in [Thread -> SUBSET Nat]
        /\ uncertain \subseteq Resource
      BY DEF FenceInv, TypeOK
  <1>2. /\ fences' = fences /\ minted' = minted /\ now' = now /\ crashes' = crashes
        /\ given' = given /\ uncertain' = uncertain
        /\ active' = active /\ quarantined' = quarantined
        /\ permit' = permit /\ grant' = grant
        /\ PersistOk \/ PersistErr
        /\ leases' = [leases EXCEPT ![r] = NoLease]
      BY DEF Release, flags, threads
  <1>3. dead' \subseteq Nat
    <2>1. tok \in Nat
        BY <1>1
    <2>2. dead' = dead \/ dead' = dead \cup {tok}
        BY DEF Release
    <2> QED
        BY <1>1, <2>1, <2>2
  <1>4. NoLease \in Lease /\ NoLease.fence = 0
      BY DEF NoLease, Lease, NoToken
  <1>5. leases' \in [Resource -> Lease]
      BY <1>1, <1>2, <1>4
  <1>6. \A s \in Resource : leases'[s] = leases[s] \/ leases'[s] = NoLease
      BY <1>1, <1>2
  <1>7. \A s \in Resource : leases'[s].fence <= minted /\ given[s].fence <= fences[s]
      BY <1>1, <1>4, <1>6 DEF FenceInv, FencesBounded
  <1>8. /\ disk' \in [leases: [Resource -> Lease], fences: [Resource -> Nat],
                       active: SUBSET Resource]
        /\ failures' \in Nat
        /\ FencesBounded'
      BY <1>1, <1>2, <1>5, <1>7, FenceSave
  <1>9. TypeOK'
      BY <1>1, <1>2, <1>3, <1>5, <1>8 DEF TypeOK
  <1> QED
      BY <1>8, <1>9 DEF FenceInv

LEMMA FenceRestart ==
  ASSUME FenceInv, Restart PROVE FenceInv'
  <1>1. /\ disk \in [leases: [Resource -> Lease], fences: [Resource -> Nat],
                      active: SUBSET Resource]
        /\ minted \in Nat /\ now \in Nat /\ crashes \in Nat /\ failures \in Nat
        /\ given \in [Resource -> Lease] /\ dead \subseteq Nat
        /\ permit \in [Thread -> SUBSET Resource]
        /\ uncertain \subseteq Resource
      BY DEF FenceInv, TypeOK
  <1>2. /\ leases' = disk.leases /\ fences' = RestoredFences /\ active' = {}
        /\ quarantined' = disk.active /\ disk' = disk /\ now' = now /\ minted' = minted
        /\ failures' = failures /\ crashes' = crashes + 1 /\ given' = given /\ dead' = dead
        /\ permit' = [t \in Thread |-> {}] /\ grant' = [t \in Thread |-> {}]
        /\ uncertain' = uncertain \cup UNION {permit[t] : t \in Thread}
      BY DEF Restart
  <1>3. \A r \in Resource :
          /\ disk.leases[r].fence \in Nat /\ disk.fences[r] \in Nat
          /\ given[r].fence \in Nat
          /\ disk.leases[r].fence <= minted /\ disk.fences[r] <= minted
          /\ given[r].fence <= disk.fences[r]
      BY <1>1 DEF FenceInv, FencesBounded, Lease
  <1>4. \A r \in Resource : /\ RestoredFences[r] \in 0..minted
                            /\ disk.fences[r] <= RestoredFences[r]
      BY <1>1, <1>3 DEF RestoredFences
  <1>5. RestoredFences \in [Resource -> 0..minted]
      BY <1>4 DEF RestoredFences
  <1>6. uncertain' \subseteq Resource
      BY <1>1, <1>2
  <1>7. TypeOK'
    <2>1. crashes' \in Nat
        BY <1>1, <1>2
    <2> QED
        BY <1>1, <1>2, <1>5, <1>6, <2>1 DEF TypeOK
  <1>8. FencesBounded'
    <2>1. \A r \in Resource : given[r].fence <= RestoredFences[r]
        BY <1>3, <1>4
    <2> QED
        BY <1>2, <1>3, <2>1 DEF FencesBounded
  <1> QED
      BY <1>7, <1>8 DEF FenceInv

LEMMA FenceNext ==
  ASSUME FenceInv, [Next]_vars PROVE FenceInv'
  <1>1. /\ leases \in [Resource -> Lease] /\ minted \in Nat /\ now \in Nat
        /\ active \subseteq Resource /\ quarantined \subseteq Resource
        /\ permit \in [Thread -> SUBSET Resource] /\ grant \in [Thread -> SUBSET Nat]
        /\ uncertain \subseteq Resource
      BY DEF FenceInv, TypeOK
  <1>2. ASSUME NEW r \in Resource, Acquire(r) PROVE FenceInv'
      BY <1>2, FenceAcquire
  <1>3. ASSUME NEW r \in Resource, Recover(r) PROVE FenceInv'
    <2>1. /\ UNCHANGED <<table, now, minted, crashes, given, dead>>
          /\ active' = active /\ permit' = permit /\ grant' = grant
          /\ quarantined' = quarantined \ {r} /\ uncertain' = uncertain \ {r}
          /\ PersistOk \/ PersistErr
        BY <1>3 DEF Recover, threads
    <2> QED
        BY <1>1, <2>1, FenceQuiet
  <1>4. ASSUME NEW r \in Resource, NEW tok \in 1..minted, Renew(r, tok) PROVE FenceInv'
      BY <1>4, FenceRenew
  <1>5. ASSUME NEW r \in Resource, NEW tok \in 1..minted, Validate(r, tok) PROVE FenceInv'
    <2>1. /\ UNCHANGED <<table, now, minted, crashes, given, dead>>
          /\ active' = active /\ permit' = permit /\ grant' = grant
          /\ quarantined' = quarantined /\ uncertain' = uncertain
          /\ PersistOk \/ PersistErr
        BY <1>5 DEF Validate, threads, flags, history
    <2> QED
        BY <1>1, <2>1, FenceQuiet
  <1>6. ASSUME NEW r \in Resource, NEW tok \in 1..minted, Release(r, tok) PROVE FenceInv'
      BY <1>6, FenceRelease
  <1>7. ASSUME NEW t \in Thread, NEW R \in SUBSET Resource \ {{}},
               NEW g \in [R -> 0..minted], Begin(t, R, g)
        PROVE  FenceInv'
    <2>1. /\ UNCHANGED <<table, now, minted, crashes, given, dead>>
          /\ active' = active \cup R
          /\ quarantined' = quarantined /\ uncertain' = uncertain
          /\ PersistOk \/ PersistErr
        BY <1>7 DEF Begin, history
    <2>2. {g[r] : r \in R} \ {NoToken} \subseteq Nat
        BY <1>1
    <2>3. /\ permit' \in [Thread -> SUBSET Resource]
          /\ grant' \in [Thread -> SUBSET Nat]
      <3>1. CASE permit' = permit /\ grant' = grant
          BY <1>1, <3>1
      <3>2. CASE /\ permit' = [permit EXCEPT ![t] = R]
                 /\ grant' = [grant EXCEPT ![t] = {g[r] : r \in R} \ {NoToken}]
          BY <1>1, <2>2, <3>2
      <3> QED
          BY <1>7, <3>1, <3>2 DEF Begin, threads
    <2> QED
        BY <1>1, <2>1, <2>3, FenceQuiet
  <1>8. ASSUME NEW t \in Thread, End(t) PROVE FenceInv'
    <2>1. /\ UNCHANGED <<table, now, minted, crashes, given, dead>>
          /\ active' = active \ permit[t]
          /\ permit' = [permit EXCEPT ![t] = {}] /\ grant' = [grant EXCEPT ![t] = {}]
          /\ quarantined' = quarantined /\ uncertain' = uncertain
          /\ PersistOk \/ PersistErr
        BY <1>8 DEF End, history
    <2> QED
        BY <1>1, <2>1, FenceQuiet
  <1>9. ASSUME Tick PROVE FenceInv'
    <2>1. now' \in Nat
        BY <1>1, <1>9 DEF Tick
    <2> QED
        BY <1>9, <2>1 DEF Tick, FenceInv, TypeOK, FencesBounded, table, flags, threads, history
  <1>10. ASSUME Restart PROVE FenceInv'
      BY <1>10, FenceRestart
  <1>11. ASSUME UNCHANGED vars PROVE FenceInv'
      BY <1>11 DEF vars, FenceInv, TypeOK, FencesBounded, table, flags, threads, history
  <1> QED
      BY <1>2, <1>3, <1>4, <1>5, <1>6, <1>7, <1>8, <1>9, <1>10, <1>11 DEF Next, Read

\* Type correctness of the arbiter.
THEOREM ArbiterTypes == Spec => []TypeOK
  <1>1. FenceInv => TypeOK
      BY DEF FenceInv
  <1> QED
      BY <1>1, FenceInit, FenceNext, PTL DEF Spec

\* Fences order the holders of a resource: a caller is given a higher fence than
\* every caller before it, whatever writes failed and however often the Executor
\* restarted.
THEOREM ArbiterFences == Spec => FencesIncrease
  <1>1. ASSUME FenceInv, [Next]_vars, NEW r \in Resource, given'[r].token # given[r].token
        PROVE  given'[r].fence > given[r].fence
    <2>1. PICK s \in Resource : Acquire(s) /\ given' = [given EXCEPT ![s] = leases'[s]]
      <3>1. given' # given
          BY <1>1
      <3>2. PICK s \in Resource : Acquire(s)
          BY <1>1, <3>1 DEF Next, vars, Recover, Renew, Validate, Release, Read, Begin, End,
                            Tick, Restart, history
      <3> QED
          BY <3>1, <3>2 DEF Acquire
    <2>2. /\ leases \in [Resource -> Lease] /\ fences \in [Resource -> 0..minted]
          /\ given \in [Resource -> Lease] /\ minted \in Nat
        BY <1>1 DEF FenceInv, TypeOK
    <2>3. s = r
        BY <1>1, <2>1, <2>2
    <2>4. given'[r].fence = fences[r] + 1
        BY <2>1, <2>2, <2>3 DEF Acquire, NextFence
    <2>5. fences[r] \in Nat /\ given[r].fence \in Nat /\ given[r].fence <= fences[r]
        BY <1>1, <2>2 DEF FenceInv, FencesBounded, Lease
    <2> QED
        BY <2>4, <2>5
  <1>2. FenceInv /\ [Next]_vars =>
          [\A r \in Resource :
             given'[r].token # given[r].token => given'[r].fence > given[r].fence]_vars
      BY <1>1
  <1> QED
      BY <1>2, FenceInit, FenceNext, PTL DEF Spec, FencesIncrease

-----------------------------------------------------------------------------
(* LockInv.                                                                *)

LEMMA LockInit == Init => LockInv
  BY DEF Init, LockInv, Disjoint, PermitsHeld, UncertainKept

\* A step that leaves Permits and flags alone, whatever it writes.
LEMMA LockQuiet ==
  ASSUME LockInv, UNCHANGED <<flags, permit, uncertain>>, PersistOk \/ PersistErr
  PROVE  LockInv'
  <1>1. /\ active' = active /\ quarantined' = quarantined /\ permit' = permit
        /\ uncertain' = uncertain
      BY DEF flags
  <1>2. disk'.active = active \cup quarantined \/ disk' = disk
      BY <1>1, PersistOkWrites, PersistErrKeeps
  <1> QED
      BY <1>1, <1>2 DEF LockInv, Disjoint, PermitsHeld, UncertainKept

LEMMA LockRecover ==
  ASSUME LockInv, NEW r \in Resource, Recover(r) PROVE LockInv'
  <1>1. /\ active' = active /\ quarantined' = quarantined \ {r} /\ permit' = permit
        /\ uncertain' = uncertain \ {r}
      BY DEF Recover, threads
  <1>2. disk'.active = active' \cup quarantined' \/ disk' = disk
      BY PersistOkWrites, PersistErrKeeps DEF Recover
  <1>3. Disjoint'
      BY <1>1 DEF LockInv, Disjoint
  <1>4. PermitsHeld'
      BY <1>1, <1>2 DEF LockInv, PermitsHeld
  <1>5. UncertainKept'
      BY <1>1, <1>2 DEF LockInv, UncertainKept
  <1> QED
      BY <1>3, <1>4, <1>5 DEF LockInv

\* begin() takes resources that are neither busy nor quarantined.
LEMMA LockBegin ==
  ASSUME FenceInv, LockInv, NEW t \in Thread, NEW R \in SUBSET Resource \ {{}},
         NEW g \in [R -> 0..minted], Begin(t, R, g)
  PROVE  LockInv'
  <1>1. /\ active' = active \cup R /\ quarantined' = quarantined
        /\ uncertain' = uncertain
      BY DEF Begin, history
  <1>2. permit \in [Thread -> SUBSET Resource]
      BY DEF FenceInv, TypeOK
  <1>3. R \cap quarantined = {} /\ R \cap active = {}
      BY DEF Begin, Admits, Available
  <1>4. CASE PersistOk /\ permit' = [permit EXCEPT ![t] = R]
    <2>1. disk'.active = active' \cup quarantined'
        BY <1>4, PersistOkWrites
    <2>2. \A u \in Thread : permit'[u] = IF u = t THEN R ELSE permit[u]
        BY <1>2, <1>4
    <2>3. Disjoint'
        BY <1>3, <2>2 DEF LockInv, Disjoint, PermitsHeld
    <2>4. PermitsHeld'
        BY <1>1, <1>3, <2>1, <2>2 DEF LockInv, PermitsHeld
    <2>5. UncertainKept'
        BY <1>1, <2>1 DEF LockInv, UncertainKept
    <2> QED
        BY <2>3, <2>4, <2>5 DEF LockInv
  <1>5. CASE PersistErr /\ permit' = permit
    <2>1. disk' = disk
        BY <1>5, PersistErrKeeps
    <2> QED
        BY <1>1, <1>5, <2>1 DEF LockInv, Disjoint, PermitsHeld, UncertainKept
  <1> QED
      BY <1>4, <1>5 DEF Begin, threads

\* Dropping a Permit frees nothing of another.
LEMMA LockEnd ==
  ASSUME FenceInv, LockInv, NEW t \in Thread, End(t) PROVE LockInv'
  <1>1. /\ active' = active \ permit[t] /\ quarantined' = quarantined
        /\ uncertain' = uncertain /\ permit' = [permit EXCEPT ![t] = {}]
      BY DEF End, history
  <1>2. permit \in [Thread -> SUBSET Resource]
      BY DEF FenceInv, TypeOK
  <1>3. disk'.active = active' \cup quarantined' \/ disk' = disk
      BY PersistOkWrites, PersistErrKeeps DEF End
  <1>4. \A u \in Thread : permit'[u] = IF u = t THEN {} ELSE permit[u]
      BY <1>1, <1>2
  <1>5. Disjoint'
      BY <1>4 DEF LockInv, Disjoint
  <1>6. PermitsHeld'
    <2> SUFFICES ASSUME NEW u \in Thread
                 PROVE  /\ permit'[u] \subseteq active'
                        /\ permit'[u] \subseteq disk'.active
                        /\ permit'[u] \cap quarantined' = {}
        BY DEF PermitsHeld
    <2>1. CASE u = t
        BY <1>4, <2>1
    <2>2. CASE u # t
      <3>1. permit'[u] = permit[u] /\ permit[u] \cap permit[t] = {}
          BY <1>4, <2>2 DEF LockInv, Disjoint
      <3>2. /\ permit[u] \subseteq active /\ permit[u] \subseteq disk.active
            /\ permit[u] \cap quarantined = {}
          BY DEF LockInv, PermitsHeld
      <3> QED
          BY <1>1, <1>3, <3>1, <3>2
    <2> QED
        BY <2>1, <2>2
  <1>7. UncertainKept'
      BY <1>1, <1>3 DEF LockInv, UncertainKept
  <1> QED
      BY <1>5, <1>6, <1>7 DEF LockInv

\* After a crash everything that was busy in the snapshot is quarantined.
LEMMA LockRestart ==
  ASSUME LockInv, Restart PROVE LockInv'
  <1>1. /\ active' = {} /\ quarantined' = disk.active /\ disk' = disk
        /\ permit' = [t \in Thread |-> {}]
        /\ uncertain' = uncertain \cup UNION {permit[t] : t \in Thread}
      BY DEF Restart
  <1>2. uncertain' \subseteq disk.active
      BY <1>1 DEF LockInv, PermitsHeld, UncertainKept
  <1> QED
      BY <1>1, <1>2 DEF LockInv, Disjoint, PermitsHeld, UncertainKept

LEMMA LockNext ==
  ASSUME FenceInv, LockInv, [Next]_vars PROVE LockInv'
  <1>1. ASSUME NEW r \in Resource, Acquire(r) PROVE LockInv'
      BY <1>1, LockQuiet DEF Acquire, threads
  <1>2. ASSUME NEW r \in Resource, Recover(r) PROVE LockInv'
      BY <1>2, LockRecover
  <1>3. ASSUME NEW r \in Resource, NEW tok \in 1..minted,
               Renew(r, tok) \/ Validate(r, tok) \/ Release(r, tok)
        PROVE  LockInv'
      BY <1>3, LockQuiet DEF Renew, Validate, Release, threads, history
  <1>4. ASSUME NEW t \in Thread, NEW R \in SUBSET Resource \ {{}},
               NEW g \in [R -> 0..minted], Begin(t, R, g)
        PROVE  LockInv'
      BY <1>4, LockBegin
  <1>5. ASSUME NEW t \in Thread, End(t) PROVE LockInv'
      BY <1>5, LockEnd
  <1>6. ASSUME Restart PROVE LockInv'
      BY <1>6, LockRestart
  <1>7. ASSUME Tick \/ UNCHANGED vars PROVE LockInv'
    <2>1. /\ active' = active /\ quarantined' = quarantined /\ permit' = permit
          /\ uncertain' = uncertain /\ disk' = disk
        BY <1>7 DEF Tick, vars, flags, threads, history
    <2> QED
        BY <2>1 DEF LockInv, Disjoint, PermitsHeld, UncertainKept
  <1> QED
      BY <1>1, <1>2, <1>3, <1>4, <1>5, <1>6, <1>7 DEF Next, Read

\* Operations exclude each other, and none runs on a resource whose last
\* operation is uncertain.
THEOREM ArbiterExclusion == Spec => []Exclusion
  <1>1. LockInv => Exclusion
      BY DEF LockInv, Disjoint, PermitsHeld, UncertainKept, Exclusion
  <1> QED
      BY <1>1, FenceInit, FenceNext, LockInit, LockNext, PTL DEF Spec

\* A resource whose operation a crash interrupted is quarantined until recovery.
THEOREM ArbiterQuarantine == Spec => []UncertainQuarantined
  <1>1. LockInv => UncertainQuarantined
      BY DEF LockInv, UncertainKept, UncertainQuarantined
  <1> QED
      BY <1>1, FenceInit, FenceNext, LockInit, LockNext, PTL DEF Spec

\* Nobody is given the lease of a resource under a running operation, even after
\* the lease has expired.
THEOREM ArbiterLeaseStays == Spec => LeaseStaysUnderOperation
  <1>1. ASSUME FenceInv, LockInv, [Next]_vars, NEW t \in Thread,
               permit[t] # {}, permit'[t] = permit[t], NEW r \in permit[t]
        PROVE  leases'[r].token = leases[r].token
    <2>1. r \in active /\ r \in Resource
        BY <1>1 DEF LockInv, PermitsHeld, FenceInv, TypeOK
    <2>2. leases \in [Resource -> Lease]
        BY <1>1 DEF FenceInv, TypeOK
    <2>3. ASSUME NEW s \in Resource, Acquire(s) PROVE leases'[r].token = leases[r].token
      <3>1. s # r
          BY <2>1, <2>3 DEF Acquire, Available
      <3> QED
          BY <2>1, <2>2, <2>3, <3>1 DEF Acquire
    <2>4. ASSUME NEW s \in Resource, NEW tok \in 1..minted, Release(s, tok)
          PROVE  leases'[r].token = leases[r].token
      <3>1. s # r
          BY <2>1, <2>4 DEF Release, Available
      <3> QED
          BY <2>1, <2>2, <2>4, <3>1 DEF Release
    <2>5. ASSUME NEW s \in Resource, NEW tok \in 1..minted, Renew(s, tok)
          PROVE  leases'[r].token = leases[r].token
        BY <2>1, <2>2, <2>5 DEF Renew, Lease
    <2>6. ASSUME Restart PROVE FALSE
        BY <1>1, <2>6 DEF Restart
    <2>7. ASSUME leases' = leases PROVE leases'[r].token = leases[r].token
        BY <2>7
    <2> QED
        BY <1>1, <2>3, <2>4, <2>5, <2>6, <2>7
        DEF Next, Recover, Validate, Begin, End, Tick, Read, vars, table
  <1>2. FenceInv /\ LockInv /\ [Next]_vars =>
          [\A t \in Thread : permit[t] # {} /\ permit'[t] = permit[t] =>
             \A r \in permit[t] : leases'[r].token = leases[r].token]_vars
      BY <1>1
  <1> QED
      BY <1>2, FenceInit, FenceNext, LockInit, LockNext, PTL
      DEF Spec, LeaseStaysUnderOperation

-----------------------------------------------------------------------------
(* TokenInv.                                                               *)

LEMMA TokenInit == Init => TokenInv
  <1> SUFFICES ASSUME Init PROVE TokenInv
      OBVIOUS
  <1>1. \A r \in Resource : leases[r].token = 0 /\ disk.leases[r].token = 0
      BY DEF Init, NoLease, NoToken
  <1>2. minted = 0 /\ dead = {} /\ \A t \in Thread : grant[t] = {}
      BY DEF Init
  <1>3. Tokens(leases) /\ Tokens(disk.leases)
      BY <1>1, <1>2 DEF Tokens, NoToken
  <1> QED
      BY <1>2, <1>3 DEF TokenInv, GrantsHeld

\* What holds of the tokens in memory holds of those on disk.
LEMMA TokenSave ==
  ASSUME FenceInv, TokenInv, Tokens(leases)', minted' \in Nat, minted <= minted',
         \/ PersistOk
         \/ PersistErr /\ dead' = dead
  PROVE  Tokens(disk.leases)'
  <1>1. CASE PersistOk
      BY <1>1, PersistOkWrites DEF Tokens
  <1>2. CASE PersistErr /\ dead' = dead
    <2>1. disk' = disk
        BY <1>2, PersistErrKeeps
    <2>2. minted \in Nat /\ \A r \in Resource : disk.leases[r].token \in Nat
        BY DEF FenceInv, TypeOK, Lease
    <2>3. \A r \in Resource : disk.leases[r].token <= minted'
        BY <2>2 DEF TokenInv, Tokens
    <2> QED
        BY <1>2, <2>1, <2>3 DEF TokenInv, Tokens
  <1> QED
      BY <1>1, <1>2

\* A step that changes no token, no Permit and no grant.
LEMMA TokenQuiet ==
  ASSUME FenceInv, TokenInv, UNCHANGED <<minted, dead>>, GrantsHeld',
         \A r \in Resource : leases'[r].token = leases[r].token,
         PersistOk \/ PersistErr
  PROVE  TokenInv'
  <1>1. minted' = minted /\ dead' = dead /\ minted \in Nat
      BY DEF FenceInv, TypeOK
  <1>2. Tokens(leases)'
      BY <1>1 DEF TokenInv, Tokens
  <1>3. Tokens(disk.leases)'
      BY <1>1, <1>2, TokenSave
  <1> QED
      BY <1>1, <1>2, <1>3 DEF TokenInv

LEMMA TokenAcquire ==
  ASSUME FenceInv, LockInv, TokenInv, NEW r \in Resource, Acquire(r) PROVE TokenInv'
  <1>1. /\ leases \in [Resource -> Lease] /\ minted \in Nat
        /\ \A s \in Resource : leases[s].token \in Nat
      BY DEF FenceInv, TypeOK, Lease
  <1>2. /\ minted' = minted + 1 /\ minted' \in Nat /\ minted <= minted'
        /\ permit' = permit /\ grant' = grant
      BY <1>1 DEF Acquire, threads
  <1>3. \A s \in Resource :
          leases'[s].token = IF s = r THEN minted + 1 ELSE leases[s].token
      BY <1>1 DEF Acquire
  <1>4. \/ PersistOk /\ dead' = dead \cup ({leases[r].token} \ {NoToken})
        \/ PersistErr /\ dead' = dead
      BY DEF Acquire
  <1>5. \A s \in Resource : leases[s].token <= minted /\ leases[s].token \notin dead
      BY DEF TokenInv, Tokens
  <1>6. dead' \subseteq 1..minted'
    <2>1. dead \subseteq 1..minted'
        BY <1>1, <1>2 DEF TokenInv
    <2>2. leases[r].token # NoToken => leases[r].token \in 1..minted'
        BY <1>1, <1>2, <1>5 DEF NoToken
    <2>3. {leases[r].token} \ {NoToken} \subseteq 1..minted'
        BY <2>2, Zenon
    <2>4. dead' = dead \/ dead' = dead \cup ({leases[r].token} \ {NoToken})
        BY <1>4
    <2> QED
        BY <2>1, <2>3, <2>4, Zenon
  <1>7. \A s \in Resource : leases'[s].token <= minted' /\ leases'[s].token \notin dead'
    <2> SUFFICES ASSUME NEW s \in Resource
                 PROVE  leases'[s].token <= minted' /\ leases'[s].token \notin dead'
        OBVIOUS
    <2>1. CASE s = r
      <3>1. leases'[s].token = minted + 1
          BY <1>3, <2>1
      <3>2. minted + 1 \notin dead /\ minted + 1 # leases[r].token
          BY <1>1, <1>5 DEF TokenInv
      <3> QED
          BY <1>1, <1>2, <1>4, <3>1, <3>2
    <2>2. CASE s # r
      <3>1. leases'[s].token = leases[s].token
          BY <1>3, <2>2
      <3>2. leases[s].token = leases[r].token => leases[r].token = NoToken
          BY <2>2 DEF TokenInv, Tokens
      <3>3. leases[s].token \notin dead'
          BY <1>4, <1>5, <3>2
      <3>4. leases[s].token <= minted'
          BY <1>1, <1>2, <1>5
      <3> QED
          BY <3>1, <3>3, <3>4
    <2> QED
        BY <2>1, <2>2
  <1>8. \A s, q \in Resource :
          s # q /\ leases'[s].token = leases'[q].token => leases'[s].token = NoToken
    <2>1. \A s \in Resource : leases[s].token # minted + 1
        BY <1>1, <1>5
    <2>2. \A s, q \in Resource :
            s # q /\ leases[s].token = leases[q].token => leases[s].token = NoToken
        BY DEF TokenInv, Tokens
    <2> QED
        BY <1>3, <2>1, <2>2
  <1>9. Tokens(leases)'
      BY <1>7, <1>8 DEF Tokens, NoToken
  <1>10. Tokens(disk.leases)'
      BY <1>2, <1>4, <1>9, TokenSave
  <1>11. GrantsHeld'
    <2> SUFFICES ASSUME NEW t \in Thread, NEW k \in grant[t]
                 PROVE  \E q \in permit[t] : leases'[q].token = k
        BY <1>2 DEF GrantsHeld
    <2>1. PICK q \in permit[t] : leases[q].token = k
        BY DEF TokenInv, GrantsHeld
    <2>2. q # r /\ q \in Resource
        BY DEF LockInv, PermitsHeld, Acquire, Available, FenceInv, TypeOK
    <2> QED
        BY <1>3, <2>1, <2>2
  <1> QED
      BY <1>6, <1>9, <1>10, <1>11 DEF TokenInv

LEMMA TokenRelease ==
  ASSUME FenceInv, LockInv, TokenInv, NEW r \in Resource, NEW tok \in 1..minted,
         Release(r, tok)
  PROVE  TokenInv'
  <1>1. /\ leases \in [Resource -> Lease] /\ minted \in Nat
        /\ \A s \in Resource : leases[s].token \in Nat
      BY DEF FenceInv, TypeOK, Lease
  <1>2. minted' = minted /\ permit' = permit /\ grant' = grant
      BY DEF Release, threads
  <1>3. \A s \in Resource :
          leases'[s].token = IF s = r THEN NoToken ELSE leases[s].token
      BY <1>1 DEF Release, NoLease
  <1>4. \/ PersistOk /\ dead' = dead \cup {tok}
        \/ PersistErr /\ dead' = dead
      BY DEF Release
  <1>5. leases[r].token = tok /\ tok # NoToken
      BY DEF Release, Validates
  <1>6. dead' \subseteq 1..minted
      BY <1>4 DEF TokenInv
  <1>7. \A s \in Resource : leases'[s].token <= minted /\ leases'[s].token \notin dead'
    <2> SUFFICES ASSUME NEW s \in Resource
                 PROVE  leases'[s].token <= minted /\ leases'[s].token \notin dead'
        OBVIOUS
    <2>1. CASE s = r
        BY <1>1, <1>3, <1>6, <2>1 DEF NoToken
    <2>2. CASE s # r
      <3>1. leases'[s].token = leases[s].token
          BY <1>3, <2>2
      <3>2. leases[s].token # tok
          BY <1>5, <2>2 DEF TokenInv, Tokens
      <3>3. leases[s].token <= minted /\ leases[s].token \notin dead
          BY DEF TokenInv, Tokens
      <3> QED
          BY <1>4, <3>1, <3>2, <3>3
    <2> QED
        BY <2>1, <2>2
  <1>8. \A s, q \in Resource :
          s # q /\ leases'[s].token = leases'[q].token => leases'[s].token = NoToken
      BY <1>3 DEF TokenInv, Tokens
  <1>9. Tokens(leases)'
      BY <1>2, <1>7, <1>8 DEF Tokens, NoToken
  <1>10. Tokens(disk.leases)'
      BY <1>1, <1>2, <1>4, <1>9, TokenSave
  <1>11. GrantsHeld'
    <2> SUFFICES ASSUME NEW t \in Thread, NEW k \in grant[t]
                 PROVE  \E q \in permit[t] : leases'[q].token = k
        BY <1>2 DEF GrantsHeld
    <2>1. PICK q \in permit[t] : leases[q].token = k
        BY DEF TokenInv, GrantsHeld
    <2>2. q # r /\ q \in Resource
        BY DEF LockInv, PermitsHeld, Release, Available, FenceInv, TypeOK
    <2> QED
        BY <1>3, <2>1, <2>2
  <1> QED
      BY <1>2, <1>6, <1>9, <1>10, <1>11 DEF TokenInv

LEMMA TokenBegin ==
  ASSUME FenceInv, TokenInv, NEW t \in Thread, NEW R \in SUBSET Resource \ {{}},
         NEW g \in [R -> 0..minted], Begin(t, R, g)
  PROVE  TokenInv'
  <1>1. /\ minted' = minted /\ dead' = dead /\ leases' = leases
        /\ PersistOk \/ PersistErr
      BY DEF Begin, history, table
  <1>2. /\ permit \in [Thread -> SUBSET Resource]
        /\ grant \in [Thread -> SUBSET Nat]
      BY DEF FenceInv, TypeOK
  <1>3. GrantsHeld'
    <2>1. CASE permit' = permit /\ grant' = grant
        BY <1>1, <2>1 DEF TokenInv, GrantsHeld
    <2>2. CASE /\ permit' = [permit EXCEPT ![t] = R]
               /\ grant' = [grant EXCEPT ![t] = {g[r] : r \in R} \ {NoToken}]
      <3> SUFFICES ASSUME NEW u \in Thread, NEW k \in grant'[u]
                   PROVE  \E r \in permit'[u] : leases[r].token = k
          BY <1>1 DEF GrantsHeld
      <3>1. CASE u = t
        <4>1. permit'[u] = R /\ grant'[u] = {g[r] : r \in R} \ {NoToken}
            BY <1>2, <2>2, <3>1
        <4>2. PICK r \in R : g[r] = k /\ k # NoToken
            BY <4>1
        <4>3. leases[r].token = k
            BY <4>2 DEF Begin, Admits, Validates
        <4> QED
            BY <4>1, <4>3
      <3>2. CASE u # t
        <4>1. permit'[u] = permit[u] /\ grant'[u] = grant[u]
            BY <1>2, <2>2, <3>2
        <4> QED
            BY <4>1 DEF TokenInv, GrantsHeld
      <3> QED
          BY <3>1, <3>2
    <2> QED
        BY <2>1, <2>2 DEF Begin, threads
  <1> QED
      BY <1>1, <1>3, TokenQuiet

LEMMA TokenEnd ==
  ASSUME FenceInv, TokenInv, NEW t \in Thread, End(t) PROVE TokenInv'
  <1>1. /\ minted' = minted /\ dead' = dead /\ leases' = leases
        /\ PersistOk \/ PersistErr
        /\ permit' = [permit EXCEPT ![t] = {}] /\ grant' = [grant EXCEPT ![t] = {}]
      BY DEF End, history, table
  <1>2. /\ permit \in [Thread -> SUBSET Resource]
        /\ grant \in [Thread -> SUBSET Nat]
      BY DEF FenceInv, TypeOK
  <1>3. GrantsHeld'
    <2> SUFFICES ASSUME NEW u \in Thread, NEW k \in grant'[u]
                 PROVE  \E r \in permit'[u] : leases[r].token = k
        BY <1>1 DEF GrantsHeld
    <2>1. u # t /\ permit'[u] = permit[u] /\ grant'[u] = grant[u]
        BY <1>1, <1>2
    <2> QED
        BY <2>1 DEF TokenInv, GrantsHeld
  <1> QED
      BY <1>1, <1>3, TokenQuiet

LEMMA TokenNext ==
  ASSUME FenceInv, LockInv, TokenInv, [Next]_vars PROVE TokenInv'
  <1>1. ASSUME NEW r \in Resource, Acquire(r) PROVE TokenInv'
      BY <1>1, TokenAcquire
  <1>2. ASSUME minted' = minted, dead' = dead, permit' = permit, grant' = grant,
               \A s \in Resource : leases'[s].token = leases[s].token,
               PersistOk \/ PersistErr
        PROVE  TokenInv'
    <2>1. GrantsHeld'
      <3>1. permit \in [Thread -> SUBSET Resource]
          BY DEF FenceInv, TypeOK
      <3> QED
          BY <1>2, <3>1 DEF TokenInv, GrantsHeld
    <2> QED
        BY <1>2, <2>1, TokenQuiet
  <1>3. ASSUME NEW r \in Resource, Recover(r) PROVE TokenInv'
      BY <1>2, <1>3 DEF Recover, threads, table
  <1>4. ASSUME NEW r \in Resource, NEW tok \in 1..minted, Renew(r, tok) PROVE TokenInv'
    <2>1. leases \in [Resource -> Lease]
        BY DEF FenceInv, TypeOK
    <2>2. \A s \in Resource : leases'[s].token = leases[s].token
        BY <1>4, <2>1 DEF Renew, Lease
    <2> QED
        BY <1>2, <1>4, <2>2 DEF Renew, threads, history
  <1>5. ASSUME NEW r \in Resource, NEW tok \in 1..minted, Validate(r, tok) PROVE TokenInv'
      BY <1>2, <1>5 DEF Validate, threads, history, table
  <1>6. ASSUME NEW r \in Resource, NEW tok \in 1..minted, Release(r, tok) PROVE TokenInv'
      BY <1>6, TokenRelease
  <1>7. ASSUME NEW t \in Thread, NEW R \in SUBSET Resource \ {{}},
               NEW g \in [R -> 0..minted], Begin(t, R, g)
        PROVE  TokenInv'
      BY <1>7, TokenBegin
  <1>8. ASSUME NEW t \in Thread, End(t) PROVE TokenInv'
      BY <1>8, TokenEnd
  <1>9. ASSUME Restart PROVE TokenInv'
    <2>1. /\ leases' = disk.leases /\ disk' = disk /\ minted' = minted /\ dead' = dead
          /\ \A t \in Thread : grant'[t] = {}
        BY <1>9 DEF Restart
    <2> QED
        BY <2>1 DEF TokenInv, Tokens, GrantsHeld
  <1>10. ASSUME Tick \/ UNCHANGED vars PROVE TokenInv'
    <2>1. /\ leases' = leases /\ disk' = disk /\ minted' = minted /\ dead' = dead
          /\ permit' = permit /\ grant' = grant
        BY <1>10 DEF Tick, vars, table, threads, history
    <2> QED
        BY <2>1 DEF TokenInv, Tokens, GrantsHeld
  <1> QED
      BY <1>1, <1>3, <1>4, <1>5, <1>6, <1>7, <1>8, <1>9, <1>10 DEF Next, Read

\* No operation runs on a token that was released or has passed to another caller.
THEOREM ArbiterNoStaleGrant == Spec => []NoStaleGrant
  <1>1. FenceInv /\ TokenInv => NoStaleGrant
    <2> SUFFICES ASSUME FenceInv, TokenInv, NEW t \in Thread, NEW k \in grant[t]
                 PROVE  k \notin dead
        BY DEF NoStaleGrant
    <2>1. PICK r \in permit[t] : leases[r].token = k
        BY DEF TokenInv, GrantsHeld
    <2>2. r \in Resource
        BY DEF FenceInv, TypeOK
    <2> QED
        BY <2>1, <2>2 DEF TokenInv, Tokens
  <1> QED
      BY <1>1, FenceInit, FenceNext, LockInit, LockNext, TokenInit, TokenNext, PTL DEF Spec

-----------------------------------------------------------------------------
LEMMA BusyNext ==
  ASSUME FenceInv, BusyMeansExecuting, [Next]_vars PROVE BusyMeansExecuting'
  <1>1. failures \in Nat /\ permit \in [Thread -> SUBSET Resource]
      BY DEF FenceInv, TypeOK
  <1>2. SUFFICES ASSUME failures' = 0, NEW r \in active'
                 PROVE  \E u \in Thread : r \in permit'[u]
      BY DEF BusyMeansExecuting
  <1>3. ~PersistErr
      BY <1>1, <1>2, PersistErrKeeps
  <1>4. ASSUME active' = active, permit' = permit, failures' = failures
        PROVE  \E u \in Thread : r \in permit'[u]
      BY <1>2, <1>4 DEF BusyMeansExecuting
  <1>5. ASSUME NEW t \in Thread, NEW R \in SUBSET Resource \ {{}},
               NEW g \in [R -> 0..minted], Begin(t, R, g)
        PROVE  \E u \in Thread : r \in permit'[u]
    <2>1. /\ permit' = [permit EXCEPT ![t] = R] /\ active' = active \cup R
          /\ permit[t] = {} /\ failures' = failures
        BY <1>3, <1>5, PersistOkWrites DEF Begin
    <2>2. \A u \in Thread : permit'[u] = IF u = t THEN R ELSE permit[u]
        BY <1>1, <2>1
    <2>3. r \in R \/ \E u \in Thread : r \in permit[u]
        BY <1>2, <2>1 DEF BusyMeansExecuting
    <2> QED
        BY <2>1, <2>2, <2>3
  <1>6. ASSUME NEW t \in Thread, End(t) PROVE \E u \in Thread : r \in permit'[u]
    <2>1. /\ permit' = [permit EXCEPT ![t] = {}] /\ active' = active \ permit[t]
          /\ failures' = failures
        BY <1>3, <1>6, PersistOkWrites DEF End
    <2>2. PICK u \in Thread : r \in permit[u]
        BY <1>2, <2>1 DEF BusyMeansExecuting
    <2>3. u # t
        BY <1>2, <2>1, <2>2
    <2> QED
        BY <1>1, <2>1, <2>2, <2>3
  <1>7. ASSUME Restart PROVE FALSE
      BY <1>2, <1>7 DEF Restart
  <1>8. ASSUME NEW s \in Resource, Acquire(s) \/ Recover(s)
        PROVE  \E u \in Thread : r \in permit'[u]
      BY <1>3, <1>4, <1>8, PersistOkWrites DEF Acquire, Recover, threads, flags
  <1>9. ASSUME NEW s \in Resource, NEW tok \in 1..minted,
               Renew(s, tok) \/ Validate(s, tok) \/ Release(s, tok)
        PROVE  \E u \in Thread : r \in permit'[u]
      BY <1>3, <1>4, <1>9, PersistOkWrites DEF Renew, Validate, Release, threads, flags
  <1>10. ASSUME Tick \/ UNCHANGED vars PROVE \E u \in Thread : r \in permit'[u]
      BY <1>4, <1>10 DEF Tick, vars, threads, flags
  <1> QED
      BY <1>5, <1>6, <1>7, <1>8, <1>9, <1>10 DEF Next, Read

\* As long as every write has worked, a resource is busy only while an operation
\* runs on it.
THEOREM ArbiterBusy == Spec => []BusyMeansExecuting
  <1>1. Init => BusyMeansExecuting
      BY DEF Init, BusyMeansExecuting
  <1> QED
      BY <1>1, FenceInit, FenceNext, BusyNext, PTL DEF Spec
=============================================================================
