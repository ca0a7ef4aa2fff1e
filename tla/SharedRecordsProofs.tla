------------------------- MODULE SharedRecordsProofs -------------------------
(***************************************************************************)
(* Proofs about Generations, for any set of generations and any bounds,    *)
(* and about the two components of MCSharedRecords together.               *)
(*                                                                         *)
(* The inductive invariant says which calls can still arrive (CallsKept,   *)
(* StampsDiffer), which run at the same time (Alone), which the driver's   *)
(* fence refuses (Fenced), what the successful ones have left on disk      *)
(* (TreesKept, LinksKept), what each knows at its step (StepsKept), and    *)
(* how activations follow the leases of the runtime (SwapsOrdered,         *)
(* Reported).                                                              *)
(***************************************************************************)
EXTENDS MCSharedRecords, ReadGrantsProofs, FiniteSetTheorems, WellFoundedInduction, TLAPS

Overlay  == {"base", "missing", "new"}
Marker   == {"absent", "materialized", "failed", "unreadable", "ready"}
CallKind == {"materialize", "apply", "record", "activate"}
Rank(k)  == CASE k = "materialize" -> 1 [] k = "apply" -> 2 [] k = "record" -> 3 [] k = "activate" -> 4
Link     == Gen \cup {NoGen}

CallRecord ==
  [gen: Gen, kind: CallKind, stamp: Nat \ {0}, token: Nat,
   step: {"sent", "begun", "copied", "away", "checked", "swapped"}, old: Link \cup Overlay]

GenTypes ==
  /\ tree \in [Gen -> [marker: Marker, whole: BOOLEAN, overlay: Overlay]]
  /\ tmp \in [Gen -> BOOLEAN]
  /\ current \in Link /\ previous \in Link
  /\ stage \in [Gen -> 0..4] /\ waits \in [Gen -> 0..stamp]
  /\ stamp \in Nat /\ stamp <= MaxRequests /\ fence \in Nat
  /\ DOMAIN transaction = Gen
  /\ runtime \in [by: Link, token: 0..stamp]
  /\ IsFiniteSet(running) /\ Cardinality(running) <= MaxMutating

\* A call was made once its predecessors had succeeded; the one its publisher
\* awaits is the newest and the next to succeed.
CallKept(r) ==
  /\ r \in CallRecord /\ r.stamp <= stamp /\ r.token <= stamp
  /\ Rank(r.kind) <= stage[r.gen] + 1
  /\ waits[r.gen] # 0 => r.stamp <= waits[r.gen]
  /\ \A g \in Gen : waits[g] = r.stamp => r.gen = g /\ Rank(r.kind) = stage[g] + 1

CallsKept == \A r \in sent \cup running : CallKept(r)

StampsDiffer ==
  /\ \A r \in sent, s \in running : r.stamp # s.stamp
  /\ \A r, s \in sent : r.stamp = s.stamp => r = s
  /\ \A r, s \in sent \cup running :
       r.gen = s.gen /\ r.stamp < s.stamp => FenceOf(r.stamp) < FenceOf(s.stamp)

\* The locks of the Executor.
Alone ==
  \A r, s \in running : r.kind = s.kind /\ (r.gen = s.gen \/ r.kind = "activate") => r = s

\* Once an overlay has been applied, no call that would apply it again runs, and
\* the fence refuses those on their way.
Fenced ==
  /\ \A r \in running : r.kind # "activate" => FenceOf(r.stamp) <= fence
  /\ \A r \in running : r.kind = "apply" => stage[r.gen] < 2
  /\ \A r \in sent : r.kind = "apply" /\ stage[r.gen] >= 2 => FenceOf(r.stamp) < fence

\* What the calls that succeeded have left on disk.
TreesKept ==
  \A g \in Gen :
    /\ tree[g].marker = "absent" => tree[g] = NoTree
    /\ tree[g].marker = "materialized" => tree[g].whole
    /\ stage[g] >= 1 => tree[g].whole
    /\ stage[g] >= 2 => tree[g].overlay = "new"

\* What a call knows at its step.
StepKept(r) ==
  /\ r.step = "copied" => r.kind = "materialize" /\ tree[r.gen].marker = "absent"
  /\ r.step = "away" => r.kind = "apply" /\ tree[r.gen].marker # "absent" /\ r.old \in Overlay
  /\ r.step \in {"checked", "swapped"} =>
       r.kind = "activate" /\ r.old \in Link /\ (r.old # NoGen => stage[r.old] >= 3)
  /\ r.step = "swapped" => <<r.token, r.gen>> \in swaps

StepsKept == \A r \in running : StepKept(r)

LinksKept == \A g \in {current, previous} \ {NoGen} : stage[g] >= 3

\* No activation took place under a later lease, nor under this one for another
\* generation.
Ordered(token, g) == \A s \in swaps : s[1] <= token /\ (s[1] = token => s[2] = g)

SwapsOrdered ==
  /\ swaps \subseteq Nat \X Gen /\ \A s \in swaps : s[1] <= stamp
  /\ runtime # NoLease => Ordered(runtime.token, runtime.by)
  /\ \A r \in running : r.kind = "activate" =>
       Ordered(r.token, r.gen) /\ runtime \in {NoLease, [by |-> r.gen, token |-> r.token]}
  /\ \A s \in swaps : (\A t \in swaps : t[1] <= s[1]) => current = s[2]

Reported == \A g \in Gen : transaction[g] = "activated" => \E s \in swaps : s[2] = g

GenIInv ==
  /\ GenTypes /\ CallsKept /\ StampsDiffer /\ Alone /\ Fenced /\ TreesKept /\ StepsKept
  /\ LinksKept /\ SwapsOrdered /\ Reported

-----------------------------------------------------------------------------
LEMMA GenIInvInit == ASSUME GenInit PROVE GenIInv
  <1>1. Cardinality(running) = 0 /\ IsFiniteSet(running)
      BY FS_EmptySet DEF GenInit
  <1>2. GenTypes
      BY <1>1, GenerationsAssumption DEF GenInit, GenTypes, Link, NoTree, NoLease, Marker, Overlay
  <1> QED
      BY <1>2 DEF GenInit, GenIInv, CallsKept, StampsDiffer, Alone, Fenced, TreesKept, StepsKept,
        LinksKept, SwapsOrdered, Reported, NoTree, NoLease

(* What a call that runs does to the publishers and to the other calls.    *)

\* The call is answered: its publisher goes on if it still waits.
Settled(r, ok) ==
  /\ running' = running \ {r} /\ UNCHANGED <<sent, stamp, fence, inDoubtKeys>>
  /\ stage' \in [Gen -> 0..4] /\ waits' \in [Gen -> 0..stamp] /\ DOMAIN transaction' = Gen
  /\ \A g \in Gen :
       \/ waits'[g] = waits[g] /\ stage'[g] = stage[g]
       \/ /\ g = r.gen /\ waits[g] = r.stamp /\ waits'[g] = 0
          /\ stage'[g] = (IF ok THEN stage[g] + 1 ELSE stage[g])
  /\ \A g \in Gen : transaction'[g] = "activated" =>
       transaction[g] = "activated" \/ (g = r.gen /\ r.kind = "activate" /\ ok)
  /\ runtime' \in {runtime, NoLease}

\* The call goes on to its next step.
Moved(r, q) ==
  /\ q.gen = r.gen /\ q.kind = r.kind /\ q.stamp = r.stamp /\ q.token = r.token
  /\ running' = (running \ {r}) \cup {q}
  /\ UNCHANGED <<stage, waits, stamp, transaction, sent, fence, runtime, inDoubtKeys>>

LEMMA RankTypes == \A k \in CallKind : Rank(k) \in 1..4
  BY DEF CallKind, Rank

LEMMA EndedSettles ==
  ASSUME GenIInv, NEW r \in running, NEW ok \in BOOLEAN, Ended(r, ok)
  PROVE  Settled(r, ok)
  <1>1. /\ running' = running \ {r} /\ UNCHANGED <<sent, stamp, fence, inDoubtKeys>>
      BY DEF Ended, Answered
  <1>2. /\ r \in CallRecord /\ r.gen \in Gen /\ CallKept(r) /\ r.kind \in CallKind
        /\ stage \in [Gen -> 0..4] /\ waits \in [Gen -> 0..stamp] /\ DOMAIN transaction = Gen
        /\ stamp \in Nat
      BY DEF GenIInv, GenTypes, CallsKept, CallKept, CallRecord
  <1>3. CASE waits[r.gen] # r.stamp
    <2>1. UNCHANGED <<waits, stage, transaction, runtime>>
        BY <1>3 DEF Ended, Answered
    <2> QED
        BY <1>1, <1>2, <2>1 DEF Settled
  <1>4. CASE waits[r.gen] = r.stamp
    <2>1. /\ waits' = [waits EXCEPT ![r.gen] = 0]
          /\ stage' = [stage EXCEPT ![r.gen] = IF ok THEN stage[r.gen] + 1 ELSE stage[r.gen]]
          /\ transaction' = Recorded(r, IF ok THEN "activated" ELSE "failed")
          /\ runtime' \in {runtime, NoLease}
        BY <1>4 DEF Ended, Answered
    <2>2. stage[r.gen] + 1 \in 0..4
      <3>1. Rank(r.kind) \in 1..4 /\ Rank(r.kind) = stage[r.gen] + 1
          BY <1>2, <1>4, RankTypes DEF CallKept
      <3> QED
          BY <3>1
    <2>3. stage' \in [Gen -> 0..4] /\ waits' \in [Gen -> 0..stamp]
        BY <1>2, <2>1, <2>2
    <2>4. /\ DOMAIN transaction' = Gen
          /\ \A g \in Gen : transaction'[g] = "activated" =>
               transaction[g] = "activated" \/ (g = r.gen /\ r.kind = "activate" /\ ok)
        BY <1>2, <2>1 DEF Recorded
    <2>5. \A g \in Gen :
            \/ waits'[g] = waits[g] /\ stage'[g] = stage[g]
            \/ /\ g = r.gen /\ waits[g] = r.stamp /\ waits'[g] = 0
               /\ stage'[g] = (IF ok THEN stage[g] + 1 ELSE stage[g])
        BY <1>2, <1>4, <2>1
    <2> QED
        BY <1>1, <2>1, <2>3, <2>4, <2>5 DEF Settled
  <1> QED
      BY <1>3, <1>4

\* The fences of calls.
LEMMA FenceTypes ==
  ASSUME GenIInv PROVE \A s \in sent \cup running : FenceOf(s.stamp) \in Nat
  <1>1. ASSUME NEW s \in sent \cup running PROVE s.stamp \in 1..MaxRequests
      BY GenerationsAssumption DEF GenIInv, GenTypes, CallsKept, CallKept, CallRecord
  <1> QED
      BY <1>1, GenerationsAssumption DEF FenceOf

LEMMA SettledCalls ==
  ASSUME GenIInv, NEW r \in running, NEW ok \in BOOLEAN, Settled(r, ok)
  PROVE  /\ CallsKept' /\ StampsDiffer' /\ Alone' /\ Fenced'
         /\ IsFiniteSet(running') /\ Cardinality(running') <= MaxMutating
         /\ \A g \in Gen : stage'[g] >= stage[g]
  <1>0. /\ stage \in [Gen -> 0..4] /\ stage' \in [Gen -> 0..4]
        /\ waits \in [Gen -> 0..stamp] /\ stamp \in Nat /\ fence \in Nat
        /\ CallsKept /\ StampsDiffer /\ Alone /\ Fenced
      BY DEF GenIInv, GenTypes, Settled
  <1>1. \A g \in Gen : stage'[g] >= stage[g]
      BY <1>0 DEF Settled
  <1>2. CallsKept'
    <2> SUFFICES ASSUME NEW s \in sent \cup running, s \in sent' \cup running' PROVE CallKept(s)'
        BY DEF CallsKept, Settled
    <2>1. /\ CallKept(s) /\ s.gen \in Gen /\ s.stamp \in Nat /\ s.stamp # 0 /\ s.kind \in CallKind
          /\ Rank(s.kind) \in 1..4 /\ r.stamp # 0 /\ CallKept(r) /\ r.gen \in Gen
        BY <1>0, RankTypes DEF CallsKept, CallKept, CallRecord
    <2>2. s \in CallRecord /\ s.stamp <= stamp' /\ s.token <= stamp'
        BY <2>1 DEF CallKept, Settled
    <2>3. Rank(s.kind) <= stage'[s.gen] + 1
        BY <1>0, <1>1, <2>1 DEF CallKept
    <2>4. waits'[s.gen] # 0 => s.stamp <= waits'[s.gen]
        BY <2>1 DEF CallKept, Settled
    <2>5. \A g \in Gen : waits'[g] = s.stamp => s.gen = g /\ Rank(s.kind) = stage'[g] + 1
        BY <2>1 DEF CallKept, Settled
    <2> QED
        BY <2>2, <2>3, <2>4, <2>5 DEF CallKept
  <1>3. StampsDiffer' /\ Alone'
      BY <1>0 DEF StampsDiffer, Alone, Settled
  <1>4. Fenced'
    <2>1. \A s \in running' : s.kind # "activate" => FenceOf(s.stamp) <= fence'
        BY <1>0 DEF Fenced, Settled
    <2>2. ASSUME NEW s \in sent \cup running, s \in sent' \cup running', s.kind = "apply", stage'[s.gen] >= 2,
                 stage[s.gen] < 2
          PROVE  s \in sent /\ FenceOf(s.stamp) < fence
      <3>1. CallKept(s) /\ s.gen \in Gen /\ s.stamp \in Nat /\ CallKept(r) /\ r.stamp \in Nat /\ r.stamp # 0
            /\ r.kind \in CallKind
          BY <1>0 DEF CallsKept, CallKept, CallRecord
      <3>2. s.gen = r.gen /\ waits[s.gen] = r.stamp /\ stage'[s.gen] = stage[s.gen] + 1
          BY <1>0, <2>2, <3>1 DEF Settled
      <3>3. stage[r.gen] = 1
          BY <1>0, <2>2, <3>1, <3>2
      <3>4. Rank(r.kind) = 2
          BY <3>1, <3>2, <3>3 DEF CallKept
      <3>5. r.kind = "apply"
          BY <3>1, <3>4 DEF CallKind, Rank
      <3>6. s \in sent
          BY <1>0, <2>2, <3>2, <3>5 DEF Alone, Settled
      <3>7. s.stamp < r.stamp /\ FenceOf(r.stamp) <= fence
          BY <1>0, <3>1, <3>2, <3>5, <3>6 DEF CallKept, StampsDiffer, Fenced
      <3>8. FenceOf(s.stamp) < FenceOf(r.stamp)
          BY <1>0, <3>2, <3>6, <3>7 DEF StampsDiffer
      <3>9. FenceOf(s.stamp) \in Nat /\ FenceOf(r.stamp) \in Nat
          BY <3>6, FenceTypes
      <3> QED
          BY <1>0, <3>6, <3>7, <3>8, <3>9
    <2>3. \A s \in running' : s.kind = "apply" => stage'[s.gen] < 2
      <3> SUFFICES ASSUME NEW s \in running', s.kind = "apply", ~(stage'[s.gen] < 2) PROVE FALSE
          OBVIOUS
      <3>1. s \in running /\ s.gen \in Gen
          BY <1>0 DEF Settled, CallsKept, CallKept, CallRecord
      <3>2. stage[s.gen] < 2 /\ stage'[s.gen] >= 2
          BY <1>0, <3>1 DEF Fenced
      <3>3. s \in sent
          BY <2>2, <3>1, <3>2
      <3> QED
          BY <1>0, <3>1, <3>3 DEF StampsDiffer
    <2>4. \A s \in sent' : s.kind = "apply" /\ stage'[s.gen] >= 2 => FenceOf(s.stamp) < fence'
      <3> SUFFICES ASSUME NEW s \in sent', s.kind = "apply", stage'[s.gen] >= 2
                   PROVE  FenceOf(s.stamp) < fence
          BY DEF Settled
      <3>1. s \in sent /\ s.gen \in Gen
          BY <1>0 DEF Settled, CallsKept, CallKept, CallRecord
      <3>2. CASE stage[s.gen] >= 2
          BY <1>0, <3>1, <3>2 DEF Fenced
      <3>3. CASE stage[s.gen] < 2
          BY <2>2, <3>1, <3>3
      <3> QED
          BY <1>0, <3>1, <3>2, <3>3
    <2> QED
        BY <2>1, <2>3, <2>4 DEF Fenced
  <1>5. IsFiniteSet(running') /\ Cardinality(running') <= MaxMutating
    <2>1. IsFiniteSet(running) /\ Cardinality(running) <= MaxMutating /\ running' = running \ {r}
        BY DEF GenIInv, GenTypes, Settled
    <2>2. MaxMutating \in Nat /\ Cardinality(running) \in Nat
        BY <2>1, FS_CardinalityType, GenerationsAssumption
    <2>3. IsFiniteSet(running \ {r}) /\ Cardinality(running \ {r}) = Cardinality(running) - 1
        BY <2>1, FS_RemoveElement
    <2> QED
        BY <2>1, <2>2, <2>3
  <1> QED
      BY <1>1, <1>2, <1>3, <1>4, <1>5

LEMMA MovedCalls ==
  ASSUME GenIInv, NEW r \in running, NEW q \in CallRecord, Moved(r, q)
  PROVE  /\ CallsKept' /\ StampsDiffer' /\ Alone' /\ Fenced'
         /\ IsFiniteSet(running') /\ Cardinality(running') <= MaxMutating
  <1>0. /\ CallsKept /\ StampsDiffer /\ Alone /\ Fenced
        /\ UNCHANGED <<stage, waits, stamp, sent, fence>>
        /\ running' = (running \ {r}) \cup {q}
        /\ q.gen = r.gen /\ q.kind = r.kind /\ q.stamp = r.stamp /\ q.token = r.token
      BY DEF GenIInv, Moved
  <1>1. CallsKept'
    <2>1. CallKept(q)'
      <3>1. CallKept(r)
          BY <1>0 DEF CallsKept
      <3> QED
          BY <1>0, <3>1 DEF CallKept
    <2>2. \A s \in sent \cup running : CallKept(s)'
        BY <1>0 DEF CallsKept, CallKept
    <2> QED
        BY <1>0, <2>1, <2>2 DEF CallsKept
  <1>2. StampsDiffer' /\ Alone'
      BY <1>0 DEF StampsDiffer, Alone
  <1>3. Fenced'
      BY <1>0 DEF Fenced
  <1>4. IsFiniteSet(running') /\ Cardinality(running') <= MaxMutating
    <2>1. IsFiniteSet(running) /\ Cardinality(running) <= MaxMutating /\ r \in running
        BY DEF GenIInv, GenTypes
    <2>2. MaxMutating \in Nat /\ Cardinality(running) \in Nat
        BY <2>1, FS_CardinalityType, GenerationsAssumption
    <2> DEFINE rest == running \ {r}
    <2>3. IsFiniteSet(rest) /\ Cardinality(rest) = Cardinality(running) - 1
        BY <2>1, FS_RemoveElement
    <2>4. running' = rest \cup {q}
        BY <1>0
    <2> HIDE DEF rest
    <2>5. /\ IsFiniteSet(rest \cup {q})
          /\ Cardinality(rest \cup {q}) = IF q \in rest THEN Cardinality(rest) ELSE Cardinality(rest) + 1
        BY <2>3, FS_AddElement
    <2> QED
        BY <2>1, <2>2, <2>3, <2>4, <2>5
  <1> QED
      BY <1>1, <1>2, <1>3, <1>4
\* The files, seen by the other calls.
LEMMA OthersSteps ==
  ASSUME GenIInv, NEW r \in running,
         \A g \in Gen : stage'[g] >= stage[g], stage' \in [Gen -> 0..4], swaps \subseteq swaps',
         \A g \in Gen : \/ tree'[g].marker = "absent" <=> tree[g].marker = "absent"
                        \/ g = r.gen /\ r.step = "copied" /\ tree'[g].marker # "absent",
         \A q \in running' : q \in running \ {r} \/ StepKept(q)'
  PROVE  StepsKept'
  <1> SUFFICES ASSUME NEW q \in running', q \in running, q # r PROVE StepKept(q)'
      BY DEF StepsKept
  <1>1. /\ StepKept(q) /\ StepKept(r) /\ Alone /\ q.gen \in Gen /\ r.gen \in Gen
        /\ stage \in [Gen -> 0..4]
      BY DEF GenIInv, StepsKept, CallsKept, CallKept, CallRecord, GenTypes
  <1>2. q.step = "copied" => q.kind = "materialize" /\ tree'[q.gen].marker = "absent"
      BY <1>1 DEF StepKept, Alone
  <1>3. q.step = "away" => q.kind = "apply" /\ tree'[q.gen].marker # "absent" /\ q.old \in Overlay
      BY <1>1 DEF StepKept
  <1>4. q.step \in {"checked", "swapped"} =>
          q.kind = "activate" /\ q.old \in Link /\ (q.old # NoGen => stage'[q.old] >= 3)
    <2> SUFFICES ASSUME q.step \in {"checked", "swapped"}
                 PROVE  q.kind = "activate" /\ q.old \in Link /\ (q.old # NoGen => stage'[q.old] >= 3)
        OBVIOUS
    <2>1. q.kind = "activate" /\ q.old \in Link /\ (q.old # NoGen => stage[q.old] >= 3)
        BY <1>1 DEF StepKept
    <2>2. CASE q.old = NoGen
        BY <2>1, <2>2
    <2>3. CASE q.old # NoGen
      <3>1. q.old \in Gen /\ stage[q.old] >= 3 /\ stage'[q.old] >= stage[q.old]
          BY <2>1, <2>3 DEF Link
      <3>2. stage[q.old] \in 0..4 /\ stage'[q.old] \in 0..4
          BY <1>1, <3>1
      <3> QED
          BY <2>1, <3>1, <3>2
    <2> QED
        BY <2>2, <2>3
  <1>5. q.step = "swapped" => <<q.token, q.gen>> \in swaps'
      BY <1>1 DEF StepKept
  <1> QED
      BY <1>2, <1>3, <1>4, <1>5 DEF StepKept

LEMMA LinksStay ==
  ASSUME GenIInv, \A g \in Gen : stage'[g] >= stage[g], stage' \in [Gen -> 0..4],
         UNCHANGED <<current, previous>>
  PROVE  LinksKept'
  <1> SUFFICES ASSUME NEW g \in {current, previous} \ {NoGen} PROVE stage'[g] >= 3
      BY DEF LinksKept
  <1>1. g \in Gen /\ stage[g] >= 3 /\ stage[g] \in 0..4 /\ stage'[g] \in 0..4
      BY DEF GenIInv, GenTypes, LinksKept, Link
  <1> QED
      BY <1>1

\* A call that ends, or goes on, without a new link.
LEMMA SwapsStay ==
  ASSUME GenIInv, UNCHANGED <<swaps, current>>, stamp' \in Nat, stamp' >= stamp,
         runtime' \in {runtime, NoLease},
         \A q \in running' : \E s \in running : q.kind = s.kind /\ q.gen = s.gen /\ q.token = s.token
  PROVE  SwapsOrdered'
  <1>0. SwapsOrdered /\ stamp \in Nat
      BY DEF GenIInv, GenTypes
  <1>1. swaps' \subseteq Nat \X Gen /\ \A s \in swaps' : s[1] <= stamp'
    <2>1. \A s \in swaps : s[1] \in Nat /\ s[1] <= stamp
        BY <1>0 DEF SwapsOrdered
    <2> QED
        BY <1>0, <2>1 DEF SwapsOrdered
  <1>2. runtime' # NoLease => Ordered(runtime.token, runtime.by)'
      BY <1>0 DEF SwapsOrdered, Ordered
  <1>3. ASSUME NEW q \in running', q.kind = "activate"
        PROVE  Ordered(q.token, q.gen)' /\ runtime' \in {NoLease, [by |-> q.gen, token |-> q.token]}
      BY <1>0, <1>3 DEF SwapsOrdered, Ordered
  <1> QED
      BY <1>0, <1>1, <1>2, <1>3 DEF SwapsOrdered

LEMMA ReportsStay ==
  ASSUME GenIInv, NEW r \in running, NEW ok \in BOOLEAN, Settled(r, ok), swaps \subseteq swaps',
         r.kind = "activate" /\ ok => <<r.token, r.gen>> \in swaps'
  PROVE  Reported'
  <1>1. <<r.token, r.gen>>[2] = r.gen
      OBVIOUS
  <1> QED
      BY <1>1 DEF GenIInv, Reported, Settled

\* What remains to be shown of a call that ends ...
LEMMA EndedKeeps ==
  ASSUME GenIInv, NEW r \in running, NEW ok \in BOOLEAN, Ended(r, ok),
         tree' \in [Gen -> [marker: Marker, whole: BOOLEAN, overlay: Overlay]],
         tmp' \in [Gen -> BOOLEAN], previous' \in Link, TreesKept',
         UNCHANGED <<current, swaps>>,
         previous' = previous \/ (r.step = "swapped" /\ previous' = r.old),
         r.kind = "activate" /\ ok => r.step = "swapped",
         \A g \in Gen : \/ tree'[g].marker = "absent" <=> tree[g].marker = "absent"
                        \/ g = r.gen /\ r.step = "copied" /\ tree'[g].marker # "absent"
  PROVE  GenIInv'
  <1>1. Settled(r, ok)
      BY EndedSettles
  <1>2. /\ CallsKept' /\ StampsDiffer' /\ Alone' /\ Fenced'
        /\ IsFiniteSet(running') /\ Cardinality(running') <= MaxMutating
        /\ \A g \in Gen : stage'[g] >= stage[g]
      BY <1>1, SettledCalls
  <1>3. running' = running \ {r} /\ stage' \in [Gen -> 0..4] /\ stamp' = stamp /\ fence' = fence
        /\ waits' \in [Gen -> 0..stamp] /\ DOMAIN transaction' = Gen /\ runtime' \in {runtime, NoLease}
      BY <1>1 DEF Settled
  <1>4. GenTypes'
    <2>1. /\ stamp \in Nat /\ stamp <= MaxRequests /\ fence \in Nat /\ current \in Link
          /\ runtime \in [by: Link, token: 0..stamp]
        BY DEF GenIInv, GenTypes
    <2>2. NoLease \in [by: Link, token: 0..stamp]
        BY <2>1 DEF NoLease, Link
    <2> QED
        BY <1>2, <1>3, <2>1, <2>2 DEF GenTypes
  <1>5. StepsKept'
      BY <1>2, <1>3, OthersSteps
  <1>6. LinksKept'
    <2>1. CASE previous' = previous
        BY <1>2, <1>3, <2>1, LinksStay
    <2>2. CASE r.step = "swapped" /\ previous' = r.old
      <3>1. r.old \in Link /\ (r.old # NoGen => stage[r.old] >= 3)
          BY <2>2 DEF GenIInv, StepsKept, StepKept
      <3>2. \A g \in {current, previous'} \ {NoGen} : g \in Gen /\ stage[g] >= 3
          BY <2>2, <3>1 DEF GenIInv, LinksKept, GenTypes, Link
      <3>3. \A g \in Gen : stage[g] \in 0..4 /\ stage'[g] \in 0..4
          BY <1>3 DEF GenIInv, GenTypes
      <3> QED
          BY <1>2, <3>2, <3>3 DEF LinksKept
    <2> QED
        BY <2>1, <2>2
  <1>7. SwapsOrdered'
    <2>1. stamp \in Nat /\ stamp' >= stamp
        BY <1>3 DEF GenIInv, GenTypes
    <2> QED
        BY <1>3, <2>1, SwapsStay
  <1>8. Reported'
      BY <1>1, ReportsStay DEF GenIInv, StepsKept, StepKept
  <1> QED
      BY <1>2, <1>4, <1>5, <1>6, <1>7, <1>8 DEF GenIInv

\* ... and of one that goes on.
LEMMA MovedKeeps ==
  ASSUME GenIInv, NEW r \in running, NEW q \in CallRecord, Moved(r, q),
         tree' \in [Gen -> [marker: Marker, whole: BOOLEAN, overlay: Overlay]],
         tmp' \in [Gen -> BOOLEAN], TreesKept', StepKept(q)',
         UNCHANGED <<current, previous, swaps>>,
         \A g \in Gen : tree'[g].marker = "absent" <=> tree[g].marker = "absent"
  PROVE  GenIInv'
  <1>2. /\ CallsKept' /\ StampsDiffer' /\ Alone' /\ Fenced'
        /\ IsFiniteSet(running') /\ Cardinality(running') <= MaxMutating
      BY MovedCalls
  <1>3. /\ running' = (running \ {r}) \cup {q}
        /\ UNCHANGED <<stage, stamp, fence, waits, transaction, runtime>>
        /\ q.gen = r.gen /\ q.kind = r.kind /\ q.token = r.token
      BY DEF Moved
  <1>4. GenTypes'
      BY <1>2, <1>3 DEF GenTypes, GenIInv
  <1>4a. stage' \in [Gen -> 0..4] /\ (\A g \in Gen : stage'[g] >= stage[g]) /\ stamp' \in Nat /\ stamp' >= stamp
      BY <1>3 DEF GenTypes, GenIInv
  <1>5. StepsKept'
      BY <1>3, <1>4a, OthersSteps
  <1>6. LinksKept'
      BY <1>4a, LinksStay
  <1>7. SwapsOrdered'
      BY <1>3, <1>4a, SwapsStay
  <1>8. Reported'
      BY <1>3 DEF GenIInv, Reported
  <1> QED
      BY <1>2, <1>4, <1>5, <1>6, <1>7, <1>8 DEF GenIInv
\* What a call leaves on disk when it ends.
LEMMA TreesSettle ==
  ASSUME GenIInv, NEW r \in running, NEW ok \in BOOLEAN, Ended(r, ok),
         \A g \in Gen \ {r.gen} : tree'[g] = tree[g],
         tree'[r.gen].marker = "absent" => tree'[r.gen] = NoTree,
         tree'[r.gen].marker = "materialized" => tree'[r.gen].whole,
         stage[r.gen] >= 1 => tree'[r.gen].whole,
         stage[r.gen] >= 2 => tree'[r.gen].overlay = "new",
         ok /\ r.kind = "materialize" => tree'[r.gen].whole,
         ok /\ r.kind = "apply" => tree'[r.gen].overlay = "new"
  PROVE  TreesKept'
  <1>0. Settled(r, ok)
      BY EndedSettles
  <1>1. CallKept(r) /\ r.gen \in Gen /\ r.kind \in CallKind /\ TreesKept /\ stage \in [Gen -> 0..4]
      BY DEF GenIInv, CallsKept, CallKept, CallRecord, GenTypes
  <1>2. ASSUME NEW g \in Gen, g # r.gen PROVE tree'[g] = tree[g] /\ stage'[g] = stage[g]
      BY <1>0, <1>2 DEF Settled
  <1>3. stage'[r.gen] = stage[r.gen] \/ (ok /\ stage'[r.gen] = stage[r.gen] + 1 /\ Rank(r.kind) = stage[r.gen] + 1)
      BY <1>0, <1>1 DEF Settled, CallKept
  <1>4. stage'[r.gen] >= 1 => tree'[r.gen].whole
    <2>1. CASE stage[r.gen] >= 1
        BY <2>1
    <2>2. CASE stage[r.gen] = 0
      <3>1. Rank(r.kind) = 1 => r.kind = "materialize"
          BY <1>1 DEF Rank, CallKind
      <3> QED
          BY <1>3, <2>2, <3>1
    <2> QED
        BY <1>1, <2>1, <2>2
  <1>5. stage'[r.gen] >= 2 => tree'[r.gen].overlay = "new"
    <2>1. CASE stage[r.gen] >= 2
        BY <2>1
    <2>2. CASE stage[r.gen] = 1
      <3>1. Rank(r.kind) = 2 => r.kind = "apply"
          BY <1>1 DEF Rank, CallKind
      <3> QED
          BY <1>3, <2>2, <3>1
    <2>3. CASE stage[r.gen] = 0
        BY <1>3, <2>3
    <2> QED
        BY <1>1, <2>1, <2>2, <2>3
  <1> SUFFICES ASSUME NEW g \in Gen
               PROVE  /\ tree'[g].marker = "absent" => tree'[g] = NoTree
                      /\ tree'[g].marker = "materialized" => tree'[g].whole
                      /\ stage'[g] >= 1 => tree'[g].whole
                      /\ stage'[g] >= 2 => tree'[g].overlay = "new"
      BY DEF TreesKept, NoTree
  <1>6. CASE g = r.gen
      BY <1>4, <1>5, <1>6
  <1>7. CASE g # r.gen
      BY <1>1, <1>2, <1>7 DEF TreesKept
  <1> QED
      BY <1>6, <1>7

\* A call that ends and leaves the files alone.
LEMMA EndedPlain ==
  ASSUME GenIInv, NEW r \in running, NEW ok \in BOOLEAN, Ended(r, ok),
         UNCHANGED <<tree, tmp, current, previous, swaps>>,
         ok => r.kind = "materialize" /\ tree[r.gen].marker = "materialized"
  PROVE  GenIInv'
  <1>1. r.gen \in Gen /\ TreesKept
      BY DEF GenIInv, CallsKept, CallKept, CallRecord
  <1>2. TreesKept'
      BY <1>1, TreesSettle DEF TreesKept
  <1> QED
      BY <1>2, EndedKeeps DEF GenIInv, GenTypes

LEMMA GoneOnPlain ==
  ASSUME NEW r \in CallRecord, NEW step \in {"sent", "begun", "copied", "away", "checked", "swapped"}
  PROVE  LET q == [r EXCEPT !.step = step]
         IN  q \in CallRecord /\ q.gen = r.gen /\ q.kind = r.kind /\ q.stamp = r.stamp /\ q.token = r.token
             /\ q.step = step /\ q.old = r.old
  BY DEF CallRecord

LEMMA CallFacts ==
  ASSUME GenIInv, NEW r \in running
  PROVE  /\ r \in CallRecord /\ r.gen \in Gen /\ r.kind \in CallKind
         /\ CallKept(r) /\ StepKept(r) /\ TreesKept
         /\ tree \in [Gen -> [marker: Marker, whole: BOOLEAN, overlay: Overlay]]
         /\ tmp \in [Gen -> BOOLEAN] /\ stage \in [Gen -> 0..4] /\ stage[r.gen] \in 0..4
         /\ current \in Link /\ previous \in Link
         /\ tree[r.gen].marker \in Marker /\ tree[r.gen].whole \in BOOLEAN /\ tree[r.gen].overlay \in Overlay
  BY DEF GenIInv, GenTypes, CallsKept, CallKept, CallRecord, StepsKept

LEMMA StartMaterializeKeeps ==
  ASSUME GenIInv, NEW r \in running, StartMaterialize(r) PROVE GenIInv'
  <1>0. r \in CallRecord /\ r.gen \in Gen /\ tmp \in [Gen -> BOOLEAN] /\ TreesKept
      BY CallFacts
  <1>1. CASE tree[r.gen] # NoTree \/ tmp[r.gen]
    <2> DEFINE ok == tree[r.gen].marker = "materialized"
    <2>1. Ended(r, ok) /\ UNCHANGED <<tree, tmp, current, previous, swaps>> /\ r.kind = "materialize"
        BY <1>1 DEF StartMaterialize, At
    <2>2. ok \in BOOLEAN
        OBVIOUS
    <2>3. ok => r.kind = "materialize" /\ tree[r.gen].marker = "materialized"
        BY <2>1
    <2> HIDE DEF ok
    <2> QED
        BY <2>1, <2>2, <2>3, EndedPlain
  <1>2. CASE ~(tree[r.gen] # NoTree \/ tmp[r.gen])
    <2> DEFINE q == [r EXCEPT !.step = "copied"]
    <2>1. /\ q \in CallRecord /\ q.gen = r.gen /\ q.kind = r.kind /\ q.stamp = r.stamp /\ q.token = r.token
          /\ q.step = "copied"
        BY <1>0, GoneOnPlain
    <2>2. running' = (running \ {r}) \cup {q} /\ r.kind = "materialize"
        BY <1>2 DEF StartMaterialize, At, Goes
    <2> HIDE DEF q
    <2>3. /\ tmp' = [tmp EXCEPT ![r.gen] = TRUE]
          /\ UNCHANGED <<publisher, sent, fence, runtime, inDoubtKeys>>
          /\ UNCHANGED <<tree, current, previous, genFaults, swaps>>
        BY <1>2 DEF StartMaterialize
    <2>4. Moved(r, q)
        BY <2>1, <2>2, <2>3 DEF Moved, publisher
    <2>5. StepKept(q)'
        BY <1>2, <2>1, <2>2, <2>3 DEF StepKept, NoTree
    <2>6. TreesKept' /\ tmp' \in [Gen -> BOOLEAN] /\ tree' = tree
        BY <1>0, <2>3 DEF TreesKept, publisher
    <2> QED
        BY <2>1, <2>3, <2>4, <2>5, <2>6, MovedKeeps, CallFacts
  <1> QED
      BY <1>1, <1>2

LEMMA FinishMaterializeKeeps ==
  ASSUME GenIInv, NEW r \in running, FinishMaterialize(r) PROVE GenIInv'
  <1>0. /\ r \in CallRecord /\ r.gen \in Gen /\ tmp \in [Gen -> BOOLEAN] /\ TreesKept
        /\ r.kind = "materialize" /\ r.step = "copied" /\ tree[r.gen] = NoTree
        /\ tree \in [Gen -> [marker: Marker, whole: BOOLEAN, overlay: Overlay]]
        /\ UNCHANGED <<current, previous, swaps>> /\ previous \in Link
      BY CallFacts DEF FinishMaterialize, At, StepKept, TreesKept
  <1>1. ~(stage[r.gen] >= 1) /\ ~(stage[r.gen] >= 2)
      BY <1>0 DEF TreesKept, NoTree
  <1>2. ASSUME NEW ok \in BOOLEAN, Ended(r, ok), NEW marker \in Marker \ {"absent"},
               tree' = [tree EXCEPT ![r.gen] = [marker |-> marker, whole |-> ok, overlay |-> "base"]],
               tmp' = [tmp EXCEPT ![r.gen] = FALSE], marker = "materialized" => ok
        PROVE  GenIInv'
    <2>1. /\ tree'[r.gen].marker = marker /\ tree'[r.gen].whole = ok /\ \A g \in Gen \ {r.gen} : tree'[g] = tree[g]
          /\ tree' \in [Gen -> [marker: Marker, whole: BOOLEAN, overlay: Overlay]]
          /\ tmp' \in [Gen -> BOOLEAN]
        BY <1>0, <1>2 DEF Overlay
    <2>2. TreesKept'
        BY <1>0, <1>1, <1>2, <2>1, TreesSettle
    <2>3. \A g \in Gen : \/ tree'[g].marker = "absent" <=> tree[g].marker = "absent"
                         \/ g = r.gen /\ r.step = "copied" /\ tree'[g].marker # "absent"
        BY <1>0, <2>1
    <2> QED
        BY <1>0, <1>2, <2>1, <2>2, <2>3, EndedKeeps
  <1>3. CASE tree' = Installed(r.gen) /\ tmp' = [tmp EXCEPT ![r.gen] = FALSE] /\ Ended(r, TRUE)
      BY <1>2, <1>3 DEF Installed, Marker
  <1>4. CASE /\ \E marker \in {"failed", "unreadable"} :
                  tree' = [tree EXCEPT ![r.gen] = [marker |-> marker, whole |-> FALSE, overlay |-> "base"]]
             /\ tmp' = [tmp EXCEPT ![r.gen] = FALSE] /\ Ended(r, FALSE)
      BY <1>2, <1>4 DEF Marker
  <1>5. CASE Ended(r, FALSE) /\ UNCHANGED <<tree, tmp>>
      BY <1>0, <1>5, EndedPlain
  <1> QED
      BY <1>3, <1>4, <1>5 DEF FinishMaterialize

LEMMA OverlayAwayKeeps ==
  ASSUME GenIInv, NEW r \in running, OverlayAway(r) PROVE GenIInv'
  <1>0. /\ r \in CallRecord /\ r.gen \in Gen /\ TreesKept /\ tmp \in [Gen -> BOOLEAN]
        /\ r.kind = "apply" /\ stage[r.gen] \in 0..4
        /\ tree \in [Gen -> [marker: Marker, whole: BOOLEAN, overlay: Overlay]]
        /\ tree[r.gen].overlay \in Overlay
        /\ UNCHANGED <<tmp, current, previous, swaps>>
      BY CallFacts DEF OverlayAway, At
  <1>a. ~(stage[r.gen] >= 2)
      BY <1>0 DEF GenIInv, Fenced
  <1>1. CASE /\ tree[r.gen] # NoTree
             /\ tree' = [tree EXCEPT ![r.gen].overlay = "missing"]
             /\ running' = (running \ {r}) \cup {[r EXCEPT !.step = "away", !.old = tree[r.gen].overlay]}
             /\ UNCHANGED <<publisher, sent, fence, runtime, inDoubtKeys>>
    <2>0. PICK q : q = [r EXCEPT !.step = "away", !.old = tree[r.gen].overlay]
        OBVIOUS
    <2>1. /\ q \in CallRecord /\ q.gen = r.gen /\ q.kind = r.kind /\ q.stamp = r.stamp /\ q.token = r.token
          /\ q.step = "away" /\ q.old = tree[r.gen].overlay
        BY <1>0, <2>0 DEF CallRecord
    <2>2. running' = (running \ {r}) \cup {q}
        BY <1>1, <2>0
    <2>3. /\ tree' \in [Gen -> [marker: Marker, whole: BOOLEAN, overlay: Overlay]]
          /\ \A g \in Gen : tree'[g].marker = tree[g].marker /\ tree'[g].whole = tree[g].whole
          /\ \A g \in Gen \ {r.gen} : tree'[g] = tree[g]
        BY <1>0, <1>1 DEF Overlay
    <2>4. Moved(r, q)
        BY <1>1, <2>1, <2>2 DEF Moved, publisher
    <2>5. StepKept(q)'
        BY <1>0, <1>1, <2>1, <2>3 DEF StepKept, TreesKept
    <2>6. stage' = stage
        BY <1>1 DEF publisher
    <2>7. TreesKept'
        BY <1>0, <1>a, <1>1, <2>3, <2>6 DEF TreesKept
    <2> QED
        BY <1>0, <2>1, <2>3, <2>4, <2>5, <2>7, MovedKeeps
  <1>2. CASE Ended(r, FALSE) /\ UNCHANGED tree
      BY <1>0, <1>2, EndedPlain
  <1> QED
      BY <1>1, <1>2 DEF OverlayAway

LEMMA OverlayInKeeps ==
  ASSUME GenIInv, NEW r \in running, OverlayIn(r) PROVE GenIInv'
  <1>0. /\ r \in CallRecord /\ r.gen \in Gen /\ TreesKept /\ tmp \in [Gen -> BOOLEAN]
        /\ r.kind = "apply" /\ stage[r.gen] \in 0..4 /\ r.step = "away" /\ r.old \in Overlay
        /\ tree \in [Gen -> [marker: Marker, whole: BOOLEAN, overlay: Overlay]]
        /\ tree[r.gen].marker # "absent" /\ previous \in Link
        /\ UNCHANGED <<tmp, current, previous, swaps>>
      BY CallFacts DEF OverlayIn, At, StepKept
  <1>a. ~(stage[r.gen] >= 2)
      BY <1>0 DEF GenIInv, Fenced
  <1>1. ASSUME NEW ok \in BOOLEAN, Ended(r, ok), NEW overlay \in Overlay,
               tree' = [tree EXCEPT ![r.gen].overlay = overlay], ok => overlay = "new"
        PROVE  GenIInv'
    <2>1. /\ tree' \in [Gen -> [marker: Marker, whole: BOOLEAN, overlay: Overlay]]
          /\ \A g \in Gen : tree'[g].marker = tree[g].marker /\ tree'[g].whole = tree[g].whole
          /\ \A g \in Gen \ {r.gen} : tree'[g] = tree[g]
          /\ tree'[r.gen].overlay = overlay
        BY <1>0, <1>1
    <2>2. /\ tree'[r.gen].marker = "absent" => tree'[r.gen] = NoTree
          /\ tree'[r.gen].marker = "materialized" => tree'[r.gen].whole
          /\ stage[r.gen] >= 1 => tree'[r.gen].whole
          /\ ok /\ r.kind = "apply" => tree'[r.gen].overlay = "new"
          /\ ok /\ r.kind = "materialize" => tree'[r.gen].whole
        BY <1>0, <1>1, <2>1 DEF TreesKept
    <2>3. TreesKept'
        BY <1>a, <1>1, <2>1, <2>2, TreesSettle
    <2> QED
        BY <1>0, <1>1, <2>1, <2>3, EndedKeeps
  <1>2. CASE tree' = [tree EXCEPT ![r.gen].overlay = "new"] /\ (Ended(r, TRUE) \/ Ended(r, FALSE))
      BY <1>1, <1>2 DEF Overlay
  <1>3. CASE tree' \in {tree, [tree EXCEPT ![r.gen].overlay = r.old]} /\ Ended(r, FALSE)
    <2>1. CASE tree' = tree
        BY <1>0, <1>3, <2>1, EndedPlain
    <2>2. CASE tree' = [tree EXCEPT ![r.gen].overlay = r.old]
        BY <1>0, <1>1, <1>3, <2>2
    <2> QED
        BY <1>3, <2>1, <2>2
  <1> QED
      BY <1>2, <1>3 DEF OverlayIn

LEMMA RecordReadyKeeps ==
  ASSUME GenIInv, NEW r \in running, RecordReady(r) PROVE GenIInv'
  <1>0. /\ r \in CallRecord /\ r.gen \in Gen /\ TreesKept /\ tmp \in [Gen -> BOOLEAN]
        /\ r.kind = "record" /\ previous \in Link
        /\ tree \in [Gen -> [marker: Marker, whole: BOOLEAN, overlay: Overlay]]
        /\ UNCHANGED <<tmp, current, previous, swaps>>
      BY CallFacts DEF RecordReady, At
  <1>1. CASE /\ tree[r.gen].marker \notin {"absent", "unreadable"}
             /\ tree' = [tree EXCEPT ![r.gen].marker = "ready"]
             /\ Ended(r, TRUE)
    <2>1. /\ tree' \in [Gen -> [marker: Marker, whole: BOOLEAN, overlay: Overlay]]
          /\ \A g \in Gen : tree'[g].overlay = tree[g].overlay /\ tree'[g].whole = tree[g].whole
          /\ \A g \in Gen \ {r.gen} : tree'[g] = tree[g]
          /\ tree'[r.gen].marker = "ready"
        BY <1>0, <1>1 DEF Marker
    <2>2a. /\ stage[r.gen] >= 1 => tree'[r.gen].whole
           /\ stage[r.gen] >= 2 => tree'[r.gen].overlay = "new"
        BY <1>0, <2>1 DEF TreesKept
    <2>2. TreesKept'
        BY <1>0, <1>1, <2>1, <2>2a, TreesSettle
    <2>3. \A g \in Gen : tree'[g].marker = "absent" <=> tree[g].marker = "absent"
        BY <1>0, <1>1, <2>1
    <2> QED
        BY <1>0, <1>1, <2>1, <2>2, <2>3, EndedKeeps
  <1>2. CASE Ended(r, FALSE) /\ UNCHANGED tree
      BY <1>0, <1>2, EndedPlain
  <1> QED
      BY <1>1, <1>2 DEF RecordReady

LEMMA StartActivateKeeps ==
  ASSUME GenIInv, NEW r \in running, StartActivate(r) PROVE GenIInv'
  <1>0. /\ r \in CallRecord /\ r.gen \in Gen /\ TreesKept
        /\ r.kind = "activate" /\ current \in Link
        /\ UNCHANGED <<tree, tmp, current, previous, swaps>>
      BY CallFacts DEF StartActivate, At, files
  <1>1. CASE /\ running' = (running \ {r}) \cup {[r EXCEPT !.step = "checked", !.old = current]}
             /\ UNCHANGED <<publisher, sent, fence, runtime, inDoubtKeys>>
    <2>0. PICK q : q = [r EXCEPT !.step = "checked", !.old = current]
        OBVIOUS
    <2>1. /\ q \in CallRecord /\ q.gen = r.gen /\ q.kind = r.kind /\ q.stamp = r.stamp /\ q.token = r.token
          /\ q.step = "checked" /\ q.old = current
        BY <1>0, <2>0 DEF CallRecord
    <2>2. running' = (running \ {r}) \cup {q}
        BY <1>1, <2>0
    <2>4. Moved(r, q)
        BY <1>1, <2>1, <2>2 DEF Moved, publisher
    <2>5. StepKept(q)'
        BY <1>0, <1>1, <2>1 DEF StepKept, GenIInv, LinksKept, publisher
    <2>7. TreesKept'
        BY <1>0, <1>1 DEF TreesKept, publisher
    <2> QED
        BY <1>0, <2>1, <2>4, <2>5, <2>7, MovedKeeps, CallFacts
  <1>2. CASE Ended(r, FALSE)
      BY <1>0, <1>2, EndedPlain
  <1> QED
      BY <1>1, <1>2 DEF StartActivate

LEMMA SwapPreviousKeeps ==
  ASSUME GenIInv, NEW r \in running, SwapPrevious(r) PROVE GenIInv'
  <1>0. /\ r \in CallRecord /\ r.gen \in Gen /\ TreesKept
        /\ r.kind = "activate" /\ r.step = "swapped" /\ r.old \in Link
        /\ UNCHANGED <<tree, tmp, current, swaps>>
      BY CallFacts DEF SwapPrevious, At, StepKept
  <1>1. CASE previous' = r.old /\ Ended(r, TRUE)
    <2>1. TreesKept'
        BY <1>0, <1>1, TreesSettle DEF TreesKept
    <2> QED
        BY <1>0, <1>1, <2>1, EndedKeeps, CallFacts
  <1>2. CASE Ended(r, FALSE) /\ UNCHANGED previous
      BY <1>0, <1>2, EndedPlain
  <1> QED
      BY <1>1, <1>2 DEF SwapPrevious
LEMMA SwapCurrentKeeps ==
  ASSUME GenIInv, NEW r \in running, SwapCurrent(r) PROVE GenIInv'
  <1>0. /\ r \in CallRecord /\ r.gen \in Gen /\ TreesKept
        /\ r.kind = "activate" /\ r.step = "checked" /\ r.old \in Link /\ CallKept(r)
        /\ r.token \in Nat /\ r.token <= stamp /\ stage[r.gen] \in 0..4 /\ stamp \in Nat
        /\ tree \in [Gen -> [marker: Marker, whole: BOOLEAN, overlay: Overlay]]
        /\ tmp \in [Gen -> BOOLEAN] /\ previous \in Link
        /\ UNCHANGED <<tree, tmp, previous>>
      BY CallFacts DEF SwapCurrent, At, StepKept, CallRecord, CallKept, GenIInv, GenTypes
  <1>1. CASE Ended(r, FALSE) /\ UNCHANGED <<current, swaps>>
      BY <1>0, <1>1, EndedPlain
  <1>2. ASSUME current' = r.gen, swaps' = swaps \cup {<<r.token, r.gen>>}
        PROVE  GenIInv'
    <2>1. stage[r.gen] >= 3
        BY <1>0 DEF CallKept, Rank
    <2>2. current' \in Link /\ swaps \subseteq swaps' /\ <<r.token, r.gen>> \in swaps'
        BY <1>0, <1>2 DEF Link
    <2>a. SwapsOrdered /\ Alone /\ Reported
        BY DEF GenIInv
    <2>b. Ordered(r.token, r.gen) /\ runtime \in {NoLease, [by |-> r.gen, token |-> r.token]}
        BY <1>0, <2>a DEF SwapsOrdered
    <2>c. \A s \in swaps' : s[1] \in Nat /\ s[1] <= r.token /\ (s[1] = r.token => s[2] = r.gen)
      <3> SUFFICES ASSUME NEW s \in swaps'
                   PROVE  s[1] \in Nat /\ s[1] <= r.token /\ (s[1] = r.token => s[2] = r.gen)
          OBVIOUS
      <3>1. CASE s \in swaps
          BY <2>a, <2>b, <3>1 DEF Ordered, SwapsOrdered
      <3>2. CASE s = <<r.token, r.gen>>
          BY <1>0, <3>2
      <3> QED
          BY <1>2, <3>1, <3>2
    <2>3. ASSUME stamp' = stamp, runtime' \in {runtime, NoLease},
                 \A q \in running' : q \in running \/ (q.gen = r.gen /\ q.kind = r.kind /\ q.token = r.token)
          PROVE  SwapsOrdered'
      <3>1. swaps' \subseteq Nat \X Gen /\ \A s \in swaps' : s[1] <= stamp'
        <4>1. <<r.token, r.gen>> \in Nat \X Gen
            BY <1>0
        <4>2. \A s \in swaps' : s[1] <= stamp
            BY <1>0, <2>c
        <4> QED
            BY <1>2, <2>a, <2>3, <4>1, <4>2 DEF SwapsOrdered
      <3>2. Ordered(r.token, r.gen)'
          BY <2>c DEF Ordered
      <3>3. runtime' # NoLease => Ordered(runtime.token, runtime.by)'
        <4> SUFFICES ASSUME runtime' # NoLease PROVE Ordered(runtime.token, runtime.by)'
            OBVIOUS
        <4>1. runtime' = [by |-> r.gen, token |-> r.token]
            BY <2>b, <2>3
        <4>2. runtime'.token = r.token /\ runtime'.by = r.gen
            BY <4>1
        <4> QED
            BY <3>2, <4>2 DEF Ordered
      <3>4. ASSUME NEW q \in running', q.kind = "activate" PROVE q.gen = r.gen /\ q.token = r.token
          BY <1>0, <2>a, <2>3, <3>4 DEF Alone
      <3>5. runtime' \in {NoLease, [by |-> r.gen, token |-> r.token]}
          BY <2>b, <2>3
      <3>6. ASSUME NEW s \in swaps', \A t \in swaps' : t[1] <= s[1] PROVE current' = s[2]
        <4>1. s[1] = r.token
          <5>1. r.token <= s[1]
              BY <2>2, <3>6
          <5> QED
              BY <1>0, <2>c, <5>1
        <4> QED
            BY <1>2, <2>c, <4>1
      <3>7. ASSUME NEW q \in running', q.kind = "activate"
            PROVE  Ordered(q.token, q.gen)' /\ runtime' \in {NoLease, [by |-> q.gen, token |-> q.token]}
        <4>1. q.gen = r.gen /\ q.token = r.token
            BY <3>4, <3>7
        <4> QED
            BY <3>2, <3>5, <4>1 DEF Ordered
      <3> QED
          BY <3>1, <3>3, <3>6, <3>7 DEF SwapsOrdered
    <2>4. ASSUME \A g \in Gen : stage'[g] >= stage[g], stage' \in [Gen -> 0..4] PROVE LinksKept'
      <3> SUFFICES ASSUME NEW g \in {current', previous} \ {NoGen} PROVE stage'[g] >= 3
          BY <1>0 DEF LinksKept
      <3>1. g \in Gen /\ stage[g] >= 3
          BY <1>0, <1>2, <2>1 DEF GenIInv, LinksKept, Link
      <3>2. stage[g] \in 0..4 /\ stage'[g] \in 0..4 /\ stage'[g] >= stage[g]
          BY <2>4, <3>1 DEF GenIInv, GenTypes
      <3> QED
          BY <3>1, <3>2
    <2>5. CASE r.old = NoGen /\ Ended(r, TRUE)
      <3>1. Settled(r, TRUE)
          BY <2>5, EndedSettles
      <3>2. /\ CallsKept' /\ StampsDiffer' /\ Alone' /\ Fenced'
            /\ IsFiniteSet(running') /\ Cardinality(running') <= MaxMutating
            /\ \A g \in Gen : stage'[g] >= stage[g]
          BY <3>1, SettledCalls
      <3>3. /\ running' = running \ {r} /\ stage' \in [Gen -> 0..4] /\ stamp' = stamp /\ fence' = fence
            /\ waits' \in [Gen -> 0..stamp] /\ DOMAIN transaction' = Gen /\ runtime' \in {runtime, NoLease}
          BY <3>1 DEF Settled
      <3>4. GenTypes'
        <4>1. fence \in Nat /\ stamp <= MaxRequests /\ runtime \in [by: Link, token: 0..stamp]
            BY DEF GenIInv, GenTypes
        <4>2. NoLease \in [by: Link, token: 0..stamp]
            BY <1>0 DEF NoLease, Link
        <4> QED
            BY <1>0, <2>2, <3>2, <3>3, <4>1, <4>2 DEF GenTypes
      <3>5. StepsKept'
          BY <1>0, <2>2, <3>2, <3>3, OthersSteps
      <3>6. SwapsOrdered'
          BY <2>3, <3>3
      <3>7. LinksKept'
          BY <2>4, <3>2, <3>3
      <3>8. Reported'
          BY <2>2, <3>1, ReportsStay
      <3>9. TreesKept'
          BY <1>0, <2>5, TreesSettle DEF TreesKept
      <3> QED
          BY <3>2, <3>4, <3>5, <3>6, <3>7, <3>8, <3>9 DEF GenIInv
    <2>6. CASE Goes(r, "swapped") /\ UNCHANGED <<publisher, sent, fence, runtime, inDoubtKeys>>
      <3>0. PICK q : q = [r EXCEPT !.step = "swapped"]
          OBVIOUS
      <3>1. /\ q \in CallRecord /\ q.gen = r.gen /\ q.kind = r.kind /\ q.stamp = r.stamp /\ q.token = r.token
            /\ q.step = "swapped" /\ q.old = r.old
          BY <1>0, <3>0, GoneOnPlain
      <3>2. running' = (running \ {r}) \cup {q}
          BY <2>6, <3>0 DEF Goes
      <3>3. Moved(r, q)
          BY <2>6, <3>1, <3>2 DEF Moved, publisher
      <3>4. /\ CallsKept' /\ StampsDiffer' /\ Alone' /\ Fenced'
            /\ IsFiniteSet(running') /\ Cardinality(running') <= MaxMutating
          BY <3>1, <3>3, MovedCalls
      <3>5. /\ UNCHANGED <<stage, stamp, fence, waits, transaction, runtime>>
          BY <3>3 DEF Moved
      <3>6. GenTypes'
          BY <1>0, <2>2, <3>4, <3>5 DEF GenTypes, GenIInv
      <3>7. stage' \in [Gen -> 0..4] /\ (\A g \in Gen : stage'[g] >= stage[g])
          BY <3>5 DEF GenTypes, GenIInv
      <3>8. StepKept(q)'
        <4>1. StepKept(r)
            BY CallFacts
        <4> QED
            BY <1>0, <2>2, <3>1, <3>5, <4>1 DEF StepKept
      <3>9. StepsKept'
          BY <1>0, <2>2, <3>2, <3>7, <3>8, OthersSteps
      <3>10. SwapsOrdered' /\ LinksKept'
          BY <2>3, <2>4, <3>1, <3>2, <3>5, <3>7
      <3>11. Reported' /\ TreesKept'
          BY <1>0, <2>a, <2>2, <3>5 DEF Reported, TreesKept
      <3> QED
          BY <3>4, <3>6, <3>9, <3>10, <3>11 DEF GenIInv
    <2> QED
        BY <1>2, <2>5, <2>6, <1>1 DEF SwapCurrent
  <1> QED
      BY <1>1, <1>2 DEF SwapCurrent
-----------------------------------------------------------------------------
(* Admission, publishers and faults.                                       *)

LEMMA SentFacts ==
  ASSUME GenIInv, NEW r \in sent
  PROVE  /\ r \in CallRecord /\ r.gen \in Gen /\ r.kind \in CallKind /\ CallKept(r)
         /\ r.stamp \in Nat /\ r.stamp # 0
  BY DEF GenIInv, CallsKept, CallKept, CallRecord

LEMMA BeginCallKeeps ==
  ASSUME GenIInv, NEW r \in sent, BeginCall(r) PROVE GenIInv'
  <1>0. PICK q : q = [r EXCEPT !.step = "begun"]
      OBVIOUS
  <1>1. /\ q \in CallRecord /\ q.gen = r.gen /\ q.kind = r.kind /\ q.stamp = r.stamp /\ q.token = r.token
        /\ q.step = "begun" /\ r.gen \in Gen /\ r.kind \in CallKind /\ CallKept(r) /\ r.stamp \in Nat
      BY <1>0, SentFacts, GoneOnPlain
  <1>2. /\ running' = running \cup {q} /\ sent' = sent \ {r}
        /\ fence' = (IF r.kind = "activate" THEN fence ELSE FenceOf(r.stamp))
        /\ UNCHANGED <<tree, tmp, current, previous, stage, waits, stamp, transaction, runtime, swaps>>
      BY <1>0 DEF BeginCall, files, publisher
  <1>3. /\ KeysOf(r.kind, r.gen) \cap Locked = {} /\ Cardinality(running) < MaxMutating
        /\ r.kind = "activate" => runtime = [by |-> r.gen, token |-> r.token]
        /\ r.kind = "activate" \/ FenceOf(r.stamp) >= fence
      BY DEF BeginCall, MayRun, PoolFree, Fresh
  <1>4. ASSUME NEW s \in running, s.kind = r.kind, s.gen = r.gen \/ s.kind = "activate" PROVE FALSE
    <2>1. KeysOf(s.kind, s.gen) \subseteq Locked
        BY DEF Locked
    <2>2. KeysOf(s.kind, s.gen) = KeysOf(r.kind, r.gen)
        BY <1>4 DEF KeysOf
    <2>3. KeysOf(r.kind, r.gen) # {}
        BY <1>1 DEF KeysOf, CallKind
    <2> QED
        BY <1>3, <2>1, <2>2, <2>3
  <1>5. /\ CallsKept /\ StampsDiffer /\ Alone /\ Fenced /\ SwapsOrdered /\ fence \in Nat
        /\ stage \in [Gen -> 0..4] /\ stamp \in Nat
      BY DEF GenIInv, GenTypes
  <1>6. GenTypes'
    <2>0. FenceOf(r.stamp) \in Nat
        BY FenceTypes
    <2>1. IsFiniteSet(running) /\ MaxMutating \in Nat /\ Cardinality(running) \in Nat
        BY GenerationsAssumption, FS_CardinalityType DEF GenIInv, GenTypes
    <2>2. /\ IsFiniteSet(running \cup {q})
          /\ Cardinality(running \cup {q}) =
               IF q \in running THEN Cardinality(running) ELSE Cardinality(running) + 1
        BY <2>1, FS_AddElement
    <2>2a. Cardinality(running') <= Cardinality(running) + 1 /\ Cardinality(running') \in Nat
        BY <1>2, <2>1, <2>2
    <2>3. IsFiniteSet(running') /\ Cardinality(running') <= MaxMutating
      <3>1. Cardinality(running) + 1 <= MaxMutating
          BY <1>3, <2>1
      <3> QED
          BY <1>2, <2>1, <2>2, <2>2a, <3>1
    <2> QED
        BY <1>1, <1>2, <1>5, <2>0, <2>3 DEF GenIInv, GenTypes
  <1>7. CallsKept'
    <2>1. CallKept(q)'
        BY <1>1, <1>2 DEF CallKept
    <2>2. \A s \in sent \cup running : CallKept(s)'
        BY <1>2, <1>5 DEF CallsKept, CallKept
    <2> QED
        BY <1>2, <2>1, <2>2 DEF CallsKept
  <1>8. StampsDiffer' /\ Alone'
    <2>1. StampsDiffer'
        BY <1>1, <1>2, <1>5 DEF StampsDiffer
    <2>2. Alone'
        BY <1>1, <1>2, <1>4, <1>5 DEF Alone
    <2> QED
        BY <2>1, <2>2
  <1>9. Fenced'
    <2>1. fence' \in Nat /\ fence' >= fence
        BY <1>1, <1>2, <1>3, <1>5, FenceTypes
    <2>2. \A s \in sent \cup running : FenceOf(s.stamp) \in Nat
        BY FenceTypes
    <2>3. \A s \in running' : s.kind # "activate" => FenceOf(s.stamp) <= fence'
        BY <1>1, <1>2, <1>5, <2>1, <2>2 DEF Fenced
    <2>4. r.kind = "apply" => stage[r.gen] < 2
      <3> SUFFICES ASSUME r.kind = "apply", stage[r.gen] >= 2 PROVE FALSE
          BY <1>1, <1>5
      <3>1. FenceOf(r.stamp) < fence
          BY <1>5 DEF Fenced
      <3> QED
          BY <1>3, <1>5, <2>2, <3>1
    <2>5. \A s \in running' : s.kind = "apply" => stage'[s.gen] < 2
        BY <1>1, <1>2, <1>5, <2>4 DEF Fenced
    <2>6. \A s \in sent' : s.kind = "apply" /\ stage'[s.gen] >= 2 => FenceOf(s.stamp) < fence'
        BY <1>2, <1>5, <2>1, <2>2 DEF Fenced
    <2> QED
        BY <2>3, <2>5, <2>6 DEF Fenced
  <1>10. TreesKept' /\ LinksKept' /\ Reported'
      BY <1>2 DEF GenIInv, TreesKept, LinksKept, Reported
  <1>11. StepsKept'
    <2>1. StepKept(q)'
        BY <1>1 DEF StepKept
    <2>2. \A s \in running : StepKept(s)'
        BY <1>2 DEF GenIInv, StepsKept, StepKept
    <2> QED
        BY <1>2, <2>1, <2>2 DEF StepsKept
  <1>12. SwapsOrdered'
    <2>1. q.kind = "activate" => Ordered(q.token, q.gen)' /\ runtime' \in {NoLease, [by |-> q.gen, token |-> q.token]}
      <3> SUFFICES ASSUME q.kind = "activate"
                   PROVE  Ordered(q.token, q.gen)' /\ runtime' \in {NoLease, [by |-> q.gen, token |-> q.token]}
          OBVIOUS
      <3>1. runtime = [by |-> q.gen, token |-> q.token]
          BY <1>1, <1>3
      <3>2. runtime.by = q.gen /\ runtime.token = q.token
          BY <3>1
      <3>3. runtime # NoLease
          BY <1>1, <3>2, GenerationsAssumption DEF NoLease
      <3> QED
          BY <1>2, <1>5, <3>1, <3>2, <3>3 DEF SwapsOrdered, Ordered
    <2>2. ASSUME NEW s \in running', s.kind = "activate"
          PROVE  Ordered(s.token, s.gen)' /\ runtime' \in {NoLease, [by |-> s.gen, token |-> s.token]}
        BY <1>2, <1>5, <2>1, <2>2 DEF SwapsOrdered, Ordered
    <2>3. runtime' # NoLease => Ordered(runtime.token, runtime.by)'
        BY <1>2, <1>5 DEF SwapsOrdered, Ordered
    <2> QED
        BY <1>2, <1>5, <2>2, <2>3 DEF SwapsOrdered
  <1> QED
      BY <1>6, <1>7, <1>8, <1>9, <1>10, <1>11, <1>12 DEF GenIInv

\* Steps that leave the files and the calls that run alone, and drop calls on
\* their way, leases or what publishers wait for.
LEMMA DroppedKeeps ==
  ASSUME GenIInv, UNCHANGED <<tree, current, previous, stage, stamp, fence, swaps>>,
         running' \subseteq running, IsFiniteSet(running'), Cardinality(running') <= MaxMutating,
         sent' \subseteq sent, tmp' \in [Gen -> BOOLEAN],
         waits' \in [Gen -> 0..stamp], \A g \in Gen : waits'[g] \in {waits[g], 0},
         DOMAIN transaction' = Gen,
         \A g \in Gen : transaction'[g] = "activated" => transaction[g] = "activated",
         runtime' \in {runtime, NoLease}
  PROVE  GenIInv'
  <1>1. GenTypes'
    <2>1. NoLease \in [by: Link, token: 0..stamp]
        BY DEF NoLease, Link, GenIInv, GenTypes
    <2> QED
        BY <2>1 DEF GenIInv, GenTypes
  <1>2. CallsKept'
    <2> SUFFICES ASSUME NEW s \in sent \cup running PROVE CallKept(s)'
        BY DEF CallsKept
    <2>1. CallKept(s) /\ s.gen \in Gen /\ s.stamp # 0
        BY DEF GenIInv, CallsKept, CallKept, CallRecord
    <2> QED
        BY <2>1 DEF CallKept
  <1>3. StampsDiffer' /\ Alone' /\ Fenced'
      BY DEF GenIInv, StampsDiffer, Alone, Fenced
  <1>4. TreesKept' /\ LinksKept' /\ Reported'
      BY DEF GenIInv, TreesKept, LinksKept, Reported
  <1>5. StepsKept'
      BY DEF GenIInv, StepsKept, StepKept
  <1>6. SwapsOrdered'
    <2>1. stamp' \in Nat /\ stamp' >= stamp
        BY DEF GenIInv, GenTypes
    <2>2. \A q \in running' : \E s \in running : q.kind = s.kind /\ q.gen = s.gen /\ q.token = s.token
        OBVIOUS
    <2> QED
        BY <2>1, <2>2, SwapsStay
  <1> QED
      BY <1>1, <1>2, <1>3, <1>4, <1>5, <1>6 DEF GenIInv

LEMMA DropTypes ==
  ASSUME GenIInv
  PROVE  /\ tmp \in [Gen -> BOOLEAN] /\ waits \in [Gen -> 0..stamp] /\ stamp \in Nat
         /\ DOMAIN transaction = Gen /\ stage \in [Gen -> 0..4]
         /\ IsFiniteSet(running) /\ Cardinality(running) <= MaxMutating
  BY DEF GenIInv, GenTypes

LEMMA RefuseCallKeeps ==
  ASSUME GenIInv, NEW r \in sent, RefuseCall(r) PROVE GenIInv'
  <1>1. /\ UNCHANGED <<tree, tmp, current, previous, stage, stamp, fence, swaps, running, runtime>>
        /\ sent' \subseteq sent
      BY DEF RefuseCall, files
  <1>2. /\ waits' \in [Gen -> 0..stamp] /\ \A g \in Gen : waits'[g] \in {waits[g], 0}
        /\ DOMAIN transaction' = Gen
        /\ \A g \in Gen : transaction'[g] = "activated" => transaction[g] = "activated"
      BY DropTypes, SentFacts DEF RefuseCall, Recorded
  <1> QED
      BY <1>1, <1>2, DropTypes, DroppedKeeps

LEMMA GiveUpCallKeeps ==
  ASSUME GenIInv, NEW g \in Gen, GiveUpCall(g) PROVE GenIInv'
  <1>1. UNCHANGED <<tree, tmp, current, previous, stage, stamp, fence, swaps, sent, running, runtime>>
      BY DEF GiveUpCall, files
  <1>2. /\ waits' \in [Gen -> 0..stamp] /\ \A h \in Gen : waits'[h] \in {waits[h], 0}
        /\ DOMAIN transaction' = Gen
        /\ \A h \in Gen : transaction'[h] = "activated" => transaction[h] = "activated"
      BY DropTypes DEF GiveUpCall
  <1> QED
      BY <1>1, <1>2, DropTypes, DroppedKeeps

LEMMA LeaseExpiresKeeps ==
  ASSUME GenIInv, LeaseExpires PROVE GenIInv'
  <1>1. /\ UNCHANGED <<tree, tmp, current, previous, stage, waits, transaction, stamp, fence, swaps, sent, running>>
        /\ runtime' = NoLease
      BY DEF LeaseExpires, files, publisher
  <1> QED
      BY <1>1, DropTypes, DroppedKeeps

LEMMA CrashPublishingKeeps ==
  ASSUME GenIInv, CrashPublishing PROVE GenIInv'
  <1>1. /\ UNCHANGED <<tree, current, previous, stage, stamp, fence, swaps, sent, runtime>>
        /\ running' = {} /\ tmp' \in [Gen -> BOOLEAN]
      BY DEF CrashPublishing
  <1>2. /\ waits' \in [Gen -> 0..stamp] /\ \A g \in Gen : waits'[g] \in {waits[g], 0}
        /\ DOMAIN transaction' = Gen
        /\ \A g \in Gen : transaction'[g] = "activated" => transaction[g] = "activated"
      BY DropTypes DEF CrashPublishing
  <1>3. IsFiniteSet(running') /\ Cardinality(running') <= MaxMutating
      BY <1>1, FS_EmptySet, GenerationsAssumption
  <1> QED
      BY <1>1, <1>2, <1>3, DropTypes, DroppedKeeps

LEMMA RecoverKeyKeeps ==
  ASSUME GenIInv, NEW key \in inDoubtKeys, RecoverKey(key) PROVE GenIInv'
  <1>1. UNCHANGED <<tree, tmp, current, previous, stage, waits, transaction, stamp, fence, swaps, sent, running, runtime>>
      BY DEF RecoverKey, files, publisher
  <1> QED
      BY <1>1, DropTypes, DroppedKeeps

LEMMA SendKeeps ==
  ASSUME GenIInv, NEW g \in Gen, Send(g) PROVE GenIInv'
  <1>0. /\ GenTypes /\ CallsKept /\ StampsDiffer /\ Alone /\ Fenced /\ TreesKept /\ StepsKept
        /\ LinksKept /\ SwapsOrdered /\ Reported
        /\ stage \in [Gen -> 0..4] /\ waits \in [Gen -> 0..stamp] /\ stamp \in Nat
        /\ runtime \in [by: Link, token: 0..stamp] /\ runtime.token \in 0..stamp
      BY DEF GenIInv, GenTypes
  <1>1. PICK kind, lease, q :
          /\ kind = Calls[stage[g] + 1]
          /\ lease \in (IF kind = "activate" THEN LeaseFor(g) ELSE {runtime})
          /\ q = [gen |-> g, kind |-> kind, stamp |-> stamp + 1,
                  token |-> IF kind = "activate" THEN lease.token ELSE 0,
                  step |-> "sent", old |-> NoGen]
          /\ runtime' = lease /\ sent' = sent \cup {q}
          /\ transaction' = TransactionBegun(g, kind)
      BY DEF Send
  <1>2. /\ stage[g] < Len(Calls) /\ waits[g] = 0 /\ stamp' = stamp + 1
        /\ waits' = [waits EXCEPT ![g] = stamp + 1]
        /\ UNCHANGED <<tree, tmp, current, previous, stage, running, fence, swaps>>
      BY DEF Send, files
  <1>3. stage[g] \in 0..3 /\ kind \in CallKind /\ Rank(kind) = stage[g] + 1
    <2>1. Len(Calls) = 4 /\ Calls[1] = "materialize" /\ Calls[2] = "apply" /\ Calls[3] = "record"
          /\ Calls[4] = "activate"
        BY DEF Calls
    <2>2. stage[g] \in 0..3
        BY <1>0, <1>2, <2>1
    <2>3. stage[g] = 0 \/ stage[g] = 1 \/ stage[g] = 2 \/ stage[g] = 3
        BY <2>2
    <2> QED
        BY <1>1, <2>1, <2>2, <2>3 DEF CallKind, Rank
  <1>4. /\ lease \in [by: Link, token: 0..(stamp + 1)] /\ lease.token \in Nat /\ lease.token <= stamp + 1
        /\ \/ lease = runtime
           \/ /\ lease = [by |-> g, token |-> stamp + 1]
              /\ runtime = NoLease /\ \A s \in running : s.kind # "activate"
    <2>1. CASE lease = runtime
        BY <1>0, <2>1
    <2>2. CASE lease # runtime
      <3>1. lease = [by |-> g, token |-> stamp + 1] /\ runtime = NoLease /\ <<"runtime">> \notin Locked
          BY <1>1, <2>2 DEF LeaseFor
      <3>2. ASSUME NEW s \in running, s.kind = "activate" PROVE FALSE
        <4>1. KeysOf(s.kind, s.gen) \subseteq Locked
            BY DEF Locked
        <4>2. <<"runtime">> \in KeysOf(s.kind, s.gen)
            BY <3>2 DEF KeysOf
        <4> QED
            BY <3>1, <4>1, <4>2
      <3> QED
          BY <1>0, <3>1, <3>2 DEF Link
    <2> QED
        BY <2>1, <2>2
  <1>5. /\ q \in CallRecord /\ q.gen = g /\ q.kind = kind /\ q.stamp = stamp + 1 /\ q.token <= stamp + 1
        /\ q.step = "sent"
    <2>1. q.token \in Nat /\ q.token <= stamp + 1
        BY <1>0, <1>1, <1>4
    <2>2. stamp + 1 \in Nat \ {0} /\ NoGen \in Link \cup Overlay
        BY <1>0 DEF Link
    <2> QED
        BY <1>1, <1>3, <2>1, <2>2 DEF CallRecord
  <1>6. GenTypes'
    <2>1. stamp' \in Nat /\ stamp' <= MaxRequests /\ waits' \in [Gen -> 0..stamp']
        BY <1>0, <1>2, GenerationsAssumption DEF Send
    <2>2. DOMAIN transaction' = Gen
        BY <1>0, <1>1 DEF GenTypes, TransactionBegun
    <2> QED
        BY <1>0, <1>1, <1>2, <1>4, <2>1, <2>2 DEF GenTypes
  <1>7. \A s \in sent \cup running : s.stamp \in Nat /\ s.stamp <= stamp /\ s.stamp # 0 /\ s.gen \in Gen
        /\ s.token \in Nat /\ s.token <= stamp
      BY <1>0 DEF CallsKept, CallKept, CallRecord
  <1>8. CallsKept'
    <2>1. CallKept(q)'
      <3>1. waits'[g] = stamp + 1
          BY <1>0, <1>2
      <3>2. \A h \in Gen : waits'[h] = stamp + 1 => h = g
          BY <1>0, <1>2
      <3> QED
          BY <1>0, <1>2, <1>3, <1>5, <3>1, <3>2 DEF CallKept
    <2>2. ASSUME NEW s \in sent \cup running PROVE CallKept(s)'
      <3>1. CallKept(s)
          BY <1>0 DEF CallsKept
      <3>2. s.stamp <= stamp + 1 /\ s.token <= stamp + 1
          BY <1>0, <1>7
      <3>3. waits'[s.gen] # 0 => s.stamp <= waits'[s.gen]
          BY <1>0, <1>2, <1>7, <3>1, <3>2 DEF CallKept
      <3>4. ASSUME NEW h \in Gen, waits'[h] = s.stamp PROVE s.gen = h /\ Rank(s.kind) = stage[h] + 1
        <4>1. h # g
            BY <1>0, <1>2, <1>7, <3>4
        <4>2. waits[h] = s.stamp
            BY <1>0, <1>2, <3>4, <4>1
        <4> QED
            BY <3>1, <4>2 DEF CallKept
      <3> QED
          BY <1>2, <3>1, <3>2, <3>3, <3>4 DEF CallKept
    <2> QED
        BY <1>1, <1>2, <2>1, <2>2 DEF CallsKept
  <1>9. StampsDiffer' /\ Alone'
    <2>1. \A s \in sent \cup running : s.stamp # q.stamp /\ ~(q.stamp < s.stamp)
        BY <1>0, <1>5, <1>7
    <2>2. \A s \in sent \cup running : s.gen = q.gen => FenceOf(s.stamp) < FenceOf(q.stamp)
        BY <1>5 DEF Send, Timely
    <2> QED
        BY <1>0, <1>1, <1>2, <1>5, <2>1, <2>2 DEF StampsDiffer, Alone
  <1>10. Fenced'
    <2>1. q.kind = "apply" => stage[q.gen] < 2
        BY <1>0, <1>3, <1>5 DEF Rank
    <2> QED
        BY <1>0, <1>1, <1>2, <1>5, <2>1 DEF Fenced
  <1>11. TreesKept' /\ LinksKept' /\ StepsKept'
      BY <1>0, <1>2 DEF TreesKept, LinksKept, StepsKept, StepKept
  <1>12. Reported'
      BY <1>0, <1>1, <1>2 DEF Reported, TransactionBegun, GenTypes
  <1>13. SwapsOrdered'
    <2>1. \A s \in swaps : s[1] \in Nat /\ s[1] <= stamp
        BY <1>0 DEF SwapsOrdered
    <2>2. swaps' \subseteq Nat \X Gen /\ \A s \in swaps' : s[1] <= stamp'
        BY <1>0, <1>2, <2>1 DEF SwapsOrdered
    <2>3. runtime' # NoLease => Ordered(runtime.token, runtime.by)'
      <3>1. CASE lease = runtime
          BY <1>0, <1>1, <1>2, <3>1 DEF SwapsOrdered, Ordered
      <3>2. CASE lease = [by |-> g, token |-> stamp + 1]
        <4>1. runtime'.token = stamp + 1
            BY <1>1, <3>2
        <4>2. \A s \in swaps : s[1] <= stamp + 1 /\ s[1] # stamp + 1
            BY <1>0, <2>1
        <4> QED
            BY <1>2, <4>1, <4>2 DEF Ordered
      <3> QED
          BY <1>4, <3>1, <3>2
    <2>4. ASSUME NEW s \in running', s.kind = "activate"
          PROVE  Ordered(s.token, s.gen)' /\ runtime' \in {NoLease, [by |-> s.gen, token |-> s.token]}
        BY <1>0, <1>1, <1>2, <1>4, <2>4 DEF SwapsOrdered, Ordered
    <2> QED
        BY <1>0, <1>2, <2>2, <2>3, <2>4 DEF SwapsOrdered
  <1> QED
      BY <1>6, <1>8, <1>9, <1>10, <1>11, <1>12, <1>13 DEF GenIInv

LEMMA GenIInvNext == ASSUME GenIInv, [GenNext]_genVars PROVE GenIInv'
  <1>1. ASSUME NEW g \in Gen, Send(g) \/ GiveUpCall(g) PROVE GenIInv'
      BY <1>1, SendKeeps, GiveUpCallKeeps
  <1>2. CASE LeaseExpires
      BY <1>2, LeaseExpiresKeeps
  <1>3. ASSUME NEW r \in sent, BeginCall(r) \/ RefuseCall(r) PROVE GenIInv'
      BY <1>3, BeginCallKeeps, RefuseCallKeeps
  <1>4. ASSUME NEW r \in running, StartMaterialize(r) \/ FinishMaterialize(r) PROVE GenIInv'
      BY <1>4, StartMaterializeKeeps, FinishMaterializeKeeps
  <1>5. ASSUME NEW r \in running, OverlayAway(r) \/ OverlayIn(r) \/ RecordReady(r) PROVE GenIInv'
      BY <1>5, OverlayAwayKeeps, OverlayInKeeps, RecordReadyKeeps
  <1>6. ASSUME NEW r \in running, StartActivate(r) \/ SwapCurrent(r) \/ SwapPrevious(r) PROVE GenIInv'
      BY <1>6, StartActivateKeeps, SwapCurrentKeeps, SwapPreviousKeeps
  <1>7. CASE CrashPublishing
      BY <1>7, CrashPublishingKeeps
  <1>8. ASSUME NEW key \in inDoubtKeys, RecoverKey(key) PROVE GenIInv'
      BY <1>8, RecoverKeyKeeps
  <1>9. CASE UNCHANGED genVars
    <2>1. UNCHANGED <<tree, tmp, current, previous, stage, waits, transaction, stamp, fence, swaps,
                      sent, running, runtime>>
        BY <1>9 DEF genVars, files, publisher
    <2> QED
        BY <2>1, DropTypes, DroppedKeeps
  <1> QED
      BY <1>1, <1>2, <1>3, <1>4, <1>5, <1>6, <1>7, <1>8, <1>9 DEF GenNext
\* A bounded set of numbers has a largest one.
LEMMA MaxOfBounded ==
  ASSUME NEW N \in Nat, NEW S, S \subseteq 0..N, S # {}
  PROVE  Max(S) \in S /\ \A y \in S : y <= Max(S)
  <1> DEFINE R == OpToRel(<, Nat)
             T == {x \in Nat : \E y \in S : x = N - y}
  <1>1. IsWellFoundedOn(R, Nat)
      BY NatLessThanWellFounded
  <1>2. T \subseteq Nat /\ T # {}
    <2>1. PICK y \in S : TRUE
        OBVIOUS
    <2>2. N - y \in T
        BY <2>1
    <2> QED
        BY <2>2
  <1>3. PICK x \in T : \A z \in T : <<z, x>> \notin R
    <2> HIDE DEF R, T
    <2> QED
        BY <1>1, <1>2, WFMin
  <1>4. \A z \in T : ~(z < x)
    <2> SUFFICES ASSUME NEW z \in T PROVE ~(z < x)
        OBVIOUS
    <2>1. <<z, x>> \notin R
        BY <1>3
    <2>2. z \in Nat /\ x \in Nat
        OBVIOUS
    <2>3. <<z, x>> \in R <=> z < x
        BY <2>2 DEF OpToRel
    <2> QED
        BY <2>1, <2>3
  <1>5. PICK m \in S : x = N - m
      BY <1>3
  <1>6. \A y \in S : y <= m
    <2> SUFFICES ASSUME NEW y \in S PROVE y <= m
        OBVIOUS
    <2>1. N - y \in T
        OBVIOUS
    <2> QED
        BY <1>4, <1>5, <2>1
  <1>7. \E a \in S : \A y \in S : a >= y
      BY <1>5, <1>6
  <1> QED
      BY <1>7 DEF Max

\* Calls, trees, links and the steps of a publishing keep to the inductive
\* invariant, for any generations and bounds.
THEOREM GenerationInvariance == GenSpec => []GenIInv
  BY GenIInvInit, GenIInvNext, PTL DEF GenSpec

\* The generation in use and the one kept for a rollback are complete copies
\* with their overlays, however calls are repeated or late, file operations
\* fail and the Executor crashes.
THEOREM InUseIsWhole == GenSpec => []CurrentIsWhole
  <1>1. GenIInv => CurrentIsWhole
    <2> SUFFICES ASSUME GenIInv, NEW g \in {current, previous} \ {NoGen}
                 PROVE  tree[g].whole /\ tree[g].overlay = "new"
        BY DEF CurrentIsWhole
    <2>1. g \in Gen /\ stage[g] >= 3 /\ stage[g] \in 0..4 /\ TreesKept
        BY DEF GenIInv, GenTypes, LinksKept, Link
    <2>2. stage[g] >= 1 /\ stage[g] >= 2
        BY <2>1
    <2> QED
        BY <2>1, <2>2 DEF TreesKept
  <1> QED
      BY <1>1, GenerationInvariance, PTL

LEMMA LatestInUse == ASSUME GenIInv PROVE CurrentIsLatest
  <1> SUFFICES ASSUME NEW s \in swaps, s[1] = Max({t[1] : t \in swaps}) PROVE current = s[2]
      BY DEF CurrentIsLatest
  <1> DEFINE tokens == {t[1] : t \in swaps}
  <1>1. stamp \in Nat /\ tokens \subseteq 0..stamp /\ tokens # {}
    <2>1. \A t \in swaps : t[1] \in Nat /\ t[1] <= stamp
        BY DEF GenIInv, SwapsOrdered
    <2>2. stamp \in Nat
        BY DEF GenIInv, GenTypes
    <2> QED
        BY <2>1, <2>2
  <1>2. \A y \in tokens : y <= s[1]
    <2> HIDE DEF tokens
    <2>1. \A y \in tokens : y <= Max(tokens)
        BY <1>1, MaxOfBounded
    <2>2. s[1] = Max(tokens)
        BY DEF tokens
    <2> QED
        BY <2>1, <2>2
  <1>3. \A t \in swaps : t[1] <= s[1]
      BY <1>2
  <1> QED
      BY <1>3 DEF GenIInv, SwapsOrdered

LEMMA GenTyped == ASSUME GenIInv PROVE GenTypeOK
  <1>1. Len(Calls) = 4
      BY DEF Calls
  <1>2. GenTypes /\ Reported
      BY DEF GenIInv
  <1>3. \A g \in Gen : tree[g].overlay \in {"base", "missing", "new"}
      BY <1>2 DEF GenTypes, Overlay
  <1> QED
      BY <1>1, <1>2, <1>3 DEF GenTypes, GenTypeOK, Reported, Link

\* The variables of the publishing have their types, no call runs beyond the
\* pool, and a transaction recorded as activated is one whose activation took
\* place.
THEOREM PublishingTyped == GenSpec => []GenTypeOK
  BY GenTyped, GenerationInvariance, PTL

\* The generation in use is that of the latest lease under which an activation
\* took place.
THEOREM LatestLeaseWins == GenSpec => []CurrentIsLatest
  BY LatestInUse, GenerationInvariance, PTL

-----------------------------------------------------------------------------
(* The two components together.                                            *)

\* Neither component's steps touch the other's state.
THEOREM RecordsComponents == Spec => GrantSpec /\ GenSpec
  <1>1. Init => GrantInit /\ GenInit
      BY DEF Init
  <1>2. [Next]_<<part, grantVars, genVars>> => [GrantNext]_grantVars /\ [GenNext]_genVars
      BY DEF Next
  <1> QED
      BY <1>1, <1>2, PTL DEF Spec, GrantSpec, GenSpec

\* What the run SharedRecords checks of both, for every value of the constants:
\* the records of the Controller and the Executors agree.
THEOREM RecordsAgree == Spec => []RecordsInv
  BY RecordsComponents, GrantsAgree, PublishingTyped, LatestLeaseWins, PTL DEF RecordsInv
=============================================================================
