-------------------------- MODULE ExecutorWorkProofs --------------------------
(***************************************************************************)
(* Proofs about the process table (Processes) and the artifact relay       *)
(* (Relay), for every value of their constants.                            *)
(*                                                                         *)
(* The process table rests on TableIInv: a live process that has the birth *)
(* identity in a record, or in a request about to insert one, was started  *)
(* for that name (Owned), and what has the pid a request is about to       *)
(* signal is of its name or younger than its check (Told).  That a name    *)
(* has one process needs NamesIInv as well: requests on a name that is not *)
(* overlapped exclude one another (LocksKept), and a live process is in    *)
(* its record, about to be inserted, or a key of its name is in quarantine *)
(* (LiveKnown).                                                            *)
(*                                                                         *)
(* The relay rests on RelayIInv: for every copy not yet verified there is  *)
(* a state of the source that is not older than what was digested and not  *)
(* newer than what was copied (Between), so that a copy with the expected  *)
(* digest is that state; and a missing destination was put aside by a      *)
(* commit that cannot do so twice (DestKept, TransferKept).                *)
(***************************************************************************)
EXTENDS MCExecutorWork, FiniteSetTheorems, TLAPS

-----------------------------------------------------------------------------
(* The process table: the inductive invariant.                             *)

Wanted    == {"running", "stopped", "none"}
ReqOp     == {"ensure", "stop", "reconcile", "pstart", "pstop", "prestart", "astart", "astop"}
OsRecord  == [of: Id \cup {Foreign}, birth: Nat \ {0}, listens: BOOLEAN, term: BOOLEAN]
Managed   == [state: {"running", "stopped", "failed"}, pid: Pid, birth: Nat, wanted: Wanted]
ReqStep   == {"check", "unwant", "start", "kill", "signal", "list", "insert"}
Request   == [op: ReqOp, id: Id, pid: Pid \cup {None}, birth: Nat, seen: Nat, wanted: Wanted,
              step: ReqStep]

OsTypes ==
  /\ births \in 0..MaxBirths
  /\ os \in [Pid -> OsRecord \cup {Free}] /\ \A p \in Pid : os[p].birth <= births

RecordTypes ==
  /\ records \in [Id -> Managed \cup {NoRecord}]
  /\ \A id \in Id : records[id] # NoRecord => records[id].birth <= births

\* What has the pid in the record of the name is of that name, or it began
\* after the request had checked the record.
Told(t) ==
  /\ records[thread[t].id] # NoRecord
  /\ LET p == records[thread[t].id].pid
     IN  os[p] = Free \/ os[p].of = thread[t].id \/ os[p].birth > thread[t].seen

\* What a request knows at its step.
ReqKept(t) ==
  thread[t] # Idle =>
    /\ thread[t].birth <= births /\ thread[t].seen <= births
    /\ thread[t].step = "insert" => thread[t].pid \in Pid
    /\ thread[t].op = "reconcile" => records[thread[t].id] # NoRecord
    /\ thread[t].step = "list" => thread[t].op = "reconcile"
    /\ thread[t].step = "signal" => Told(t)

ThreadTypes == thread \in [Thread -> Request \cup {Idle}] /\ \A t \in Thread : ReqKept(t)

WaiterTypes ==
  waiter.step = "view" => waiter.id \in Tunnel /\ records[waiter.id] # NoRecord

\* The process that has the recorded birth identity is one of that name.
OwnedBy(r, id) == r.birth # 0 /\ os[r.pid].birth = r.birth => os[r.pid].of = id

Owned ==
  /\ \A id \in Id : records[id] # NoRecord => OwnedBy(records[id], id)
  /\ \A t \in Thread : thread[t] # Idle /\ thread[t].step = "insert" => OwnedBy(thread[t], thread[t].id)

TableIInv ==
  OsTypes /\ RecordTypes /\ ThreadTypes /\ WaiterTypes /\ Owned /\ NoStrangerSignalled

Busy(t) == thread[t] # Idle /\ thread[t].step # "list"

\* Requests on a name that was not used under two keys at a time are alone.
LocksKept ==
  \A t \in Thread : Busy(t) /\ thread[t].id \notin overlapped =>
    /\ NameKeys(thread[t].id) \cap quarantined = {}
    /\ \A u \in Thread : Busy(u) /\ thread[u].id = thread[t].id => u = t

\* The process p is the one in the record of its name, or about to be.
Noted(id, p) ==
  /\ records[id] # NoRecord /\ records[id].state = "running"
  /\ records[id].pid = p /\ records[id].birth = os[p].birth

Inserts(t, id) == thread[t] # Idle /\ thread[t].step = "insert" /\ thread[t].id = id

LiveKept(id, p) ==
  /\ \A q \in Live(id) : p = q
  /\ Noted(id, p) \/ (\E t \in Thread : Inserts(t, id)) \/ NameKeys(id) \cap quarantined # {}
  /\ \A t \in Thread : Inserts(t, id) => thread[t].pid = p /\ thread[t].birth = os[p].birth
  /\ records[id] # NoRecord /\ records[id].state = "running" /\ records[id].pid = p => Noted(id, p)

LiveKnown == \A id \in Id \ overlapped : \A p \in Live(id) : LiveKept(id, p)

NamesIInv == LocksKept /\ LiveKnown

-----------------------------------------------------------------------------
LEMMA Kinds ==
  /\ \A r \in Request : r # Idle /\ r.op # "idle"
  /\ \A r \in Managed : r # NoRecord
  /\ \A r \in OsRecord : r # Free /\ r.birth # 0
  /\ Free.birth = 0 /\ Free.of = None /\ None \notin Id /\ Foreign \notin Id
  /\ Idle.op = "idle" /\ NoRecord.state = "none" /\ NoRecord.wanted = "none"
  <1>1. \A r \in Request : r # Idle /\ r.op # "idle"
      BY DEF Request, Idle, ReqOp
  <1>2. \A r \in Managed : r # NoRecord
      BY DEF Managed, NoRecord
  <1>3. \A r \in OsRecord : r # Free /\ r.birth # 0
      BY DEF OsRecord, Free
  <1>4. /\ Free.birth = 0 /\ Free.of = None /\ None \notin Id /\ Foreign \notin Id
        /\ Idle.op = "idle" /\ NoRecord.state = "none" /\ NoRecord.wanted = "none"
      BY ProcessesAssumption DEF Free, Idle, NoRecord, Id
  <1> QED
      BY <1>1, <1>2, <1>3, <1>4

\* What refresh does to a record.
Refreshed(r, s) ==
  /\ r = NoRecord => s = NoRecord
  /\ r # NoRecord =>
       /\ s \in Managed /\ s.pid = r.pid /\ s.birth = r.birth /\ s.wanted = r.wanted
       /\ s.state = "running" => r.state = "running"
       /\ r.state = "running" /\ os[r.pid] # Free /\ os[r.pid].birth = r.birth => s.state = "running"

LEMMA RefreshDoes ==
  ASSUME NEW r \in Managed \cup {NoRecord}, NEW readable \in BOOLEAN
  PROVE  Refreshed(r, Refresh(r, readable))
  <1>1. CASE r = NoRecord
      BY <1>1 DEF Refreshed, Refresh, NoRecord
  <1>2. CASE r \in Managed /\ Refresh(r, readable) = r
      BY <1>2, Kinds DEF Refreshed
  <1>3. CASE r \in Managed /\ Refresh(r, readable) # r
    <2> DEFINE s == [r EXCEPT !.state = "failed"]
    <2>1. Refresh(r, readable) = s /\ (~Alive(r) \/ (r.birth # 0 /\ ~Identity(r)))
        BY <1>3 DEF Refresh
    <2>2. s \in Managed /\ s.pid = r.pid /\ s.birth = r.birth /\ s.wanted = r.wanted /\ s.state = "failed"
        BY <1>3 DEF Managed
    <2>3. ~(os[r.pid] # Free /\ os[r.pid].birth = r.birth)
        BY <2>1 DEF Alive, Identity
    <2> HIDE DEF s
    <2> QED
        BY <1>3, <2>1, <2>2, <2>3, Kinds DEF Refreshed
  <1> QED
      BY <1>1, <1>2, <1>3

-----------------------------------------------------------------------------
(* How steps change processes, records and requests.                       *)

\* Processes go on or exit, are told to stop, and others begin.
OsGoesOn ==
  /\ os' \in [Pid -> OsRecord \cup {Free}] /\ births' \in 0..MaxBirths /\ births' >= births
  /\ \A p \in Pid : os'[p].birth <= births'
  /\ \A p \in Pid :
       \/ os'[p].of = os[p].of /\ os'[p].birth = os[p].birth /\ (os[p].term => os'[p].term)
       \/ os'[p] = Free
       \/ os'[p].of = Foreign /\ os'[p].birth > births

\* Records are refreshed, stopped or differ in what is wanted.
RecordsGoOn ==
  /\ records' \in [Id -> Managed \cup {NoRecord}]
  /\ \A id \in Id :
       /\ records[id] = NoRecord <=> records'[id] = NoRecord
       /\ records[id] # NoRecord =>
            /\ records'[id].pid = records[id].pid /\ records'[id].birth = records[id].birth
            /\ records'[id].state = "running" => records[id].state = "running"

\* Requests end, go on to a step before the insertion, or stay.
RequestsGoOn ==
  /\ thread' \in [Thread -> Request \cup {Idle}]
  /\ \A t \in Thread :
       \/ thread'[t] = thread[t]
       \/ thread'[t] = Idle
       \/ /\ thread'[t] # Idle /\ thread'[t].step # "insert" /\ thread'[t].birth <= births
          /\ thread'[t].seen <= births
          /\ thread'[t].op = "reconcile" => records'[thread'[t].id] # NoRecord
          /\ thread'[t].step = "list" => thread'[t].op = "reconcile"
          /\ thread'[t].step = "signal" => Told(t)'

LEMMA TableStep ==
  ASSUME TableIInv, OsGoesOn, RecordsGoOn, RequestsGoOn, strangers' = {}, WaiterTypes'
  PROVE  TableIInv'
  <1>0. /\ births \in Nat /\ births' \in Nat /\ births <= births' /\ MaxBirths \in Nat
        /\ OsTypes /\ RecordTypes /\ ThreadTypes /\ Owned
      BY ProcessesAssumption DEF TableIInv, OsTypes, OsGoesOn
  <1>1. OsTypes'
      BY DEF OsGoesOn, OsTypes
  <1>2. RecordTypes'
    <2> SUFFICES ASSUME NEW id \in Id, records'[id] # NoRecord PROVE records'[id].birth <= births'
        BY DEF RecordTypes, RecordsGoOn
    <2>1. records[id] # NoRecord /\ records'[id].birth = records[id].birth
        BY DEF RecordsGoOn
    <2>2. records[id].birth \in Nat /\ records[id].birth <= births
        BY <1>0, <2>1 DEF RecordTypes, Managed
    <2> QED
        BY <1>0, <2>1, <2>2
  <1>3. ThreadTypes'
    <2> SUFFICES ASSUME NEW t \in Thread PROVE ReqKept(t)'
        BY DEF ThreadTypes, RequestsGoOn
    <2>1. CASE thread'[t] = thread[t] /\ thread[t] # Idle
      <3>1. ReqKept(t) /\ thread[t].birth \in Nat /\ thread[t].seen \in Nat /\ thread[t].id \in Id
          BY <1>0, <2>1 DEF ThreadTypes, Request
      <3>2. thread[t].birth <= births' /\ thread[t].seen <= births' /\ thread[t].seen <= births
          BY <1>0, <2>1, <3>1 DEF ReqKept
      <3>3. ASSUME thread[t].step = "signal" PROVE Told(t)'
        <4> DEFINE p == records[thread[t].id].pid
        <4>1. Told(t) /\ records[thread[t].id] \in Managed
            BY <1>0, <2>1, <3>1, <3>3 DEF ReqKept, RecordTypes, Told
        <4>2. p \in Pid /\ records'[thread[t].id].pid = p /\ records'[thread[t].id] # NoRecord
            BY <3>1, <4>1, Kinds DEF Managed, RecordsGoOn
        <4>3. os[p].birth \in Nat /\ (os[p] = Free \/ os[p].of = thread[t].id \/ os[p].birth > thread[t].seen)
            BY <1>0, <4>1, <4>2, Kinds DEF Told, OsTypes, OsRecord
        <4>4. \/ os'[p].of = os[p].of /\ os'[p].birth = os[p].birth
              \/ os'[p] = Free
              \/ os'[p].birth > births
            BY <4>2 DEF OsGoesOn
        <4>5. os'[p] = Free \/ (os'[p] \in OsRecord /\ os'[p].birth \in Nat /\ os'[p].birth # 0)
            BY <4>2 DEF OsGoesOn, OsRecord
        <4>6. os'[p] # Free /\ os[p] = Free => os'[p].birth > births
            BY <4>4, <4>5, Kinds
        <4>7. os'[p] = Free \/ os'[p].of = thread[t].id \/ os'[p].birth > thread[t].seen
            BY <1>0, <3>1, <3>2, <4>3, <4>4, <4>5, <4>6
        <4> QED
            BY <2>1, <4>2, <4>7 DEF Told
      <3> QED
          BY <2>1, <3>1, <3>2, <3>3 DEF ReqKept, RecordsGoOn
    <2>2. CASE thread'[t] = Idle
        BY <2>2 DEF ReqKept
    <2>3. CASE /\ thread'[t] # Idle /\ thread'[t].step # "insert" /\ thread'[t].birth <= births
               /\ thread'[t].seen <= births
               /\ thread'[t].op = "reconcile" => records'[thread'[t].id] # NoRecord
               /\ thread'[t].step = "list" => thread'[t].op = "reconcile"
               /\ thread'[t].step = "signal" => Told(t)'
      <3>1. thread'[t].birth \in Nat /\ thread'[t].seen \in Nat
          BY <2>3 DEF RequestsGoOn, Request
      <3>2. thread'[t].birth <= births' /\ thread'[t].seen <= births'
          BY <1>0, <2>3, <3>1
      <3> QED
          BY <2>3, <3>2 DEF ReqKept
    <2> QED
        BY <2>1, <2>2, <2>3 DEF RequestsGoOn
  <1>4. ASSUME NEW p \in Pid, NEW b \in Nat, NEW id \in Id, b <= births, b # 0, os'[p].birth = b,
               os[p].birth = b => os[p].of = id
        PROVE  os'[p].of = id
    <2>1. ~(os'[p] = Free) /\ ~(os'[p].birth > births)
        BY <1>0, <1>4, Kinds
    <2>2. os'[p].of = os[p].of /\ os'[p].birth = os[p].birth
        BY <2>1 DEF OsGoesOn
    <2> QED
        BY <1>4, <2>2
  <1>5. Owned'
    <2>1. ASSUME NEW id \in Id, records'[id] # NoRecord PROVE OwnedBy(records[id], id)'
      <3>1. records[id] # NoRecord /\ records'[id].pid = records[id].pid /\ records'[id].birth = records[id].birth
          BY <2>1 DEF RecordsGoOn
      <3>2. OwnedBy(records[id], id) /\ records[id].pid \in Pid /\ records[id].birth \in Nat /\ records[id].birth <= births
          BY <1>0, <3>1 DEF Owned, RecordTypes, Managed
      <3> QED
          BY <1>4, <3>1, <3>2 DEF OwnedBy
    <2>2. ASSUME NEW t \in Thread, thread'[t] # Idle, thread'[t].step = "insert"
          PROVE  OwnedBy(thread[t], thread[t].id)'
      <3>1. thread'[t] = thread[t]
          BY <2>2 DEF RequestsGoOn
      <3>2. /\ OwnedBy(thread[t], thread[t].id) /\ thread[t].pid \in Pid /\ thread[t].birth \in Nat
            /\ thread[t].birth <= births /\ thread[t].id \in Id
          BY <1>0, <2>2, <3>1 DEF Owned, ThreadTypes, ReqKept, Request
      <3> QED
          BY <1>4, <3>1, <3>2 DEF OwnedBy
    <2> QED
        BY <2>1, <2>2 DEF Owned
  <1> QED
      BY <1>1, <1>2, <1>3, <1>5 DEF TableIInv, NoStrangerSignalled
\* A record of a process that still runs says so.
NotedStay ==
  \A id \in Id, p \in Pid : Noted(id, p) /\ os'[p].of = id /\ ~os'[p].term => records'[id].state = "running"

\* Requests at the insertion stay there.
InsertsStay ==
  \A t \in Thread :
    \/ thread[t] # Idle /\ thread[t].step = "insert"
    \/ thread'[t] # Idle /\ thread'[t].step = "insert"
    => thread'[t] = thread[t]

TableGoesOn ==
  /\ OsGoesOn /\ RecordsGoOn /\ RequestsGoOn /\ strangers' = {} /\ WaiterTypes' /\ NotedStay
  /\ overlapped \subseteq overlapped'

LEMMA LiveStays ==
  ASSUME TableIInv, OsGoesOn, NEW id \in Id, NEW p \in Live(id)'
  PROVE  p \in Pid /\ p \in Live(id) /\ os'[p].birth = os[p].birth
  <1>1. p \in Pid /\ os'[p].of = id /\ ~os'[p].term
      BY DEF Live
  <1>2. os'[p] # Free /\ os'[p].of # Foreign
      BY <1>1, Kinds
  <1>3. os'[p].of = os[p].of /\ os'[p].birth = os[p].birth /\ (os[p].term => os'[p].term)
      BY <1>1, <1>2 DEF OsGoesOn
  <1> QED
      BY <1>1, <1>3 DEF Live

LEMMA LiveStep ==
  ASSUME TableIInv, LiveKnown, OsGoesOn, RecordsGoOn, NotedStay, InsertsStay,
         quarantined \subseteq quarantined', overlapped \subseteq overlapped'
  PROVE  LiveKnown'
  <1> SUFFICES ASSUME NEW id \in Id \ overlapped, NEW p \in Live(id)' PROVE LiveKept(id, p)'
      BY DEF LiveKnown
  <1>1. p \in Pid /\ p \in Live(id) /\ os'[p].birth = os[p].birth /\ os'[p].of = id /\ ~os'[p].term
      BY LiveStays DEF Live
  <1>2. LiveKept(id, p)
      BY <1>1 DEF LiveKnown
  <1>3. \A q \in Live(id)' : p = q
      BY <1>2, LiveStays DEF LiveKept
  <1>4. Noted(id, p) => Noted(id, p)'
    <2> SUFFICES ASSUME Noted(id, p) PROVE Noted(id, p)'
        OBVIOUS
    <2>1. records'[id].state = "running"
        BY <1>1 DEF NotedStay
    <2>2. records'[id] # NoRecord /\ records'[id].pid = p /\ records'[id].birth = os[p].birth
        BY DEF Noted, RecordsGoOn
    <2> QED
        BY <1>1, <2>1, <2>2 DEF Noted
  <1>5. \A t \in Thread : Inserts(t, id) <=> Inserts(t, id)'
      BY DEF Inserts, InsertsStay
  <1>6. Noted(id, p)' \/ (\E t \in Thread : Inserts(t, id)') \/ NameKeys(id) \cap quarantined' # {}
      BY <1>2, <1>4, <1>5 DEF LiveKept
  <1>7. \A t \in Thread : Inserts(t, id)' => thread'[t].pid = p /\ thread'[t].birth = os'[p].birth
      BY <1>1, <1>2, <1>5 DEF LiveKept, InsertsStay, Inserts
  <1>8. records'[id] # NoRecord /\ records'[id].state = "running" /\ records'[id].pid = p => Noted(id, p)'
    <2> SUFFICES ASSUME records'[id] # NoRecord /\ records'[id].state = "running" /\ records'[id].pid = p
                 PROVE  Noted(id, p)
        BY <1>4
    <2>1. records[id] # NoRecord /\ records[id].state = "running" /\ records[id].pid = p
        BY DEF RecordsGoOn
    <2> QED
        BY <1>2, <2>1 DEF LiveKept
  <1> QED
      BY <1>3, <1>6, <1>7, <1>8 DEF LiveKept

\* What every request may do without taking a lock.
RequestsKeepLocks ==
  \A t \in Thread :
    \/ thread'[t] = thread[t]
    \/ thread'[t] = Idle
    \/ /\ thread[t] # Idle /\ thread'[t].id = thread[t].id
       /\ thread[t].step = "list" => thread'[t].step = "list"
    \/ thread'[t].step = "list"

LEMMA LocksStep ==
  ASSUME LocksKept, RequestsKeepLocks, quarantined' \subseteq quarantined, overlapped \subseteq overlapped'
  PROVE  LocksKept'
  <1>1. ASSUME NEW t \in Thread, Busy(t)' PROVE Busy(t) /\ thread'[t].id = thread[t].id
      BY <1>1 DEF RequestsKeepLocks, Busy
  <1> QED
      BY <1>1 DEF LocksKept

-----------------------------------------------------------------------------
(* One action after the other.                                             *)

LEMMA TableFacts ==
  ASSUME TableIInv
  PROVE  /\ births \in Nat /\ births \in 0..MaxBirths /\ MaxBirths \in Nat
         /\ os \in [Pid -> OsRecord \cup {Free}] /\ \A p \in Pid : os[p].birth <= births /\ os[p].birth \in Nat
         /\ records \in [Id -> Managed \cup {NoRecord}]
         /\ thread \in [Thread -> Request \cup {Idle}] /\ \A t \in Thread : ReqKept(t)
         /\ strangers = {}
  <1>1. /\ births \in 0..MaxBirths /\ MaxBirths \in Nat
        /\ os \in [Pid -> OsRecord \cup {Free}] /\ \A p \in Pid : os[p].birth <= births
        /\ records \in [Id -> Managed \cup {NoRecord}]
        /\ thread \in [Thread -> Request \cup {Idle}] /\ \A t \in Thread : ReqKept(t)
        /\ strangers = {}
      BY ProcessesAssumption DEF TableIInv, OsTypes, RecordTypes, ThreadTypes, NoStrangerSignalled
  <1>2. \A p \in Pid : os[p].birth \in Nat
      BY <1>1, Kinds DEF OsRecord
  <1> QED
      BY <1>1, <1>2

LEMMA OsStays == ASSUME TableIInv, UNCHANGED <<os, births>> PROVE OsGoesOn
  <1>1. \A p \in Pid : os'[p].of = os[p].of /\ os'[p].birth = os[p].birth /\ (os[p].term => os'[p].term)
      OBVIOUS
  <1>2. births' >= births
      BY TableFacts
  <1> QED
      BY <1>1, <1>2, TableFacts DEF OsGoesOn

LEMMA RecordsStay ==
  ASSUME TableIInv, UNCHANGED <<records>> PROVE RecordsGoOn /\ NotedStay /\ (UNCHANGED waiter => WaiterTypes')
  BY TableFacts DEF RecordsGoOn, NotedStay, Noted, WaiterTypes, TableIInv

LEMMA RequestsStay ==
  ASSUME TableIInv, UNCHANGED thread PROVE RequestsGoOn /\ InsertsStay /\ RequestsKeepLocks
  BY TableFacts DEF RequestsGoOn, InsertsStay, RequestsKeepLocks

\* Records that are refreshed, all or one of them.
LEMMA RefreshedGoOn ==
  ASSUME TableIInv, UNCHANGED os, records' \in [Id -> Managed \cup {NoRecord}],
         \A id \in Id : Refreshed(records[id], records'[id]) \/ records'[id] = records[id]
  PROVE  RecordsGoOn /\ NotedStay
  <1>1. ASSUME NEW id \in Id
        PROVE  /\ records[id] = NoRecord <=> records'[id] = NoRecord
               /\ records[id] # NoRecord =>
                    /\ records'[id].pid = records[id].pid /\ records'[id].birth = records[id].birth
                    /\ records'[id].state = "running" => records[id].state = "running"
      BY Kinds DEF Refreshed
  <1>2. RecordsGoOn
      BY <1>1 DEF RecordsGoOn
  <1>3. ASSUME NEW id \in Id, NEW p \in Pid, Noted(id, p), os'[p].of = id PROVE records'[id].state = "running"
    <2>1. os[p] # Free
        BY <1>3, Kinds
    <2> QED
        BY <1>3, <2>1 DEF Noted, Refreshed
  <1> QED
      BY <1>2, <1>3 DEF NotedStay

LEMMA RefreshedOne ==
  ASSUME TableIInv, NEW id \in Id, NEW readable \in BOOLEAN,
         records' = [records EXCEPT ![id] = Refresh(records[id], readable)]
  PROVE  /\ records' \in [Id -> Managed \cup {NoRecord}]
         /\ \A i \in Id : Refreshed(records[i], records'[i]) \/ records'[i] = records[i]
         /\ Refreshed(records[id], records'[id])
  <1>1. records \in [Id -> Managed \cup {NoRecord}] /\ records[id] \in Managed \cup {NoRecord}
      BY TableFacts
  <1>2. Refreshed(records[id], Refresh(records[id], readable))
      BY <1>1, RefreshDoes
  <1>3. Refresh(records[id], readable) \in Managed \cup {NoRecord}
      BY <1>2 DEF Refreshed
  <1> QED
      BY <1>1, <1>2, <1>3

LEMMA RefreshedAll ==
  ASSUME TableIInv, NEW readable \in BOOLEAN, records' = [id \in Id |-> Refresh(records[id], readable)]
  PROVE  /\ records' \in [Id -> Managed \cup {NoRecord}]
         /\ \A i \in Id : Refreshed(records[i], records'[i])
  <1>1. \A i \in Id : Refreshed(records[i], Refresh(records[i], readable))
      BY TableFacts, RefreshDoes
  <1>2. \A i \in Id : Refresh(records[i], readable) \in Managed \cup {NoRecord}
      BY <1>1 DEF Refreshed
  <1> QED
      BY <1>1, <1>2

LEMMA ExitDoes ==
  ASSUME TableIInv, NEW p \in Pid, Exit(p)
  PROVE  TableGoesOn /\ UNCHANGED <<thread, quarantined>>
  <1>1. os' = [os EXCEPT ![p] = Free] /\ UNCHANGED <<births, records, thread, quarantined, waiter, overlapped, strangers>>
      BY DEF Exit
  <1>2. OsGoesOn
    <2>1. births' >= births /\ births' = births
        BY <1>1, TableFacts
    <2>2. os' \in [Pid -> OsRecord \cup {Free}]
        BY <1>1, TableFacts
    <2>3. \A q \in Pid : os'[q] = os[q] \/ os'[q] = Free
        BY <1>1, TableFacts
    <2>4. \A q \in Pid : os'[q].birth <= births
        BY <2>3, TableFacts, Kinds
    <2> QED
        BY <2>1, <2>2, <2>3, <2>4, TableFacts DEF OsGoesOn
  <1> QED
      BY <1>1, <1>2, RecordsStay, RequestsStay, TableFacts DEF TableGoesOn

LEMMA ForeignStartsDoes ==
  ASSUME TableIInv, NEW p \in Pid, ForeignStarts(p)
  PROVE  TableGoesOn /\ UNCHANGED <<thread, quarantined>>
  <1> DEFINE new == [of |-> Foreign, birth |-> births + 1, listens |-> FALSE, term |-> FALSE]
  <1>1. /\ os' = [os EXCEPT ![p] = new] /\ births' = births + 1 /\ births < MaxBirths
        /\ UNCHANGED <<records, thread, quarantined, waiter, overlapped, strangers>>
      BY DEF ForeignStarts
  <1>2. new \in OsRecord /\ new.of = Foreign /\ new.birth = births + 1
      BY TableFacts DEF OsRecord
  <1> HIDE DEF new
  <1>3. OsGoesOn
    <2>1. births' >= births /\ births' \in 0..MaxBirths /\ births + 1 > births
        BY <1>1, TableFacts
    <2>2. os' \in [Pid -> OsRecord \cup {Free}]
        BY <1>1, <1>2, TableFacts
    <2>3. \A q \in Pid : os'[q] = os[q] \/ (os'[q].of = Foreign /\ os'[q].birth = births + 1)
        BY <1>1, <1>2, TableFacts
    <2>4. \A q \in Pid : os[q].birth <= births + 1
        BY TableFacts
    <2>5. \A q \in Pid : os'[q].birth <= births'
        BY <1>1, <2>1, <2>3, <2>4, TableFacts
    <2> QED
        BY <2>1, <2>2, <2>3, <2>5 DEF OsGoesOn
  <1> QED
      BY <1>1, <1>3, RecordsStay, RequestsStay, TableFacts DEF TableGoesOn

LEMMA ListenDoes ==
  ASSUME TableIInv, NEW p \in Pid, Listen(p)
  PROVE  TableGoesOn /\ UNCHANGED <<thread, quarantined>>
  <1>1. /\ os' = [os EXCEPT ![p].listens = TRUE] /\ os[p].of \in Tunnel
        /\ UNCHANGED <<births, records, thread, quarantined, waiter, overlapped, strangers>>
      BY DEF Listen
  <1>2. os[p] \in OsRecord
      BY <1>1, TableFacts, Kinds DEF Id
  <1>3. OsGoesOn
    <2>1. births' >= births /\ births' = births
        BY <1>1, TableFacts
    <2>2. os' \in [Pid -> OsRecord \cup {Free}]
        BY <1>1, <1>2, TableFacts DEF OsRecord
    <2>3. \A q \in Pid : os'[q].of = os[q].of /\ os'[q].birth = os[q].birth /\ os'[q].term = os[q].term
        BY <1>1, <1>2, TableFacts DEF OsRecord
    <2> QED
        BY <2>1, <2>2, <2>3, TableFacts DEF OsGoesOn
  <1> QED
      BY <1>1, <1>3, RecordsStay, RequestsStay, TableFacts DEF TableGoesOn

LEMMA ObserveDoes ==
  ASSUME TableIInv, Observe
  PROVE  TableGoesOn /\ UNCHANGED <<thread, quarantined>>
  <1>1. PICK readable \in BOOLEAN : records' = [id \in Id |-> Refresh(records[id], readable)]
      BY DEF Observe
  <1>2. UNCHANGED <<os, births, thread, quarantined, waiter, overlapped, strangers>>
      BY DEF Observe
  <1>3. RecordsGoOn /\ NotedStay
      BY <1>1, <1>2, RefreshedAll, RefreshedGoOn
  <1>4. WaiterTypes'
      BY <1>2, <1>3 DEF TableIInv, WaiterTypes, RecordsGoOn, Id
  <1> QED
      BY <1>2, <1>3, <1>4, OsStays, RequestsStay, TableFacts DEF TableGoesOn

LEMMA WaitReadyDoes ==
  ASSUME TableIInv, NEW id \in Tunnel, WaitReady(id)
  PROVE  TableGoesOn /\ UNCHANGED <<thread, quarantined>>
  <1>0. id \in Id
      BY DEF Id
  <1>1. PICK readable \in BOOLEAN : records' = [records EXCEPT ![id] = Refresh(records[id], readable)]
      BY DEF WaitReady
  <1>2. UNCHANGED <<os, births, thread, quarantined, overlapped, strangers>> /\ waiter'.id = id /\ records[id] # NoRecord
      BY DEF WaitReady
  <1>3. RecordsGoOn /\ NotedStay
      BY <1>0, <1>1, <1>2, RefreshedOne, RefreshedGoOn
  <1>4. WaiterTypes'
      BY <1>0, <1>2, <1>3 DEF WaiterTypes, RecordsGoOn
  <1> QED
      BY <1>2, <1>3, <1>4, OsStays, RequestsStay, TableFacts DEF TableGoesOn

LEMMA ReportReadyDoes ==
  ASSUME TableIInv, ReportReady
  PROVE  TableGoesOn /\ UNCHANGED <<thread, quarantined>>
  <1>0. waiter.id \in Id /\ records[waiter.id] # NoRecord
      BY DEF ReportReady, TableIInv, WaiterTypes, Id
  <1>1a. PICK readable \in BOOLEAN :
          /\ records' = [records EXCEPT ![waiter.id] = Refresh(records[waiter.id], readable)]
          /\ waiter' = IF ReadyView(Refresh(records[waiter.id], readable), readable)
                       THEN [step |-> "ready", id |-> waiter.id] ELSE [step |-> "idle"]
      BY DEF ReportReady
  <1>1. /\ records' = [records EXCEPT ![waiter.id] = Refresh(records[waiter.id], readable)]
        /\ waiter'.step # "view"
      BY <1>1a
  <1>2. UNCHANGED <<os, births, thread, quarantined, overlapped, strangers>>
      BY DEF ReportReady
  <1>3. RecordsGoOn /\ NotedStay
      BY <1>0, <1>1, <1>2, RefreshedOne, RefreshedGoOn
  <1>4. WaiterTypes'
      BY <1>1 DEF WaiterTypes
  <1> QED
      BY <1>2, <1>3, <1>4, OsStays, RequestsStay, TableFacts DEF TableGoesOn

LEMMA QuietDoes ==
  ASSUME TableIInv, TakePort \/ NextWait \/ UNCHANGED procVars
  PROVE  TableGoesOn /\ UNCHANGED <<thread, quarantined>>
  <1>1. UNCHANGED <<os, births, records, thread, quarantined, overlapped, strangers>>
      BY DEF TakePort, NextWait, procVars
  <1>2. WaiterTypes'
      BY DEF TakePort, NextWait, procVars, WaiterTypes, TableIInv
  <1> QED
      BY <1>1, <1>2, OsStays, RecordsStay, RequestsStay, TableFacts DEF TableGoesOn

LEMMA RecoverDoes ==
  ASSUME TableIInv, NEW key, Recover(key)
  PROVE  TableGoesOn /\ UNCHANGED <<thread, os, records>> /\ quarantined' = quarantined \ {key} /\ SafeToRecover(key)
  <1>1. /\ UNCHANGED <<os, births, records, thread, waiter, overlapped, strangers>>
        /\ quarantined' = quarantined \ {key} /\ SafeToRecover(key)
      BY DEF Recover
  <1> QED
      BY <1>1, OsStays, RecordsStay, RequestsStay, TableFacts DEF TableGoesOn
LEMMA ReqFacts ==
  ASSUME TableIInv, NEW t \in Thread, thread[t].op # "idle"
  PROVE  /\ thread[t] \in Request /\ thread[t] # Idle /\ thread[t].id \in Id /\ ReqKept(t)
         /\ thread[t].wanted \in Wanted /\ thread[t].birth \in Nat
         /\ records[thread[t].id] \in Managed \cup {NoRecord}
  <1>1. thread[t] \in Request /\ ReqKept(t)
      BY TableFacts, Kinds
  <1> QED
      BY <1>1, TableFacts, Kinds DEF Request

\* A request goes on to another step.
Onward(t, q) ==
  /\ thread' = [thread EXCEPT ![t] = q] /\ q \in Request
  /\ q.op = thread[t].op /\ q.id = thread[t].id /\ q.birth = thread[t].birth /\ q.seen <= births
  /\ q.step \notin {"insert", "list"} /\ (q.step = "signal" => Told(t)')

\* The next step of a request, with or without what is wanted.
LEMMA StepOnward ==
  ASSUME TableIInv, NEW t \in Thread, thread[t].op # "idle", NEW step \in {"start", "kill"}, NEW w \in Wanted,
         Step(t, step) \/ thread' = [thread EXCEPT ![t].step = step, ![t].wanted = w]
  PROVE  \E q \in Request : Onward(t, q)
  <1>0. thread[t] \in Request /\ ReqKept(t) /\ thread[t] # Idle
      BY ReqFacts
  <1>1. CASE Step(t, step)
    <2> DEFINE q == [thread[t] EXCEPT !.step = step]
    <2>1. thread' = [thread EXCEPT ![t] = q]
        BY <1>1 DEF Step
    <2>2. /\ q \in Request /\ q.step = step /\ q.id = thread[t].id /\ q.op = thread[t].op
          /\ q.birth = thread[t].birth /\ q.seen = thread[t].seen
        BY <1>0 DEF Request, ReqStep
    <2> HIDE DEF q
    <2> QED
        BY <1>0, <2>1, <2>2 DEF Onward, ReqKept
  <1>2. CASE thread' = [thread EXCEPT ![t].step = step, ![t].wanted = w]
    <2> DEFINE q == [thread[t] EXCEPT !.step = step, !.wanted = w]
    <2>1. thread' = [thread EXCEPT ![t] = q]
        BY <1>2
    <2>2. /\ q \in Request /\ q.step = step /\ q.id = thread[t].id /\ q.op = thread[t].op
          /\ q.birth = thread[t].birth /\ q.seen = thread[t].seen
        BY <1>0 DEF Request, ReqStep
    <2> HIDE DEF q
    <2> QED
        BY <1>0, <2>1, <2>2 DEF Onward, ReqKept
  <1> QED
      BY <1>1, <1>2

\* A request goes on to another step, or ends.
LEMMA OneGoesOn ==
  ASSUME TableIInv, NEW t \in Thread, thread[t].op # "idle", RecordsGoOn,
         Done(t) \/ \E q \in Request : Onward(t, q)
  PROVE  /\ RequestsGoOn
         /\ thread[t].step # "insert" => InsertsStay
         /\ thread[t].step # "list" \/ Done(t) => RequestsKeepLocks
  <1>0. thread[t] \in Request /\ thread[t] # Idle /\ ReqKept(t) /\ thread \in [Thread -> Request \cup {Idle}]
      BY ReqFacts, TableFacts
  <1>1. CASE Done(t)
    <2>1. thread' = [thread EXCEPT ![t] = Idle]
        BY <1>1 DEF Done
    <2>2. \A u \in Thread : thread'[u] = thread[u] \/ (u = t /\ thread'[u] = Idle)
        BY <1>0, <2>1
    <2>3. thread' \in [Thread -> Request \cup {Idle}]
        BY <1>0, <2>1
    <2> QED
        BY <1>0, <2>2, <2>3 DEF RequestsGoOn, InsertsStay, RequestsKeepLocks
  <1>2. ASSUME NEW q \in Request, Onward(t, q)
        PROVE  /\ RequestsGoOn
               /\ thread[t].step # "insert" => InsertsStay
               /\ thread[t].step # "list" => RequestsKeepLocks
    <2>2. /\ q \in Request /\ q.step \notin {"insert", "list"} /\ q.id = thread[t].id /\ q.op = thread[t].op
          /\ q.birth = thread[t].birth /\ q.seen <= births /\ (q.step = "signal" => Told(t)')
        BY <1>2 DEF Onward
    <2>3. /\ thread' \in [Thread -> Request \cup {Idle}] /\ thread'[t] = q
          /\ \A u \in Thread : thread'[u] = thread[u] \/ (u = t /\ thread'[u] = q)
        BY <1>0, <1>2 DEF Onward
    <2>4. thread[t].op = "reconcile" => records'[thread[t].id] # NoRecord
        BY <1>0, ReqFacts DEF ReqKept, RecordsGoOn
    <2>5. RequestsGoOn
        BY <1>0, <2>2, <2>3, <2>4, Kinds DEF RequestsGoOn, ReqKept
    <2> QED
        BY <1>0, <2>2, <2>3, <2>5 DEF InsertsStay, RequestsKeepLocks
  <1> QED
      BY <1>1, <1>2

LEMMA WaiterStays ==
  ASSUME TableIInv, RecordsGoOn, UNCHANGED waiter PROVE WaiterTypes'
  BY DEF TableIInv, WaiterTypes, RecordsGoOn, Id

LEMMA EnsureChecksDoes ==
  ASSUME TableIInv, NEW t \in Thread, EnsureChecks(t)
  PROVE  TableGoesOn /\ InsertsStay /\ RequestsKeepLocks /\ UNCHANGED quarantined
  <1>0. thread[t].op # "idle" /\ thread[t].step = "check"
      BY DEF EnsureChecks
  <1>1. PICK readable \in BOOLEAN : records' = [id \in Id |-> Refresh(records[id], readable)]
      BY DEF EnsureChecks
  <1>2. UNCHANGED <<os, births, quarantined, waiter, overlapped, strangers>> /\ (Done(t) \/ Step(t, "start"))
      BY DEF EnsureChecks
  <1>3. RecordsGoOn /\ NotedStay
      BY <1>1, <1>2, RefreshedAll, RefreshedGoOn
  <1>4. Done(t) \/ \E q \in Request : Onward(t, q)
      BY <1>0, <1>2, StepOnward DEF Wanted
  <1>5. RequestsGoOn /\ InsertsStay /\ RequestsKeepLocks
      BY <1>0, <1>2, <1>3, <1>4, OneGoesOn
  <1> QED
      BY <1>2, <1>3, <1>5, WaiterStays, OsStays, TableFacts DEF TableGoesOn

LEMMA WantedSet ==
  ASSUME TableIInv, NEW id \in Id, NEW w \in Wanted, records[id] # NoRecord,
         records' = [records EXCEPT ![id].wanted = w]
  PROVE  RecordsGoOn /\ NotedStay
  <1>0. records \in [Id -> Managed \cup {NoRecord}]
      BY TableFacts
  <1> DEFINE q == [records[id] EXCEPT !.wanted = w]
  <1>1. records' = [records EXCEPT ![id] = q] /\ records[id] \in Managed
      BY <1>0
  <1>2. /\ q \in Managed /\ q.state = records[id].state /\ q.pid = records[id].pid
        /\ q.birth = records[id].birth
      BY <1>1 DEF Managed
  <1> HIDE DEF q
  <1>3. records' \in [Id -> Managed \cup {NoRecord}] /\ \A i \in Id : records'[i] = records[i] \/ (i = id /\ records'[i] = q)
      BY <1>0, <1>1, <1>2
  <1>4. RecordsGoOn
      BY <1>2, <1>3, Kinds DEF RecordsGoOn
  <1>5. NotedStay
      BY <1>2, <1>3 DEF NotedStay, Noted
  <1> QED
      BY <1>4, <1>5

LEMMA UnwantDoes ==
  ASSUME TableIInv, NEW t \in Thread, Unwant(t)
  PROVE  TableGoesOn /\ InsertsStay /\ RequestsKeepLocks /\ UNCHANGED quarantined
  <1>0. thread[t].op # "idle" /\ thread[t].step = "unwant"
      BY DEF Unwant
  <1>1. /\ \/ Done(t) /\ UNCHANGED records
           \/ /\ records[thread[t].id].wanted # "none" /\ Step(t, "kill")
              /\ records' = [records EXCEPT ![thread[t].id].wanted = "stopped"]
        /\ UNCHANGED <<os, births, quarantined, waiter, overlapped, strangers>>
      BY DEF Unwant
  <1>2. RecordsGoOn /\ NotedStay
    <2>1. "stopped" \in Wanted /\ thread[t].id \in Id
        BY <1>0, ReqFacts DEF Wanted
    <2>2. records[thread[t].id].wanted # "none" => records[thread[t].id] # NoRecord
        BY Kinds
    <2> QED
        BY <1>1, <2>1, <2>2, WantedSet, RecordsStay
  <1>4. Done(t) \/ \E q \in Request : Onward(t, q)
      BY <1>0, <1>1, StepOnward DEF Wanted
  <1>5. RequestsGoOn /\ InsertsStay /\ RequestsKeepLocks
      BY <1>0, <1>1, <1>2, <1>4, OneGoesOn
  <1> QED
      BY <1>1, <1>2, <1>5, WaiterStays, OsStays, TableFacts DEF TableGoesOn

LEMMA ReconcileBeginsDoes ==
  ASSUME TableIInv, NEW t \in Thread, ReconcileBegins(t)
  PROVE  /\ TableGoesOn /\ InsertsStay /\ UNCHANGED quarantined
         /\ \/ RequestsKeepLocks
            \/ /\ MayStart("reconcile", thread[t].id) /\ Step(t, "kill")
               /\ overlapped' = Overlapped("reconcile", thread[t].id)
  <1>0. /\ thread[t].op # "idle" /\ thread[t].step = "list"
        /\ UNCHANGED <<os, births, quarantined, waiter, strangers>>
      BY DEF ReconcileBegins
  <1>1. CASE Done(t) /\ UNCHANGED <<records, overlapped>>
    <2>1. RecordsGoOn /\ NotedStay
        BY <1>1, RecordsStay
    <2>2. RequestsGoOn /\ InsertsStay /\ RequestsKeepLocks
        BY <1>0, <1>1, <2>1, OneGoesOn
    <2> QED
        BY <1>0, <1>1, <2>1, <2>2, WaiterStays, OsStays, TableFacts DEF TableGoesOn
  <1>2. CASE /\ MayStart("reconcile", thread[t].id) /\ Step(t, "kill")
             /\ records' = [records EXCEPT ![thread[t].id].wanted = thread[t].wanted]
             /\ overlapped' = Overlapped("reconcile", thread[t].id)
    <2>1. thread[t].id \in Id /\ thread[t].wanted \in Wanted
        BY <1>0, ReqFacts
    <2>2. records[thread[t].id] # NoRecord
        BY <1>0, <1>2, ReqFacts DEF ReqKept
    <2>3. RecordsGoOn /\ NotedStay
        BY <1>2, <2>1, <2>2, WantedSet
    <2>4. \E q \in Request : Onward(t, q)
        BY <1>0, <1>2, <2>1, StepOnward
    <2>5. RequestsGoOn /\ InsertsStay
        BY <1>0, <1>2, <2>3, <2>4, OneGoesOn
    <2>6. overlapped \subseteq overlapped'
        BY <1>2 DEF Overlapped
    <2> QED
        BY <1>0, <1>2, <2>3, <2>5, <2>6, WaiterStays, OsStays, TableFacts DEF TableGoesOn
  <1> QED
      BY <1>1, <1>2 DEF ReconcileBegins
LEMMA AcceptDoes ==
  ASSUME TableIInv, NEW t \in Thread, NEW kind \in ReqOp \ {"reconcile"}, NEW id \in Id,
         Accept(t, kind, id)
  PROVE  /\ TableGoesOn /\ InsertsStay /\ UNCHANGED <<quarantined, os, records>> /\ MayStart(kind, id)
         /\ thread[t] = Idle /\ thread'[t].op = kind /\ thread'[t].id = id /\ thread'[t].step # "list"
         /\ \A u \in Thread \ {t} : thread'[u] = thread[u]
         /\ overlapped' = Overlapped(kind, id)
  <1>0. /\ thread \in [Thread -> Request \cup {Idle}] /\ births \in Nat
      BY TableFacts
  <1>1. PICK step, wanted :
          /\ thread' = [thread EXCEPT ![t] = [op |-> kind, id |-> id, pid |-> None, birth |-> 0, seen |-> 0,
                                              wanted |-> wanted, step |-> step]]
          /\ step = CASE kind = "ensure"                         -> "check"
                      [] kind = "stop"                           -> "unwant"
                      [] kind \in {"pstart", "astart"}            -> "start"
                      [] kind \in {"pstop", "prestart", "astop"}  -> "kill"
          /\ wanted = IF kind = "ensure" THEN "running" ELSE "none"
      BY DEF Accept
  <1>2. /\ thread[t] = Idle /\ MayStart(kind, id) /\ overlapped' = Overlapped(kind, id)
        /\ UNCHANGED <<os, births, records, quarantined, waiter, strangers>>
      BY DEF Accept
  <1>3. step \in ReqStep \ {"insert", "list", "signal"} /\ wanted \in Wanted
      BY <1>1 DEF ReqStep, ReqOp, Wanted
  <1>4. PICK q : q = [op |-> kind, id |-> id, pid |-> None, birth |-> 0, seen |-> 0, wanted |-> wanted,
                      step |-> step]
      OBVIOUS
  <1>5. q \in Request /\ q.op = kind /\ q.id = id /\ q.birth = 0 /\ q.seen = 0 /\ q.step = step
      BY <1>3, <1>4 DEF Request
  <1>6. /\ thread' \in [Thread -> Request \cup {Idle}] /\ thread'[t] = q
        /\ \A u \in Thread \ {t} : thread'[u] = thread[u]
      BY <1>0, <1>1, <1>4, <1>5
  <1>7. RequestsGoOn
      BY <1>0, <1>3, <1>5, <1>6, Kinds DEF RequestsGoOn
  <1>8. InsertsStay
      BY <1>2, <1>3, <1>5, <1>6 DEF InsertsStay
  <1>9. overlapped \subseteq overlapped'
      BY <1>2 DEF Overlapped
  <1> QED
      BY <1>2, <1>3, <1>5, <1>6, <1>7, <1>8, <1>9, OsStays, RecordsStay, TableFacts DEF TableGoesOn

LEMMA ReconcileListsDoes ==
  ASSUME TableIInv, NEW t \in Thread, NEW id \in Tunnel, ReconcileLists(t, id)
  PROVE  TableGoesOn /\ InsertsStay /\ RequestsKeepLocks /\ UNCHANGED quarantined
  <1>0. id \in Id /\ thread \in [Thread -> Request \cup {Idle}] /\ births \in Nat
      BY TableFacts DEF Id
  <1>1. PICK readable \in BOOLEAN :
          /\ records' = [records EXCEPT ![id] = Refresh(records[id], readable)]
          /\ Refresh(records[id], readable).state \in {"failed", "stopped"}
      BY DEF ReconcileLists
  <1>2. /\ thread[t] = Idle /\ UNCHANGED <<os, births, quarantined, waiter, overlapped, strangers>>
        /\ thread' = [thread EXCEPT ![t] = [op |-> "reconcile", id |-> id, step |-> "list", pid |-> None,
                                            birth |-> 0, seen |-> 0, wanted |-> "running"]]
      BY DEF ReconcileLists
  <1>3. RecordsGoOn /\ NotedStay
      BY <1>0, <1>1, <1>2, RefreshedOne, RefreshedGoOn
  <1>4. records'[id] # NoRecord
      BY <1>0, <1>1, Kinds, TableFacts
  <1>5. PICK q : q = [op |-> "reconcile", id |-> id, step |-> "list", pid |-> None, birth |-> 0,
                      seen |-> 0, wanted |-> "running"]
      OBVIOUS
  <1>6. q \in Request /\ q.op = "reconcile" /\ q.id = id /\ q.birth = 0 /\ q.seen = 0 /\ q.step = "list"
      BY <1>0, <1>5 DEF Request, ReqOp, ReqStep, Wanted
  <1>7. /\ thread' \in [Thread -> Request \cup {Idle}] /\ thread'[t] = q
        /\ \A u \in Thread \ {t} : thread'[u] = thread[u]
      BY <1>0, <1>2, <1>5, <1>6
  <1>8. RequestsGoOn
      BY <1>0, <1>4, <1>6, <1>7, Kinds DEF RequestsGoOn
  <1>9. InsertsStay /\ RequestsKeepLocks
      BY <1>2, <1>6, <1>7 DEF InsertsStay, RequestsKeepLocks
  <1> QED
      BY <1>2, <1>3, <1>8, <1>9, OsStays, WaiterStays, TableFacts DEF TableGoesOn

LEMMA CrashTableDoes ==
  ASSUME TableIInv, CrashTable
  PROVE  /\ TableGoesOn /\ \A t \in Thread : thread'[t] = Idle
         /\ quarantined' = quarantined \cup Active /\ UNCHANGED os
  <1>1. /\ records' = [id \in Id |-> Refresh(records[id], TRUE)] /\ thread' = [t \in Thread |-> Idle]
        /\ quarantined' = quarantined \cup Active
        /\ UNCHANGED <<os, births, waiter, overlapped, strangers>>
      BY DEF CrashTable
  <1>2. RecordsGoOn /\ NotedStay
      BY <1>1, RefreshedAll, RefreshedGoOn
  <1>3. RequestsGoOn
      BY <1>1 DEF RequestsGoOn
  <1> QED
      BY <1>1, <1>2, <1>3, OsStays, WaiterStays, TableFacts DEF TableGoesOn

\* The process is dealt with: the request ends or goes on to the start.
LEMMA DealtOnward ==
  ASSUME TableIInv, NEW t \in Thread, thread[t].op # "idle", Dealt(t)
  PROVE  Done(t) \/ \E q \in Request : Onward(t, q)
  <1>1. records[thread[t].id].wanted \in Wanted
      BY ReqFacts, Kinds DEF Managed, Wanted
  <1> QED
      BY <1>1, StepOnward DEF Dealt

LEMMA KillDoes ==
  ASSUME TableIInv, NEW t \in Thread, Kill(t)
  PROVE  TableGoesOn /\ InsertsStay /\ RequestsKeepLocks /\ UNCHANGED quarantined
  <1>0. /\ thread[t].op # "idle" /\ thread[t].step = "kill"
        /\ UNCHANGED <<os, births, quarantined, waiter, overlapped, strangers>>
      BY DEF Kill
  <1>1a. PICK readable \in BOOLEAN :
          LET id == thread[t].id
              r  == Refresh(records[id], readable)
          IN  /\ records' = [records EXCEPT ![id] = r]
              /\ \/ /\ Recognised(r, readable)
                    /\ thread' = [thread EXCEPT ![t].step = "signal", ![t].seen = births]
                 \/ Done(t)
                 \/ Dealt(t)
      BY DEF Kill
  <1>1b. PICK id, r : id = thread[t].id /\ r = Refresh(records[id], readable)
      OBVIOUS
  <1>1. /\ id = thread[t].id /\ r = Refresh(records[id], readable)
        /\ records' = [records EXCEPT ![id] = r]
        /\ \/ /\ Recognised(r, readable)
              /\ thread' = [thread EXCEPT ![t].step = "signal", ![t].seen = births]
           \/ Done(t)
           \/ Dealt(t)
      BY <1>1a, <1>1b
  <1>2. /\ id \in Id /\ records[id] \in Managed \cup {NoRecord} /\ Refreshed(records[id], r)
        /\ records \in [Id -> Managed \cup {NoRecord}] /\ births \in Nat
        /\ thread[t] \in Request /\ thread[t] # Idle /\ ReqKept(t)
      BY <1>0, <1>1, ReqFacts, RefreshDoes, TableFacts
  <1>3. /\ records' \in [Id -> Managed \cup {NoRecord}] /\ records'[id] = r
        /\ \A i \in Id : Refreshed(records[i], records'[i]) \/ records'[i] = records[i]
      BY <1>1, <1>2 DEF Refreshed
  <1>4. RecordsGoOn /\ NotedStay
      BY <1>0, <1>3, RefreshedGoOn
  <1>5. ASSUME Recognised(r, readable),
               thread' = [thread EXCEPT ![t].step = "signal", ![t].seen = births]
        PROVE  \E q \in Request : Onward(t, q)
    <2> DEFINE q == [thread[t] EXCEPT !.step = "signal", !.seen = births]
    <2>1. thread' = [thread EXCEPT ![t] = q]
        BY <1>5
    <2>2. /\ q \in Request /\ q.step = "signal" /\ q.id = id /\ q.op = thread[t].op
          /\ q.birth = thread[t].birth /\ q.seen = births
        BY <1>1, <1>2 DEF Request, ReqStep
    <2> HIDE DEF q
    <2>3. thread'[t] = q
        BY <2>1, TableFacts
    <2>4. r.state = "running" /\ r.birth # 0 /\ os[r.pid].birth = r.birth
        BY <1>5 DEF Recognised, Identity
    <2>5. records[id] # NoRecord
        BY <1>2, <2>4, Kinds DEF Refreshed
    <2>6. r \in Managed /\ r.pid = records[id].pid /\ r.birth = records[id].birth
        BY <1>2, <2>5 DEF Refreshed
    <2>7. os[r.pid].of = id
        BY <1>2, <2>4, <2>5, <2>6 DEF TableIInv, Owned, OwnedBy
    <2>8. Told(t)'
        BY <1>0, <1>3, <2>2, <2>3, <2>6, <2>7, Kinds DEF Told
    <2>9. q.seen <= births
        BY <1>2, <2>2
    <2> QED
        BY <1>1, <2>1, <2>2, <2>8, <2>9 DEF Onward
  <1>6. Done(t) \/ \E q \in Request : Onward(t, q)
      BY <1>0, <1>1, <1>5, DealtOnward
  <1>7. RequestsGoOn /\ InsertsStay /\ RequestsKeepLocks
      BY <1>0, <1>4, <1>6, OneGoesOn
  <1> QED
      BY <1>0, <1>4, <1>7, OsStays, WaiterStays, TableFacts DEF TableGoesOn

LEMMA SignalDoes ==
  ASSUME TableIInv, NEW t \in Thread, Signal(t)
  PROVE  TableGoesOn /\ InsertsStay /\ RequestsKeepLocks /\ UNCHANGED quarantined
  <1>0. /\ thread[t].op # "idle" /\ thread[t].step = "signal"
        /\ UNCHANGED <<births, quarantined, waiter, overlapped>>
      BY DEF Signal
  <1>1. PICK id, p : id = thread[t].id /\ p = records[id].pid
      OBVIOUS
  <1>2. /\ id \in Id /\ thread[t] \in Request /\ thread[t] # Idle /\ ReqKept(t) /\ births \in Nat
        /\ records \in [Id -> Managed \cup {NoRecord}] /\ os \in [Pid -> OsRecord \cup {Free}]
      BY <1>0, <1>1, ReqFacts, TableFacts
  <1>3. Told(t) /\ thread[t].seen \in Nat
      BY <1>0, <1>2 DEF ReqKept, Request
  <1>4. /\ records[id] # NoRecord /\ records[id] \in Managed /\ p \in Pid
        /\ os[p] = Free \/ os[p].of = id \/ os[p].birth > thread[t].seen
      BY <1>1, <1>2, <1>3 DEF Told, Managed
  <1>5. CASE Done(t) /\ UNCHANGED <<os, records, strangers>>
    <2>1. RecordsGoOn /\ NotedStay
        BY <1>5, RecordsStay
    <2>2. RequestsGoOn /\ InsertsStay /\ RequestsKeepLocks
        BY <1>0, <1>5, <2>1, OneGoesOn
    <2> QED
        BY <1>0, <1>5, <2>1, <2>2, OsStays, WaiterStays, TableFacts DEF TableGoesOn
  <1>6. CASE /\ os' = Terminated(p) /\ records' = [records EXCEPT ![id].state = "stopped"] /\ Dealt(t)
             /\ strangers' = strangers \cup
                  {q \in {p} : os[q] # Free /\ os[q].of # id /\ os[q].birth <= thread[t].seen}
    <2> DEFINE s == [records[id] EXCEPT !.state = "stopped"]
    <2>1. records' = [records EXCEPT ![id] = s]
        BY <1>6
    <2>2. s \in Managed /\ s.pid = p /\ s.birth = records[id].birth /\ s.state = "stopped"
        BY <1>1, <1>4 DEF Managed
    <2> HIDE DEF s
    <2>3. /\ records' \in [Id -> Managed \cup {NoRecord}] /\ records'[id] = s
          /\ \A i \in Id \ {id} : records'[i] = records[i]
        BY <1>2, <2>1, <2>2
    <2>4. RecordsGoOn
        BY <1>1, <1>4, <2>2, <2>3, Kinds DEF RecordsGoOn
    <2>5. strangers' = {}
      <3>1. ~(os[p] # Free /\ os[p].of # id /\ os[p].birth <= thread[t].seen)
          BY <1>3, <1>4, TableFacts
      <3> QED
          BY <1>6, <3>1, TableFacts
    <2>6. /\ os' \in [Pid -> OsRecord \cup {Free}] /\ (os'[p] = Free \/ os'[p].term)
          /\ \A q \in Pid : os'[q].of = os[q].of /\ os'[q].birth = os[q].birth /\ (os[q].term => os'[q].term)
      <3>1. CASE os[p] = Free
          BY <1>2, <1>4, <1>6, <3>1 DEF Terminated
      <3>2. CASE os[p] # Free
        <4>1. os' = [os EXCEPT ![p].term = TRUE] /\ os[p] \in OsRecord
            BY <1>2, <1>4, <1>6, <3>2 DEF Terminated
        <4> QED
            BY <1>2, <1>4, <4>1 DEF OsRecord
      <3> QED
          BY <3>1, <3>2
    <2>7. OsGoesOn
      <3>1. births' >= births /\ births' = births /\ births' \in 0..MaxBirths
          BY <1>0, TableFacts
      <3>2. \A q \in Pid : os'[q].birth <= births'
          BY <2>6, <3>1, TableFacts
      <3> QED
          BY <2>6, <3>1, <3>2 DEF OsGoesOn
    <2>8. NotedStay
      <3> SUFFICES ASSUME NEW i \in Id, NEW q \in Pid, Noted(i, q), os'[q].of = i, ~os'[q].term
                   PROVE  records'[i].state = "running"
          BY DEF NotedStay
      <3>1. i # id
          BY <1>1, <2>6, Kinds DEF Noted
      <3> QED
          BY <2>3, <3>1 DEF Noted
    <2>9. RequestsGoOn /\ InsertsStay /\ RequestsKeepLocks
        BY <1>0, <1>6, <2>4, DealtOnward, OneGoesOn
    <2> QED
        BY <1>0, <2>4, <2>5, <2>7, <2>8, <2>9, WaiterStays DEF TableGoesOn
  <1> QED
      BY <1>1, <1>5, <1>6 DEF Signal

\* What a child that has been started changes.
Spawned(t, id, p, b) ==
  /\ id = thread[t].id /\ p \in Pid /\ os[p] = Free /\ b \in Nat
  /\ births' = births + 1 /\ births < MaxBirths
  /\ os' \in [Pid -> OsRecord \cup {Free}] /\ \A q \in Pid \ {p} : os'[q] = os[q]
  /\ \/ os'[p] = Free /\ b = 0
     \/ os'[p].of = id /\ os'[p].birth = births + 1 /\ b = births + 1
  /\ thread' \in [Thread -> Request \cup {Idle}] /\ \A u \in Thread \ {t} : thread'[u] = thread[u]
  /\ thread[t] # Idle /\ thread[t].step = "start" /\ ReqKept(t)
  /\ thread'[t] # Idle /\ thread'[t].id = id /\ thread'[t].op = thread[t].op
  /\ thread'[t].step = "insert" /\ thread'[t].pid = p /\ thread'[t].birth = b
  /\ thread'[t].seen = thread[t].seen /\ thread[t].seen \in Nat
  /\ RecordsGoOn /\ records'[id].state # "running"
  /\ \A i \in Id, q \in Pid : Noted(i, q) /\ os[q] # Free => records'[i].state = "running"
  /\ UNCHANGED <<quarantined, waiter, overlapped, strangers>>

LEMMA SpawnDoes ==
  ASSUME TableIInv, NEW t \in Thread, Spawn(t)
  PROVE  \/ TableGoesOn /\ InsertsStay /\ RequestsKeepLocks /\ UNCHANGED quarantined
         \/ \E id \in Id, p \in Pid, b \in Nat : Spawned(t, id, p, b)
  <1>0. /\ thread[t].op # "idle" /\ thread[t].step = "start" /\ births < MaxBirths
        /\ UNCHANGED <<quarantined, waiter, overlapped, strangers>>
      BY DEF Spawn
  <1>1a. PICK readable \in BOOLEAN :
          LET id == thread[t].id
              r  == Refresh(records[id], readable)
          IN  /\ records' = [records EXCEPT ![id] = r]
              /\ \/ /\ ~Startable(r)
                    /\ Done(t)
                    /\ UNCHANGED <<os, births>>
                 \/ /\ Startable(r)
                    /\ births' = births + 1
                    /\ \E p \in {p \in Pid : os[p] = Free}, gone \in BOOLEAN :
                         /\ os' = IF gone THEN os ELSE [os EXCEPT ![p] =
                              [of |-> id, birth |-> births + 1, listens |-> FALSE, term |-> FALSE]]
                         /\ thread' = [thread EXCEPT ![t].step = "insert", ![t].pid = p,
                                                     ![t].birth = IF gone THEN 0 ELSE births + 1]
      BY DEF Spawn
  <1>1b. PICK id, r : id = thread[t].id /\ r = Refresh(records[id], readable)
      OBVIOUS
  <1>1. /\ id = thread[t].id /\ r = Refresh(records[id], readable)
        /\ records' = [records EXCEPT ![id] = r]
        /\ \/ Done(t) /\ UNCHANGED <<os, births>>
           \/ /\ r.state # "running"
              /\ births' = births + 1
              /\ \E p \in {p \in Pid : os[p] = Free}, gone \in BOOLEAN :
                   /\ os' = IF gone THEN os ELSE [os EXCEPT ![p] =
                        [of |-> id, birth |-> births + 1, listens |-> FALSE, term |-> FALSE]]
                   /\ thread' = [thread EXCEPT ![t].step = "insert", ![t].pid = p,
                                               ![t].birth = IF gone THEN 0 ELSE births + 1]
      BY <1>1a, <1>1b DEF Startable
  <1>2. /\ id \in Id /\ thread[t] \in Request /\ thread[t] # Idle /\ ReqKept(t)
      BY <1>0, <1>1, ReqFacts
  <1>3. /\ records' \in [Id -> Managed \cup {NoRecord}]
        /\ \A i \in Id : Refreshed(records[i], records'[i]) \/ records'[i] = records[i]
      BY <1>1, <1>2, RefreshedOne
  <1>4. CASE Done(t) /\ UNCHANGED <<os, births>>
    <2>1. RecordsGoOn /\ NotedStay
        BY <1>3, <1>4, RefreshedGoOn
    <2>2. RequestsGoOn /\ InsertsStay /\ RequestsKeepLocks
        BY <1>0, <1>4, <2>1, OneGoesOn
    <2> QED
        BY <1>0, <1>4, <2>1, <2>2, OsStays, WaiterStays, TableFacts DEF TableGoesOn
  <1>5. CASE /\ r.state # "running" /\ births' = births + 1
             /\ \E p \in {p \in Pid : os[p] = Free}, gone \in BOOLEAN :
                   /\ os' = IF gone THEN os ELSE [os EXCEPT ![p] =
                        [of |-> id, birth |-> births + 1, listens |-> FALSE, term |-> FALSE]]
                   /\ thread' = [thread EXCEPT ![t].step = "insert", ![t].pid = p,
                                               ![t].birth = IF gone THEN 0 ELSE births + 1]
    <2>1. PICK p \in {q \in Pid : os[q] = Free} : \E gone \in BOOLEAN :
                   /\ os' = IF gone THEN os ELSE [os EXCEPT ![p] =
                        [of |-> id, birth |-> births + 1, listens |-> FALSE, term |-> FALSE]]
                   /\ thread' = [thread EXCEPT ![t].step = "insert", ![t].pid = p,
                                               ![t].birth = IF gone THEN 0 ELSE births + 1]
        BY <1>5
    <2>2. PICK gone \in BOOLEAN :
                   /\ os' = IF gone THEN os ELSE [os EXCEPT ![p] =
                        [of |-> id, birth |-> births + 1, listens |-> FALSE, term |-> FALSE]]
                   /\ thread' = [thread EXCEPT ![t].step = "insert", ![t].pid = p,
                                               ![t].birth = IF gone THEN 0 ELSE births + 1]
        BY <2>1
    <2>3. PICK b : b = IF gone THEN 0 ELSE births + 1
        OBVIOUS
    <2>4. b \in Nat /\ p \in Pid /\ os[p] = Free
        BY <2>3, TableFacts
    <2>5. PICK q : q = [thread[t] EXCEPT !.step = "insert", !.pid = p, !.birth = b]
        OBVIOUS
    <2>6. thread' = [thread EXCEPT ![t] = q]
        BY <2>2, <2>3, <2>5
    <2>7. /\ q \in Request /\ q.step = "insert" /\ q.pid = p /\ q.birth = b /\ q.op = thread[t].op
          /\ q.id = thread[t].id /\ q.seen = thread[t].seen /\ thread[t].seen \in Nat
        BY <1>2, <2>4, <2>5 DEF Request, ReqStep
    <2>8. /\ thread' \in [Thread -> Request \cup {Idle}] /\ thread'[t] = q
          /\ \A u \in Thread \ {t} : thread'[u] = thread[u]
        BY <2>6, <2>7, TableFacts
    <2>9. PICK new : new = [of |-> id, birth |-> births + 1, listens |-> FALSE, term |-> FALSE]
        OBVIOUS
    <2>10. new \in OsRecord /\ new.of = id /\ new.birth = births + 1
        BY <1>2, <2>9, TableFacts DEF OsRecord
    <2>11. os' = IF gone THEN os ELSE [os EXCEPT ![p] = new]
        BY <2>2, <2>9
    <2>12. /\ os' \in [Pid -> OsRecord \cup {Free}] /\ \A x \in Pid \ {p} : os'[x] = os[x]
           /\ \/ os'[p] = Free /\ b = 0
              \/ os'[p].of = id /\ os'[p].birth = births + 1 /\ b = births + 1
        BY <2>3, <2>4, <2>10, <2>11, TableFacts
    <2>13. /\ \A i \in Id :
                /\ records[i] = NoRecord <=> records'[i] = NoRecord
                /\ records[i] # NoRecord =>
                     /\ records'[i].pid = records[i].pid /\ records'[i].birth = records[i].birth
                     /\ records'[i].state = "running" => records[i].state = "running"
        BY <1>3, Kinds DEF Refreshed
    <2>14. RecordsGoOn
        BY <1>3, <2>13 DEF RecordsGoOn
    <2>15. \A i \in Id, x \in Pid : Noted(i, x) /\ os[x] # Free => records'[i].state = "running"
        BY <1>3 DEF Noted, Refreshed
    <2>16. records'[id].state # "running"
        BY <1>1, <1>2, <1>5, TableFacts
    <2>17. Spawned(t, id, p, b)
        BY <1>0, <1>1, <1>2, <1>5, <2>4, <2>7, <2>8, <2>12, <2>14, <2>15, <2>16, Kinds DEF Spawned
    <2> QED
        BY <1>2, <2>4, <2>17
  <1> QED
      BY <1>1, <1>4, <1>5

LEMMA SpawnedTable ==
  ASSUME TableIInv, NEW t \in Thread, NEW id \in Id, NEW p \in Pid, NEW b \in Nat, Spawned(t, id, p, b)
  PROVE  TableIInv'
  <1>0. /\ births \in Nat /\ births' = births + 1 /\ births' \in 0..MaxBirths
        /\ \A q \in Pid : os[q].birth <= births /\ os[q].birth \in Nat
      BY TableFacts DEF Spawned
  <1>1. OsTypes'
    <2>1. \A q \in Pid : os'[q].birth <= births'
      <3> SUFFICES ASSUME NEW q \in Pid PROVE os'[q].birth <= births'
          OBVIOUS
      <3>1. os'[q].birth = 0 \/ os'[q].birth = births + 1 \/ os'[q] = os[q]
          BY Kinds DEF Spawned
      <3> QED
          BY <1>0, <3>1
    <2> QED
        BY <1>0, <2>1 DEF OsTypes, Spawned
  <1>2. RecordTypes'
    <2> SUFFICES ASSUME NEW i \in Id, records'[i] # NoRecord PROVE records'[i].birth <= births'
        BY DEF RecordTypes, RecordsGoOn, Spawned
    <2>1. records[i] # NoRecord /\ records'[i].birth = records[i].birth
        BY DEF RecordsGoOn, Spawned
    <2>2. records[i].birth \in Nat /\ records[i].birth <= births
        BY <2>1 DEF TableIInv, RecordTypes, Managed
    <2> QED
        BY <1>0, <2>1, <2>2
  <1>3. ThreadTypes'
    <2> SUFFICES ASSUME NEW u \in Thread PROVE ReqKept(u)'
        BY DEF ThreadTypes, Spawned
    <2>1. CASE u # t /\ thread[u] # Idle
      <3>1. /\ thread'[u] = thread[u] /\ ReqKept(u) /\ thread[u].birth \in Nat /\ thread[u].id \in Id
            /\ thread[u].seen \in Nat
          BY <2>1, TableFacts DEF Spawned, Request
      <3>2. thread[u].birth <= births' /\ thread[u].seen <= births' /\ thread[u].seen <= births
          BY <1>0, <2>1, <3>1 DEF ReqKept
      <3>3. ASSUME thread[u].step = "signal" PROVE Told(u)'
        <4> DEFINE x == records[thread[u].id].pid
        <4>1. Told(u) /\ records[thread[u].id] \in Managed
            BY <2>1, <3>1, <3>3, TableFacts DEF ReqKept, Told
        <4>2. x \in Pid /\ records'[thread[u].id].pid = x /\ records'[thread[u].id] # NoRecord
            BY <3>1, <4>1, Kinds DEF Managed, RecordsGoOn, Spawned
        <4>3. os'[x] = os[x] \/ os'[x] = Free \/ os'[x].birth = births + 1
            BY <4>2 DEF Spawned
        <4>4. os'[x] = Free \/ os'[x].of = thread[u].id \/ os'[x].birth > thread[u].seen
            BY <1>0, <3>1, <3>2, <4>1, <4>3 DEF Told
        <4> QED
            BY <3>1, <4>2, <4>4 DEF Told
      <3> QED
          BY <2>1, <3>1, <3>2, <3>3 DEF ReqKept, RecordsGoOn, Spawned
    <2>2. CASE u # t /\ thread[u] = Idle
        BY <2>2 DEF ReqKept, Spawned
    <2>3. CASE u = t
      <3>1. b <= births' /\ thread[t].seen <= births'
          BY <1>0 DEF Spawned, ReqKept
      <3> QED
          BY <2>3, <3>1 DEF ReqKept, Spawned, RecordsGoOn
    <2> QED
        BY <2>1, <2>2, <2>3
  <1>4. ASSUME NEW q \in Pid, NEW c \in Nat, NEW i \in Id, c <= births, c # 0, os'[q].birth = c,
               os[q].birth = c => os[q].of = i
        PROVE  os'[q].of = i
    <2>1. q # p
        BY <1>0, <1>4, Kinds DEF Spawned
    <2> QED
        BY <1>4, <2>1 DEF Spawned
  <1>5. Owned'
    <2>1. ASSUME NEW i \in Id, records'[i] # NoRecord PROVE OwnedBy(records[i], i)'
      <3>1. records[i] # NoRecord /\ records'[i].pid = records[i].pid /\ records'[i].birth = records[i].birth
          BY <2>1 DEF RecordsGoOn, Spawned
      <3>2. OwnedBy(records[i], i) /\ records[i].pid \in Pid /\ records[i].birth \in Nat /\ records[i].birth <= births
          BY <3>1 DEF TableIInv, Owned, RecordTypes, Managed
      <3> QED
          BY <1>4, <3>1, <3>2 DEF OwnedBy
    <2>2. ASSUME NEW u \in Thread, thread'[u] # Idle, thread'[u].step = "insert", u # t
          PROVE  OwnedBy(thread[u], thread[u].id)'
      <3>1. thread'[u] = thread[u]
          BY <2>2 DEF Spawned
      <3>2. /\ OwnedBy(thread[u], thread[u].id) /\ thread[u].pid \in Pid /\ thread[u].birth \in Nat
            /\ thread[u].birth <= births /\ thread[u].id \in Id
          BY <2>2, <3>1, TableFacts DEF TableIInv, Owned, ReqKept, Request
      <3> QED
          BY <1>4, <3>1, <3>2 DEF OwnedBy
    <2>3. OwnedBy(thread[t], thread[t].id)'
        BY <1>0, Kinds DEF OwnedBy, Spawned
    <2> QED
        BY <2>1, <2>2, <2>3 DEF Owned
  <1>6. WaiterTypes' /\ strangers' = {}
      BY WaiterStays, TableFacts DEF Spawned
  <1> QED
      BY <1>1, <1>2, <1>3, <1>5, <1>6 DEF TableIInv, NoStrangerSignalled

LEMMA SpawnedNames ==
  ASSUME TableIInv, NamesIInv, NEW t \in Thread, NEW id \in Id, NEW p \in Pid, NEW b \in Nat,
         Spawned(t, id, p, b), UNCHANGED overlapped
  PROVE  NamesIInv'
  <1>1. LocksKept'
    <2>1. RequestsKeepLocks
        BY DEF Spawned, RequestsKeepLocks
    <2> QED
        BY <2>1, LocksStep DEF NamesIInv, Spawned
  <1>2. ASSUME id \notin overlapped, NEW u \in Thread, Inserts(u, id) PROVE FALSE
    <2>1. Busy(u) /\ Busy(t) /\ thread[u].id = thread[t].id /\ thread[t].id = id
        BY <1>2 DEF Inserts, Busy, Spawned
    <2>2. u = t
        BY <1>2, <2>1 DEF NamesIInv, LocksKept
    <2> QED
        BY <1>2, <2>2 DEF Inserts, Spawned
  <1>3. ASSUME id \notin overlapped, NEW q \in Live(id) PROVE FALSE
    <2>1. q \in Pid /\ os[q].of = id /\ os[q] # Free /\ LiveKept(id, q)
        BY <1>3, Kinds DEF Live, NamesIInv, LiveKnown
    <2>2. ~Noted(id, q)
        BY <2>1 DEF Spawned
    <2>3. NameKeys(id) \cap quarantined = {}
      <3>1. Busy(t) /\ thread[t].id = id
          BY DEF Busy, Spawned
      <3> QED
          BY <1>3, <3>1 DEF NamesIInv, LocksKept
    <2> QED
        BY <1>2, <1>3, <2>1, <2>2, <2>3 DEF LiveKept
  <1>4. ASSUME NEW i \in Id \ overlapped, NEW q \in Live(i)', q # p
        PROVE  q \in Live(i) /\ os'[q] = os[q] /\ i # id
    <2>1. q \in Live(i) /\ os'[q] = os[q]
        BY <1>4 DEF Live, Spawned
    <2> QED
        BY <1>3, <2>1
  <1>5. ASSUME NEW i \in Id, p \in Live(i)' PROVE i = id /\ os'[p].birth = b
      BY <1>5, Kinds DEF Live, Spawned
  <1>6. ASSUME NEW i \in Id \ overlapped, NEW q \in Live(i)', i = id PROVE LiveKept(i, q)'
    <2>1. \A x \in Live(i)' : x = p
        BY <1>4, <1>6
    <2>2. Inserts(t, id)'
        BY DEF Inserts, Spawned
    <2>3. \A u \in Thread : Inserts(u, id)' => u = t
        BY <1>2, <1>6 DEF Inserts, Spawned
    <2>4. records'[id].state # "running" /\ thread'[t].pid = p /\ thread'[t].birth = b /\ os'[p].birth = b
        BY <1>5, <1>6, <2>1 DEF Spawned
    <2>5. \A u \in Thread : Inserts(u, id)' => thread'[u].pid = q /\ thread'[u].birth = os'[q].birth
        BY <1>6, <2>1, <2>3, <2>4
    <2> QED
        BY <1>6, <2>1, <2>2, <2>4, <2>5 DEF LiveKept
  <1>7. ASSUME NEW i \in Id \ overlapped, NEW q \in Live(i)', i # id PROVE LiveKept(i, q)'
    <2>1. \A x \in Live(i)' : x # p /\ x \in Live(i) /\ os'[x] = os[x]
        BY <1>4, <1>5, <1>7
    <2>2. LiveKept(i, q) /\ q \in Pid /\ os[q] # Free
        BY <2>1, Kinds DEF NamesIInv, LiveKnown, Live
    <2>3. \A u \in Thread : Inserts(u, i)' <=> Inserts(u, i)
        BY <1>7 DEF Inserts, Spawned
    <2>4. \A u \in Thread : Inserts(u, i) => thread'[u] = thread[u]
        BY <1>7 DEF Inserts, Spawned
    <2>5. Noted(i, q) => Noted(i, q)'
        BY <2>1, <2>2 DEF Noted, Spawned, RecordsGoOn
    <2>6. records'[i] # NoRecord /\ records'[i].state = "running" /\ records'[i].pid = q => Noted(i, q)
        BY <2>2 DEF LiveKept, Spawned, RecordsGoOn
    <2>7. \A u \in Thread : Inserts(u, i)' => thread'[u].pid = q /\ thread'[u].birth = os'[q].birth
        BY <2>1, <2>2, <2>3, <2>4 DEF LiveKept
    <2>8. quarantined' = quarantined
        BY DEF Spawned
    <2>9. Noted(i, q)' \/ (\E u \in Thread : Inserts(u, i)') \/ NameKeys(i) \cap quarantined' # {}
        BY <2>2, <2>3, <2>5, <2>8 DEF LiveKept
    <2>10. \A x \in Live(i)' : q = x
        BY <2>1, <2>2 DEF LiveKept
    <2> QED
        BY <2>5, <2>6, <2>7, <2>9, <2>10 DEF LiveKept
  <1> QED
      BY <1>1, <1>6, <1>7 DEF NamesIInv, LiveKnown

\* What the insertion of a record changes.
Inserted(t, id) ==
  /\ id = thread[t].id /\ Inserts(t, id) /\ Unlocked
  /\ records' \in [Id -> Managed \cup {NoRecord}] /\ \A i \in Id \ {id} : records'[i] = records[i]
  /\ records'[id] # NoRecord /\ records'[id].state = "running"
  /\ records'[id].pid = thread[t].pid /\ records'[id].birth = thread[t].birth
  /\ thread' \in [Thread -> Request \cup {Idle}] /\ \A u \in Thread \ {t} : thread'[u] = thread[u]
  /\ thread'[t] = Idle
  /\ UNCHANGED <<os, births, quarantined, waiter, overlapped, strangers>>

LEMMA InsertDoes ==
  ASSUME TableIInv, NEW t \in Thread, Insert(t)
  PROVE  \E id \in Id : Inserted(t, id)
  <1>0. /\ thread[t].op # "idle" /\ thread[t].step = "insert" /\ Done(t) /\ Unlocked
        /\ UNCHANGED <<os, births, quarantined, waiter, overlapped, strangers>>
      BY DEF Insert
  <1>1. PICK id, new :
          /\ id = thread[t].id /\ records' = [records EXCEPT ![id] = new]
          /\ new = [state |-> "running", pid |-> thread[t].pid, birth |-> thread[t].birth,
                    wanted |-> thread[t].wanted]
      BY DEF Insert
  <1>2. /\ id \in Id /\ thread[t] # Idle /\ thread[t].pid \in Pid /\ thread[t].birth \in Nat
        /\ thread[t].wanted \in Wanted
      BY <1>0, <1>1, ReqFacts DEF ReqKept
  <1>3. new \in Managed /\ new.state = "running" /\ new.pid = thread[t].pid /\ new.birth = thread[t].birth
      BY <1>1, <1>2 DEF Managed
  <1>4. /\ records' \in [Id -> Managed \cup {NoRecord}] /\ \A i \in Id \ {id} : records'[i] = records[i]
        /\ records'[id] = new
      BY <1>1, <1>2, <1>3, TableFacts
  <1>5. /\ thread' \in [Thread -> Request \cup {Idle}] /\ \A u \in Thread \ {t} : thread'[u] = thread[u]
        /\ thread'[t] = Idle
      BY <1>0, TableFacts DEF Done
  <1>6. Inserted(t, id)
      BY <1>0, <1>1, <1>2, <1>3, <1>4, <1>5, Kinds DEF Inserted, Inserts
  <1> QED
      BY <1>2, <1>6

LEMMA InsertedTable ==
  ASSUME TableIInv, NEW t \in Thread, NEW id \in Id, Inserted(t, id)
  PROVE  TableIInv'
  <1>0. thread[t] # Idle /\ thread[t].step = "insert" /\ thread[t].id = id
      BY DEF Inserted, Inserts
  <1>1. OsTypes'
      BY DEF TableIInv, OsTypes, Inserted
  <1>2. RecordTypes'
    <2>1. thread[t].birth <= births
        BY <1>0 DEF TableIInv, ThreadTypes, ReqKept
    <2>2. \A i \in Id : records'[i] # NoRecord => records'[i].birth <= births
        BY <2>1 DEF Inserted, TableIInv, RecordTypes
    <2> QED
        BY <2>2 DEF RecordTypes, Inserted
  <1>3. \A i \in Id : records[i] # NoRecord => records'[i] # NoRecord
      BY DEF Inserted
  <1>4. ThreadTypes'
    <2> SUFFICES ASSUME NEW u \in Thread PROVE ReqKept(u)'
        BY DEF ThreadTypes, Inserted
    <2>1. CASE u = t
        BY <2>1 DEF ReqKept, Inserted
    <2>2. CASE u # t /\ thread[u] # Idle
      <3>1. /\ thread'[u] = thread[u] /\ births' = births /\ thread[u].id \in Id /\ ReqKept(u)
            /\ thread[u].step # "signal"
          BY <2>2, TableFacts, Kinds DEF Inserted, Request, Unlocked
      <3> QED
          BY <1>3, <2>2, <3>1 DEF ReqKept
    <2>3. CASE u # t /\ thread[u] = Idle
        BY <2>3 DEF Inserted, ReqKept
    <2> QED
        BY <2>1, <2>2, <2>3
  <1>5. WaiterTypes'
      BY <1>3 DEF TableIInv, WaiterTypes, Inserted, Id
  <1>6. Owned'
    <2>1. OwnedBy(thread[t], id)
        BY <1>0 DEF TableIInv, Owned
    <2>2. ASSUME NEW i \in Id, records'[i] # NoRecord PROVE OwnedBy(records[i], i)'
      <3>1. CASE i = id
          BY <2>1, <3>1 DEF OwnedBy, Inserted
      <3>2. CASE i # id
          BY <2>2, <3>2 DEF OwnedBy, Inserted, TableIInv, Owned
      <3> QED
          BY <3>1, <3>2
    <2>3. ASSUME NEW u \in Thread, thread'[u] # Idle, thread'[u].step = "insert" PROVE OwnedBy(thread[u], thread[u].id)'
      <3>1. thread'[u] = thread[u] /\ os' = os
          BY <2>3 DEF Inserted
      <3> QED
          BY <2>3, <3>1 DEF TableIInv, Owned, OwnedBy
    <2> QED
        BY <2>2, <2>3 DEF Owned
  <1> QED
      BY <1>1, <1>2, <1>4, <1>5, <1>6 DEF TableIInv, NoStrangerSignalled, Inserted

LEMMA InsertedNames ==
  ASSUME TableIInv, NamesIInv, NEW t \in Thread, NEW id \in Id, Inserted(t, id), UNCHANGED overlapped
  PROVE  NamesIInv'
  <1>1. LocksKept'
    <2>1. RequestsKeepLocks
        BY DEF Inserted, RequestsKeepLocks
    <2> QED
        BY <2>1, LocksStep DEF NamesIInv, Inserted
  <1>2. ASSUME id \notin overlapped, NEW u \in Thread, Inserts(u, id) PROVE u = t
    <2>1. Busy(u) /\ Busy(t) /\ thread[u].id = thread[t].id /\ thread[t].id = id
        BY <1>2 DEF Inserts, Busy, Inserted
    <2> QED
        BY <1>2, <2>1 DEF NamesIInv, LocksKept
  <1>3. \A i \in Id : Live(i)' = Live(i)
      BY DEF Live, Inserted
  <1>4. ASSUME id \notin overlapped, NEW q \in Live(id) PROVE LiveKept(id, q)'
    <2>1. LiveKept(id, q)
        BY <1>4 DEF NamesIInv, LiveKnown
    <2>2. thread[t].pid = q /\ thread[t].birth = os[q].birth
        BY <2>1 DEF LiveKept, Inserted
    <2>3. Noted(id, q)'
        BY <2>2 DEF Noted, Inserted
    <2>4. \A u \in Thread : ~Inserts(u, id)'
        BY <1>2, <1>4 DEF Inserts, Inserted
    <2> QED
        BY <1>3, <2>1, <2>3, <2>4 DEF LiveKept
  <1>5. ASSUME NEW i \in Id \ overlapped, NEW q \in Live(i), i # id PROVE LiveKept(i, q)'
    <2>1. LiveKept(i, q)
        BY DEF NamesIInv, LiveKnown
    <2>2. records'[i] = records[i] /\ os' = os /\ quarantined' = quarantined
        BY <1>5 DEF Inserted
    <2>3. \A u \in Thread : (Inserts(u, i)' <=> Inserts(u, i)) /\ (Inserts(u, i) => thread'[u] = thread[u])
        BY <1>5 DEF Inserts, Inserted
    <2>4. Noted(i, q)' <=> Noted(i, q)
        BY <2>2 DEF Noted
    <2>5. \A u \in Thread : Inserts(u, i)' => thread'[u].pid = q /\ thread'[u].birth = os'[q].birth
        BY <2>1, <2>2, <2>3 DEF LiveKept
    <2>6. Noted(i, q)' \/ (\E u \in Thread : Inserts(u, i)') \/ NameKeys(i) \cap quarantined' # {}
        BY <2>1, <2>2, <2>3, <2>4 DEF LiveKept
    <2> QED
        BY <1>3, <2>1, <2>2, <2>4, <2>5, <2>6 DEF LiveKept
  <1> QED
      BY <1>1, <1>3, <1>4, <1>5 DEF NamesIInv, LiveKnown
-----------------------------------------------------------------------------
(* Locks and the processes of a name.                                      *)

LEMMA KeyOfName ==
  ASSUME NEW id, NEW kind \in ReqOp
  PROVE  \E key \in NameKeys(id) : key \in Keys(kind, id)
  BY DEF NameKeys, Keys, ReqOp

LEMMA LockHeld ==
  ASSUME TableIInv, NEW t \in Thread, Busy(t)
  PROVE  NameKeys(thread[t].id) \cap Active # {}
  <1>1. thread[t] \in Request /\ thread[t] # Idle
      BY TableFacts DEF Busy
  <1>2. thread[t].op # "idle" /\ thread[t].op \in ReqOp
      BY <1>1, Kinds DEF Request
  <1>3. PICK key \in NameKeys(thread[t].id) : key \in Keys(thread[t].op, thread[t].id)
      BY <1>2, KeyOfName
  <1>4. Held(t) = Keys(thread[t].op, thread[t].id)
      BY <1>2 DEF Held, Busy
  <1> QED
      BY <1>3, <1>4 DEF Active

\* A request that takes its locks.
LEMMA LockTaken ==
  ASSUME TableIInv, LocksKept, NEW t \in Thread, ~Busy(t), NEW kind, NEW id,
         MayStart(kind, id), overlapped' = Overlapped(kind, id), thread'[t].id = id,
         \A u \in Thread \ {t} : thread'[u] = thread[u], UNCHANGED quarantined
  PROVE  LocksKept'
  <1> SUFFICES ASSUME NEW v \in Thread, Busy(v)', thread'[v].id \notin overlapped'
               PROVE  /\ NameKeys(thread'[v].id) \cap quarantined' = {}
                      /\ \A u \in Thread : Busy(u)' /\ thread'[u].id = thread'[v].id => u = v
      BY DEF LocksKept
  <1>1. overlapped \subseteq overlapped'
      BY DEF Overlapped
  <1>2. \A u \in Thread \ {t} : Busy(u)' <=> Busy(u)
      BY DEF Busy
  <1>3. CASE thread'[v].id = id
    <2>1. ~Overlaps(kind, id)
        BY <1>3 DEF Overlapped
    <2>2. NameKeys(id) \cap Active = {} /\ NameKeys(id) \cap quarantined = {}
        BY <2>1 DEF Overlaps, MayStart
    <2>3. \A u \in Thread \ {t} : Busy(u) => thread[u].id # id
        BY <2>2, LockHeld
    <2> QED
        BY <1>2, <1>3, <2>2, <2>3
  <1>4. CASE thread'[v].id # id
    <2>1. v # t /\ thread'[v] = thread[v] /\ Busy(v) /\ thread[v].id \notin overlapped
        BY <1>1, <1>2, <1>4
    <2> QED
        BY <1>2, <1>4, <2>1 DEF LocksKept
  <1> QED
      BY <1>3, <1>4

LEMMA AcceptNames ==
  ASSUME TableIInv, NamesIInv, NEW t \in Thread, NEW kind \in ReqOp \ {"reconcile"}, NEW id \in Id,
         Accept(t, kind, id)
  PROVE  NamesIInv'
  <1>1. /\ TableGoesOn /\ InsertsStay /\ UNCHANGED <<quarantined, os, records>> /\ MayStart(kind, id)
        /\ thread[t] = Idle /\ thread'[t].id = id /\ overlapped' = Overlapped(kind, id)
        /\ \A u \in Thread \ {t} : thread'[u] = thread[u]
      BY AcceptDoes
  <1>2. ~Busy(t)
      BY <1>1 DEF Busy
  <1>3. LocksKept'
      BY <1>1, <1>2, LockTaken DEF NamesIInv
  <1>4. LiveKnown'
      BY <1>1, LiveStep DEF NamesIInv, TableGoesOn
  <1> QED
      BY <1>3, <1>4 DEF NamesIInv

LEMMA ReconcileBeginsNames ==
  ASSUME TableIInv, NamesIInv, NEW t \in Thread, ReconcileBegins(t)
  PROVE  NamesIInv'
  <1>1. /\ TableGoesOn /\ InsertsStay /\ UNCHANGED quarantined
        /\ \/ RequestsKeepLocks
           \/ /\ MayStart("reconcile", thread[t].id) /\ Step(t, "kill")
              /\ overlapped' = Overlapped("reconcile", thread[t].id)
      BY ReconcileBeginsDoes
  <1>2. LiveKnown'
      BY <1>1, LiveStep DEF NamesIInv, TableGoesOn
  <1>3. CASE RequestsKeepLocks
      BY <1>1, <1>2, <1>3, LocksStep DEF NamesIInv, TableGoesOn
  <1>4. CASE /\ MayStart("reconcile", thread[t].id) /\ Step(t, "kill")
             /\ overlapped' = Overlapped("reconcile", thread[t].id)
    <2>1. thread[t].op # "idle" /\ thread[t].step = "list"
        BY DEF ReconcileBegins
    <2>2. thread[t] \in Request /\ thread[t] # Idle /\ ~Busy(t)
        BY <2>1, ReqFacts DEF Busy
    <2>3. thread'[t].id = thread[t].id /\ \A u \in Thread \ {t} : thread'[u] = thread[u]
        BY <1>4, <2>2, TableFacts DEF Step, Request
    <2>4. LocksKept'
        BY <1>1, <1>4, <2>2, <2>3, LockTaken DEF NamesIInv
    <2> QED
        BY <1>2, <2>4 DEF NamesIInv
  <1> QED
      BY <1>1, <1>3, <1>4

LEMMA CrashTableNames ==
  ASSUME TableIInv, NamesIInv, CrashTable
  PROVE  NamesIInv'
  <1>1. /\ TableGoesOn /\ \A t \in Thread : thread'[t] = Idle
        /\ quarantined' = quarantined \cup Active /\ UNCHANGED os
      BY CrashTableDoes
  <1>2. LocksKept'
      BY <1>1 DEF LocksKept, Busy
  <1>3. ASSUME NEW id \in Id \ overlapped', NEW p \in Live(id)' PROVE LiveKept(id, p)'
    <2>1. p \in Pid /\ p \in Live(id) /\ os'[p].of = id /\ ~os'[p].term /\ LiveKept(id, p) /\ Live(id)' = Live(id)
        BY <1>1 DEF Live, NamesIInv, LiveKnown, TableGoesOn
    <2>2. Noted(id, p) => Noted(id, p)'
        BY <1>1, <2>1 DEF Noted, TableGoesOn, NotedStay, RecordsGoOn
    <2>3. ASSUME NEW t \in Thread, Inserts(t, id) PROVE NameKeys(id) \cap quarantined' # {}
      <3>1. Busy(t) /\ thread[t].id = id
          BY <2>3 DEF Inserts, Busy
      <3> QED
          BY <1>1, <3>1, LockHeld DEF NamesIInv
    <2>4. Noted(id, p)' \/ NameKeys(id) \cap quarantined' # {}
        BY <1>1, <2>1, <2>2, <2>3 DEF LiveKept
    <2>5. \A t \in Thread : ~Inserts(t, id)'
        BY <1>1 DEF Inserts
    <2>6. records'[id] # NoRecord /\ records'[id].state = "running" /\ records'[id].pid = p => Noted(id, p)
        BY <1>1, <2>1 DEF LiveKept, TableGoesOn, RecordsGoOn
    <2> QED
        BY <2>1, <2>2, <2>4, <2>5, <2>6 DEF LiveKept
  <1> QED
      BY <1>2, <1>3 DEF NamesIInv, LiveKnown

LEMMA RecoverNames ==
  ASSUME TableIInv, NamesIInv, NEW key, Recover(key)
  PROVE  NamesIInv'
  <1>1. TableGoesOn /\ UNCHANGED <<thread, os, records>> /\ quarantined' = quarantined \ {key} /\ SafeToRecover(key)
      BY RecoverDoes
  <1>2. LocksKept'
      BY <1>1, RequestsStay, LocksStep DEF NamesIInv, TableGoesOn
  <1>3. ASSUME NEW id \in Id \ overlapped', NEW p \in Live(id)' PROVE LiveKept(id, p)'
    <2>1. p \in Live(id) /\ LiveKept(id, p) /\ Live(id)' = Live(id)
        BY <1>1 DEF Live, NamesIInv, LiveKnown, TableGoesOn
    <2>2. (Noted(id, p)' <=> Noted(id, p)) /\ \A t \in Thread : Inserts(t, id)' <=> Inserts(t, id)
        BY <1>1 DEF Noted, Inserts
    <2>3. CASE key \in NameKeys(id)
      <3>1. records[id] # NoRecord /\ records[id].state = "running" /\ records[id].pid = p
          BY <1>1, <2>1, <2>3 DEF SafeToRecover
      <3>2. Noted(id, p)
          BY <2>1, <3>1 DEF LiveKept
      <3> QED
          BY <1>1, <2>1, <2>2, <3>2 DEF LiveKept
    <2>4. CASE key \notin NameKeys(id)
      <3>1. NameKeys(id) \cap quarantined' = NameKeys(id) \cap quarantined
          BY <1>1, <2>4
      <3> QED
          BY <1>1, <2>1, <2>2, <3>1 DEF LiveKept
    <2> QED
        BY <2>3, <2>4
  <1> QED
      BY <1>2, <1>3 DEF NamesIInv, LiveKnown

\* Every other step keeps the locks and the names.
LEMMA QuietNames ==
  ASSUME TableIInv, NamesIInv, TableGoesOn, InsertsStay, RequestsKeepLocks, UNCHANGED quarantined
  PROVE  NamesIInv'
  BY LiveStep, LocksStep DEF NamesIInv, TableGoesOn

LEMMA TableBegins == ProcInit => TableIInv /\ NamesIInv
  <1> SUFFICES ASSUME ProcInit PROVE TableIInv /\ NamesIInv
      OBVIOUS
  <1>1. /\ os = [p \in Pid |-> Free] /\ births = 0 /\ records = [id \in Id |-> NoRecord]
        /\ thread = [t \in Thread |-> Idle] /\ waiter = [step |-> "idle"] /\ strangers = {}
      BY DEF ProcInit
  <1>2. OsTypes
    <2>1. births \in 0..MaxBirths
        BY <1>1, ProcessesAssumption
    <2> QED
        BY <1>1, <2>1, Kinds DEF OsTypes
  <1>3. RecordTypes /\ ThreadTypes /\ WaiterTypes /\ Owned /\ NoStrangerSignalled
      BY <1>1 DEF RecordTypes, ThreadTypes, ReqKept, WaiterTypes, Owned, NoStrangerSignalled
  <1>4. LocksKept
      BY <1>1 DEF LocksKept, Busy
  <1>5. ASSUME NEW id \in Id, NEW p \in Live(id) PROVE FALSE
    <2>1. p \in Pid /\ os[p].of = id /\ os[p] = Free
        BY <1>1 DEF Live
    <2> QED
        BY <2>1, Kinds
  <1> QED
      BY <1>2, <1>3, <1>4, <1>5 DEF TableIInv, NamesIInv, LiveKnown

\* One step per action.
LEMMA TableKept ==
  ASSUME TableIInv, [ProcNext]_procVars
  PROVE  TableIInv' /\ (NamesIInv => NamesIInv')
  <1>0. ASSUME TableGoesOn PROVE TableIInv'
      BY <1>0, TableStep DEF TableGoesOn
  <1>00. ASSUME TableGoesOn, UNCHANGED <<thread, quarantined>> PROVE NamesIInv => NamesIInv'
      BY <1>00, RequestsStay, QuietNames
  <1>1. CASE \E p \in Pid : Exit(p) \/ ForeignStarts(p) \/ Listen(p)
      BY <1>0, <1>00, <1>1, ExitDoes, ForeignStartsDoes, ListenDoes
  <1>2. CASE TakePort \/ NextWait \/ UNCHANGED procVars
      BY <1>0, <1>00, <1>2, QuietDoes
  <1>3. CASE Observe
      BY <1>0, <1>00, <1>3, ObserveDoes
  <1>4. ASSUME NEW t \in Thread, NEW kind \in {"ensure", "stop"}, NEW id \in Tunnel, Accept(t, kind, id)
        PROVE  TableIInv' /\ (NamesIInv => NamesIInv')
    <2>1. id \in Id /\ kind \in ReqOp \ {"reconcile"}
        BY DEF Id, ReqOp
    <2> QED
        BY <1>0, <1>4, <2>1, AcceptDoes, AcceptNames
  <1>5. ASSUME NEW t \in Thread, NEW kind \in {"pstart", "pstop", "prestart", "astart", "astop"},
               NEW id \in Id, Accept(t, kind, id)
        PROVE  TableIInv' /\ (NamesIInv => NamesIInv')
    <2>1. kind \in ReqOp \ {"reconcile"}
        BY DEF ReqOp
    <2> QED
        BY <1>0, <1>5, <2>1, AcceptDoes, AcceptNames
  <1>6. CASE \E t \in Thread : \E id \in Tunnel : ReconcileLists(t, id)
      BY <1>0, <1>6, ReconcileListsDoes, QuietNames
  <1>7. CASE \E t \in Thread : EnsureChecks(t) \/ Unwant(t) \/ Kill(t) \/ Signal(t)
      BY <1>0, <1>7, EnsureChecksDoes, UnwantDoes, KillDoes, SignalDoes, QuietNames
  <1>8. CASE \E t \in Thread : Spawn(t)
    <2>1. UNCHANGED overlapped
        BY <1>8 DEF Spawn
    <2> QED
        BY <1>0, <1>8, <2>1, SpawnDoes, SpawnedTable, SpawnedNames, QuietNames
  <1>9. CASE \E t \in Thread : Insert(t)
    <2>1. UNCHANGED overlapped
        BY <1>9 DEF Insert
    <2> QED
        BY <1>9, <2>1, InsertDoes, InsertedTable, InsertedNames
  <1>10. CASE \E t \in Thread : ReconcileBegins(t)
      BY <1>0, <1>10, ReconcileBeginsDoes, ReconcileBeginsNames
  <1>11. CASE CrashTable
      BY <1>0, <1>11, CrashTableDoes, CrashTableNames
  <1>12. CASE \E key \in quarantined : Recover(key)
      BY <1>0, <1>12, RecoverDoes, RecoverNames
  <1>13. CASE \E id \in Tunnel : WaitReady(id)
      BY <1>0, <1>00, <1>13, WaitReadyDoes
  <1>14. CASE ReportReady
      BY <1>0, <1>00, <1>14, ReportReadyDoes
  <1> QED
      BY <1>1, <1>2, <1>3, <1>4, <1>5, <1>6, <1>7, <1>8, <1>9, <1>10, <1>11, <1>12, <1>13, <1>14
         DEF ProcNext

-----------------------------------------------------------------------------
(* The theorems about the process table.                                   *)

\* Processes, records, requests and the waiting Controller keep to the
\* inductive invariant: above all, a live process with the birth identity that
\* a record or a request holds was started for that name (process.rs).
THEOREM ProcessInvariance == ProcSpec => []TableIInv
  <1>1. ProcInit => TableIInv
      BY TableBegins
  <1>2. TableIInv /\ [ProcNext]_procVars => TableIInv'
      BY TableKept
  <1> QED
      BY <1>1, <1>2, PTL DEF ProcSpec

\* What ProcessTable::stop signals was started by the table for that name, or
\* got the pid after stop had compared the birth identity, for any number of
\* names, requests, pids, exits, crashes and programs that get the pid of a
\* process that is gone.
THEOREM StrangersAreSpared == ProcSpec => []NoStrangerSignalled
  <1>1. TableIInv => NoStrangerSignalled
      BY DEF TableIInv
  <1> QED
      BY <1>1, ProcessInvariance, PTL

\* The process table and the requests keep their types.
THEOREM ProcessTableTyped == ProcSpec => []ProcTypeOK
  <1>1. TableIInv => ProcTypeOK
    <2> SUFFICES ASSUME TableIInv PROVE ProcTypeOK
        OBVIOUS
    <2>1. \A p \in Pid : os[p] = Free \/ (os[p].of \in Id \cup {Foreign} /\ os[p].birth \in 1..births)
      <3> SUFFICES ASSUME NEW p \in Pid, os[p] # Free
                   PROVE  os[p].of \in Id \cup {Foreign} /\ os[p].birth \in 1..births
          OBVIOUS
      <3>1. os[p] \in OsRecord /\ os[p].birth <= births /\ births \in Nat
          BY TableFacts
      <3>2. os[p].of \in Id \cup {Foreign} /\ os[p].birth \in Nat \ {0}
          BY <3>1 DEF OsRecord
      <3> QED
          BY <3>1, <3>2
    <2>2. \A id \in Id : records[id] = NoRecord \/
            /\ records[id].state \in {"running", "stopped", "failed"}
            /\ records[id].pid \in Pid
            /\ records[id].birth \in 0..births
            /\ records[id].wanted \in {"running", "stopped", "none"}
      <3> SUFFICES ASSUME NEW id \in Id, records[id] # NoRecord
                   PROVE  /\ records[id].state \in {"running", "stopped", "failed"}
                          /\ records[id].pid \in Pid
                          /\ records[id].birth \in 0..births
                          /\ records[id].wanted \in {"running", "stopped", "none"}
          OBVIOUS
      <3>1. records[id] \in Managed /\ records[id].birth <= births /\ births \in Nat
          BY TableFacts DEF TableIInv, RecordTypes
      <3>2. /\ records[id].state \in {"running", "stopped", "failed"} /\ records[id].pid \in Pid
            /\ records[id].birth \in Nat /\ records[id].wanted \in {"running", "stopped", "none"}
          BY <3>1 DEF Managed, Wanted
      <3> QED
          BY <3>1, <3>2
    <2>3. \A t \in Thread : thread[t] = Idle \/ thread[t].id \in Id
        BY TableFacts DEF Request
    <2>4. births \in 0..MaxBirths
        BY TableFacts
    <2> QED
        BY <2>1, <2>2, <2>3, <2>4 DEF ProcTypeOK
  <1> QED
      BY <1>1, ProcessInvariance, PTL

LEMMA AtMostOne ==
  ASSUME TableIInv, NamesIInv PROVE OneProcessPerName
  <1> SUFFICES ASSUME NEW id \in Id \ overlapped PROVE Cardinality(Live(id)) <= 1
      BY DEF OneProcessPerName
  <1>1. CASE Live(id) = {}
      BY <1>1, FS_EmptySet
  <1>2. CASE Live(id) # {}
    <2>1. PICK p : p \in Live(id)
        BY <1>2
    <2>2. Live(id) = {p}
        BY <2>1 DEF NamesIInv, LiveKnown, LiveKept
    <2>3. Cardinality({p}) = 1
        BY FS_Singleton
    <2> QED
        BY <2>2, <2>3
  <1> QED
      BY <1>1, <1>2

\* No interleaving of ensure, stop, restart, reconciliation, agent requests,
\* crashes and recoveries gives a name two processes that were not told to
\* stop, unless it was used under two of its keys at a time: the locks of one
\* kind of request and the quarantine are enough for it.
THEOREM NamesHaveOneProcess == ProcSpec => []OneProcessPerName
  <1>1. ProcInit => TableIInv /\ NamesIInv
      BY TableBegins
  <1>2. TableIInv /\ NamesIInv /\ [ProcNext]_procVars => (TableIInv /\ NamesIInv)'
      BY TableKept
  <1>3. TableIInv /\ NamesIInv => OneProcessPerName
      BY AtMostOne
  <1> QED
      BY <1>1, <1>2, <1>3, PTL DEF ProcSpec

\* A tunnel is reported ready only when a process of that tunnel listens at
\* that moment: the view after the wait checks the identity and the owner of
\* the listener again (tunnel_view).
THEOREM ReadyMeansListening == ProcSpec => ReadyIsCurrent
  <1>1. ASSUME TableIInv, [ProcNext]_procVars
        PROVE  [waiter'.step = "ready" /\ waiter.step # "ready" =>
                  \E p \in Pid : os[p].of = waiter.id /\ os[p].listens]_procVars
    <2> SUFFICES ASSUME ProcNext, waiter'.step = "ready", waiter.step # "ready"
                 PROVE  \E p \in Pid : os[p].of = waiter.id /\ os[p].listens
        BY <1>1
    <2>1. CASE ReportReady
      <3>0. waiter.id \in Id /\ records[waiter.id] # NoRecord
          BY <1>1, <2>1 DEF ReportReady, TableIInv, WaiterTypes, Id
      <3>1. PICK readable \in BOOLEAN :
              waiter' = IF ReadyView(Refresh(records[waiter.id], readable), readable)
                        THEN [step |-> "ready", id |-> waiter.id] ELSE [step |-> "idle"]
          BY <2>1 DEF ReportReady
      <3>2. PICK r : r = Refresh(records[waiter.id], readable)
          OBVIOUS
      <3>3. r.birth # 0 /\ os[r.pid].birth = r.birth /\ os[r.pid].listens
        <4>1. ReadyView(r, readable)
            BY <3>1, <3>2
        <4> QED
            BY <4>1 DEF ReadyView, OwnsListener, Recognised, Identity
      <3>4. Refreshed(records[waiter.id], r) /\ records[waiter.id] \in Managed
          BY <1>1, <3>0, <3>2, RefreshDoes, TableFacts
      <3>5. r.pid \in Pid /\ r.pid = records[waiter.id].pid /\ records[waiter.id].birth # 0
            /\ os[r.pid].birth = records[waiter.id].birth
          BY <3>0, <3>3, <3>4 DEF Refreshed, Managed
      <3>6. os[r.pid].of = waiter.id
          BY <1>1, <3>0, <3>5 DEF TableIInv, Owned, OwnedBy
      <3> QED
          BY <3>3, <3>5, <3>6
    <2>2. CASE NextWait \/ \E id \in Tunnel : WaitReady(id)
        BY <2>2 DEF NextWait, WaitReady
    <2>3. CASE UNCHANGED waiter
        BY <2>3
    <2> QED
        BY <2>1, <2>2, <2>3
           DEF ProcNext, Exit, ForeignStarts, Listen, TakePort, Observe, Accept, ReconcileLists,
           EnsureChecks, Unwant, Kill, Signal, Spawn, Insert, ReconcileBegins, CrashTable, Recover
  <1>2. TableIInv /\ [ProcNext]_procVars =>
          [waiter'.step = "ready" /\ waiter.step # "ready" =>
             \E p \in Pid : os[p].of = waiter.id /\ os[p].listens]_procVars
      BY <1>1
  <1> QED
      BY <1>2, ProcessInvariance, PTL DEF ProcSpec, ReadyIsCurrent

-----------------------------------------------------------------------------
(* Artifact relay: the inductive invariant.                                *)

Dead     == {"release", "failed", "gone"}
Stage    == {"digest", "again", "pack", "acquire", "read", "finished", "done"} \cup Waiting \cup Dead
Version  == -2..MaxChanges
PlainReq == [what: {"prepare", "commit", "local"}]
WriteReq == [what: {"write"}, chunk: Chunk, data: Version]
JobStep  == {"prepare", "write", "digest", "copy", "verify", "away", "in", "clean"}
Job      == [by: Transfer, pos: 0..(Chunks - 1), for: PlainReq \cup WriteReq, step: JobStep]

SourceTypes ==
  /\ changes \in 0..MaxChanges
  /\ source \in [Chunk -> 0..MaxChanges] /\ \A c \in Chunk : source[c] <= changes
  /\ past \subseteq [Chunk -> 0..MaxChanges] /\ source \in past

ClientTypes ==
  /\ mode \in [Transfer -> {"archive", "manifest", "local"}]
  /\ pc \in [Transfer -> Stage] /\ pos \in [Transfer -> 0..Chunks]
  /\ want \in [Transfer -> Content] /\ archive \in [Transfer -> Content]
  /\ request \in [Transfer -> PlainReq \cup WriteReq \cup {NoRequest}]

DestTypes ==
  /\ holder \in Transfer \cup {Nobody} /\ op \in Job \cup {NoOp} /\ inDoubt \in BOOLEAN
  /\ staging \in [Transfer -> Content \cup {Missing}] /\ backup \in [Transfer -> Content \cup {Missing}]
  /\ dest \in Content \cup {Missing}
  /\ latest \in Transfer \cup {Nobody} /\ installed \subseteq Transfer

\* The operation of a transfer, and whether it is at one of these steps.
JobOf(t) == IF op.by = t THEN op ELSE NoOp
At(t, steps) == JobOf(t) # NoOp /\ JobOf(t).step \in steps

\* The steps of the operation that a request starts.
StepsOf(w) ==
  CASE w = "prepare" -> {"prepare"}
    [] w = "write"   -> {"write"}
    [] w = "commit"  -> {"verify", "away", "in", "clean"}
    [] w = "local"   -> {"digest", "copy", "verify", "away", "in", "clean"}

\* A transfer has one request or operation at a time, the one its Controller
\* waits for or has given up.
Shape(t) ==
  /\ pc[t] = "pack" => pos[t] < Chunks
  /\ pc[t] \in {"digest", "again", "pack", "read", "prepare", "write", "commit"} => mode[t] # "local"
  /\ pc[t] = "local" => mode[t] = "local"
  /\ request[t] # NoRequest =>
       /\ pc[t] \in {request[t].what} \cup Dead
       /\ request[t].what = "local" <=> mode[t] = "local"
  /\ JobOf(t) # NoOp =>
       /\ request[t] = NoRequest
       /\ pc[t] \in {JobOf(t).for.what} \cup Dead
       /\ JobOf(t).for.what = "local" <=> mode[t] = "local"
       /\ JobOf(t).step \in StepsOf(JobOf(t).for.what)

\* There is a staging area to write to or to commit.
Prepared(t) ==
  \/ pc[t] = "read"
  \/ request[t] # NoRequest /\ request[t].what \in {"write", "commit"}
  \/ At(t, {"write", "copy", "verify"})

\* What has been digested is not newer than the source.
Digesting(t) ==
  /\ pc[t] \in {"digest", "again"} => archive[t] = Empty
  /\ pc[t] = "digest" => \A c \in Chunk : c <= pos[t] => want[t][c] \in 0..source[c]
  /\ At(t, {"digest"}) => \A c \in Chunk : c <= JobOf(t).pos => want[t][c] \in 0..source[c]

\* The digest is complete and the copy is not verified yet.
Copying(t) ==
  \/ pc[t] \in {"again", "pack", "acquire", "read"} /\ mode[t] # "local"
  \/ request[t] # NoRequest /\ mode[t] # "local"
  \/ At(t, {"prepare", "write", "copy", "verify"})

NotBefore(x, s) == x = Hole \/ s <= x

\* S is a state the source was in between the digest and the copy: what was
\* digested is not newer, and what was copied is not older.
Between(t, S) ==
  /\ \A c \in Chunk : want[t][c] \in 0..S[c] /\ S[c] <= source[c]
  /\ mode[t] = "archive" => \A c \in Chunk : NotBefore(archive[t][c], S[c])
  /\ Prepared(t) => \A c \in Chunk : NotBefore(staging[t][c], S[c])
  /\ request[t] \in WriteReq => NotBefore(request[t].data, S[request[t].chunk])
  /\ At(t, {"write"}) => NotBefore(JobOf(t).for.data, S[JobOf(t).for.chunk])

TransferKept(t) ==
  /\ Shape(t) /\ Digesting(t)
  /\ Prepared(t) => staging[t] \in Content
  /\ Copying(t) => \E S \in past : Between(t, S)
  /\ At(t, {"away", "in"}) => staging[t] \in past
  /\ At(t, {"clean"}) \/ pc[t] \in {"finished", "done"} => t \in installed
  /\ latest = t =>
       /\ request[t] = NoRequest
       /\ pc[t] \in {"commit", "local", "finished", "done"} \cup Dead
       /\ JobOf(t) # NoOp => JobOf(t).step \in {"in", "clean"}

\* The destination is missing only while, or because, a commit put it aside.
DestKept ==
  /\ dest = Missing => latest \in Transfer
  /\ op # NoOp /\ op.step = "in" => dest = Missing /\ (op.by # latest => backup[op.by] = Missing)
  /\ op # NoOp /\ op.step = "clean" => dest # Missing

RelayIInv ==
  /\ SourceTypes /\ ClientTypes /\ DestTypes
  /\ CommitUndisturbed /\ DestKept
  /\ \A t \in Transfer : TransferKept(t)

-----------------------------------------------------------------------------
(* Transfers and the constants.                                            *)

LEMMA RelayKinds ==
  /\ Chunk # {} /\ Missing \notin Content /\ Old \in Content /\ Empty \in Content
  /\ \A S \in [Chunk -> 0..MaxChanges] : S \in Content
  /\ \A r \in PlainReq \cup WriteReq : r # NoRequest /\ r.what \in {"prepare", "commit", "local", "write"}
  /\ \A r \in WriteReq : r.what = "write"
  /\ \A r \in PlainReq : r.what # "write"
  /\ \A j \in Job : j # NoOp /\ j.by \in Transfer
  /\ NoOp.by = Nobody /\ Nobody \notin Transfer
  /\ Hole \in Version /\ MaxChanges \in Nat /\ Chunks \in Nat \ {0}
  /\ \A c \in Chunk : c \in Nat
  <1>0. MaxChanges \in Nat /\ Chunks \in Nat \ {0} /\ Nobody \notin Transfer
      BY RelayAssumption
  <1>1. 1 \in Chunk /\ \A c \in Chunk : c \in Nat
      BY <1>0 DEF Chunk
  <1>2. Missing \notin Content
    <2>1. DOMAIN Missing = {}
        BY DEF Missing
    <2> QED
        BY <1>1, <2>1 DEF Content
  <1>3. -2 \in Version /\ -1 \in Version /\ \A n \in 0..MaxChanges : n \in Version
      BY <1>0 DEF Version
  <1>4. Content = [Chunk -> Version]
      BY DEF Content, Version
  <1>5. Old \in Content /\ Empty \in Content /\ Hole \in Version
      BY <1>3, <1>4 DEF Old, Empty, Hole
  <1>6. \A S \in [Chunk -> 0..MaxChanges] : S \in Content
      BY <1>3, <1>4
  <1>7. /\ \A r \in PlainReq \cup WriteReq : r # NoRequest /\ r.what \in {"prepare", "commit", "local", "write"}
        /\ \A r \in WriteReq : r.what = "write"
        /\ \A r \in PlainReq : r.what # "write"
      BY DEF PlainReq, WriteReq, NoRequest
  <1>8. \A j \in Job : j # NoOp /\ j.by \in Transfer
      BY <1>0 DEF Job, NoOp
  <1>9. NoOp.by = Nobody
      BY DEF NoOp
  <1> QED
      BY <1>0, <1>1, <1>2, <1>5, <1>6, <1>7, <1>8, <1>9

LEMMA RelayFacts ==
  ASSUME RelayIInv
  PROVE  /\ SourceTypes /\ ClientTypes /\ DestTypes /\ CommitUndisturbed /\ DestKept
         /\ \A t \in Transfer : TransferKept(t)
         /\ \A c \in Chunk : source[c] \in Nat
         /\ op # NoOp => op \in Job /\ op.by \in Transfer /\ JobOf(op.by) = op
         /\ \A t \in Transfer : JobOf(t) # NoOp => JobOf(t) = op /\ op.by = t
         /\ \A t \in Transfer : request[t] # NoRequest => request[t] \in PlainReq \cup WriteReq
  <1>1. SourceTypes /\ ClientTypes /\ DestTypes /\ CommitUndisturbed /\ DestKept
        /\ \A t \in Transfer : TransferKept(t)
      BY DEF RelayIInv
  <1>2. \A c \in Chunk : source[c] \in Nat
      BY <1>1, RelayKinds DEF SourceTypes
  <1>3. op # NoOp => op \in Job /\ op.by \in Transfer /\ JobOf(op.by) = op
      BY <1>1, RelayKinds DEF DestTypes, JobOf
  <1>4. \A t \in Transfer : JobOf(t) # NoOp => JobOf(t) = op /\ op.by = t
      BY DEF JobOf
  <1>5. \A t \in Transfer : request[t] # NoRequest => request[t] \in PlainReq \cup WriteReq
      BY <1>1 DEF ClientTypes
  <1> QED
      BY <1>1, <1>2, <1>3, <1>4, <1>5

\* The source gets newer, and histories grow.
Grows ==
  /\ SourceTypes' /\ \A c \in Chunk : source[c] <= source'[c]
  /\ past \subseteq past' /\ installed \subseteq installed'

\* A transfer stays as it is or gets nearer to its end: its request, its
\* operation, its archive or its staging area goes away.
Withdraws(t) ==
  /\ mode'[t] = mode[t] /\ pos'[t] = pos[t] /\ want'[t] = want[t]
  /\ \/ pc'[t] = pc[t]
     \/ pc'[t] \in Dead
     \/ pc'[t] \in {"finished", "done"} /\ t \in installed /\ JobOf(t)' = NoOp /\ request'[t] = NoRequest
  /\ request'[t] \in {request[t], NoRequest}
  /\ JobOf(t)' \in {JobOf(t), NoOp}
  /\ archive'[t] \in {archive[t], Empty}
  /\ \/ staging'[t] = staging[t]
     \/ JobOf(t)' = NoOp /\ request'[t] = NoRequest /\ pc'[t] # "read"
  /\ latest' = latest \/ latest' # t

LEMMA BetweenGrows ==
  ASSUME RelayIInv, Grows, NEW t \in Transfer, NEW S \in past, Between(t, S),
         mode'[t] = mode[t], want'[t] = want[t],
         mode[t] = "archive" => \A c \in Chunk : archive'[t][c] \in {archive[t][c], Hole, source[c]},
         Prepared(t)' => \A c \in Chunk :
            \/ staging'[t][c] \in {Hole, source[c]}
            \/ Prepared(t) /\ staging'[t][c] = staging[t][c]
            \/ At(t, {"write"}) /\ JobOf(t).for.chunk = c /\ staging'[t][c] = JobOf(t).for.data,
         request'[t] \in WriteReq =>
            \/ request'[t] = request[t]
            \/ request'[t].data = source[request'[t].chunk]
            \/ mode[t] = "archive" /\ request'[t].data = archive[t][request'[t].chunk],
         At(t, {"write"})' =>
            \/ At(t, {"write"}) /\ JobOf(t)'.for = JobOf(t).for
            \/ request[t] \in WriteReq /\ JobOf(t)'.for = request[t]
  PROVE  S \in past' /\ Between(t, S)'
  <1>0. /\ \A c \in Chunk : source[c] \in Nat /\ source'[c] \in Nat /\ source[c] <= source'[c] /\ S[c] \in Nat
        /\ S \in past'
      BY RelayFacts, RelayKinds DEF Grows, SourceTypes
  <1>1. \A c \in Chunk : want'[t][c] \in 0..S[c] /\ S[c] <= source'[c]
      BY <1>0 DEF Between
  <1>2. \A c \in Chunk : S[c] <= source[c]
      BY DEF Between
  <1>3. \A c \in Chunk : NotBefore(source[c], S[c]) /\ NotBefore(Hole, S[c])
      BY <1>2 DEF NotBefore
  <1>4. mode'[t] = "archive" => \A c \in Chunk : NotBefore(archive'[t][c], S[c])
      BY <1>3 DEF Between
  <1>5. Prepared(t)' => \A c \in Chunk : NotBefore(staging'[t][c], S[c])
      BY <1>3 DEF Between
  <1>6. request'[t] \in WriteReq => NotBefore(request'[t].data, S[request'[t].chunk])
    <2>1. request'[t] \in WriteReq => request'[t].chunk \in Chunk
        BY DEF WriteReq
    <2> QED
        BY <1>3, <2>1 DEF Between
  <1>7. At(t, {"write"})' => NotBefore(JobOf(t)'.for.data, S[JobOf(t)'.for.chunk])
      BY DEF Between
  <1>8. /\ \A c \in Chunk : want'[t][c] \in 0..S[c] /\ S[c] <= source'[c]
        /\ mode'[t] = "archive" => \A c \in Chunk : NotBefore(archive'[t][c], S[c])
        /\ Prepared(t)' => \A c \in Chunk : NotBefore(staging'[t][c], S[c])
        /\ request'[t] \in WriteReq => NotBefore(request'[t].data, S[request'[t].chunk])
        /\ At(t, {"write"})' => NotBefore(JobOf(t)'.for.data, S[JobOf(t)'.for.chunk])
      BY <1>1, <1>4, <1>5, <1>6, <1>7
  <1>9. Between(t, S)'
      BY <1>8 DEF Between, NotBefore
  <1> QED
      BY <1>0, <1>9

LEMMA WithdrawKept ==
  ASSUME RelayIInv, Grows, NEW t \in Transfer, Withdraws(t)
  PROVE  TransferKept(t)'
  <1>0. TransferKept(t) /\ Shape(t) /\ Digesting(t)
      BY RelayFacts DEF TransferKept
  <1>1. \A X : At(t, X)' => At(t, X) /\ JobOf(t)' = JobOf(t)
      BY DEF At, Withdraws
  <1>2. pc'[t] \notin {"finished", "done"} \cup Dead => pc'[t] = pc[t]
      BY DEF Withdraws
  <1>3. request'[t] # NoRequest => request'[t] = request[t]
      BY DEF Withdraws
  <1>4. Prepared(t)' => Prepared(t) /\ staging'[t] = staging[t]
    <2> SUFFICES ASSUME Prepared(t)' PROVE Prepared(t) /\ staging'[t] = staging[t]
        OBVIOUS
    <2>1. CASE pc'[t] = "read"
        BY <1>2, <2>1 DEF Withdraws, Prepared, Dead
    <2>2. CASE request'[t] # NoRequest /\ request'[t].what \in {"write", "commit"}
        BY <1>3, <2>2 DEF Withdraws, Prepared
    <2>3. CASE At(t, {"write", "copy", "verify"})'
      <3>1. JobOf(t)' # NoOp
          BY <2>3 DEF At
      <3> QED
          BY <1>1, <2>3, <3>1 DEF Withdraws, Prepared
    <2> QED
        BY <2>1, <2>2, <2>3 DEF Prepared
  <1>5. Copying(t)' => Copying(t)
    <2>1. pc'[t] \in {"again", "pack", "acquire", "read"} => pc'[t] = pc[t]
        BY <1>2 DEF Dead
    <2>2. mode'[t] = mode[t]
        BY DEF Withdraws
    <2> QED
        BY <1>1, <1>3, <2>1, <2>2 DEF Copying
  <1>6. Shape(t)'
    <2>1. /\ pc'[t] = "pack" => pos'[t] < Chunks
          /\ pc'[t] \in {"digest", "again", "pack", "read", "prepare", "write", "commit"} => mode'[t] # "local"
          /\ pc'[t] = "local" => mode'[t] = "local"
        BY <1>0, <1>2 DEF Withdraws, Shape, Dead
    <2>2. request'[t] # NoRequest =>
            /\ pc'[t] \in {request'[t].what} \cup Dead
            /\ request'[t].what = "local" <=> mode'[t] = "local"
        BY <1>0, <1>3 DEF Withdraws, Shape
    <2>3. JobOf(t)' # NoOp =>
            /\ request'[t] = NoRequest
            /\ pc'[t] \in {JobOf(t)'.for.what} \cup Dead
            /\ JobOf(t)'.for.what = "local" <=> mode'[t] = "local"
            /\ JobOf(t)'.step \in StepsOf(JobOf(t)'.for.what)
        BY <1>0 DEF Withdraws, Shape
    <2> QED
        BY <2>1, <2>2, <2>3 DEF Shape, StepsOf
  <1>7. Digesting(t)'
    <2>1. \A c \in Chunk : 0..source[c] \subseteq 0..source'[c]
        BY RelayFacts, RelayKinds DEF Grows, SourceTypes
    <2>2. /\ pc'[t] = "digest" => pc[t] = "digest"
          /\ pc'[t] \in {"digest", "again"} => archive'[t] = Empty
        BY <1>0, <1>2 DEF Withdraws, Digesting, Dead
    <2>3. pos'[t] = pos[t] /\ want'[t] = want[t]
        BY DEF Withdraws
    <2>4. At(t, {"digest"})' => At(t, {"digest"}) /\ JobOf(t)' = JobOf(t)
        BY <1>1
    <2>5. pc'[t] = "digest" => \A c \in Chunk : c <= pos'[t] => want'[t][c] \in 0..source'[c]
        BY <1>0, <2>1, <2>2, <2>3 DEF Digesting
    <2>6. At(t, {"digest"})' => \A c \in Chunk : c <= JobOf(t)'.pos => want'[t][c] \in 0..source'[c]
        BY <1>0, <2>1, <2>3, <2>4 DEF Digesting
    <2> QED
        BY <2>2, <2>5, <2>6 DEF Digesting
  <1>8. Copying(t)' => \E S \in past' : Between(t, S)'
    <2> SUFFICES ASSUME Copying(t)' PROVE \E S \in past' : Between(t, S)'
        OBVIOUS
    <2>1. PICK S \in past : Between(t, S)
        BY <1>0, <1>5 DEF TransferKept
    <2>2. mode[t] = "archive" => \A c \in Chunk : archive'[t][c] \in {archive[t][c], Hole, source[c]}
        BY DEF Withdraws, Empty
    <2>3. mode'[t] = mode[t] /\ want'[t] = want[t]
        BY DEF Withdraws
    <2>4. request'[t] \in WriteReq => request'[t] = request[t]
        BY <1>3, RelayKinds
    <2>5. At(t, {"write"})' => At(t, {"write"}) /\ JobOf(t)'.for = JobOf(t).for
        BY <1>1
    <2>6. S \in past' /\ Between(t, S)'
        BY <1>4, <2>1, <2>2, <2>3, <2>4, <2>5, BetweenGrows
    <2> QED
        BY <2>6
  <1>9. At(t, {"away", "in"})' => staging'[t] \in past'
    <2>1. At(t, {"away", "in"})' => JobOf(t)' # NoOp
        BY DEF At
    <2> QED
        BY <1>0, <1>1, <2>1 DEF TransferKept, Grows, Withdraws
  <1>10. At(t, {"clean"})' \/ pc'[t] \in {"finished", "done"} => t \in installed'
    <2>1. pc'[t] \in {"finished", "done"} => pc[t] \in {"finished", "done"} \/ t \in installed
        BY DEF Withdraws, Dead
    <2> QED
        BY <1>0, <1>1, <2>1 DEF TransferKept, Grows
  <1>11. latest' = t =>
           /\ request'[t] = NoRequest
           /\ pc'[t] \in {"commit", "local", "finished", "done"} \cup Dead
           /\ JobOf(t)' # NoOp => JobOf(t)'.step \in {"in", "clean"}
      BY <1>0 DEF TransferKept, Withdraws
  <1>12. Prepared(t)' => staging'[t] \in Content
      BY <1>0, <1>4 DEF TransferKept
  <1> QED
      BY <1>6, <1>7, <1>8, <1>9, <1>10, <1>11, <1>12 DEF TransferKept, Content

\* A step of one transfer: the others stay as they are.
OnlyOf(t) ==
  /\ Grows /\ mode' = mode /\ latest' \in {latest, t}
  /\ op' = op \/ ((op = NoOp \/ op.by = t) /\ (op' = NoOp \/ op'.by = t))
  /\ \A u \in Transfer \ {t} :
       /\ pc'[u] = pc[u] /\ pos'[u] = pos[u] /\ want'[u] = want[u] /\ archive'[u] = archive[u]
       /\ request'[u] = request[u] /\ staging'[u] = staging[u]

LEMMA OneStep ==
  ASSUME RelayIInv, NEW t \in Transfer, OnlyOf(t), ClientTypes', DestTypes', CommitUndisturbed', DestKept',
         TransferKept(t)' \/ Withdraws(t)
  PROVE  RelayIInv'
  <1>1. ASSUME NEW u \in Transfer, u # t PROVE TransferKept(u)'
    <2>1. JobOf(u)' = JobOf(u)
        BY <1>1, RelayKinds DEF OnlyOf, JobOf
    <2>2. Withdraws(u)
        BY <1>1, <2>1 DEF OnlyOf, Withdraws
    <2> QED
        BY <2>2, WithdrawKept DEF OnlyOf
  <1>2. TransferKept(t)'
      BY WithdrawKept DEF OnlyOf
  <1>3. \A u \in Transfer : TransferKept(u)'
      BY <1>1, <1>2
  <1> QED
      BY <1>3 DEF RelayIInv, OnlyOf, Grows

LEMMA SourceStays == ASSUME RelayIInv, UNCHANGED <<source, changes, past, installed>> PROVE Grows
  BY RelayFacts DEF Grows, SourceTypes

LEMMA DestStays ==
  ASSUME RelayIInv, UNCHANGED <<holder, op, inDoubt, staging, dest, backup, latest, installed>>
  PROVE  DestTypes' /\ CommitUndisturbed' /\ DestKept'
  BY RelayFacts DEF DestTypes, CommitUndisturbed, DestKept

\* A transfer whose Controller is not waiting has nothing at the destination.
LEMMA NothingSent ==
  ASSUME RelayIInv, NEW t \in Transfer, pc[t] \in {"digest", "again", "pack", "acquire", "read"}
  PROVE  request[t] = NoRequest /\ JobOf(t) = NoOp /\ latest # t /\ op.by # t /\ \A X : ~At(t, X)
  <1>1. TransferKept(t) /\ Shape(t)
      BY RelayFacts DEF TransferKept
  <1>2. request[t] = NoRequest
      BY <1>1, RelayFacts, RelayKinds DEF Shape, Dead
  <1>3. JobOf(t) = NoOp
    <2>1. JobOf(t) # NoOp => JobOf(t).for.what \in {"prepare", "commit", "local", "write"}
        BY RelayFacts, RelayKinds DEF Job
    <2> QED
        BY <1>1, <2>1 DEF Shape, Dead
  <1>4. latest # t
      BY <1>1 DEF TransferKept, Dead
  <1>5. op.by # t
      BY <1>3, RelayFacts, RelayKinds DEF JobOf
  <1> QED
      BY <1>2, <1>3, <1>4, <1>5 DEF At

\* In g the transfer t has the bytes v in its chunk k, and all else is as in f.
SetsChunk(g, f, t, k, v) == g = [f EXCEPT ![t][k] = v]

LEMMA ChunkSet ==
  ASSUME NEW f \in [Transfer -> Content \cup {Missing}], NEW t \in Transfer, f[t] \in Content,
         NEW k \in Chunk, NEW v \in Version, NEW g, SetsChunk(g, f, t, k, v)
  PROVE  /\ g \in [Transfer -> Content \cup {Missing}] /\ g[t] \in Content
         /\ g[t][k] = v /\ \A c \in Chunk \ {k} : g[t][c] = f[t][c]
         /\ \A u \in Transfer \ {t} : g[u] = f[u]
         /\ f \in [Transfer -> Content] => g \in [Transfer -> Content]
  <1>1. PICK q : q = [f[t] EXCEPT ![k] = v]
      OBVIOUS
  <1>2. g = [f EXCEPT ![t] = q]
      BY <1>1 DEF SetsChunk
  <1>3. q \in Content /\ q[k] = v /\ \A c \in Chunk \ {k} : q[c] = f[t][c]
      BY <1>1 DEF Content, Version
  <1>4. g[t] = q /\ \A u \in Transfer \ {t} : g[u] = f[u]
      BY <1>2
  <1>5. g \in [Transfer -> Content \cup {Missing}] /\ (f \in [Transfer -> Content] => g \in [Transfer -> Content])
      BY <1>2, <1>3
  <1> QED
      BY <1>3, <1>4, <1>5

LEMMA VersionFacts ==
  ASSUME RelayIInv
  PROVE  /\ \A c \in Chunk : source[c] \in Version /\ source[c] \in 0..source[c]
         /\ \A t \in Transfer, c \in Chunk : archive[t][c] \in Version
  <1>1. \A c \in Chunk : source[c] \in 0..MaxChanges /\ MaxChanges \in Nat
      BY RelayFacts, RelayKinds DEF SourceTypes
  <1>2. \A c \in Chunk : source[c] \in Version /\ source[c] \in 0..source[c]
      BY <1>1 DEF Version
  <1>3. \A t \in Transfer, c \in Chunk : archive[t][c] \in Version
      BY RelayFacts DEF ClientTypes, Content, Version
  <1> QED
      BY <1>2, <1>3

-----------------------------------------------------------------------------
(* The Controller's steps.                                                 *)

LEMMA ChangeChunkKeeps == ASSUME RelayIInv, NEW c \in Chunk, ChangeChunk(c) PROVE RelayIInv' /\ source' # source
  <1>0. /\ changes < MaxChanges /\ changes' = changes + 1 /\ source' = [source EXCEPT ![c] = changes + 1]
        /\ past' = past \cup {source'}
        /\ UNCHANGED <<mode, pc, pos, want, archive, request, holder, op, inDoubt, staging, dest, backup, latest,
                       installed>>
      BY DEF ChangeChunk, client, disk
  <1>1. changes \in 0..MaxChanges /\ source \in [Chunk -> 0..MaxChanges] /\ MaxChanges \in Nat
        /\ \A d \in Chunk : source[d] <= changes /\ source[d] \in Nat
      BY RelayFacts, RelayKinds DEF SourceTypes
  <1>2. changes + 1 \in 0..MaxChanges /\ changes \in Nat
      BY <1>0, <1>1
  <1>3. /\ source' \in [Chunk -> 0..MaxChanges] /\ source'[c] = changes + 1
        /\ \A d \in Chunk \ {c} : source'[d] = source[d]
      BY <1>0, <1>1, <1>2
  <1>4. \A d \in Chunk : source'[d] <= changes + 1 /\ source[d] <= source'[d]
    <2> SUFFICES ASSUME NEW d \in Chunk PROVE source'[d] <= changes + 1 /\ source[d] <= source'[d]
        OBVIOUS
    <2>1. CASE d = c
        BY <1>1, <1>2, <1>3, <2>1
    <2>2. CASE d # c
        BY <1>1, <1>2, <1>3, <2>2
    <2> QED
        BY <2>1, <2>2
  <1>5. source'[c] # source[c]
      BY <1>1, <1>2, <1>3
  <1>6. Grows
      BY <1>0, <1>2, <1>3, <1>4, RelayFacts DEF Grows, SourceTypes
  <1>7. \A t \in Transfer : TransferKept(t)'
    <2> SUFFICES ASSUME NEW t \in Transfer PROVE Withdraws(t)
        BY <1>6, WithdrawKept
    <2> QED
        BY <1>0 DEF Withdraws, JobOf
  <1>8. ClientTypes' /\ DestTypes' /\ CommitUndisturbed' /\ DestKept'
      BY <1>0, DestStays, RelayFacts DEF ClientTypes
  <1> QED
      BY <1>5, <1>6, <1>7, <1>8 DEF RelayIInv, Grows

\* A step that only the Controller of a transfer and its request take part in.
ClientStep(t) ==
  /\ UNCHANGED <<source, changes, mode, op, inDoubt, staging, dest, backup, past, latest, installed>>
  /\ \A u \in Transfer \ {t} :
       /\ pc'[u] = pc[u] /\ pos'[u] = pos[u] /\ want'[u] = want[u] /\ archive'[u] = archive[u]
       /\ request'[u] = request[u]

LEMMA ClientStepKeeps ==
  ASSUME RelayIInv, NEW t \in Transfer, ClientStep(t), ClientTypes',
         UNCHANGED holder \/ (holder' \in {t, Nobody} /\ op = NoOp) \/ holder' = Nobody,
         TransferKept(t)' \/ Withdraws(t)
  PROVE  RelayIInv'
  <1>1. Grows
      BY SourceStays DEF ClientStep
  <1>2. OnlyOf(t)
      BY <1>1 DEF OnlyOf, ClientStep
  <1>3. DestTypes'
      BY RelayFacts DEF DestTypes, ClientStep
  <1>4. CommitUndisturbed' /\ DestKept'
      BY RelayFacts DEF CommitUndisturbed, DestKept, ClientStep
  <1> QED
      BY <1>2, <1>3, <1>4, OneStep

\* What is left to show of a transfer that has nothing at the destination.
LEMMA ClientKept ==
  ASSUME RelayIInv, NEW t \in Transfer, ClientStep(t), pc[t] \in {"digest", "again", "pack", "acquire", "read"},
         request'[t] = NoRequest, pc'[t] \in {"digest", "again", "pack", "acquire"},
         pc'[t] # "acquire" => mode[t] # "local", pc'[t] = "pack" => pos'[t] < Chunks,
         pc'[t] \in {"digest", "again"} => archive'[t] = Empty,
         pc'[t] = "digest" => \A c \in Chunk : c <= pos'[t] => want'[t][c] \in 0..source[c],
         pc'[t] # "digest" => \E S \in past :
           /\ \A c \in Chunk : want'[t][c] \in 0..S[c] /\ S[c] <= source[c]
           /\ mode[t] = "archive" => \A c \in Chunk : NotBefore(archive'[t][c], S[c])
  PROVE  TransferKept(t)'
  <1>1. JobOf(t)' = NoOp /\ JobOf(t) = NoOp /\ latest # t
      BY NothingSent DEF ClientStep, JobOf
  <1>2. (\A X : ~At(t, X)') /\ ~Prepared(t)' /\ request'[t] \notin WriteReq
      BY <1>1, RelayKinds DEF At, Prepared
  <1>3. UNCHANGED <<source, mode, past, latest>>
      BY DEF ClientStep
  <1>4. Shape(t)'
      BY <1>1, <1>3 DEF Shape
  <1>5. Digesting(t)'
      BY <1>2, <1>3 DEF Digesting
  <1>6. Copying(t)' => \E S \in past' : Between(t, S)'
    <2> SUFFICES ASSUME Copying(t)' PROVE \E S \in past' : Between(t, S)'
        OBVIOUS
    <2>1. pc'[t] # "digest"
        BY <1>2 DEF Copying
    <2>2. PICK S \in past :
           /\ \A c \in Chunk : want'[t][c] \in 0..S[c] /\ S[c] <= source[c]
           /\ mode[t] = "archive" => \A c \in Chunk : NotBefore(archive'[t][c], S[c])
        BY <2>1
    <2>3. ~At(t, {"write"})'
        BY <1>2
    <2>4. Between(t, S)'
        BY <1>2, <1>3, <2>2, <2>3 DEF Between, NotBefore
    <2> QED
        BY <1>3, <2>4
  <1>7. ~At(t, {"away", "in"})' /\ ~At(t, {"clean"})'
      BY <1>2
  <1> QED
      BY <1>1, <1>2, <1>3, <1>4, <1>5, <1>6, <1>7 DEF TransferKept

LEMMA DigestChunkKeeps == ASSUME RelayIInv, NEW t \in Transfer, DigestChunk(t) PROVE RelayIInv'
  <1>0. /\ pc[t] = "digest" /\ pos[t] < Chunks /\ want' = [want EXCEPT ![t][pos[t] + 1] = source[pos[t] + 1]]
        /\ pos' = [pos EXCEPT ![t] = pos[t] + 1]
        /\ UNCHANGED <<source, changes, mode, pc, archive, request, holder, op, inDoubt, staging, dest, backup, past,
                       latest, installed>>
      BY DEF DigestChunk, disk, relayHistory
  <1>1. ClientTypes /\ Digesting(t) /\ Shape(t) /\ request[t] = NoRequest
      BY <1>0, RelayFacts, NothingSent DEF TransferKept
  <1>2. pos[t] \in 0..Chunks /\ Chunks \in Nat /\ pos[t] \in Nat
      BY <1>1, RelayKinds DEF ClientTypes
  <1>3. PICK k : k = pos[t] + 1
      OBVIOUS
  <1>4. k \in Chunk /\ k \in 0..Chunks /\ k \in Nat
      BY <1>0, <1>2, <1>3 DEF Chunk
  <1>5. /\ want \in [Transfer -> Content \cup {Missing}] /\ want[t] \in Content /\ want \in [Transfer -> Content]
        /\ source[k] \in Version
      BY <1>1, <1>4, VersionFacts DEF ClientTypes
  <1>6. SetsChunk(want', want, t, k, source[k])
      BY <1>0, <1>3 DEF SetsChunk
  <1>7. /\ want' \in [Transfer -> Content] /\ want'[t][k] = source[k]
        /\ \A c \in Chunk \ {k} : want'[t][c] = want[t][c]
        /\ \A u \in Transfer \ {t} : want'[u] = want[u]
      BY <1>4, <1>5, <1>6, ChunkSet
  <1>8. pos' \in [Transfer -> 0..Chunks] /\ pos'[t] = k /\ \A u \in Transfer \ {t} : pos'[u] = pos[u]
      BY <1>0, <1>1, <1>3, <1>4 DEF ClientTypes
  <1>9. ClientTypes'
      BY <1>0, <1>1, <1>7, <1>8 DEF ClientTypes
  <1>10. ClientStep(t)
      BY <1>0, <1>7, <1>8 DEF ClientStep
  <1>11. \A c \in Chunk : c <= pos'[t] => want'[t][c] \in 0..source[c]
    <2> SUFFICES ASSUME NEW c \in Chunk, c <= k PROVE want'[t][c] \in 0..source[c]
        BY <1>8
    <2>1. CASE c = k
        BY <1>4, <1>7, <2>1, VersionFacts
    <2>2. CASE c # k
      <3>1. c <= pos[t]
          BY <1>2, <1>3, <2>2, RelayKinds
      <3> QED
          BY <1>0, <1>1, <1>7, <2>2, <3>1 DEF Digesting
    <2> QED
        BY <2>1, <2>2
  <1>12. archive'[t] = Empty /\ mode[t] # "local" /\ pc'[t] = "digest" /\ request'[t] = NoRequest
      BY <1>0, <1>1 DEF Digesting, Shape
  <1>13. TransferKept(t)'
      BY <1>0, <1>10, <1>11, <1>12, ClientKept
  <1> QED
      BY <1>0, <1>9, <1>10, <1>13, ClientStepKeeps

LEMMA DigestedKeeps == ASSUME RelayIInv, NEW t \in Transfer, Digested(t) PROVE RelayIInv'
  <1>0. /\ pc[t] = "digest" /\ pos[t] = Chunks
        /\ pc' = [pc EXCEPT ![t] = IF mode[t] = "archive" THEN "pack" ELSE "again"]
        /\ pos' = [pos EXCEPT ![t] = 0]
        /\ UNCHANGED <<source, changes, mode, want, archive, request, holder, op, inDoubt, staging, dest, backup, past,
                       latest, installed>>
      BY DEF Digested, disk, relayHistory
  <1>1. ClientTypes /\ Digesting(t) /\ Shape(t) /\ request[t] = NoRequest /\ Chunks \in Nat \ {0} /\ source \in past
      BY <1>0, RelayFacts, RelayKinds, NothingSent DEF TransferKept, SourceTypes
  <1>2. /\ pos' \in [Transfer -> 0..Chunks] /\ pos'[t] = 0 /\ \A u \in Transfer \ {t} : pos'[u] = pos[u]
      BY <1>0, <1>1 DEF ClientTypes
  <1>3. /\ pc' \in [Transfer -> Stage] /\ pc'[t] \in {"pack", "again"} /\ \A u \in Transfer \ {t} : pc'[u] = pc[u]
      BY <1>0, <1>1 DEF ClientTypes, Stage
  <1>4. ClientTypes' /\ ClientStep(t)
      BY <1>0, <1>1, <1>2, <1>3 DEF ClientTypes, ClientStep
  <1>5. \A c \in Chunk : want'[t][c] \in 0..source[c] /\ source[c] <= source[c] /\ NotBefore(archive'[t][c], source[c])
    <2>1. \A c \in Chunk : c <= pos[t]
        BY <1>0, <1>1 DEF Chunk
    <2>2. \A c \in Chunk : archive[t][c] = Hole
        BY <1>0, <1>1 DEF Digesting, Empty
    <2> QED
        BY <1>0, <1>1, <2>1, <2>2, RelayFacts DEF Digesting, NotBefore
  <1>6. mode[t] # "local" /\ request'[t] = NoRequest /\ pos'[t] < Chunks /\ archive'[t] = Empty
      BY <1>0, <1>1, <1>2 DEF Shape, Digesting
  <1>7. TransferKept(t)'
      BY <1>0, <1>1, <1>3, <1>4, <1>5, <1>6, ClientKept
  <1> QED
      BY <1>0, <1>4, <1>7, ClientStepKeeps

LEMMA PackChunkKeeps == ASSUME RelayIInv, NEW t \in Transfer, PackChunk(t) PROVE RelayIInv'
  <1>0. /\ pc[t] = "pack" /\ archive' = [archive EXCEPT ![t][pos[t] + 1] = source[pos[t] + 1]]
        /\ pos' = [pos EXCEPT ![t] = (pos[t] + 1) % Chunks]
        /\ pc' = [pc EXCEPT ![t] = IF pos[t] + 1 = Chunks THEN "acquire" ELSE "pack"]
        /\ UNCHANGED <<source, changes, mode, want, request, holder, op, inDoubt, staging, dest, backup, past,
                       latest, installed>>
      BY DEF PackChunk, disk, relayHistory
  <1>1. /\ ClientTypes /\ TransferKept(t) /\ Shape(t) /\ request[t] = NoRequest
        /\ Chunks \in Nat \ {0}
      BY <1>0, RelayFacts, RelayKinds, NothingSent DEF TransferKept
  <1>2. pos[t] \in Nat /\ pos[t] < Chunks
      BY <1>0, <1>1 DEF ClientTypes, Shape
  <1>3. PICK k, n : k = pos[t] + 1 /\ n = (pos[t] + 1) % Chunks
      OBVIOUS
  <1>4. k \in Chunk /\ n \in 0..(Chunks - 1) /\ n \in 0..Chunks /\ n < Chunks
    <2>1. k \in Nat /\ k \in Chunk /\ n = k % Chunks
        BY <1>1, <1>2, <1>3 DEF Chunk
    <2>2. n \in 0..(Chunks - 1)
        BY <1>1, <2>1
    <2> QED
        BY <1>1, <2>1, <2>2
  <1>5. /\ archive \in [Transfer -> Content \cup {Missing}] /\ archive[t] \in Content
        /\ archive \in [Transfer -> Content] /\ source[k] \in Version
      BY <1>1, <1>4, VersionFacts DEF ClientTypes
  <1>6. SetsChunk(archive', archive, t, k, source[k])
      BY <1>0, <1>3 DEF SetsChunk
  <1>7. /\ archive' \in [Transfer -> Content] /\ archive'[t][k] = source[k]
        /\ \A c \in Chunk \ {k} : archive'[t][c] = archive[t][c]
        /\ \A u \in Transfer \ {t} : archive'[u] = archive[u]
      BY <1>4, <1>5, <1>6, ChunkSet
  <1>8. pos' \in [Transfer -> 0..Chunks] /\ pos'[t] = n /\ \A u \in Transfer \ {t} : pos'[u] = pos[u]
      BY <1>0, <1>1, <1>3, <1>4 DEF ClientTypes
  <1>9. pc' \in [Transfer -> Stage] /\ pc'[t] \in {"acquire", "pack"} /\ \A u \in Transfer \ {t} : pc'[u] = pc[u]
      BY <1>0, <1>1 DEF ClientTypes, Stage
  <1>10. ClientTypes' /\ ClientStep(t)
      BY <1>0, <1>1, <1>7, <1>8, <1>9 DEF ClientTypes, ClientStep
  <1>11. mode[t] # "local" /\ Copying(t)
      BY <1>0, <1>1 DEF Shape, Copying
  <1>12. PICK S \in past : Between(t, S)
      BY <1>1, <1>11 DEF TransferKept
  <1>13. \A c \in Chunk : want'[t][c] \in 0..S[c] /\ S[c] <= source[c]
      BY <1>0, <1>12 DEF Between
  <1>14. mode[t] = "archive" => \A c \in Chunk : NotBefore(archive'[t][c], S[c])
      BY <1>7, <1>12 DEF Between, NotBefore
  <1>15. request'[t] = NoRequest
      BY <1>0, <1>1
  <1>16. TransferKept(t)'
      BY <1>0, <1>4, <1>8, <1>9, <1>10, <1>11, <1>13, <1>14, <1>15, ClientKept
  <1> QED
      BY <1>0, <1>10, <1>16, ClientStepKeeps

\* A transfer that has failed has nothing left to keep.
LEMMA DeadKept ==
  ASSUME NEW t \in Transfer, pc'[t] \in Dead, request'[t] = NoRequest, JobOf(t)' = NoOp
  PROVE  TransferKept(t)'
  <1>1. /\ \A X : ~At(t, X)'
        /\ pc'[t] \notin {"digest", "again", "pack", "acquire", "read", "prepare", "write", "commit", "local",
                          "finished", "done"}
      BY DEF At, Dead
  <1>2. ~Prepared(t)' /\ ~Copying(t)' /\ Shape(t)' /\ Digesting(t)'
      BY <1>1 DEF Prepared, Copying, Shape, Digesting
  <1>3. ~At(t, {"away", "in"})' /\ ~At(t, {"clean"})'
      BY <1>1
  <1> QED
      BY <1>1, <1>2, <1>3 DEF TransferKept

LEMMA StableChunkKeeps == ASSUME RelayIInv, NEW t \in Transfer, StableChunk(t) PROVE RelayIInv'
  <1>0. /\ pc[t] = "again"
        /\ UNCHANGED <<source, changes, mode, archive, request, holder, op, inDoubt, staging, dest, backup, past,
                       latest, installed>>
      BY DEF StableChunk, disk, relayHistory
  <1>1. /\ ClientTypes /\ TransferKept(t) /\ Shape(t) /\ request[t] = NoRequest
        /\ JobOf(t) = NoOp /\ Chunks \in Nat \ {0}
      BY <1>0, RelayFacts, RelayKinds, NothingSent DEF TransferKept
  <1>2. mode[t] # "local" /\ Copying(t) /\ archive'[t] = Empty /\ request'[t] = NoRequest /\ JobOf(t)' = NoOp
      BY <1>0, <1>1 DEF Shape, Copying, TransferKept, Digesting, JobOf
  <1>3. PICK S \in past : Between(t, S)
      BY <1>1, <1>2 DEF TransferKept
  <1>4. /\ \A c \in Chunk : want[t][c] \in 0..S[c] /\ S[c] <= source[c] /\ S[c] \in Nat /\ source[c] \in Nat
        /\ mode[t] = "archive" => \A c \in Chunk : NotBefore(archive'[t][c], S[c])
      BY <1>0, <1>3, RelayFacts, RelayKinds DEF Between, SourceTypes
  <1>5. pos[t] \in 0..Chunks /\ pos[t] \in Nat
      BY <1>1 DEF ClientTypes
  <1>6. CASE /\ pos[t] < Chunks /\ pos' = [pos EXCEPT ![t] = pos[t] + 1] /\ UNCHANGED <<pc, want>>
    <2>1. pos[t] + 1 \in 0..Chunks
        BY <1>1, <1>5, <1>6
    <2>2. ClientTypes' /\ ClientStep(t)
        BY <1>0, <1>1, <1>6, <2>1 DEF ClientTypes, ClientStep
    <2>3. TransferKept(t)'
        BY <1>0, <1>2, <1>4, <1>6, <2>2, ClientKept
    <2> QED
        BY <1>0, <2>2, <2>3, ClientStepKeeps
  <1>7. CASE /\ pos[t] = Chunks /\ pos' = [pos EXCEPT ![t] = 0] /\ pc' = [pc EXCEPT ![t] = "acquire"]
             /\ UNCHANGED want
    <2>1. 0 \in 0..Chunks /\ "acquire" \in Stage
        BY <1>1 DEF Stage
    <2>2. ClientTypes' /\ ClientStep(t) /\ pc'[t] = "acquire"
        BY <1>0, <1>1, <1>7, <2>1 DEF ClientTypes, ClientStep
    <2>3. TransferKept(t)'
        BY <1>0, <1>2, <1>4, <1>7, <2>2, ClientKept
    <2> QED
        BY <1>0, <2>2, <2>3, ClientStepKeeps
  <1>8. CASE /\ pos[t] < Chunks /\ want' = [want EXCEPT ![t][pos[t] + 1] = source[pos[t] + 1]]
             /\ \/ pos' = [pos EXCEPT ![t] = pos[t] + 1] /\ pc' = [pc EXCEPT ![t] = "digest"]
                \/ pos' = [pos EXCEPT ![t] = 0] /\ pc' = [pc EXCEPT ![t] = "failed"]
    <2>1. PICK k : k = pos[t] + 1
        OBVIOUS
    <2>2. k \in Chunk /\ k \in 0..Chunks /\ 0 \in 0..Chunks
        BY <1>1, <1>5, <1>8, <2>1 DEF Chunk
    <2>3. /\ want \in [Transfer -> Content \cup {Missing}] /\ want[t] \in Content /\ want \in [Transfer -> Content]
          /\ source[k] \in Version
        BY <1>1, <2>2, VersionFacts DEF ClientTypes
    <2>4. SetsChunk(want', want, t, k, source[k])
        BY <1>8, <2>1 DEF SetsChunk
    <2>5. /\ want' \in [Transfer -> Content] /\ want'[t][k] = source[k]
          /\ \A c \in Chunk \ {k} : want'[t][c] = want[t][c]
          /\ \A u \in Transfer \ {t} : want'[u] = want[u]
        BY <2>2, <2>3, <2>4, ChunkSet
    <2>6. CASE pos' = [pos EXCEPT ![t] = k] /\ pc' = [pc EXCEPT ![t] = "digest"]
      <3>1. /\ pc' \in [Transfer -> Stage] /\ pc'[t] = "digest" /\ pos' \in [Transfer -> 0..Chunks] /\ pos'[t] = k
            /\ \A u \in Transfer \ {t} : pos'[u] = pos[u] /\ pc'[u] = pc[u]
          BY <1>1, <2>2, <2>6 DEF ClientTypes, Stage
      <3>2. ClientTypes' /\ ClientStep(t)
          BY <1>0, <1>1, <2>5, <3>1 DEF ClientTypes, ClientStep
      <3>3. \A c \in Chunk : want'[t][c] \in 0..source[c]
        <4> SUFFICES ASSUME NEW c \in Chunk PROVE want'[t][c] \in 0..source[c]
            OBVIOUS
        <4>1. CASE c = k
            BY <2>5, <4>1, VersionFacts
        <4>2. CASE c # k
            BY <1>4, <2>5, <4>2
        <4> QED
            BY <4>1, <4>2
      <3>4. TransferKept(t)'
          BY <1>0, <1>2, <3>1, <3>2, <3>3, ClientKept
      <3> QED
          BY <1>0, <3>2, <3>4, ClientStepKeeps
    <2>7. CASE pos' = [pos EXCEPT ![t] = 0] /\ pc' = [pc EXCEPT ![t] = "failed"]
      <3>1. /\ pc' \in [Transfer -> Stage] /\ pc'[t] = "failed" /\ pos' \in [Transfer -> 0..Chunks]
            /\ \A u \in Transfer \ {t} : pos'[u] = pos[u] /\ pc'[u] = pc[u]
          BY <1>1, <2>2, <2>7 DEF ClientTypes, Stage, Dead
      <3>2. ClientTypes' /\ ClientStep(t)
          BY <1>0, <1>1, <2>5, <3>1 DEF ClientTypes, ClientStep
      <3>3. "failed" \in Dead
          BY DEF Dead
      <3>4. TransferKept(t)'
          BY <1>2, <3>1, <3>3, DeadKept
      <3> QED
          BY <1>0, <3>2, <3>4, ClientStepKeeps
    <2> QED
        BY <1>8, <2>1, <2>6, <2>7
  <1> QED
      BY <1>6, <1>7, <1>8 DEF StableChunk

\* A transfer with a request on its way.
LEMMA RequestKept ==
  ASSUME RelayIInv, NEW t \in Transfer, ClientStep(t), pc[t] \in {"acquire", "read"}, want'[t] = want[t],
         archive'[t] = archive[t],
         request'[t] \in PlainReq \cup WriteReq, pc'[t] = request'[t].what,
         pc'[t] = "local" <=> mode[t] = "local",
         pc'[t] \in {"write", "commit"} => pc[t] = "read",
         request'[t] \in WriteReq =>
            \/ request'[t].data = source[request'[t].chunk]
            \/ mode[t] = "archive" /\ request'[t].data = archive[t][request'[t].chunk]
  PROVE  TransferKept(t)'
  <1>0. pc'[t] \in {"prepare", "commit", "local", "write"} /\ request'[t] # NoRequest /\ TransferKept(t)
      BY RelayKinds, RelayFacts
  <1>1. JobOf(t)' = NoOp /\ JobOf(t) = NoOp /\ latest # t
      BY NothingSent DEF ClientStep, JobOf
  <1>2. (\A X : ~At(t, X)')
      BY <1>1 DEF At
  <1>3. UNCHANGED <<source, mode, past, latest, staging>>
      BY DEF ClientStep
  <1>4. Shape(t)'
      BY <1>0, <1>1, <1>3 DEF Shape
  <1>5. Digesting(t)'
      BY <1>0, <1>2 DEF Digesting
  <1>6. Prepared(t)' => Prepared(t)
      BY <1>0, <1>2 DEF Prepared
  <1>7. Copying(t)' => \E S \in past' : Between(t, S)'
    <2> SUFFICES ASSUME Copying(t)' PROVE \E S \in past' : Between(t, S)'
        OBVIOUS
    <2>1. mode[t] # "local"
        BY <1>0, <1>2, <1>3 DEF Copying
    <2>2. PICK S \in past : Between(t, S)
        BY <1>0, <2>1 DEF Copying, TransferKept
    <2>3. Grows
        BY SourceStays DEF ClientStep
    <2>4. ~At(t, {"write"})' /\ mode'[t] = mode[t]
        BY <1>2, <1>3
    <2>5. Prepared(t)' => \A c \in Chunk : Prepared(t) /\ staging'[t][c] = staging[t][c]
        BY <1>3, <1>6
    <2>6. \A c \in Chunk : archive'[t][c] = archive[t][c]
        OBVIOUS
    <2>7. S \in past' /\ Between(t, S)'
        BY <2>2, <2>3, <2>4, <2>5, <2>6, BetweenGrows
    <2> QED
        BY <2>7
  <1>8. ~At(t, {"away", "in"})' /\ ~At(t, {"clean"})'
      BY <1>2
  <1>9. Prepared(t)' => staging'[t] \in Content
      BY <1>0, <1>3, <1>6 DEF TransferKept
  <1> QED
      BY <1>0, <1>1, <1>3, <1>4, <1>5, <1>7, <1>8, <1>9 DEF TransferKept, Content

LEMMA AcquireLeaseKeeps == ASSUME RelayIInv, NEW t \in Transfer, AcquireLease(t) PROVE RelayIInv'
  <1>0. /\ pc[t] = "acquire"
        /\ UNCHANGED <<source, changes, mode, pos, want, archive, op, inDoubt, staging, dest, backup, past,
                       latest, installed>>
      BY DEF AcquireLease, disk, relayHistory
  <1>1. ClientTypes
      BY RelayFacts
  <1>2. CASE /\ op = NoOp /\ holder' = t /\ pc' = [pc EXCEPT ![t] = FirstRequest(t)]
             /\ request' = [request EXCEPT ![t] = [what |-> FirstRequest(t)]]
    <2>1. FirstRequest(t) \in {"local", "prepare"} /\ (FirstRequest(t) = "local" <=> mode[t] = "local")
        BY DEF FirstRequest
    <2>2. PICK r : r = [what |-> FirstRequest(t)]
        OBVIOUS
    <2>3. r \in PlainReq /\ r.what = FirstRequest(t) /\ FirstRequest(t) \in Stage
        BY <2>1, <2>2 DEF PlainReq, Stage, Waiting
    <2>4. /\ request' \in [Transfer -> PlainReq \cup WriteReq \cup {NoRequest}] /\ request'[t] = r
          /\ \A u \in Transfer \ {t} : request'[u] = request[u]
        BY <1>1, <1>2, <2>2, <2>3 DEF ClientTypes
    <2>5. /\ pc' \in [Transfer -> Stage] /\ pc'[t] = FirstRequest(t)
          /\ \A u \in Transfer \ {t} : pc'[u] = pc[u]
        BY <1>1, <1>2, <2>3 DEF ClientTypes
    <2>6. ClientTypes' /\ ClientStep(t)
        BY <1>0, <1>1, <2>4, <2>5 DEF ClientTypes, ClientStep
    <2>7. r \notin WriteReq /\ pc'[t] \notin {"write", "commit"}
        BY <2>1, <2>3, <2>5, RelayKinds
    <2>8. TransferKept(t)'
        BY <1>0, <2>1, <2>3, <2>4, <2>5, <2>6, <2>7, RequestKept
    <2> QED
        BY <1>2, <2>6, <2>8, ClientStepKeeps
  <1>3. CASE pc' = [pc EXCEPT ![t] = "failed"] /\ UNCHANGED <<holder, request>>
    <2>1. "failed" \in Stage /\ "failed" \in Dead
        BY DEF Stage, Dead
    <2>2. pc' \in [Transfer -> Stage] /\ pc'[t] = "failed" /\ \A u \in Transfer \ {t} : pc'[u] = pc[u]
        BY <1>1, <1>3, <2>1 DEF ClientTypes
    <2>3. ClientTypes' /\ ClientStep(t)
        BY <1>0, <1>1, <1>3, <2>2 DEF ClientTypes, ClientStep
    <2>4. Withdraws(t)
        BY <1>0, <1>3, <2>1, <2>2 DEF Withdraws, JobOf
    <2> QED
        BY <1>3, <2>3, <2>4, ClientStepKeeps
  <1> QED
      BY <1>2, <1>3 DEF AcquireLease

LEMMA SendChunkKeeps == ASSUME RelayIInv, NEW t \in Transfer, SendChunk(t) PROVE RelayIInv'
  <1>0. /\ pc[t] = "read"
        /\ UNCHANGED <<source, changes, mode, want, archive, holder, op, inDoubt, staging, dest, backup, past,
                       latest, installed>>
      BY DEF SendChunk, disk, relayHistory
  <1>1. ClientTypes /\ TransferKept(t) /\ mode[t] # "local" /\ Chunks \in Nat \ {0}
      BY <1>0, RelayFacts, RelayKinds DEF TransferKept, Shape
  <1>2. ASSUME NEW r \in PlainReq \cup WriteReq, r.what \in {"write", "commit"},
               request' = [request EXCEPT ![t] = r], pc' = [pc EXCEPT ![t] = r.what],
               pos' \in [Transfer -> 0..Chunks], \A u \in Transfer \ {t} : pos'[u] = pos[u],
               r \in WriteReq =>
                 \/ r.data = source[r.chunk]
                 \/ mode[t] = "archive" /\ r.data = archive[t][r.chunk]
        PROVE  RelayIInv'
    <2>1. r.what \in Stage
        BY <1>2 DEF Stage, Waiting
    <2>2. /\ request' \in [Transfer -> PlainReq \cup WriteReq \cup {NoRequest}] /\ request'[t] = r
          /\ \A u \in Transfer \ {t} : request'[u] = request[u]
        BY <1>1, <1>2 DEF ClientTypes
    <2>3. pc' \in [Transfer -> Stage] /\ pc'[t] = r.what /\ \A u \in Transfer \ {t} : pc'[u] = pc[u]
        BY <1>1, <1>2, <2>1 DEF ClientTypes
    <2>4. ClientTypes' /\ ClientStep(t)
        BY <1>0, <1>1, <1>2, <2>2, <2>3 DEF ClientTypes, ClientStep
    <2>5. TransferKept(t)'
        BY <1>0, <1>1, <1>2, <2>2, <2>3, <2>4, RequestKept
    <2> QED
        BY <1>0, <2>4, <2>5, ClientStepKeeps
  <1>3. CASE /\ pos[t] < Chunks /\ pc' = [pc EXCEPT ![t] = "write"] /\ pos' = [pos EXCEPT ![t] = pos[t] + 1]
             /\ request' = [request EXCEPT ![t] =
                  [what |-> "write", chunk |-> pos[t] + 1,
                   data |-> IF mode[t] = "archive" THEN ArchiveChunk(t) ELSE FileChunk(t)]]
    <2>1. PICK k, d : k = pos[t] + 1 /\ d = IF mode[t] = "archive" THEN archive[t][k] ELSE source[k]
        OBVIOUS
    <2>2. pos[t] \in 0..Chunks
        BY <1>1 DEF ClientTypes
    <2>3. k \in Chunk /\ k \in 0..Chunks
        BY <1>1, <1>3, <2>1, <2>2 DEF Chunk
    <2>4. d \in Version
        BY <2>1, <2>3, VersionFacts
    <2>5. PICK r : r = [what |-> "write", chunk |-> k, data |-> d]
        OBVIOUS
    <2>6. request' = [request EXCEPT ![t] = r]
        BY <1>3, <2>1, <2>5 DEF ArchiveChunk, FileChunk
    <2>7. r \in WriteReq /\ r.what = "write" /\ r.chunk = k /\ r.data = d
        BY <2>3, <2>4, <2>5 DEF WriteReq
    <2>8. pos' \in [Transfer -> 0..Chunks] /\ \A u \in Transfer \ {t} : pos'[u] = pos[u]
        BY <1>1, <1>3, <2>1, <2>3 DEF ClientTypes
    <2> QED
        BY <1>2, <1>3, <2>1, <2>6, <2>7, <2>8
  <1>4. CASE /\ request' = [request EXCEPT ![t] = [what |-> "commit"]] /\ pc' = [pc EXCEPT ![t] = "commit"]
             /\ UNCHANGED pos
    <2>1. PICK r : r = [what |-> "commit"]
        OBVIOUS
    <2>2. r \in PlainReq /\ r.what = "commit"
        BY <2>1 DEF PlainReq
    <2>3. r \notin WriteReq
        BY <2>2, RelayKinds
    <2>4. pos' \in [Transfer -> 0..Chunks] /\ \A u \in Transfer \ {t} : pos'[u] = pos[u]
        BY <1>1, <1>4 DEF ClientTypes
    <2> QED
        BY <1>2, <1>4, <2>1, <2>2, <2>3, <2>4
  <1> QED
      BY <1>3, <1>4 DEF SendChunk

LEMMA GiveUpKeeps == ASSUME RelayIInv, NEW t \in Transfer, GiveUp(t) PROVE RelayIInv'
  <1>1. PICK next \in {Failing(t), "gone"} : pc' = [pc EXCEPT ![t] = next]
      BY DEF GiveUp
  <1>2. UNCHANGED <<source, changes, mode, pos, want, archive, request, holder, op, inDoubt, staging, dest, backup,
                    past, latest, installed>>
      BY DEF GiveUp, disk, relayHistory
  <1>3. next \in Dead /\ next \in Stage /\ ClientTypes
      BY RelayFacts DEF Failing, Dead, Stage
  <1>4. pc' \in [Transfer -> Stage] /\ pc'[t] = next /\ \A u \in Transfer \ {t} : pc'[u] = pc[u]
      BY <1>1, <1>3 DEF ClientTypes
  <1>5. ClientTypes' /\ ClientStep(t)
      BY <1>2, <1>3, <1>4 DEF ClientTypes, ClientStep
  <1>6. Withdraws(t)
      BY <1>2, <1>3, <1>4 DEF Withdraws, JobOf
  <1> QED
      BY <1>2, <1>5, <1>6, ClientStepKeeps

LEMMA ReleaseLeaseKeeps == ASSUME RelayIInv, NEW t \in Transfer, ReleaseLease(t) PROVE RelayIInv'
  <1>0. /\ pc[t] \in {"release", "finished"} /\ archive' = [archive EXCEPT ![t] = Empty]
        /\ pc' = [pc EXCEPT ![t] = IF pc[t] = "finished" THEN "done" ELSE "failed"]
        /\ holder' = holder \/ (holder' = Nobody /\ op = NoOp)
        /\ UNCHANGED <<source, changes, mode, pos, want, request, op, inDoubt, staging, dest, backup,
                       past, latest, installed>>
      BY DEF ReleaseLease, disk, relayHistory
  <1>1. ClientTypes /\ TransferKept(t) /\ Shape(t)
      BY RelayFacts DEF TransferKept
  <1>2. PICK next : next = IF pc[t] = "finished" THEN "done" ELSE "failed"
      OBVIOUS
  <1>3. next \in Stage
      BY <1>2 DEF Stage, Dead
  <1>4. pc' \in [Transfer -> Stage] /\ pc'[t] = next /\ \A u \in Transfer \ {t} : pc'[u] = pc[u]
      BY <1>0, <1>1, <1>2, <1>3 DEF ClientTypes
  <1>5. archive' \in [Transfer -> Content] /\ archive'[t] = Empty /\ \A u \in Transfer \ {t} : archive'[u] = archive[u]
      BY <1>0, <1>1, RelayKinds DEF ClientTypes
  <1>6. ClientTypes' /\ ClientStep(t)
      BY <1>0, <1>1, <1>4, <1>5 DEF ClientTypes, ClientStep
  <1>7. JobOf(t)' = JobOf(t)
      BY <1>0 DEF JobOf
  <1>8. pc[t] = "finished" => request[t] = NoRequest /\ JobOf(t) = NoOp /\ t \in installed
    <2>1. JobOf(t) # NoOp => JobOf(t).for.what \in {"prepare", "commit", "local", "write"}
        BY RelayFacts, RelayKinds DEF Job
    <2>2. request[t] # NoRequest => request[t].what \in {"prepare", "commit", "local", "write"}
        BY RelayFacts, RelayKinds
    <2> QED
        BY <1>1, <2>1, <2>2 DEF Shape, Dead, TransferKept
  <1>9. pc'[t] \in Dead \/ (pc'[t] \in {"finished", "done"} /\ t \in installed /\ JobOf(t)' = NoOp /\ request'[t] = NoRequest)
      BY <1>0, <1>2, <1>4, <1>7, <1>8 DEF Dead
  <1>10. Withdraws(t)
      BY <1>0, <1>5, <1>7, <1>9 DEF Withdraws
  <1> QED
      BY <1>0, <1>6, <1>10, ClientStepKeeps

\* Steps that leave every transfer alone.
LEMMA OthersKeep == ASSUME RelayIInv, ExpireLease \/ RecoverDestination \/ UNCHANGED relayVars PROVE RelayIInv'
  <1>0. /\ holder' \in {holder, Nobody} /\ inDoubt' \in {inDoubt, FALSE}
        /\ UNCHANGED <<source, changes, mode, pc, pos, want, archive, request, op, staging, dest, backup,
                       past, latest, installed>>
      BY DEF ExpireLease, RecoverDestination, relayVars, client, disk, relayHistory
  <1>1. Grows
      BY <1>0, SourceStays
  <1>2. ASSUME NEW t \in Transfer PROVE TransferKept(t)'
    <2>1. Withdraws(t)
        BY <1>0 DEF Withdraws, JobOf
    <2> QED
        BY <1>1, <2>1, WithdrawKept
  <1>3. ClientTypes' /\ DestTypes' /\ CommitUndisturbed' /\ DestKept'
      BY <1>0, RelayFacts DEF ClientTypes, DestTypes, CommitUndisturbed, DestKept
  <1> QED
      BY <1>1, <1>2, <1>3 DEF RelayIInv, Grows

LEMMA RefuseKeeps == ASSUME RelayIInv, NEW t \in Transfer, Refuse(t) PROVE RelayIInv'
  <1>0. /\ request' = [request EXCEPT ![t] = NoRequest]
        /\ pc' = [pc EXCEPT ![t] = IF pc[t] \in Waiting THEN "release" ELSE pc[t]]
        /\ UNCHANGED <<source, changes, mode, pos, want, archive, holder, op, inDoubt, staging, dest, backup,
                       past, latest, installed>>
      BY DEF Refuse, disk, relayHistory
  <1>1. ClientTypes
      BY RelayFacts
  <1>2. PICK next : next = IF pc[t] \in Waiting THEN "release" ELSE pc[t]
      OBVIOUS
  <1>3. next \in Stage /\ (next \in Dead \/ next = pc[t])
      BY <1>1, <1>2 DEF Stage, Dead, ClientTypes
  <1>4. pc' \in [Transfer -> Stage] /\ pc'[t] = next /\ \A u \in Transfer \ {t} : pc'[u] = pc[u]
      BY <1>0, <1>1, <1>2, <1>3 DEF ClientTypes
  <1>5. /\ request' \in [Transfer -> PlainReq \cup WriteReq \cup {NoRequest}] /\ request'[t] = NoRequest
        /\ \A u \in Transfer \ {t} : request'[u] = request[u]
      BY <1>0, <1>1 DEF ClientTypes
  <1>6. ClientTypes' /\ ClientStep(t)
      BY <1>0, <1>1, <1>4, <1>5 DEF ClientTypes, ClientStep
  <1>7. Withdraws(t)
      BY <1>0, <1>3, <1>4, <1>5 DEF Withdraws, JobOf
  <1> QED
      BY <1>0, <1>6, <1>7, ClientStepKeeps

LEMMA CrashExecutorKeeps == ASSUME RelayIInv, CrashExecutor PROVE RelayIInv'
  <1>0. /\ op' = NoOp /\ inDoubt' = (inDoubt \/ op # NoOp) /\ request' = [t \in Transfer |-> NoRequest]
        /\ pc' = [t \in Transfer |-> IF pc[t] \in Waiting THEN "release" ELSE pc[t]]
        /\ UNCHANGED <<source, changes, mode, pos, want, archive, holder, staging, dest, backup, past, latest,
                       installed>>
      BY DEF CrashExecutor, disk, relayHistory
  <1>1. Grows /\ ClientTypes /\ DestTypes /\ DestKept
      BY <1>0, SourceStays, RelayFacts
  <1>2. ASSUME NEW t \in Transfer PROVE TransferKept(t)'
    <2>1. JobOf(t)' = NoOp /\ request'[t] = NoRequest /\ pc'[t] \in {pc[t], "release"}
        BY <1>0 DEF JobOf
    <2>2. Withdraws(t)
        BY <1>0, <2>1 DEF Withdraws, Dead
    <2> QED
        BY <1>1, <2>2, WithdrawKept
  <1>3. pc' \in [Transfer -> Stage]
      BY <1>0, <1>1 DEF ClientTypes, Stage, Dead
  <1>4. ClientTypes' /\ DestTypes' /\ CommitUndisturbed' /\ DestKept'
    <2>1. ClientTypes'
        BY <1>0, <1>1, <1>3 DEF ClientTypes
    <2>2. inDoubt' \in BOOLEAN
        BY <1>0
    <2>3. DestTypes' /\ CommitUndisturbed' /\ DestKept'
        BY <1>0, <1>1, <2>2 DEF DestTypes, CommitUndisturbed, DestKept
    <2> QED
        BY <2>1, <2>3
  <1> QED
      BY <1>1, <1>2, <1>4 DEF RelayIInv, Grows

-----------------------------------------------------------------------------
(* The steps of the destination's Executor.                                *)

LEMMA BeginOperationKeeps == ASSUME RelayIInv, NEW t \in Transfer, BeginOperation(t) PROVE RelayIInv'
  <1>0. /\ request[t] # NoRequest /\ op = NoOp /\ holder = t
        /\ request' = [request EXCEPT ![t] = NoRequest]
        /\ UNCHANGED <<source, changes, mode, pc, pos, want, archive, holder, inDoubt, staging, dest, backup,
                       past, latest, installed>>
      BY DEF BeginOperation, MayBegin, client, disk, relayHistory
  <1>1. PICK step :
          /\ op' = [by |-> t, pos |-> 0, for |-> request[t], step |-> step]
          /\ step = CASE request[t].what = "commit" -> "verify"
                      [] request[t].what = "local" -> "digest"
                      [] OTHER -> request[t].what
      BY DEF BeginOperation
  <1>2. /\ ClientTypes /\ TransferKept(t) /\ Shape(t) /\ request[t] \in PlainReq \cup WriteReq
        /\ request[t].what \in {"prepare", "commit", "local", "write"} /\ Chunks \in Nat \ {0}
      BY <1>0, RelayFacts, RelayKinds DEF TransferKept
  <1>3. /\ request[t].what = "prepare" => step = "prepare"
        /\ request[t].what = "commit" => step = "verify"
        /\ request[t].what = "local" => step = "digest"
        /\ request[t].what = "write" => step = "write"
      BY <1>1
  <1>4. step \in JobStep /\ step \in StepsOf(request[t].what)
      BY <1>2, <1>3 DEF JobStep, StepsOf
  <1>5. 0 \in 0..(Chunks - 1)
      BY <1>2
  <1>6. op' \in Job /\ op'.by = t /\ op'.pos = 0 /\ op'.for = request[t] /\ op'.step = step
      BY <1>1, <1>2, <1>4, <1>5 DEF Job
  <1>7. JobOf(t)' = op' /\ op' # NoOp
      BY <1>6, RelayKinds DEF JobOf
  <1>8. /\ request' \in [Transfer -> PlainReq \cup WriteReq \cup {NoRequest}] /\ request'[t] = NoRequest
        /\ \A u \in Transfer \ {t} : request'[u] = request[u]
      BY <1>0, <1>2 DEF ClientTypes
  <1>9. ClientTypes'
      BY <1>0, <1>2, <1>8 DEF ClientTypes
  <1>10. Grows /\ OnlyOf(t)
      BY <1>0, <1>6, <1>8, SourceStays DEF OnlyOf
  <1>11. DestTypes'
      BY <1>0, <1>6, RelayFacts DEF DestTypes
  <1>12. CommitUndisturbed' /\ DestKept'
    <2>1. step \notin {"in", "clean"}
        BY <1>2, <1>3
    <2> QED
        BY <1>0, <1>6, <2>1, RelayFacts DEF CommitUndisturbed, DestKept
  <1>13. latest # t
      BY <1>0, <1>2 DEF TransferKept
  <1>14. pc[t] \in {request[t].what} \cup Dead /\ (request[t].what = "local" <=> mode[t] = "local")
      BY <1>0, <1>2 DEF Shape
  <1>15. pc[t] \notin {"digest", "again", "pack", "acquire", "read", "finished", "done"}
      BY <1>2, <1>14 DEF Dead
  <1>16. Shape(t)'
    <2>1. /\ pc'[t] = "pack" => pos'[t] < Chunks
          /\ pc'[t] \in {"digest", "again", "pack", "read", "prepare", "write", "commit"} => mode'[t] # "local"
          /\ pc'[t] = "local" => mode'[t] = "local"
        BY <1>0, <1>2 DEF Shape
    <2>2. /\ request'[t] = NoRequest
          /\ pc'[t] \in {JobOf(t)'.for.what} \cup Dead
          /\ JobOf(t)'.for.what = "local" <=> mode'[t] = "local"
          /\ JobOf(t)'.step \in StepsOf(JobOf(t)'.for.what)
        BY <1>0, <1>4, <1>6, <1>7, <1>8, <1>14
    <2> QED
        BY <2>1, <2>2 DEF Shape, StepsOf
  <1>17. Digesting(t)'
    <2>1. \A c \in Chunk : ~(c <= 0)
        BY DEF Chunk
    <2> QED
        BY <1>0, <1>6, <1>7, <1>15, <2>1 DEF Digesting
  <1>18. /\ At(t, {"write", "copy", "verify"})' => request[t].what \in {"write", "commit"}
         /\ At(t, {"write"})' => request[t].what = "write"
         /\ At(t, {"prepare", "write", "copy", "verify"})' => request[t].what # "local"
         /\ ~At(t, {"away", "in"})' /\ ~At(t, {"clean"})'
      BY <1>2, <1>3, <1>6, <1>7 DEF At
  <1>19. Prepared(t)' => Prepared(t)
      BY <1>0, <1>8, <1>15, <1>18 DEF Prepared
  <1>20. Copying(t)' => Copying(t)
      BY <1>0, <1>8, <1>14, <1>15, <1>18 DEF Copying
  <1>21. Copying(t)' => \E S \in past' : Between(t, S)'
    <2> SUFFICES ASSUME Copying(t)' PROVE \E S \in past' : Between(t, S)'
        OBVIOUS
    <2>1. PICK S \in past : Between(t, S)
        BY <1>2, <1>20 DEF TransferKept
    <2>2. request'[t] \notin WriteReq /\ mode'[t] = mode[t] /\ want'[t] = want[t]
          /\ \A c \in Chunk : archive'[t][c] = archive[t][c]
        BY <1>0, <1>8, RelayKinds
    <2>3. Prepared(t)' => \A c \in Chunk : Prepared(t) /\ staging'[t][c] = staging[t][c]
        BY <1>0, <1>19
    <2>4. At(t, {"write"})' => request[t] \in WriteReq /\ JobOf(t)'.for = request[t]
        BY <1>2, <1>6, <1>7, <1>18, RelayKinds
    <2>5. S \in past' /\ Between(t, S)'
        BY <1>10, <2>1, <2>2, <2>3, <2>4, BetweenGrows
    <2> QED
        BY <2>5
  <1>22. Prepared(t)' => staging'[t] \in Content
      BY <1>0, <1>2, <1>19 DEF TransferKept
  <1>23. TransferKept(t)'
      BY <1>0, <1>13, <1>15, <1>16, <1>17, <1>18, <1>21, <1>22 DEF TransferKept, Content
  <1> QED
      BY <1>9, <1>10, <1>11, <1>12, <1>23, OneStep

\* The transfer whose operation runs.
LEMMA JobFacts ==
  ASSUME RelayIInv, op # NoOp
  PROVE  \E t \in Transfer :
         /\ t = op.by /\ op \in Job /\ JobOf(t) = op /\ TransferKept(t) /\ Shape(t)
         /\ request[t] = NoRequest /\ pc[t] \in {op.for.what} \cup Dead
         /\ op.for.what = "local" <=> mode[t] = "local"
         /\ op.step \in StepsOf(op.for.what) /\ op.for \in PlainReq \cup WriteReq /\ op.pos \in 0..(Chunks - 1)
         /\ op.for.what \in {"prepare", "commit", "local", "write"}
         /\ \A X : op.step \in X => At(t, X)
         /\ op.step \notin {"in", "clean"} => latest # t
         /\ pc[t] \notin {"digest", "again", "pack", "acquire", "read", "finished", "done"}
  <1>0. PICK t \in Transfer : t = op.by
      BY RelayFacts
  <1>1. op \in Job /\ JobOf(t) = op /\ TransferKept(t) /\ Shape(t)
      BY <1>0, RelayFacts DEF TransferKept
  <1>2. op.for \in PlainReq \cup WriteReq /\ op.pos \in 0..(Chunks - 1)
      BY <1>1 DEF Job
  <1>3. op.for.what \in {"prepare", "commit", "local", "write"}
      BY <1>2, RelayKinds
  <1>4. /\ request[t] = NoRequest /\ pc[t] \in {op.for.what} \cup Dead
        /\ op.for.what = "local" <=> mode[t] = "local"
        /\ op.step \in StepsOf(op.for.what)
      BY <1>1 DEF Shape
  <1>5. \A X : op.step \in X => At(t, X)
      BY <1>1 DEF At
  <1>6. op.step \notin {"in", "clean"} => latest # t
      BY <1>1 DEF TransferKept
  <1>7. pc[t] \notin {"digest", "again", "pack", "acquire", "read", "finished", "done"}
      BY <1>3, <1>4 DEF Dead
  <1> QED
      BY <1>0, <1>1, <1>2, <1>3, <1>4, <1>5, <1>6, <1>7

LEMMA AnswerDoes ==
  ASSUME RelayIInv, op # NoOp, NEW t \in Transfer, t = op.by, NEW next \in Stage, Answer(t, next)
  PROVE  /\ op' = NoOp /\ JobOf(t)' = NoOp
         /\ pc' \in [Transfer -> Stage] /\ \A u \in Transfer \ {t} : pc'[u] = pc[u]
         /\ \/ pc'[t] = next /\ pc[t] = op.for.what
            \/ pc'[t] = pc[t] /\ pc[t] \in Dead
  <1>1. op' = NoOp /\ pc' = [pc EXCEPT ![t] = IF pc[t] \in Waiting THEN next ELSE pc[t]]
      BY DEF Answer
  <1>2. pc \in [Transfer -> Stage]
      BY RelayFacts DEF ClientTypes
  <1>3. pc' \in [Transfer -> Stage] /\ \A u \in Transfer \ {t} : pc'[u] = pc[u]
      BY <1>1, <1>2
  <1>4. pc'[t] = IF pc[t] \in Waiting THEN next ELSE pc[t]
      BY <1>1, <1>2
  <1>5. \/ pc[t] \in Waiting /\ pc[t] = op.for.what
        \/ pc[t] \notin Waiting /\ pc[t] \in Dead
      BY JobFacts DEF Waiting, Dead
  <1> QED
      BY <1>1, <1>3, <1>4, <1>5 DEF JobOf

\* A step of the running operation.
JobStepOf(t) ==
  /\ UNCHANGED <<source, changes, mode, pos, archive, request, holder, inDoubt, past>>
  /\ installed \subseteq installed' /\ installed' \subseteq Transfer /\ latest' \in {latest, t}
  /\ op' = NoOp \/ (op' \in Job /\ op'.by = t)
  /\ pc' \in [Transfer -> Stage] /\ want' \in [Transfer -> Content]
  /\ staging' \in [Transfer -> Content \cup {Missing}] /\ backup' \in [Transfer -> Content \cup {Missing}]
  /\ dest' \in Content \cup {Missing}
  /\ \A u \in Transfer \ {t} : pc'[u] = pc[u] /\ want'[u] = want[u] /\ staging'[u] = staging[u]

LEMMA JobStepKeeps ==
  ASSUME RelayIInv, op # NoOp, NEW t \in Transfer, t = op.by, JobStepOf(t), DestKept',
         TransferKept(t)' \/ Withdraws(t)
  PROVE  RelayIInv'
  <1>1. Grows
      BY RelayFacts DEF Grows, SourceTypes, JobStepOf
  <1>2. OnlyOf(t)
      BY <1>1 DEF OnlyOf, JobStepOf
  <1>3. ClientTypes'
      BY RelayFacts DEF ClientTypes, JobStepOf
  <1>4. DestTypes'
      BY RelayFacts DEF DestTypes, JobStepOf
  <1>5. CommitUndisturbed'
      BY RelayFacts DEF CommitUndisturbed, JobStepOf
  <1> QED
      BY <1>2, <1>3, <1>4, <1>5, OneStep

LEMMA DestUntouched ==
  ASSUME RelayIInv, UNCHANGED <<dest, backup, latest>>, op' = NoOp \/ op'.step \notin {"in", "clean"}
  PROVE  DestKept'
  BY RelayFacts DEF DestKept

\* The Controller goes on to read the next chunk.
LEMMA ReadKept ==
  ASSUME RelayIInv, op # NoOp, NEW t \in Transfer, t = op.by, JobStepOf(t), op.step \in {"prepare", "write"},
         Answer(t, "read"), want' = want, latest' = latest, staging'[t] \in Content,
         \A c \in Chunk :
            \/ staging'[t][c] = Hole
            \/ op.step = "write" /\ staging'[t][c] = staging[t][c]
            \/ op.step = "write" /\ op.for.chunk = c /\ staging'[t][c] = op.for.data
  PROVE  TransferKept(t)'
  <1>0. /\ JobOf(t) = op /\ TransferKept(t) /\ request[t] = NoRequest /\ latest # t /\ Shape(t)
        /\ op.step \in StepsOf(op.for.what) /\ op.for.what \in {"prepare", "commit", "local", "write"}
        /\ op.for.what = "local" <=> mode[t] = "local"
        /\ \A X : op.step \in X => At(t, X)
      BY JobFacts
  <1>1. "read" \in Stage
      BY DEF Stage
  <1>2. /\ op' = NoOp /\ JobOf(t)' = NoOp
        /\ \/ pc'[t] = "read" /\ pc[t] = op.for.what
           \/ pc'[t] = pc[t] /\ pc[t] \in Dead
      BY <1>1, AnswerDoes
  <1>3. UNCHANGED <<source, mode, pos, archive, request, past>>
      BY DEF JobStepOf
  <1>4. CASE pc'[t] \in Dead
    <2>1. request'[t] = NoRequest
        BY <1>0, <1>3
    <2> QED
        BY <1>2, <1>4, <2>1, DeadKept
  <1>5. CASE pc'[t] = "read"
    <2>1. \A X : ~At(t, X)'
        BY <1>2 DEF At
    <2>2. mode[t] # "local"
        BY <1>0 DEF StepsOf
    <2>3. Shape(t)'
        BY <1>0, <1>2, <1>3, <1>5, <2>2 DEF Shape
    <2>4. Digesting(t)'
        BY <1>5, <2>1 DEF Digesting
    <2>5. At(t, {"prepare", "write", "copy", "verify"}) /\ (op.step = "write" => Prepared(t) /\ At(t, {"write"}))
        BY <1>0 DEF Prepared
    <2>6. PICK S \in past : Between(t, S)
        BY <1>0, <2>5 DEF Copying, TransferKept
    <2>7. Grows
        BY RelayFacts DEF Grows, SourceTypes, JobStepOf
    <2>8. /\ \A c \in Chunk :
               \/ staging'[t][c] \in {Hole, source[c]}
               \/ Prepared(t) /\ staging'[t][c] = staging[t][c]
               \/ At(t, {"write"}) /\ JobOf(t).for.chunk = c /\ staging'[t][c] = JobOf(t).for.data
        BY <1>0, <2>5
    <2>9. /\ ~At(t, {"write"})' /\ request'[t] \notin WriteReq /\ mode'[t] = mode[t] /\ want'[t] = want[t]
          /\ \A c \in Chunk : archive'[t][c] = archive[t][c]
        BY <1>0, <1>3, <2>1, RelayKinds
    <2>10. S \in past' /\ Between(t, S)'
        BY <2>6, <2>7, <2>8, <2>9, BetweenGrows
    <2>11. ~At(t, {"away", "in"})' /\ ~At(t, {"clean"})'
        BY <2>1
    <2> QED
        BY <1>0, <1>5, <2>3, <2>4, <2>10, <2>11 DEF TransferKept, Content
  <1> QED
      BY <1>2, <1>4, <1>5

LEMMA PrepareKeeps == ASSUME RelayIInv, Prepare PROVE RelayIInv'
  <1>0. /\ op # NoOp /\ op.step = "prepare" /\ staging' = [staging EXCEPT ![op.by] = Empty] /\ Answer(op.by, "read")
        /\ UNCHANGED <<source, changes, mode, pos, want, archive, request, holder, inDoubt, dest, backup,
                       past, latest, installed>>
      BY DEF Prepare, relayHistory
  <1>1. PICK t \in Transfer : t = op.by
      BY <1>0, RelayFacts
  <1>2. ClientTypes /\ DestTypes /\ "read" \in Stage
      BY RelayFacts DEF Stage
  <1>3. /\ staging' \in [Transfer -> Content \cup {Missing}] /\ staging'[t] = Empty
        /\ \A u \in Transfer \ {t} : staging'[u] = staging[u]
      BY <1>0, <1>1, <1>2, RelayKinds DEF DestTypes
  <1>4. op' = NoOp /\ pc' \in [Transfer -> Stage] /\ \A u \in Transfer \ {t} : pc'[u] = pc[u]
      BY <1>0, <1>1, <1>2, AnswerDoes
  <1>5. JobStepOf(t)
      BY <1>0, <1>2, <1>3, <1>4 DEF JobStepOf, ClientTypes, DestTypes
  <1>6. \A c \in Chunk : staging'[t][c] = Hole
      BY <1>3 DEF Empty
  <1>7. TransferKept(t)'
      BY <1>0, <1>1, <1>3, <1>5, <1>6, RelayKinds, ReadKept
  <1>8. DestKept'
      BY <1>0, <1>4, DestUntouched
  <1> QED
      BY <1>0, <1>1, <1>5, <1>7, <1>8, JobStepKeeps

LEMMA WriteChunkKeeps == ASSUME RelayIInv, WriteChunk PROVE RelayIInv'
  <1>0. /\ op # NoOp /\ op.step = "write" /\ staging' = Staged(op.by, op.for.chunk, op.for.data)
        /\ Answer(op.by, "read")
        /\ UNCHANGED <<source, changes, mode, pos, want, archive, request, holder, inDoubt, dest, backup,
                       past, latest, installed>>
      BY DEF WriteChunk, relayHistory
  <1>1. PICK t \in Transfer : /\ t = op.by /\ TransferKept(t) /\ op.step \in StepsOf(op.for.what)
                              /\ op.for \in PlainReq \cup WriteReq /\ \A X : op.step \in X => At(t, X)
                              /\ op.for.what \in {"prepare", "commit", "local", "write"}
      BY <1>0, JobFacts
  <1>2. ClientTypes /\ DestTypes /\ "read" \in Stage
      BY RelayFacts DEF Stage
  <1>3. op.for \in WriteReq /\ op.for.chunk \in Chunk /\ op.for.data \in Version
    <2>1. op.for.what = "write"
        BY <1>0, <1>1 DEF StepsOf
    <2> QED
        BY <1>1, <2>1, RelayKinds DEF WriteReq
  <1>4. staging \in [Transfer -> Content \cup {Missing}] /\ staging[t] \in Content
    <2>1. Prepared(t)
        BY <1>0, <1>1 DEF Prepared
    <2> QED
        BY <1>1, <1>2, <2>1 DEF TransferKept, DestTypes
  <1>5. SetsChunk(staging', staging, t, op.for.chunk, op.for.data)
      BY <1>0, <1>1 DEF SetsChunk, Staged
  <1>6. /\ staging' \in [Transfer -> Content \cup {Missing}] /\ staging'[t] \in Content
        /\ staging'[t][op.for.chunk] = op.for.data
        /\ \A c \in Chunk \ {op.for.chunk} : staging'[t][c] = staging[t][c]
        /\ \A u \in Transfer \ {t} : staging'[u] = staging[u]
      BY <1>3, <1>4, <1>5, ChunkSet
  <1>7. op' = NoOp /\ pc' \in [Transfer -> Stage] /\ \A u \in Transfer \ {t} : pc'[u] = pc[u]
      BY <1>0, <1>1, <1>2, AnswerDoes
  <1>8. JobStepOf(t)
      BY <1>0, <1>2, <1>6, <1>7 DEF JobStepOf, ClientTypes, DestTypes
  <1>9. TransferKept(t)'
      BY <1>0, <1>1, <1>6, <1>8, ReadKept
  <1>10. DestKept'
      BY <1>0, <1>7, DestUntouched
  <1> QED
      BY <1>0, <1>1, <1>8, <1>9, <1>10, JobStepKeeps

\* The operation goes on to another step and its Controller is not told.
LEMMA JobGoesOn ==
  ASSUME RelayIInv, op # NoOp, NEW t \in Transfer, t = op.by, JobStepOf(t), op' \in Job, op'.by = t,
         op'.for = op.for, pc' = pc, op'.step \in StepsOf(op.for.what)
  PROVE  /\ Shape(t)' /\ JobOf(t)' = op' /\ request'[t] = NoRequest
         /\ pc'[t] \notin {"digest", "again", "pack", "acquire", "read", "finished", "done"}
         /\ \A X : At(t, X)' <=> op'.step \in X
         /\ Prepared(t)' <=> op'.step \in {"write", "copy", "verify"}
         /\ Copying(t)' <=> op'.step \in {"prepare", "write", "copy", "verify"}
         /\ op.step \in {"verify", "away", "in", "clean"} => pc'[t] \in {"commit", "local"} \cup Dead
  <1>0. /\ JobOf(t) = op /\ TransferKept(t) /\ request[t] = NoRequest /\ Shape(t)
        /\ pc[t] \in {op.for.what} \cup Dead /\ (op.for.what = "local" <=> mode[t] = "local")
        /\ op.for.what \in {"prepare", "commit", "local", "write"} /\ op.step \in StepsOf(op.for.what)
        /\ pc[t] \notin {"digest", "again", "pack", "acquire", "read", "finished", "done"}
      BY JobFacts
  <1>1. JobOf(t)' = op' /\ op' # NoOp
      BY RelayKinds DEF JobOf
  <1>2. \A X : At(t, X)' <=> op'.step \in X
      BY <1>1 DEF At
  <1>3. UNCHANGED <<mode, pos, request>>
      BY DEF JobStepOf
  <1>4. Shape(t)'
    <2>1. /\ pc'[t] = "pack" => pos'[t] < Chunks
          /\ pc'[t] \in {"digest", "again", "pack", "read", "prepare", "write", "commit"} => mode'[t] # "local"
          /\ pc'[t] = "local" => mode'[t] = "local"
        BY <1>0, <1>3 DEF Shape
    <2>2. /\ request'[t] = NoRequest
          /\ pc'[t] \in {JobOf(t)'.for.what} \cup Dead
          /\ JobOf(t)'.for.what = "local" <=> mode'[t] = "local"
          /\ JobOf(t)'.step \in StepsOf(JobOf(t)'.for.what)
        BY <1>0, <1>1, <1>3
    <2> QED
        BY <2>1, <2>2 DEF Shape, StepsOf
  <1>5. request'[t] = NoRequest /\ pc'[t] = pc[t]
      BY <1>0, <1>3
  <1>6. Prepared(t)' <=> op'.step \in {"write", "copy", "verify"}
      BY <1>0, <1>2, <1>5 DEF Prepared
  <1>7. Copying(t)' <=> op'.step \in {"prepare", "write", "copy", "verify"}
      BY <1>0, <1>2, <1>5 DEF Copying
  <1>8. op.step \in {"verify", "away", "in", "clean"} => pc'[t] \in {"commit", "local"} \cup Dead
      BY <1>0, <1>5 DEF StepsOf
  <1> QED
      BY <1>0, <1>1, <1>2, <1>4, <1>5, <1>6, <1>7, <1>8

LEMMA Remainder ==
  ASSUME NEW k \in Nat, NEW n \in Nat \ {0} PROVE k % n \in 0..(n - 1) /\ k % n <= k
  <1>1. k % n \in 0..(n - 1)
      OBVIOUS
  <1>2. k % n <= k
      OBVIOUS
  <1> QED
      BY <1>1, <1>2

LEMMA LocalDigestKeeps == ASSUME RelayIInv, LocalDigest PROVE RelayIInv'
  <1>0. /\ op # NoOp /\ op.step = "digest" /\ want' = [want EXCEPT ![op.by][op.pos + 1] = source[op.pos + 1]]
        /\ op' = [op EXCEPT !.pos = (op.pos + 1) % Chunks, !.step = IF op.pos + 1 = Chunks THEN "copy" ELSE op.step]
        /\ staging' = [staging EXCEPT ![op.by] = Empty]
        /\ UNCHANGED <<source, changes, mode, pc, pos, archive, request, holder, inDoubt, dest, backup,
                       past, latest, installed>>
      BY DEF LocalDigest, relayHistory
  <1>1. PICK t \in Transfer : /\ t = op.by /\ op \in Job /\ TransferKept(t) /\ JobOf(t) = op /\ latest # t
                              /\ op.step \in StepsOf(op.for.what)
                              /\ op.for.what \in {"prepare", "commit", "local", "write"}
                              /\ op.for.what = "local" <=> mode[t] = "local"
                              /\ op.pos \in 0..(Chunks - 1) /\ \A X : op.step \in X => At(t, X)
      BY <1>0, JobFacts
  <1>2. ClientTypes /\ DestTypes /\ Chunks \in Nat \ {0} /\ source \in past
      BY RelayFacts, RelayKinds DEF SourceTypes
  <1>3. PICK k : k = op.pos + 1
      OBVIOUS
  <1>4. k \in Chunk /\ k \in Nat /\ op.pos \in Nat
      BY <1>1, <1>2, <1>3 DEF Chunk
  <1>5a. k % Chunks \in 0..(Chunks - 1)
      BY <1>2, <1>4, Remainder
  <1>5b. k % Chunks <= k
      BY <1>2, <1>4, Remainder
  <1>5. PICK m : m = k % Chunks /\ m \in 0..(Chunks - 1) /\ m <= k
      BY <1>5a, <1>5b
  <1>6. /\ op' \in Job /\ op'.by = t /\ op'.for = op.for /\ op'.pos = m
        /\ op'.step = IF k = Chunks THEN "copy" ELSE "digest"
      BY <1>0, <1>1, <1>3, <1>5 DEF Job, JobStep
  <1>7. want \in [Transfer -> Content \cup {Missing}] /\ want[t] \in Content /\ want \in [Transfer -> Content]
        /\ source[k] \in Version
      BY <1>2, <1>4, VersionFacts DEF ClientTypes
  <1>8. SetsChunk(want', want, t, k, source[k])
      BY <1>0, <1>1, <1>3 DEF SetsChunk
  <1>9. /\ want' \in [Transfer -> Content] /\ want'[t][k] = source[k]
        /\ \A c \in Chunk \ {k} : want'[t][c] = want[t][c]
        /\ \A u \in Transfer \ {t} : want'[u] = want[u]
      BY <1>4, <1>7, <1>8, ChunkSet
  <1>10. /\ staging' \in [Transfer -> Content \cup {Missing}] /\ staging'[t] = Empty
         /\ \A u \in Transfer \ {t} : staging'[u] = staging[u]
      BY <1>0, <1>1, <1>2, RelayKinds DEF DestTypes
  <1>11. JobStepOf(t)
      BY <1>0, <1>2, <1>6, <1>9, <1>10 DEF JobStepOf, ClientTypes, DestTypes
  <1>12. op.for.what = "local"
      BY <1>0, <1>1 DEF StepsOf
  <1>13. op'.step \in StepsOf(op.for.what)
      BY <1>6, <1>12 DEF StepsOf
  <1>14. /\ Shape(t)' /\ JobOf(t)' = op' /\ request'[t] = NoRequest
         /\ pc'[t] \notin {"digest", "again", "pack", "acquire", "read", "finished", "done"}
         /\ \A X : At(t, X)' <=> op'.step \in X
         /\ Copying(t)' <=> op'.step \in {"prepare", "write", "copy", "verify"}
      BY <1>0, <1>1, <1>6, <1>11, <1>13, JobGoesOn
  <1>15. \A c \in Chunk : c <= k => want'[t][c] \in 0..source[c]
    <2> SUFFICES ASSUME NEW c \in Chunk, c <= k PROVE want'[t][c] \in 0..source[c]
        OBVIOUS
    <2>1. CASE c = k
        BY <1>9, <2>1, VersionFacts
    <2>2. CASE c # k
      <3>1. c <= op.pos
          BY <1>3, <1>4, <2>2, RelayKinds
      <3>2. At(t, {"digest"})
          BY <1>0, <1>1
      <3> QED
          BY <1>1, <1>9, <2>2, <3>1, <3>2 DEF TransferKept, Digesting
    <2> QED
        BY <2>1, <2>2
  <1>16. Digesting(t)'
    <2>1. \A c \in Chunk : c <= op'.pos => c <= k
        BY <1>2, <1>4, <1>5, <1>6, RelayKinds
    <2> QED
        BY <1>0, <1>14, <1>15, <2>1 DEF Digesting
  <1>17. Copying(t)' => \E S \in past' : Between(t, S)'
    <2> SUFFICES ASSUME Copying(t)' PROVE \E S \in past' : Between(t, S)'
        OBVIOUS
    <2>1. k = Chunks
        BY <1>6, <1>14
    <2>2. \A c \in Chunk : c <= k
        BY <1>2, <2>1 DEF Chunk
    <2>3. \A c \in Chunk : want'[t][c] \in 0..source[c] /\ source[c] <= source[c]
        BY <1>15, <2>2, RelayFacts
    <2>4. \A c \in Chunk : NotBefore(staging'[t][c], source[c])
        BY <1>10 DEF NotBefore, Empty
    <2>5. request'[t] \notin WriteReq /\ ~At(t, {"write"})' /\ mode'[t] # "archive"
        BY <1>0, <1>1, <1>6, <1>12, <1>14, RelayKinds
    <2>6. source' = source /\ past' = past
        BY <1>0
    <2>7. \E S \in past' :
            /\ \A c \in Chunk : want'[t][c] \in 0..S[c] /\ S[c] <= source'[c]
            /\ \A c \in Chunk : NotBefore(staging'[t][c], S[c])
        BY <1>2, <2>3, <2>4, <2>6
    <2>8. PICK S \in past' :
            /\ \A c \in Chunk : want'[t][c] \in 0..S[c] /\ S[c] <= source'[c]
            /\ \A c \in Chunk : NotBefore(staging'[t][c], S[c])
        BY <2>7
    <2>9. Between(t, S)'
        BY <2>5, <2>8 DEF Between, NotBefore
    <2> QED
        BY <2>9
  <1>18. ~At(t, {"away", "in"})' /\ ~At(t, {"clean"})'
      BY <1>6, <1>14
  <1>19. staging'[t] \in Content
      BY <1>10, RelayKinds
  <1>20. TransferKept(t)'
      BY <1>0, <1>1, <1>14, <1>16, <1>17, <1>18, <1>19 DEF TransferKept, Content
  <1>21. DestKept'
      BY <1>0, <1>6, DestUntouched
  <1> QED
      BY <1>0, <1>1, <1>11, <1>20, <1>21, JobStepKeeps

LEMMA LocalCopyKeeps == ASSUME RelayIInv, LocalCopy PROVE RelayIInv'
  <1>0. /\ op # NoOp /\ op.step = "copy" /\ staging' = Staged(op.by, op.pos + 1, source[op.pos + 1])
        /\ op' = [op EXCEPT !.pos = (op.pos + 1) % Chunks, !.step = IF op.pos + 1 = Chunks THEN "verify" ELSE op.step]
        /\ UNCHANGED <<source, changes, mode, pc, pos, want, archive, request, holder, inDoubt, dest, backup,
                       past, latest, installed>>
      BY DEF LocalCopy, relayHistory, client
  <1>1. PICK t \in Transfer : /\ t = op.by /\ op \in Job /\ TransferKept(t) /\ JobOf(t) = op /\ latest # t
                              /\ op.step \in StepsOf(op.for.what)
                              /\ op.for.what \in {"prepare", "commit", "local", "write"}
                              /\ op.for.what = "local" <=> mode[t] = "local"
                              /\ op.pos \in 0..(Chunks - 1) /\ \A X : op.step \in X => At(t, X)
      BY <1>0, JobFacts
  <1>2. ClientTypes /\ DestTypes /\ Chunks \in Nat \ {0}
      BY RelayFacts, RelayKinds
  <1>3. PICK k : k = op.pos + 1
      OBVIOUS
  <1>4. k \in Chunk /\ k \in Nat
      BY <1>1, <1>2, <1>3 DEF Chunk
  <1>5. k % Chunks \in 0..(Chunks - 1)
      BY <1>2, <1>4, Remainder
  <1>6. /\ op' \in Job /\ op'.by = t /\ op'.for = op.for
        /\ op'.step \in {"copy", "verify"}
      BY <1>0, <1>1, <1>3, <1>5 DEF Job, JobStep
  <1>7. At(t, {"copy"}) /\ Prepared(t) /\ Copying(t)
      BY <1>0, <1>1 DEF Prepared, Copying
  <1>8. staging \in [Transfer -> Content \cup {Missing}] /\ staging[t] \in Content /\ source[k] \in Version
      BY <1>1, <1>2, <1>4, <1>7, VersionFacts DEF TransferKept, DestTypes
  <1>9. SetsChunk(staging', staging, t, k, source[k])
      BY <1>0, <1>1, <1>3 DEF SetsChunk, Staged
  <1>10. /\ staging' \in [Transfer -> Content \cup {Missing}] /\ staging'[t] \in Content
         /\ staging'[t][k] = source[k]
         /\ \A c \in Chunk \ {k} : staging'[t][c] = staging[t][c]
         /\ \A u \in Transfer \ {t} : staging'[u] = staging[u]
      BY <1>4, <1>8, <1>9, ChunkSet
  <1>11. JobStepOf(t)
      BY <1>0, <1>2, <1>6, <1>10 DEF JobStepOf, ClientTypes, DestTypes
  <1>12. op.for.what = "local"
      BY <1>0, <1>1 DEF StepsOf
  <1>13. op'.step \in StepsOf(op.for.what)
      BY <1>6, <1>12 DEF StepsOf
  <1>14. /\ Shape(t)' /\ JobOf(t)' = op' /\ request'[t] = NoRequest
         /\ pc'[t] \notin {"digest", "again", "pack", "acquire", "read", "finished", "done"}
         /\ \A X : At(t, X)' <=> op'.step \in X
      BY <1>0, <1>1, <1>6, <1>11, <1>13, JobGoesOn
  <1>15. /\ ~At(t, {"away", "in"})' /\ ~At(t, {"clean"})' /\ ~At(t, {"digest"})' /\ ~At(t, {"write"})'
      BY <1>6, <1>14
  <1>16. Digesting(t)'
      BY <1>14, <1>15 DEF Digesting
  <1>17. PICK S \in past : Between(t, S)
      BY <1>1, <1>7 DEF TransferKept
  <1>18. Grows
      BY <1>0, SourceStays
  <1>19. \A c \in Chunk : staging'[t][c] \in {Hole, source[c]} \/ (Prepared(t) /\ staging'[t][c] = staging[t][c])
      BY <1>7, <1>10
  <1>20. /\ request'[t] \notin WriteReq /\ mode'[t] = mode[t] /\ want'[t] = want[t]
         /\ \A c \in Chunk : archive'[t][c] = archive[t][c]
      BY <1>0, <1>14, RelayKinds
  <1>21. S \in past' /\ Between(t, S)'
      BY <1>15, <1>17, <1>18, <1>19, <1>20, BetweenGrows
  <1>22. TransferKept(t)'
      BY <1>0, <1>1, <1>10, <1>14, <1>15, <1>16, <1>21 DEF TransferKept, Content
  <1>23. DestKept'
      BY <1>0, <1>6, DestUntouched
  <1> QED
      BY <1>0, <1>1, <1>11, <1>22, <1>23, JobStepKeeps

\* A copy that has the expected digest is a state the source was in.
LEMMA VerifiedIsPast ==
  ASSUME RelayIInv, NEW t \in Transfer, At(t, {"verify"}), Verified(t)
  PROVE  staging[t] \in past
  <1>1. TransferKept(t) /\ Copying(t) /\ Prepared(t)
      BY RelayFacts DEF Copying, Prepared, At
  <1>2. PICK S \in past : Between(t, S)
      BY <1>1 DEF TransferKept
  <1>3. staging[t] = want[t] /\ staging[t] \in Content
      BY <1>1 DEF Verified, Unpacked, TransferKept
  <1>4. S \in [Chunk -> 0..MaxChanges] /\ MaxChanges \in Nat
      BY RelayFacts, RelayKinds DEF SourceTypes
  <1>5. ASSUME NEW c \in Chunk PROVE staging[t][c] = S[c]
    <2>1. want[t][c] \in 0..S[c] /\ NotBefore(staging[t][c], S[c]) /\ S[c] \in Nat
        BY <1>1, <1>2, <1>4 DEF Between
    <2> QED
        BY <1>3, <2>1 DEF NotBefore, Hole
  <1>6. staging[t] = S
      BY <1>3, <1>4, <1>5 DEF Content
  <1> QED
      BY <1>6

LEMMA VerifyKeeps == ASSUME RelayIInv, Verify PROVE RelayIInv'
  <1>0. /\ op # NoOp /\ op.step = "verify"
        /\ UNCHANGED <<source, changes, mode, pos, want, archive, request, holder, inDoubt, dest, backup,
                       past, latest, installed>>
      BY DEF Verify, relayHistory
  <1>1. PICK t \in Transfer : /\ t = op.by /\ op \in Job /\ TransferKept(t) /\ JobOf(t) = op /\ latest # t
                              /\ op.step \in StepsOf(op.for.what) /\ request[t] = NoRequest
                              /\ op.for.what \in {"prepare", "commit", "local", "write"}
                              /\ \A X : op.step \in X => At(t, X)
      BY <1>0, JobFacts
  <1>2. ClientTypes /\ DestTypes
      BY RelayFacts
  <1>3. CASE Verified(op.by) /\ op' = [op EXCEPT !.step = "away"] /\ UNCHANGED <<pc, staging>>
    <2>1. op' \in Job /\ op'.by = t /\ op'.for = op.for /\ op'.step = "away"
        BY <1>1, <1>3 DEF Job, JobStep
    <2>2. JobStepOf(t)
        BY <1>0, <1>2, <1>3, <2>1 DEF JobStepOf, ClientTypes, DestTypes
    <2>3. op'.step \in StepsOf(op.for.what)
        BY <1>0, <1>1, <2>1 DEF StepsOf
    <2>4. /\ Shape(t)' /\ pc'[t] \notin {"digest", "again", "pack", "acquire", "read", "finished", "done"}
          /\ \A X : At(t, X)' <=> op'.step \in X
          /\ ~Prepared(t)' /\ ~Copying(t)'
        BY <1>0, <1>1, <1>3, <2>1, <2>2, <2>3, JobGoesOn
    <2>5. ~At(t, {"digest"})' /\ ~At(t, {"clean"})'
        BY <2>1, <2>4
    <2>6. Digesting(t)'
        BY <2>4, <2>5 DEF Digesting
    <2>7. staging'[t] \in past'
        BY <1>0, <1>1, <1>3, VerifiedIsPast
    <2>8. TransferKept(t)'
        BY <1>0, <1>1, <2>4, <2>5, <2>6, <2>7 DEF TransferKept
    <2>9. DestKept'
        BY <1>0, <2>1, DestUntouched
    <2> QED
        BY <1>0, <1>1, <2>2, <2>8, <2>9, JobStepKeeps
  <1>4. CASE /\ staging' = IF op.for.what = "local" THEN [staging EXCEPT ![op.by] = Missing] ELSE staging
             /\ Answer(op.by, "release")
    <2>1. "release" \in Stage /\ "release" \in Dead
        BY DEF Stage, Dead
    <2>2. /\ op' = NoOp /\ JobOf(t)' = NoOp /\ pc' \in [Transfer -> Stage]
          /\ \A u \in Transfer \ {t} : pc'[u] = pc[u]
          /\ pc'[t] = "release" \/ (pc'[t] = pc[t] /\ pc[t] \in Dead)
        BY <1>0, <1>1, <1>4, <2>1, AnswerDoes
    <2>3. /\ staging' \in [Transfer -> Content \cup {Missing}]
          /\ \A u \in Transfer \ {t} : staging'[u] = staging[u]
        BY <1>1, <1>2, <1>4 DEF DestTypes
    <2>4. JobStepOf(t)
        BY <1>0, <1>2, <2>2, <2>3 DEF JobStepOf, ClientTypes, DestTypes
    <2>5. Withdraws(t)
        BY <1>0, <1>1, <2>1, <2>2 DEF Withdraws, Dead
    <2>6. DestKept'
        BY <1>0, <2>2, DestUntouched
    <2> QED
        BY <1>0, <1>1, <2>4, <2>5, <2>6, JobStepKeeps
  <1> QED
      BY <1>3, <1>4 DEF Verify

\* An operation that ends without success.
LEMMA JobFails ==
  ASSUME RelayIInv, op # NoOp, NEW t \in Transfer, t = op.by, Answer(t, "release"),
         UNCHANGED <<source, changes, mode, pos, want, archive, request, holder, inDoubt, staging, past, latest,
                     installed>>,
         dest' \in Content \cup {Missing}, backup' \in [Transfer -> Content \cup {Missing}],
         dest' = Missing => latest \in Transfer
  PROVE  RelayIInv'
  <1>1. "release" \in Stage /\ "release" \in Dead /\ ClientTypes /\ DestTypes /\ request[t] = NoRequest
      BY RelayFacts, JobFacts DEF Stage, Dead
  <1>2. /\ op' = NoOp /\ JobOf(t)' = NoOp /\ pc' \in [Transfer -> Stage]
        /\ \A u \in Transfer \ {t} : pc'[u] = pc[u]
        /\ pc'[t] = "release" \/ (pc'[t] = pc[t] /\ pc[t] \in Dead)
      BY <1>1, AnswerDoes
  <1>3. JobStepOf(t)
      BY <1>1, <1>2 DEF JobStepOf, ClientTypes, DestTypes
  <1>4. Withdraws(t)
      BY <1>1, <1>2 DEF Withdraws
  <1>5. DestKept'
      BY <1>2 DEF DestKept
  <1> QED
      BY <1>3, <1>4, <1>5, JobStepKeeps

LEMMA MoveAwayKeeps == ASSUME RelayIInv, MoveAway PROVE RelayIInv'
  <1>0. /\ op # NoOp /\ op.step = "away"
        /\ UNCHANGED <<source, changes, mode, pos, want, archive, request, holder, inDoubt, staging, past, installed>>
      BY DEF MoveAway
  <1>1. PICK t \in Transfer : /\ t = op.by /\ op \in Job /\ TransferKept(t) /\ JobOf(t) = op
                              /\ op.step \in StepsOf(op.for.what) /\ request[t] = NoRequest
                              /\ op.for.what \in {"prepare", "commit", "local", "write"}
                              /\ \A X : op.step \in X => At(t, X)
      BY <1>0, JobFacts
  <1>2. ClientTypes /\ DestTypes /\ DestKept
      BY RelayFacts
  <1>3. CASE /\ dest' = Missing /\ backup' = [backup EXCEPT ![op.by] = dest]
             /\ latest' = IF dest # Missing THEN op.by ELSE latest
             /\ op' = [op EXCEPT !.step = "in"] /\ UNCHANGED pc
    <2>1. op' \in Job /\ op'.by = t /\ op'.for = op.for /\ op'.step = "in"
        BY <1>1, <1>3 DEF Job, JobStep
    <2>2. backup' \in [Transfer -> Content \cup {Missing}] /\ backup'[t] = dest
        BY <1>1, <1>2, <1>3 DEF DestTypes
    <2>3. JobStepOf(t)
        BY <1>0, <1>1, <1>2, <1>3, <2>1, <2>2 DEF JobStepOf, ClientTypes, DestTypes
    <2>4. op'.step \in StepsOf(op.for.what)
        BY <1>0, <1>1, <2>1 DEF StepsOf
    <2>5. /\ Shape(t)' /\ pc'[t] \notin {"digest", "again", "pack", "acquire", "read", "finished", "done"}
          /\ JobOf(t)' = op' /\ request'[t] = NoRequest
          /\ \A X : At(t, X)' <=> op'.step \in X
          /\ ~Prepared(t)' /\ ~Copying(t)' /\ pc'[t] \in {"commit", "local"} \cup Dead
        BY <1>0, <1>1, <1>3, <2>1, <2>3, <2>4, JobGoesOn
    <2>6. ~At(t, {"digest"})' /\ ~At(t, {"clean"})'
        BY <2>1, <2>5
    <2>7. Digesting(t)'
        BY <2>5, <2>6 DEF Digesting
    <2>8. staging'[t] \in past'
        BY <1>0, <1>1 DEF TransferKept
    <2>9. TransferKept(t)'
        BY <2>1, <2>5, <2>6, <2>7, <2>8 DEF TransferKept
    <2>10. DestKept'
        BY <1>1, <1>2, <1>3, <2>1, <2>2 DEF DestKept
    <2> QED
        BY <1>0, <1>1, <2>3, <2>9, <2>10, JobStepKeeps
  <1>4. CASE Answer(op.by, "release") /\ UNCHANGED <<dest, backup, latest>>
      BY <1>0, <1>1, <1>2, <1>4, JobFails DEF DestTypes, DestKept
  <1> QED
      BY <1>3, <1>4 DEF MoveAway

LEMMA MoveInKeeps == ASSUME RelayIInv, MoveIn PROVE RelayIInv'
  <1>0. /\ op # NoOp /\ op.step = "in"
        /\ UNCHANGED <<source, changes, mode, pos, want, archive, request, holder, inDoubt, past, latest>>
      BY DEF MoveIn
  <1>1. PICK t \in Transfer : /\ t = op.by /\ op \in Job /\ TransferKept(t) /\ JobOf(t) = op
                              /\ op.step \in StepsOf(op.for.what) /\ request[t] = NoRequest
                              /\ op.for.what \in {"prepare", "commit", "local", "write"}
                              /\ \A X : op.step \in X => At(t, X)
      BY <1>0, JobFacts
  <1>2. ClientTypes /\ DestTypes /\ DestKept /\ dest = Missing /\ latest \in Transfer
      BY <1>0, RelayFacts DEF DestKept
  <1>3. CASE /\ dest' = staging[op.by] /\ staging' = [staging EXCEPT ![op.by] = Missing]
             /\ installed' = installed \cup {op.by} /\ op' = [op EXCEPT !.step = "clean"]
             /\ UNCHANGED <<pc, backup>>
    <2>1. op' \in Job /\ op'.by = t /\ op'.for = op.for /\ op'.step = "clean"
        BY <1>1, <1>3 DEF Job, JobStep
    <2>2. dest' \in past /\ dest' \in Content /\ dest' # Missing
      <3>1. staging[t] \in past
          BY <1>0, <1>1 DEF TransferKept
      <3> QED
          BY <1>1, <1>3, <3>1, RelayFacts, RelayKinds DEF SourceTypes
    <2>3. /\ staging' \in [Transfer -> Content \cup {Missing}]
          /\ \A u \in Transfer \ {t} : staging'[u] = staging[u]
        BY <1>1, <1>2, <1>3 DEF DestTypes
    <2>4. JobStepOf(t)
        BY <1>0, <1>1, <1>2, <1>3, <2>1, <2>2, <2>3 DEF JobStepOf, ClientTypes, DestTypes
    <2>5. op'.step \in StepsOf(op.for.what)
        BY <1>0, <1>1, <2>1 DEF StepsOf
    <2>6. /\ Shape(t)' /\ pc'[t] \notin {"digest", "again", "pack", "acquire", "read", "finished", "done"}
          /\ JobOf(t)' = op' /\ request'[t] = NoRequest
          /\ \A X : At(t, X)' <=> op'.step \in X
          /\ ~Prepared(t)' /\ ~Copying(t)' /\ pc'[t] \in {"commit", "local"} \cup Dead
        BY <1>0, <1>1, <1>3, <2>1, <2>4, <2>5, JobGoesOn
    <2>7. ~At(t, {"digest"})' /\ ~At(t, {"away", "in"})'
        BY <2>1, <2>6
    <2>8. Digesting(t)'
        BY <2>6, <2>7 DEF Digesting
    <2>9. TransferKept(t)'
        BY <1>1, <1>3, <2>1, <2>6, <2>7, <2>8 DEF TransferKept
    <2>10. DestKept'
        BY <2>1, <2>2 DEF DestKept
    <2> QED
        BY <1>0, <1>1, <2>4, <2>9, <2>10, JobStepKeeps
  <1>4. CASE /\ \E restored \in BOOLEAN :
                  IF restored
                  THEN /\ dest' = backup[op.by]
                       /\ backup' = [backup EXCEPT ![op.by] = Missing]
                  ELSE UNCHANGED <<dest, backup>>
             /\ Answer(op.by, "release") /\ UNCHANGED <<staging, installed>>
    <2>1. dest' \in Content \cup {Missing} /\ backup' \in [Transfer -> Content \cup {Missing}]
        BY <1>1, <1>2, <1>4 DEF DestTypes
    <2> QED
        BY <1>0, <1>1, <1>2, <1>4, <2>1, JobFails
  <1> QED
      BY <1>3, <1>4 DEF MoveIn

LEMMA CleanKeeps == ASSUME RelayIInv, Clean PROVE RelayIInv'
  <1>0. /\ op # NoOp /\ op.step = "clean"
        /\ UNCHANGED <<source, changes, mode, pos, want, archive, request, holder, inDoubt, staging, dest,
                       past, latest, installed>>
      BY DEF Clean, relayHistory
  <1>1. PICK t \in Transfer : /\ t = op.by /\ TransferKept(t) /\ request[t] = NoRequest
                              /\ \A X : op.step \in X => At(t, X)
      BY <1>0, JobFacts
  <1>2. ClientTypes /\ DestTypes /\ DestKept /\ dest # Missing /\ t \in installed
      BY <1>0, <1>1, RelayFacts DEF DestKept, TransferKept
  <1>3. CASE backup' = [backup EXCEPT ![op.by] = Missing] /\ Answer(op.by, "finished")
    <2>1. "finished" \in Stage
        BY DEF Stage
    <2>2. /\ op' = NoOp /\ JobOf(t)' = NoOp /\ pc' \in [Transfer -> Stage]
          /\ \A u \in Transfer \ {t} : pc'[u] = pc[u]
          /\ pc'[t] = "finished" \/ (pc'[t] = pc[t] /\ pc[t] \in Dead)
        BY <1>0, <1>1, <1>3, <2>1, AnswerDoes
    <2>3. backup' \in [Transfer -> Content \cup {Missing}]
        BY <1>2, <1>3 DEF DestTypes
    <2>4. JobStepOf(t)
        BY <1>0, <1>2, <2>2, <2>3 DEF JobStepOf, ClientTypes, DestTypes
    <2>5. Withdraws(t)
        BY <1>0, <1>1, <1>2, <2>2 DEF Withdraws
    <2>6. DestKept'
        BY <1>0, <1>2, <2>2 DEF DestKept
    <2> QED
        BY <1>0, <1>1, <2>4, <2>5, <2>6, JobStepKeeps
  <1>4. CASE UNCHANGED backup /\ Answer(op.by, "release")
      BY <1>0, <1>1, <1>2, <1>4, JobFails DEF DestTypes
  <1> QED
      BY <1>3, <1>4 DEF Clean

-----------------------------------------------------------------------------
(* The theorems about artifact.transfer.                                   *)

LEMMA RelayBegins == RelayInit => RelayIInv
  <1> SUFFICES ASSUME RelayInit PROVE RelayIInv
      OBVIOUS
  <1>0. /\ source = [c \in Chunk |-> 0] /\ changes = 0
        /\ mode \in [Transfer -> {"archive", "manifest", "local"}]
        /\ pc = [t \in Transfer |-> IF mode[t] = "local" THEN "acquire" ELSE "digest"]
        /\ pos = [t \in Transfer |-> 0]
        /\ want = [t \in Transfer |-> Empty] /\ archive = [t \in Transfer |-> Empty]
        /\ request = [t \in Transfer |-> NoRequest]
        /\ holder = Nobody /\ op = NoOp /\ inDoubt = FALSE
        /\ staging = [t \in Transfer |-> Missing] /\ dest = Old
        /\ backup = [t \in Transfer |-> Missing]
        /\ past = {source} /\ latest = Nobody /\ installed = {}
      BY DEF RelayInit
  <1>1. 0 \in 0..MaxChanges /\ 0 \in 0..Chunks
      BY RelayKinds
  <1>2. SourceTypes
      BY <1>0, <1>1 DEF SourceTypes
  <1>3. pc \in [Transfer -> Stage]
      BY <1>0 DEF Stage
  <1>4. ClientTypes
      BY <1>0, <1>1, <1>3, RelayKinds DEF ClientTypes
  <1>5. DestTypes /\ DestKept /\ CommitUndisturbed
      BY <1>0, RelayKinds DEF DestTypes, DestKept, CommitUndisturbed
  <1>6. ASSUME NEW t \in Transfer PROVE TransferKept(t)
    <2>1. /\ pc[t] = IF mode[t] = "local" THEN "acquire" ELSE "digest"
          /\ JobOf(t) = NoOp /\ request[t] = NoRequest /\ pos[t] = 0 /\ archive[t] = Empty /\ latest # t
        BY <1>0, RelayKinds DEF JobOf
    <2>2. \A X : ~At(t, X)
        BY <2>1 DEF At
    <2>3. \A c \in Chunk : ~(c <= 0)
        BY DEF Chunk
    <2>4. Shape(t) /\ Digesting(t) /\ ~Prepared(t) /\ ~Copying(t)
        BY <2>1, <2>2, <2>3 DEF Shape, Digesting, Prepared, Copying
    <2> QED
        BY <2>1, <2>2, <2>4 DEF TransferKept
  <1> QED
      BY <1>2, <1>4, <1>5, <1>6 DEF RelayIInv

\* One step per action.
LEMMA RelayKept == RelayIInv /\ [RelayNext]_relayVars => RelayIInv'
  <1> SUFFICES ASSUME RelayIInv, [RelayNext]_relayVars PROVE RelayIInv'
      OBVIOUS
  <1>1. CASE \E c \in Chunk : ChangeChunk(c)
      BY <1>1, ChangeChunkKeeps
  <1>2. CASE \E t \in Transfer : DigestChunk(t) \/ Digested(t) \/ StableChunk(t) \/ PackChunk(t)
      BY <1>2, DigestChunkKeeps, DigestedKeeps, StableChunkKeeps, PackChunkKeeps
  <1>3. CASE \E t \in Transfer : AcquireLease(t) \/ SendChunk(t) \/ GiveUp(t) \/ ReleaseLease(t)
      BY <1>3, AcquireLeaseKeeps, SendChunkKeeps, GiveUpKeeps, ReleaseLeaseKeeps
  <1>4. CASE \E t \in Transfer : BeginOperation(t) \/ Refuse(t)
      BY <1>4, BeginOperationKeeps, RefuseKeeps
  <1>5. CASE ExpireLease \/ RecoverDestination \/ UNCHANGED relayVars
      BY <1>5, OthersKeep
  <1>6. CASE Prepare \/ WriteChunk \/ LocalDigest \/ LocalCopy
      BY <1>6, PrepareKeeps, WriteChunkKeeps, LocalDigestKeeps, LocalCopyKeeps
  <1>7. CASE Verify \/ MoveAway \/ MoveIn \/ Clean
      BY <1>7, VerifyKeeps, MoveAwayKeeps, MoveInKeeps, CleanKeeps
  <1>8. CASE CrashExecutor
      BY <1>8, CrashExecutorKeeps
  <1> QED
      BY <1>1, <1>2, <1>3, <1>4, <1>5, <1>6, <1>7, <1>8 DEF RelayNext

\* Transfers keep to the inductive invariant: for every copy that can still be
\* committed there is a state of the source between its digest and its bytes.
THEOREM RelayInvariance == RelaySpec => []RelayIInv
  BY RelayBegins, RelayKept, PTL DEF RelaySpec

\* Nobody else gets the lease of a destination while an operation runs there,
\* although the lease may expire (Resources::begin and acquire).
THEOREM CommitsUndisturbed == RelaySpec => []CommitUndisturbed
  <1>1. RelayIInv => CommitUndisturbed
      BY DEF RelayIInv
  <1> QED
      BY <1>1, RelayInvariance, PTL

\* artifact.transfer reports success only after its artifact has been moved to
\* the destination.
THEOREM SuccessIsReal == RelaySpec => []SuccessMeansInstalled
  <1>1. RelayIInv => SuccessMeansInstalled
      BY DEF RelayIInv, TransferKept, SuccessMeansInstalled
  <1> QED
      BY <1>1, RelayInvariance, PTL

LEMMA RelayTyped == RelayIInv => RelayTypeOK
  <1> SUFFICES ASSUME RelayIInv PROVE RelayTypeOK
      OBVIOUS
  <1>1. op.by \in Transfer \cup {Nobody}
      BY RelayFacts, RelayKinds
  <1> QED
      BY <1>1, RelayFacts DEF RelayTypeOK, SourceTypes, ClientTypes, DestTypes

LEMMA MirrorStep ==
  ASSUME RelayIInv, RelayIInv', [RelayNext]_relayVars
  PROVE  [Mirror!ChangeSource \/ Mirror!Replace]_(Mirror!mirrorVars)
  <1>0. ASSUME UNCHANGED <<source, past, dest, backup, latest>>
        PROVE  UNCHANGED Mirror!mirrorVars
      BY <1>0 DEF Mirror!mirrorVars, Visible
  <1>1. CASE \E c \in Chunk : ChangeChunk(c)
    <2>1. source' # source /\ past' = past \cup {source'} /\ UNCHANGED <<dest, backup, latest>>
        BY <1>1, ChangeChunkKeeps DEF ChangeChunk, disk
    <2>2. UNCHANGED Visible
        BY <2>1 DEF Visible
    <2> QED
        BY <2>1, <2>2 DEF Mirror!ChangeSource
  <1>2. CASE MoveAway
    <2>1. UNCHANGED <<source, past>> /\ op # NoOp /\ op.step = "away"
        BY <1>2 DEF MoveAway
    <2>2. PICK t \in Transfer : t = op.by /\ latest # t
        BY <2>1, JobFacts
    <2>3. backup \in [Transfer -> Content \cup {Missing}] /\ (dest = Missing => latest \in Transfer)
        BY RelayFacts DEF DestTypes, DestKept
    <2>4. CASE /\ dest' = Missing /\ backup' = [backup EXCEPT ![t] = dest]
               /\ latest' = IF dest # Missing THEN t ELSE latest
      <3>1. CASE dest = Missing
          BY <2>2, <2>3, <2>4, <3>1, <2>1 DEF Visible, Mirror!mirrorVars
      <3>2. CASE dest # Missing
          BY <2>2, <2>3, <2>4, <3>2, <2>1 DEF Visible, Mirror!mirrorVars
      <3> QED
          BY <3>1, <3>2
    <2>5. CASE UNCHANGED <<dest, backup, latest>>
        BY <1>0, <2>1, <2>5
    <2> QED
        BY <1>2, <2>2, <2>4, <2>5 DEF MoveAway
  <1>3. CASE MoveIn
    <2>1. UNCHANGED <<source, past, latest>> /\ op # NoOp /\ op.step = "in"
        BY <1>3 DEF MoveIn
    <2>2. PICK t \in Transfer : t = op.by /\ TransferKept(t) /\ \A X : op.step \in X => At(t, X)
        BY <2>1, JobFacts
    <2>3. /\ backup \in [Transfer -> Content \cup {Missing}] /\ dest = Missing /\ latest \in Transfer
          /\ t # latest => backup[t] = Missing
        BY <2>1, <2>2, RelayFacts DEF DestTypes, DestKept
    <2>4. CASE dest' = staging[t]
      <3>1. staging[t] \in past
          BY <2>1, <2>2 DEF TransferKept
      <3>2. staging[t] # Missing
          BY <3>1, RelayFacts, RelayKinds DEF SourceTypes
      <3>3. Visible' \in past
          BY <2>4, <3>1, <3>2 DEF Visible
      <3> QED
          BY <2>1, <3>3 DEF Mirror!Replace
    <2>5. CASE dest' = backup[t] /\ backup' = [backup EXCEPT ![t] = Missing]
      <3>1. Visible = backup[latest]
          BY <2>3 DEF Visible
      <3>2. Visible' = backup[latest]
          BY <2>1, <2>3, <2>5 DEF Visible
      <3> QED
          BY <2>1, <3>1, <3>2 DEF Mirror!mirrorVars
    <2>6. CASE UNCHANGED <<dest, backup>>
        BY <1>0, <2>1, <2>6
    <2> QED
        BY <1>3, <2>2, <2>4, <2>5, <2>6 DEF MoveIn
  <1>4. CASE Clean
    <2>1. UNCHANGED <<source, past, latest, dest>> /\ op # NoOp /\ op.step = "clean"
        BY <1>4 DEF Clean, relayHistory
    <2>2. dest # Missing
        BY <2>1, RelayFacts DEF DestKept
    <2> QED
        BY <2>1, <2>2 DEF Visible, Mirror!mirrorVars
  <1>5. CASE UNCHANGED <<source, past, dest, backup, latest>>
      BY <1>0, <1>5
  <1>6. ASSUME \/ \E t \in Transfer :
                    \/ DigestChunk(t) \/ Digested(t) \/ StableChunk(t) \/ PackChunk(t)
                    \/ AcquireLease(t) \/ SendChunk(t) \/ GiveUp(t) \/ ReleaseLease(t)
                    \/ BeginOperation(t) \/ Refuse(t)
               \/ ExpireLease \/ Prepare \/ WriteChunk \/ LocalDigest \/ LocalCopy \/ Verify
               \/ CrashExecutor \/ RecoverDestination \/ UNCHANGED relayVars
        PROVE  UNCHANGED <<source, past, dest, backup, latest>>
      BY <1>6
         DEF DigestChunk, Digested, StableChunk, PackChunk, AcquireLease, SendChunk, GiveUp,
             ReleaseLease,
         BeginOperation, Refuse, ExpireLease, Prepare, WriteChunk, LocalDigest, LocalCopy, Verify, CrashExecutor,
         RecoverDestination, relayVars, disk, relayHistory
  <1> QED
      BY <1>1, <1>2, <1>3, <1>4, <1>5, <1>6 DEF RelayNext

\* artifact.transfer implements the abstract mirror: whatever transfers,
\* changes of the source, lost calls, expired leases and crashes interleave,
\* the destination (or what a commit put aside while there is none) changes
\* only in one step, to a whole state that the source has been in.
THEOREM RelayMirrors == RelaySpec => MirrorsSource
  <1>1. RelayInit => Mirror!MirrorInit
    <2> SUFFICES ASSUME RelayInit PROVE Mirror!MirrorInit
        OBVIOUS
    <2>1. past = {source} /\ dest = Old
        BY DEF RelayInit
    <2>2. Old # Missing
        BY RelayKinds
    <2> QED
        BY <2>1, <2>2 DEF Mirror!MirrorInit, Visible
  <1>2. RelayIInv /\ RelayIInv' /\ [RelayNext]_relayVars =>
          [Mirror!ChangeSource \/ Mirror!Replace]_(Mirror!mirrorVars)
      BY MirrorStep
  <1> QED
      BY <1>1, <1>2, RelayInvariance, PTL DEF RelaySpec, MirrorsSource, Mirror!MirrorSpec

-----------------------------------------------------------------------------
(* The two together.                                                       *)

\* A behaviour of the composition is one of the relay and one of the process
\* table.
THEOREM ExecutorComponents == Spec => RelaySpec /\ ProcSpec
  <1>1. Init => RelayInit /\ ProcInit
      BY DEF Init
  <1>2. [Next]_<<part, relayVars, procVars>> => [RelayNext]_relayVars /\ [ProcNext]_procVars
      BY DEF Next
  <1> QED
      BY <1>1, <1>2, PTL DEF Spec, RelaySpec, ProcSpec

\* The variables of relay and process table keep their types, a running commit
\* keeps its destination to itself and a transfer that reports success has put
\* its artifact there, for any number of transfers, chunks, names, requests,
\* pids, changes and faults.
THEOREM ExecutorSafe == Spec => []ExecutorInv
  <1>1. RelayIInv => RelayTypeOK
      BY RelayTyped
  <1>2. RelaySpec => []RelayTypeOK
      BY <1>1, RelayInvariance, PTL
  <1>3. RelayTypeOK /\ ProcTypeOK /\ CommitUndisturbed /\ SuccessMeansInstalled => ExecutorInv
      BY DEF ExecutorInv
  <1> QED
      BY <1>2, <1>3, ExecutorComponents, ProcessTableTyped, CommitsUndisturbed, SuccessIsReal, PTL
=============================================================================
