------------------------------ MODULE Processes ------------------------------
(***************************************************************************)
(* The process table of an Executor (process.rs) and the tunnels that are  *)
(* kept in it (executor.rs): concurrent requests, the operating system     *)
(* that reuses process ids, and the restart of the Executor.               *)
(*                                                                         *)
(* All tunnels bind the same local port.  Records are written to disk      *)
(* before their mutex is released, and every step that reads or writes     *)
(* them holds it.                                                          *)
(***************************************************************************)
EXTENDS Naturals, FiniteSets

CONSTANTS
  Tunnel, Process,  \* names of tunnels and of other managed processes
  Thread,           \* requests the Executor serves at a time
  Pid,              \* process ids of the operating system
  None, Foreign,
  MaxBirths,        \* bound: processes ever started
  MaxCrashes        \* bound: crashes of the Executor

ASSUME ProcessesAssumption ==
  /\ Tunnel \cap Process = {}
  /\ {None, Foreign} \cap (Tunnel \cup Process \cup Pid) = {}
  /\ {MaxBirths, MaxCrashes} \subseteq Nat

VARIABLES
  os,           \* the process behind each pid
  births,       \* processes started so far: the next birth identity
  records,      \* ProcessTable.records
  thread,       \* what each request is doing
  quarantined,  \* resources whose operation did not survive a crash
  portTaken,    \* another program listens on the port of the tunnels
  waiter,       \* the Controller that waits for a tunnel
  procCrashes,
  stopReturned, \* history: tunnels whose last finished request was tunnel.stop
  overlapped,   \* history: names used under two of their keys at a time
  strangers     \* history: what was signalled and already was another's when checked

procVars == <<os, births, records, thread, quarantined, portTaken, waiter, procCrashes,
              stopReturned, overlapped, strangers>>

-----------------------------------------------------------------------------
Id == Tunnel \cup Process
Free == [of |-> None, birth |-> 0, listens |-> FALSE, term |-> FALSE]
Idle == [op |-> "idle"]
NoRecord == [state |-> "none", wanted |-> "none"]

\* The resources an operation locks.  One name of the process table is locked
\* under three keys: as a tunnel, as a process and as an agent.
Keys(op, id) ==
  CASE op \in {"ensure", "reconcile"}          -> {<<"tunnel", id>>, <<"bind">>}
    [] op = "stop"                             -> {<<"tunnel", id>>}
    [] op \in {"pstart", "pstop", "prestart"}  -> {<<"process", id>>}
    [] op \in {"astart", "astop"}              -> {<<"agent", id>>}

NameKeys(id) == {<<"tunnel", id>>, <<"process", id>>, <<"agent", id>>}

Held(t) == IF thread[t].op = "idle" \/ thread[t].step = "list" THEN {}
           ELSE Keys(thread[t].op, thread[t].id)
Active == UNION {Held(t) : t \in Thread}

\* A fault: a resource left by a crash counts as free.
MayStartQuarantined(op, id) == Keys(op, id) \cap Active = {}

\* Resources::begin, without leases.
MayStart(op, id) == Keys(op, id) \cap (Active \cup quarantined) = {}

\* The name is in use, or left uncertain by a crash, under another of its keys.
Overlaps(op, id) == (NameKeys(id) \ Keys(op, id)) \cap (Active \cup quarantined) # {}
Overlapped(op, id) == IF Overlaps(op, id) THEN overlapped \cup {id} ELSE overlapped

\* Nobody holds the mutex of the records from one step to the next.
Unlocked == \A t \in Thread : thread[t].op # "idle" => thread[t].step # "signal"

\* A fault: a live process is taken for the recorded one.
IdentityByPid(r) == TRUE

\* process_birth_identity: the process has the recorded birth identity.  None
\* is known of a child that was gone when it was looked up.
Identity(r) == r.birth # 0 /\ os[r.pid].birth = r.birth

\* process_is_alive: some process has that pid.
Alive(r) == os[r.pid] # Free

\* refresh: a record whose process is gone, or is known to be another one, has
\* failed.  `readable' tells whether the operating system reveals the identity
\* of the process now at that pid.
Refresh(r, readable) ==
  IF r.state = "running" /\ (~Alive(r) \/ (readable /\ r.birth # 0 /\ ~Identity(r)))
  THEN [r EXCEPT !.state = "failed"]
  ELSE r

\* identity_verified of a record just refreshed; it is not read at other times.
Recognised(r, readable) == r.state = "running" /\ readable /\ Identity(r)

\* The processes that were started for an id and not told to stop.
Live(id) == {p \in Pid : os[p].of = id /\ ~os[p].term}

Step(t, step) == thread' = [thread EXCEPT ![t].step = step]
Done(t) == thread' = [thread EXCEPT ![t] = Idle]

-----------------------------------------------------------------------------
(* The operating system.                                                   *)

Exit(p) ==
  /\ os[p] # Free
  /\ os' = [os EXCEPT ![p] = Free]
  /\ UNCHANGED <<births, records, thread, quarantined, portTaken, waiter, procCrashes,
                 stopReturned, overlapped, strangers>>

\* A program that is not ours gets a free pid.
ForeignStarts(p) ==
  /\ os[p] = Free
  /\ births < MaxBirths
  /\ births' = births + 1
  /\ os' = [os EXCEPT ![p] = [of |-> Foreign, birth |-> births + 1,
                              listens |-> FALSE, term |-> FALSE]]
  /\ UNCHANGED <<records, thread, quarantined, portTaken, waiter, procCrashes,
                 stopReturned, overlapped, strangers>>

\* ssh binds the port of its tunnel (ExitOnForwardFailure), or another program
\* does.
Listen(p) ==
  /\ os[p].of \in Tunnel
  /\ ~portTaken
  /\ \A q \in Pid : ~os[q].listens
  /\ os' = [os EXCEPT ![p].listens = TRUE]
  /\ UNCHANGED <<births, records, thread, quarantined, portTaken, waiter, procCrashes,
                 stopReturned, overlapped, strangers>>

TakePort ==
  /\ \A q \in Pid : ~os[q].listens
  /\ portTaken' = ~portTaken
  /\ UNCHANGED <<os, births, records, thread, quarantined, waiter, procCrashes,
                 stopReturned, overlapped, strangers>>

-----------------------------------------------------------------------------
(* Requests.                                                               *)

\* process.get, process.list, tunnel.get, tunnel.list, logs.read, port.check.
Observe ==
  /\ Unlocked
  /\ \E readable \in BOOLEAN :
       records' = [id \in Id |-> Refresh(records[id], readable)]
  /\ UNCHANGED <<os, births, thread, quarantined, portTaken, waiter, procCrashes,
                 stopReturned, overlapped, strangers>>

\* A request takes its locks.
Accept(t, op, id) ==
  /\ thread[t] = Idle
  /\ MayStart(op, id)
  /\ thread' = [thread EXCEPT ![t] = [op |-> op, id |-> id, pid |-> None, birth |-> 0, seen |-> 0,
       wanted |-> IF op = "ensure" THEN "running" ELSE "none",
       step |-> CASE op = "ensure"                         -> "check"
                  [] op = "stop"                           -> "unwant"
                  [] op \in {"pstart", "astart"}            -> "start"
                  [] op \in {"pstop", "prestart", "astop"}  -> "kill"]]
  /\ overlapped' = Overlapped(op, id)
  /\ stopReturned' = IF op = "ensure" THEN stopReturned \ {id} ELSE stopReturned
  /\ UNCHANGED <<os, births, records, quarantined, portTaken, waiter, procCrashes, strangers>>

\* tunnel.ensure: refused if another tunnel is to have the port; a running
\* process is reused or reported.
EnsureChecks(t) ==
  /\ thread[t].op # "idle" /\ thread[t].step = "check" /\ Unlocked
  /\ \E readable \in BOOLEAN :
       LET seen == [id \in Id |-> Refresh(records[id], readable)]
           id   == thread[t].id
       IN  /\ records' = seen
           /\ IF \/ \E other \in Tunnel \ {id} : seen[other].wanted = "running"
                 \/ seen[id].state = "running"
              THEN Done(t)
              ELSE Step(t, "start")
  /\ UNCHANGED <<os, births, quarantined, portTaken, waiter, procCrashes, stopReturned,
                 overlapped, strangers>>

\* tunnel.stop records that the tunnel is not wanted; a record that is not a
\* tunnel's is refused (require_tunnel_record).
Unwant(t) ==
  /\ thread[t].op # "idle" /\ thread[t].step = "unwant" /\ Unlocked
  /\ IF records[thread[t].id].wanted = "none"
     THEN Done(t) /\ UNCHANGED records
     ELSE /\ records' = [records EXCEPT ![thread[t].id].wanted = "stopped"]
          /\ Step(t, "kill")
  /\ UNCHANGED <<os, births, quarantined, portTaken, waiter, procCrashes, stopReturned,
                 overlapped, strangers>>

\* The process is dealt with: a restart goes on to start it again, a stop
\* returns.
Dealt(t) ==
  /\ IF thread[t].op \in {"prestart", "reconcile"}
     THEN thread' = [thread EXCEPT ![t].step = "start", ![t].wanted = records[thread[t].id].wanted]
     ELSE Done(t)
  /\ stopReturned' = IF thread[t].op = "stop" THEN stopReturned \cup {thread[t].id}
                     ELSE stopReturned

\* ProcessTable::stop: only a verified process will be signalled.  The mutex is
\* kept while refresh goes on to look at the log and to probe the port.
Kill(t) ==
  /\ thread[t].op # "idle" /\ thread[t].step = "kill" /\ Unlocked
  /\ \E readable \in BOOLEAN :
       LET id == thread[t].id
           r  == Refresh(records[id], readable)
       IN  /\ records' = [records EXCEPT ![id] = r]
           /\ \/ /\ Recognised(r, readable)
                 /\ thread' = [thread EXCEPT ![t].step = "signal", ![t].seen = births]
                 /\ UNCHANGED stopReturned
              \/ /\ r = NoRecord \/ (r.state = "running" /\ ~Recognised(r, readable))
                 /\ Done(t)
                 /\ UNCHANGED stopReturned
              \/ /\ r.state \in {"stopped", "failed"}
                 /\ Dealt(t)
  /\ UNCHANGED <<os, births, quarantined, portTaken, waiter, procCrashes, overlapped, strangers>>

\* stop_process: whatever now has the pid is told to stop; nothing is there to
\* be told (ESRCH); or the signal is not allowed and the stop fails.
Terminated(p) == IF os[p] = Free THEN os ELSE [os EXCEPT ![p].term = TRUE]

Signal(t) ==
  /\ thread[t].op # "idle" /\ thread[t].step = "signal"
  /\ LET id == thread[t].id
         p  == records[id].pid
     IN  \/ /\ os' = Terminated(p)
            /\ records' = [records EXCEPT ![id].state = "stopped"]
            /\ Dealt(t)
            /\ strangers' = strangers \cup
                 {q \in {p} : os[q] # Free /\ os[q].of # id /\ os[q].birth <= thread[t].seen}
         \/ /\ os[p] # Free
            /\ Done(t)
            /\ UNCHANGED <<os, records, stopReturned, strangers>>
  /\ UNCHANGED <<births, quarantined, portTaken, waiter, procCrashes, overlapped>>

Startable(r) == r.state # "running"

\* ProcessTable::start: the check and the spawn.  The child may be gone before
\* its birth identity is read.
Spawn(t) ==
  /\ thread[t].op # "idle" /\ thread[t].step = "start" /\ Unlocked
  /\ births < MaxBirths
  /\ \E readable \in BOOLEAN :
       LET id == thread[t].id
           r  == Refresh(records[id], readable)
       IN  /\ records' = [records EXCEPT ![id] = r]
           /\ \/ /\ ~Startable(r)
                 /\ Done(t)
                 /\ UNCHANGED <<os, births>>
              \/ /\ Startable(r)
                 /\ births' = births + 1
                 /\ \E p \in {p \in Pid : os[p] = Free}, gone \in BOOLEAN :
                      /\ os' = IF gone THEN os ELSE [os EXCEPT ![p] =
                           [of |-> id, birth |-> births + 1, listens |-> FALSE, term |-> FALSE]]
                      /\ thread' = [thread EXCEPT ![t].step = "insert", ![t].pid = p,
                                                  ![t].birth = IF gone THEN 0 ELSE births + 1]
  /\ UNCHANGED <<quarantined, portTaken, waiter, procCrashes, stopReturned,
                 overlapped, strangers>>

\* ProcessTable::start: the record is inserted and written.
Insert(t) ==
  /\ thread[t].op # "idle" /\ thread[t].step = "insert" /\ Unlocked
  /\ records' = [records EXCEPT ![thread[t].id] =
       [state |-> "running", pid |-> thread[t].pid, birth |-> thread[t].birth,
        wanted |-> thread[t].wanted]]
  /\ Done(t)
  /\ UNCHANGED <<os, births, quarantined, portTaken, waiter, procCrashes, stopReturned,
                 overlapped, strangers>>

\* reconcile_tunnels: the tunnels that are wanted and down are found without a
\* lock; with it the old metadata is written back and the process restarted.
ReconcileLists(t, id) ==
  /\ thread[t] = Idle /\ Unlocked
  /\ \E readable \in BOOLEAN :
       LET r == Refresh(records[id], readable)
       IN  /\ records' = [records EXCEPT ![id] = r]
           /\ r.wanted = "running"
           /\ r.state \in {"failed", "stopped"}
  /\ thread' = [thread EXCEPT ![t] =
       [op |-> "reconcile", id |-> id, step |-> "list", pid |-> None, birth |-> 0,
        seen |-> 0, wanted |-> "running"]]
  /\ UNCHANGED <<os, births, quarantined, portTaken, waiter, procCrashes, stopReturned,
                 overlapped, strangers>>

ReconcileBegins(t) ==
  /\ thread[t].op # "idle" /\ thread[t].step = "list" /\ Unlocked
  /\ IF MayStart("reconcile", thread[t].id)
     THEN /\ records' = [records EXCEPT ![thread[t].id].wanted = thread[t].wanted]
          /\ Step(t, "kill")
          /\ overlapped' = Overlapped("reconcile", thread[t].id)
     ELSE /\ Done(t)
          /\ UNCHANGED <<records, overlapped>>
  /\ UNCHANGED <<os, births, quarantined, portTaken, waiter, procCrashes, stopReturned, strangers>>

\* The Executor crashes; what ran under a lock puts its resources in quarantine
\* and its child, if any, runs on.  open() refreshes the records.
CrashTable ==
  /\ procCrashes < MaxCrashes
  /\ procCrashes' = procCrashes + 1
  /\ quarantined' = quarantined \cup Active
  /\ thread' = [t \in Thread |-> Idle]
  /\ records' = [id \in Id |-> Refresh(records[id], TRUE)]
  /\ UNCHANGED <<os, births, portTaken, waiter, stopReturned, overlapped, strangers>>

\* resource.lease.recover with confirmExecutionStopped: the operator has made
\* sure that no child of the lost operation is left.
SafeToRecover(key) ==
  \A id \in Id : key \in NameKeys(id) \cup {<<"bind">>} =>
    \A p \in Live(id) : records[id] # NoRecord /\ records[id].state = "running" /\ records[id].pid = p

Recover(key) ==
  /\ key \in quarantined
  /\ key \notin Active
  /\ SafeToRecover(key)
  /\ quarantined' = quarantined \ {key}
  /\ UNCHANGED <<os, births, records, thread, portTaken, waiter, procCrashes, stopReturned,
                 overlapped, strangers>>

-----------------------------------------------------------------------------
(* The Controller that waits for a tunnel (wait_for_tunnel_readiness).     *)

\* readiness_once: a TCP connection to the port succeeds.
Probe == portTaken \/ \E p \in Pid : os[p].listens

\* readiness.wait returns: its probe succeeded, the process is gone, or the time
\* is up.
WaitReady(id) ==
  /\ waiter.step = "idle" /\ Unlocked
  /\ records[id] # NoRecord
  /\ \E readable \in BOOLEAN : records' = [records EXCEPT ![id] = Refresh(records[id], readable)]
  /\ waiter' = [step |-> "view", id |-> id]
  /\ UNCHANGED <<os, births, thread, quarantined, portTaken, procCrashes, stopReturned,
                 overlapped, strangers>>

\* A fault: it is enough that something answers at the port.
ReadyByProbe(r, readable) == r.wanted # "none" /\ Recognised(r, readable) /\ Probe

\* listener_owned: the recorded process listens on the port itself.
OwnsListener(r) == os[r.pid].listens

\* tunnel_view: ready needs a verified process that owns the listener.
ReadyView(r, readable) ==
  r.wanted # "none" /\ Recognised(r, readable) /\ Probe /\ OwnsListener(r)

\* tunnel.get after the wait decides what the Controller reports.
ReportReady ==
  /\ waiter.step = "view" /\ Unlocked
  /\ \E readable \in BOOLEAN :
       LET r == Refresh(records[waiter.id], readable)
       IN  /\ records' = [records EXCEPT ![waiter.id] = r]
           /\ waiter' = IF ReadyView(r, readable) THEN [step |-> "ready", id |-> waiter.id]
                        ELSE [step |-> "idle"]
  /\ UNCHANGED <<os, births, thread, quarantined, portTaken, procCrashes, stopReturned,
                 overlapped, strangers>>

NextWait ==
  /\ waiter.step = "ready"
  /\ waiter' = [step |-> "idle"]
  /\ UNCHANGED <<os, births, records, thread, quarantined, portTaken, procCrashes,
                 stopReturned, overlapped, strangers>>

-----------------------------------------------------------------------------
ProcInit ==
  /\ os = [p \in Pid |-> Free]
  /\ births = 0
  /\ records = [id \in Id |-> NoRecord]
  /\ thread = [t \in Thread |-> Idle]
  /\ quarantined = {}
  /\ portTaken = FALSE
  /\ waiter = [step |-> "idle"]
  /\ procCrashes = 0
  /\ stopReturned = {}
  /\ overlapped = {}
  /\ strangers = {}

ProcNext ==
  \/ \E p \in Pid : Exit(p) \/ ForeignStarts(p) \/ Listen(p)
  \/ TakePort
  \/ Observe
  \/ \E t \in Thread :
       \/ \E op \in {"ensure", "stop"}, id \in Tunnel : Accept(t, op, id)
       \/ \E op \in {"pstart", "pstop", "prestart", "astart", "astop"}, id \in Id : Accept(t, op, id)
       \/ \E id \in Tunnel : ReconcileLists(t, id)
       \/ EnsureChecks(t) \/ Unwant(t) \/ Kill(t) \/ Signal(t)
       \/ Spawn(t) \/ Insert(t) \/ ReconcileBegins(t)
  \/ CrashTable
  \/ \E key \in quarantined : Recover(key)
  \/ \E id \in Tunnel : WaitReady(id)
  \/ ReportReady
  \/ NextWait

ProcSpec == ProcInit /\ [][ProcNext]_procVars

-----------------------------------------------------------------------------
(* Properties.                                                             *)

ProcTypeOK ==
  /\ \A p \in Pid : os[p] = Free \/ (os[p].of \in Id \cup {Foreign} /\ os[p].birth \in 1..births)
  /\ \A id \in Id : records[id] = NoRecord \/
       /\ records[id].state \in {"running", "stopped", "failed"}
       /\ records[id].pid \in Pid
       /\ records[id].birth \in 0..births
       /\ records[id].wanted \in {"running", "stopped", "none"}
  /\ \A t \in Thread : thread[t] = Idle \/ thread[t].id \in Id
  /\ births \in 0..MaxBirths

\* A process that a stop signals was started by the table for that name, or
\* it got the pid after the stop had compared the birth identity: a pid that
\* changed hands before, however long ago and over any restart, is not signalled.
NoStrangerSignalled == strangers = {}

\* However requests, exits, reconciliation and crashes interleave, a name has
\* at most one process that has not been told to stop, as long as it is not
\* used under two of its keys (as a tunnel, a process, an agent) at a time.
OneProcessPerName == \A id \in Id \ overlapped : Cardinality(Live(id)) <= 1

\* What the Controller reports as ready is a process of that tunnel which
\* listens itself at that moment: neither an earlier success nor another
\* program on the port makes it ready.
ReadyIsCurrent ==
  [][waiter'.step = "ready" /\ waiter.step # "ready" =>
       \E p \in Pid : os[p].of = waiter.id /\ os[p].listens]_procVars

\* README.md: the Executor "reconciles an unexpectedly exited tunnel".  A
\* tunnel whose tunnel.stop has returned is not wanted again before the next
\* tunnel.ensure.
StoppedStaysStopped == \A id \in stopReturned : records[id].wanted # "running"
=============================================================================
