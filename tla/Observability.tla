---------------------------- MODULE Observability ----------------------------
(***************************************************************************)
(* Observations from the Controllers that record them to the browsers that *)
(* watch the dashboard: the SQLite store (observability.rs), the query     *)
(* over all connected Controllers (controller.rs, observability.query) and *)
(* the dashboard's poller and event stream (main.rs, serve_dashboard).     *)
(*                                                                         *)
(* Controller 1 is the one the dashboard asks.  A poll reads its store,    *)
(* asks every registered Controller in a thread of its own, and merges     *)
(* what came back; between these steps everything else may happen.         *)
(***************************************************************************)
EXTENDS Naturals, Sequences, FiniteSets, FiniteSetsExt, SequencesExt

CONSTANTS
  NodeCount,      \* Controllers 1..NodeCount
  Client,         \* browsers that follow /api/events
  PageLimit,      \* the poller's limit, 500 in the code
  MaxReplay,      \* frames kept for late clients, 1000 in the code
  MaxEvents,      \* bound: events per Controller
  MaxTime,        \* bound: the clock of the events
  MaxRestarts     \* bound: restarts and registrations of Controllers

ASSUME ObservabilityAssumption ==
  /\ NodeCount \in Nat \ {0} /\ PageLimit \in Nat \ {0} /\ MaxReplay \in Nat \ {0}
  /\ {MaxEvents, MaxTime, MaxRestarts} \subseteq Nat

VARIABLES
  log,          \* the observations table of each Controller
  lastId,       \* its AUTOINCREMENT counter
  registered,   \* the Controllers that Controller 1 has registered
  poll,         \* the poll in progress
  cursors,      \* DashboardEvents.cursors
  sequence,     \* DashboardEvents.sequence
  replay,       \* DashboardEvents.replay
  client,       \* the last frame each browser received
  restarts,
  \* The rest is history, read by the properties only.
  seen,         \* the frames each browser received
  merged,       \* the events that went through the merge of a poll
  rejoined      \* Controllers that were unregistered in between

store     == <<log, lastId>>
dashboard == <<poll, cursors, sequence, replay>>
browsers  == <<client, seen>>
obsHistory == <<merged, rejoined>>
obsVars   == <<store, registered, dashboard, browsers, restarts, obsHistory>>

-----------------------------------------------------------------------------
Node == 1..NodeCount
Home == 1
Local == 0     \* the node_id of a hook without WORKBENCH_NODE_ID

\* `at' is the Controller that stores the event; `label' is its node_id.
Event == [at: Node, id: 1..MaxEvents, label: Node \cup {Local}, time: 0..MaxTime]
NoPoll == [active |-> FALSE, asked |-> {}, got |-> {}, cur |-> [n \in Node |-> 0]]

\* observability.query sorts by time, node_id and event_id; the sort is
\* stable and the answers are put together in the order of registration.
SortKey(e) == <<e.time, e.label, e.id, e.at>>
Before(e, f) ==
  \E i \in 1..4 : SortKey(e)[i] < SortKey(f)[i] /\ \A j \in 1..(i - 1) : SortKey(e)[j] = SortKey(f)[j]

\* A fault: the page starts with the event at the cursor.
PageInclusive(n, c) ==
  {e \in log[n] : e.id >= c /\ Cardinality({f \in log[n] : f.id >= c /\ f.id < e.id}) < PageLimit}

\* ObservabilityStore::query: the first PageLimit events after the cursor.
Page(n, c) ==
  {e \in log[n] : e.id > c /\ Cardinality({f \in log[n] : f.id > c /\ f.id < e.id}) < PageLimit}

\* The cursor after a page.
After(page, c) == Max({c} \cup {e.id : e \in page})

\* seen.insert((node_id, event_id)) keeps the first of events that look alike.
Distinct(es) ==
  {e \in es : ~\E f \in es : f.label = e.label /\ f.id = e.id /\ Before(f, e)}

\* split_off keeps the newest.
Newest(es) == {e \in es : Cardinality({f \in es : Before(e, f)}) < PageLimit}

Merged(es) == Newest(Distinct(es))

-----------------------------------------------------------------------------
(* The stores.                                                             *)

\* A fault: without AUTOINCREMENT SQLite takes the largest id plus one.
NextIdOfRows(n) == Max({0} \cup {e.id : e \in log[n]}) + 1

NextId(n) == lastId[n] + 1

\* ObservabilityStore::append, for the Controller itself and for hooks and
\* observers, whose clock was read before the request was sent.
AppendEvent(n, label, time) ==
  /\ lastId[n] < MaxEvents
  /\ lastId' = [lastId EXCEPT ![n] = NextId(n)]
  /\ log' = [log EXCEPT ![n] = @ \cup
       {[at |-> n, id |-> NextId(n), label |-> label, time |-> time]}]
  /\ UNCHANGED <<registered, dashboard, browsers, restarts, obsHistory>>

\* What a Controller records of its own requests and tasks, with its own clock.
OwnEvent(n) == AppendEvent(n, n, MaxTime)

\* A hook that does not know its node, through observation.append.
HookEvent(n) == \E time \in 0..MaxTime : AppendEvent(n, Local, time)

\* prune_with_max_bytes: the expired events, then the oldest rows as long as
\* the database is too large.
Pruned(rows, cutoff, k) ==
  LET young == {e \in rows : e.time >= cutoff}
  IN  {e \in young : Cardinality({f \in young : f.id < e.id}) >= k}

\* A Controller restarts, and open() prunes.  A query it was serving for the
\* dashboard fails.
RestartNode(n) ==
  /\ restarts < MaxRestarts
  /\ restarts' = restarts + 1
  /\ \E cutoff \in 0..(MaxTime + 1), k \in 0..MaxEvents :
       log' = [log EXCEPT ![n] = Pruned(log[n], cutoff, k)]
  /\ poll' = IF n = Home THEN NoPoll ELSE poll
  /\ UNCHANGED <<lastId, registered, cursors, sequence, replay, browsers, obsHistory>>

\* controller.unregister and controller.register.
Unregister(n) ==
  /\ n \in registered
  /\ registered' = registered \ {n}
  /\ UNCHANGED <<store, dashboard, browsers, restarts, obsHistory>>

Register(n) ==
  /\ n \notin registered
  /\ restarts < MaxRestarts
  /\ restarts' = restarts + 1
  /\ registered' = registered \cup {n}
  /\ rejoined' = rejoined \cup {n}
  /\ UNCHANGED <<store, dashboard, browsers, merged>>

-----------------------------------------------------------------------------
(* The poller of the dashboard, once a second.                             *)

\* The cursors of the last answer are sent along; the local page is read and
\* one thread per registered Controller is started.
PollStarts ==
  /\ ~poll.active
  /\ poll' = [active |-> TRUE, asked |-> registered, got |-> Page(Home, cursors[Home]),
              cur |-> [n \in Node |->
                CASE n = Home -> After(Page(Home, cursors[Home]), cursors[Home])
                  [] n \in registered -> cursors[n]
                  [] OTHER -> 0]]
  /\ UNCHANGED <<store, registered, cursors, sequence, replay, browsers, restarts,
                 obsHistory>>

PollAnswered(n) ==
  /\ n \in poll.asked
  /\ poll' = [poll EXCEPT !.asked = @ \ {n}, !.got = @ \cup Page(n, poll.cur[n]),
                          !.cur[n] = After(Page(n, poll.cur[n]), poll.cur[n])]
  /\ UNCHANGED <<store, registered, cursors, sequence, replay, browsers, restarts,
                 obsHistory>>

\* The call failed or timed out: the node is stale, its cursor stays.
PollFails(n) ==
  /\ n \in poll.asked
  /\ poll' = [poll EXCEPT !.asked = @ \ {n}]
  /\ UNCHANGED <<store, registered, cursors, sequence, replay, browsers, restarts,
                 obsHistory>>

\* All threads are joined: the answer is merged, and the poller keeps it.  The
\* cursors it returns cover the Controllers it asked, and no others.
PollEnds ==
  LET frame == Merged(poll.got)
      next  == Append(replay, [seq |-> sequence + 1, events |-> frame])
  IN  /\ poll.active
      /\ poll.asked = {}
      /\ poll' = NoPoll
      /\ cursors' = poll.cur
      /\ IF frame = {} THEN UNCHANGED <<sequence, replay>>
         ELSE /\ sequence' = sequence + 1
              /\ replay' = IF Len(next) > MaxReplay THEN Tail(next) ELSE next
      /\ merged' = merged \cup poll.got
      /\ UNCHANGED <<store, registered, browsers, restarts, rejoined>>

\* The request to Controller 1 failed: the poller tries again with what it had.
PollAborts ==
  /\ poll.active
  /\ poll' = NoPoll
  /\ UNCHANGED <<store, registered, cursors, sequence, replay, browsers, restarts,
                 obsHistory>>

-----------------------------------------------------------------------------
(* The event stream.                                                       *)

\* One turn of the /api/events loop: the frames after the browser's cursor are
\* written up to the k-th, where the connection may break; the browser then
\* reconnects with Last-Event-ID.
Stream(c) ==
  \E i \in DOMAIN replay :
    /\ replay[i].seq > client[c]
    /\ client' = [client EXCEPT ![c] = replay[i].seq]
    /\ seen' = [seen EXCEPT ![c] = @ \cup
         {replay[j].seq : j \in {j \in 1..i : replay[j].seq > client[c]}}]
    /\ UNCHANGED <<store, registered, dashboard, restarts, obsHistory>>

-----------------------------------------------------------------------------
ObsInit ==
  /\ log = [n \in Node |-> {}]
  /\ lastId = [n \in Node |-> 0]
  /\ registered = Node \ {Home}
  /\ poll = NoPoll
  /\ cursors = [n \in Node |-> 0]
  /\ sequence = 0
  /\ replay = <<>>
  /\ client = [c \in Client |-> 0]
  /\ seen = [c \in Client |-> {}]
  /\ restarts = 0
  /\ merged = {} /\ rejoined = {}

ObsNext ==
  \/ \E n \in Node : OwnEvent(n) \/ HookEvent(n) \/ RestartNode(n)
  \/ \E n \in Node \ {Home} : Unregister(n) \/ Register(n) \/ PollAnswered(n) \/ PollFails(n)
  \/ PollStarts \/ PollEnds \/ PollAborts
  \/ \E c \in Client : Stream(c)

ObsSpec == ObsInit /\ [][ObsNext]_obsVars

-----------------------------------------------------------------------------
(* Properties.                                                             *)

ObsTypeOK ==
  /\ \A n \in Node : log[n] \subseteq {e \in Event : e.at = n}
  /\ lastId \in [Node -> 0..MaxEvents]
  /\ registered \subseteq Node \ {Home}
  /\ poll \in [active: BOOLEAN, asked: SUBSET Node, got: SUBSET Event,
               cur: [Node -> 0..MaxEvents]]
  /\ cursors \in [Node -> 0..MaxEvents]
  /\ \A i \in DOMAIN replay : replay[i].seq = sequence - Len(replay) + i
  /\ \A c \in Client : client[c] \in 0..sequence

\* Controllers that fail, restart, prune or are registered anew never make the
\* dashboard skip an event: what is at or below its cursor has been shown, has
\* expired, or was left out by the merge of observability.query itself.
FailureSkipsNothing ==
  \A n \in Node : \A e \in log[n] :
    e.id <= cursors[n] => e \in merged

\* An event is shown once, unless its Controller was unregistered in between
\* (its cursor is then forgotten).
ShownOnce ==
  [][sequence' > sequence =>
       \A e \in replay'[Len(replay')].events : e \notin merged \/ e.at \in rejoined]_obsVars

\* A browser misses no frame that the dashboard still holds, however its
\* connection breaks and however the poller drops old frames meanwhile.
StreamHasNoGap ==
  \A c \in Client : \A s \in 1..client[c] :
    s \in seen[c] \/ s + MaxReplay <= sequence
=============================================================================
