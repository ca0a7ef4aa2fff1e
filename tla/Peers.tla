-------------------------------- MODULE Peers --------------------------------
(***************************************************************************)
(* The peer transport between two nodes (peer.rs, with rpc.rs below it).   *)
(* A connector on node "A" starts, for every attempt, ssh and with it an   *)
(* acceptor on node "B"; each side exposes sockets on which the other      *)
(* node's roles can be called.  Supervisors start connectors again and may *)
(* start two of them, and each side notices by itself that a transport is  *)
(* broken.                                                                 *)
(***************************************************************************)
EXTENDS Naturals, FiniteSets

CONSTANTS
  Connector,    \* connector processes that run on node A
  Call,         \* calls of the exposed sockets
  None,
  MaxAttempts,  \* bound: connection attempts
  MaxCrashes    \* bound: crashes of connectors and acceptors

ASSUME PeersAssumption ==
  /\ None \notin Connector \cup (1..MaxAttempts)
  /\ Connector \cap (1..MaxAttempts) = {}
  /\ {MaxAttempts, MaxCrashes} \subseteq Nat

VARIABLES
  conn,        \* each connector: its step, attempt and generation
  acc,         \* the acceptor of each attempt
  link,        \* the attempts whose transport is not broken
  lockA, lockB,  \* PeerSocketLease of either node
  sockA, sockB,  \* the attempt that listens on the exposed sockets
  status,      \* the PeerStatus file
  attempts, peerCrashes,
  call         \* each call: side, attempt, step, whether it is in `pending',
               \* and where its frame is

ends  == <<conn, acc, link, attempts>>
node  == <<lockA, lockB, sockA, sockB, status>>
peerVars == <<ends, node, peerCrashes, call>>

-----------------------------------------------------------------------------
Attempt == 1..MaxAttempts
NoCall == [step |-> "none", side |-> "A", attempt |-> 0, pending |-> FALSE, frame |-> "none"]
Open == {"accepted", "inserted", "sent"}   \* steps of an unanswered call

Sock(side) == IF side = "A" THEN sockA ELSE sockB

\* The bridge of an attempt reads frames on this side.
Reads(side, a) ==
  IF side = "A" THEN \E k \in Connector : conn[k].attempt = a /\ conn[k].step \in {"probe", "ready"}
                ELSE acc[a] \in {"probe", "serving"}
Other(side) == IF side = "A" THEN "B" ELSE "A"

\* What becomes of the calls of a side when its reader takes `pending' ...
Taken(side, a) ==
  [c \in Call |-> IF call[c].side = side /\ call[c].attempt = a /\ call[c].pending
                  THEN [call[c] EXCEPT !.step = "failed", !.pending = FALSE] ELSE call[c]]
\* ... and when its process dies.
Dropped(side, a) ==
  [c \in Call |-> IF call[c].side = side /\ call[c].attempt = a /\ call[c].step \in Open
                  THEN [call[c] EXCEPT !.step = "failed", !.pending = FALSE] ELSE call[c]]

-----------------------------------------------------------------------------
(* The connector (connect_peer, connect_once).                             *)

\* A fault: an acceptor that still runs does not reserve its exposed sockets.
FreeOfAcceptor(lock) == lock = None \/ lock \in Attempt

\* acquire_peer_lease: flock without waiting.
FreeLock(lock) == lock = None

StartConnector(k) ==
  /\ conn[k].step = "off"
  /\ attempts < MaxAttempts
  /\ FreeLock(lockA)
  /\ lockA' = k
  /\ conn' = [conn EXCEPT ![k] = [step |-> "attempt", attempt |-> 0, generation |-> status.generation + 1]]
  /\ UNCHANGED <<acc, link, attempts, lockB, sockA, sockB, status, peerCrashes, call>>

\* The status is written, old sockets are removed and ssh is started.
StartAttempt(k) ==
  /\ conn[k].step = "attempt"
  /\ attempts < MaxAttempts
  /\ attempts' = attempts + 1
  /\ status' = [generation |-> conn[k].generation, state |-> "connecting"]
  /\ sockA' = None
  /\ conn' = [conn EXCEPT ![k].step = "hello", ![k].attempt = attempts + 1]
  /\ acc' = [acc EXCEPT ![attempts + 1] = "started"]
  /\ link' = link \cup {attempts + 1}
  /\ UNCHANGED <<lockA, lockB, sockB, peerCrashes, call>>

\* HelloAck with the expected node and roles: the bridge is started.
Connected(k) ==
  LET a == conn[k].attempt
  IN  /\ conn[k].step = "hello"
      /\ a \in link
      /\ acc[a] \in {"probe", "serving"}
      /\ conn' = [conn EXCEPT ![k].step = "probe"]
      /\ sockA' = a
      /\ UNCHANGED <<acc, link, attempts, lockA, lockB, sockB, status, peerCrashes, call>>

\* probe_peer_roles: both roles of the other node answer a ping.
ConnectorReady(k) ==
  LET a == conn[k].attempt
  IN  /\ conn[k].step = "probe"
      /\ a \in link
      /\ Reads("B", a)
      /\ conn' = [conn EXCEPT ![k].step = "ready"]
      /\ status' = [generation |-> conn[k].generation, state |-> "ready"]
      /\ UNCHANGED <<acc, link, attempts, lockA, lockB, sockA, sockB, peerCrashes, call>>

\* The handshake fails or the reader ends (a probe that fails ends ssh, and
\* with it the reader): pending calls are answered, the sockets removed, and
\* after the backoff the next attempt has the next generation.
Disconnected(k) ==
  LET a == conn[k].attempt
  IN  /\ conn[k].step \in {"hello", "probe", "ready"}
      /\ a \notin link
      /\ conn' = [conn EXCEPT ![k].step = "attempt", ![k].generation = @ + 1]
      /\ call' = IF conn[k].step = "hello" THEN call ELSE Taken("A", a)
      /\ sockA' = IF conn[k].step = "hello" THEN sockA ELSE None
      /\ status' = [generation |-> conn[k].generation, state |-> "reconnecting"]
      /\ UNCHANGED <<acc, link, attempts, lockA, lockB, sockB, peerCrashes>>

CrashConnector(k) ==
  /\ conn[k].step # "off"
  /\ peerCrashes < MaxCrashes
  /\ peerCrashes' = peerCrashes + 1
  /\ conn' = [conn EXCEPT ![k].step = "off"]
  /\ lockA' = IF lockA = k THEN None ELSE lockA
  /\ link' = link \ {conn[k].attempt}
  /\ sockA' = IF sockA = conn[k].attempt THEN None ELSE sockA
  /\ call' = Dropped("A", conn[k].attempt)
  /\ UNCHANGED <<acc, attempts, lockB, sockB, status>>

\* The network breaks, or a probe times out and the connector ends ssh.
Break(a) ==
  /\ a \in link
  /\ link' = link \ {a}
  /\ UNCHANGED <<conn, acc, attempts, node, peerCrashes, call>>

-----------------------------------------------------------------------------
(* The acceptor (accept_peer).                                             *)

StartAcceptor(a) ==
  /\ acc[a] = "started"
  /\ a \in link
  /\ IF FreeLock(lockB)
     THEN /\ lockB' = a
          /\ acc' = [acc EXCEPT ![a] = "hello"]
          /\ UNCHANGED link
     ELSE /\ acc' = [acc EXCEPT ![a] = "gone"]
          /\ link' = link \ {a}
          /\ UNCHANGED lockB
  /\ UNCHANGED <<conn, attempts, lockA, sockA, sockB, status, peerCrashes, call>>

\* Hello names the expected node; the bridge is started.
Accepted(a) ==
  /\ acc[a] = "hello"
  /\ a \in link
  /\ acc' = [acc EXCEPT ![a] = "probe"]
  /\ sockB' = a
  /\ UNCHANGED <<conn, link, attempts, lockA, lockB, sockA, status, peerCrashes, call>>

AcceptorReady(a) ==
  /\ acc[a] = "probe"
  /\ a \in link
  /\ Reads("A", a)
  /\ acc' = [acc EXCEPT ![a] = "serving"]
  /\ UNCHANGED <<conn, link, attempts, node, peerCrashes, call>>

\* The handshake or the probe fails, the reader ends, or the process crashes.
\* Its end of the pipe is closed, so the transport is broken for good.
AcceptorEnds(a) ==
  /\ acc[a] \in {"started", "hello", "probe", "serving"}
  /\ \/ a \notin link /\ UNCHANGED peerCrashes
     \/ peerCrashes < MaxCrashes /\ peerCrashes' = peerCrashes + 1
  /\ acc' = [acc EXCEPT ![a] = "gone"]
  /\ link' = link \ {a}
  /\ lockB' = IF lockB = a THEN None ELSE lockB
  /\ sockB' = IF acc[a] \in {"probe", "serving"} THEN None ELSE sockB
  /\ call' = Dropped("B", a)
  /\ UNCHANGED <<conn, attempts, lockA, sockA, status>>

-----------------------------------------------------------------------------
(* Calls (PeerBridge::call_with_timeout and read_frames_inner).            *)

\* RpcServer accepts a connection on an exposed socket.
AcceptCall(c, side) ==
  /\ call[c] = NoCall
  /\ Sock(side) # None
  /\ call' = [call EXCEPT ![c] = [step |-> "accepted", side |-> side, attempt |-> Sock(side),
                                  pending |-> FALSE, frame |-> "none"]]
  /\ UNCHANGED <<ends, node, peerCrashes>>

\* The call is registered, even if the reader has already taken the others.
InsertCall(c) ==
  /\ call[c].step = "accepted"
  /\ call' = [call EXCEPT ![c].step = "inserted", ![c].pending = TRUE]
  /\ UNCHANGED <<ends, node, peerCrashes>>

\* A frame that is written to a broken transport is lost.
Written(c, frame) == IF call[c].attempt \in link THEN frame ELSE "none"

\* Its frame is written.  On a broken transport this may fail, or succeed
\* because the pipe to ssh still takes it.
WriteCall(c) ==
  /\ call[c].step = "inserted"
  /\ \/ call' = [call EXCEPT ![c].step = "sent", ![c].frame = Written(c, "wire")]
     \/ /\ call[c].attempt \notin link
        /\ call' = [call EXCEPT ![c].step = "failed", ![c].pending = FALSE]
  /\ UNCHANGED <<ends, node, peerCrashes>>

\* The reader of the other side takes the frame, perhaps out of its buffer after
\* the transport broke, and starts a thread for it.
ReadCall(c) ==
  /\ call[c].frame = "wire"
  /\ Reads(Other(call[c].side), call[c].attempt)
  /\ call' = [call EXCEPT ![c].frame = "read"]
  /\ UNCHANGED <<ends, node, peerCrashes>>

\* The thread calls the local role, also when the reader has ended and nobody
\* waits any more, and writes what the role answers, or LOCAL_ROLE_UNAVAILABLE.
RunCall(c) ==
  /\ call[c].frame = "read"
  /\ \E frame \in {"answer", "unavailable"} : call' = [call EXCEPT ![c].frame = Written(c, frame)]
  /\ UNCHANGED <<ends, node, peerCrashes>>

\* The response frame answers the call if it is still pending.
AnswerCall(c) ==
  /\ call[c].frame \in {"answer", "unavailable"}
  /\ call[c].pending
  /\ Reads(call[c].side, call[c].attempt)
  /\ call' = [call EXCEPT ![c].step = IF call[c].frame = "answer" THEN "ok" ELSE "failed",
                          ![c].pending = FALSE, ![c].frame = "none"]
  /\ UNCHANGED <<ends, node, peerCrashes>>

\* A fault: the wait ends with the transport instead of after a time.
TimeOutConnected(c) ==
  /\ call[c].step = "sent"
  /\ call[c].pending
  /\ call[c].attempt \in link
  /\ call' = [call EXCEPT ![c].step = "failed", ![c].pending = FALSE]
  /\ UNCHANGED <<ends, node, peerCrashes>>

\* recv_timeout.
TimeOut(c) ==
  /\ call[c].step = "sent"
  /\ call[c].pending
  /\ call' = [call EXCEPT ![c].step = "failed", ![c].pending = FALSE]
  /\ UNCHANGED <<ends, node, peerCrashes>>

-----------------------------------------------------------------------------
PeerInit ==
  /\ conn = [k \in Connector |-> [step |-> "off", attempt |-> 0, generation |-> 0]]
  /\ acc = [a \in Attempt |-> "none"]
  /\ link = {}
  /\ lockA = None /\ lockB = None
  /\ sockA = None /\ sockB = None
  /\ status = [generation |-> 0, state |-> "none"]
  /\ attempts = 0
  /\ peerCrashes = 0
  /\ call = [c \in Call |-> NoCall]

PeerNext ==
  \/ \E k \in Connector : \/ StartConnector(k) \/ StartAttempt(k) \/ Connected(k)
                          \/ ConnectorReady(k) \/ Disconnected(k) \/ CrashConnector(k)
  \/ \E a \in Attempt : \/ Break(a) \/ StartAcceptor(a) \/ Accepted(a)
                        \/ AcceptorReady(a) \/ AcceptorEnds(a)
  \/ \E c \in Call : \/ \E side \in {"A", "B"} : AcceptCall(c, side)
                     \/ InsertCall(c) \/ WriteCall(c) \/ ReadCall(c) \/ RunCall(c)
                     \/ AnswerCall(c) \/ TimeOut(c)

\* The thread of a call goes on, and its timer fires.
PeerFairness ==
  \A c \in Call : WF_peerVars(InsertCall(c) \/ WriteCall(c) \/ TimeOut(c))

PeerSpec == PeerInit /\ [][PeerNext]_peerVars /\ PeerFairness

-----------------------------------------------------------------------------
(* Properties.                                                             *)

PeerTypeOK ==
  /\ \A k \in Connector : conn[k].step \in {"off", "attempt", "hello", "probe", "ready"}
  /\ \A a \in Attempt : acc[a] \in {"none", "started", "hello", "probe", "serving", "gone"}
  /\ link \subseteq Attempt
  /\ lockA \in Connector \cup {None} /\ lockB \in Attempt \cup {None}
  /\ {sockA, sockB} \subseteq Attempt \cup {None}
  /\ \A c \in Call : /\ call[c].step \in {"none", "ok", "failed"} \cup Open
                     /\ call[c].pending => call[c].step \in {"inserted", "sent"}

\* While a bridge reads frames its exposed sockets are its own, on both nodes:
\* neither a second connector nor a retry that meets an acceptor of a broken
\* transport takes them away.
SocketsStay ==
  /\ \A k \in Connector : conn[k].step \in {"probe", "ready"} => sockA = conn[k].attempt
  /\ \A a \in Attempt : acc[a] \in {"probe", "serving"} => sockB = a

\* An attempt that is to come has a higher generation than the status file
\* tells, over restarts and crashes; one under way has that of the file.
GenerationFresh ==
  \A k \in Connector :
    /\ conn[k].step = "attempt" => conn[k].generation > status.generation
    /\ conn[k].step \in {"hello", "probe", "ready"} => conn[k].generation = status.generation

\* An exposed socket that takes calls leads to a bridge that reads: none is left
\* behind by a bridge that ended, nor put back over the one of its successor.
SocketsServed ==
  /\ sockA # None => Reads("A", sockA)
  /\ sockB # None => Reads("B", sockB)

\* The invariants of the peer transport: types, exposed sockets that belong to
\* the bridge that reads, and lead to no other, and generations that are not
\* reused.
PeerInv == PeerTypeOK /\ SocketsStay /\ SocketsServed /\ GenerationFresh

\* Every call is answered, also one that is registered after the reader of a
\* broken transport has answered the others.
CallsAnswered == \A c \in Call : call[c].step = "accepted" ~> call[c].step \in {"ok", "failed"}
=============================================================================
