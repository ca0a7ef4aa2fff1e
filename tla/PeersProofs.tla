----------------------------- MODULE PeersProofs -----------------------------
(***************************************************************************)
(* Proofs about Peers, for any connectors, calls and bounds.  SocketsStay  *)
(* and GenerationFresh rest on the two leases: a connector that is not off *)
(* holds that of node A (LeaseA), an acceptor past its start that of node  *)
(* B (LeaseB).                                                             *)
(***************************************************************************)
EXTENDS Peers, TLAPS

ConnRecord == [step: {"off", "attempt", "hello", "probe", "ready"}, attempt: 0..MaxAttempts,
               generation: Nat]
CallRecord == [step: {"none", "ok", "failed"} \cup Open, side: {"A", "B"},
               attempt: 0..MaxAttempts, pending: BOOLEAN,
               frame: {"none", "wire", "read", "answer", "unavailable"}]

EndTypes ==
  /\ conn \in [Connector -> ConnRecord]
  /\ acc \in [Attempt -> {"none", "started", "hello", "probe", "serving", "gone"}]
  /\ link \subseteq Attempt
  /\ lockA \in Connector \cup {None} /\ lockB \in Attempt \cup {None}
  /\ sockA \in Attempt \cup {None} /\ sockB \in Attempt \cup {None}
  /\ status.generation \in Nat
  /\ attempts \in 0..MaxAttempts
  /\ \A a \in Attempt : a > attempts => acc[a] = "none"

LeaseA == \A k \in Connector : conn[k].step # "off" => lockA = k
LeaseB == \A a \in Attempt : acc[a] \in {"hello", "probe", "serving"} => lockB = a

\* A call in `pending' waits for its answer.
Waits(r) == r.pending => r.step \in {"inserted", "sent"}
CallTypes == call \in [Call -> CallRecord] /\ \A c \in Call : Waits(call[c])

PeerIInv == EndTypes /\ LeaseA /\ LeaseB /\ SocketsStay /\ SocketsServed /\ GenerationFresh /\ CallTypes

-----------------------------------------------------------------------------
(* Calls.                                                                  *)

\* A call that is given up is no longer in `pending'.
LEMMA FailedCall ==
  ASSUME NEW r \in CallRecord, Waits(r), r.pending \/ r.step \in Open
  PROVE  /\ [r EXCEPT !.step = "failed", !.pending = FALSE] \in CallRecord
         /\ Waits([r EXCEPT !.step = "failed", !.pending = FALSE])
  BY DEF CallRecord, Waits, Open

LEMMA TakenCalls ==
  ASSUME CallTypes, NEW side, NEW a, call' = Taken(side, a) \/ call' = Dropped(side, a)
  PROVE  CallTypes'
  <1>1. ASSUME NEW c \in Call
        PROVE  /\ Taken(side, a)[c] \in CallRecord /\ Waits(Taken(side, a)[c])
               /\ Dropped(side, a)[c] \in CallRecord /\ Waits(Dropped(side, a)[c])
    <2>1. call[c] \in CallRecord /\ Waits(call[c])
        BY DEF CallTypes
    <2> DEFINE f == [call[c] EXCEPT !.step = "failed", !.pending = FALSE]
    <2>2. call[c].pending \/ call[c].step \in Open => f \in CallRecord /\ Waits(f)
        BY <2>1, FailedCall
    <2>3. /\ Taken(side, a)[c] = call[c] \/ (call[c].pending /\ Taken(side, a)[c] = f)
          /\ Dropped(side, a)[c] = call[c] \/ (call[c].step \in Open /\ Dropped(side, a)[c] = f)
        BY DEF Taken, Dropped
    <2> HIDE DEF f
    <2> QED
        BY <2>1, <2>2, <2>3
  <1>2. Taken(side, a) \in [Call -> CallRecord] /\ Dropped(side, a) \in [Call -> CallRecord]
    <2>1. /\ Taken(side, a) = [c \in Call |-> Taken(side, a)[c]]
          /\ Dropped(side, a) = [c \in Call |-> Dropped(side, a)[c]]
        BY DEF Taken, Dropped
    <2> QED
        BY <1>1, <2>1
  <1> QED
      BY <1>1, <1>2 DEF CallTypes

\* The steps of a call by itself.
LEMMA CallNext ==
  ASSUME EndTypes, CallTypes, NEW c \in Call,
         \/ \E side \in {"A", "B"} : AcceptCall(c, side)
         \/ InsertCall(c) \/ WriteCall(c) \/ ReadCall(c) \/ RunCall(c)
         \/ AnswerCall(c) \/ TimeOut(c)
  PROVE  CallTypes' /\ UNCHANGED <<ends, node>>
  <1>1. call \in [Call -> CallRecord] /\ call[c] \in CallRecord /\ Waits(call[c])
      BY DEF CallTypes
  <1>2. SUFFICES ASSUME NEW r, r \in CallRecord, Waits(r), call' = [call EXCEPT ![c] = r]
                 PROVE  CallTypes'
    <2>1. ASSUME NEW side \in {"A", "B"}, AcceptCall(c, side)
          PROVE  \E r \in CallRecord : Waits(r) /\ call' = [call EXCEPT ![c] = r]
      <3> DEFINE r == [step |-> "accepted", side |-> side, attempt |-> Sock(side),
                       pending |-> FALSE, frame |-> "none"]
      <3>1. Sock(side) \in 0..MaxAttempts
          BY <2>1 DEF AcceptCall, Sock, EndTypes, Attempt
      <3>2. r \in CallRecord /\ Waits(r)
          BY <3>1 DEF CallRecord, Waits, Open
      <3>3. call' = [call EXCEPT ![c] = r]
          BY <2>1 DEF AcceptCall
      <3> HIDE DEF r
      <3> QED
          BY <3>2, <3>3
    <2>2. ASSUME InsertCall(c)
          PROVE  \E r \in CallRecord : Waits(r) /\ call' = [call EXCEPT ![c] = r]
      <3> DEFINE r == [call[c] EXCEPT !.step = "inserted", !.pending = TRUE]
      <3>1. r \in CallRecord /\ Waits(r)
          BY <1>1, <2>2 DEF InsertCall, CallRecord, Waits, Open
      <3>2. call' = [call EXCEPT ![c] = r]
          BY <1>1, <2>2 DEF InsertCall, CallRecord
      <3> HIDE DEF r
      <3> QED
          BY <3>1, <3>2
    <2>3. ASSUME WriteCall(c)
          PROVE  \E r \in CallRecord : Waits(r) /\ call' = [call EXCEPT ![c] = r]
      <3> DEFINE r == [call[c] EXCEPT !.step = "sent", !.frame = Written(c, "wire")]
                 f == [call[c] EXCEPT !.step = "failed", !.pending = FALSE]
      <3>1. r \in CallRecord /\ Waits(r) /\ f \in CallRecord /\ Waits(f)
          BY <1>1, <2>3, FailedCall DEF WriteCall, Written, CallRecord, Waits, Open
      <3>2. call' = [call EXCEPT ![c] = r] \/ call' = [call EXCEPT ![c] = f]
          BY <1>1, <2>3 DEF WriteCall, CallRecord
      <3> HIDE DEF r, f
      <3> QED
          BY <3>1, <3>2
    <2>4. ASSUME ReadCall(c) \/ RunCall(c)
          PROVE  \E r \in CallRecord : Waits(r) /\ call' = [call EXCEPT ![c] = r]
      <3>1. PICK frame \in {"none", "read", "answer", "unavailable"} :
              call' = [call EXCEPT ![c].frame = frame]
          BY <2>4 DEF ReadCall, RunCall, Written
      <3> DEFINE r == [call[c] EXCEPT !.frame = frame]
      <3>2. r \in CallRecord /\ Waits(r)
          BY <1>1 DEF CallRecord, Waits
      <3>3. call' = [call EXCEPT ![c] = r]
          BY <1>1, <3>1 DEF CallRecord
      <3> HIDE DEF r
      <3> QED
          BY <3>2, <3>3
    <2>5. ASSUME AnswerCall(c)
          PROVE  \E r \in CallRecord : Waits(r) /\ call' = [call EXCEPT ![c] = r]
      <3>1. PICK step \in {"ok", "failed"} :
              call' = [call EXCEPT ![c].step = step, ![c].pending = FALSE, ![c].frame = "none"]
          BY <2>5 DEF AnswerCall
      <3> DEFINE r == [call[c] EXCEPT !.step = step, !.pending = FALSE, !.frame = "none"]
      <3>2. r \in CallRecord /\ Waits(r)
          BY <1>1 DEF CallRecord, Waits
      <3>3. call' = [call EXCEPT ![c] = r]
          BY <1>1, <3>1 DEF CallRecord
      <3> HIDE DEF r
      <3> QED
          BY <3>2, <3>3
    <2>6. ASSUME TimeOut(c)
          PROVE  \E r \in CallRecord : Waits(r) /\ call' = [call EXCEPT ![c] = r]
      <3> DEFINE f == [call[c] EXCEPT !.step = "failed", !.pending = FALSE]
      <3>1. f \in CallRecord /\ Waits(f)
          BY <1>1, <2>6, FailedCall DEF TimeOut
      <3>2. call' = [call EXCEPT ![c] = f]
          BY <1>1, <2>6 DEF TimeOut, CallRecord
      <3> HIDE DEF f
      <3> QED
          BY <3>1, <3>2
    <2>7. UNCHANGED <<ends, node>>
        BY DEF AcceptCall, InsertCall, WriteCall, ReadCall, RunCall, AnswerCall, TimeOut
    <2> QED
        BY <1>2, <2>1, <2>2, <2>3, <2>4, <2>5, <2>6, <2>7
  <1> QED
      BY <1>1, <1>2 DEF CallTypes

-----------------------------------------------------------------------------
(* Connectors and acceptors.                                               *)

Ends == EndTypes /\ LeaseA /\ LeaseB /\ SocketsStay /\ SocketsServed /\ GenerationFresh

\* What connector k does to itself; the others stay.
ConnSets(k, s, a, g) ==
  /\ conn'[k].step = s /\ conn'[k].attempt = a /\ conn'[k].generation = g
  /\ \A j \in Connector \ {k} : conn'[j] = conn[j]

LEMMA ConnectorNext ==
  ASSUME Ends, CallTypes, NEW k \in Connector,
         \/ StartConnector(k) \/ StartAttempt(k) \/ Connected(k)
         \/ ConnectorReady(k) \/ Disconnected(k) \/ CrashConnector(k)
  PROVE  Ends' /\ CallTypes'
  <1>0. conn[k] \in ConnRecord /\ attempts \in Nat /\ MaxAttempts \in Nat
      BY PeersAssumption DEF Ends, EndTypes
  <1>1. CASE StartConnector(k)
    <2>1. /\ conn' \in [Connector -> ConnRecord]
          /\ ConnSets(k, "attempt", 0, status.generation + 1)
        BY <1>0, <1>1 DEF StartConnector, Ends, EndTypes, ConnRecord, ConnSets
    <2>2. /\ lockA = None /\ lockA' = k
          /\ UNCHANGED <<acc, link, attempts, lockB, sockA, sockB, status, call>>
        BY <1>1 DEF StartConnector, FreeLock
    <2>3. \A j \in Connector : conn[j].step = "off"
        BY <2>2, PeersAssumption DEF Ends, LeaseA
    <2>4. EndTypes' /\ LeaseA' /\ LeaseB'
        BY <2>1, <2>2, <2>3 DEF Ends, EndTypes, LeaseA, LeaseB, ConnSets
    <2>5. SocketsStay' /\ SocketsServed' /\ GenerationFresh'
        BY <2>1, <2>2, <2>3
           DEF Ends, EndTypes, SocketsStay, SocketsServed, Reads, GenerationFresh, ConnSets
    <2> QED
        BY <2>2, <2>4, <2>5 DEF Ends, CallTypes
  <1>2. CASE StartAttempt(k)
    <2>1. /\ attempts < MaxAttempts /\ attempts' = attempts + 1 /\ sockA' = None
          /\ status' = [generation |-> conn[k].generation, state |-> "connecting"]
          /\ conn' = [conn EXCEPT ![k].step = "hello", ![k].attempt = attempts + 1]
          /\ acc' = [acc EXCEPT ![attempts + 1] = "started"]
          /\ link' = link \cup {attempts + 1}
          /\ UNCHANGED <<lockA, lockB, sockB, call>>
        BY <1>2 DEF StartAttempt
    <2>2. attempts + 1 \in Attempt /\ attempts + 1 \in 0..MaxAttempts
        BY <1>0, <2>1 DEF Attempt
    <2>3. /\ conn' \in [Connector -> ConnRecord]
          /\ ConnSets(k, "hello", attempts + 1, conn[k].generation)
      <3> DEFINE r == [conn[k] EXCEPT !.step = "hello", !.attempt = attempts + 1]
      <3>1. /\ r \in ConnRecord /\ r.step = "hello" /\ r.attempt = attempts + 1
            /\ r.generation = conn[k].generation
          BY <1>0, <2>2 DEF ConnRecord
      <3>2. conn' = [conn EXCEPT ![k] = r]
          BY <2>1 DEF Ends, EndTypes
      <3> HIDE DEF r
      <3> QED
          BY <3>1, <3>2 DEF Ends, EndTypes, ConnSets
    <2>4. lockA = k /\ \A j \in Connector \ {k} : conn[j].step = "off"
        BY <1>2 DEF StartAttempt, Ends, LeaseA
    <2>5. status'.generation = conn[k].generation /\ conn[k].generation \in Nat
        BY <1>0, <2>1 DEF ConnRecord
    <2>6. EndTypes'
        BY <1>0, <2>1, <2>2, <2>3, <2>5 DEF Ends, EndTypes, Attempt
    <2>7. LeaseA' /\ LeaseB'
        BY <2>1, <2>2, <2>3, <2>4 DEF Ends, EndTypes, LeaseA, LeaseB, ConnSets
    <2>8. acc[attempts + 1] = "none"
        BY <1>0, <2>2 DEF Ends, EndTypes
    <2>9. SocketsStay' /\ SocketsServed' /\ GenerationFresh'
        BY <2>1, <2>2, <2>3, <2>4, <2>5, <2>8
           DEF Ends, EndTypes, SocketsStay, SocketsServed, Reads, GenerationFresh, ConnSets
    <2> QED
        BY <2>1, <2>6, <2>7, <2>9 DEF Ends, CallTypes
  <1>3. CASE Connected(k)
    <2>1. /\ conn[k].step = "hello" /\ conn[k].attempt \in link /\ sockA' = conn[k].attempt
          /\ conn' = [conn EXCEPT ![k].step = "probe"]
          /\ UNCHANGED <<acc, link, attempts, lockA, lockB, sockB, status, call>>
        BY <1>3 DEF Connected
    <2>2. /\ conn' \in [Connector -> ConnRecord]
          /\ ConnSets(k, "probe", conn[k].attempt, conn[k].generation)
        BY <1>0, <2>1 DEF Ends, EndTypes, ConnRecord, ConnSets
    <2>3. lockA = k /\ \A j \in Connector \ {k} : conn[j].step = "off"
        BY <2>1 DEF Ends, LeaseA
    <2>4. EndTypes' /\ LeaseA' /\ LeaseB'
        BY <2>1, <2>2, <2>3 DEF Ends, EndTypes, LeaseA, LeaseB, ConnSets
    <2>5. SocketsStay' /\ SocketsServed' /\ GenerationFresh'
        BY <2>1, <2>2, <2>3
           DEF Ends, EndTypes, SocketsStay, SocketsServed, Reads, GenerationFresh, ConnSets
    <2> QED
        BY <2>1, <2>4, <2>5 DEF Ends, CallTypes
  <1>4. CASE ConnectorReady(k)
    <2>1. /\ conn[k].step = "probe" /\ conn' = [conn EXCEPT ![k].step = "ready"]
          /\ status' = [generation |-> conn[k].generation, state |-> "ready"]
          /\ UNCHANGED <<acc, link, attempts, lockA, lockB, sockA, sockB, call>>
        BY <1>4 DEF ConnectorReady
    <2>2. /\ conn' \in [Connector -> ConnRecord]
          /\ ConnSets(k, "ready", conn[k].attempt, conn[k].generation)
        BY <1>0, <2>1 DEF Ends, EndTypes, ConnRecord, ConnSets
    <2>3. /\ lockA = k /\ \A j \in Connector \ {k} : conn[j].step = "off"
          /\ status'.generation = conn[k].generation /\ conn[k].generation \in Nat
        BY <1>0, <2>1 DEF Ends, LeaseA, ConnRecord
    <2>4. EndTypes' /\ LeaseA' /\ LeaseB'
        BY <2>1, <2>2, <2>3 DEF Ends, EndTypes, LeaseA, LeaseB, ConnSets
    <2>5. SocketsStay' /\ SocketsServed' /\ GenerationFresh'
        BY <2>1, <2>2, <2>3
           DEF Ends, EndTypes, SocketsStay, SocketsServed, Reads, GenerationFresh, ConnSets
    <2> QED
        BY <2>1, <2>4, <2>5 DEF Ends, CallTypes
  <1>5. CASE Disconnected(k)
    <2>1. /\ conn[k].step \in {"hello", "probe", "ready"}
          /\ conn' = [conn EXCEPT ![k].step = "attempt", ![k].generation = @ + 1]
          /\ call' = IF conn[k].step = "hello" THEN call ELSE Taken("A", conn[k].attempt)
          /\ sockA' = IF conn[k].step = "hello" THEN sockA ELSE None
          /\ status' = [generation |-> conn[k].generation, state |-> "reconnecting"]
          /\ UNCHANGED <<acc, link, attempts, lockA, lockB, sockB>>
        BY <1>5 DEF Disconnected
    <2>2. /\ conn' \in [Connector -> ConnRecord]
          /\ ConnSets(k, "attempt", conn[k].attempt, conn[k].generation + 1)
      <3> DEFINE r == [step |-> "attempt", attempt |-> conn[k].attempt,
                       generation |-> conn[k].generation + 1]
      <3>1. r \in ConnRecord
          BY <1>0 DEF ConnRecord
      <3>2. conn' = [conn EXCEPT ![k] = r]
          BY <1>0, <2>1 DEF Ends, EndTypes, ConnRecord
      <3> QED
          BY <3>1, <3>2 DEF Ends, EndTypes, ConnSets
    <2>3. /\ lockA = k /\ \A j \in Connector \ {k} : conn[j].step = "off"
          /\ status'.generation = conn[k].generation /\ conn[k].generation \in Nat
        BY <1>0, <2>1 DEF Ends, LeaseA, ConnRecord
    <2>4. EndTypes' /\ LeaseA' /\ LeaseB'
        BY <2>1, <2>2, <2>3 DEF Ends, EndTypes, LeaseA, LeaseB, ConnSets
    <2>5. SocketsStay' /\ SocketsServed' /\ GenerationFresh'
        BY <2>1, <2>2, <2>3
           DEF Ends, EndTypes, SocketsStay, SocketsServed, Reads, GenerationFresh, ConnSets
    <2>6. CallTypes'
        BY <2>1, TakenCalls DEF CallTypes
    <2> QED
        BY <2>4, <2>5, <2>6 DEF Ends
  <1>6. CASE CrashConnector(k)
    <2>1. /\ conn[k].step # "off" /\ conn' = [conn EXCEPT ![k].step = "off"]
          /\ lockA' = IF lockA = k THEN None ELSE lockA
          /\ link' = link \ {conn[k].attempt}
          /\ sockA' = IF sockA = conn[k].attempt THEN None ELSE sockA
          /\ call' = Dropped("A", conn[k].attempt)
          /\ UNCHANGED <<acc, attempts, lockB, sockB, status>>
        BY <1>6 DEF CrashConnector
    <2>2. /\ conn' \in [Connector -> ConnRecord]
          /\ ConnSets(k, "off", conn[k].attempt, conn[k].generation)
        BY <1>0, <2>1 DEF Ends, EndTypes, ConnRecord, ConnSets
    <2>3. lockA = k /\ \A j \in Connector \ {k} : conn[j].step = "off"
        BY <2>1 DEF Ends, LeaseA
    <2>4. EndTypes' /\ LeaseA' /\ LeaseB'
        BY <2>1, <2>2, <2>3 DEF Ends, EndTypes, LeaseA, LeaseB, ConnSets
    <2>5. SocketsStay' /\ SocketsServed' /\ GenerationFresh'
        BY <2>1, <2>2, <2>3
           DEF Ends, EndTypes, SocketsStay, SocketsServed, Reads, GenerationFresh, ConnSets
    <2>6. CallTypes'
        BY <2>1, TakenCalls
    <2> QED
        BY <2>4, <2>5, <2>6 DEF Ends
  <1> QED
      BY <1>1, <1>2, <1>3, <1>4, <1>5, <1>6

LEMMA AcceptorNext ==
  ASSUME Ends, CallTypes, NEW a \in Attempt,
         Break(a) \/ StartAcceptor(a) \/ Accepted(a) \/ AcceptorReady(a) \/ AcceptorEnds(a)
  PROVE  Ends' /\ CallTypes'
  <1>1. CASE Break(a)
      BY <1>1
         DEF Break, node, Ends, EndTypes, LeaseA, LeaseB, SocketsStay, SocketsServed, Reads, GenerationFresh,
             CallTypes
  <1>2. CASE StartAcceptor(a)
    <2>1. /\ acc[a] = "started" /\ link' \subseteq link
          /\ \/ lockB = None /\ lockB' = a /\ acc' = [acc EXCEPT ![a] = "hello"]
             \/ lockB' = lockB /\ acc' = [acc EXCEPT ![a] = "gone"]
          /\ UNCHANGED <<conn, attempts, lockA, sockA, sockB, status, call>>
        BY <1>2 DEF StartAcceptor, FreeLock
    <2>2. None \notin Attempt
        BY PeersAssumption DEF Attempt
    <2>3. EndTypes' /\ LeaseA' /\ LeaseB'
        BY <2>1, <2>2 DEF Ends, EndTypes, LeaseA, LeaseB
    <2>4. SocketsStay' /\ SocketsServed' /\ GenerationFresh'
        BY <2>1 DEF Ends, EndTypes, SocketsStay, SocketsServed, Reads, GenerationFresh
    <2> QED
        BY <2>1, <2>3, <2>4 DEF Ends, CallTypes
  <1>3. CASE Accepted(a) \/ AcceptorReady(a)
    <2>1. /\ \/ acc[a] = "hello" /\ acc' = [acc EXCEPT ![a] = "probe"] /\ sockB' = a
             \/ acc[a] = "probe" /\ acc' = [acc EXCEPT ![a] = "serving"] /\ sockB' = sockB
          /\ UNCHANGED <<conn, link, attempts, lockA, lockB, sockA, status, call>>
        BY <1>3 DEF Accepted, AcceptorReady, node
    <2>2. \A b \in Attempt \ {a} : acc[b] \notin {"hello", "probe", "serving"}
        BY <2>1 DEF Ends, LeaseB
    <2>3. EndTypes' /\ LeaseA' /\ LeaseB'
        BY <2>1 DEF Ends, EndTypes, LeaseA, LeaseB
    <2>4. SocketsStay' /\ SocketsServed' /\ GenerationFresh'
        BY <2>1, <2>2 DEF Ends, EndTypes, SocketsStay, SocketsServed, Reads, GenerationFresh
    <2> QED
        BY <2>1, <2>3, <2>4 DEF Ends, CallTypes
  <1>4. CASE AcceptorEnds(a)
    <2>1. /\ acc[a] # "none" /\ acc' = [acc EXCEPT ![a] = "gone"] /\ link' \subseteq link
          /\ lockB' = IF lockB = a THEN None ELSE lockB
          /\ sockB' = IF acc[a] \in {"probe", "serving"} THEN None ELSE sockB
          /\ call' = Dropped("B", a)
          /\ UNCHANGED <<conn, attempts, lockA, sockA, status>>
        BY <1>4 DEF AcceptorEnds
    <2>2. acc[a] \in {"probe", "serving"} => \A b \in Attempt \ {a} : acc[b] \notin {"hello", "probe", "serving"}
        BY <2>1 DEF Ends, LeaseB
    <2>3. EndTypes' /\ LeaseA' /\ LeaseB'
        BY <2>1 DEF Ends, EndTypes, LeaseA, LeaseB
    <2>4. SocketsStay' /\ SocketsServed' /\ GenerationFresh'
        BY <2>1, <2>2 DEF Ends, EndTypes, SocketsStay, SocketsServed, Reads, GenerationFresh
    <2>5. CallTypes'
        BY <2>1, TakenCalls
    <2> QED
        BY <2>3, <2>4, <2>5 DEF Ends
  <1> QED
      BY <1>1, <1>2, <1>3, <1>4

-----------------------------------------------------------------------------
LEMMA PeerIInvInit ==
  ASSUME PeerInit PROVE PeerIInv
  <1>1. EndTypes /\ LeaseA /\ LeaseB /\ SocketsStay /\ SocketsServed /\ GenerationFresh
      BY PeersAssumption
      DEF PeerInit, EndTypes, ConnRecord, LeaseA, LeaseB, SocketsStay, SocketsServed, Reads, GenerationFresh
  <1>2. CallTypes
    <2>1. NoCall \in CallRecord /\ Waits(NoCall)
        BY PeersAssumption DEF NoCall, CallRecord, Waits
    <2> QED
        BY <2>1 DEF PeerInit, CallTypes
  <1> QED
      BY <1>1, <1>2 DEF PeerIInv

LEMMA PeerIInvNext ==
  ASSUME PeerIInv, [PeerNext]_peerVars PROVE PeerIInv'
  <1>1. ASSUME NEW k \in Connector,
               \/ StartConnector(k) \/ StartAttempt(k) \/ Connected(k)
               \/ ConnectorReady(k) \/ Disconnected(k) \/ CrashConnector(k)
        PROVE  PeerIInv'
      BY <1>1, ConnectorNext DEF PeerIInv, Ends
  <1>2. ASSUME NEW a \in Attempt,
               Break(a) \/ StartAcceptor(a) \/ Accepted(a) \/ AcceptorReady(a) \/ AcceptorEnds(a)
        PROVE  PeerIInv'
      BY <1>2, AcceptorNext DEF PeerIInv, Ends
  <1>3. ASSUME UNCHANGED <<ends, node>> PROVE Ends'
      BY <1>3
         DEF PeerIInv, Ends, ends, node, EndTypes, LeaseA, LeaseB, SocketsStay, SocketsServed, Reads, GenerationFresh
  <1>4. ASSUME NEW c \in Call,
               \/ \E side \in {"A", "B"} : AcceptCall(c, side)
               \/ InsertCall(c) \/ WriteCall(c) \/ ReadCall(c) \/ RunCall(c)
               \/ AnswerCall(c) \/ TimeOut(c)
        PROVE  PeerIInv'
      BY <1>3, <1>4, CallNext DEF PeerIInv, Ends
  <1>5. CASE UNCHANGED peerVars
      BY <1>3, <1>5 DEF PeerIInv, Ends, peerVars, CallTypes
  <1> QED
      BY <1>1, <1>2, <1>4, <1>5 DEF PeerNext

\* Connectors, acceptors and bridges keep to the invariant, whatever attempts,
\* timeouts, reconnections and crashes interleave.
THEOREM PeerInvariance == PeerSpec => []PeerIInv
  BY PeerIInvInit, PeerIInvNext, PTL DEF PeerSpec

\* While a bridge reads its sockets are its own, a socket that takes calls leads
\* to a bridge that reads, and a new attempt has a new generation: for any number
\* of connectors, attempts, crashes and calls.
THEOREM PeerTransportSafe == PeerSpec => []PeerInv
  <1>1. PeerIInv => PeerInv
    <2> SUFFICES ASSUME PeerIInv PROVE PeerInv
        OBVIOUS
    <2>1. PeerTypeOK
        BY DEF PeerIInv, EndTypes, ConnRecord, CallTypes, CallRecord, Waits, PeerTypeOK
    <2> QED
        BY <2>1 DEF PeerIInv, PeerInv
  <1> QED
      BY <1>1, PeerInvariance, PTL
=============================================================================
