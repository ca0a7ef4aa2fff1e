--------------------------- MODULE MCExecutorWork ---------------------------
(* Relay and Processes for TLC.  The two share no state, so one of them    *)
(* runs in every behaviour; transfers, threads and process ids are         *)
(* interchangeable.                                                        *)
EXTENDS Relay, Processes, TLC

VARIABLE part

Init ==
  /\ RelayInit /\ ProcInit
  /\ \/ part = "relay"
     \/ part = "processes" /\ mode = [t \in Transfer |-> "local"]
Next ==
  \/ part = "relay" /\ RelayNext /\ UNCHANGED <<part, procVars>>
  \/ part = "processes" /\ ProcNext /\ UNCHANGED <<part, relayVars>>
Spec == Init /\ [][Next]_<<part, relayVars, procVars>>

Symmetry == Permutations(Transfer) \cup Permutations(Thread) \cup Permutations(Pid)

\* What can still matter, of the part that runs.  Nothing reads the copies of a
\* transfer that has ended and has no call under way any more, a backup that is
\* neither the one in place of the destination nor that of the commit that runs,
\* the births a request had seen when it is past its signal, or (here)
\* stopReturned.
Over(t) == pc[t] \in {"done", "failed", "gone"} /\ request[t] = NoRequest /\ op.by # t
Needed(t) == op.by = t \/ (dest = Missing /\ latest = t)
RelayView ==
  <<source, changes, pc, request, holder, op, inDoubt, dest, faults, past, installed,
    [t \in Transfer |-> IF Over(t) THEN "over" ELSE <<mode[t], pos[t], want[t], archive[t], staging[t]>>],
    [t \in Transfer |-> IF Needed(t) THEN backup[t] ELSE Missing],
    IF dest = Missing THEN latest ELSE Nobody>>
ProcView ==
  <<os, births, records, quarantined, portTaken, waiter, procCrashes, overlapped, strangers,
    [t \in Thread |-> IF thread[t] = Idle \/ thread[t].step = "signal" THEN thread[t]
                      ELSE [thread[t] EXCEPT !.seen = 0]]>>
View == <<part, IF part = "relay" THEN RelayView ELSE ProcView>>

\* The variables have their types; a commit is not disturbed as long as it
\* runs (CommitUndisturbed), and a transfer that reports success has put its
\* artifact at the destination (SuccessMeansInstalled).
ExecutorInv == RelayTypeOK /\ ProcTypeOK /\ CommitUndisturbed /\ SuccessMeansInstalled
=============================================================================
