-------------------------- MODULE MCControllerWork --------------------------
(* Observability and Invocations for TLC.  The two share no state, so one  *)
(* of them runs in every behaviour; invocations, and approvals of the same *)
(* command, are interchangeable.                                           *)
EXTENDS Observability, Invocations, TLC

CONSTANTS k1, a1, a2
Commands == (a1 :> k1) @@ (a2 :> k1)

VARIABLE part

Init == ObsInit /\ InvInit /\ part \in {"observability", "invocations"}
Next ==
  \/ part = "observability" /\ ObsNext /\ UNCHANGED <<part, invVars>>
  \/ part = "invocations" /\ InvNext /\ UNCHANGED <<part, obsVars>>
Spec == Init /\ [][Next]_<<part, obsVars, invVars>>

Symmetry == Permutations(Invocation) \cup Permutations(Approval)

\* What can still matter, of the part that runs.  Nothing reads more of an
\* invocation that has ended and whose command does not work than its key, the
\* tasks and the lock in the file when no restart can follow, or the events of a
\* frame once it is kept.
ObsView ==
  <<store, registered, poll, cursors, sequence, Len(replay), browsers, restarts, obsHistory>>
InvView ==
  <<records, working, active, spent, revoked, pruned, uncancelled, restarted, faults,
    IF faults < MaxFaults THEN disk ELSE disk.approval,
    [t \in Invocation |-> IF inv[t].step = "done" /\ t \notin working THEN inv[t].key ELSE inv[t]]>>
View == <<part, IF part = "observability" THEN ObsView ELSE InvView>>

\* The variables have their types and async_active counts the workers under
\* way (InvTypeOK); an approval whose revocation was confirmed is never usable
\* again (RevokedForGood); a browser misses no frame that the dashboard still
\* holds (StreamHasNoGap).
ControllerInv == ObsTypeOK /\ InvTypeOK /\ RevokedForGood /\ StreamHasNoGap
=============================================================================
