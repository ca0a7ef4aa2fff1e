-------------------------- MODULE MCSharedRecords ---------------------------
(* ReadGrants and Generations for TLC.  The two share no state, so one of  *)
(* them runs in every behaviour; generations are interchangeable.          *)
EXTENDS ReadGrants, Generations, TLC

\* Dispatches in pairs share a millisecond.
Times == <<1, 2, 2, 3, 4, 4, 5, 6, 6>>

VARIABLE part

Init == GrantInit /\ GenInit /\ part \in {"grants", "generations"}
Next ==
  \/ part = "grants" /\ GrantNext /\ UNCHANGED <<part, genVars>>
  \/ part = "generations" /\ GenNext /\ UNCHANGED <<part, grantVars>>
Spec == Init /\ [][Next]_<<part, grantVars, genVars>>

Symmetry == Permutations(Gen)

\* The records that the Controller and the Executors keep about each other
\* agree: a decided grant is known to its Executor (GrantInv), and the
\* generation in use is that of the latest lease of the runtime
\* (CurrentIsLatest), with the variables in their types and a transaction
\* recorded as activated only after its activation (GenTypeOK).
RecordsInv == GrantInv /\ GenTypeOK /\ CurrentIsLatest
=============================================================================
