----------------------------- MODULE ReadGrants -----------------------------
(***************************************************************************)
(* Read grants: the permission of a session to read below a root outside   *)
(* the Executor's own roots.  The Controller keeps the grants it asked for *)
(* and decides nothing alone: the Executor keeps its own copy and checks   *)
(* every read against it.  approve and revoke take no session gate, their  *)
(* calls of the Executor can fail while the request is still on its way,   *)
(* a lookup copies what the Executor has back to the Controller, and       *)
(* archiving the session revokes its grants one after the other.  The      *)
(* model has one session, one Executor and one root.                       *)
(***************************************************************************)
EXTENDS Naturals, FiniteSets

CONSTANTS
  Grant,            \* identities of grants
  MaxOps,           \* bound: requests to the Controller
  NoGrant,
  MaxGrantFaults    \* bound: failing writes, lost calls and restarts together

ASSUME ReadGrantsAssumption == NoGrant \notin Grant /\ {MaxOps, MaxGrantFaults} \subseteq Nat

VARIABLES
  listed,     \* ReadGrantState in the Controller's records
  listedDisk,
  held,       \* ReadGrantState in the Executor's records
  heldDisk,
  op,         \* each request: kind, grant, step; grants to archive, and left
  overlap,    \* history: grants with two decisions under way at once
  grantFaults

grantVars == <<listed, listedDisk, held, heldDisk, op, overlap, grantFaults>>

-----------------------------------------------------------------------------
\* The requests, numbered as they start.
Op == 1..MaxOps
NoOp == [kind |-> "none", grant |-> NoGrant, step |-> "idle", all |-> {}, left |-> {}]
GrantState == {"absent", "requested", "approved", "revoked"}

Starts(o) == op[o] = NoOp /\ \A p \in 1..(o - 1) : op[p] # NoOp
Becomes(o, kind, g, step) ==
  op' = [op EXCEPT ![o].kind = kind, ![o].grant = g, ![o].step = step]
Is(o, kind, step) == op[o].kind = kind /\ op[o].step = step
To(o, step) == op' = [op EXCEPT ![o].step = step]
Fault == grantFaults < MaxGrantFaults /\ grantFaults' = grantFaults + 1

\* Controller::persist and persist_fences.
ListedSaved == listedDisk' = listed' /\ UNCHANGED grantFaults
ListedLost  == Fault /\ UNCHANGED listedDisk
HeldSaved   == heldDisk' = held' /\ UNCHANGED grantFaults
HeldLost    == Fault /\ UNCHANGED heldDisk

-----------------------------------------------------------------------------
(* read-grant.approve.                                                     *)

\* The decisions about a grant that may still reach the Executor or change the
\* Controller's record.
Deciding(g) ==
  {o \in Op : /\ \/ op[o].kind \in {"approve", "revoke"} /\ op[o].grant = g
                 \/ op[o].kind = "archive" /\ g \in op[o].all
              /\ op[o].step \notin {"ok", "failed"}}

Noted(grants) == overlap' = overlap \cup {g \in grants : Deciding(g) # {}}

Approvable(g) == listed[g] = "requested"

StartApprove(o, g) ==
  /\ Starts(o)
  /\ Approvable(g)
  /\ Becomes(o, "approve", g, "call")
  /\ Noted({g})
  /\ UNCHANGED <<listed, listedDisk, held, heldDisk, grantFaults>>

\* The Executor puts the grant in the place of the one it has.
ExecutorApprove(o) ==
  /\ Is(o, "approve", "call") \/ Is(o, "approve", "late")
  /\ held' = [held EXCEPT ![op[o].grant] = "approved"]
  /\ UNCHANGED <<listed, listedDisk, overlap>>
  /\ \/ HeldSaved /\ To(o, IF op[o].step = "call" THEN "reply" ELSE "failed")
     \/ HeldLost /\ To(o, "failed")

FinishApprove(o) ==
  /\ Is(o, "approve", "reply")
  /\ listed' = [listed EXCEPT ![op[o].grant] = "approved"]
  /\ UNCHANGED <<held, heldDisk, overlap>>
  /\ \/ ListedSaved /\ To(o, "ok")
     \/ ListedLost /\ To(o, "failed")

-----------------------------------------------------------------------------
(* read-grant.revoke, and session.put of an archived session.              *)

StartRevoke(o, g) ==
  /\ Starts(o)
  /\ listed[g] # "absent"
  /\ Becomes(o, "revoke", g, "call")
  /\ Noted({g})
  /\ UNCHANGED <<listed, listedDisk, held, heldDisk, grantFaults>>

\* A fault: the Executor answers before the revocation is saved.
RevokeSavedNot == UNCHANGED <<heldDisk, grantFaults>>
RevokeSaved == HeldSaved

Known(g) == held[g] # "absent"

ExecutorRevoke(o) ==
  LET g == op[o].grant
  IN  /\ op[o].kind \in {"revoke", "archive"} /\ op[o].step \in {"call", "late"}
      /\ UNCHANGED <<listed, listedDisk, overlap>>
      /\ \/ /\ Known(g)
            /\ held' = [held EXCEPT ![g] = "revoked"]
            /\ \/ RevokeSaved /\ To(o, IF op[o].step = "call" THEN "reply" ELSE "failed")
               \/ HeldLost /\ To(o, "failed")
         \/ /\ ~Known(g)
            /\ To(o, "failed")
            /\ UNCHANGED <<held, heldDisk, grantFaults>>

FinishRevoke(o) ==
  /\ Is(o, "revoke", "reply")
  /\ listed' = [listed EXCEPT ![op[o].grant] = "revoked"]
  /\ UNCHANGED <<held, heldDisk, overlap>>
  /\ \/ ListedSaved /\ To(o, "ok")
     \/ ListedLost /\ To(o, "failed")

\* Requests that name their session hold its gate; approvals, revocations and
\* reads do not.
GateFree ==
  \A o \in Op : op[o].kind \in {"request", "archive"} => op[o].step \in {"ok", "failed", "late"}

\* The grants that are approved now are revoked in turn; the first one that
\* fails ends the request, with no grant marked.
StartArchive(o) ==
  LET grants == {g \in Grant : listed[g] = "approved"}
  IN  /\ Starts(o)
      /\ GateFree
      /\ grants # {}
      /\ op' = [op EXCEPT ![o] = [kind |-> "archive", grant |-> NoGrant, step |-> "next",
                                  all |-> grants, left |-> grants]]
      /\ Noted(grants)
      /\ UNCHANGED <<listed, listedDisk, held, heldDisk, grantFaults>>

ArchiveNext(o) ==
  /\ op[o].kind = "archive"
  /\ \/ /\ op[o].step = "next"
        /\ \E g \in op[o].left :
             op' = [op EXCEPT ![o].grant = g, ![o].left = @ \ {g}, ![o].step = "call"]
     \/ op[o].step = "reply" /\ To(o, "next")
  /\ UNCHANGED <<listed, listedDisk, held, heldDisk, overlap, grantFaults>>

FinishArchive(o) ==
  /\ Is(o, "archive", "next") /\ op[o].left = {}
  /\ listed' = [g \in Grant |-> IF g \in op[o].all THEN "revoked" ELSE listed[g]]
  /\ UNCHANGED <<held, heldDisk, overlap>>
  /\ \/ ListedSaved /\ To(o, "ok")
     \/ ListedLost /\ To(o, "failed")

-----------------------------------------------------------------------------
(* read-grant.request and the reads of capability.invoke.                  *)

\* find_read_grant looks among the Controller's own grants first.
StartFind(o, kind) ==
  /\ Starts(o)
  /\ kind = "request" => GateFree
  /\ IF \E g \in Grant : listed[g] = "approved"
     THEN \E g \in Grant :
            /\ listed[g] = "approved"
            /\ Becomes(o, kind, g, IF kind = "read" THEN "read" ELSE "ok")
     ELSE Becomes(o, kind, NoGrant, "find")
  /\ UNCHANGED <<listed, listedDisk, held, heldDisk, overlap, grantFaults>>

\* read-grant.find.
ExecutorFind(o) ==
  /\ op[o].step = "find"
  /\ IF \E g \in Grant : held[g] = "approved"
     THEN \E g \in Grant : held[g] = "approved" /\ op' = [op EXCEPT ![o].grant = g, ![o].step = "found"]
     ELSE op' = [op EXCEPT ![o].step = "found"]
  /\ UNCHANGED <<listed, listedDisk, held, heldDisk, overlap, grantFaults>>

\* A grant the Executor has is copied; a request that finds none is recorded,
\* in another critical section, unless there is one already.
FinishFind(o) ==
  /\ op[o].step = "found"
  /\ UNCHANGED <<held, heldDisk, overlap>>
  /\ \/ /\ op[o].grant # NoGrant
        /\ listed' = [listed EXCEPT ![op[o].grant] = "approved"]
        /\ \/ ListedSaved /\ To(o, IF op[o].kind = "read" THEN "read" ELSE "ok")
           \/ ListedLost /\ To(o, "failed")
     \/ /\ op[o].grant = NoGrant /\ op[o].kind = "read"
        /\ To(o, "failed")
        /\ UNCHANGED <<listed, listedDisk, grantFaults>>
     \/ /\ op[o].grant = NoGrant /\ op[o].kind = "request"
        /\ To(o, IF \E g \in Grant : listed[g] = "requested" THEN "ok" ELSE "create")
        /\ UNCHANGED <<listed, listedDisk, grantFaults>>

\* A new identity (Uuid::new_v4).
NewGrant == CHOOSE g \in Grant : \A o \in Op : op[o].grant # g

Create(o) ==
  /\ op[o].step = "create"
  /\ \E g \in Grant : \A p \in Op : op[p].grant # g
  /\ listed' = [listed EXCEPT ![NewGrant] = "requested"]
  /\ UNCHANGED <<held, heldDisk, overlap>>
  /\ \E step \in {"ok", "failed"} :
       /\ IF step = "ok" THEN ListedSaved ELSE ListedLost
       /\ op' = [op EXCEPT ![o].grant = NewGrant, ![o].step = step]

\* A fault: the Executor trusts the grant that the Controller names.
CoversNamed(g) == listed[g] = "approved"
\* validate_read_grant.
Covers(g) == held[g] = "approved"

Read(o) ==
  /\ Is(o, "read", "read")
  /\ To(o, IF Covers(op[o].grant) THEN "ok" ELSE "failed")
  /\ UNCHANGED <<listed, listedDisk, held, heldDisk, overlap, grantFaults>>

-----------------------------------------------------------------------------
(* Faults.                                                                 *)

\* The call fails for the Controller; the request may still arrive.
GiveUp(o) ==
  /\ Fault
  /\ \/ op[o].step = "call" /\ To(o, "late")
     \/ op[o].step \in {"reply", "find"} /\ To(o, "failed")
  /\ UNCHANGED <<listed, listedDisk, held, heldDisk, overlap>>

Lost(o) ==
  /\ op[o].step = "late"
  /\ To(o, "failed")
  /\ UNCHANGED <<listed, listedDisk, held, heldDisk, overlap, grantFaults>>

ControllerRestarts ==
  /\ Fault
  /\ listed' = listedDisk
  /\ op' = [o \in Op |-> CASE op[o].step \in {"idle", "ok", "late"} -> op[o]
                           [] op[o].step = "call" -> [op[o] EXCEPT !.step = "late"]
                           [] OTHER -> [op[o] EXCEPT !.step = "failed"]]
  /\ UNCHANGED <<listedDisk, held, heldDisk, overlap>>

ExecutorRestarts ==
  /\ Fault
  /\ held' = heldDisk
  /\ UNCHANGED <<listed, listedDisk, heldDisk, op, overlap>>

-----------------------------------------------------------------------------
GrantInit ==
  /\ listed = [g \in Grant |-> "absent"] /\ listedDisk = listed
  /\ held = [g \in Grant |-> "absent"] /\ heldDisk = held
  /\ op = [o \in Op |-> NoOp]
  /\ overlap = {}
  /\ grantFaults = 0

GrantNext ==
  \/ \E o \in Op :
       \/ \E g \in Grant : StartApprove(o, g) \/ StartRevoke(o, g)
       \/ \E kind \in {"request", "read"} : StartFind(o, kind)
       \/ ExecutorApprove(o) \/ FinishApprove(o)
       \/ ExecutorRevoke(o) \/ FinishRevoke(o)
       \/ StartArchive(o) \/ ArchiveNext(o) \/ FinishArchive(o)
       \/ ExecutorFind(o) \/ FinishFind(o) \/ Create(o) \/ Read(o)
       \/ GiveUp(o) \/ Lost(o)
  \/ ControllerRestarts \/ ExecutorRestarts

GrantSpec == GrantInit /\ [][GrantNext]_grantVars

-----------------------------------------------------------------------------
(* Properties.                                                             *)

\* A revocation of the grant, or the archiving of its session, succeeded.
Revoked(g) ==
  \E o \in Op : \/ Is(o, "revoke", "ok") /\ op[o].grant = g
                \/ Is(o, "archive", "ok") /\ g \in op[o].all
Begun(kind, g) == \E o \in Op : op[o].kind = kind /\ g \in {op[o].grant} \cup op[o].all

\* The records have their types, and the Executor knows no grant for which no
\* approval was begun.
GrantTypeOK ==
  /\ \A g \in Grant : {listed[g], listedDisk[g], held[g], heldDisk[g]} \subseteq GrantState
  /\ \A g \in Grant : held[g] # "absent" => Begun("approve", g)
  /\ \A o \in Op : op[o].step \in {"idle", "call", "late", "reply", "next",
                                "find", "found", "create", "read", "ok", "failed"}

\* Once a revocation, or the archiving of the session, was confirmed the Executor never again admits a read under
\* the grant, whatever is lost, copied back or restarted -- unless two decisions
\* about the grant were under way at once.
RevocationHolds ==
  \A g \in Grant \ overlap :
    Revoked(g) => "approved" \notin {held[g], heldDisk[g]}

\* A grant that the Controller shows as approved, and that nobody began to
\* revoke, is one that the Executor has saved as approved, as long as no write
\* failed: a session is not told of a permission that a restart takes away.
ApprovalEffective ==
  \A g \in Grant :
    /\ listed[g] = "approved" /\ grantFaults = 0
    /\ ~Begun("revoke", g) /\ ~Begun("archive", g)
    => heldDisk[g] = "approved"

\* A session never has two requests for the same root waiting for a decision.
OneRequest ==
  Cardinality({g \in Grant : listed[g] = "requested"}) <= 1

\* The invariants of read grants: types, confirmed revocations that hold,
\* approvals that take effect, and one request at a time.
GrantInv == GrantTypeOK /\ RevocationHolds /\ ApprovalEffective /\ OneRequest

\* A read is never admitted under a grant whose revocation was confirmed, also
\* when the Controller has copied the grant back and names it.
NoReadAfterRevocation ==
  [][\A o \in Op, g \in Grant \ overlap :
       Is(o, "read", "read") /\ op[o].grant = g /\ op'[o].step = "ok" => ~Revoked(g)]_grantVars
=============================================================================
