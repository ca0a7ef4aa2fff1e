-------------------------- MODULE ReadGrantsProofs --------------------------
(***************************************************************************)
(* Proofs about ReadGrants, for any sets of grants and any bounds.  One    *)
(* inductive invariant, in parts: the shape of requests (OpShape), where   *)
(* grants come from (Traced), what a revocation has done so far            *)
(* (PerformedHolds) and what keeps it from being undone (OneDecision,      *)
(* NotAskedAgain, NoApprovalLeft), what an approval has done so far        *)
(* (ApprovalKept) and the gate behind which requests are recorded          *)
(* (OneGate, NoneWhileCreating).                                           *)
(***************************************************************************)
EXTENDS ReadGrants, FiniteSetTheorems, TLAPS

Kind == {"none", "approve", "revoke", "archive", "request", "read"}
OpStep == {"idle", "call", "late", "reply", "next", "find", "found", "create", "read",
           "ok", "failed"}
OpRecord == [kind: Kind, grant: Grant \cup {NoGrant}, step: OpStep,
             all: SUBSET Grant, left: SUBSET Grant]

GrantTypes ==
  /\ listed \in [Grant -> GrantState] /\ listedDisk \in [Grant -> GrantState]
  /\ held \in [Grant -> GrantState] /\ heldDisk \in [Grant -> GrantState]
  /\ op \in [Op -> OpRecord]
  /\ overlap \subseteq Grant
  /\ grantFaults \in Nat

\* Which steps a request of each kind can be at, and what it then names.
Shaped(r) ==
  /\ r.kind = "none" <=> r.step = "idle"
  /\ r.kind = "none" => r = NoOp
  /\ r.kind \in {"approve", "revoke"} =>
       r.grant \in Grant /\ r.step \in {"call", "late", "reply", "ok", "failed"}
  /\ r.kind = "archive" =>
       /\ r.step \in {"call", "late", "reply", "next", "ok", "failed"}
       /\ r.step \in {"call", "late", "reply"} => r.grant \in r.all \ r.left
       /\ r.left \subseteq r.all /\ (r.step = "ok" => r.left = {})
       /\ r.grant \in r.all \cup {NoGrant}
  /\ r.kind = "request" => r.step \in {"find", "found", "create", "ok", "failed"}
  /\ r.kind = "read" => r.step \in {"find", "found", "read", "ok", "failed"}
  /\ r.step = "read" => r.grant \in Grant
  /\ r.step \in {"find", "create"} => r.grant = NoGrant
  /\ r.kind # "archive" => r.all = {}

OpShape == \A o \in Op : Shaped(op[o])

\* A request other than an archiving names the grant, and does so for good.
Used(g) == \E o \in Op : op[o].kind # "archive" /\ op[o].grant = g

\* Every grant that is recorded anywhere was named by a request, and the
\* Executor knows only grants for which an approval was begun.
Traced ==
  \A g \in Grant :
    /\ listed[g] # "absent" \/ listedDisk[g] # "absent" => Used(g)
    /\ held[g] # "absent" \/ heldDisk[g] # "absent" => Begun("approve", g)
    /\ \A o \in Op : g \in op[o].all => Used(g)

\* The request has had the Executor revoke the grant, and may still succeed.
Performed(o, g) ==
  \/ op[o].kind = "revoke" /\ op[o].grant = g /\ op[o].step \in {"reply", "ok"}
  \/ /\ op[o].kind = "archive" /\ g \in op[o].all \ op[o].left
     /\ op[o].step \in {"call", "reply", "next", "ok"}
     /\ op[o].step = "call" => op[o].grant # g

PerformedHolds ==
  \A g \in Grant \ overlap, o \in Op :
    Performed(o, g) => held[g] # "approved" /\ heldDisk[g] # "approved"

\* Decisions under way about a grant, unless it is counted as overlapping.
OneDecision ==
  \A g \in Grant \ overlap : \A o, p \in Deciding(g) : o = p

\* A grant whose revocation was confirmed is not one that waits for approval ...
NotAskedAgain ==
  \A g \in Grant : Revoked(g) =>
    listed[g] \in {"approved", "revoked"} /\ listedDisk[g] \in {"approved", "revoked"}

\* ... and no approval of it is still on its way.
NoApprovalLeft ==
  \A g \in Grant \ overlap : Revoked(g) =>
    \A o \in Op : op[o].kind = "approve" /\ op[o].grant = g => op[o].step \in {"ok", "failed"}

RevokeInv == PerformedHolds /\ OneDecision /\ NotAskedAgain /\ NoApprovalLeft

\* Without a fault, what the Controller was told of an approved grant is so, as
\* long as nobody begins to revoke it.
ApprovalKept ==
  grantFaults = 0 =>
    /\ heldDisk = held
    /\ \A g \in Grant : ~Begun("revoke", g) /\ ~Begun("archive", g) =>
         /\ listed[g] = "approved" \/ listedDisk[g] = "approved" => held[g] = "approved"
         /\ \A o \in Op : op[o].grant = g =>
              /\ op[o].kind = "approve" /\ op[o].step = "reply" => held[g] = "approved"
              /\ op[o].step = "found" => held[g] = "approved"

\* One request of the session at a time is behind its gate ...
Gated(o) == op[o].kind \in {"request", "archive"} /\ op[o].step \notin {"ok", "failed", "late"}
OneGate == \A o, p \in Op : Gated(o) /\ Gated(p) => o = p

\* ... so that no grant is asked for when one is about to be.
NoneWhileCreating ==
  (\E o \in Op : op[o].step = "create") => \A g \in Grant : listed[g] # "requested"

SingleRequest(table) ==
  \A g, h \in Grant : table[g] = "requested" /\ table[h] = "requested" => g = h

AskInv ==
  OneGate /\ NoneWhileCreating /\ SingleRequest(listed) /\ SingleRequest(listedDisk)

GrantIInv == GrantTypes /\ OpShape /\ Traced /\ RevokeInv /\ ApprovalKept /\ AskInv

-----------------------------------------------------------------------------
(* How a step changes the requests.                                        *)

\* Request o becomes the given record; the others stay.
Sets(o, kind, g, step, all, left) ==
  /\ op'[o].kind = kind /\ op'[o].grant = g /\ op'[o].step = step
  /\ op'[o].all = all /\ op'[o].left = left
  /\ \A p \in Op \ {o} : op'[p] = op[p]

LEMMA ToSets ==
  ASSUME GrantTypes, NEW o \in Op, NEW s \in OpStep, To(o, s)
  PROVE  /\ op' \in [Op -> OpRecord]
         /\ Sets(o, op[o].kind, op[o].grant, s, op[o].all, op[o].left)
  BY DEF GrantTypes, To, Sets, OpRecord

LEMMA BecomesSets ==
  ASSUME GrantTypes, NEW o \in Op, NEW k \in Kind, NEW g \in Grant \cup {NoGrant},
         NEW s \in OpStep, Becomes(o, k, g, s)
  PROVE  /\ op' \in [Op -> OpRecord]
         /\ Sets(o, k, g, s, op[o].all, op[o].left)
  BY DEF GrantTypes, Becomes, Sets, OpRecord

-----------------------------------------------------------------------------
(* What each action does, as far as the invariant is concerned.            *)

LEMMA StartApproveDoes ==
  ASSUME GrantTypes, NEW o \in Op, NEW g \in Grant, StartApprove(o, g)
  PROVE  /\ op' \in [Op -> OpRecord] /\ Sets(o, "approve", g, "call", {}, {})
         /\ op[o] = NoOp /\ listed[g] = "requested" /\ Noted({g})
         /\ UNCHANGED <<listed, listedDisk, held, heldDisk, grantFaults>>
  <1>1. op[o].all = {} /\ op[o].left = {}
      BY DEF StartApprove, Starts, NoOp
  <1> QED
      BY <1>1, BecomesSets DEF StartApprove, Starts, Approvable, Kind, OpStep

LEMMA StartRevokeDoes ==
  ASSUME GrantTypes, NEW o \in Op, NEW g \in Grant, StartRevoke(o, g)
  PROVE  /\ op' \in [Op -> OpRecord] /\ Sets(o, "revoke", g, "call", {}, {})
         /\ op[o] = NoOp /\ listed[g] # "absent" /\ Noted({g})
         /\ UNCHANGED <<listed, listedDisk, held, heldDisk, grantFaults>>
  <1>1. op[o].all = {} /\ op[o].left = {}
      BY DEF StartRevoke, Starts, NoOp
  <1> QED
      BY <1>1, BecomesSets DEF StartRevoke, Starts, Kind, OpStep

LEMMA StartArchiveDoes ==
  ASSUME GrantTypes, NEW o \in Op, StartArchive(o)
  PROVE  \E grants \in SUBSET Grant :
           /\ grants = {g \in Grant : listed[g] = "approved"}
           /\ op' \in [Op -> OpRecord] /\ Sets(o, "archive", NoGrant, "next", grants, grants)
           /\ op[o] = NoOp /\ GateFree /\ Noted(grants)
           /\ UNCHANGED <<listed, listedDisk, held, heldDisk, grantFaults>>
  <1> DEFINE grants == {g \in Grant : listed[g] = "approved"}
  <1>1. grants \in SUBSET Grant
      OBVIOUS
  <1>2. [kind |-> "archive", grant |-> NoGrant, step |-> "next", all |-> grants, left |-> grants]
          \in OpRecord
      BY <1>1 DEF OpRecord, Kind, OpStep
  <1>3. op' = [op EXCEPT ![o] = [kind |-> "archive", grant |-> NoGrant, step |-> "next",
                                 all |-> grants, left |-> grants]]
      BY DEF StartArchive
  <1>4. op' \in [Op -> OpRecord] /\ Sets(o, "archive", NoGrant, "next", grants, grants)
      BY <1>2, <1>3 DEF GrantTypes, Sets
  <1> QED
      BY <1>1, <1>4 DEF StartArchive, Starts

LEMMA StartFindDoes ==
  ASSUME GrantTypes, NEW o \in Op, NEW kind \in {"request", "read"}, StartFind(o, kind)
  PROVE  \E g \in Grant \cup {NoGrant}, s \in {"read", "ok", "find"} :
           /\ op' \in [Op -> OpRecord] /\ Sets(o, kind, g, s, {}, {})
           /\ s = "find" => g = NoGrant
           /\ s # "find" => g \in Grant /\ listed[g] = "approved"
           /\ s = "read" => kind = "read"
           /\ op[o] = NoOp /\ (kind = "request" => GateFree)
           /\ UNCHANGED <<listed, listedDisk, held, heldDisk, overlap, grantFaults>>
  <1>1. op[o].all = {} /\ op[o].left = {}
      BY DEF StartFind, Starts, NoOp
  <1>2. kind \in Kind /\ {"read", "ok", "find"} \subseteq OpStep
      BY DEF Kind, OpStep
  <1>3. CASE \E g \in Grant : listed[g] = "approved"
    <2>1. PICK g \in Grant : /\ listed[g] = "approved"
                             /\ Becomes(o, kind, g, IF kind = "read" THEN "read" ELSE "ok")
        BY <1>3 DEF StartFind
    <2>2. PICK s \in {"read", "ok"} : s = IF kind = "read" THEN "read" ELSE "ok"
        OBVIOUS
    <2>3. op' \in [Op -> OpRecord] /\ Sets(o, kind, g, s, {}, {})
        BY <1>1, <1>2, <2>1, <2>2, BecomesSets
    <2> QED
        BY <2>1, <2>2, <2>3 DEF StartFind, Starts
  <1>4. CASE ~\E g \in Grant : listed[g] = "approved"
    <2>1. Becomes(o, kind, NoGrant, "find")
        BY <1>4 DEF StartFind
    <2>2. op' \in [Op -> OpRecord] /\ Sets(o, kind, NoGrant, "find", {}, {})
        BY <1>1, <1>2, <2>1, BecomesSets
    <2> QED
        BY <2>2 DEF StartFind, Starts
  <1> QED
      BY <1>3, <1>4

LEMMA ExecutorApproveDoes ==
  ASSUME GrantTypes, OpShape, NEW o \in Op, ExecutorApprove(o)
  PROVE  /\ op[o].kind = "approve" /\ op[o].step \in {"call", "late"} /\ op[o].grant \in Grant
         /\ held' = [held EXCEPT ![op[o].grant] = "approved"]
         /\ UNCHANGED <<listed, listedDisk, overlap>>
         /\ \E s \in {"reply", "failed"} :
              /\ op' \in [Op -> OpRecord]
              /\ Sets(o, op[o].kind, op[o].grant, s, op[o].all, op[o].left)
              /\ s = "reply" => op[o].step = "call" /\ HeldSaved
              /\ HeldSaved \/ HeldLost
  <1>1. PICK s \in {"reply", "failed"} :
          To(o, s) /\ (s = "reply" => op[o].step = "call" /\ HeldSaved) /\ (HeldSaved \/ HeldLost)
      BY DEF ExecutorApprove
  <1>2. /\ op' \in [Op -> OpRecord]
        /\ Sets(o, op[o].kind, op[o].grant, s, op[o].all, op[o].left)
      BY <1>1, ToSets DEF OpStep
  <1> QED
      BY <1>1, <1>2 DEF ExecutorApprove, Is, OpShape, Shaped

LEMMA FinishApproveDoes ==
  ASSUME GrantTypes, OpShape, NEW o \in Op, FinishApprove(o)
  PROVE  /\ op[o].kind = "approve" /\ op[o].step = "reply" /\ op[o].grant \in Grant
         /\ listed' = [listed EXCEPT ![op[o].grant] = "approved"]
         /\ UNCHANGED <<held, heldDisk, overlap>>
         /\ \E s \in {"ok", "failed"} :
              /\ op' \in [Op -> OpRecord]
              /\ Sets(o, op[o].kind, op[o].grant, s, op[o].all, op[o].left)
         /\ ListedSaved \/ ListedLost
  <1>1. PICK s \in {"ok", "failed"} : To(o, s)
      BY DEF FinishApprove
  <1>2. /\ op' \in [Op -> OpRecord]
        /\ Sets(o, op[o].kind, op[o].grant, s, op[o].all, op[o].left)
      BY <1>1, ToSets DEF OpStep
  <1> QED
      BY <1>2 DEF FinishApprove, Is, OpShape, Shaped

LEMMA ExecutorRevokeDoes ==
  ASSUME GrantTypes, OpShape, NEW o \in Op, ExecutorRevoke(o)
  PROVE  /\ op[o].kind \in {"revoke", "archive"} /\ op[o].step \in {"call", "late"}
         /\ op[o].grant \in Grant
         /\ UNCHANGED <<listed, listedDisk, overlap>>
         /\ \E s \in {"reply", "failed"} :
              /\ op' \in [Op -> OpRecord]
              /\ Sets(o, op[o].kind, op[o].grant, s, op[o].all, op[o].left)
              /\ s = "reply" => op[o].step = "call" /\ HeldSaved /\ held'[op[o].grant] = "revoked"
         /\ \/ /\ held[op[o].grant] # "absent"
               /\ held' = [held EXCEPT ![op[o].grant] = "revoked"]
               /\ HeldSaved \/ HeldLost
            \/ UNCHANGED <<held, heldDisk, grantFaults>>
  <1>1. op[o].grant \in Grant
      BY DEF ExecutorRevoke, OpShape, Shaped, GrantTypes, OpRecord
  <1>2. PICK s \in {"reply", "failed"} :
          /\ To(o, s)
          /\ s = "reply" => op[o].step = "call" /\ HeldSaved /\ held'[op[o].grant] = "revoked"
      BY <1>1 DEF ExecutorRevoke, RevokeSaved, GrantTypes
  <1>3. /\ op' \in [Op -> OpRecord]
        /\ Sets(o, op[o].kind, op[o].grant, s, op[o].all, op[o].left)
      BY <1>2, ToSets DEF OpStep
  <1> QED
      BY <1>1, <1>2, <1>3 DEF ExecutorRevoke, RevokeSaved, Known

LEMMA FinishRevokeDoes ==
  ASSUME GrantTypes, OpShape, NEW o \in Op, FinishRevoke(o)
  PROVE  /\ op[o].kind = "revoke" /\ op[o].step = "reply" /\ op[o].grant \in Grant
         /\ listed' = [listed EXCEPT ![op[o].grant] = "revoked"]
         /\ UNCHANGED <<held, heldDisk, overlap>>
         /\ \E s \in {"ok", "failed"} :
              /\ op' \in [Op -> OpRecord]
              /\ Sets(o, op[o].kind, op[o].grant, s, op[o].all, op[o].left)
              /\ s = "ok" => ListedSaved
         /\ ListedSaved \/ ListedLost
  <1>1. PICK s \in {"ok", "failed"} : To(o, s) /\ (s = "ok" => ListedSaved)
      BY DEF FinishRevoke
  <1>2. /\ op' \in [Op -> OpRecord]
        /\ Sets(o, op[o].kind, op[o].grant, s, op[o].all, op[o].left)
      BY <1>1, ToSets DEF OpStep
  <1> QED
      BY <1>1, <1>2 DEF FinishRevoke, Is, OpShape, Shaped

LEMMA ArchiveNextDoes ==
  ASSUME GrantTypes, OpShape, NEW o \in Op, ArchiveNext(o)
  PROVE  /\ op[o].kind = "archive" /\ op' \in [Op -> OpRecord]
         /\ \/ /\ op[o].step = "next"
               /\ \E g \in op[o].left :
                    Sets(o, "archive", g, "call", op[o].all, op[o].left \ {g})
            \/ /\ op[o].step = "reply"
               /\ Sets(o, "archive", op[o].grant, "next", op[o].all, op[o].left)
         /\ UNCHANGED <<listed, listedDisk, held, heldDisk, overlap, grantFaults>>
  <1>1. CASE op[o].step = "next"
    <2>1. PICK g \in op[o].left :
            op' = [op EXCEPT ![o].grant = g, ![o].left = @ \ {g}, ![o].step = "call"]
        BY <1>1 DEF ArchiveNext, To
    <2>2. op[o] \in OpRecord /\ g \in Grant /\ "call" \in OpStep
        BY DEF GrantTypes, OpRecord, OpStep
    <2>3. op' \in [Op -> OpRecord] /\ Sets(o, "archive", g, "call", op[o].all, op[o].left \ {g})
        BY <2>1, <2>2 DEF GrantTypes, OpRecord, Sets, ArchiveNext
    <2> QED
        BY <1>1, <2>3 DEF ArchiveNext
  <1>2. CASE op[o].step = "reply" /\ To(o, "next")
    <2>1. op' \in [Op -> OpRecord] /\ Sets(o, op[o].kind, op[o].grant, "next", op[o].all, op[o].left)
        BY <1>2, ToSets DEF OpStep
    <2> QED
        BY <1>2, <2>1 DEF ArchiveNext
  <1> QED
      BY <1>1, <1>2 DEF ArchiveNext

LEMMA FinishArchiveDoes ==
  ASSUME GrantTypes, OpShape, NEW o \in Op, FinishArchive(o)
  PROVE  /\ op[o].kind = "archive" /\ op[o].step = "next" /\ op[o].left = {}
         /\ listed' = [g \in Grant |-> IF g \in op[o].all THEN "revoked" ELSE listed[g]]
         /\ UNCHANGED <<held, heldDisk, overlap>>
         /\ \E s \in {"ok", "failed"} :
              /\ op' \in [Op -> OpRecord]
              /\ Sets(o, op[o].kind, op[o].grant, s, op[o].all, op[o].left)
              /\ s = "ok" => ListedSaved
         /\ ListedSaved \/ ListedLost
  <1>1. PICK s \in {"ok", "failed"} : To(o, s) /\ (s = "ok" => ListedSaved)
      BY DEF FinishArchive
  <1>2. /\ op' \in [Op -> OpRecord]
        /\ Sets(o, op[o].kind, op[o].grant, s, op[o].all, op[o].left)
      BY <1>1, ToSets DEF OpStep
  <1> QED
      BY <1>1, <1>2 DEF FinishArchive, Is, OpShape, Shaped

LEMMA ExecutorFindDoes ==
  ASSUME GrantTypes, OpShape, NEW o \in Op, ExecutorFind(o)
  PROVE  /\ op[o].kind \in {"request", "read"} /\ op[o].step = "find"
         /\ op' \in [Op -> OpRecord]
         /\ \E g \in Grant \cup {NoGrant} :
              /\ Sets(o, op[o].kind, g, "found", op[o].all, op[o].left)
              /\ (g \in Grant /\ held[g] = "approved") \/ g = op[o].grant
         /\ UNCHANGED <<listed, listedDisk, held, heldDisk, overlap, grantFaults>>
  <1>1. op[o] \in OpRecord /\ "found" \in OpStep
      BY DEF GrantTypes, OpStep
  <1>2. op[o].kind \in {"request", "read"} /\ op[o].step = "find"
      BY <1>1 DEF ExecutorFind, OpShape, Shaped, OpRecord, Kind
  <1>3. CASE \E g \in Grant : held[g] = "approved"
    <2>1. PICK g \in Grant : /\ held[g] = "approved"
                             /\ op' = [op EXCEPT ![o].grant = g, ![o].step = "found"]
        BY <1>3 DEF ExecutorFind
    <2>2. op' \in [Op -> OpRecord] /\ Sets(o, op[o].kind, g, "found", op[o].all, op[o].left)
        BY <1>1, <2>1 DEF GrantTypes, OpRecord, Sets
    <2> QED
        BY <1>2, <2>1, <2>2 DEF ExecutorFind
  <1>4. CASE ~\E g \in Grant : held[g] = "approved"
    <2>1. op' = [op EXCEPT ![o].step = "found"]
        BY <1>4 DEF ExecutorFind
    <2>2. /\ op' \in [Op -> OpRecord] /\ op[o].grant \in Grant \cup {NoGrant}
          /\ Sets(o, op[o].kind, op[o].grant, "found", op[o].all, op[o].left)
        BY <1>1, <2>1 DEF GrantTypes, OpRecord, Sets
    <2> QED
        BY <1>2, <2>2 DEF ExecutorFind
  <1> QED
      BY <1>3, <1>4

LEMMA FinishFindDoes ==
  ASSUME GrantTypes, OpShape, NEW o \in Op, FinishFind(o)
  PROVE  /\ op[o].kind \in {"request", "read"} /\ op[o].step = "found"
         /\ op' \in [Op -> OpRecord]
         /\ UNCHANGED <<held, heldDisk, overlap>>
         /\ \E s \in {"read", "ok", "create", "failed"} :
              /\ Sets(o, op[o].kind, op[o].grant, s, op[o].all, op[o].left)
              /\ s = "read" => op[o].kind = "read" /\ op[o].grant \in Grant
              /\ s = "create" => /\ op[o].kind = "request" /\ op[o].grant = NoGrant
                                 /\ \A g \in Grant : listed[g] # "requested"
                                 /\ UNCHANGED listed
         /\ \/ /\ op[o].grant \in Grant
               /\ listed' = [listed EXCEPT ![op[o].grant] = "approved"]
               /\ ListedSaved \/ ListedLost
            \/ UNCHANGED <<listed, listedDisk, grantFaults>>
  <1>1. op[o] \in OpRecord
      BY DEF GrantTypes
  <1>2. op[o].kind \in {"request", "read"} /\ op[o].step = "found"
      BY <1>1 DEF FinishFind, OpShape, Shaped, OpRecord, Kind
  <1>3. op[o].grant \in Grant \cup {NoGrant}
      BY <1>1 DEF OpRecord
  <1>4. PICK s \in {"read", "ok", "create", "failed"} :
          /\ To(o, s)
          /\ s = "read" => op[o].kind = "read" /\ op[o].grant # NoGrant
          /\ s = "create" => /\ op[o].kind = "request" /\ op[o].grant = NoGrant
                             /\ \A g \in Grant : listed[g] # "requested"
                             /\ UNCHANGED listed
      BY <1>2 DEF FinishFind
  <1>5. /\ op' \in [Op -> OpRecord]
        /\ Sets(o, op[o].kind, op[o].grant, s, op[o].all, op[o].left)
      BY <1>4, ToSets DEF OpStep
  <1> QED
      BY <1>2, <1>3, <1>4, <1>5 DEF FinishFind

LEMMA CreateDoes ==
  ASSUME GrantTypes, OpShape, NEW o \in Op, Create(o)
  PROVE  /\ op[o].kind = "request" /\ op[o].step = "create"
         /\ NewGrant \in Grant /\ \A p \in Op : op[p].grant # NewGrant
         /\ listed' = [listed EXCEPT ![NewGrant] = "requested"]
         /\ UNCHANGED <<held, heldDisk, overlap>>
         /\ \E s \in {"ok", "failed"} :
              /\ op' \in [Op -> OpRecord]
              /\ Sets(o, op[o].kind, NewGrant, s, op[o].all, op[o].left)
         /\ ListedSaved \/ ListedLost
  <1>1. op[o] \in OpRecord
      BY DEF GrantTypes
  <1>2. op[o].kind = "request" /\ op[o].step = "create"
      BY <1>1 DEF Create, OpShape, Shaped, OpRecord, Kind
  <1>3. NewGrant \in Grant /\ \A p \in Op : op[p].grant # NewGrant
      BY DEF Create, NewGrant
  <1>4. PICK s \in {"ok", "failed"} :
          op' = [op EXCEPT ![o].grant = NewGrant, ![o].step = s]
      BY DEF Create
  <1>5. "ok" \in OpStep /\ "failed" \in OpStep
      BY DEF OpStep
  <1>6. /\ op' \in [Op -> OpRecord]
        /\ Sets(o, op[o].kind, NewGrant, s, op[o].all, op[o].left)
      BY <1>1, <1>3, <1>4, <1>5 DEF GrantTypes, OpRecord, Sets
  <1> QED
      BY <1>2, <1>3, <1>6 DEF Create

LEMMA ReadDoes ==
  ASSUME GrantTypes, OpShape, NEW o \in Op, Read(o)
  PROVE  /\ op[o].kind = "read" /\ op[o].step = "read" /\ op[o].grant \in Grant
         /\ \E s \in {"ok", "failed"} :
              /\ op' \in [Op -> OpRecord]
              /\ Sets(o, op[o].kind, op[o].grant, s, op[o].all, op[o].left)
              /\ s = "ok" => held[op[o].grant] = "approved"
         /\ UNCHANGED <<listed, listedDisk, held, heldDisk, overlap, grantFaults>>
  <1>1. PICK s \in {"ok", "failed"} :
          To(o, s) /\ (s = "ok" => held[op[o].grant] = "approved")
      BY DEF Read, Covers
  <1>2. /\ op' \in [Op -> OpRecord]
        /\ Sets(o, op[o].kind, op[o].grant, s, op[o].all, op[o].left)
      BY <1>1, ToSets DEF OpStep
  <1> QED
      BY <1>1, <1>2 DEF Read, Is, OpShape, Shaped

\* A call that is given up, or a request that never arrives.
LEMMA GiveUpDoes ==
  ASSUME GrantTypes, OpShape, NEW o \in Op, GiveUp(o) \/ Lost(o)
  PROVE  /\ op[o].step \in {"call", "reply", "find", "late"}
         /\ \E s \in {"late", "failed"} :
              /\ op' \in [Op -> OpRecord]
              /\ Sets(o, op[o].kind, op[o].grant, s, op[o].all, op[o].left)
              /\ s = "late" => op[o].step = "call"
         /\ UNCHANGED <<listed, listedDisk, held, heldDisk, overlap>>
         /\ Fault \/ UNCHANGED grantFaults
  <1>1. PICK s \in {"late", "failed"} : To(o, s) /\ (s = "late" => op[o].step = "call")
      BY DEF GiveUp, Lost
  <1>2. /\ op' \in [Op -> OpRecord]
        /\ Sets(o, op[o].kind, op[o].grant, s, op[o].all, op[o].left)
      BY <1>1, ToSets DEF OpStep
  <1> QED
      BY <1>1, <1>2 DEF GiveUp, Lost

LEMMA ControllerRestartsDoes ==
  ASSUME GrantTypes, OpShape, ControllerRestarts
  PROVE  /\ Fault /\ listed' = listedDisk
         /\ UNCHANGED <<listedDisk, held, heldDisk, overlap>>
         /\ op' \in [Op -> OpRecord]
         /\ \A o \in Op :
              /\ op'[o].kind = op[o].kind /\ op'[o].grant = op[o].grant
              /\ op'[o].all = op[o].all /\ op'[o].left = op[o].left
              /\ op[o].step \in {"idle", "ok", "late"} => op'[o] = op[o]
              /\ op[o].step = "call" => op'[o].step = "late"
              /\ op[o].step \notin {"idle", "ok", "late", "call"} => op'[o].step = "failed"
  <1>1. \A o \in Op : op[o] \in OpRecord
      BY DEF GrantTypes
  <1>2. {"late", "failed"} \subseteq OpStep
      BY DEF OpStep
  <1>3. \A o \in Op :
          /\ op'[o] \in OpRecord
          /\ op'[o].kind = op[o].kind /\ op'[o].grant = op[o].grant
          /\ op'[o].all = op[o].all /\ op'[o].left = op[o].left
          /\ op[o].step \in {"idle", "ok", "late"} => op'[o] = op[o]
          /\ op[o].step = "call" => op'[o].step = "late"
          /\ op[o].step \notin {"idle", "ok", "late", "call"} => op'[o].step = "failed"
      BY <1>1, <1>2 DEF ControllerRestarts, OpRecord
  <1>4. op' \in [Op -> OpRecord]
      BY <1>3 DEF ControllerRestarts
  <1> QED
      BY <1>3, <1>4 DEF ControllerRestarts

-----------------------------------------------------------------------------
(* The invariant, part by part.                                            *)

\* The types, and the shape of requests.
LEMMA ShapeNext ==
  ASSUME GrantTypes, OpShape, [GrantNext]_grantVars
  PROVE  GrantTypes' /\ OpShape'
  <1>1. ASSUME NEW o \in Op, NEW g \in Grant, StartApprove(o, g) PROVE GrantTypes' /\ OpShape'
    <2>1. GrantTypes'
        BY <1>1, StartApproveDoes
           DEF GrantTypes, GrantState, Noted, Fault, HeldSaved, HeldLost, ListedSaved, ListedLost
    <2>2. Shaped(op'[o])
        BY <1>1, StartApproveDoes DEF OpShape, Shaped, Sets, NoOp
    <2>3. \A p \in Op \ {o} : op'[p] = op[p]
        BY <1>1, StartApproveDoes DEF Sets
    <2>4. OpShape'
        BY <2>2, <2>3 DEF OpShape
    <2> QED
        BY <2>1, <2>4
  <1>2. ASSUME NEW o \in Op, NEW g \in Grant, StartRevoke(o, g) PROVE GrantTypes' /\ OpShape'
    <2>1. GrantTypes'
        BY <1>2, StartRevokeDoes
           DEF GrantTypes, GrantState, Noted, Fault, HeldSaved, HeldLost, ListedSaved, ListedLost
    <2>2. Shaped(op'[o])
        BY <1>2, StartRevokeDoes DEF OpShape, Shaped, Sets, NoOp
    <2>3. \A p \in Op \ {o} : op'[p] = op[p]
        BY <1>2, StartRevokeDoes DEF Sets
    <2>4. OpShape'
        BY <2>2, <2>3 DEF OpShape
    <2> QED
        BY <2>1, <2>4
  <1>3. ASSUME NEW o \in Op, NEW kind \in {"request", "read"}, StartFind(o, kind) PROVE GrantTypes' /\ OpShape'
    <2>1. GrantTypes'
        BY <1>3, StartFindDoes
           DEF GrantTypes, GrantState, Noted, Fault, HeldSaved, HeldLost, ListedSaved, ListedLost
    <2>2. Shaped(op'[o])
        BY <1>3, StartFindDoes DEF OpShape, Shaped, Sets, NoOp
    <2>3. \A p \in Op \ {o} : op'[p] = op[p]
        BY <1>3, StartFindDoes DEF Sets
    <2>4. OpShape'
        BY <2>2, <2>3 DEF OpShape
    <2> QED
        BY <2>1, <2>4
  <1>4. ASSUME NEW o \in Op, ExecutorApprove(o) PROVE GrantTypes' /\ OpShape'
    <2>1. GrantTypes'
        BY <1>4, ExecutorApproveDoes
           DEF GrantTypes, GrantState, Noted, Fault, HeldSaved, HeldLost, ListedSaved, ListedLost
    <2>2. Shaped(op'[o])
        BY <1>4, ExecutorApproveDoes DEF OpShape, Shaped, Sets, NoOp
    <2>3. \A p \in Op \ {o} : op'[p] = op[p]
        BY <1>4, ExecutorApproveDoes DEF Sets
    <2>4. OpShape'
        BY <2>2, <2>3 DEF OpShape
    <2> QED
        BY <2>1, <2>4
  <1>5. ASSUME NEW o \in Op, FinishApprove(o) PROVE GrantTypes' /\ OpShape'
    <2>1. GrantTypes'
        BY <1>5, FinishApproveDoes
           DEF GrantTypes, GrantState, Noted, Fault, HeldSaved, HeldLost, ListedSaved, ListedLost
    <2>2. Shaped(op'[o])
        BY <1>5, FinishApproveDoes DEF OpShape, Shaped, Sets, NoOp
    <2>3. \A p \in Op \ {o} : op'[p] = op[p]
        BY <1>5, FinishApproveDoes DEF Sets
    <2>4. OpShape'
        BY <2>2, <2>3 DEF OpShape
    <2> QED
        BY <2>1, <2>4
  <1>6. ASSUME NEW o \in Op, ExecutorRevoke(o) PROVE GrantTypes' /\ OpShape'
    <2>1. GrantTypes'
        BY <1>6, ExecutorRevokeDoes
           DEF GrantTypes, GrantState, Noted, Fault, HeldSaved, HeldLost, ListedSaved, ListedLost
    <2>2. Shaped(op'[o])
        BY <1>6, ExecutorRevokeDoes DEF OpShape, Shaped, Sets, NoOp
    <2>3. \A p \in Op \ {o} : op'[p] = op[p]
        BY <1>6, ExecutorRevokeDoes DEF Sets
    <2>4. OpShape'
        BY <2>2, <2>3 DEF OpShape
    <2> QED
        BY <2>1, <2>4
  <1>7. ASSUME NEW o \in Op, FinishRevoke(o) PROVE GrantTypes' /\ OpShape'
    <2>1. GrantTypes'
        BY <1>7, FinishRevokeDoes
           DEF GrantTypes, GrantState, Noted, Fault, HeldSaved, HeldLost, ListedSaved, ListedLost
    <2>2. Shaped(op'[o])
        BY <1>7, FinishRevokeDoes DEF OpShape, Shaped, Sets, NoOp
    <2>3. \A p \in Op \ {o} : op'[p] = op[p]
        BY <1>7, FinishRevokeDoes DEF Sets
    <2>4. OpShape'
        BY <2>2, <2>3 DEF OpShape
    <2> QED
        BY <2>1, <2>4
  <1>8. ASSUME NEW o \in Op, StartArchive(o) PROVE GrantTypes' /\ OpShape'
    <2>1. GrantTypes'
        BY <1>8, StartArchiveDoes
           DEF GrantTypes, GrantState, Noted, Fault, HeldSaved, HeldLost, ListedSaved, ListedLost
    <2>2. Shaped(op'[o])
        BY <1>8, StartArchiveDoes DEF OpShape, Shaped, Sets, NoOp
    <2>3. \A p \in Op \ {o} : op'[p] = op[p]
        BY <1>8, StartArchiveDoes DEF Sets
    <2>4. OpShape'
        BY <2>2, <2>3 DEF OpShape
    <2> QED
        BY <2>1, <2>4
  <1>9. ASSUME NEW o \in Op, ArchiveNext(o) PROVE GrantTypes' /\ OpShape'
    <2>1. GrantTypes'
        BY <1>9, ArchiveNextDoes
           DEF GrantTypes, GrantState, Noted, Fault, HeldSaved, HeldLost, ListedSaved, ListedLost
    <2>2. Shaped(op'[o])
      <3>1. Shaped(op[o]) /\ op[o].kind = "archive" /\ op[o].left \subseteq Grant
          BY <1>9, ArchiveNextDoes DEF OpShape, GrantTypes, OpRecord
      <3>2. CASE /\ op[o].step = "reply"
                 /\ Sets(o, "archive", op[o].grant, "next", op[o].all, op[o].left)
          BY <3>1, <3>2 DEF Shaped, Sets
      <3>3. ASSUME NEW g \in op[o].left,
                   Sets(o, "archive", g, "call", op[o].all, op[o].left \ {g})
            PROVE  Shaped(op'[o])
        <4>1. g \in op[o].all
            BY <3>1 DEF Shaped
        <4> QED
            BY <3>1, <3>3, <4>1 DEF Shaped, Sets
      <3> QED
          BY <1>9, <3>2, <3>3, ArchiveNextDoes
    <2>3. \A p \in Op \ {o} : op'[p] = op[p]
        BY <1>9, ArchiveNextDoes DEF Sets
    <2>4. OpShape'
        BY <2>2, <2>3 DEF OpShape
    <2> QED
        BY <2>1, <2>4
  <1>10. ASSUME NEW o \in Op, FinishArchive(o) PROVE GrantTypes' /\ OpShape'
    <2>1. GrantTypes'
        BY <1>10, FinishArchiveDoes
           DEF GrantTypes, GrantState, Noted, Fault, HeldSaved, HeldLost, ListedSaved, ListedLost
    <2>2. Shaped(op'[o])
        BY <1>10, FinishArchiveDoes DEF OpShape, Shaped, Sets, NoOp
    <2>3. \A p \in Op \ {o} : op'[p] = op[p]
        BY <1>10, FinishArchiveDoes DEF Sets
    <2>4. OpShape'
        BY <2>2, <2>3 DEF OpShape
    <2> QED
        BY <2>1, <2>4
  <1>11. ASSUME NEW o \in Op, ExecutorFind(o) PROVE GrantTypes' /\ OpShape'
    <2>1. GrantTypes'
        BY <1>11, ExecutorFindDoes
           DEF GrantTypes, GrantState, Noted, Fault, HeldSaved, HeldLost, ListedSaved, ListedLost
    <2>2. Shaped(op'[o])
        BY <1>11, ExecutorFindDoes DEF OpShape, Shaped, Sets, NoOp
    <2>3. \A p \in Op \ {o} : op'[p] = op[p]
        BY <1>11, ExecutorFindDoes DEF Sets
    <2>4. OpShape'
        BY <2>2, <2>3 DEF OpShape
    <2> QED
        BY <2>1, <2>4
  <1>12. ASSUME NEW o \in Op, FinishFind(o) PROVE GrantTypes' /\ OpShape'
    <2>1. GrantTypes'
        BY <1>12, FinishFindDoes
           DEF GrantTypes, GrantState, Noted, Fault, HeldSaved, HeldLost, ListedSaved, ListedLost
    <2>2. Shaped(op'[o])
        BY <1>12, FinishFindDoes DEF OpShape, Shaped, Sets, NoOp
    <2>3. \A p \in Op \ {o} : op'[p] = op[p]
        BY <1>12, FinishFindDoes DEF Sets
    <2>4. OpShape'
        BY <2>2, <2>3 DEF OpShape
    <2> QED
        BY <2>1, <2>4
  <1>13. ASSUME NEW o \in Op, Create(o) PROVE GrantTypes' /\ OpShape'
    <2>1. GrantTypes'
        BY <1>13, CreateDoes
           DEF GrantTypes, GrantState, Noted, Fault, HeldSaved, HeldLost, ListedSaved, ListedLost
    <2>2. Shaped(op'[o])
        BY <1>13, CreateDoes DEF OpShape, Shaped, Sets, NoOp
    <2>3. \A p \in Op \ {o} : op'[p] = op[p]
        BY <1>13, CreateDoes DEF Sets
    <2>4. OpShape'
        BY <2>2, <2>3 DEF OpShape
    <2> QED
        BY <2>1, <2>4
  <1>14. ASSUME NEW o \in Op, Read(o) PROVE GrantTypes' /\ OpShape'
    <2>1. GrantTypes'
        BY <1>14, ReadDoes
           DEF GrantTypes, GrantState, Noted, Fault, HeldSaved, HeldLost, ListedSaved, ListedLost
    <2>2. Shaped(op'[o])
        BY <1>14, ReadDoes DEF OpShape, Shaped, Sets, NoOp
    <2>3. \A p \in Op \ {o} : op'[p] = op[p]
        BY <1>14, ReadDoes DEF Sets
    <2>4. OpShape'
        BY <2>2, <2>3 DEF OpShape
    <2> QED
        BY <2>1, <2>4
  <1>15. ASSUME NEW o \in Op, GiveUp(o) \/ Lost(o) PROVE GrantTypes' /\ OpShape'
    <2>1. GrantTypes'
        BY <1>15, GiveUpDoes
           DEF GrantTypes, GrantState, Noted, Fault, HeldSaved, HeldLost, ListedSaved, ListedLost
    <2>2. Shaped(op'[o])
        BY <1>15, GiveUpDoes DEF OpShape, Shaped, Sets, NoOp
    <2>3. \A p \in Op \ {o} : op'[p] = op[p]
        BY <1>15, GiveUpDoes DEF Sets
    <2>4. OpShape'
        BY <2>2, <2>3 DEF OpShape
    <2> QED
        BY <2>1, <2>4
  <1>16. ASSUME ControllerRestarts PROVE GrantTypes' /\ OpShape'
    <2>1. GrantTypes'
        BY <1>16, ControllerRestartsDoes DEF GrantTypes, Fault
    <2>2. ASSUME NEW o \in Op PROVE Shaped(op'[o])
      <3>1. Shaped(op[o])
          BY DEF OpShape
      <3>2. CASE op'[o] = op[o]
          BY <3>1, <3>2
      <3>3. CASE op[o].step = "call"
          BY <1>16, <3>1, <3>3, ControllerRestartsDoes DEF Shaped
      <3>4. CASE op[o].step \notin {"idle", "ok", "late", "call"}
          BY <1>16, <3>1, <3>4, ControllerRestartsDoes DEF Shaped
      <3> QED
          BY <1>16, <3>2, <3>3, <3>4, ControllerRestartsDoes
    <2> QED
        BY <2>1, <2>2 DEF OpShape
  <1>17. ASSUME ExecutorRestarts PROVE GrantTypes' /\ OpShape'
      BY <1>17 DEF ExecutorRestarts, Fault, GrantTypes, OpShape
  <1>18. CASE UNCHANGED grantVars
      BY <1>18 DEF grantVars, GrantTypes, OpShape
  <1> QED
      BY <1>1, <1>2, <1>3, <1>4, <1>5, <1>6, <1>7, <1>8, <1>9, <1>10, <1>11, <1>12, <1>13, <1>14,
         <1>15, <1>16, <1>17, <1>18
         DEF GrantNext

\* A request that has started keeps its kind and the grants it is to revoke,
\* and unless it archives a session the grant it names.
OpsStay ==
  \A p \in Op :
    /\ op[p].kind # "none" => op'[p].kind = op[p].kind /\ op'[p].all = op[p].all
    /\ op[p].kind # "archive" /\ op[p].grant \in Grant => op'[p].grant = op[p].grant

LEMMA OpStays ==
  ASSUME GrantTypes, OpShape, [GrantNext]_grantVars
  PROVE  OpsStay
  <1>1. ASSUME NEW o \in Op, NEW g \in Grant, StartApprove(o, g) PROVE OpsStay
    <2>0. op[o] = NoOp
        BY <1>1, StartApproveDoes
    <2>1. op[o].kind = "none" /\ op[o].grant \notin Grant
        BY <2>0, ReadGrantsAssumption DEF NoOp
    <2>2. \A p \in Op \ {o} : op'[p] = op[p]
        BY <1>1, StartApproveDoes DEF Sets
    <2> QED
        BY <2>1, <2>2 DEF OpsStay
  <1>2. ASSUME NEW o \in Op, NEW g \in Grant, StartRevoke(o, g) PROVE OpsStay
    <2>0. op[o] = NoOp
        BY <1>2, StartRevokeDoes
    <2>1. op[o].kind = "none" /\ op[o].grant \notin Grant
        BY <2>0, ReadGrantsAssumption DEF NoOp
    <2>2. \A p \in Op \ {o} : op'[p] = op[p]
        BY <1>2, StartRevokeDoes DEF Sets
    <2> QED
        BY <2>1, <2>2 DEF OpsStay
  <1>3. ASSUME NEW o \in Op, NEW kind \in {"request", "read"}, StartFind(o, kind) PROVE OpsStay
    <2>0. op[o] = NoOp
        BY <1>3, StartFindDoes
    <2>1. op[o].kind = "none" /\ op[o].grant \notin Grant
        BY <2>0, ReadGrantsAssumption DEF NoOp
    <2>2. \A p \in Op \ {o} : op'[p] = op[p]
        BY <1>3, StartFindDoes DEF Sets
    <2> QED
        BY <2>1, <2>2 DEF OpsStay
  <1>4. ASSUME NEW o \in Op, ExecutorApprove(o) PROVE OpsStay
      BY <1>4, ExecutorApproveDoes, ReadGrantsAssumption DEF OpsStay, Sets, OpShape, Shaped, NoOp
  <1>5. ASSUME NEW o \in Op, FinishApprove(o) PROVE OpsStay
      BY <1>5, FinishApproveDoes, ReadGrantsAssumption DEF OpsStay, Sets, OpShape, Shaped, NoOp
  <1>6. ASSUME NEW o \in Op, ExecutorRevoke(o) PROVE OpsStay
      BY <1>6, ExecutorRevokeDoes, ReadGrantsAssumption DEF OpsStay, Sets, OpShape, Shaped, NoOp
  <1>7. ASSUME NEW o \in Op, FinishRevoke(o) PROVE OpsStay
      BY <1>7, FinishRevokeDoes, ReadGrantsAssumption DEF OpsStay, Sets, OpShape, Shaped, NoOp
  <1>8. ASSUME NEW o \in Op, StartArchive(o) PROVE OpsStay
    <2>0. op[o] = NoOp
        BY <1>8, StartArchiveDoes
    <2>1. op[o].kind = "none" /\ op[o].grant \notin Grant
        BY <2>0, ReadGrantsAssumption DEF NoOp
    <2>2. \A p \in Op \ {o} : op'[p] = op[p]
        BY <1>8, StartArchiveDoes DEF Sets
    <2> QED
        BY <2>1, <2>2 DEF OpsStay
  <1>9. ASSUME NEW o \in Op, ArchiveNext(o) PROVE OpsStay
      BY <1>9, ArchiveNextDoes, ReadGrantsAssumption DEF OpsStay, Sets, OpShape, Shaped, NoOp
  <1>10. ASSUME NEW o \in Op, FinishArchive(o) PROVE OpsStay
      BY <1>10, FinishArchiveDoes, ReadGrantsAssumption DEF OpsStay, Sets, OpShape, Shaped, NoOp
  <1>11. ASSUME NEW o \in Op, ExecutorFind(o) PROVE OpsStay
      BY <1>11, ExecutorFindDoes, ReadGrantsAssumption DEF OpsStay, Sets, OpShape, Shaped, NoOp
  <1>12. ASSUME NEW o \in Op, FinishFind(o) PROVE OpsStay
      BY <1>12, FinishFindDoes, ReadGrantsAssumption DEF OpsStay, Sets, OpShape, Shaped, NoOp
  <1>13. ASSUME NEW o \in Op, Create(o) PROVE OpsStay
      BY <1>13, CreateDoes, ReadGrantsAssumption DEF OpsStay, Sets, OpShape, Shaped, NoOp
  <1>14. ASSUME NEW o \in Op, Read(o) PROVE OpsStay
      BY <1>14, ReadDoes, ReadGrantsAssumption DEF OpsStay, Sets, OpShape, Shaped, NoOp
  <1>15. ASSUME NEW o \in Op, GiveUp(o) \/ Lost(o) PROVE OpsStay
      BY <1>15, GiveUpDoes, ReadGrantsAssumption DEF OpsStay, Sets, OpShape, Shaped, NoOp
  <1>16. ASSUME ControllerRestarts PROVE OpsStay
      BY <1>16, ControllerRestartsDoes DEF OpsStay
  <1>17. ASSUME ExecutorRestarts PROVE OpsStay
      BY <1>17 DEF OpsStay, ExecutorRestarts
  <1>18. CASE UNCHANGED grantVars
      BY <1>18 DEF OpsStay, grantVars
  <1> QED
      BY <1>1, <1>2, <1>3, <1>4, <1>5, <1>6, <1>7, <1>8, <1>9, <1>10, <1>11, <1>12, <1>13, <1>14,
         <1>15, <1>16, <1>17, <1>18
         DEF GrantNext

LEMMA UsedStays ==
  ASSUME OpShape, OpsStay, NEW g \in Grant
  PROVE  /\ Used(g) => Used(g)'
         /\ \A kind \in {"approve", "revoke", "archive"} : Begun(kind, g) => Begun(kind, g)'
  <1>1. Used(g) => Used(g)'
    <2> SUFFICES ASSUME NEW o \in Op, op[o].kind # "archive", op[o].grant = g PROVE Used(g)'
        BY DEF Used
    <2>1. op[o].kind # "none"
        BY ReadGrantsAssumption DEF OpShape, Shaped, NoOp
    <2> QED
        BY <2>1 DEF Used, OpsStay
  <1>2. ASSUME NEW kind \in {"approve", "revoke", "archive"}, Begun(kind, g) PROVE Begun(kind, g)'
    <2>1. PICK o \in Op : op[o].kind = kind /\ g \in {op[o].grant} \cup op[o].all
        BY <1>2 DEF Begun
    <2>2. op'[o].kind = kind /\ op'[o].all = op[o].all
        BY <2>1 DEF OpsStay
    <2>3. CASE kind = "archive"
      <3>1. g \in op[o].all
          BY <2>1, <2>3, ReadGrantsAssumption DEF OpShape, Shaped
      <3> QED
          BY <2>2, <3>1 DEF Begun
    <2>4. CASE kind # "archive"
      <3>1. op[o].grant = g
          BY <2>1, <2>4 DEF OpShape, Shaped
      <3>2. op'[o].grant = g
          BY <2>1, <2>4, <3>1 DEF OpsStay
      <3> QED
          BY <2>2, <3>2 DEF Begun
    <2> QED
        BY <2>3, <2>4
  <1> QED
      BY <1>1, <1>2

\* What a step records of a grant was recorded before, or a request names it.
NewlyRecorded ==
  \A g \in Grant :
    /\ listed'[g] # "absent" \/ listedDisk'[g] # "absent" =>
         listed[g] # "absent" \/ listedDisk[g] # "absent" \/ Used(g)'
           \/ \E o \in Op : g \in op[o].all
    /\ held'[g] # "absent" \/ heldDisk'[g] # "absent" =>
         held[g] # "absent" \/ heldDisk[g] # "absent" \/ Begun("approve", g)'
    /\ \A o \in Op : g \in op'[o].all => g \in op[o].all \/ listed[g] # "absent"

LEMMA NewlyRecordedNext ==
  ASSUME GrantTypes, OpShape, [GrantNext]_grantVars
  PROVE  NewlyRecorded
  <1>1. ASSUME NEW o \in Op, NEW g \in Grant, StartApprove(o, g) PROVE NewlyRecorded
      BY <1>1, StartApproveDoes DEF NewlyRecorded, Sets, NoOp
  <1>2. ASSUME NEW o \in Op, NEW g \in Grant, StartRevoke(o, g) PROVE NewlyRecorded
      BY <1>2, StartRevokeDoes DEF NewlyRecorded, Sets, NoOp
  <1>3. ASSUME NEW o \in Op, NEW kind \in {"request", "read"}, StartFind(o, kind) PROVE NewlyRecorded
      BY <1>3, StartFindDoes DEF NewlyRecorded, Sets, NoOp
  <1>4. ASSUME NEW o \in Op, ExecutorApprove(o) PROVE NewlyRecorded
      BY <1>4, ExecutorApproveDoes
         DEF NewlyRecorded, Sets, ListedSaved, ListedLost, HeldSaved, HeldLost, Used, Begun,
             GrantTypes
  <1>5. ASSUME NEW o \in Op, FinishApprove(o) PROVE NewlyRecorded
      BY <1>5, FinishApproveDoes
         DEF NewlyRecorded, Sets, ListedSaved, ListedLost, HeldSaved, HeldLost, Used, Begun,
             GrantTypes
  <1>6. ASSUME NEW o \in Op, ExecutorRevoke(o) PROVE NewlyRecorded
      BY <1>6, ExecutorRevokeDoes
         DEF NewlyRecorded, Sets, ListedSaved, ListedLost, HeldSaved, HeldLost, Used, Begun,
             GrantTypes
  <1>7. ASSUME NEW o \in Op, FinishRevoke(o) PROVE NewlyRecorded
      BY <1>7, FinishRevokeDoes
         DEF NewlyRecorded, Sets, ListedSaved, ListedLost, HeldSaved, HeldLost, Used, Begun,
             GrantTypes
  <1>8. ASSUME NEW o \in Op, StartArchive(o) PROVE NewlyRecorded
      BY <1>8, StartArchiveDoes DEF NewlyRecorded, Sets, NoOp
  <1>9. ASSUME NEW o \in Op, ArchiveNext(o) PROVE NewlyRecorded
      BY <1>9, ArchiveNextDoes
         DEF NewlyRecorded, Sets, ListedSaved, ListedLost, HeldSaved, HeldLost, Used, Begun,
             GrantTypes
  <1>10. ASSUME NEW o \in Op, FinishArchive(o) PROVE NewlyRecorded
      BY <1>10, FinishArchiveDoes
         DEF NewlyRecorded, Sets, ListedSaved, ListedLost, HeldSaved, HeldLost, Used, Begun,
             GrantTypes
  <1>11. ASSUME NEW o \in Op, ExecutorFind(o) PROVE NewlyRecorded
      BY <1>11, ExecutorFindDoes
         DEF NewlyRecorded, Sets, ListedSaved, ListedLost, HeldSaved, HeldLost, Used, Begun,
             GrantTypes
  <1>12. ASSUME NEW o \in Op, FinishFind(o) PROVE NewlyRecorded
      BY <1>12, FinishFindDoes
         DEF NewlyRecorded, Sets, ListedSaved, ListedLost, HeldSaved, HeldLost, Used, Begun,
             GrantTypes
  <1>13. ASSUME NEW o \in Op, Create(o) PROVE NewlyRecorded
      BY <1>13, CreateDoes
         DEF NewlyRecorded, Sets, ListedSaved, ListedLost, HeldSaved, HeldLost, Used, Begun,
             GrantTypes
  <1>14. ASSUME NEW o \in Op, Read(o) PROVE NewlyRecorded
      BY <1>14, ReadDoes
         DEF NewlyRecorded, Sets, ListedSaved, ListedLost, HeldSaved, HeldLost, Used, Begun,
             GrantTypes
  <1>15. ASSUME NEW o \in Op, GiveUp(o) \/ Lost(o) PROVE NewlyRecorded
      BY <1>15, GiveUpDoes
         DEF NewlyRecorded, Sets, ListedSaved, ListedLost, HeldSaved, HeldLost, Used, Begun,
             GrantTypes
  <1>16. ASSUME ControllerRestarts PROVE NewlyRecorded
      BY <1>16, ControllerRestartsDoes DEF NewlyRecorded
  <1>17. ASSUME ExecutorRestarts PROVE NewlyRecorded
      BY <1>17 DEF NewlyRecorded, ExecutorRestarts
  <1>18. CASE UNCHANGED grantVars
      BY <1>18 DEF NewlyRecorded, grantVars
  <1> QED
      BY <1>1, <1>2, <1>3, <1>4, <1>5, <1>6, <1>7, <1>8, <1>9, <1>10, <1>11, <1>12, <1>13, <1>14,
         <1>15, <1>16, <1>17, <1>18
         DEF GrantNext

LEMMA TracedNext ==
  ASSUME OpShape, OpsStay, NewlyRecorded, Traced PROVE Traced'
  <1> SUFFICES ASSUME NEW g \in Grant
               PROVE  /\ listed'[g] # "absent" \/ listedDisk'[g] # "absent" => Used(g)'
                      /\ held'[g] # "absent" \/ heldDisk'[g] # "absent" => Begun("approve", g)'
                      /\ \A o \in Op : g \in op'[o].all => Used(g)'
      BY DEF Traced
  <1>1. Used(g) => Used(g)'
      BY UsedStays
  <1>2. Begun("approve", g) => Begun("approve", g)'
      BY UsedStays
  <1> QED
      BY <1>1, <1>2 DEF Traced, NewlyRecorded

\* Decisions about a grant do not overlap unnoticed.
LEMMA OneDecisionNext ==
  ASSUME GrantTypes, OpShape, OneDecision, [GrantNext]_grantVars
  PROVE  OneDecision'
  <1>1. ASSUME NEW o \in Op, NEW g \in Grant, StartApprove(o, g) PROVE OneDecision'
      BY <1>1, StartApproveDoes DEF Sets, NoOp, Noted, OneDecision, Deciding
  <1>2. ASSUME NEW o \in Op, NEW g \in Grant, StartRevoke(o, g) PROVE OneDecision'
      BY <1>2, StartRevokeDoes DEF Sets, NoOp, Noted, OneDecision, Deciding
  <1>3. ASSUME NEW o \in Op, NEW kind \in {"request", "read"}, StartFind(o, kind) PROVE OneDecision'
      BY <1>3, StartFindDoes DEF Sets, NoOp, Noted, OneDecision, Deciding
  <1>4. ASSUME NEW o \in Op, ExecutorApprove(o) PROVE OneDecision'
      BY <1>4, ExecutorApproveDoes DEF Sets, OpShape, Shaped, OneDecision, Deciding
  <1>5. ASSUME NEW o \in Op, FinishApprove(o) PROVE OneDecision'
      BY <1>5, FinishApproveDoes DEF Sets, OpShape, Shaped, OneDecision, Deciding
  <1>6. ASSUME NEW o \in Op, ExecutorRevoke(o) PROVE OneDecision'
      BY <1>6, ExecutorRevokeDoes DEF Sets, OpShape, Shaped, OneDecision, Deciding
  <1>7. ASSUME NEW o \in Op, FinishRevoke(o) PROVE OneDecision'
      BY <1>7, FinishRevokeDoes DEF Sets, OpShape, Shaped, OneDecision, Deciding
  <1>8. ASSUME NEW o \in Op, StartArchive(o) PROVE OneDecision'
      BY <1>8, StartArchiveDoes DEF Sets, NoOp, Noted, OneDecision, Deciding
  <1>9. ASSUME NEW o \in Op, ArchiveNext(o) PROVE OneDecision'
      BY <1>9, ArchiveNextDoes DEF Sets, OpShape, Shaped, OneDecision, Deciding
  <1>10. ASSUME NEW o \in Op, FinishArchive(o) PROVE OneDecision'
      BY <1>10, FinishArchiveDoes DEF Sets, OpShape, Shaped, OneDecision, Deciding
  <1>11. ASSUME NEW o \in Op, ExecutorFind(o) PROVE OneDecision'
      BY <1>11, ExecutorFindDoes DEF Sets, OpShape, Shaped, OneDecision, Deciding
  <1>12. ASSUME NEW o \in Op, FinishFind(o) PROVE OneDecision'
      BY <1>12, FinishFindDoes DEF Sets, OpShape, Shaped, OneDecision, Deciding
  <1>13. ASSUME NEW o \in Op, Create(o) PROVE OneDecision'
      BY <1>13, CreateDoes DEF Sets, OpShape, Shaped, OneDecision, Deciding
  <1>14. ASSUME NEW o \in Op, Read(o) PROVE OneDecision'
      BY <1>14, ReadDoes DEF Sets, OpShape, Shaped, OneDecision, Deciding
  <1>15. ASSUME NEW o \in Op, GiveUp(o) \/ Lost(o) PROVE OneDecision'
      BY <1>15, GiveUpDoes DEF Sets, OpShape, Shaped, OneDecision, Deciding
  <1>16. ASSUME ControllerRestarts PROVE OneDecision'
      BY <1>16, ControllerRestartsDoes DEF Sets, OpShape, Shaped, OneDecision, Deciding
  <1>17. ASSUME ExecutorRestarts PROVE OneDecision'
      BY <1>17 DEF ExecutorRestarts, OneDecision, Deciding
  <1>18. CASE UNCHANGED grantVars
      BY <1>18 DEF grantVars, OneDecision, Deciding
  <1> QED
      BY <1>1, <1>2, <1>3, <1>4, <1>5, <1>6, <1>7, <1>8, <1>9, <1>10, <1>11, <1>12, <1>13, <1>14,
         <1>15, <1>16, <1>17, <1>18
         DEF GrantNext

\* A grant that was revoked for good is never recorded as requested.
LEMMA NotAskedAgainNext ==
  ASSUME GrantTypes, OpShape, Traced, NotAskedAgain, [GrantNext]_grantVars
  PROVE  NotAskedAgain'
  <1>1. ASSUME NEW o \in Op, NEW g \in Grant, StartApprove(o, g) PROVE NotAskedAgain'
      BY <1>1, StartApproveDoes
         DEF Sets, NoOp, Noted, NotAskedAgain, Revoked, Is, ListedSaved, ListedLost, GrantTypes
  <1>2. ASSUME NEW o \in Op, NEW g \in Grant, StartRevoke(o, g) PROVE NotAskedAgain'
      BY <1>2, StartRevokeDoes
         DEF Sets, NoOp, Noted, NotAskedAgain, Revoked, Is, ListedSaved, ListedLost, GrantTypes
  <1>3. ASSUME NEW o \in Op, NEW kind \in {"request", "read"}, StartFind(o, kind) PROVE NotAskedAgain'
      BY <1>3, StartFindDoes
         DEF Sets, NoOp, Noted, NotAskedAgain, Revoked, Is, ListedSaved, ListedLost, GrantTypes
  <1>4. ASSUME NEW o \in Op, ExecutorApprove(o) PROVE NotAskedAgain'
      BY <1>4, ExecutorApproveDoes
         DEF Sets, OpShape, Shaped, NotAskedAgain, Revoked, Is, ListedSaved, ListedLost,
             GrantTypes
  <1>5. ASSUME NEW o \in Op, FinishApprove(o) PROVE NotAskedAgain'
      BY <1>5, FinishApproveDoes
         DEF Sets, OpShape, Shaped, NotAskedAgain, Revoked, Is, ListedSaved, ListedLost,
             GrantTypes
  <1>6. ASSUME NEW o \in Op, ExecutorRevoke(o) PROVE NotAskedAgain'
      BY <1>6, ExecutorRevokeDoes
         DEF Sets, OpShape, Shaped, NotAskedAgain, Revoked, Is, ListedSaved, ListedLost,
             GrantTypes
  <1>7. ASSUME NEW o \in Op, FinishRevoke(o) PROVE NotAskedAgain'
      BY <1>7, FinishRevokeDoes
         DEF Sets, OpShape, Shaped, NotAskedAgain, Revoked, Is, ListedSaved, ListedLost,
             GrantTypes
  <1>8. ASSUME NEW o \in Op, StartArchive(o) PROVE NotAskedAgain'
      BY <1>8, StartArchiveDoes
         DEF Sets, NoOp, Noted, NotAskedAgain, Revoked, Is, ListedSaved, ListedLost, GrantTypes
  <1>9. ASSUME NEW o \in Op, ArchiveNext(o) PROVE NotAskedAgain'
      BY <1>9, ArchiveNextDoes
         DEF Sets, OpShape, Shaped, NotAskedAgain, Revoked, Is, ListedSaved, ListedLost,
             GrantTypes
  <1>10. ASSUME NEW o \in Op, FinishArchive(o) PROVE NotAskedAgain'
      BY <1>10, FinishArchiveDoes
         DEF Sets, OpShape, Shaped, NotAskedAgain, Revoked, Is, ListedSaved, ListedLost,
             GrantTypes
  <1>11. ASSUME NEW o \in Op, ExecutorFind(o) PROVE NotAskedAgain'
      BY <1>11, ExecutorFindDoes
         DEF Sets, OpShape, Shaped, NotAskedAgain, Revoked, Is, ListedSaved, ListedLost,
             GrantTypes
  <1>12. ASSUME NEW o \in Op, FinishFind(o) PROVE NotAskedAgain'
      BY <1>12, FinishFindDoes
         DEF Sets, OpShape, Shaped, NotAskedAgain, Revoked, Is, ListedSaved, ListedLost,
             GrantTypes
  <1>13. ASSUME NEW o \in Op, Create(o) PROVE NotAskedAgain'
    <2>1. \A g \in Grant : Revoked(g)' => Revoked(g)
        BY <1>13, CreateDoes DEF Revoked, Is, Sets
    <2>2. \A g \in Grant : Revoked(g) => Used(g)
        BY DEF Revoked, Is, Traced, Used
    <2>3. ~Used(NewGrant)
        BY <1>13, CreateDoes DEF Used
    <2> QED
        BY <1>13, CreateDoes, <2>1, <2>2, <2>3
           DEF NotAskedAgain, ListedSaved, ListedLost, GrantTypes
  <1>14. ASSUME NEW o \in Op, Read(o) PROVE NotAskedAgain'
      BY <1>14, ReadDoes
         DEF Sets, OpShape, Shaped, NotAskedAgain, Revoked, Is, ListedSaved, ListedLost,
             GrantTypes
  <1>15. ASSUME NEW o \in Op, GiveUp(o) \/ Lost(o) PROVE NotAskedAgain'
      BY <1>15, GiveUpDoes
         DEF Sets, OpShape, Shaped, NotAskedAgain, Revoked, Is, ListedSaved, ListedLost,
             GrantTypes
  <1>16. ASSUME ControllerRestarts PROVE NotAskedAgain'
      BY <1>16, ControllerRestartsDoes
         DEF Sets, OpShape, Shaped, NotAskedAgain, Revoked, Is, ListedSaved, ListedLost,
             GrantTypes
  <1>17. ASSUME ExecutorRestarts PROVE NotAskedAgain'
      BY <1>17
         DEF ExecutorRestarts, NotAskedAgain, Revoked, Is, ListedSaved, ListedLost, GrantTypes
  <1>18. CASE UNCHANGED grantVars
      BY <1>18 DEF grantVars, NotAskedAgain, Revoked, Is, ListedSaved, ListedLost, GrantTypes
  <1> QED
      BY <1>1, <1>2, <1>3, <1>4, <1>5, <1>6, <1>7, <1>8, <1>9, <1>10, <1>11, <1>12, <1>13, <1>14,
         <1>15, <1>16, <1>17, <1>18
         DEF GrantNext

\* When a revocation is confirmed no approval is on its way, and none starts.
LEMMA NoApprovalLeftNext ==
  ASSUME GrantTypes, OpShape, OneDecision, NotAskedAgain, NoApprovalLeft, [GrantNext]_grantVars
  PROVE  NoApprovalLeft'
  <1>1. ASSUME NEW o \in Op, NEW g \in Grant, StartApprove(o, g) PROVE NoApprovalLeft'
      BY <1>1, StartApproveDoes
         DEF Sets, NoOp, Noted, NoApprovalLeft, NotAskedAgain, OneDecision, Deciding, Revoked, Is
  <1>2. ASSUME NEW o \in Op, NEW g \in Grant, StartRevoke(o, g) PROVE NoApprovalLeft'
      BY <1>2, StartRevokeDoes
         DEF Sets, NoOp, Noted, NoApprovalLeft, NotAskedAgain, OneDecision, Deciding, Revoked, Is
  <1>3. ASSUME NEW o \in Op, NEW kind \in {"request", "read"}, StartFind(o, kind) PROVE NoApprovalLeft'
      BY <1>3, StartFindDoes
         DEF Sets, NoOp, Noted, NoApprovalLeft, NotAskedAgain, OneDecision, Deciding, Revoked, Is
  <1>4. ASSUME NEW o \in Op, ExecutorApprove(o) PROVE NoApprovalLeft'
      BY <1>4, ExecutorApproveDoes
         DEF Sets, OpShape, Shaped, NoApprovalLeft, NotAskedAgain, OneDecision, Deciding, Revoked,
             Is
  <1>5. ASSUME NEW o \in Op, FinishApprove(o) PROVE NoApprovalLeft'
      BY <1>5, FinishApproveDoes
         DEF Sets, OpShape, Shaped, NoApprovalLeft, NotAskedAgain, OneDecision, Deciding, Revoked,
             Is
  <1>6. ASSUME NEW o \in Op, ExecutorRevoke(o) PROVE NoApprovalLeft'
      BY <1>6, ExecutorRevokeDoes
         DEF Sets, OpShape, Shaped, NoApprovalLeft, NotAskedAgain, OneDecision, Deciding, Revoked,
             Is
  <1>7. ASSUME NEW o \in Op, FinishRevoke(o) PROVE NoApprovalLeft'
      BY <1>7, FinishRevokeDoes
         DEF Sets, OpShape, Shaped, NoApprovalLeft, NotAskedAgain, OneDecision, Deciding, Revoked,
             Is
  <1>8. ASSUME NEW o \in Op, StartArchive(o) PROVE NoApprovalLeft'
      BY <1>8, StartArchiveDoes
         DEF Sets, NoOp, Noted, NoApprovalLeft, NotAskedAgain, OneDecision, Deciding, Revoked, Is
  <1>9. ASSUME NEW o \in Op, ArchiveNext(o) PROVE NoApprovalLeft'
      BY <1>9, ArchiveNextDoes
         DEF Sets, OpShape, Shaped, NoApprovalLeft, NotAskedAgain, OneDecision, Deciding, Revoked,
             Is
  <1>10. ASSUME NEW o \in Op, FinishArchive(o) PROVE NoApprovalLeft'
      BY <1>10, FinishArchiveDoes
         DEF Sets, OpShape, Shaped, NoApprovalLeft, NotAskedAgain, OneDecision, Deciding, Revoked,
             Is
  <1>11. ASSUME NEW o \in Op, ExecutorFind(o) PROVE NoApprovalLeft'
      BY <1>11, ExecutorFindDoes
         DEF Sets, OpShape, Shaped, NoApprovalLeft, NotAskedAgain, OneDecision, Deciding, Revoked,
             Is
  <1>12. ASSUME NEW o \in Op, FinishFind(o) PROVE NoApprovalLeft'
      BY <1>12, FinishFindDoes
         DEF Sets, OpShape, Shaped, NoApprovalLeft, NotAskedAgain, OneDecision, Deciding, Revoked,
             Is
  <1>13. ASSUME NEW o \in Op, Create(o) PROVE NoApprovalLeft'
      BY <1>13, CreateDoes
         DEF Sets, OpShape, Shaped, NoApprovalLeft, NotAskedAgain, OneDecision, Deciding, Revoked,
             Is
  <1>14. ASSUME NEW o \in Op, Read(o) PROVE NoApprovalLeft'
      BY <1>14, ReadDoes
         DEF Sets, OpShape, Shaped, NoApprovalLeft, NotAskedAgain, OneDecision, Deciding, Revoked,
             Is
  <1>15. ASSUME NEW o \in Op, GiveUp(o) \/ Lost(o) PROVE NoApprovalLeft'
      BY <1>15, GiveUpDoes
         DEF Sets, OpShape, Shaped, NoApprovalLeft, NotAskedAgain, OneDecision, Deciding, Revoked,
             Is
  <1>16. ASSUME ControllerRestarts PROVE NoApprovalLeft'
      BY <1>16, ControllerRestartsDoes
         DEF Sets, OpShape, Shaped, NoApprovalLeft, NotAskedAgain, OneDecision, Deciding, Revoked,
             Is
  <1>17. ASSUME ExecutorRestarts PROVE NoApprovalLeft'
      BY <1>17
         DEF ExecutorRestarts, NoApprovalLeft, NotAskedAgain, OneDecision, Deciding, Revoked, Is
  <1>18. CASE UNCHANGED grantVars
      BY <1>18 DEF grantVars, NoApprovalLeft, NotAskedAgain, OneDecision, Deciding, Revoked, Is
  <1> QED
      BY <1>1, <1>2, <1>3, <1>4, <1>5, <1>6, <1>7, <1>8, <1>9, <1>10, <1>11, <1>12, <1>13, <1>14,
         <1>15, <1>16, <1>17, <1>18
         DEF GrantNext

LEMMA PerformedDecides ==
  ASSUME OpShape, NEW o \in Op, NEW g \in Grant, Performed(o, g)
  PROVE  o \in Deciding(g) \/ Revoked(g)
  BY DEF OpShape, Shaped, Performed, Deciding, Revoked, Is

\* What a revocation has done at the Executor is not undone.
LEMMA PerformedHoldsNext ==
  ASSUME GrantTypes, OpShape, OneDecision, NoApprovalLeft, PerformedHolds, [GrantNext]_grantVars
  PROVE  PerformedHolds'
  <1>1. ASSUME NEW o \in Op, NEW g \in Grant, StartApprove(o, g) PROVE PerformedHolds'
      BY <1>1, StartApproveDoes
         DEF Sets, NoOp, Noted, PerformedHolds, Performed, HeldSaved, HeldLost, GrantTypes
  <1>2. ASSUME NEW o \in Op, NEW g \in Grant, StartRevoke(o, g) PROVE PerformedHolds'
      BY <1>2, StartRevokeDoes
         DEF Sets, NoOp, Noted, PerformedHolds, Performed, HeldSaved, HeldLost, GrantTypes
  <1>3. ASSUME NEW o \in Op, NEW kind \in {"request", "read"}, StartFind(o, kind) PROVE PerformedHolds'
      BY <1>3, StartFindDoes
         DEF Sets, NoOp, Noted, PerformedHolds, Performed, HeldSaved, HeldLost, GrantTypes
  <1>4. ASSUME NEW o \in Op, ExecutorApprove(o) PROVE PerformedHolds'
    <2> SUFFICES ASSUME NEW g \in Grant \ overlap, NEW p \in Op, Performed(p, g)'
                 PROVE  held'[g] # "approved" /\ heldDisk'[g] # "approved"
        BY <1>4, ExecutorApproveDoes DEF PerformedHolds
    <2>1. Performed(p, g)
        BY <1>4, ExecutorApproveDoes DEF Performed, Sets
    <2>2. g # op[o].grant
      <3>1. p \in Deciding(g) \/ Revoked(g)
          BY <2>1, PerformedDecides
      <3>2. op[o].grant = g => o \in Deciding(g)
          BY <1>4, ExecutorApproveDoes DEF Deciding
      <3>3. p # o
          BY <1>4, <2>1, ExecutorApproveDoes DEF Performed
      <3> QED
          BY <1>4, ExecutorApproveDoes, <3>1, <3>2, <3>3 DEF OneDecision, NoApprovalLeft
    <2> QED
        BY <1>4, ExecutorApproveDoes, <2>1, <2>2
           DEF PerformedHolds, HeldSaved, HeldLost, GrantTypes
  <1>5. ASSUME NEW o \in Op, FinishApprove(o) PROVE PerformedHolds'
      BY <1>5, FinishApproveDoes
         DEF Sets, OpShape, Shaped, PerformedHolds, Performed, HeldSaved, HeldLost, GrantTypes
  <1>6. ASSUME NEW o \in Op, ExecutorRevoke(o) PROVE PerformedHolds'
      BY <1>6, ExecutorRevokeDoes
         DEF Sets, OpShape, Shaped, PerformedHolds, Performed, HeldSaved, HeldLost, GrantTypes
  <1>7. ASSUME NEW o \in Op, FinishRevoke(o) PROVE PerformedHolds'
      BY <1>7, FinishRevokeDoes
         DEF Sets, OpShape, Shaped, PerformedHolds, Performed, HeldSaved, HeldLost, GrantTypes
  <1>8. ASSUME NEW o \in Op, StartArchive(o) PROVE PerformedHolds'
      BY <1>8, StartArchiveDoes
         DEF Sets, NoOp, Noted, PerformedHolds, Performed, HeldSaved, HeldLost, GrantTypes
  <1>9. ASSUME NEW o \in Op, ArchiveNext(o) PROVE PerformedHolds'
      BY <1>9, ArchiveNextDoes
         DEF Sets, OpShape, Shaped, PerformedHolds, Performed, HeldSaved, HeldLost, GrantTypes
  <1>10. ASSUME NEW o \in Op, FinishArchive(o) PROVE PerformedHolds'
      BY <1>10, FinishArchiveDoes
         DEF Sets, OpShape, Shaped, PerformedHolds, Performed, HeldSaved, HeldLost, GrantTypes
  <1>11. ASSUME NEW o \in Op, ExecutorFind(o) PROVE PerformedHolds'
      BY <1>11, ExecutorFindDoes
         DEF Sets, OpShape, Shaped, PerformedHolds, Performed, HeldSaved, HeldLost, GrantTypes
  <1>12. ASSUME NEW o \in Op, FinishFind(o) PROVE PerformedHolds'
      BY <1>12, FinishFindDoes
         DEF Sets, OpShape, Shaped, PerformedHolds, Performed, HeldSaved, HeldLost, GrantTypes
  <1>13. ASSUME NEW o \in Op, Create(o) PROVE PerformedHolds'
      BY <1>13, CreateDoes
         DEF Sets, OpShape, Shaped, PerformedHolds, Performed, HeldSaved, HeldLost, GrantTypes
  <1>14. ASSUME NEW o \in Op, Read(o) PROVE PerformedHolds'
      BY <1>14, ReadDoes
         DEF Sets, OpShape, Shaped, PerformedHolds, Performed, HeldSaved, HeldLost, GrantTypes
  <1>15. ASSUME NEW o \in Op, GiveUp(o) \/ Lost(o) PROVE PerformedHolds'
      BY <1>15, GiveUpDoes
         DEF Sets, OpShape, Shaped, PerformedHolds, Performed, HeldSaved, HeldLost, GrantTypes
  <1>16. ASSUME ControllerRestarts PROVE PerformedHolds'
      BY <1>16, ControllerRestartsDoes
         DEF Sets, OpShape, Shaped, PerformedHolds, Performed, HeldSaved, HeldLost, GrantTypes
  <1>17. ASSUME ExecutorRestarts PROVE PerformedHolds'
      BY <1>17 DEF ExecutorRestarts, PerformedHolds, Performed, HeldSaved, HeldLost, GrantTypes
  <1>18. CASE UNCHANGED grantVars
      BY <1>18 DEF grantVars, PerformedHolds, Performed, HeldSaved, HeldLost, GrantTypes
  <1> QED
      BY <1>1, <1>2, <1>3, <1>4, <1>5, <1>6, <1>7, <1>8, <1>9, <1>10, <1>11, <1>12, <1>13, <1>14,
         <1>15, <1>16, <1>17, <1>18
         DEF GrantNext

\* What the Controller was told of an approval stays so.
LEMMA ApprovalKeptNext ==
  ASSUME GrantTypes, OpShape, OpsStay, ApprovalKept, [GrantNext]_grantVars
  PROVE  ApprovalKept'
  <1>0. ASSUME NEW h \in Grant
        PROVE  /\ Begun("revoke", h) => Begun("revoke", h)'
               /\ Begun("archive", h) => Begun("archive", h)'
      BY <1>0, UsedStays
  <1>1. ASSUME NEW o \in Op, NEW g \in Grant, StartApprove(o, g) PROVE ApprovalKept'
    <2> SUFFICES ASSUME grantFaults' = 0
                 PROVE  ApprovalKept'
        BY DEF ApprovalKept
    <2>1. grantFaults = 0 /\ ~Fault
        BY <1>1, StartApproveDoes
           DEF Fault, GrantTypes, HeldSaved, HeldLost, ListedSaved, ListedLost, Noted
    <2>2. heldDisk' = held'
        BY <1>1, StartApproveDoes, <2>1 DEF ApprovalKept, HeldSaved, HeldLost
    <2>3. ASSUME NEW h \in Grant, ~Begun("revoke", h)', ~Begun("archive", h)'
          PROVE  /\ listed'[h] = "approved" \/ listedDisk'[h] = "approved" => held'[h] = "approved"
                 /\ \A p \in Op : op'[p].grant = h =>
                      /\ op'[p].kind = "approve" /\ op'[p].step = "reply" => held'[h] = "approved"
                      /\ op'[p].step = "found" => held'[h] = "approved"
      <3>1. ~Begun("revoke", h) /\ ~Begun("archive", h)
          BY <1>0, <2>3
      <3> QED
          BY <1>1, StartApproveDoes, <2>1, <3>1
             DEF ApprovalKept, Begun, Sets, NoOp, HeldSaved, HeldLost, ListedSaved, ListedLost,
                 GrantTypes, Noted
    <2> QED
        BY <2>2, <2>3 DEF ApprovalKept
  <1>2. ASSUME NEW o \in Op, NEW g \in Grant, StartRevoke(o, g) PROVE ApprovalKept'
    <2> SUFFICES ASSUME grantFaults' = 0
                 PROVE  ApprovalKept'
        BY DEF ApprovalKept
    <2>1. grantFaults = 0 /\ ~Fault
        BY <1>2, StartRevokeDoes
           DEF Fault, GrantTypes, HeldSaved, HeldLost, ListedSaved, ListedLost, Noted
    <2>2. heldDisk' = held'
        BY <1>2, StartRevokeDoes, <2>1 DEF ApprovalKept, HeldSaved, HeldLost
    <2>3. ASSUME NEW h \in Grant, ~Begun("revoke", h)', ~Begun("archive", h)'
          PROVE  /\ listed'[h] = "approved" \/ listedDisk'[h] = "approved" => held'[h] = "approved"
                 /\ \A p \in Op : op'[p].grant = h =>
                      /\ op'[p].kind = "approve" /\ op'[p].step = "reply" => held'[h] = "approved"
                      /\ op'[p].step = "found" => held'[h] = "approved"
      <3>1. ~Begun("revoke", h) /\ ~Begun("archive", h)
          BY <1>0, <2>3
      <3> QED
          BY <1>2, StartRevokeDoes, <2>1, <3>1
             DEF ApprovalKept, Begun, Sets, NoOp, HeldSaved, HeldLost, ListedSaved, ListedLost,
                 GrantTypes, Noted
    <2> QED
        BY <2>2, <2>3 DEF ApprovalKept
  <1>3. ASSUME NEW o \in Op, NEW kind \in {"request", "read"}, StartFind(o, kind) PROVE ApprovalKept'
    <2> SUFFICES ASSUME grantFaults' = 0
                 PROVE  ApprovalKept'
        BY DEF ApprovalKept
    <2>1. grantFaults = 0 /\ ~Fault
        BY <1>3, StartFindDoes DEF Fault, GrantTypes, HeldSaved, HeldLost, ListedSaved, ListedLost
    <2>2. heldDisk' = held'
        BY <1>3, StartFindDoes, <2>1 DEF ApprovalKept, HeldSaved, HeldLost
    <2>3. ASSUME NEW h \in Grant, ~Begun("revoke", h)', ~Begun("archive", h)'
          PROVE  /\ listed'[h] = "approved" \/ listedDisk'[h] = "approved" => held'[h] = "approved"
                 /\ \A p \in Op : op'[p].grant = h =>
                      /\ op'[p].kind = "approve" /\ op'[p].step = "reply" => held'[h] = "approved"
                      /\ op'[p].step = "found" => held'[h] = "approved"
      <3>1. ~Begun("revoke", h) /\ ~Begun("archive", h)
          BY <1>0, <2>3
      <3> QED
          BY <1>3, StartFindDoes, <2>1, <3>1
             DEF ApprovalKept, Begun, Sets, NoOp, HeldSaved, HeldLost, ListedSaved, ListedLost,
                 GrantTypes
    <2> QED
        BY <2>2, <2>3 DEF ApprovalKept
  <1>4. ASSUME NEW o \in Op, ExecutorApprove(o) PROVE ApprovalKept'
    <2> SUFFICES ASSUME grantFaults' = 0
                 PROVE  ApprovalKept'
        BY DEF ApprovalKept
    <2>1. grantFaults = 0 /\ ~Fault
        BY <1>4, ExecutorApproveDoes
           DEF Fault, GrantTypes, HeldSaved, HeldLost, ListedSaved, ListedLost
    <2>2. heldDisk' = held'
        BY <1>4, ExecutorApproveDoes, <2>1 DEF ApprovalKept, HeldSaved, HeldLost
    <2>3. ASSUME NEW h \in Grant, ~Begun("revoke", h)', ~Begun("archive", h)'
          PROVE  /\ listed'[h] = "approved" \/ listedDisk'[h] = "approved" => held'[h] = "approved"
                 /\ \A p \in Op : op'[p].grant = h =>
                      /\ op'[p].kind = "approve" /\ op'[p].step = "reply" => held'[h] = "approved"
                      /\ op'[p].step = "found" => held'[h] = "approved"
      <3>1. ~Begun("revoke", h) /\ ~Begun("archive", h)
          BY <1>0, <2>3
      <3> QED
          BY <1>4, ExecutorApproveDoes, <2>1, <3>1
             DEF ApprovalKept, Begun, Sets, NoOp, HeldSaved, HeldLost, ListedSaved, ListedLost,
                 GrantTypes
    <2> QED
        BY <2>2, <2>3 DEF ApprovalKept
  <1>5. ASSUME NEW o \in Op, FinishApprove(o) PROVE ApprovalKept'
    <2> SUFFICES ASSUME grantFaults' = 0
                 PROVE  ApprovalKept'
        BY DEF ApprovalKept
    <2>1. grantFaults = 0 /\ ~Fault
        BY <1>5, FinishApproveDoes
           DEF Fault, GrantTypes, HeldSaved, HeldLost, ListedSaved, ListedLost
    <2>2. heldDisk' = held'
        BY <1>5, FinishApproveDoes, <2>1 DEF ApprovalKept, HeldSaved, HeldLost
    <2>3. ASSUME NEW h \in Grant, ~Begun("revoke", h)', ~Begun("archive", h)'
          PROVE  /\ listed'[h] = "approved" \/ listedDisk'[h] = "approved" => held'[h] = "approved"
                 /\ \A p \in Op : op'[p].grant = h =>
                      /\ op'[p].kind = "approve" /\ op'[p].step = "reply" => held'[h] = "approved"
                      /\ op'[p].step = "found" => held'[h] = "approved"
      <3>1. ~Begun("revoke", h) /\ ~Begun("archive", h)
          BY <1>0, <2>3
      <3> QED
          BY <1>5, FinishApproveDoes, <2>1, <3>1
             DEF ApprovalKept, Begun, Sets, NoOp, HeldSaved, HeldLost, ListedSaved, ListedLost,
                 GrantTypes
    <2> QED
        BY <2>2, <2>3 DEF ApprovalKept
  <1>6. ASSUME NEW o \in Op, ExecutorRevoke(o) PROVE ApprovalKept'
    <2> SUFFICES ASSUME grantFaults' = 0
                 PROVE  ApprovalKept'
        BY DEF ApprovalKept
    <2>1. grantFaults = 0 /\ ~Fault
        BY <1>6, ExecutorRevokeDoes
           DEF Fault, GrantTypes, HeldSaved, HeldLost, ListedSaved, ListedLost
    <2>2. heldDisk' = held'
        BY <1>6, ExecutorRevokeDoes, <2>1 DEF ApprovalKept, HeldSaved, HeldLost
    <2>3. ASSUME NEW h \in Grant, ~Begun("revoke", h)', ~Begun("archive", h)'
          PROVE  /\ listed'[h] = "approved" \/ listedDisk'[h] = "approved" => held'[h] = "approved"
                 /\ \A p \in Op : op'[p].grant = h =>
                      /\ op'[p].kind = "approve" /\ op'[p].step = "reply" => held'[h] = "approved"
                      /\ op'[p].step = "found" => held'[h] = "approved"
      <3>1. ~Begun("revoke", h) /\ ~Begun("archive", h)
          BY <1>0, <2>3
      <3> QED
          BY <1>6, ExecutorRevokeDoes, <2>1, <3>1
             DEF ApprovalKept, Begun, Sets, NoOp, HeldSaved, HeldLost, ListedSaved, ListedLost,
                 GrantTypes
    <2> QED
        BY <2>2, <2>3 DEF ApprovalKept
  <1>7. ASSUME NEW o \in Op, FinishRevoke(o) PROVE ApprovalKept'
    <2> SUFFICES ASSUME grantFaults' = 0
                 PROVE  ApprovalKept'
        BY DEF ApprovalKept
    <2>1. grantFaults = 0 /\ ~Fault
        BY <1>7, FinishRevokeDoes
           DEF Fault, GrantTypes, HeldSaved, HeldLost, ListedSaved, ListedLost
    <2>2. heldDisk' = held'
        BY <1>7, FinishRevokeDoes, <2>1 DEF ApprovalKept, HeldSaved, HeldLost
    <2>3. ASSUME NEW h \in Grant, ~Begun("revoke", h)', ~Begun("archive", h)'
          PROVE  /\ listed'[h] = "approved" \/ listedDisk'[h] = "approved" => held'[h] = "approved"
                 /\ \A p \in Op : op'[p].grant = h =>
                      /\ op'[p].kind = "approve" /\ op'[p].step = "reply" => held'[h] = "approved"
                      /\ op'[p].step = "found" => held'[h] = "approved"
      <3>1. ~Begun("revoke", h) /\ ~Begun("archive", h)
          BY <1>0, <2>3
      <3> QED
          BY <1>7, FinishRevokeDoes, <2>1, <3>1
             DEF ApprovalKept, Begun, Sets, NoOp, HeldSaved, HeldLost, ListedSaved, ListedLost,
                 GrantTypes
    <2> QED
        BY <2>2, <2>3 DEF ApprovalKept
  <1>8. ASSUME NEW o \in Op, StartArchive(o) PROVE ApprovalKept'
    <2> SUFFICES ASSUME grantFaults' = 0
                 PROVE  ApprovalKept'
        BY DEF ApprovalKept
    <2>1. grantFaults = 0 /\ ~Fault
        BY <1>8, StartArchiveDoes
           DEF Fault, GrantTypes, HeldSaved, HeldLost, ListedSaved, ListedLost
    <2>2. heldDisk' = held'
        BY <1>8, StartArchiveDoes, <2>1 DEF ApprovalKept, HeldSaved, HeldLost
    <2>3. ASSUME NEW h \in Grant, ~Begun("revoke", h)', ~Begun("archive", h)'
          PROVE  /\ listed'[h] = "approved" \/ listedDisk'[h] = "approved" => held'[h] = "approved"
                 /\ \A p \in Op : op'[p].grant = h =>
                      /\ op'[p].kind = "approve" /\ op'[p].step = "reply" => held'[h] = "approved"
                      /\ op'[p].step = "found" => held'[h] = "approved"
      <3>1. ~Begun("revoke", h) /\ ~Begun("archive", h)
          BY <1>0, <2>3
      <3> QED
          BY <1>8, StartArchiveDoes, <2>1, <3>1
             DEF ApprovalKept, Begun, Sets, NoOp, HeldSaved, HeldLost, ListedSaved, ListedLost,
                 GrantTypes
    <2> QED
        BY <2>2, <2>3 DEF ApprovalKept
  <1>9. ASSUME NEW o \in Op, ArchiveNext(o) PROVE ApprovalKept'
    <2> SUFFICES ASSUME grantFaults' = 0
                 PROVE  ApprovalKept'
        BY DEF ApprovalKept
    <2>1. grantFaults = 0 /\ ~Fault
        BY <1>9, ArchiveNextDoes
           DEF Fault, GrantTypes, HeldSaved, HeldLost, ListedSaved, ListedLost
    <2>2. heldDisk' = held'
        BY <1>9, ArchiveNextDoes, <2>1 DEF ApprovalKept, HeldSaved, HeldLost
    <2>3. ASSUME NEW h \in Grant, ~Begun("revoke", h)', ~Begun("archive", h)'
          PROVE  /\ listed'[h] = "approved" \/ listedDisk'[h] = "approved" => held'[h] = "approved"
                 /\ \A p \in Op : op'[p].grant = h =>
                      /\ op'[p].kind = "approve" /\ op'[p].step = "reply" => held'[h] = "approved"
                      /\ op'[p].step = "found" => held'[h] = "approved"
      <3>1. ~Begun("revoke", h) /\ ~Begun("archive", h)
          BY <1>0, <2>3
      <3> QED
          BY <1>9, ArchiveNextDoes, <2>1, <3>1
             DEF ApprovalKept, Begun, Sets, NoOp, HeldSaved, HeldLost, ListedSaved, ListedLost,
                 GrantTypes
    <2> QED
        BY <2>2, <2>3 DEF ApprovalKept
  <1>10. ASSUME NEW o \in Op, FinishArchive(o) PROVE ApprovalKept'
    <2> SUFFICES ASSUME grantFaults' = 0
                 PROVE  ApprovalKept'
        BY DEF ApprovalKept
    <2>1. grantFaults = 0 /\ ~Fault
        BY <1>10, FinishArchiveDoes
           DEF Fault, GrantTypes, HeldSaved, HeldLost, ListedSaved, ListedLost
    <2>2. heldDisk' = held'
        BY <1>10, FinishArchiveDoes, <2>1 DEF ApprovalKept, HeldSaved, HeldLost
    <2>3. ASSUME NEW h \in Grant, ~Begun("revoke", h)', ~Begun("archive", h)'
          PROVE  /\ listed'[h] = "approved" \/ listedDisk'[h] = "approved" => held'[h] = "approved"
                 /\ \A p \in Op : op'[p].grant = h =>
                      /\ op'[p].kind = "approve" /\ op'[p].step = "reply" => held'[h] = "approved"
                      /\ op'[p].step = "found" => held'[h] = "approved"
      <3>1. ~Begun("revoke", h) /\ ~Begun("archive", h)
          BY <1>0, <2>3
      <3> QED
          BY <1>10, FinishArchiveDoes, <2>1, <3>1
             DEF ApprovalKept, Begun, Sets, NoOp, HeldSaved, HeldLost, ListedSaved, ListedLost,
                 GrantTypes
    <2> QED
        BY <2>2, <2>3 DEF ApprovalKept
  <1>11. ASSUME NEW o \in Op, ExecutorFind(o) PROVE ApprovalKept'
    <2> SUFFICES ASSUME grantFaults' = 0
                 PROVE  ApprovalKept'
        BY DEF ApprovalKept
    <2>1. grantFaults = 0 /\ ~Fault
        BY <1>11, ExecutorFindDoes
           DEF Fault, GrantTypes, HeldSaved, HeldLost, ListedSaved, ListedLost
    <2>2. heldDisk' = held'
        BY <1>11, ExecutorFindDoes, <2>1 DEF ApprovalKept, HeldSaved, HeldLost
    <2>3. ASSUME NEW h \in Grant, ~Begun("revoke", h)', ~Begun("archive", h)'
          PROVE  /\ listed'[h] = "approved" \/ listedDisk'[h] = "approved" => held'[h] = "approved"
                 /\ \A p \in Op : op'[p].grant = h =>
                      /\ op'[p].kind = "approve" /\ op'[p].step = "reply" => held'[h] = "approved"
                      /\ op'[p].step = "found" => held'[h] = "approved"
      <3>1. ~Begun("revoke", h) /\ ~Begun("archive", h)
          BY <1>0, <2>3
      <3>0. op[o].grant \notin Grant
          BY <1>11, ExecutorFindDoes, ReadGrantsAssumption DEF OpShape, Shaped
      <3> QED
          BY <1>11, ExecutorFindDoes, <2>1, <3>0, <3>1
             DEF ApprovalKept, Begun, Sets, NoOp, HeldSaved, HeldLost, ListedSaved, ListedLost,
                 GrantTypes
    <2> QED
        BY <2>2, <2>3 DEF ApprovalKept
  <1>12. ASSUME NEW o \in Op, FinishFind(o) PROVE ApprovalKept'
    <2> SUFFICES ASSUME grantFaults' = 0
                 PROVE  ApprovalKept'
        BY DEF ApprovalKept
    <2>1. grantFaults = 0 /\ ~Fault
        BY <1>12, FinishFindDoes
           DEF Fault, GrantTypes, HeldSaved, HeldLost, ListedSaved, ListedLost
    <2>2. heldDisk' = held'
        BY <1>12, FinishFindDoes, <2>1 DEF ApprovalKept, HeldSaved, HeldLost
    <2>3. ASSUME NEW h \in Grant, ~Begun("revoke", h)', ~Begun("archive", h)'
          PROVE  /\ listed'[h] = "approved" \/ listedDisk'[h] = "approved" => held'[h] = "approved"
                 /\ \A p \in Op : op'[p].grant = h =>
                      /\ op'[p].kind = "approve" /\ op'[p].step = "reply" => held'[h] = "approved"
                      /\ op'[p].step = "found" => held'[h] = "approved"
      <3>1. ~Begun("revoke", h) /\ ~Begun("archive", h)
          BY <1>0, <2>3
      <3> QED
          BY <1>12, FinishFindDoes, <2>1, <3>1
             DEF ApprovalKept, Begun, Sets, NoOp, HeldSaved, HeldLost, ListedSaved, ListedLost,
                 GrantTypes
    <2> QED
        BY <2>2, <2>3 DEF ApprovalKept
  <1>13. ASSUME NEW o \in Op, Create(o) PROVE ApprovalKept'
    <2> SUFFICES ASSUME grantFaults' = 0
                 PROVE  ApprovalKept'
        BY DEF ApprovalKept
    <2>1. grantFaults = 0 /\ ~Fault
        BY <1>13, CreateDoes DEF Fault, GrantTypes, HeldSaved, HeldLost, ListedSaved, ListedLost
    <2>2. heldDisk' = held'
        BY <1>13, CreateDoes, <2>1 DEF ApprovalKept, HeldSaved, HeldLost
    <2>3. ASSUME NEW h \in Grant, ~Begun("revoke", h)', ~Begun("archive", h)'
          PROVE  /\ listed'[h] = "approved" \/ listedDisk'[h] = "approved" => held'[h] = "approved"
                 /\ \A p \in Op : op'[p].grant = h =>
                      /\ op'[p].kind = "approve" /\ op'[p].step = "reply" => held'[h] = "approved"
                      /\ op'[p].step = "found" => held'[h] = "approved"
      <3>1. ~Begun("revoke", h) /\ ~Begun("archive", h)
          BY <1>0, <2>3
      <3> QED
          BY <1>13, CreateDoes, <2>1, <3>1
             DEF ApprovalKept, Begun, Sets, NoOp, HeldSaved, HeldLost, ListedSaved, ListedLost,
                 GrantTypes
    <2> QED
        BY <2>2, <2>3 DEF ApprovalKept
  <1>14. ASSUME NEW o \in Op, Read(o) PROVE ApprovalKept'
    <2> SUFFICES ASSUME grantFaults' = 0
                 PROVE  ApprovalKept'
        BY DEF ApprovalKept
    <2>1. grantFaults = 0 /\ ~Fault
        BY <1>14, ReadDoes DEF Fault, GrantTypes, HeldSaved, HeldLost, ListedSaved, ListedLost
    <2>2. heldDisk' = held'
        BY <1>14, ReadDoes, <2>1 DEF ApprovalKept, HeldSaved, HeldLost
    <2>3. ASSUME NEW h \in Grant, ~Begun("revoke", h)', ~Begun("archive", h)'
          PROVE  /\ listed'[h] = "approved" \/ listedDisk'[h] = "approved" => held'[h] = "approved"
                 /\ \A p \in Op : op'[p].grant = h =>
                      /\ op'[p].kind = "approve" /\ op'[p].step = "reply" => held'[h] = "approved"
                      /\ op'[p].step = "found" => held'[h] = "approved"
      <3>1. ~Begun("revoke", h) /\ ~Begun("archive", h)
          BY <1>0, <2>3
      <3> QED
          BY <1>14, ReadDoes, <2>1, <3>1
             DEF ApprovalKept, Begun, Sets, NoOp, HeldSaved, HeldLost, ListedSaved, ListedLost,
                 GrantTypes
    <2> QED
        BY <2>2, <2>3 DEF ApprovalKept
  <1>15. ASSUME NEW o \in Op, GiveUp(o) \/ Lost(o) PROVE ApprovalKept'
    <2> SUFFICES ASSUME grantFaults' = 0
                 PROVE  ApprovalKept'
        BY DEF ApprovalKept
    <2>1. grantFaults = 0 /\ ~Fault
        BY <1>15, GiveUpDoes DEF Fault, GrantTypes, HeldSaved, HeldLost, ListedSaved, ListedLost
    <2>2. heldDisk' = held'
        BY <1>15, GiveUpDoes, <2>1 DEF ApprovalKept, HeldSaved, HeldLost
    <2>3. ASSUME NEW h \in Grant, ~Begun("revoke", h)', ~Begun("archive", h)'
          PROVE  /\ listed'[h] = "approved" \/ listedDisk'[h] = "approved" => held'[h] = "approved"
                 /\ \A p \in Op : op'[p].grant = h =>
                      /\ op'[p].kind = "approve" /\ op'[p].step = "reply" => held'[h] = "approved"
                      /\ op'[p].step = "found" => held'[h] = "approved"
      <3>1. ~Begun("revoke", h) /\ ~Begun("archive", h)
          BY <1>0, <2>3
      <3> QED
          BY <1>15, GiveUpDoes, <2>1, <3>1
             DEF ApprovalKept, Begun, Sets, NoOp, HeldSaved, HeldLost, ListedSaved, ListedLost,
                 GrantTypes
    <2> QED
        BY <2>2, <2>3 DEF ApprovalKept
  <1>16. ASSUME ControllerRestarts PROVE ApprovalKept'
      BY <1>16, ControllerRestartsDoes DEF ApprovalKept, Fault, GrantTypes
  <1>17. ASSUME ExecutorRestarts PROVE ApprovalKept'
      BY <1>17 DEF ApprovalKept, Fault, ExecutorRestarts, GrantTypes
  <1>18. CASE UNCHANGED grantVars
      BY <1>18, <1>0 DEF ApprovalKept, grantVars, Begun
  <1> QED
      BY <1>1, <1>2, <1>3, <1>4, <1>5, <1>6, <1>7, <1>8, <1>9, <1>10, <1>11, <1>12, <1>13, <1>14,
         <1>15, <1>16, <1>17, <1>18
         DEF GrantNext

\* One request for a grant at a time.
LEMMA AskInvNext ==
  ASSUME GrantTypes, OpShape, AskInv, [GrantNext]_grantVars
  PROVE  AskInv'
  <1>1. ASSUME NEW o \in Op, NEW g \in Grant, StartApprove(o, g) PROVE AskInv'
    <2>0. \A p \in Op : Gated(p)' => Gated(p)
        BY <1>1, StartApproveDoes DEF Gated, Sets, Noted
    <2>1. OneGate'
        BY <2>0 DEF AskInv, OneGate
    <2>2. NoneWhileCreating'
        BY <1>1, StartApproveDoes DEF Sets, AskInv, NoneWhileCreating, GrantTypes, Noted
    <2>3. SingleRequest(listed)'
        BY <1>1, StartApproveDoes DEF AskInv, NoneWhileCreating, SingleRequest, GrantTypes
    <2>4. SingleRequest(listedDisk)'
        BY <1>1, StartApproveDoes, <2>3 DEF AskInv, SingleRequest, ListedSaved, ListedLost
    <2> QED
        BY <2>1, <2>2, <2>3, <2>4 DEF AskInv
  <1>2. ASSUME NEW o \in Op, NEW g \in Grant, StartRevoke(o, g) PROVE AskInv'
    <2>0. \A p \in Op : Gated(p)' => Gated(p)
        BY <1>2, StartRevokeDoes DEF Gated, Sets, Noted
    <2>1. OneGate'
        BY <2>0 DEF AskInv, OneGate
    <2>2. NoneWhileCreating'
        BY <1>2, StartRevokeDoes DEF Sets, AskInv, NoneWhileCreating, GrantTypes, Noted
    <2>3. SingleRequest(listed)'
        BY <1>2, StartRevokeDoes DEF AskInv, NoneWhileCreating, SingleRequest, GrantTypes
    <2>4. SingleRequest(listedDisk)'
        BY <1>2, StartRevokeDoes, <2>3 DEF AskInv, SingleRequest, ListedSaved, ListedLost
    <2> QED
        BY <2>1, <2>2, <2>3, <2>4 DEF AskInv
  <1>3. ASSUME NEW o \in Op, NEW kind \in {"request", "read"}, StartFind(o, kind) PROVE AskInv'
    <2>1. OneGate'
        BY <1>3, StartFindDoes DEF Sets, NoOp, OpShape, Shaped, AskInv, OneGate, Gated, GateFree
    <2>2. NoneWhileCreating'
        BY <1>3, StartFindDoes DEF Sets, AskInv, NoneWhileCreating, GrantTypes
    <2>3. SingleRequest(listed)'
        BY <1>3, StartFindDoes DEF AskInv, NoneWhileCreating, SingleRequest, GrantTypes
    <2>4. SingleRequest(listedDisk)'
        BY <1>3, StartFindDoes, <2>3 DEF AskInv, SingleRequest, ListedSaved, ListedLost
    <2> QED
        BY <2>1, <2>2, <2>3, <2>4 DEF AskInv
  <1>4. ASSUME NEW o \in Op, ExecutorApprove(o) PROVE AskInv'
    <2>0. \A p \in Op : Gated(p)' => Gated(p)
        BY <1>4, ExecutorApproveDoes DEF Gated, Sets
    <2>1. OneGate'
        BY <2>0 DEF AskInv, OneGate
    <2>2. NoneWhileCreating'
        BY <1>4, ExecutorApproveDoes DEF Sets, AskInv, NoneWhileCreating, GrantTypes
    <2>3. SingleRequest(listed)'
        BY <1>4, ExecutorApproveDoes DEF AskInv, NoneWhileCreating, SingleRequest, GrantTypes
    <2>4. SingleRequest(listedDisk)'
        BY <1>4, ExecutorApproveDoes, <2>3 DEF AskInv, SingleRequest, ListedSaved, ListedLost
    <2> QED
        BY <2>1, <2>2, <2>3, <2>4 DEF AskInv
  <1>5. ASSUME NEW o \in Op, FinishApprove(o) PROVE AskInv'
    <2>0. \A p \in Op : Gated(p)' => Gated(p)
        BY <1>5, FinishApproveDoes DEF Gated, Sets
    <2>1. OneGate'
        BY <2>0 DEF AskInv, OneGate
    <2>2. NoneWhileCreating'
        BY <1>5, FinishApproveDoes DEF Sets, AskInv, NoneWhileCreating, GrantTypes
    <2>3. SingleRequest(listed)'
        BY <1>5, FinishApproveDoes DEF AskInv, NoneWhileCreating, SingleRequest, GrantTypes
    <2>4. SingleRequest(listedDisk)'
        BY <1>5, FinishApproveDoes, <2>3 DEF AskInv, SingleRequest, ListedSaved, ListedLost
    <2> QED
        BY <2>1, <2>2, <2>3, <2>4 DEF AskInv
  <1>6. ASSUME NEW o \in Op, ExecutorRevoke(o) PROVE AskInv'
    <2>0. \A p \in Op : Gated(p)' => Gated(p)
        BY <1>6, ExecutorRevokeDoes DEF Gated, Sets
    <2>1. OneGate'
        BY <2>0 DEF AskInv, OneGate
    <2>2. NoneWhileCreating'
        BY <1>6, ExecutorRevokeDoes DEF Sets, AskInv, NoneWhileCreating, GrantTypes
    <2>3. SingleRequest(listed)'
        BY <1>6, ExecutorRevokeDoes DEF AskInv, NoneWhileCreating, SingleRequest, GrantTypes
    <2>4. SingleRequest(listedDisk)'
        BY <1>6, ExecutorRevokeDoes, <2>3 DEF AskInv, SingleRequest, ListedSaved, ListedLost
    <2> QED
        BY <2>1, <2>2, <2>3, <2>4 DEF AskInv
  <1>7. ASSUME NEW o \in Op, FinishRevoke(o) PROVE AskInv'
    <2>0. \A p \in Op : Gated(p)' => Gated(p)
        BY <1>7, FinishRevokeDoes DEF Gated, Sets
    <2>1. OneGate'
        BY <2>0 DEF AskInv, OneGate
    <2>2. NoneWhileCreating'
        BY <1>7, FinishRevokeDoes DEF Sets, AskInv, NoneWhileCreating, GrantTypes
    <2>3. SingleRequest(listed)'
        BY <1>7, FinishRevokeDoes DEF AskInv, NoneWhileCreating, SingleRequest, GrantTypes
    <2>4. SingleRequest(listedDisk)'
        BY <1>7, FinishRevokeDoes, <2>3 DEF AskInv, SingleRequest, ListedSaved, ListedLost
    <2> QED
        BY <2>1, <2>2, <2>3, <2>4 DEF AskInv
  <1>8. ASSUME NEW o \in Op, StartArchive(o) PROVE AskInv'
    <2>1. OneGate'
        BY <1>8, StartArchiveDoes
           DEF Sets, NoOp, OpShape, Shaped, AskInv, OneGate, Gated, GateFree
    <2>2. NoneWhileCreating'
        BY <1>8, StartArchiveDoes DEF Sets, AskInv, NoneWhileCreating, GrantTypes
    <2>3. SingleRequest(listed)'
        BY <1>8, StartArchiveDoes DEF AskInv, NoneWhileCreating, SingleRequest, GrantTypes
    <2>4. SingleRequest(listedDisk)'
        BY <1>8, StartArchiveDoes, <2>3 DEF AskInv, SingleRequest, ListedSaved, ListedLost
    <2> QED
        BY <2>1, <2>2, <2>3, <2>4 DEF AskInv
  <1>9. ASSUME NEW o \in Op, ArchiveNext(o) PROVE AskInv'
    <2>0. \A p \in Op : Gated(p)' => Gated(p)
        BY <1>9, ArchiveNextDoes DEF Gated, Sets
    <2>1. OneGate'
        BY <2>0 DEF AskInv, OneGate
    <2>2. NoneWhileCreating'
        BY <1>9, ArchiveNextDoes DEF Sets, AskInv, NoneWhileCreating, GrantTypes
    <2>3. SingleRequest(listed)'
        BY <1>9, ArchiveNextDoes DEF AskInv, NoneWhileCreating, SingleRequest, GrantTypes
    <2>4. SingleRequest(listedDisk)'
        BY <1>9, ArchiveNextDoes, <2>3 DEF AskInv, SingleRequest, ListedSaved, ListedLost
    <2> QED
        BY <2>1, <2>2, <2>3, <2>4 DEF AskInv
  <1>10. ASSUME NEW o \in Op, FinishArchive(o) PROVE AskInv'
    <2>0. \A p \in Op : Gated(p)' => Gated(p)
        BY <1>10, FinishArchiveDoes DEF Gated, Sets
    <2>1. OneGate'
        BY <2>0 DEF AskInv, OneGate
    <2>2. NoneWhileCreating'
        BY <1>10, FinishArchiveDoes DEF Sets, AskInv, NoneWhileCreating, GrantTypes
    <2>3. SingleRequest(listed)'
        BY <1>10, FinishArchiveDoes DEF AskInv, NoneWhileCreating, SingleRequest, GrantTypes
    <2>4. SingleRequest(listedDisk)'
        BY <1>10, FinishArchiveDoes, <2>3 DEF AskInv, SingleRequest, ListedSaved, ListedLost
    <2> QED
        BY <2>1, <2>2, <2>3, <2>4 DEF AskInv
  <1>11. ASSUME NEW o \in Op, ExecutorFind(o) PROVE AskInv'
    <2>0. \A p \in Op : Gated(p)' => Gated(p)
        BY <1>11, ExecutorFindDoes DEF Gated, Sets
    <2>1. OneGate'
        BY <2>0 DEF AskInv, OneGate
    <2>2. NoneWhileCreating'
        BY <1>11, ExecutorFindDoes DEF Sets, AskInv, NoneWhileCreating, GrantTypes
    <2>3. SingleRequest(listed)'
        BY <1>11, ExecutorFindDoes DEF AskInv, NoneWhileCreating, SingleRequest, GrantTypes
    <2>4. SingleRequest(listedDisk)'
        BY <1>11, ExecutorFindDoes, <2>3 DEF AskInv, SingleRequest, ListedSaved, ListedLost
    <2> QED
        BY <2>1, <2>2, <2>3, <2>4 DEF AskInv
  <1>12. ASSUME NEW o \in Op, FinishFind(o) PROVE AskInv'
    <2>0. \A p \in Op : Gated(p)' => Gated(p)
        BY <1>12, FinishFindDoes DEF Gated, Sets
    <2>1. OneGate'
        BY <2>0 DEF AskInv, OneGate
    <2>2. NoneWhileCreating'
        BY <1>12, FinishFindDoes DEF Sets, AskInv, NoneWhileCreating, GrantTypes
    <2>3. SingleRequest(listed)'
        BY <1>12, FinishFindDoes DEF AskInv, NoneWhileCreating, SingleRequest, GrantTypes
    <2>4. SingleRequest(listedDisk)'
        BY <1>12, FinishFindDoes, <2>3 DEF AskInv, SingleRequest, ListedSaved, ListedLost
    <2> QED
        BY <2>1, <2>2, <2>3, <2>4 DEF AskInv
  <1>13. ASSUME NEW o \in Op, Create(o) PROVE AskInv'
    <2>0. \A p \in Op : Gated(p)' => Gated(p)
        BY <1>13, CreateDoes DEF Gated, Sets
    <2>1. OneGate'
        BY <2>0 DEF AskInv, OneGate
    <2>2. NoneWhileCreating'
      <3>1. \A p \in Op : op[p].step = "create" => Gated(p)
          BY DEF OpShape, Shaped, Gated, GrantTypes, OpRecord, Kind
      <3>2. \A p \in Op \ {o} : op[p].step # "create"
          BY <1>13, CreateDoes, <3>1 DEF AskInv, OneGate
      <3>3. \A p \in Op : op'[p].step # "create"
          BY <1>13, CreateDoes, <3>2 DEF Sets
      <3> QED
          BY <3>3 DEF NoneWhileCreating
    <2>3. SingleRequest(listed)'
        BY <1>13, CreateDoes DEF AskInv, NoneWhileCreating, SingleRequest, GrantTypes
    <2>4. SingleRequest(listedDisk)'
        BY <1>13, CreateDoes, <2>3 DEF AskInv, SingleRequest, ListedSaved, ListedLost
    <2> QED
        BY <2>1, <2>2, <2>3, <2>4 DEF AskInv
  <1>14. ASSUME NEW o \in Op, Read(o) PROVE AskInv'
    <2>0. \A p \in Op : Gated(p)' => Gated(p)
        BY <1>14, ReadDoes DEF Gated, Sets
    <2>1. OneGate'
        BY <2>0 DEF AskInv, OneGate
    <2>2. NoneWhileCreating'
        BY <1>14, ReadDoes DEF Sets, AskInv, NoneWhileCreating, GrantTypes
    <2>3. SingleRequest(listed)'
        BY <1>14, ReadDoes DEF AskInv, NoneWhileCreating, SingleRequest, GrantTypes
    <2>4. SingleRequest(listedDisk)'
        BY <1>14, ReadDoes, <2>3 DEF AskInv, SingleRequest, ListedSaved, ListedLost
    <2> QED
        BY <2>1, <2>2, <2>3, <2>4 DEF AskInv
  <1>15. ASSUME NEW o \in Op, GiveUp(o) \/ Lost(o) PROVE AskInv'
    <2>0. \A p \in Op : Gated(p)' => Gated(p)
        BY <1>15, GiveUpDoes DEF Gated, Sets
    <2>1. OneGate'
        BY <2>0 DEF AskInv, OneGate
    <2>2. NoneWhileCreating'
        BY <1>15, GiveUpDoes DEF Sets, AskInv, NoneWhileCreating, GrantTypes
    <2>3. SingleRequest(listed)'
        BY <1>15, GiveUpDoes DEF AskInv, NoneWhileCreating, SingleRequest, GrantTypes
    <2>4. SingleRequest(listedDisk)'
        BY <1>15, GiveUpDoes, <2>3 DEF AskInv, SingleRequest, ListedSaved, ListedLost
    <2> QED
        BY <2>1, <2>2, <2>3, <2>4 DEF AskInv
  <1>16. ASSUME ControllerRestarts PROVE AskInv'
    <2>0. \A p \in Op : Gated(p)' => Gated(p)
        BY <1>16, ControllerRestartsDoes DEF Gated, Sets
    <2>1. OneGate'
        BY <2>0 DEF AskInv, OneGate
    <2>2. NoneWhileCreating'
        BY <1>16, ControllerRestartsDoes DEF Sets, AskInv, NoneWhileCreating, GrantTypes
    <2>3. SingleRequest(listed)'
        BY <1>16, ControllerRestartsDoes DEF AskInv, NoneWhileCreating, SingleRequest, GrantTypes
    <2>4. SingleRequest(listedDisk)'
        BY <1>16, ControllerRestartsDoes, <2>3 DEF AskInv, SingleRequest, ListedSaved, ListedLost
    <2> QED
        BY <2>1, <2>2, <2>3, <2>4 DEF AskInv
  <1>17. ASSUME ExecutorRestarts PROVE AskInv'
      BY <1>17 DEF ExecutorRestarts, AskInv, OneGate, Gated, NoneWhileCreating, SingleRequest
  <1>18. CASE UNCHANGED grantVars
      BY <1>18 DEF grantVars, AskInv, OneGate, Gated, NoneWhileCreating, SingleRequest
  <1> QED
      BY <1>1, <1>2, <1>3, <1>4, <1>5, <1>6, <1>7, <1>8, <1>9, <1>10, <1>11, <1>12, <1>13, <1>14,
         <1>15, <1>16, <1>17, <1>18
         DEF GrantNext

-----------------------------------------------------------------------------
(* The theorems.                                                           *)

LEMMA GrantInitInv == GrantInit => GrantIInv
  <1> SUFFICES ASSUME GrantInit PROVE GrantIInv
      OBVIOUS
  <1>1. NoOp \in OpRecord /\ Shaped(NoOp)
      BY ReadGrantsAssumption DEF NoOp, OpRecord, Kind, OpStep, Shaped
  <1>2. /\ NoOp.kind = "none" /\ NoOp.grant = NoGrant /\ NoOp.step = "idle"
        /\ NoOp.all = {} /\ NoOp.left = {}
      BY DEF NoOp
  <1>3. \A o \in Op : op[o] = NoOp
      BY DEF GrantInit
  <1>4. GrantTypes
      BY <1>1 DEF GrantInit, GrantTypes, GrantState
  <1>5. OpShape
      BY <1>1, <1>3 DEF OpShape
  <1>6. Traced
      BY <1>2, <1>3 DEF Traced, GrantInit
  <1>7. RevokeInv
      BY <1>2, <1>3 DEF RevokeInv, PerformedHolds, Performed, OneDecision, Deciding,
                        NotAskedAgain, NoApprovalLeft, Revoked, Is
  <1>8. ApprovalKept
      BY <1>2, <1>3 DEF ApprovalKept, GrantInit
  <1>9. AskInv
      BY <1>2, <1>3 DEF AskInv, OneGate, Gated, NoneWhileCreating, SingleRequest, GrantInit
  <1> QED
      BY <1>4, <1>5, <1>6, <1>7, <1>8, <1>9 DEF GrantIInv

LEMMA GrantNextInv ==
  ASSUME GrantIInv, [GrantNext]_grantVars PROVE GrantIInv'
  <1>1. GrantTypes /\ OpShape /\ Traced /\ RevokeInv /\ ApprovalKept /\ AskInv
      BY DEF GrantIInv
  <1>2. PerformedHolds /\ OneDecision /\ NotAskedAgain /\ NoApprovalLeft
      BY <1>1 DEF RevokeInv
  <1>3. GrantTypes' /\ OpShape'
      BY <1>1, ShapeNext
  <1>4. OpsStay
      BY <1>1, OpStays
  <1>5. Traced'
      BY <1>1, <1>4, NewlyRecordedNext, TracedNext
  <1>6. RevokeInv'
      BY <1>1, <1>2, OneDecisionNext, NotAskedAgainNext, NoApprovalLeftNext,
         PerformedHoldsNext DEF RevokeInv
  <1>7. ApprovalKept'
      BY <1>1, <1>4, ApprovalKeptNext
  <1>8. AskInv'
      BY <1>1, AskInvNext
  <1> QED
      BY <1>3, <1>5, <1>6, <1>7, <1>8 DEF GrantIInv

\* The inductive invariant holds in every behaviour of the specification.
THEOREM GrantInvariance == GrantSpec => []GrantIInv
  <1>1. GrantInit => GrantIInv
      BY GrantInitInv
  <1>2. GrantIInv /\ [GrantNext]_grantVars => GrantIInv'
      BY GrantNextInv
  <1> QED
      BY <1>1, <1>2, PTL DEF GrantSpec

\* A confirmed revocation of a read grant, or a confirmed archiving of its
\* session, is never undone at the Executor.
LEMMA RevocationHoldsIn == GrantIInv => RevocationHolds
  <1> SUFFICES ASSUME GrantIInv, NEW g \in Grant \ overlap, Revoked(g)
               PROVE  held[g] # "approved" /\ heldDisk[g] # "approved"
      BY DEF RevocationHolds
  <1>1. PICK o \in Op : \/ Is(o, "revoke", "ok") /\ op[o].grant = g
                        \/ Is(o, "archive", "ok") /\ g \in op[o].all
      BY DEF Revoked
  <1>2. Performed(o, g)
      BY <1>1 DEF Performed, Is, GrantIInv, OpShape, Shaped
  <1> QED
      BY <1>2 DEF GrantIInv, RevokeInv, PerformedHolds

\* A set in which all elements are equal has at most one.
LEMMA AtMostOne ==
  ASSUME NEW S, \A x, y \in S : x = y PROVE IsFiniteSet(S) /\ Cardinality(S) <= 1
  <1>1. CASE S = {}
      BY <1>1, FS_EmptySet
  <1>2. CASE S # {}
    <2>1. PICK x : x \in S
        BY <1>2
    <2>2. S = {x}
        BY <2>1
    <2>3. IsFiniteSet({x}) /\ Cardinality({x}) = 1
        BY FS_Singleton
    <2> QED
        BY <2>2, <2>3
  <1> QED
      BY <1>1, <1>2

LEMMA GrantInvIn == GrantIInv => GrantInv
  <1> SUFFICES ASSUME GrantIInv PROVE GrantInv
      OBVIOUS
  <1>1. GrantTypeOK
    <2>1. \A g \in Grant : {listed[g], listedDisk[g], held[g], heldDisk[g]} \subseteq GrantState
        BY DEF GrantIInv, GrantTypes
    <2>2. \A o \in Op : op[o].step \in OpStep
        BY DEF GrantIInv, GrantTypes, OpRecord
    <2>3. \A g \in Grant : held[g] # "absent" => Begun("approve", g)
        BY DEF GrantIInv, Traced
    <2> QED
        BY <2>1, <2>2, <2>3 DEF GrantTypeOK, OpStep
  <1>2. RevocationHolds
      BY RevocationHoldsIn
  <1>3. ApprovalEffective
      BY DEF GrantIInv, ApprovalKept, ApprovalEffective
  <1>4. OneRequest
    <2>1. \A g, h \in {g \in Grant : listed[g] = "requested"} : g = h
        BY DEF GrantIInv, AskInv, SingleRequest
    <2> QED
        BY <2>1, AtMostOne DEF OneRequest
  <1> QED
      BY <1>1, <1>2, <1>3, <1>4 DEF GrantInv

\* Grants recorded by the Controller and the Executor agree (GrantInv): types,
\* confirmed revocations that hold, approvals that take effect and one request
\* at a time, for every number of grants, requests and faults.
THEOREM GrantsAgree == GrantSpec => []GrantInv
  BY GrantInvariance, GrantInvIn, PTL

LEMMA ReadRefused ==
  ASSUME GrantIInv, [GrantNext]_grantVars, NEW o \in Op, NEW g \in Grant \ overlap,
         Is(o, "read", "read"), op[o].grant = g, op'[o].step = "ok"
  PROVE  ~Revoked(g)
  <1>0. GrantTypes /\ OpShape /\ op[o].kind = "read" /\ op[o].step = "read"
      BY DEF GrantIInv, Is
  <1>1. ASSUME NEW p \in Op, Read(p) PROVE held[g] = "approved"
    <2>1. p = o
        BY <1>0, <1>1, ReadDoes DEF Sets
    <2> QED
        BY <1>0, <1>1, <2>1, ReadDoes DEF Sets
  <1>2. ASSUME NEW p \in Op,
               \/ \E h \in Grant : StartApprove(p, h) \/ StartRevoke(p, h)
               \/ \E kind \in {"request", "read"} : StartFind(p, kind)
               \/ StartArchive(p)
        PROVE  FALSE
    <2>1. op[p] = NoOp
        BY <1>2 DEF StartApprove, StartRevoke, StartFind, StartArchive, Starts
    <2>2. p # o
        BY <1>0, <2>1 DEF NoOp
    <2>3. op'[o] = op[o]
        BY <1>0, <1>2, <2>2, StartApproveDoes, StartRevokeDoes, StartFindDoes, StartArchiveDoes
           DEF Sets, Noted
    <2> QED
        BY <1>0, <2>3
  <1>3. ASSUME NEW p \in Op,
               \/ ExecutorApprove(p) \/ FinishApprove(p) \/ ExecutorRevoke(p)
               \/ FinishRevoke(p) \/ ArchiveNext(p) \/ FinishArchive(p)
        PROVE  FALSE
    <2>1. p # o
        BY <1>0, <1>3 DEF ExecutorApprove, FinishApprove, ExecutorRevoke, FinishRevoke,
                          ArchiveNext, FinishArchive, Is
    <2>2. op'[o] = op[o]
        BY <1>0, <1>3, <2>1, ExecutorApproveDoes, FinishApproveDoes, ExecutorRevokeDoes,
           FinishRevokeDoes, ArchiveNextDoes, FinishArchiveDoes DEF Sets
    <2> QED
        BY <1>0, <2>2
  <1>4. ASSUME NEW p \in Op,
               ExecutorFind(p) \/ FinishFind(p) \/ Create(p) \/ GiveUp(p) \/ Lost(p)
        PROVE  FALSE
    <2>1. p # o
        BY <1>0, <1>4 DEF ExecutorFind, FinishFind, Create, GiveUp, Lost
    <2>2. op'[o] = op[o]
        BY <1>0, <1>4, <2>1, ExecutorFindDoes, FinishFindDoes, CreateDoes, GiveUpDoes DEF Sets
    <2> QED
        BY <1>0, <2>2
  <1>5. ASSUME ControllerRestarts PROVE FALSE
      BY <1>0, <1>5, ControllerRestartsDoes
  <1>6. ASSUME ExecutorRestarts \/ UNCHANGED grantVars PROVE FALSE
      BY <1>0, <1>6 DEF ExecutorRestarts, grantVars
  <1>7. held[g] = "approved"
      BY <1>1, <1>2, <1>3, <1>4, <1>5, <1>6 DEF GrantNext
  <1> QED
      BY <1>7, RevocationHoldsIn DEF RevocationHolds

\* A read is never admitted under a grant whose revocation was confirmed, also
\* when the Controller has copied the grant back and names it.
THEOREM ReadsRefused == GrantSpec => NoReadAfterRevocation
  <1>1. ASSUME GrantIInv, [GrantNext]_grantVars
        PROVE  [\A o \in Op, g \in Grant \ overlap :
                  Is(o, "read", "read") /\ op[o].grant = g /\ op'[o].step = "ok"
                    => ~Revoked(g)]_grantVars
      BY <1>1, ReadRefused
  <1> QED
      BY <1>1, GrantInvariance, PTL DEF GrantSpec, NoReadAfterRevocation
=============================================================================
