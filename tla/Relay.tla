-------------------------------- MODULE Relay --------------------------------
(***************************************************************************)
(* artifact.transfer: Controllers copy an artifact to one destination path *)
(* (controller.rs, relay_artifact, relay_local_artifact, relay_archive) by *)
(* calls of the source's and the destination's Executor (executor.rs,      *)
(* the artifact.relay calls).                                              *)
(*                                                                         *)
(* An artifact is a function from its chunks to their bytes, and every     *)
(* change of a chunk makes new bytes.  A digest of a tree stands for the   *)
(* contents that were read for it, chunk by chunk, while the source may be *)
(* changing.  Requests to the destination may be lost, or carried out      *)
(* after the Controller has given up.                                      *)
(***************************************************************************)
EXTENDS Integers, Sequences, FiniteSets

CONSTANTS
  Transfer,      \* calls of artifact.transfer
  Nobody,
  Chunks,        \* chunks 1..Chunks of the artifact
  MaxChanges,    \* bound: changes of the source
  MaxFaults      \* bound: calls given up and crashes of the destination's Executor

ASSUME RelayAssumption ==
  /\ Nobody \notin Transfer
  /\ Chunks \in Nat \ {0}
  /\ {MaxChanges, MaxFaults} \subseteq Nat

VARIABLES
  source, changes,
  mode,         \* how each transfer copies
  pc, pos,      \* the Controller's progress: step and chunks done
  want,         \* the digest the destination must have
  archive,      \* the archive at the source's Executor
  request,      \* the request on its way to the destination
  holder,       \* the transfer whose lease on the destination is in force
  op,           \* the operation the destination's Executor carries out
  inDoubt,  \* an operation did not survive a crash
  staging, dest, backup,
  faults,
  past,         \* history: the states of the source
  latest,       \* history: the transfer that moved the destination away last
  installed     \* history: the transfers that were moved in

client == <<mode, pc, pos, want, archive>>
disk   == <<staging, dest, backup>>
relayHistory == <<past, latest, installed>>
relayVars == <<source, changes, client, request, holder, op, inDoubt, disk,
               faults, relayHistory>>

-----------------------------------------------------------------------------
Chunk   == 1..Chunks
Hole    == -1                            \* a byte range not written yet
Old     == [c \in Chunk |-> -2]          \* what the destination held before
Missing == <<>>
Empty   == [c \in Chunk |-> Hole]
NoRequest == [what |-> "none"]
NoOp      == [by |-> Nobody]

\* Where the Controller waits for the destination.
Waiting == {"prepare", "write", "commit", "local"}

\* The first request to the destination; on one node it is the only one.
FirstRequest(t) == IF mode[t] = "local" THEN "local" ELSE "prepare"

\* artifact.relay.archive.read and artifact.relay.read of the next chunk.
ArchiveChunk(t) == archive[t][pos[t] + 1]
FileChunk(t)    == source[pos[t] + 1]

\* The Controller's request fails: the lease it took is released.
Failing(t) == IF pc[t] \in {"digest", "again", "pack", "acquire"} THEN "failed" ELSE "release"

-----------------------------------------------------------------------------
(* The source.                                                             *)

ChangeChunk(c) ==
  /\ changes < MaxChanges
  /\ changes' = changes + 1
  /\ source' = [source EXCEPT ![c] = changes + 1]
  /\ past' = past \cup {source'}
  /\ UNCHANGED <<client, request, holder, op, inDoubt, disk, faults, latest, installed>>

\* artifact.relay.archive.create or artifact.relay.manifest: digest_tree reads
\* one file after the other.  Without archives the manifest is read again
\* until it has not changed.
DigestChunk(t) ==
  /\ pc[t] = "digest"
  /\ pos[t] < Chunks
  /\ want' = [want EXCEPT ![t][pos[t] + 1] = source[pos[t] + 1]]
  /\ pos' = [pos EXCEPT ![t] = @ + 1]
  /\ UNCHANGED <<source, changes, mode, pc, archive, request, holder, op, inDoubt, disk,
                 faults, relayHistory>>

Digested(t) ==
  /\ pc[t] = "digest"
  /\ pos[t] = Chunks
  /\ pc' = [pc EXCEPT ![t] = IF mode[t] = "archive" THEN "pack" ELSE "again"]
  /\ pos' = [pos EXCEPT ![t] = 0]
  /\ UNCHANGED <<source, changes, mode, want, archive, request, holder, op, inDoubt, disk,
                 faults, relayHistory>>

\* The second manifest: the same digest settles it; a different one, if the
\* stability window is not over, becomes the one to compare with.
StableChunk(t) ==
  /\ pc[t] = "again"
  /\ \/ /\ pos[t] < Chunks
        /\ source[pos[t] + 1] = want[t][pos[t] + 1]
        /\ pos' = [pos EXCEPT ![t] = @ + 1]
        /\ UNCHANGED <<pc, want>>
     \/ /\ pos[t] < Chunks
        /\ source[pos[t] + 1] # want[t][pos[t] + 1]
        /\ want' = [want EXCEPT ![t][pos[t] + 1] = source[pos[t] + 1]]
        /\ \/ pos' = [pos EXCEPT ![t] = @ + 1] /\ pc' = [pc EXCEPT ![t] = "digest"]
           \/ pos' = [pos EXCEPT ![t] = 0] /\ pc' = [pc EXCEPT ![t] = "failed"]
     \/ /\ pos[t] = Chunks
        /\ pos' = [pos EXCEPT ![t] = 0]
        /\ pc' = [pc EXCEPT ![t] = "acquire"]
        /\ UNCHANGED want
  /\ UNCHANGED <<source, changes, mode, archive, request, holder, op, inDoubt, disk,
                 faults, relayHistory>>

\* The files are packed into an archive after they were digested.
PackChunk(t) ==
  /\ pc[t] = "pack"
  /\ archive' = [archive EXCEPT ![t][pos[t] + 1] = source[pos[t] + 1]]
  /\ pos' = [pos EXCEPT ![t] = (@ + 1) % Chunks]
  /\ pc' = [pc EXCEPT ![t] = IF pos[t] + 1 = Chunks THEN "acquire" ELSE "pack"]
  /\ UNCHANGED <<source, changes, mode, want, request, holder, op, inDoubt, disk,
                 faults, relayHistory>>

-----------------------------------------------------------------------------
(* The Controller and the destination.                                     *)

\* resource.lease.acquire for artifact-relay:<destination>: refused while
\* somebody holds the lease, an operation runs or needs recovery.
AcquireLease(t) ==
  /\ pc[t] = "acquire"
  /\ IF holder = Nobody /\ op = NoOp /\ ~inDoubt
     THEN /\ holder' = t
          /\ pc' = [pc EXCEPT ![t] = FirstRequest(t)]
          /\ request' = [request EXCEPT ![t] = [what |-> FirstRequest(t)]]
     ELSE /\ pc' = [pc EXCEPT ![t] = "failed"]
          /\ UNCHANGED <<holder, request>>
  /\ UNCHANGED <<source, changes, mode, pos, want, archive, op, inDoubt, disk,
                 faults, relayHistory>>

\* The next chunk is read, from the archive or from the source itself, and
\* sent to the destination; after the last one the commit is sent.
SendChunk(t) ==
  /\ pc[t] = "read"
  /\ IF pos[t] < Chunks
     THEN /\ request' = [request EXCEPT ![t] =
               [what |-> "write", chunk |-> pos[t] + 1,
                data |-> IF mode[t] = "archive" THEN ArchiveChunk(t) ELSE FileChunk(t)]]
          /\ pc' = [pc EXCEPT ![t] = "write"]
          /\ pos' = [pos EXCEPT ![t] = @ + 1]
     ELSE /\ request' = [request EXCEPT ![t] = [what |-> "commit"]]
          /\ pc' = [pc EXCEPT ![t] = "commit"]
          /\ UNCHANGED pos
  /\ UNCHANGED <<source, changes, mode, want, archive, holder, op, inDoubt, disk,
                 faults, relayHistory>>

\* A call fails: the source cannot be read, or an answer of the destination
\* does not come.  The request may still be carried out.  A Controller that
\* has crashed does not even release its lease.
GiveUp(t) ==
  /\ pc[t] \in {"digest", "again", "pack", "read"} \cup Waiting
  /\ faults < MaxFaults
  /\ faults' = faults + 1
  /\ \E next \in {Failing(t), "gone"} : pc' = [pc EXCEPT ![t] = next]
  /\ UNCHANGED <<source, changes, mode, pos, want, archive, request, holder, op, inDoubt,
                 disk, relayHistory>>

\* resource.lease.release, whose result is ignored, and the removal of the
\* archive at the source.
ReleaseLease(t) ==
  /\ pc[t] \in {"release", "finished"}
  /\ holder' = IF holder = t /\ op = NoOp /\ ~inDoubt THEN Nobody ELSE holder
  /\ archive' = [archive EXCEPT ![t] = Empty]
  /\ pc' = [pc EXCEPT ![t] = IF @ = "finished" THEN "done" ELSE "failed"]
  /\ UNCHANGED <<source, changes, mode, pos, want, request, op, inDoubt, disk,
                 faults, relayHistory>>

\* The lease's hour is over.
ExpireLease ==
  /\ holder # Nobody
  /\ holder' = Nobody
  /\ UNCHANGED <<source, changes, client, request, op, inDoubt, disk, faults,
                 relayHistory>>

-----------------------------------------------------------------------------
(* The Executor of the destination.                                        *)

\* Resources::begin: the operation starts if its lease is in force and no
\* other operation runs on the destination.
MayBegin(t) == op = NoOp /\ ~inDoubt /\ holder = t

BeginOperation(t) ==
  /\ request[t] # NoRequest
  /\ MayBegin(t)
  /\ op' = [by |-> t, pos |-> 0, for |-> request[t],
            step |-> CASE request[t].what = "commit" -> "verify"
                       [] request[t].what = "local" -> "digest"
                       [] OTHER -> request[t].what]
  /\ request' = [request EXCEPT ![t] = NoRequest]
  /\ UNCHANGED <<source, changes, client, holder, inDoubt, disk, faults, relayHistory>>

Refuse(t) ==
  /\ request[t] # NoRequest
  /\ ~MayBegin(t)
  /\ request' = [request EXCEPT ![t] = NoRequest]
  /\ pc' = [pc EXCEPT ![t] = IF @ \in Waiting THEN "release" ELSE @]
  /\ UNCHANGED <<source, changes, mode, pos, want, archive, holder, op, inDoubt, disk,
                 faults, relayHistory>>

\* A fault: the error of the second rename is swallowed.
AnswerSwallowing(t, next) ==
  /\ op' = NoOp
  /\ pc' = [pc EXCEPT ![t] = IF @ \notin Waiting THEN @
                             ELSE IF op.step = "in" THEN "finished" ELSE next]

\* The operation ends, and its Controller goes on if it still waits.
Answer(t, next) ==
  /\ op' = NoOp
  /\ pc' = [pc EXCEPT ![t] = IF @ \in Waiting THEN next ELSE @]

\* artifact.relay.prepare and artifact.relay.archive.prepare.
Prepare ==
  /\ op # NoOp
  /\ op.step = "prepare"
  /\ staging' = [staging EXCEPT ![op.by] = Empty]
  /\ Answer(op.by, "read")
  /\ UNCHANGED <<source, changes, mode, pos, want, archive, request, holder, inDoubt,
                 dest, backup, faults, relayHistory>>

\* A chunk is written at its offset.
Staged(t, c, data) == [staging EXCEPT ![t][c] = data]

\* artifact.relay.write and artifact.relay.archive.write.
WriteChunk ==
  /\ op # NoOp
  /\ op.step = "write"
  /\ staging' = Staged(op.by, op.for.chunk, op.for.data)
  /\ Answer(op.by, "read")
  /\ UNCHANGED <<source, changes, mode, pos, want, archive, request, holder, inDoubt,
                 dest, backup, faults, relayHistory>>

\* artifact.relay.local-copy reads the source twice, for the digest and for
\* the copy.
LocalDigest ==
  /\ op # NoOp
  /\ op.step = "digest"
  /\ want' = [want EXCEPT ![op.by][op.pos + 1] = source[op.pos + 1]]
  /\ op' = [op EXCEPT !.pos = (@ + 1) % Chunks,
                      !.step = IF op.pos + 1 = Chunks THEN "copy" ELSE @]
  /\ staging' = [staging EXCEPT ![op.by] = Empty]
  /\ UNCHANGED <<source, changes, mode, pc, pos, archive, request, holder, inDoubt,
                 dest, backup, faults, relayHistory>>

LocalCopy ==
  /\ op # NoOp
  /\ op.step = "copy"
  /\ staging' = Staged(op.by, op.pos + 1, source[op.pos + 1])
  /\ op' = [op EXCEPT !.pos = (@ + 1) % Chunks,
                      !.step = IF op.pos + 1 = Chunks THEN "verify" ELSE @]
  /\ UNCHANGED <<source, changes, client, request, holder, inDoubt, dest, backup,
                 faults, relayHistory>>

\* extract_relay_archive: the files and the bytes that were packed, no others.
Unpacked(t) == staging[t]

\* A fault: any complete copy will do.
VerifiedComplete(t) == \A c \in Chunk : Unpacked(t)[c] # Hole

\* artifact.relay.commit, artifact.relay.archive.commit and local-copy: the
\* digest of what is in the staging area must be the expected one.
Verified(t) == Unpacked(t) = want[t]

Verify ==
  /\ op # NoOp
  /\ op.step = "verify"
  /\ \/ /\ Verified(op.by)
        /\ op' = [op EXCEPT !.step = "away"]
        /\ UNCHANGED <<pc, staging>>
     \/ /\ ~Verified(op.by)
        /\ staging' = IF op.for.what = "local" THEN [staging EXCEPT ![op.by] = Missing] ELSE staging
        /\ Answer(op.by, "release")
  /\ UNCHANGED <<source, changes, mode, pos, want, archive, request, holder, inDoubt,
                 dest, backup, faults, relayHistory>>

\* commit_relay_staging, first rename: the destination becomes the backup.
MoveAway ==
  /\ op # NoOp
  /\ op.step = "away"
  /\ \/ /\ dest' = Missing
        /\ backup' = [backup EXCEPT ![op.by] = dest]
        /\ latest' = IF dest # Missing THEN op.by ELSE latest
        /\ op' = [op EXCEPT !.step = "in"]
        /\ UNCHANGED pc
     \/ /\ Answer(op.by, "release")        \* the rename failed
        /\ UNCHANGED <<dest, backup, latest>>
  /\ UNCHANGED <<source, changes, mode, pos, want, archive, request, holder, inDoubt,
                 staging, faults, past, installed>>

\* Second rename: the staging area becomes the destination, or the backup is
\* put back.
MoveIn ==
  /\ op # NoOp
  /\ op.step = "in"
  /\ \/ /\ dest' = staging[op.by]
        /\ staging' = [staging EXCEPT ![op.by] = Missing]
        /\ installed' = installed \cup {op.by}
        /\ op' = [op EXCEPT !.step = "clean"]
        /\ UNCHANGED <<pc, backup>>
     \/ /\ \E restored \in BOOLEAN :       \* the rename back may fail too
             IF restored
             THEN /\ dest' = backup[op.by]
                  /\ backup' = [backup EXCEPT ![op.by] = Missing]
             ELSE UNCHANGED <<dest, backup>>
        /\ Answer(op.by, "release")
        /\ UNCHANGED <<staging, installed>>
  /\ UNCHANGED <<source, changes, mode, pos, want, archive, request, holder, inDoubt,
                 faults, past, latest>>

\* The backup is removed; if that fails the transfer fails too, although the
\* destination has been replaced.
Clean ==
  /\ op # NoOp
  /\ op.step = "clean"
  /\ \/ /\ backup' = [backup EXCEPT ![op.by] = Missing]
        /\ Answer(op.by, "finished")
     \/ /\ backup[op.by] # Missing
        /\ UNCHANGED backup
        /\ Answer(op.by, "release")
  /\ UNCHANGED <<source, changes, mode, pos, want, archive, request, holder, inDoubt,
                 staging, dest, faults, relayHistory>>

\* The Executor crashes and restarts: leases survive, requests do not, and an
\* operation that ran puts the destination in quarantine.
CrashExecutor ==
  /\ faults < MaxFaults
  /\ faults' = faults + 1
  /\ inDoubt' = (inDoubt \/ op # NoOp)
  /\ op' = NoOp
  /\ request' = [t \in Transfer |-> NoRequest]
  /\ pc' = [t \in Transfer |-> IF pc[t] \in Waiting THEN "release" ELSE pc[t]]
  /\ UNCHANGED <<source, changes, mode, pos, want, archive, holder, disk, relayHistory>>

\* resource.lease.recover.
RecoverDestination ==
  /\ inDoubt
  /\ op = NoOp
  /\ inDoubt' = FALSE
  /\ UNCHANGED <<source, changes, client, request, holder, op, disk, faults, relayHistory>>

-----------------------------------------------------------------------------
RelayInit ==
  /\ source = [c \in Chunk |-> 0]
  /\ changes = 0
  /\ mode \in [Transfer -> {"archive", "manifest", "local"}]
  /\ pc = [t \in Transfer |-> IF mode[t] = "local" THEN "acquire" ELSE "digest"]
  /\ pos = [t \in Transfer |-> 0]
  /\ want = [t \in Transfer |-> Empty]
  /\ archive = [t \in Transfer |-> Empty]
  /\ request = [t \in Transfer |-> NoRequest]
  /\ holder = Nobody
  /\ op = NoOp
  /\ inDoubt = FALSE
  /\ staging = [t \in Transfer |-> Missing]
  /\ dest = Old
  /\ backup = [t \in Transfer |-> Missing]
  /\ faults = 0
  /\ past = {source}
  /\ latest = Nobody
  /\ installed = {}

RelayNext ==
  \/ \E c \in Chunk : ChangeChunk(c)
  \/ \E t \in Transfer :
       \/ DigestChunk(t) \/ Digested(t) \/ StableChunk(t) \/ PackChunk(t)
       \/ AcquireLease(t) \/ SendChunk(t) \/ GiveUp(t) \/ ReleaseLease(t)
       \/ BeginOperation(t) \/ Refuse(t)
  \/ ExpireLease
  \/ Prepare \/ WriteChunk \/ LocalDigest \/ LocalCopy
  \/ Verify \/ MoveAway \/ MoveIn \/ Clean
  \/ CrashExecutor \/ RecoverDestination

RelaySpec == RelayInit /\ [][RelayNext]_relayVars

-----------------------------------------------------------------------------
(* Properties.                                                             *)

Content == [Chunk -> -2..MaxChanges]

RelayTypeOK ==
  /\ source \in [Chunk -> 0..MaxChanges]
  /\ pos \in [Transfer -> 0..Chunks]
  /\ {want, archive} \subseteq [Transfer -> Content]
  /\ {staging, backup} \subseteq [Transfer -> Content \cup {Missing}]
  /\ dest \in Content \cup {Missing}
  /\ holder \in Transfer \cup {Nobody}
  /\ op.by \in Transfer \cup {Nobody}
  /\ inDoubt \in BOOLEAN

\* A commit (digest check to removal of the backup) is not disturbed: as long
\* as it runs nobody else gets the lease of its destination, although the
\* lease may expire and its Controller may have given up.
CommitUndisturbed ==
  op # NoOp => holder \in {op.by, Nobody}

\* A transfer that reports success has put its artifact at the destination,
\* whatever else happened to it on the way.
SuccessMeansInstalled ==
  \A t \in Transfer : pc[t] \in {"finished", "done"} => t \in installed

\* The destination, or what a commit put aside while there is none.
Visible == IF dest # Missing THEN dest ELSE backup[latest]

\* The destination only ever changes from one whole state of the source to
\* another, for every interleaving of transfers, source changes, lost calls
\* and crashes (MirroredArtifact).
Mirror == INSTANCE MirroredArtifact WITH content <- Visible, Initial <- Old
MirrorsSource == Mirror!MirrorSpec
=============================================================================
