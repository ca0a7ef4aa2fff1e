--------------------------- MODULE MCDesktopQueue ---------------------------
(* Instances of DesktopQueue for TLC.  Worker threads are interchangeable; *)
(* submissions are told apart by the queue only through the job they       *)
(* became, so they are interchangeable too.                                *)
EXTENDS DesktopQueue, TLC

Symmetry == Permutations(Thread) \cup Permutations(Submission)

\* What can still matter: DurableWhileSaved does not ask what was acknowledged
\* once a save has failed, and nothing else does.
View ==
  <<queue, disk, pc, req, host, failures, crashes, touched, doubt, lastEpoch, lastActor,
    IF failures = 0 THEN acked ELSE {}>>

\* As long as no save has failed: a submission that was answered is in the
\* queue for good (AckedDurable), and a desktop whose cleanup failed stays
\* quarantined (CleanupQuarantined), over crashes too.
DurableWhileSaved == failures = 0 => AckedDurable /\ CleanupQuarantined
=============================================================================
