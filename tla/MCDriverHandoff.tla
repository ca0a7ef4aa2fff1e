--------------------------- MODULE MCDriverHandoff ---------------------------
(* Instances of DriverHandoff for TLC.  Agents and calls are               *)
(* interchangeable where every agent reports its mutations or none does.   *)
EXTENDS DriverHandoff, TLC

Symmetry == Permutations(Agent) \cup Permutations(Call)

(* What can still matter: no step reads a request that is closed, the      *)
(* stamp of a request that has arrived, or, once the Controller will not   *)
(* crash again, its file.                                                  *)
Seen(rs) == [i \in DOMAIN rs |-> IF rs[i].state \in Open THEN rs[i] ELSE "closed"]
View ==
  <<table, Seen(requests), mutations, task,
    IF crashes < MaxCrashes THEN [disk EXCEPT !.requests = Seen(disk.requests)] ELSE 0,
    calls, wire,
    [c \in Call |-> IF wire[c] = "transit" THEN stamp[c] ELSE NoStamp],
    execFence, execDisk, written, clock, failures, known, editing, given, late>>
=============================================================================
