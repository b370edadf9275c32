--------------------------- MODULE MCVpsProvider ---------------------------
(* Model values for VpsProvider: a plan of one volume and one container. *)
EXTENDS VpsProvider, TLC

Plan == <<"volume", "odoo">>

Volumes == {"volume"}

(* One kind of fault at a time, and the pairs whose faults meet: a crash or  *)
(* a refusal and an unknown outcome, a run that fails and a failing store.   *)
AllWorlds == {{f} : f \in Features} \cup
             {{"crash", "unknown", "adopt"}, {"refused", "unknown"}, {"notready", "store"}}

Symmetry == Permutations(Procs) \cup Permutations(RunOps)
=============================================================================
