--------------------------- MODULE MCCopyWorkflow ---------------------------
(* Model values for CopyWorkflow: two processes and two sources. *)
EXTENDS CopyWorkflow, TLC

(* Overlapping copies with each kind of fault, copies of one source that    *)
(* race, and equal bytes, one copy at a time and racing.                    *)
AllWorlds == {{"overlap", f} : f \in {"docker", "crash", "disk", "unreadable", "same_bytes"}} \cup
             {{"docker", "disk"}, {"docker", "rm", "crash"}, {"same_bytes"}, {"same_source"}}

SameSource == {{"same_source"}}

Symmetry == Permutations(Procs) \cup Permutations(Sources)
=============================================================================
