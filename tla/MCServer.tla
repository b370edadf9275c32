------------------------------ MODULE MCServer ------------------------------
(* Two processes, instances, operations and names; the calls of a world    *)
(* are those its features switch on.                                       *)
EXTENDS Server, TLC

CONSTANTS i1, i2, o1, o2

(* The same request twice, its operation for another instance, another     *)
(* operation on the same name, and two requests that must be refused.      *)
Request(o, i, n, id, ok) ==
    [operation |-> o, pointer |-> i, resource |-> [name |-> n, kind |-> "container"], id |-> id,
     valid |-> ok]

MCRequests == {Request(o1, i1, 1, o1, TRUE), Request(o1, i2, 1, o1, TRUE),
               Request(o2, i1, 1, o2, TRUE), Request(o2, i2, 1, o1, TRUE),
               Request(o2, i2, 2, o2, FALSE)}

Run(delete, wait, ok) == [delete |-> delete, wait |-> wait, approved |-> ok]

MCRuns == {Run(FALSE, 0, TRUE), Run(TRUE, 0, TRUE), Run(TRUE, 1, TRUE), Run(TRUE, 0, FALSE)}

MCNetwork(i) == IF i = i1 THEN 1 ELSE 2

MCClass(o) == IF o = o1 THEN "dev" ELSE "prod"

MCCalls(w) ==
    CASE "read" \in w -> 1
      [] "lifecycle" \in w /\ w \cap {"concurrent", "crash", "register", "docker", "postgres"} = {} -> 3
      [] OTHER -> 2

MCChanges(w) ==
    CASE {"lifecycle", "concurrent"} \subseteq w -> 1
      [] {"register", "crash"} \subseteq w -> 3
      [] OTHER -> 2

RegisterWorlds == {{"postgres", "register"} \cup w : w \in
    {{"sql"}, {"docker", "concurrent"}, {"crash"}}} \cup {{"register", "concurrent"}}

StoreWorlds == {{"postgres", "store", "enrol", "concurrent"}, {"postgres", "store", "enrol", "sql"},
                {"enrol"}}

EnvironmentWorlds == {{"environment", "sql", "docker"}, {"environment", "concurrent"},
                      {"environment", "crash"}, {"environment", "postgres"}}

ReadWorlds == {{"read", "postgres", "sql"}}

LifecycleWorlds == {{"lifecycle"} \cup w : w \in
    {{}, {"concurrent"}, {"crash"}, {"sql", "docker"}, {"postgres"}, {"register"}}}

MCWorlds == RegisterWorlds \cup StoreWorlds \cup EnvironmentWorlds \cup ReadWorlds \cup LifecycleWorlds

(* One registration after the other over the PostgreSQL registry. *)
RetryWorlds == {{"postgres", "register"}}

(* store and register overlap. *)
StoreRaceWorlds == {{"postgres", "store", "enrol", "concurrent"}}

Sym == Permutations(Procs)
=============================================================================
