---------------------------- MODULE ServerCalls ----------------------------
(***************************************************************************)
(* The setting of the control plane: processes, each serving one call at   *)
(* a time, and the environment a behaviour runs in.                        *)
(***************************************************************************)
EXTENDS Naturals, FiniteSets

CONSTANTS
    Procs,          \* processes that serve calls
    MaxCalls(_),    \* bound: calls begun in a world
    MaxChanges(_),  \* bound: changes of the environment in a world
    Worlds,         \* the environments a behaviour may run in
    None            \* nothing there, no value

Features == {"postgres",    \* the registry is PostgresInstanceRegistry, not the in-memory one
             "register",    \* ControlPlaneAuthority.register is called
             "store",       \* rows are stored without a receipt
             "enrol",       \* rows with a receipt are registered directly
             "environment", \* DataEnvironmentService.run is called
             "lifecycle",   \* LifecycleService.run is called
             "read",        \* the read-only routes are called
             "concurrent",  \* calls overlap
             "crash",       \* a process dies
             "sql",         \* statements and commits fail
             "docker"}      \* docker and provider calls fail

ASSUME WorldsAssumption ==
    Worlds \subseteq SUBSET Features /\ \A w \in Worlds : MaxCalls(w) \in Nat /\ MaxChanges(w) \in Nat

VARIABLES
    world,          \* fixed by Init
    calls,          \* calls begun so far
    changes,        \* changes of the environment so far
    pc, job         \* per process: position and locals of its call

setting == <<world, changes>>
callVars == <<calls, pc, job>>

CallsInit ==
    /\ world \in Worlds
    /\ calls = 0 /\ changes = 0
    /\ pc = [p \in Procs |-> "idle"]
    /\ job = [p \in Procs |-> None]

CallsTypeOK ==
    /\ world \in Worlds
    /\ calls \in 0..MaxCalls(world) /\ changes \in 0..MaxChanges(world)
    /\ \A p \in Procs : pc[p] # "idle" => "cmd" \in DOMAIN job[p]

At(p, l) == pc[p] = l

(* A call of a process begins, with its arguments in j. *)
Begin(p, cmd, l, j) ==
    /\ cmd \in world
    /\ At(p, "idle") /\ calls < MaxCalls(world)
    /\ "concurrent" \in world \/ \A q \in Procs : At(q, "idle")
    /\ calls' = calls + 1
    /\ pc' = [pc EXCEPT ![p] = l]
    /\ job' = [job EXCEPT ![p] = j]
    /\ UNCHANGED setting

Goto(p, l, j) ==
    /\ pc' = [pc EXCEPT ![p] = l]
    /\ job' = [job EXCEPT ![p] = j]
    /\ UNCHANGED <<calls, setting>>

Step(p, l) == Goto(p, l, job[p])

(* The call returns or raises; what it reported stays visible. *)
Return(p, result) == Goto(p, "idle", [cmd |-> job[p].cmd, result |-> result])

Change == changes < MaxChanges(world) /\ changes' = changes + 1 /\ UNCHANGED <<world, callVars>>
=============================================================================
