------------------------------ MODULE ForgeCli ------------------------------
(***************************************************************************)
(* The setting of the local command line: processes, each running one      *)
(* `forge` command at a time on one machine, and the environment a         *)
(* behaviour runs in.                                                      *)
(***************************************************************************)
EXTENDS Naturals, FiniteSets

CONSTANTS
    Procs,          \* processes that run commands
    MaxCalls(_),    \* bound: commands begun in a world
    MaxEdits(_),    \* bound: changes made by the user and by upstream
    Worlds          \* the environments a behaviour may run in

Features == {"workspace",   \* manifest and workspace commands are used
             "backend",     \* backend commands are used
             "concurrent",  \* commands overlap
             "crash",       \* a process dies
             "network",     \* git and the registry fail
             "os",          \* renames fail
             "nocred",      \* the enterprise credential is not available
             "user",        \* the user works in the checkouts
             "unlock",      \* the user unlocks repositories
             "docker",      \* docker commands fail
             "timeout",     \* docker commands outlive their client
             "foreign",     \* volumes of an earlier instance are there
             "adapter"}     \* the database port is the repository's own adapter

ASSUME WorldsAssumption ==
    Worlds \subseteq SUBSET Features /\ \A w \in Worlds : MaxCalls(w) \in Nat /\ MaxEdits(w) \in Nat

VARIABLES
    world,          \* fixed by Init
    calls,          \* commands begun so far
    edits,          \* changes of the user and of upstream so far
    crashes         \* processes that died so far

cli == <<calls, edits, crashes>>

CliInit == world \in Worlds /\ calls = 0 /\ edits = 0 /\ crashes = 0

CliTypeOK == world \in Worlds /\ calls \in 0..MaxCalls(world) /\ edits \in 0..MaxEdits(world) /\ crashes \in 0..1

(* One more command, change of the environment, or death of a process. *)
Begun == calls < MaxCalls(world) /\ calls' = calls + 1 /\ UNCHANGED <<edits, crashes>>

Changed == edits < MaxEdits(world) /\ edits' = edits + 1 /\ UNCHANGED <<calls, crashes>>

Died == "crash" \in world /\ crashes = 0 /\ crashes' = 1 /\ UNCHANGED <<calls, edits>>
=============================================================================
