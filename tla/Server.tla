------------------------------- MODULE Server -------------------------------
(***************************************************************************)
(* The control plane server as create_production_app composes it: the      *)
(* authority, the data environments, the reconciler and the lifecycle      *)
(* service over one registry and one ownership authority.                  *)
(***************************************************************************)
EXTENDS ResourceLifecycle

serverVars == <<setting, callVars, rows, planeVars, lifecycleVars>>

Blank == RegistryInit /\ Authority!Init /\ live = [n \in Names |-> None]

(* Lifecycle runs and data environments start over an instance registered  *)
(* before, with the database it names.                                     *)
Settled ==
    LET i == CHOOSE k \in Pointers : TRUE
        n == CHOOSE k \in Names : TRUE
    IN \E o \in Operations :
          /\ rows = [k \in Pointers |-> IF k = i THEN Enrolled(i, n, o) ELSE None]
          /\ live = [m \in Names |-> IF m = n THEN [operation |-> o, dead |-> FALSE] ELSE None]
          /\ custody = [q \in Operations |-> [m \in Names |->
                IF q = o /\ m = n THEN Authority!Claim("active", o) ELSE Authority!Unclaimed]]

(* Reads start over rows of any kind. *)
Listed ==
    /\ rows \in [Pointers -> [resource : Resources, receipt : {None}] \cup {None}]
    /\ Authority!Init /\ live = [n \in Names |-> None]

Init ==
    /\ CallsInit /\ PlaneInit /\ LifecycleInit
    /\ CASE world \cap {"lifecycle", "environment"} # {} -> Settled
         [] "read" \in world -> Listed
         [] OTHER -> Blank

BeginCall(p) ==
    \/ \E i \in Pointers, r \in Resources :
          BeginStore(p, i, r) /\ UNCHANGED <<planeVars, lifecycleVars>>
    \/ \E i \in Pointers, n \in Names, o \in Operations :
          BeginEnrol(p, i, n, o) /\ UNCHANGED <<planeVars, lifecycleVars>>
    \/ \E r \in Requests : BeginRegister(p, r) /\ UNCHANGED lifecycleVars
    \/ \E i \in Pointers, n \in Names, o \in Operations, given, raw \in BOOLEAN :
          BeginEnvironment(p, i, n, o, given, raw) /\ UNCHANGED lifecycleVars
    \/ \E only \in Pointers \cup {None} : BeginRead(p, only) /\ UNCHANGED lifecycleVars
    \/ \E run \in Runs : BeginLifecycle(p, run)

Serve(p) ==
    \/ (StoreCheck(p) \/ StoreWrite(p) \/ Enrol(p)) /\ UNCHANGED <<planeVars, lifecycleVars>>
    \/ (Register(p) \/ Environment(p) \/ ReadInstances(p)) /\ UNCHANGED lifecycleVars
    \/ Lifecycle(p)
    \/ Dies(p)

Surroundings ==
    \/ \E n \in Names :
          \/ (\E o \in Operations : Provision(n, o)) /\ UNCHANGED lifecycleVars
          \/ Perish(n) /\ UNCHANGED lifecycleVars
          \/ Use(n)
    \/ \E i \in Pointers :
          \/ Unlist(i) /\ UNCHANGED <<planeVars, lifecycleVars>>
          \/ (\E h \in Healths : Fluctuate(i, h)) /\ UNCHANGED lifecycleVars
    \/ Govern /\ UNCHANGED lifecycleVars
    \/ Tick

Next == (\E p \in Procs : BeginCall(p) \/ Serve(p)) \/ Surroundings

Spec == Init /\ [][Next]_serverVars

(* Type invariant of the composition. *)
TypeOK == CallsTypeOK /\ RegistryTypeOK /\ PlaneTypeOK /\ LifecycleTypeOK
=============================================================================
