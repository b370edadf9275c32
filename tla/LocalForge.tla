----------------------------- MODULE LocalForge -----------------------------
(***************************************************************************)
(* The local command line: the manifest and workspace commands and the     *)
(* backend commands, on one machine.  A process is in one command at a     *)
(* time; forge run and the onboarding from the catalog hand the mounts     *)
(* they planned over the workspace to the backend.                         *)
(***************************************************************************)
EXTENDS Workspace, DockerBackend

localVars == <<world, cli, workspaceVars, backendVars>>

Init == CliInit /\ WorkspaceInit /\ BackendInit

Alone(p) == bpc[p] = "idle" /\ ("concurrent" \in world \/ \A q \in Procs \ {p} : bjob[q] = NoBackendJob)

Free(p) == pc[p] = "idle" /\ ("concurrent" \in world \/ \A q \in Procs \ {p} : job[q] = NoJob)

(* forge run, and the end of onboard --catalog: the backend takes over. *)
HandOver(p) ==
    /\ pc[p] = "run"
    /\ UNCHANGED <<files, cli>>
    /\ StartRun(p, job[p].view)
    /\ End(p, TRUE)

(* forge run where the workspace is left out: its mounts play no part. *)
RunBare(p) ==
    /\ "workspace" \notin world
    /\ Begun /\ StartRun(p, {})
    /\ UNCHANGED workspaceVars

Next ==
    /\ \/ \E p \in Procs :
             \/ Alone(p) /\ WorkspaceStep(p) /\ UNCHANGED backendVars
             \/ "backend" \in world /\ HandOver(p)
             \/ "backend" \in world /\ Free(p) /\ (RunBare(p) \/ (BackendStep(p) /\ UNCHANGED workspaceVars))
       \/ WorkspaceEnv /\ UNCHANGED backendVars
    /\ UNCHANGED world

Spec == Init /\ [][Next]_localVars

(* Type invariant: both halves, and no process in two commands at once. *)
TypeOK == WorkspaceTypeOK /\ BackendTypeOK /\ \A p \in Procs : pc[p] = "idle" \/ bpc[p] = "idle"

(* Odoo starts on the checkouts the lock pins: when the container comes    *)
(* up, every mount planned for it is there at the locked commit, also      *)
(* after crashes that left copies of checkouts behind.  For commands that  *)
(* do not overlap and checkouts nobody edits (backend.py 77-101,           *)
(* projection.py 340-432).                                                 *)
StartsOdoo(p) == docker["odoo"] = Absent /\ docker'["odoo"] = bjob[p].run /\ bpc[p] = "odoo"

RunsWhatIsLocked ==
    [][world \cap {"concurrent", "user"} = {} =>
         \A p \in Procs : StartsOdoo(p) =>
            \A mount \in bjob[p].view :
               /\ mount.source \in DOMAIN disk
               /\ disk[mount.source].commit = mount.commit
               /\ mount.source = mount.target \/ ~mount.readOnly]_localVars

=============================================================================
