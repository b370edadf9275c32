--------------------------- MODULE DockerBackend ---------------------------
(***************************************************************************)
(* The local Docker backend: DockerBackendProvider (odoo_forge_docker/     *)
(* provider.py), its custody file (ownership.py) and the commands run,     *)
(* stop, destroy, status, logs and exec, on one instance.                  *)
(*                                                                         *)
(* A docker command is a step.  It may fail ("docker"), and it may take    *)
(* effect although its client sees a failure ("timeout").  The database    *)
(* provider is a port here: provision either succeeds or leaves nothing    *)
(* behind, and cleanup removes what its receipt owns; DatabaseProvider     *)
(* is the module about that adapter.                                       *)
(***************************************************************************)
EXTENDS ForgeCli, Sequences, SequencesExt

CONSTANTS
    Absent,         \* no such resource; also: no token
    Unlabelled      \* a volume that carries no token of a run

(* Neither is the identity of a run. *)
ASSUME LabelsAssumption ==
    Absent # Unlabelled /\ Absent \notin Procs \X Nat /\ Unlabelled \notin Procs \X Nat

Containers == {"postgres", "odoo", "bootstrap"}
Volumes == {"pgdata", "filestore"}
Parts == Containers \cup Volumes \cup {"network"}

VARIABLES
    docker,         \* part -> the run that created it, Unlabelled or Absent
    up,             \* the containers that run, and hold the network
    custody,        \* the entry of the instance in custody.json
    bpc, bjob       \* per process: position and locals of its command

dockerVars == <<docker, up>>
backendVars == <<docker, up, custody, bpc, bjob>>

NoProof == [run |-> Absent, volume |-> FALSE, token |-> Absent, state |-> "none"]

(* run is the invocation's identity: the operation of its receipt and the  *)
(* token of the filestore; volume: the receipt owns pgdata.                *)
NoBackendJob == [cmd |-> "none", run |-> Absent, created |-> <<>>, volume |-> FALSE,
                 found |-> {}, outcome |-> <<>>, proof |-> NoProof, left |-> {},
                 view |-> {}, ok |-> FALSE]

BackendPositions == {"idle", "exists", "image", "network", "network_create", "filestore",
    "filestore_create", "provision", "bootstrap", "rm_bootstrap", "odoo", "health", "record",
    "rollback", "look", "rm_postgres", "rm_odoo", "rm_network", "consume", "reclaim", "reclaim_fs",
    "complete"}

BackendInit ==
    /\ docker \in [Parts -> {Absent, Unlabelled}]
    /\ \A x \in Parts : docker[x] = Unlabelled => x \in Volumes /\ "foreign" \in world
    /\ up = {}
    /\ custody = NoProof
    /\ bpc = [p \in Procs |-> "idle"]
    /\ bjob = [p \in Procs |-> NoBackendJob]

-----------------------------------------------------------------------------
BGoto(p, l) == bpc' = [bpc EXCEPT ![p] = l]

BWith(p, j) == bjob' = [bjob EXCEPT ![p] = j]

Step(p, l) == BGoto(p, l) /\ UNCHANGED bjob

BEnd(p, ok) ==
    BGoto(p, "idle") /\ BWith(p, [NoBackendJob EXCEPT !.cmd = bjob[p].cmd, !.run = bjob[p].run,
                                                       !.left = bjob[p].left, !.ok = ok])

Exists(x) == docker[x] # Absent

Put(x, who) == docker' = [docker EXCEPT ![x] = who]

(* docker rm -f, docker volume rm and docker network rm take effect. *)
Vanish(gone) ==
    /\ docker' = [x \in Parts |-> IF x \in gone THEN Absent ELSE docker[x]]
    /\ up' = up \ gone

Fails == "docker" \in world

Late == "timeout" \in world

(* docker network rm and docker volume rm refuse what is in use. *)
Held(x) ==
    \/ x = "network" /\ up # {}
    \/ x = "pgdata" /\ Exists("postgres")
    \/ x = "filestore" /\ (Exists("odoo") \/ Exists("bootstrap"))

Enter(p, e) == BWith(p, [bjob[p] EXCEPT !.created = Append(@, e)])

(* An exception inside run: the rollback takes over. *)
Raise(p) == Step(p, "rollback")

(* The password of a container comes from the SOPS file, or not at all. *)
CredentialsResolve == "nocred" \notin world

(* docker inspect answers; it may say "absent" of what is there, or raise. *)
Seen(x, there) == there = Exists(x) \/ (Fails /\ ~there)

-----------------------------------------------------------------------------
(* DockerBackendProvider.run.                                              *)
BMayBegin(p) ==
    /\ bpc[p] = "idle"
    /\ "concurrent" \in world \/ \A q \in Procs \ {p} : bjob[q] = NoBackendJob

(* plan_backend names the parts of the instance and mounts the view. *)
StartRun(p, view) ==
    /\ BMayBegin(p)
    /\ BGoto(p, "exists")
    /\ BWith(p, [NoBackendJob EXCEPT !.cmd = "run", !.run = <<p, calls'>>, !.view = view])
    /\ UNCHANGED <<dockerVars, custody>>

(* Credentials are validated and the names looked up before the rollback   *)
(* covers the run.                                                         *)
CheckExists(p) ==
    /\ bpc[p] = "exists"
    /\ \/ /\ CredentialsResolve
          /\ \A c \in Containers : Seen(c, FALSE)
          /\ Step(p, "image")
       \/ /\ ~CredentialsResolve \/ Late \/ \E c \in Containers : Seen(c, TRUE)
          /\ BEnd(p, FALSE)
    /\ UNCHANGED <<dockerVars, custody>>

EnsureOdooImage(p) ==
    /\ bpc[p] = "image"
    /\ Step(p, "network") \/ ((Fails \/ Late) /\ Raise(p))
    /\ UNCHANGED <<dockerVars, custody>>

EnsureNetwork(p) ==
    /\ bpc[p] = "network"
    /\ \/ Seen("network", TRUE) /\ Step(p, "filestore")
       \/ Seen("network", FALSE) /\ Step(p, "network_create")
       \/ Late /\ Raise(p)
    /\ UNCHANGED <<dockerVars, custody>>

CreateNetwork(p) ==
    /\ bpc[p] = "network_create"
    /\ \/ /\ ~Exists("network") /\ Put("network", bjob[p].run)
          /\ BGoto(p, "filestore") /\ Enter(p, "network")
       \/ (Exists("network") \/ Fails) /\ UNCHANGED docker /\ Raise(p)
       \/ Late /\ ~Exists("network") /\ Put("network", bjob[p].run) /\ Raise(p)
    /\ UNCHANGED <<up, custody>>

(* The filestore carries this token of a run. *)
VolumeHasLabel(token) == token # Absent /\ docker["filestore"] = token

EnsureVolume(p) ==
    /\ bpc[p] = "filestore"
    /\ \/ Seen("filestore", TRUE) /\ Step(p, "provision")
       \/ Seen("filestore", FALSE) /\ Step(p, "filestore_create")
       \/ Late /\ Raise(p)
    /\ UNCHANGED <<dockerVars, custody>>

(* docker volume create leaves an existing volume as it is and succeeds;   *)
(* the label tells whose it is.                                            *)
CreateVolume(p) ==
    LET run == bjob[p].run
        made == IF Exists("filestore") THEN docker["filestore"] ELSE run
    IN  /\ bpc[p] = "filestore_create"
        /\ \/ /\ Put("filestore", made) /\ Enter(p, "filestore")
              /\ \/ VolumeHasLabel(run)' /\ BGoto(p, "provision")
                 \/ (~VolumeHasLabel(run)' \/ Fails \/ Late) /\ BGoto(p, "rollback")
           \/ Fails /\ UNCHANGED docker /\ Raise(p)
           \/ Late /\ Put("filestore", made) /\ Raise(p)
        /\ UNCHANGED <<up, custody>>

(* The labels of the plan's postgres container, and those the adapter      *)
(* takes from a caller.                                                    *)
PlanLabels == {"project", "instance", "managed", "role"}
AdapterLabels == {"role"}

Accepted == "adapter" \in world => PlanLabels \subseteq AdapterLabels

(* The port: the container is new, pgdata is created when it is absent. *)
Provision(p) ==
    LET run == bjob[p].run
        fresh == ~Exists("pgdata")
    IN  /\ bpc[p] = "provision"
        /\ \/ /\ Accepted /\ ~Exists("postgres") /\ Exists("network")
              /\ docker' = [docker EXCEPT !["postgres"] = run, !["pgdata"] = IF fresh THEN run ELSE @]
              /\ up' = up \cup {"postgres"}
              /\ BGoto(p, IF fresh THEN "bootstrap" ELSE "odoo")
              /\ BWith(p, [bjob[p] EXCEPT !.created = Append(@, "database"), !.volume = fresh])
           \/ /\ ~Accepted \/ Exists("postgres") \/ ~Exists("network") \/ Fails
              /\ UNCHANGED dockerVars /\ Raise(p)
        /\ UNCHANGED custody

-----------------------------------------------------------------------------
(* docker run of the one-off bootstrap container; its identity is in the   *)
(* ledger as soon as the cidfile has it, whatever becomes of the command.  *)
RunBootstrap(p) ==
    LET free == ~Exists("bootstrap") /\ Exists("network") IN
    /\ bpc[p] = "bootstrap"
    /\ \/ /\ free /\ Put("bootstrap", bjob[p].run) /\ UNCHANGED up
          /\ Enter(p, "bootstrap")
          /\ BGoto(p, "rm_bootstrap") \/ (Fails /\ BGoto(p, "rollback"))
       \/ (~free \/ Fails) /\ UNCHANGED dockerVars /\ Raise(p)
       \/ /\ Late /\ free /\ Put("bootstrap", bjob[p].run) /\ up' = up \cup {"bootstrap"}
          /\ BGoto(p, "rollback")
          /\ Enter(p, "bootstrap") \/ UNCHANGED bjob
    /\ UNCHANGED custody

(* Mutant: the ledger forgets the container before it is removed. *)
RemoveBootstrapEarly(p) ==
    LET own == IF docker["bootstrap"] = bjob[p].run THEN {"bootstrap"} ELSE {}
    IN  /\ bpc[p] = "rm_bootstrap"
        /\ BWith(p, [bjob[p] EXCEPT !.created = Front(@)])
        /\ \/ Vanish(own) /\ BGoto(p, "odoo")
           \/ (Fails \/ Late) /\ UNCHANGED dockerVars /\ BGoto(p, "rollback")
        /\ UNCHANGED custody

RemoveBootstrap(p) ==
    LET run == bjob[p].run
        own == IF docker["bootstrap"] = run THEN {"bootstrap"} ELSE {}
    IN  /\ bpc[p] = "rm_bootstrap"
        /\ \/ /\ Vanish(own) /\ BGoto(p, "odoo")
              /\ BWith(p, [bjob[p] EXCEPT !.created = Front(@)])
           \/ Fails /\ UNCHANGED dockerVars /\ Raise(p)
           \/ Late /\ Vanish(own) /\ Raise(p)
        /\ UNCHANGED custody

(* docker run -d of Odoo enters the ledger after it succeeded.  It makes a *)
(* volume that has gone meanwhile anew, without labels.                    *)
RunContainer(p) ==
    LET run == bjob[p].run
        free == ~Exists("odoo") /\ Exists("network")
        with == [docker EXCEPT !["odoo"] = run,
                               !["filestore"] = IF Exists("filestore") THEN @ ELSE Unlabelled]
    IN  /\ bpc[p] = "odoo"
        /\ \/ /\ free /\ docker' = with /\ up' = up \cup {"odoo"}
              /\ BGoto(p, "health") /\ Enter(p, "odoo")
           \/ (~free \/ Fails) /\ UNCHANGED dockerVars /\ Raise(p)
           \/ Late /\ free /\ docker' = with /\ up' \in {up, up \cup {"odoo"}} /\ Raise(p)
        /\ UNCHANGED custody

WaitOdooHealthy(p) ==
    /\ bpc[p] = "health"
    /\ \/ Exists("odoo") /\ Step(p, "record")
       \/ (~Exists("odoo") \/ Fails \/ Late) /\ Raise(p)
    /\ UNCHANGED <<dockerVars, custody>>

(* Mutant: the receipt's claim to pgdata and the token change places. *)
EntrySwapped(run, volume, token) == [run |-> run, volume |-> token, token |-> volume, state |-> "recorded"]

(* The entry of custody.json a run writes: its receipt and its token. *)
Entry(run, volume, token) == [run |-> run, volume |-> volume, token |-> token, state |-> "recorded"]

RecordCustody(p) ==
    LET mine == \E i \in DOMAIN bjob[p].created : bjob[p].created[i] = "filestore" IN
    /\ bpc[p] = "record"
    /\ \/ /\ custody' = Entry(bjob[p].run, bjob[p].volume, IF mine THEN bjob[p].run ELSE Absent)
          /\ BEnd(p, TRUE)
       \/ "os" \in world /\ UNCHANGED custody /\ Raise(p)
    /\ UNCHANGED dockerVars
-----------------------------------------------------------------------------
(* cleanup(receipt) of the database provider: what goes and what stays.    *)
CleanupRemoves(run, volume) ==
    LET container == docker["postgres"] = run IN
    (IF container THEN {"postgres"} ELSE {}) \cup
    (IF volume /\ docker["pgdata"] = run /\ (container \/ ~Exists("postgres"))
     THEN {"pgdata"} ELSE {})

CleanupLeaves(run, volume) ==
    {x \in {"postgres", "pgdata"} : (x = "pgdata" => volume) /\ Exists(x)} \ CleanupRemoves(run, volume)

(* cleanup takes the container first; a removal that fails is a residual. *)
Cleanup(run, volume, gone, left) ==
    LET owned == CleanupRemoves(run, volume) IN
    /\ gone \in {owned} \cup (IF Fails \/ Late THEN {{}, owned \cap {"postgres"}} ELSE {})
    /\ \/ left = CleanupLeaves(run, volume) \cup (owned \ gone)
       \/ Late /\ left = CleanupLeaves(run, volume) \cup owned

(* Mutant: a volume is removed by its name. *)
RollbackRemovesByName(p, e) ==
    IF e = "database" THEN CleanupRemoves(bjob[p].run, bjob[p].volume)
    ELSE IF Exists(e) /\ ~Held(e) THEN {e} ELSE {}

(* What the teardown of one ledger entry removes: containers by name (the  *)
(* bootstrap by its id), the network by name, a volume if its token fits.  *)
RollbackRemoves(p, e) ==
    IF e = "database" THEN CleanupRemoves(bjob[p].run, bjob[p].volume)
    ELSE IF /\ Exists(e) /\ ~Held(e)
            /\ e \in {"filestore", "bootstrap"} => docker[e] = bjob[p].run
    THEN {e} ELSE {}

(* rm -f of a container that is gone succeeds; docker network rm does not. *)
Teardown(p, e, gone, left) ==
    IF e = "database" THEN Cleanup(bjob[p].run, bjob[p].volume, gone, left)
    ELSE /\ gone \in {RollbackRemoves(p, e)} \cup (IF Fails \/ Late THEN {{}} ELSE {})
         /\ \/ left = (IF gone = {e} \/ (e \in Containers /\ RollbackRemoves(p, e) = {}) THEN {} ELSE {e})
            \/ Late /\ left = {e}

(* _rollback: one teardown, last created first; a failure is noted and the *)
(* next one tried.                                                         *)
Rollback(p) ==
    LET ledger == bjob[p].created IN
    /\ bpc[p] = "rollback"
    /\ \/ ledger = <<>> /\ BEnd(p, FALSE) /\ UNCHANGED dockerVars
       \/ /\ ledger # <<>> /\ UNCHANGED bpc
          /\ \E gone, left \in SUBSET (IF Last(ledger) = "database" THEN {"postgres", "pgdata"} ELSE {Last(ledger)}) :
                /\ Teardown(p, Last(ledger), gone, left)
                /\ Vanish(gone)
                /\ BWith(p, [bjob[p] EXCEPT !.created = Front(@), !.left = @ \cup left])
    /\ UNCHANGED custody

-----------------------------------------------------------------------------
(* stop and destroy: _remove_runtime.                                      *)
Runtime == <<"postgres", "odoo", "network">>

StartRemoval(p, cmd) ==
    /\ BMayBegin(p)
    /\ BGoto(p, "look") /\ BWith(p, [NoBackendJob EXCEPT !.cmd = cmd])
    /\ UNCHANGED <<dockerVars, custody>>

LookAtRuntime(p) ==
    /\ bpc[p] = "look"
    /\ \/ \E found \in SUBSET ToSet(Runtime) :
             /\ \A x \in ToSet(Runtime) : Seen(x, x \in found)
             /\ IF found = {} /\ bjob[p].cmd = "stop" THEN BEnd(p, FALSE)
                ELSE BGoto(p, "rm_postgres") /\ BWith(p, [bjob[p] EXCEPT !.found = found])
       \/ Late /\ BEnd(p, FALSE)
    /\ UNCHANGED <<dockerVars, custody>>

(* Mutant: destroy goes on to the data whatever became of the runtime. *)
AfterRuntimeAlways(p, outcome) ==
    IF bjob[p].cmd = "stop" THEN BEnd(p, TRUE)
    ELSE BGoto(p, "consume") /\ BWith(p, [bjob[p] EXCEPT !.outcome = outcome])

(* stop does not look at the outcomes; destroy goes on to the data only    *)
(* when the whole runtime is gone.                                         *)
AfterRuntime(p, outcome) ==
    IF bjob[p].cmd = "stop" THEN BEnd(p, TRUE)
    ELSE IF ToSet(outcome) \subseteq {"removed", "absent"}
    THEN BGoto(p, "consume") /\ BWith(p, [bjob[p] EXCEPT !.outcome = outcome])
    ELSE BEnd(p, FALSE)

(* Every container and network of the instance carries its labels. *)
RuntimeHasOwnership(x) == Exists(x)

(* One resource of the runtime: its labels are read, then it is stopped    *)
(* and removed.                                                            *)
RemoveRuntime(p, i) ==
    LET x == Runtime[i]
        Done(o) == LET outcome == Append(bjob[p].outcome, o)
                   IN  IF i = 3 THEN AfterRuntime(p, outcome)
                       ELSE /\ BGoto(p, <<"rm_odoo", "rm_network">>[i])
                            /\ BWith(p, [bjob[p] EXCEPT !.outcome = outcome])
    IN  /\ bpc[p] = <<"rm_postgres", "rm_odoo", "rm_network">>[i]
        /\ \/ x \notin bjob[p].found /\ Done("absent") /\ UNCHANGED dockerVars
           \/ /\ x \in bjob[p].found
              /\ \/ (~RuntimeHasOwnership(x) \/ Fails) /\ Done("protected") /\ UNCHANGED dockerVars
                 \/ Exists(x) /\ ~Held(x) /\ Vanish({x}) /\ Done("removed")
                 \/ Exists(x) /\ Held(x) /\ Done("failed") /\ UNCHANGED dockerVars
                 \/ /\ Exists(x) /\ (Fails \/ Late) /\ Done("failed")
                    /\ UNCHANGED docker /\ up' \in {up, up \ {x}}
                 \/ Exists(x) /\ Late /\ ~Held(x) /\ Vanish({x}) /\ Done("failed")
                 \/ Late /\ BEnd(p, FALSE) /\ UNCHANGED dockerVars
        /\ UNCHANGED custody

-----------------------------------------------------------------------------
(* _reclaim_data: the proof is taken from custody, the database cleaned up *)
(* by its receipt, the filestore removed if its token fits.                *)
Consumed == [custody EXCEPT !.state = "in_progress"]

(* Without a proof a volume that is there is protected, and destroy has    *)
(* then not succeeded.                                                     *)
ProtectedData(ok) == IF ok THEN \A v \in Volumes : Seen(v, FALSE) ELSE \E v \in Volumes : Exists(v)

Consume(p) ==
    /\ bpc[p] = "consume"
    /\ \/ /\ custody = NoProof
          /\ \E ok \in BOOLEAN : ProtectedData(ok) /\ BEnd(p, ok)
          /\ UNCHANGED custody
       \/ /\ custody # NoProof
          /\ custody' = Consumed
          /\ BGoto(p, "reclaim") /\ BWith(p, [bjob[p] EXCEPT !.proof = custody])
       \/ "os" \in world /\ UNCHANGED custody /\ BEnd(p, FALSE)
    /\ UNCHANGED dockerVars

(* The outcome of pgdata, given what cleanup left; a residual container    *)
(* spoils only the completion, noted as "kept".                            *)
PgdataOutcome(proof, before, left) ==
    IF ~proof.volume THEN IF before THEN "protected" ELSE "absent"
    ELSE IF "pgdata" \in left THEN "failed"
    ELSE IF before THEN "removed" ELSE "absent"

ReclaimDatabase(p) ==
    LET proof == bjob[p].proof
        Done(before, left) ==
            BWith(p, [bjob[p] EXCEPT !.outcome = <<PgdataOutcome(proof, before, left)>>, !.left = left])
    IN  /\ bpc[p] = "reclaim" /\ BGoto(p, "reclaim_fs")
        /\ \E before \in BOOLEAN :
              /\ Seen("pgdata", before)
              /\ \E gone, left \in SUBSET {"postgres", "pgdata"} :
                    Cleanup(proof.run, proof.volume, gone, left) /\ Vanish(gone) /\ Done(before, left)
        /\ UNCHANGED custody

(* Mutant: the token of the filestore is not compared. *)
ReclaimFilestoreAny(p) ==
    LET Done(o) == BGoto(p, "complete") /\ BWith(p, [bjob[p] EXCEPT !.outcome = Append(@, o)])
    IN  /\ bpc[p] = "reclaim_fs"
        /\ \/ ~Exists("filestore") /\ Done("absent") /\ UNCHANGED dockerVars
           \/ Exists("filestore") /\ ~Held("filestore") /\ Vanish({"filestore"}) /\ Done("removed")
           \/ Exists("filestore") /\ Held("filestore") /\ Done("failed") /\ UNCHANGED dockerVars
        /\ UNCHANGED custody

ReclaimFilestore(p) ==
    LET token == bjob[p].proof.token
        fits == VolumeHasLabel(token)
        Done(o) == BGoto(p, "complete") /\ BWith(p, [bjob[p] EXCEPT !.outcome = Append(@, o)])
    IN  /\ bpc[p] = "reclaim_fs"
        /\ \/ Seen("filestore", FALSE) /\ Done("absent") /\ UNCHANGED dockerVars
           \/ Exists("filestore") /\ (~fits \/ Fails) /\ Done("protected") /\ UNCHANGED dockerVars
           \/ fits /\ ~Held("filestore") /\ Vanish({"filestore"}) /\ Done("removed")
           \/ fits /\ (Held("filestore") \/ Fails) /\ Done("failed") /\ UNCHANGED dockerVars
           \/ /\ Late /\ fits
              /\ Vanish(IF Held("filestore") THEN {} ELSE {"filestore"}) /\ Done("failed")
        /\ UNCHANGED custody

(* docker volume inspect times out, and _volume_exists or _volume_has_label *)
(* raises out of destroy; a proof that was there is consumed by now.        *)
ReclaimRaises(p) ==
    /\ bpc[p] \in {"reclaim", "reclaim_fs"} \/ (bpc[p] = "consume" /\ custody = NoProof)
    /\ Late
    /\ BEnd(p, FALSE)
    /\ UNCHANGED <<dockerVars, custody>>

(* custody.complete drops the entry it consumed, if it is still that one. *)
Completed(proof) ==
    IF custody = [proof EXCEPT !.state = "in_progress"] THEN NoProof ELSE custody

CompleteReclaim(p) ==
    LET gone == ToSet(bjob[p].outcome) \subseteq {"removed", "absent"}
    IN  /\ bpc[p] = "complete"
        /\ \/ /\ custody' = IF gone /\ bjob[p].left = {} THEN Completed(bjob[p].proof) ELSE custody
              /\ BEnd(p, gone)
           \/ "os" \in world /\ UNCHANGED custody /\ BEnd(p, FALSE)
        /\ UNCHANGED dockerVars

-----------------------------------------------------------------------------
(* status reports whatever is there, absence too. *)
Status(p) ==
    /\ BMayBegin(p)
    /\ \E ok \in {TRUE} \cup (IF Late \/ Fails THEN {FALSE} ELSE {}) :
          BWith(p, [NoBackendJob EXCEPT !.cmd = "status", !.ok = ok])
    /\ UNCHANGED <<dockerVars, custody, bpc>>

(* logs and exec need their container. *)
LogsExec(p) ==
    /\ BMayBegin(p)
    /\ \E cmd \in {"logs", "exec"}, role \in {"postgres", "odoo"}, ok \in BOOLEAN :
          /\ cmd = "exec" => role = "odoo"
          /\ ok => Exists(role)
          /\ ~ok => Late \/ Fails \/ ~Exists(role)
          /\ BWith(p, [NoBackendJob EXCEPT !.cmd = cmd, !.ok = ok])
    /\ UNCHANGED <<dockerVars, custody, bpc>>

BackendCrash(p) ==
    /\ bpc[p] # "idle" /\ Died
    /\ BGoto(p, "idle") /\ BWith(p, NoBackendJob)
    /\ UNCHANGED <<dockerVars, custody>>

BackendCommand(p) ==
    \/ CheckExists(p) \/ EnsureOdooImage(p) \/ EnsureNetwork(p) \/ CreateNetwork(p)
    \/ EnsureVolume(p) \/ CreateVolume(p) \/ Provision(p)
    \/ RunBootstrap(p) \/ RemoveBootstrap(p) \/ RunContainer(p) \/ WaitOdooHealthy(p)
    \/ RecordCustody(p) \/ Rollback(p)
    \/ LookAtRuntime(p) \/ (\E i \in 1..3 : RemoveRuntime(p, i))
    \/ Consume(p) \/ ReclaimDatabase(p) \/ ReclaimFilestore(p) \/ ReclaimRaises(p)
    \/ CompleteReclaim(p)

BackendStep(p) ==
    \/ BackendCommand(p) /\ UNCHANGED cli
    \/ Begun /\ (StartRemoval(p, "stop") \/ StartRemoval(p, "destroy") \/ Status(p) \/ LogsExec(p))
    \/ BackendCrash(p)

-----------------------------------------------------------------------------
(* Type invariant of the backend. *)
Runs == Procs \X (1..MaxCalls(world))

BackendTypeOK ==
    /\ docker \in [Parts -> Runs \cup {Absent, Unlabelled}]
    /\ up \subseteq {c \in Containers : Exists(c)}
    /\ custody \in [run : Runs \cup {Absent}, volume : BOOLEAN, token : Runs \cup {Absent},
                    state : {"none", "recorded", "in_progress"}]
    /\ bpc \in [Procs -> BackendPositions]
    /\ \A p \in Procs : /\ ToSet(bjob[p].created) \subseteq Parts \cup {"database"}
                        /\ bjob[p].left \subseteq Parts

(* A volume that no run of this instance labelled as its own, the data of  *)
(* an earlier lifecycle, is never removed: no rollback and no destroy      *)
(* takes it, whatever interleaves, fails or dies in between (provider.py   *)
(* 545-556, 684-690 and 465-510).                                          *)
PreexistingDataSurvives ==
    [][\A v \in Volumes : docker[v] = Unlabelled => docker'[v] = Unlabelled]_backendVars

(* A run that fails has rolled back everything it created, or says what it *)
(* left: nothing of it stays unreported.  Where a failed docker command    *)
(* has no effect (provider.py 654-699); a run that dies reports nothing.   *)
Reported(p) == \A x \in Parts : docker[x] = bjob[p].run => x \in bjob[p].left

FailedRun(p) == bpc[p] = "idle" /\ bjob[p].cmd = "run" /\ ~bjob[p].ok

RollbackComplete ==
    {"timeout"} \cap world = {} => \A p \in Procs : FailedRun(p) => Reported(p)

(* The same for every way a docker command can fail. *)
RunNeverLeaks == \A p \in Procs : FailedRun(p) => Reported(p)

(* Where nothing fails and commands do not overlap, a run that found no    *)
(* container of its instance is not rolled back: "`run` returns a          *)
(* reachable instance" (openspec/specs/local-backend/spec.md 356-359).     *)
RunReachable ==
    world \subseteq {"workspace", "backend", "adapter"} => \A p \in Procs : bpc[p] # "rollback"

(* The rollback of one run takes no volume, no database and no bootstrap   *)
(* container that another run made, when commands overlap too; Odoo and    *)
(* the network, which it takes by name, may be another's (provider.py      *)
(* 654-726).                                                               *)
RollsBack(p) == bpc[p] = "rollback" /\ bjob'[p] # bjob[p]

RollbackTakesOwn ==
    [][\A p \in Procs : RollsBack(p) =>
          \A x \in Parts \ {"odoo", "network"} : docker'[x] # docker[x] => docker[x] = bjob[p].run]_backendVars

(* When destroy reports success nothing of the instance is left, after any *)
(* history of runs, stops, timeouts and crashes.  Where commands do not    *)
(* overlap and no plain docker command fails (provider.py 356-514).        *)
Destroyed(p) == /\ bpc[p] # "idle" /\ bpc'[p] = "idle"
                /\ bjob'[p].cmd = "destroy" /\ bjob'[p].ok

DestroyHonest ==
    [][world \cap {"docker", "concurrent"} = {} =>
         \A p \in Procs : Destroyed(p) => \A x \in Parts : docker'[x] = Absent]_backendVars
=============================================================================
