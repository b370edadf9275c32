-------------------------- MODULE DatabaseProvider --------------------------
(***************************************************************************)
(* DockerPostgresqlDatabaseProvider (odoo_forge_postgres_docker/provider.py) *)
(* run by several processes of one host against one Docker daemon and one  *)
(* ownership authority (Custody, which OwnershipAuthority implements).     *)
(*                                                                         *)
(* Every docker command is one step, so other processes, the operator and  *)
(* crashes come between any two of them.  Docker is external: a command    *)
(* succeeds, fails (perhaps with its effect, as docker run does when the   *)
(* container is created but does not start), or times out in the client    *)
(* with its effect done, not done, or still to come.  Names of containers  *)
(* and volumes are disjoint.                                               *)
(***************************************************************************)
EXTENDS Naturals, FiniteSets

CONSTANTS
    Procs, Operations, Names, DockerIds, NoId,
    Volumes, NoVolume,      \* data volumes a DatabaseSpec may name
    Foreign,                \* creator of the volumes that were there before
    Stray,                  \* creator of the volumes docker run makes on the fly
    Worlds                  \* the environments a behaviour may run in

(* What an environment may do to the provider. *)
Features == {"concurrent",  \* calls overlap
             "volumes",     \* specs name data volumes
             "fail",        \* docker commands fail
             "timeout",     \* docker commands outlive their client
             "inspect",     \* docker inspections fail on resources that exist
             "authority",   \* the ownership authority is unavailable
             "crash",       \* processes die
             "operator"}    \* somebody removes containers by hand

ASSUME WorldsAssumption == Worlds \subseteq SUBSET Features

(* The marks for "none" and for creators without a label of ours are no    *)
(* identities.                                                             *)
ASSUME MarksAssumption ==
    /\ NoId \notin Operations \cup DockerIds \cup {Foreign, Stray}
    /\ Foreign \notin Operations /\ Stray \notin Operations \cup {Foreign}
    /\ NoVolume \notin Volumes

VARIABLES
    world,          \* the features of this behaviour's environment, fixed by Init
    custody,        \* the authority's claims (Custody)
    containers,     \* Docker: name -> container or NoContainer
    volumes,        \* Docker: volume -> creator label, Foreign, Stray, or NoId when absent
    creator,        \* ghost: docker id -> who created it, NoId while unused
    late,           \* docker run commands the daemon will still execute
    pc, run,        \* per process: position and locals of its provider call
    minted,         \* operation tokens in use
    receipts,       \* CreationReceipts callers hold
    failed,         \* operations whose call raised a plain error
    removed         \* ghost: <<kind, remover's operation, creator>> of removed resources

vars == <<world, custody, containers, volumes, creator, late, pc, run, minted, receipts, failed,
          removed>>

Authority == INSTANCE Custody

Creators == Operations \cup {Foreign, Stray}

NoContainer == [id |-> NoId, op |-> NoId, volume |-> NoVolume]

Containers == [id : DockerIds, op : Operations, volume : Volumes \cup {NoVolume}]

Kinds == {"provision", "restore", "delete", "cleanup"}

NoRun == [kind |-> "none", op |-> NoId, name |-> NoId, volume |-> NoVolume, owned |-> FALSE,
          created |-> FALSE, raised |-> FALSE, id |-> NoId, residual |-> {}]

Runs == [kind : Kinds, op : Operations, name : Names, volume : Volumes \cup {NoVolume},
         owned : BOOLEAN, created : BOOLEAN, raised : BOOLEAN, id : DockerIds \cup {NoId},
         residual : SUBSET (Names \cup Volumes)]

Receipts == [op : Operations, name : Names, volume : Volumes \cup {NoVolume}]

Positions == {"idle", "volume", "volcreate", "reserve", "run", "inspect", "bind", "activate",
              "ready", "inject", "inspectrm", "rm", "retire", "volinspect", "volrm", "end"}

Init ==
    /\ world \in Worlds
    /\ Authority!Init
    /\ containers = [n \in Names |-> NoContainer]
    /\ volumes \in [Volumes -> {Foreign, NoId}]
    /\ creator = [d \in DockerIds |-> NoId]
    /\ late = {}
    /\ pc = [p \in Procs |-> "idle"]
    /\ run = [p \in Procs |-> NoRun]
    /\ minted = {} /\ receipts = {} /\ failed = {} /\ removed = {}

-----------------------------------------------------------------------------
(* Docker.                                                                 *)
Present(n) == containers[n] # NoContainer

Mounted(v) == \E n \in Names : Present(n) /\ containers[n].volume = v

Unused == {d \in DockerIds : creator[d] = NoId}

(* docker run: a free name gets a container with a fresh id; a volume that  *)
(* is not there is made on the fly, without our labels.                     *)
DockerRun(o, n, v) ==
    /\ ~Present(n)
    /\ \E d \in Unused :
          /\ containers' = [containers EXCEPT ![n] = [id |-> d, op |-> o, volume |-> v]]
          /\ creator' = [creator EXCEPT ![d] = o]
    /\ volumes' = IF v # NoVolume /\ volumes[v] = NoId
                  THEN [volumes EXCEPT ![v] = Stray] ELSE volumes

DockerRm(o, n) ==
    /\ Present(n)
    /\ containers' = [containers EXCEPT ![n] = NoContainer]
    /\ removed' = removed \cup {<<"container", o, containers[n].op>>}

(* docker volume create is a no-op on an existing volume. *)
VolumeCreated(o, v) ==
    volumes' = [volumes EXCEPT ![v] = IF @ = NoId THEN o ELSE @]

VolumeRemoved(o, v) ==
    /\ volumes[v] # NoId /\ ~Mounted(v)
    /\ volumes' = [volumes EXCEPT ![v] = NoId]
    /\ removed' = removed \cup {<<"volume", o, volumes[v]>>}

docker == <<containers, volumes, creator, late, removed>>
callers == <<minted, receipts, failed>>

Goto(p, l) == pc' = [pc EXCEPT ![p] = l]

With(p, r) == run' = [run EXCEPT ![p] = r]

-----------------------------------------------------------------------------
(* A call ends: it returns, raises, or raises RollbackIncompleteError,      *)
(* which carries the receipt; cleanup reports its residuals.                *)
Finish(p) == Goto(p, "idle") /\ With(p, NoRun)

ReceiptOf(r) == [op |-> r.op, name |-> r.name,
                 volume |-> IF r.owned THEN r.volume ELSE NoVolume]

Return(p) ==
    /\ receipts' = receipts \cup {ReceiptOf(run[p])}
    /\ Finish(p)
    /\ UNCHANGED <<minted, failed>>

RaisePlain(p) ==
    /\ failed' = failed \cup {run[p].op}
    /\ Finish(p)
    /\ UNCHANGED <<minted, receipts>>

(* Mutant: residuals are logged and the error is raised as it came. *)
RaiseAnyway(p) == RaisePlain(p)

(* _raise_after_rollback, last step. *)
RaiseAfterRollback(p) ==
    IF run[p].residual = {} THEN RaisePlain(p) ELSE Return(p)

(* Mutant: rollback drops the volume of the spec, created or adopted. *)
UndoesAnyVolume(r) == r.volume # NoVolume /\ r.kind # "delete"

UndoesVolume(r) == r.owned /\ r.kind # "delete"

(* Mutant: only cleanup takes the volume down. *)
VolumeHalfInCleanup(r) == IF r.kind = "cleanup" /\ r.owned THEN "volinspect" ELSE "end"

(* The container half is over: the volume half, which cleanup starts with   *)
(* an inspection and a rollback does not.                                   *)
VolumeHalf(r) ==
    IF ~UndoesVolume(r) THEN "end" ELSE IF r.kind = "cleanup" THEN "volinspect" ELSE "volrm"

(* _raise_after_rollback: what was created is undone, containers first. *)
Rollback(p) == Goto(p, IF run[p].created THEN "inspectrm" ELSE VolumeHalf(run[p]))

-----------------------------------------------------------------------------
(* provision and restore.                                                  *)
MayCall(p) ==
    /\ pc[p] = "idle"
    /\ "concurrent" \in world \/ \A q \in Procs : pc[q] = "idle"

Provision(p, k, o, n, v) ==
    /\ MayCall(p) /\ o \notin minted
    /\ v # NoVolume => "volumes" \in world
    /\ minted' = minted \cup {o}
    /\ With(p, [NoRun EXCEPT !.kind = k, !.op = o, !.name = n, !.volume = v])
    /\ Goto(p, IF v = NoVolume THEN "reserve" ELSE "volume")
    /\ UNCHANGED <<custody, containers, volumes, creator, late, receipts, failed, removed>>

(* _ensure_data_volume: docker volume inspect. A failure is taken for       *)
(* absence; a timeout leaves the call before anything is rolled back.       *)
EnsureVolume(p) ==
    /\ pc[p] = "volume"
    /\ \/ /\ volumes[run[p].volume] # NoId
          /\ Goto(p, "reserve") /\ UNCHANGED <<run, callers>>
       \/ /\ volumes[run[p].volume] = NoId \/ "inspect" \in world
          /\ Goto(p, "volcreate") /\ UNCHANGED <<run, callers>>
       \/ "timeout" \in world /\ RaisePlain(p)
    /\ UNCHANGED <<custody, docker>>

CreateVolume(p) ==
    /\ pc[p] = "volcreate"
    /\ \/ /\ VolumeCreated(run[p].op, run[p].volume)
          /\ With(p, [run[p] EXCEPT !.owned = TRUE]) /\ Goto(p, "reserve")
          /\ UNCHANGED callers
       \/ "timeout" \in world /\ VolumeCreated(run[p].op, run[p].volume) /\ RaisePlain(p)
       \/ world \cap {"fail", "timeout"} # {} /\ RaisePlain(p) /\ UNCHANGED volumes
    /\ UNCHANGED <<custody, containers, creator, late, removed>>

Reserve(p) ==
    /\ pc[p] = "reserve"
    /\ \/ Authority!Reserve(run[p].op, run[p].name) /\ Goto(p, "run")
       \/ "authority" \in world /\ Rollback(p) /\ UNCHANGED custody
    /\ UNCHANGED <<docker, run, callers>>

(* docker run, and the DockerCommandTimeoutError handler around it: after a *)
(* timeout the container is looked for, bound, activated and rolled back.   *)
Run(p) ==
    /\ pc[p] = "run"
    /\ LET r == run[p] IN
       \/ /\ DockerRun(r.op, r.name, r.volume)
          /\ \/ With(p, [run[p] EXCEPT !.created = TRUE]) /\ Goto(p, "inspect")
             \/ "fail" \in world /\ Rollback(p) /\ UNCHANGED run
             \/ "timeout" \in world /\ With(p, [run[p] EXCEPT !.raised = TRUE]) /\ Goto(p, "inspect")
          /\ UNCHANGED <<late, removed>>
       \/ /\ Present(r.name) \/ Unused = {} \/ "fail" \in world
          /\ Rollback(p) /\ UNCHANGED <<docker, run>>
       \/ /\ "timeout" \in world
          /\ late' \in {late, late \cup {[op |-> r.op, name |-> r.name, volume |-> r.volume]}}
          /\ With(p, [run[p] EXCEPT !.raised = TRUE]) /\ Goto(p, "inspect")
          /\ UNCHANGED <<containers, volumes, creator, removed>>
    /\ UNCHANGED <<custody, callers>>

(* Mutant: the container is taken for ours by its name alone. *)
InspectByName(p) ==
    /\ pc[p] = "inspect" /\ Present(run[p].name)
    /\ With(p, [run[p] EXCEPT !.id = containers[run[p].name].id]) /\ Goto(p, "bind")
    /\ UNCHANGED <<custody, docker, callers>>

(* _inspect_identity and assert_live_ownership. *)
Inspect(p) ==
    /\ pc[p] = "inspect"
    /\ \/ /\ Present(run[p].name) /\ containers[run[p].name].op = run[p].op
          /\ With(p, [run[p] EXCEPT !.id = containers[run[p].name].id]) /\ Goto(p, "bind")
       \/ /\ \/ ~Present(run[p].name)
             \/ containers[run[p].name].op # run[p].op
             \/ world \cap {"fail", "timeout", "inspect"} # {}
          /\ Rollback(p) /\ UNCHANGED run
    /\ UNCHANGED <<custody, docker, callers>>

Bind(p) ==
    /\ pc[p] = "bind"
    /\ \/ Authority!Bind(run[p].op, run[p].name, run[p].id) /\ Goto(p, "activate")
       \/ "authority" \in world /\ Rollback(p) /\ UNCHANGED custody
    /\ UNCHANGED <<docker, run, callers>>

(* After a timed-out docker run the claim is activated only to be undone. *)
Activate(p) ==
    /\ pc[p] = "activate"
    /\ \/ /\ Authority!Activate(run[p].op, run[p].name, run[p].id)
          /\ IF run[p].raised
             THEN With(p, [run[p] EXCEPT !.created = TRUE]) /\ Goto(p, "inspectrm")
             ELSE UNCHANGED run /\ Goto(p, "ready")
       \/ "authority" \in world /\ Rollback(p) /\ UNCHANGED <<custody, run>>
    /\ UNCHANGED <<docker, callers>>

(* _wait_ready, with the deadline as a choice. *)
WaitReady(p) ==
    /\ pc[p] = "ready"
    /\ \/ /\ Present(run[p].name)
          /\ IF run[p].kind = "restore" THEN Goto(p, "inject") /\ UNCHANGED <<run, callers>>
                                        ELSE Return(p)
       \/ Goto(p, "inspectrm") /\ UNCHANGED <<run, callers>>
    /\ UNCHANGED <<custody, docker>>

(* restore: _restore_injector. *)
Inject(p) ==
    /\ pc[p] = "inject"
    /\ Return(p) \/ (Goto(p, "inspectrm") /\ UNCHANGED <<run, callers>>)
    /\ UNCHANGED <<custody, docker>>

-----------------------------------------------------------------------------
(* delete, cleanup, and the container half of a rollback: _remove_owned.   *)
Remove(p, k, rec) ==
    /\ MayCall(p) /\ rec \in receipts
    /\ With(p, [NoRun EXCEPT !.kind = k, !.op = rec.op, !.name = rec.name,
                             !.volume = rec.volume, !.owned = rec.volume # NoVolume])
    /\ Goto(p, "inspectrm")
    /\ UNCHANGED <<custody, docker, minted, receipts, failed>>

(* Mutant: the residual is reported by its Docker id. *)
ContainerDoneById(p, ok) ==
    /\ IF ok THEN UNCHANGED run
             ELSE With(p, [run[p] EXCEPT !.residual = @ \cup {run[p].id}])
    /\ Goto(p, VolumeHalf(run[p]))

(* The container step is over; ok says whether it left a residual. *)
ContainerDone(p, ok) ==
    /\ IF ok THEN UNCHANGED run
             ELSE With(p, [run[p] EXCEPT !.residual = @ \cup {run[p].name}])
    /\ Goto(p, VolumeHalf(run[p]))

HasRecord(o, n) == custody[o][n].state # "none"

CanRetireAbsent(o, n) == custody[o][n].state \in {"active", "retired"}

(* retire_absent: an active claim is retired, a retired one left alone. *)
RetireAbsent(o, n) ==
    IF custody[o][n].state = "active"
    THEN Authority!Retire(o, n, custody[o][n].docker_id)
    ELSE UNCHANGED custody

(* Mutant: rm trusts the name in the receipt. *)
InspectForRemovalByName(p) ==
    /\ pc[p] = "inspectrm"
    /\ Present(run[p].name)
    /\ With(p, [run[p] EXCEPT !.id = containers[run[p].name].id]) /\ Goto(p, "rm")
    /\ UNCHANGED <<custody, docker, callers>>

(* docker inspect, then owns and assert_live_ownership; or the resource is  *)
(* absent and a tracked claim is retired.                                   *)
InspectForRemoval(p) ==
    /\ pc[p] = "inspectrm"
    /\ LET o == run[p].op
           n == run[p].name
       IN
       \/ /\ Present(n)
          /\ Authority!Owns(o, n, containers[n].id) /\ containers[n].op = o
          /\ With(p, [run[p] EXCEPT !.id = containers[n].id]) /\ Goto(p, "rm")
          /\ UNCHANGED custody
       \/ /\ ~Present(n) /\ (~HasRecord(o, n) \/ CanRetireAbsent(o, n))
          /\ RetireAbsent(o, n)
          /\ ContainerDone(p, TRUE)
       \/ /\ \/ Present(n) /\ ~(Authority!Owns(o, n, containers[n].id) /\ containers[n].op = o)
             \/ ~Present(n) /\ HasRecord(o, n) /\ ~CanRetireAbsent(o, n)
             \/ world \cap {"fail", "timeout", "inspect", "authority"} # {}
          /\ ContainerDone(p, FALSE)
          /\ UNCHANGED custody
    /\ UNCHANGED <<docker, callers>>

(* Mutant: a docker rm that failed is not noticed. *)
RemoveContainerUnchecked(p) ==
    /\ pc[p] = "rm"
    /\ DockerRm(run[p].op, run[p].name) \/ UNCHANGED <<containers, removed>>
    /\ Goto(p, "retire")
    /\ UNCHANGED <<run, custody, volumes, creator, late, callers>>

(* docker rm -f <name>: by name, although the check was about run[p].id;    *)
(* Docker releases differ on whether a missing name is an error.            *)
RemoveContainer(p) ==
    /\ pc[p] = "rm"
    /\ \/ DockerRm(run[p].op, run[p].name) /\ Goto(p, "retire") /\ UNCHANGED run
       \/ "timeout" \in world /\ DockerRm(run[p].op, run[p].name) /\ ContainerDone(p, FALSE)
       \/ /\ ~Present(run[p].name)
          /\ Goto(p, "retire") /\ UNCHANGED <<run, containers, removed>>
       \/ /\ ~Present(run[p].name) \/ world \cap {"fail", "timeout"} # {}
          /\ ContainerDone(p, FALSE)
          /\ UNCHANGED <<containers, removed>>
    /\ UNCHANGED <<custody, volumes, creator, late, callers>>

(* retire; when it is refused and the name is absent, retire_absent.        *)
Retire(p) ==
    /\ pc[p] = "retire"
    /\ LET o == run[p].op
           n == run[p].name
       IN
       \/ Authority!Retire(o, n, run[p].id) /\ ContainerDone(p, TRUE)
       \/ /\ ~Authority!Expects(o, n, run[p].id, "active") \/ "authority" \in world
          /\ ~Present(n) /\ CanRetireAbsent(o, n) /\ custody[o][n].docker_id = run[p].id
          /\ RetireAbsent(o, n) /\ ContainerDone(p, TRUE)
       \/ /\ \/ /\ ~Authority!Expects(o, n, run[p].id, "active")
                /\ Present(n) \/ ~CanRetireAbsent(o, n) \/ custody[o][n].docker_id # run[p].id
             \/ "authority" \in world
          /\ ContainerDone(p, FALSE) /\ UNCHANGED custody
    /\ UNCHANGED <<docker, callers>>

Leave(p, bad) ==
    With(p, [run[p] EXCEPT !.residual = IF bad THEN @ \cup {run[p].volume} ELSE @])

(* cleanup's _remove_owned on the volume of the receipt: inspected by name, *)
(* and refused unless its labels name the receipt's operation.              *)
InspectVolume(p) ==
    /\ pc[p] = "volinspect"
    /\ LET v == run[p].volume IN
       \/ volumes[v] = run[p].op /\ Goto(p, "volrm") /\ UNCHANGED run
       \/ volumes[v] = NoId /\ Leave(p, FALSE) /\ Goto(p, "end")
       \/ /\ volumes[v] \notin {run[p].op, NoId} \/ world \cap {"fail", "timeout", "inspect"} # {}
          /\ Leave(p, TRUE) /\ Goto(p, "end")
    /\ UNCHANGED <<custody, docker, callers>>

(* docker volume rm, by name; with -f in _rollback_data_volume, so that an  *)
(* absent volume is no error there.                                         *)
RemoveVolume(p) ==
    /\ pc[p] = "volrm"
    /\ LET v == run[p].volume IN
       \/ /\ VolumeRemoved(run[p].op, v)
          /\ Leave(p, FALSE) \/ ("timeout" \in world /\ Leave(p, TRUE))
       \/ /\ volumes[v] = NoId /\ run[p].kind # "cleanup"
          /\ Leave(p, FALSE) /\ UNCHANGED <<volumes, removed>>
       \/ /\ \/ volumes[v] = NoId /\ run[p].kind = "cleanup"
             \/ Mounted(v)
             \/ world \cap {"fail", "timeout"} # {}
          /\ Leave(p, TRUE) /\ UNCHANGED <<volumes, removed>>
    /\ Goto(p, "end")
    /\ UNCHANGED <<custody, containers, creator, late, callers>>

(* What the caller of the finished operation gets. *)
End(p) ==
    /\ pc[p] = "end"
    /\ IF run[p].kind \in {"provision", "restore"}
       THEN RaiseAfterRollback(p)
       ELSE Finish(p) /\ UNCHANGED callers
    /\ UNCHANGED <<custody, docker>>

(* reconcile: the containers labelled with an operation, all proven by the  *)
(* authority, become a receipt again; volumes are not looked for.           *)
Reconcile(o, n) ==
    /\ Present(n) /\ containers[n].op = o
    /\ Authority!Owns(o, n, containers[n].id)
    /\ receipts' = receipts \cup {[op |-> o, name |-> n, volume |-> NoVolume]}
    /\ UNCHANGED <<custody, docker, pc, run, minted, failed>>

-----------------------------------------------------------------------------
(* The environment.                                                        *)
LateRun ==
    \E c \in late :
        /\ IF Present(c.name) \/ Unused = {} THEN UNCHANGED <<containers, volumes, creator>>
                                             ELSE DockerRun(c.op, c.name, c.volume)
        /\ late' = late \ {c}
        /\ UNCHANGED <<custody, pc, run, minted, receipts, failed, removed>>

Crash(p) ==
    /\ "crash" \in world /\ pc[p] # "idle"
    /\ Finish(p)
    /\ UNCHANGED <<custody, docker, callers>>

(* The operator removes a container behind the provider's back. *)
OperatorRm(n) ==
    /\ "operator" \in world /\ Present(n)
    /\ containers' = [containers EXCEPT ![n] = NoContainer]
    /\ UNCHANGED <<custody, volumes, creator, late, pc, run, callers, removed>>

Step(p) ==
    \/ EnsureVolume(p) \/ CreateVolume(p) \/ Reserve(p) \/ Run(p) \/ Inspect(p)
    \/ Bind(p) \/ Activate(p) \/ WaitReady(p) \/ Inject(p)
    \/ InspectForRemoval(p) \/ RemoveContainer(p) \/ Retire(p)
    \/ InspectVolume(p) \/ RemoveVolume(p) \/ End(p)

Call(p) ==
    \/ \E k \in {"provision", "restore"}, o \in Operations, n \in Names,
          v \in Volumes \cup {NoVolume} : Provision(p, k, o, n, v)
    \/ \E k \in {"delete", "cleanup"}, rec \in receipts : Remove(p, k, rec)

Next ==
    /\ \/ \E p \in Procs : Call(p) \/ Step(p) \/ Crash(p)
       \/ \E o \in Operations, n \in Names : Reconcile(o, n)
       \/ LateRun
       \/ \E n \in Names : OperatorRm(n)
    /\ UNCHANGED world

Spec == Init /\ [][Next]_vars

-----------------------------------------------------------------------------
(* Types of the variables. *)
TypeOK ==
    /\ world \in Worlds
    /\ Authority!TypeOK
    /\ containers \in [Names -> Containers \cup {NoContainer}]
    /\ volumes \in [Volumes -> Creators \cup {NoId}]
    /\ creator \in [DockerIds -> Operations \cup {NoId}]
    /\ late \subseteq Receipts
    /\ pc \in [Procs -> Positions]
    /\ run \in [Procs -> Runs \cup {NoRun}]
    /\ minted \subseteq Operations /\ receipts \subseteq Receipts /\ failed \subseteq Operations
    /\ removed \subseteq {"container", "volume"} \X Operations \X Creators

(* "Record intent before Docker creation can make a resource live": through *)
(* timeouts, late commands, crashes and racing cleanups, a container of     *)
(* ours that exists has a claim that is not retired.                        *)
LiveIsTracked ==
    \A n \in Names : containers[n].op \in Operations =>
        custody[containers[n].op][n].state \in {"reserved", "active"}

(* A claim is only ever bound to a container its own operation created,     *)
(* although inspection goes by name and names are reused.                   *)
BoundToOwn ==
    \A o \in Operations, n \in Names :
        custody[o][n].docker_id # NoId => creator[custody[o][n].docker_id] = o

(* cleanup, delete and rollback remove only what their receipt's operation  *)
(* created (openspec database-provider: "`cleanup` MUST compensate only     *)
(* resources owned by its receipt"), across timeouts, late starts and name  *)
(* reuse.  `docker rm` goes by name after a check by id, so the name must   *)
(* not change hands in between: no overlapping call, no operator.           *)
RemovesOnlyOwn ==
    world \cap {"concurrent", "operator"} = {} =>
        \A r \in removed : r[1] = "container" => r[2] = r[3]

(* "A pre-existing volume is never owned ... so it is never removed by      *)
(* cleanup or rollback" (_ensure_data_volume); not said of a volume that    *)
(* docker run made because it had vanished.                                 *)
PreexistingVolumeSurvives ==
    \A r \in removed : r[1] = "volume" => r[3] # Foreign

(* The same as long as docker volume inspect fails only on absent volumes.  *)
SeenVolumeSurvives ==
    "inspect" \notin world => PreexistingVolumeSurvives

(* "a failed restore never leaks a provider-created volume that a           *)
(* subsequent run would misclassify as ADOPTED" (restore): a call that      *)
(* raised anything but RollbackIncompleteError left no volume behind.  A    *)
(* docker volume create that times out escapes this: it is not in the try.  *)
FailureNeverLeaksVolume ==
    "timeout" \notin world => \A o \in failed, v \in Volumes : volumes[v] # o

(* The same for the container: a plain error means it is gone, when docker  *)
(* run itself either starts a container or leaves none.                     *)
FailureNeverLeaksContainer ==
    world \cap {"fail", "timeout"} = {} =>
        \A o \in failed, n \in Names : containers[n].op # o

(* "`reconcile` MUST recover an operation whose mutation occurred before a  *)
(* result was returned": a live container nobody is working on any more is  *)
(* one reconcile accepts.                                                   *)
ReconcileRecovers ==
    \A n \in Names : containers[n].op \in Operations =>
        \/ \E p \in Procs : run[p].op = containers[n].op
        \/ containers[n].op \in failed
        \/ \E rec \in receipts : rec.op = containers[n].op
        \/ Authority!Owns(containers[n].op, n, containers[n].id)
=============================================================================
