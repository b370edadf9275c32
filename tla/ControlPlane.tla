---------------------------- MODULE ControlPlane ----------------------------
(***************************************************************************)
(* The control plane over the instance registry: ControlPlaneAuthority     *)
(* with the custody adapter behind it (control_plane/authority.py,         *)
(* ports/resource_custody.py, postgres_docker/authority.py), the data      *)
(* environment service (data_environments/service.py) and the read-only    *)
(* reconciler with its routes (control_plane/reconcile.py, odoo_forge_     *)
(* server).                                                                *)
(*                                                                         *)
(* The ownership authority is the abstract one, Custody, which             *)
(* OwnershipAuthority is shown to implement.  An operation creates one     *)
(* container, so the operation stands for the docker id of the container.  *)
(***************************************************************************)
EXTENDS InstanceRegistry

CONSTANTS
    Requests,       \* registrations callers submit; valid: the contract of the request holds
    NetworkOf(_)    \* the network of an instance, odoo-forge-<project>-<instance>

ASSUME RequestsAssumption ==
    Requests \subseteq [operation : Operations, pointer : Pointers, resource : Resources,
                        id : Operations \cup Names, valid : BOOLEAN]

VARIABLES
    custody,        \* the ownership authority's records
    live,           \* live[n]: the container of that name [operation, dead], or None
    data,           \* data[n]: what the database of that name holds
    grants,         \* operations with a raw-data grant that has not expired
    defined,        \* the definition of the target environment is active and fits
    health          \* health[i]: what the backend says of instance i

Authority == INSTANCE Custody WITH DockerIds <- Operations, NoId <- None

dockerVars == <<custody, live>>
environmentVars == <<data, grants, defined>>
planeVars == <<custody, live, data, grants, defined, health>>

Contents == {"base", "partial"} \cup Operations

Healths == {"up", "unready", "down", "unreadable"}

PlaneInit ==
    /\ data = [n \in Names |-> "base"]
    /\ grants = Operations
    /\ defined = TRUE
    /\ health = [i \in Pointers |-> "up"]

PlaneTypeOK ==
    /\ Authority!TypeOK
    /\ live \in [Names -> [operation : Operations, dead : BOOLEAN] \cup {None}]
    /\ data \in [Names -> Contents]
    /\ grants \subseteq Operations /\ defined \in BOOLEAN
    /\ health \in [Pointers -> Healths]

DockerFails == "docker" \in world

-----------------------------------------------------------------------------
Containers == world \cap {"register", "lifecycle"} # {}

(* External: the provider creates the container of an operation, under a   *)
(* name Docker has free, and records it; containers die and are removed    *)
(* behind the project's back.                                              *)
Provision(n, o) ==
    /\ Containers /\ Change /\ live[n] = None
    /\ \A m \in Names : custody[o][m] = Authority!Unclaimed /\ (live[m] # None => live[m].operation # o)
    /\ live' = [live EXCEPT ![n] = [operation |-> o, dead |-> FALSE]]
    /\ custody' \in {custody, [custody EXCEPT ![o][n] = Authority!Claim("active", o)]}
    /\ UNCHANGED <<rows, environmentVars, health>>

Perish(n) ==
    /\ Containers /\ Change /\ live[n] # None
    /\ live' \in {[live EXCEPT ![n] = None], [live EXCEPT ![n].dead = TRUE]} \ {live}
    /\ UNCHANGED <<custody, rows, environmentVars, health>>

-----------------------------------------------------------------------------
(* ControlPlaneAuthority.register.                                         *)
Meaning(r) == [pointer |-> r.pointer, resource |-> r.resource, id |-> r.id]

(* Mutant: the receipt names the instance instead of the container. *)
ReceiptOfInstance(r) == [operation |-> r.operation, digest |-> Meaning(r), owned |-> r.pointer]

Receipt(r) == [operation |-> r.operation, digest |-> Meaning(r), owned |-> r.id]

(* CustodyRequest.validate_contract. *)
Acceptable(r) == r.valid /\ r.resource.kind = "container"

Matches(row, r) == row.resource = r.resource /\ row.receipt = Receipt(r)

BeginRegister(p, r) ==
    /\ Begin(p, "register", "existing",
             [cmd |-> "register", pointer |-> r.pointer, request |-> r, retries |-> 1,
              row |-> [resource |-> r.resource, receipt |-> Receipt(r)]])
    /\ UNCHANGED <<rows, planeVars>>

Existing(p) ==
    /\ At(p, "existing")
    /\ LET r == job[p].request
           row == Get(r.pointer)
       IN \/ ~Acceptable(r) /\ Return(p, "invalid")
          \/ Acceptable(r) /\ SqlFails /\ Return(p, "error")
          \/ Acceptable(r) /\ row = None /\ Step(p, "verify_live")
          \/ /\ Acceptable(r) /\ row # None
             /\ Return(p, IF Matches(row, r) THEN "ok" ELSE "conflict")
    /\ UNCHANGED <<rows, planeVars>>

VerifyLive(p) ==
    /\ At(p, "verify_live")
    /\ LET r == job[p].request
           there == /\ live[r.resource.name] # None
                    /\ live[r.resource.name].operation = r.operation /\ r.id = r.operation
       IN \/ there /\ Step(p, "converge")
          \/ (~there \/ DockerFails) /\ Return(p, "unverifiable")
    /\ UNCHANGED <<rows, planeVars>>

HeldByOther(o, n) == \E q \in Operations \ {o} : custody[q][n].state \in {"reserved", "active"}

Converges(r) ==
    LET claim == custody[r.operation][r.resource.name]
    IN /\ ~HeldByOther(r.operation, r.resource.name)
       /\ claim.state # "retired" /\ claim.docker_id \in {None, r.id}

Converge(p) ==
    /\ At(p, "converge")
    /\ LET r == job[p].request IN
       \/ /\ Converges(r)
          /\ Authority!Becomes(r.operation, r.resource.name, Authority!Claim("active", r.id))
          /\ Step(p, "lookup")
       \/ ~Converges(r) /\ UNCHANGED custody /\ Return(p, "conflict")
    /\ UNCHANGED <<rows, live, environmentVars, health>>

(* A failed commit is tried once more. *)
Commit(p) ==
    /\ ~At(p, "idle") /\ job[p].cmd = "register"
    /\ Registration(p)
    /\ UNCHANGED planeVars

Register(p) == Existing(p) \/ VerifyLive(p) \/ Converge(p) \/ Commit(p)

-----------------------------------------------------------------------------
(* DataEnvironmentService.run, for the target name n of instance i.        *)
(* A target_ref (given) means that the target exists and gets a recovery   *)
(* point.                                                                  *)
BeginEnvironment(p, i, n, o, given, raw) ==
    /\ Begin(p, "environment", "definition",
             [cmd |-> "environment", pointer |-> i, target |-> n, operation |-> o, given |-> given,
              raw |-> raw, before |-> data[n], granted |-> FALSE, failure |-> None])
    /\ UNCHANGED <<rows, planeVars>>

Refuse(p, code) == Return(p, [outcome |-> "refused", code |-> code])

(* The rows of data_environment_registry and raw_data_grants. *)
ResolveDefinition == defined

Authorized(o) == o \in grants

(* The definition, the instance record and the policy.  The record must    *)
(* name the target, when one is given.                                     *)
Definition(p) ==
    /\ At(p, "definition")
    /\ LET row == Get(job[p].pointer)
           fits == row.receipt # None /\ (job[p].given => row.resource.name = job[p].target)
       IN \/ (SqlFails \/ (ResolveDefinition /\ row = None)) /\ Refuse(p, "authority_unavailable")
          \/ (ResolveDefinition => row # None /\ ~fits) /\ Refuse(p, "invalid_definition")
          \/ /\ ResolveDefinition /\ row # None /\ fits
             /\ Step(p, IF job[p].raw THEN "grant" ELSE "point")
    /\ UNCHANGED <<rows, planeVars>>

Grant(p) ==
    /\ At(p, "grant")
    /\ \/ Authorized(job[p].operation) /\ Goto(p, "point", [job[p] EXCEPT !.granted = TRUE])
       \/ (SqlFails \/ ~Authorized(job[p].operation)) /\ Refuse(p, "raw_grant_required")
    /\ UNCHANGED <<rows, planeVars>>

AcquirePoint(p) ==
    /\ At(p, "point")
    /\ \/ Goto(p, "mutate", [job[p] EXCEPT !.before = data[job[p].target]])
       \/ job[p].given /\ DockerFails /\ Refuse(p, "recovery_point_unavailable")
    /\ UNCHANGED <<rows, planeVars>>

(* coordinator.run: the copy arrives, or raises half way. *)
Mutate(p) ==
    /\ At(p, "mutate")
    /\ \/ /\ data' = [data EXCEPT ![job[p].target] = job[p].operation]
          /\ Step(p, "verify")
       \/ /\ DockerFails
          /\ data' \in {data, [data EXCEPT ![job[p].target] = "partial"]}
          /\ Goto(p, "restore", [job[p] EXCEPT !.failure = "mutation_failed"])
    /\ UNCHANGED <<rows, dockerVars, grants, defined, health>>

Ended(p, outcome, code) == Return(p, [outcome |-> outcome, code |-> code])

Verified(p) ==
    /\ At(p, "verify")
    /\ \/ Ended(p, "succeeded", None)
       \/ DockerFails /\ Goto(p, "restore", [job[p] EXCEPT !.failure = "operation_verification_failed"])
    /\ UNCHANGED <<rows, planeVars>>

(* _after_mutation_failure. *)
Restore(p) ==
    /\ At(p, "restore")
    /\ \/ ~job[p].given /\ Ended(p, "failed", job[p].failure) /\ UNCHANGED data
       \/ /\ job[p].given
          /\ data' \in {[data EXCEPT ![job[p].target] = d] :
                         d \in {job[p].before} \cup (IF DockerFails THEN {"partial"} ELSE {})}
          /\ \/ Step(p, "verify_restore")
             \/ DockerFails /\ Ended(p, "failed", "recovery_restore_failed")
    /\ UNCHANGED <<rows, dockerVars, grants, defined, health>>

(* verify_recovery_point. *)
Recovered(p) == data[job[p].target] = job[p].before

(* Mutant: a recovery that is not verified is reported as the failure it   *)
(* followed.                                                               *)
VerifyRestoreUnchecked(p) ==
    /\ At(p, "verify_restore")
    /\ Ended(p, "failed", job[p].failure)
    /\ UNCHANGED <<rows, planeVars>>

VerifyRestore(p) ==
    /\ At(p, "verify_restore")
    /\ \/ Recovered(p) /\ Ended(p, "failed", job[p].failure)
       \/ (~Recovered(p) \/ DockerFails) /\ Ended(p, "failed", "recovery_verification_failed")
    /\ UNCHANGED <<rows, planeVars>>

Environment(p) ==
    \/ Definition(p) \/ Grant(p) \/ AcquirePoint(p) \/ Mutate(p)
    \/ Verified(p) \/ Restore(p) \/ VerifyRestore(p)

(* The operators of the platform revoke grants and edit definitions. *)
Govern ==
    /\ Change /\ "environment" \in world
    /\ \/ \E o \in grants : grants' = grants \ {o} /\ UNCHANGED defined
       \/ defined' = ~defined /\ UNCHANGED grants
    /\ UNCHANGED <<rows, dockerVars, data, health>>

-----------------------------------------------------------------------------
(* Reconciler.list and Reconciler.get behind the routes: one registry      *)
(* read, then the live status of one instance after the other.  Ghost:     *)
(* steady holds the instances whose health did not change meanwhile.       *)
BeginRead(p, only) ==
    /\ Begin(p, "read", "rows", [cmd |-> "read", only |-> only, todo |-> <<>>, seen |-> <<>>,
                                  steady |-> Pointers])
    /\ UNCHANGED <<rows, planeVars>>

ReadRows(p) ==
    /\ At(p, "rows")
    /\ \/ SqlFails /\ Return(p, [status |-> 503])
       \/ LET wanted == Present \cap (IF job[p].only = None THEN Pointers ELSE {job[p].only})
          IN Goto(p, "status", [job[p] EXCEPT !.todo = [i \in wanted |-> List[i]]])
    /\ UNCHANGED <<rows, planeVars>>

(* _instance_ref accepts only the handle of the network of this instance. *)
HasHandle(i, row) == row.resource = [name |-> NetworkOf(i), kind |-> "instance"]

(* Mutant: a container that runs is taken for one that is ready. *)
StatusOutcomeRunning(h) == IF h = "down" THEN "drifted" ELSE "fresh"

StatusOutcome(h) == IF h \in {"down", "unready"} THEN "drifted" ELSE "fresh"

RowOutcome(i, row) ==
    IF ~HasHandle(i, row) \/ health[i] = "unreadable" THEN "stale_unverified" ELSE StatusOutcome(health[i])

Summary(outcomes) ==
    CASE outcomes = {} -> "empty"
      [] "stale_unverified" \in outcomes /\ outcomes # {"stale_unverified"} -> "partial_failure"
      [] "drifted" \in outcomes -> "drifted"
      [] outcomes = {"stale_unverified"} -> "stale_unverified"
      [] OTHER -> "fresh"

ReadStatus(p) ==
    /\ At(p, "status")
    /\ LET seen == job[p].seen
           todo == job[p].todo
       IN
       \/ \E i \in DOMAIN todo :
             Goto(p, "status", [job[p] EXCEPT !.todo = [k \in DOMAIN todo \ {i} |-> todo[k]],
                                              !.seen = [k \in DOMAIN seen \cup {i} |->
                                                  IF k = i THEN RowOutcome(i, todo[i]) ELSE seen[k]]])
       \/ /\ todo = <<>>
          /\ LET outcome == Summary({seen[i] : i \in DOMAIN seen})
             IN Return(p, [status |-> IF outcome = "empty" /\ job[p].only # None THEN 404 ELSE 200,
                           outcome |-> outcome, steady |-> job[p].steady, rows |-> DOMAIN seen])
    /\ UNCHANGED <<rows, planeVars>>

ReadInstances(p) == ReadRows(p) \/ ReadStatus(p)

(* External: an instance of the backend changes its state. *)
Fluctuate(i, h) ==
    /\ "read" \in world /\ changes < MaxChanges(world) /\ changes' = changes + 1
    /\ h # health[i] /\ health' = [health EXCEPT ![i] = h]
    /\ job' = [p \in Procs |-> IF ~At(p, "idle") /\ job[p].cmd = "read"
                              THEN [job[p] EXCEPT !.steady = @ \ {i}] ELSE job[p]]
    /\ UNCHANGED <<world, calls, pc, rows, dockerVars, environmentVars>>

-----------------------------------------------------------------------------
(* Whatever fails and is tried again, no two rows share an operation, and  *)
(* the operation of a registered container was given custody of exactly    *)
(* that container (authority.py 58-84, adapter.py 215-257).                *)
LineageProven ==
    \A i \in Present : rows[i].receipt # None =>
        LET receipt == rows[i].receipt
            claim == custody[receipt.operation][receipt.digest.resource.name]
        IN /\ \A k \in Present \ {i} : ~HoldsOperation(k, receipt.operation)
           /\ receipt.digest.resource.kind = "container" =>
                 claim.state \in {"active", "retired"} /\ claim.docker_id = receipt.owned

(* A retry of a registration that is committed is answered, unchanged:     *)
(* "an exact match returns it unchanged (idempotent retry, no second       *)
(* Docker transition)" (authority.py 61-64).                               *)
RetryAnswered ==
    [][\A p \in Procs :
          At(p, "existing") /\ Acceptable(job[p].request) /\ rows[job[p].pointer] = job[p].row
             => job'[p].result \in {"ok", "error"}]_<<pc, job>>

(* What a data environment run reports is what happened to the target: a   *)
(* refusal and a plain failure leave it as it was, a success leaves the    *)
(* copy of its own operation, and a target that is neither is reported as  *)
(* a failed recovery; raw data needs a grant.  For runs that do not        *)
(* overlap (service.py 78-142, 228-253).                                   *)
Ends(p) == ~At(p, "idle") /\ pc'[p] = "idle" /\ job'[p].result # None

EnvironmentHonest ==
    [][\A p \in Procs : Ends(p) /\ job[p].cmd = "environment" /\ "concurrent" \notin world
          => LET report == job'[p].result
                 now == data'[job[p].target]
             IN CASE report.outcome = "refused" -> now = job[p].before
                  [] report.outcome = "succeeded" ->
                        now = job[p].operation /\ (job[p].raw => job[p].granted)
                  [] OTHER ->
                        job[p].given /\ now # job[p].before =>
                            report.code \in {"recovery_restore_failed", "recovery_verification_failed"}]_
      <<pc, job, data>>

(* A read never hides trouble: it answers "fresh" only if no instance it   *)
(* lists was out of order for the whole request (reconcile.py 33-137,      *)
(* routes/instances.py 63-69).                                             *)
ReadsHonest ==
    [][\A p \in Procs : Ends(p) /\ job[p].cmd = "read" =>
          LET reply == job'[p].result
          IN reply.status # 503 =>
                (reply.outcome = "fresh" =>
                    \A i \in reply.rows \cap reply.steady : health[i] = "up")]_<<pc, job>>
=============================================================================
