# TLA+ models of odoo-forge

odoo-forge builds, provisions, deploys and retires Odoo instances: databases in
Docker, runtimes on a local Docker daemon or on a remote host over SSH, copies
of data between environments, and the records of who owns what. Its core logic
is the bookkeeping around mutations that can fail half-way: claims before
creation, receipts after it, compensation of what was created, and recovery of
what a crash left behind. These modules model that core; TLC checks them on
small instances and TLAPS proves the central ones for every instance.

Paths below are relative to `src/src/` of the repository.

## Inventory

| Component | State it keeps | Operations | What makes it correct |
|---|---|---|---|
| Ownership authority (`odoo_forge_postgres_docker/authority.py`) | one signed JSON log of container claims, a lock file, signing keys, used nonces | reserve, bind, activate, retire, retire_absent, converge, rotate_keys, issue_evidence, verify_evidence, has_record, owns | the log only grows, stays readable and moves each claim forward only; nobody takes a held name; evidence is single-use |
| PostgreSQL database provider (`odoo_forge_postgres_docker/provider.py`) | none of its own: Docker containers and volumes, the authority's claims, receipts held by callers | provision, restore, delete, cleanup, reconcile, adopt | a live container is covered by a claim; removal touches only what the receipt's operation created; a plain error leaves nothing behind |
| Durable operations (`odoo_forge/durable_operations/`, `ports/durable_operation_store.py`) | a record per operation: lifecycle, revision, checkpoint, terminal commit, residual | create_or_load, save_checkpoint, mark_reconciliation_required, commit_terminal, resolve_residual, advance_lifecycle, plan_recovery | one terminal outcome, published once, never changed; obligations stay visible |
| VPS backend (`odoo_forge_docker/vps/`) | resources on a remote host, the durable records, ownership records of callers | run, stop, destroy, status, logs, exec, exposure reconcile | a recorded success is a running runtime; an unknown outcome is surfaced; compensation stays within the operation |
| Remote deployment (`odoo_forge/remote_deployment.py`) | none: receipts given to a recorder | deploy | receipts agree with the terminal records |
| Data copy (`odoo_forge/data_artifacts/`, `odoo_forge_postgres_docker/{capture,mask_transform,restore_target,staged_store,staged_capability}.py`) | staged payloads and capabilities, scratch databases, the durable record | stage, put, resolve, discard, run, compensate | no payload disappears under a live capability; unmasked data never reaches the target; what could not be undone is recorded |
| Resource lifecycle (`odoo_forge/resource_lifecycle/`, `odoo_forge_postgres_docker/lifecycle.py`) | an append-only journal, policies | observe, run, recover, quarantine, cleanup | nothing is removed before it was quarantined and journalled, nothing that is in use or of production; a crash can be resumed |
| Control plane and registry (`odoo_forge/control_plane/`, `odoo_forge_instances_postgres/`) | rows of the instance registry, custody receipts | register, store, get, list, reconcile, migrations | a registered instance is backed by custody; a receipt is never stripped from a row; a read does not hide trouble |
| Data environments (`odoo_forge/data_environments/`) | none: environment definitions and raw-data grants are looked up | run with preflight, recovery point and restore | what is reported is what happened to the target; raw data needs a grant |
| Local Docker backend (`odoo_forge_docker/provider.py`, `ownership.py`) | Docker resources, `custody.json` | run, status, logs, exec, stop, destroy | data that was there before a run survives; a failed run takes back what it made and nothing else; destroy leaves nothing when it says so |
| Workspace and Git (`odoo_forge_workspace/`, `odoo_forge_git/`) | checkouts on disk | checkout, scan, promote, resolve_ref | a replaced checkout can be recovered; edits a command saw are kept |
| Manifest (`odoo_forge/manifest/`) | files: `project.yaml`, `project.lock` | compose, lock, drift, projection, module dependencies, unlock | a lock is what its manifest composes to; what runs is what is locked |
| CLI (`odoo_forge_cli/`) | none between commands | configure, lock, validate, project, onboard, unlock and the backend verbs | the commands drive the three above in the right order |
| HTTP server, catalogs, registry/identity/pipeline adapters, credentials | none between calls | — | wiring, parsing, single requests |

How they interact: the command line reads the manifest and the lock, brings the
checkouts to the locked commits and hands the mounts to the Docker backend, which
asks the database provider for a database; the provider calls Docker and the authority in turn and
hands receipts to its callers; the control plane turns a custody receipt into a
registry row, and the lifecycle service joins those rows with what Docker shows;
the VPS provider and the copy workflow journal their progress in the durable store with compare-and-swap revisions; the coordinator reads that
store again after the provider returns. All of them run in ordinary processes
(CLI invocations, workers) that share files, one Docker daemon and one store.

What is hard about them: several processes at once (`flock`, check-then-act on
names, revision conflicts), crashes between a mutation and its record, commands
that outlive their client, exit codes and inspections that lie, and
compensations that themselves fail. The list of hazards, each with its line and
the properties that watch it, is in `PROJECT.json`.

## Modules

| Module | Models | Used by |
|---|---|---|
| `Custody` | abstract contract of the authority: one claim per operation and name, none → reserved → bound → active → retired | `OwnershipAuthority` (refinement), `DatabaseProvider` (composition) |
| `OwnershipAuthority` | `LocalOwnershipAuthority` with its files, lock, keys, evidence and processes | `MCOwnershipAuthority` |
| `DatabaseProvider` | `DockerPostgresqlDatabaseProvider`, one action per docker command and authority call | `MCDatabaseProvider` |
| `DurableOperations` | transition rules and store contract | `VpsProvider` (composition) |
| `VpsProvider` | `VpsBackendProvider`, `RemoteDockerMechanics`, `RemoteDeploymentCoordinator` | `MCVpsProvider` |
| `StagedStore` | `FilesystemStagedArtifactStore`, `StagedArtifactCapability` | `CopyWorkflow` (composition) |
| `CopyWorkflow` | `DataArtifactCopyCoordinator` with the capture, masking and restore adapters it drives | `MCCopyWorkflow` |
| `Manifest` | `odoo_forge/manifest/`: composition, lock, projection plan, mount roots, drift, module dependencies, unlock, as operators | `Workspace` |
| `ForgeCli` | the setting of the local half: processes, commands, environments, bounds | `Workspace`, `DockerBackend` |
| `Workspace` | the manifest commands with the git adapter, on one project | `LocalForge` |
| `DockerBackend` | `DockerBackendProvider` with its custody file and the backend commands, on one instance | `LocalForge` |
| `LocalForge` | both on one machine; `forge run` hands the planned mounts over | `MCLocalForge` |
| `ServerCalls` | the setting of the server half: processes, calls, environments, bounds | `InstanceRegistry` |
| `InstanceRegistry` | `PostgresInstanceRegistry` and the in-memory registry | `ControlPlane` |
| `ControlPlane` | `ControlPlaneAuthority` on `Custody`, `DataEnvironmentService`, the reconciler and its routes | `ResourceLifecycle` |
| `ResourceLifecycle` | `LifecycleService` with the observation of containers and the JSONL journal | `Server` |
| `Server` | all of them, as `create_production_app` composes them | `MCServer` |
| `CustodyProofs`, `OwnershipAuthorityProofs`, `DurableOperationsProofs`, `DatabaseProviderProofs`, `VpsProviderProofs`, `CopyWorkflowProofs`, `LocalForgeProofs`, `ServerProofs` | theorems | |

### OwnershipAuthority

A call of process `p` goes `idle → begun → opened → locked → idle`. `Begin`
stores the arguments and, as the code does, reads `initializing = not
lock_path.exists()` before the lock is taken; `OpenLock` creates the lock file;
`Enter` gets the flock, reads the file and decides (`Proceeds`, `Admits`,
`Transitions`) what to append; `AppendRecord` is one `_append` with its atomic
replace; `Leave`, `AddKey`, `HandOut`, `Consume` finish the call; `Refuse` is an
exception or `False`; `Fail` is a crash or `OSError` anywhere. `disk` is the
content of `authority.json`, `mem[p]` the dictionary a call works on. `converge`
plans up to three appends, and can die between any two. Callers keep one rule
the provider keeps: a token is used by others only after its minting process
reserved it. Signatures and random tokens are external.

### DatabaseProvider

`pc[p]` names the next docker command or authority call of `p`'s running
`provision`, `restore`, `delete` or `cleanup`; `run[p]` its locals (operation,
name, volume, whether the volume and the container are its own, residuals).
Docker is external: each command succeeds, fails, or times out with its effect
done, not done or still to come (`late`). `receipts` are the
`CreationReceipt`s callers hold (a `RollbackIncompleteError` carries one too),
`failed` the operations that raised anything else, `removed` a ghost record of
every removal and of the creator of what was removed.

### DurableOperations and VpsProvider

`record[o]` is the durable record of operation `o`. No store is implemented in
the repository, so each method is one atomic compare-and-swap with the
semantics its docstring and `DurableOperationRecord.__post_init__` demand, and a
call may be refused or (in the environment `store`) fail with or without effect.
`VpsProvider` adds the remote host (`remote`), one step per SSH command:
`Preflight`, `Create` (one part of the plan each), two checkpoints around
`Ready`, `Commit`; `Undo`/`Rm` are `_destroy_owned`; `Fail` and `Mark` the two
`except` branches. `job[p].inner` tells a compensation inside `ensure_runtime`
from the one in `run`, because an exception leaves them differently. The ghost
`unknown` notes every mutation whose outcome SSH could not tell, removals
included, with the place it was lost in: the body of the verb's `try`, where the
exception leads to `Mark`, or the `except` clause of `run`, where it does not.
`Check`,
`Deliver` and `Settle` are the coordinator around the two verbs. The bootstrap
container of a managed image and the uploaded secret files live within one
`Create` step; `logs` and `exec` only load the record.

### StagedStore and CopyWorkflow

`blobs` are the digests with a file, `manifests` what each reference names. The
store has no lock, so `CopyWorkflow` takes `discard` in four steps
(`ReadManifest`, `Scan`, `Unlink`, `Forget`); the scan of the other manifests and
the check that a manifest resolves and its blob opens are one step each. In the
environment `unreadable` the content of a manifest may turn out not to parse:
validation and restore then fail, a scan passes that manifest over, and `discard`
goes straight from `ReadManifest` to `Forget`, as the code does, leaving the blob.
The field `unclean` is not in the code: it remembers that a discard of the copy
failed or met such a manifest, the one case in which `RawReaped` lets a dump stay
unreported.
`pc[p]` walks through `run`: `Dump`, `PutCaptured`, `StageCaptured` (capture),
`Grant` (raw delivery gate), `OpenRaw` to `StageMasked` (the mask transform with
its scratch container), `PutShadow`, `PutMasked`, `PutAgain`, `Validate`,
`RestoreComponent`, `Provision`, `Inject`, and `Compensate`. `job[p].discard.then`
is where the caller of a discard goes on. A digest `[kind, n]` is a dump of copy
`n` before or after masking; where bytes may be equal, a later copy may get the
digest of an earlier one. `outside` are temporary dumps and scratch containers,
`ended` the copies that returned or raised with their last locals. Not modelled:
a `docker run` of the scratch container that the daemon finishes after its
removal (the container is empty then), bytes that rot in place, and the
`KeyboardInterrupt` that passes `except Exception` (it ends like a crash, with
temporary files removed).

### Manifest and Workspace

A manifest is a record of edition, version, core and enterprise repositories,
layers, overrides and priority; a repository is a url and a ref. `Composes`,
`BuildLock`, `PlanProjection`, `BuildMountRoots`, `DetectDrift`, `MountView`,
`MissingDependencies` and their helpers are operators on these, each translated
from the Python function it is named after. The
content hash of a manifest is the manifest itself (the hash is taken to be
injective); the lock carries it beside its entries.

`Workspace` has `project.yaml` (`manifest`), `project.lock` (`lock`), what
upstream has now (`remote`) and the tree of checkouts (`disk`, path to checkout).
A command walks through `pc[p]` with its locals in `job[p]`: it reads the
manifest, `Resolve`s refs and `WriteLock`s; or it plans, `Survey`s the disk,
`Inspect`s each destination (dirty and linked checkouts are refused),
`StartClone`s into a temporary directory (HEAD is `Half` until the `Fetch`),
moves the old checkout to a backup (`SwapOut`), the new one in (`SwapIn`, with
the rename back when it fails) and removes the backup (`Reap`); then `Verify`,
`PlanMounts`, and for the backend commands the hand-over. `Promote` is
`forge unlock`: a linked worktree of the locked checkout. The user edits,
commits and writes manifests, and upstream moves, between any two steps; `Crash`
leaves temporary directories and half-done swaps where they are. `placed` (the
paths that ever held a checkout) and `late` (the commands that had inspected a
checkout before the user's last edit) are ghosts for the properties.

### DockerBackend and LocalForge

`docker[x]` is the run that created part `x` (three containers, two volumes, a
network), `Unlabelled` for a volume of an earlier instance, or `Absent`; `up` are
the running containers. A docker command is a step: it may fail ("docker"), or
take effect although its client sees a failure ("timeout"). `run` goes from
`CheckExists` over image, network, filestore, database, bootstrap and Odoo to
`RecordCustody`; `bjob[p].created` is the code's ledger of undo entries, and
`Rollback` takes them back one by one. `stop` and `destroy` look at the runtime,
remove each part and, for `destroy`, `Consume` the proof in `custody.json` before
`ReclaimDatabase` and `ReclaimFilestore`, which compare tokens; `CompleteReclaim`
writes what was achieved; an inspect that times out ends `destroy` there, with the
proof consumed (`ReclaimRaises`). The database provider is a port here (provision
succeeds or leaves nothing, cleanup removes what its receipt owns); in the
environment "adapter" it is the repository's own, which checks the labels it is
given. What that adapter does inside is `DatabaseProvider`.

### InstanceRegistry, ControlPlane and ResourceLifecycle

`rows[i]` is the row of instance `i` with its resource and receipt. A SQL
statement is a step that sees what was committed before it (READ COMMITTED); a
write is one step with its commit, and a failing commit may have taken effect.
`get` and `list` of the PostgreSQL registry return rows without their receipt
(`Selected`), as `_record_from_row` does. `Register` is `Existing`, `VerifyLive`,
`Converge` (the authority's `converge`, by `Custody`) and `Commit`.
`Environment` is the data environment service: definition, registry row, grant,
recovery point, mutation, verification, restore, verification of the restore;
the target's data is the original, partly overwritten, or the copy of an
operation. `ReadInstances` is the reconciler behind the HTTP routes: the rows
first, then the status of each; a row whose resource is not the network handle of
its instance is stale without a look.

A lifecycle run lists the rows, observes the containers, reads the journal and
works through the keys in order: duplicates, history, zombies, quarantine,
deletion. Every action on a resource follows a `Revalidate` of rows and
observation, and a journal entry follows the action; time ticks in between
(`Tick`), databases are used (`Use`), and a process that dies while it appends
leaves a torn line, which every later read refuses. No adapter implements
`quarantine`; it is modelled from the call, as external.

### Environments

Every module but the authority's has a variable `world`, fixed by `Init`: the
set of things the environment may do to the code (calls overlap, processes die,
commands fail, time out or lie, the store or the authority fails, somebody
meddles) and, in `ForgeCli` and `ServerCalls`, which calls are made. One run covers
several environments, and a property that only holds in some says so in its
comment and its first line. What the remaining ones do is listed under hazards
and below.

## Runs

| Run | Result | Shows |
|---|---|---|
| `authority` | pass, 154k states | two processes, two operations and two ids contending for one name, up to 4 records before a call begins (so up to 7 on the log): `LogPreserved`, `ConvergeExclusive`, refinement `ImplementsCustody` |
| `evidence` | pass, 120k states | two processes, two keys, one nonce, one container: `DiskValid`, `EvidenceOnce`, and `LockReleased` under fairness |
| `provider` | pass, 592k states | two processes, two operations, two docker ids, one name, one volume, six environments |
| `provider_volume_inspect` | violation | a failing inspection makes the provider own, and remove, a volume that was there before |
| `vps` | pass, 727k states | two callers, two run operations and one of each other verb, a plan of a volume and a container, three calls, eleven environments: `SucceededRuntime`, `CompensatesOnlyOwn`, `ReceiptsAgree`, `UnknownSurfaced`, `FailedLeavesNothing` |
| `copy` | pass, 1251k states | two copies, two processes, two sources, nine environments: `DeliversOwn`, `RawReaped`, `RetainedIsBacked`, `NothingLeftOutside` |
| `copy_same_source` | violation | overlapping copies of one source: the target of a masked copy gets an unmasked dump |
| `local` | pass, 599k states | the local commands in sixteen environments: `RollbackComplete`, `PriorRecoverable`, `EditsSeenSurvive`, `LockCoherent`, `OnboardSound`, `PreexistingDataSurvives`, `RollbackTakesOwn`, `DestroyHonest`, `RunsWhatIsLocked` |
| `run_composed` | violation | with the adapters the command line composes, every `forge run` is refused at the database and rolled back |
| `server` | pass, 907k states | registrations, data environments, reads and lifecycle runs in eighteen environments: `LineageProven`, `EnvironmentHonest`, `ReadsHonest`, `DeletesAccounted` |
| `register_retry` | violation | the retry of a committed registration is refused as a conflict |
| `store_race` | violation | a legacy `store` rewrites the row of a registration that committed between its two statements |

What the properties of `local` and `server` say: a failed run leaves nothing it does
not report; a checkout that was there is there, or in a backup, at every moment of
a swap and after a crash; edits made before a command looked are never moved away by it;
the lock on disk always is what the manifest it names locks to; onboard succeeds
only when every locked repository is in place at its commit; volumes from before the runs survive all of them; a rollback takes no data
of another run; a destroy that reports success leaves nothing; Odoo starts on
the commits the lock pins. And: no two rows share an operation, and a registered
container is in the custody of that operation; the report of a data environment
run is what happened to the target; a "fresh" read hides no instance that was
out of order all along; a container is only deleted after quarantine and its
journal entry, for the operation of that entry, when it is due and not production.

Why the bounds are enough: one name is where operations collide, and two
operations with two ids give every case of reuse (same name, other operation,
other id). Four records admit a full life of a claim plus the start of another,
and converge's three appends interrupted at each point. A plan of one volume and
one container has both kinds of identity (by name, by id) and an order to undo.
Three calls give a run, its replay, and another operation in between. Two
copies are every pair of a discard with a step of another copy.

`local`: two processes, four manifests (plain, with a fork in place of a
repository of the same name, with the enterprise edition, with an override that
does not compose), two upstream commits, four temporary names, three or four
commands, one or two changes by the user or upstream and at most one death. A
first command to make the state, a second to work on it and a third to
clean up or try again is what the hazards need; a second commit is what makes a
checkout stale; a temporary name is used once, and no three commands use more
than four. `server`: two processes, two instances, two operations, two names;
the requests are one request twice, its operation for another instance, another
operation on its name, and two that must be refused; the lifecycle runs are
dry, deleting at once, deleting after a wait, and without approval; one to three
calls and one to three changes, with a clock of three values, which is enough for
a database to become due, be quarantined and be used again. Symmetry
is over processes, ids and operations, and only in runs without liveness.

Deadlock is checked in the authority runs. It is not in the others, where
tokens, ids, calls and copies are bounded and a behaviour may end when
they are used up.

Fairness: only `LockReleased` needs it, and `FairSpec` assumes that a process
inside a call keeps running (weak fairness of its steps) until it returns or
dies. Nothing is assumed about the order in which flock is granted, so no call
is claimed to get the lock eventually.

## What is proved

`OwnershipAuthorityProofs` proves, for any finite or infinite sets of processes,
operations, names, ids, keys and nonces and any length of the log, assuming only
that `NoId` and `NoKey` are not ids or keys:

* `TypeCorrect`, `AlwaysReadable` (`DiskValid`), `EvidenceSingleUse`
  (`EvidenceOnce`), `LogNeverRewritten` (`LogPreserved`), `ConvergeNeverSteals`
  (`ConvergeExclusive`), `CustodyImplemented` (`ImplementsCustody`).

The properties are not inductive: whether an append is harmless depends on what
the holder of the lock read and planned. The inductive invariant `IInv` says
that at most one process is locked (`Mutex`), that its dictionary is still the
file, or the initial state of a missing one (`MemCurrent`), that the
records are numbered by their position and signed with kept keys
(`DiskNumbered`), that what is left to append is a chain of legal moves from the
latest claim (`PlansLegal`), that a converging process saw nobody else on the
name (`ConvergersAlone`), that a token is on the log only after it was minted and
a running reserve is the first to write it (`TokensMinted`, `ReserveFirst`), and
that an accepted nonce is marked (`NoncesCounted`). The key lemma about the log
is `LatestAppended`: an append changes the latest claim of exactly one
operation and name.

`CustodyProofs` proves of the contract that a docker id is never replaced and
that a retired claim is final; with `CustodyImplemented` both carry over to
the files. `DurableOperationsProofs` proves, for any set of operations, that a
lifecycle is terminal exactly when its commit is there
(`TerminalOnlyByCommit`, the inductive invariant), that no write takes a
lifecycle back or changes a published outcome (`NeverBack`), and that an open
obligation is only ever closed (`ObligationStaysOpen`); its core is
`StepMoves`, one case per store method.

`LocalForgeProofs` proves of the composed local half, for any set of processes
and any number of commands, failures, timeouts and deaths, assuming that
`Absent` and `Unlabelled` differ and are not identities of runs
(`LabelsAssumption`) and what is said of manifests, commits and temporary names
below:

* `PreexistingSurvives` (`PreexistingDataSurvives`): no step removes a volume
  without a run's token;
* `RollbackOnlyOwn` (`RollbackTakesOwn`): a rollback step changes no volume,
  database or bootstrap container but the ones of its own run;
* `FailedRunReported` (`RollbackComplete`): where a docker command that fails has
  no effect, a failed run reports every part of it that is still there;
* `DestroyTruthful` (`DestroyHonest`): where commands do not overlap and no plain
  docker command fails, a destroy that reports success has left nothing;
* `LockAlwaysCoherent` (`LockCoherent`): `project.lock` is absent or the whole lock
  of one manifest, in every world;
* `CheckoutsRecoverable` (`PriorRecoverable`): a checkout that was ever placed is in
  its place or in a backup beside it, in every world, however swaps overlap, fail
  and die half-way;
* `EditsSurvive` (`EditsSeenSurvive`): what a process moved away holds uncommitted
  work only when the work came, or came back, after the process had looked;
* `OdooRunsWhatIsLocked` (`RunsWhatIsLocked`): where commands do not overlap and
  nobody edits, Odoo starts with every planned mount at its locked commit, also
  after crashes, failed swaps and moves of upstream;
* `LocalTypes` (`TypeOK`).

None follows from the step alone: that a token comparison protects foreign
volumes depends on what a process put into its locals or into `custody.json` long
before. The inductive invariant `IInv` says that parts carry a run's identity,
`Unlabelled` or `Absent`; that the custody entry and the run, proof and token of
every job are identities of runs or `Absent`, never `Unlabelled`; and that every
entry of a job's ledger is of a kind that `run` writes, so that the database and
its volume are only ever taken back through a receipt. The proof has one lemma
per action, and the first two properties are read off the same case split.

`RollbackComplete` and `DestroyHonest` need more. `LInv` adds that a run answers for every part that carries
its label, at every position: the part is in the ledger, is what an entry stands for
(the database for its container and, if the receipt owns it, for pgdata), or is
already among the leftovers (`Accounts`). For that to survive the commands of
others, labels must be a process' own and of the past (`LocalsOK`, `LabelsPast`) and
a process must be in one command at a time (`OneCommand`): otherwise a workspace
command could hand a number to a later run that a part already carries. `DInv`
says, for worlds without overlaps and docker failures, that one process is in the
backend (`Sole`), that a bootstrap container has the filestore it mounts
(`BootstrapMounts`) and, per position, that what `destroy` found is what is there,
that an outcome noted as removed or absent is true of its part, and that the data
is looked at only after the runtime has gone (`Honest`). Bootstrap is the delicate
part: destroy never looks for it by name, and it is gone only because the
filestore, which docker refuses to remove while it is mounted, could be removed.

`LockCoherent` compares what `build_lock` writes with what `lock_structure_matches`
recomputes, two pieces of code that walk a manifest in their own way; `BuildMatches`
proves that they agree for every manifest that parses and composes, layer by layer,
overridden repositories included. Since a command reads the manifest, works
for several steps and writes the lock at the end, the inductive invariant `CInv`
follows it on its way: the file is a manifest of the user, the lock on disk is
coherent, the manifest that `resolve` was handed is one with a list of git layers,
and what a command is about to write is a whole lock (`HoldsWhole`). It assumes of the manifests what the schema
says of them (`ManifestsAssumption`: their fields, that repositories and overrides
are lists, and that the git layers, picked from the list of layers, are a list of
them; the prover has no facts about `SelectSeq`, so this true statement about
sequences is an assumption that TLC evaluates).

The checkouts rest on `WInv`. The swap is three renames with the process free to die
between any two, and nothing locks the tree, so the invariant says who may touch
what. Paths have shapes that keep them apart: a checkout or a worktree lies below a
mount root at a fixed depth, a clone under way lies beside it under a temporary
name, a backup one level deeper (`IsPlace`, `IsClone`, `IsBackup`; `BesidePlace`,
`BackupOfOne` and `RootedIsPlace` show that the code only builds such paths, and
that a backup belongs to one checkout). Every clone under way and every backup has
one owner. `Carries` says what a command has in its locals at each position, above
all a plan that is a list of places (`LockPlanned`, from what is known of a lock,
`IsLock`, which `BuildIsLock` shows of the lock the code builds). `SeesDisk` says
that its clone and its backup are there and that a checkout it has looked at is
dirty only when it was edited since. And `Kept`, the strengthening of
`PriorRecoverable`: of every placed checkout there is a copy that no process is
about to reap. That is what makes the reap harmless: the process that reaps has
put the new checkout in place before, and whoever moved that one away since holds
it in a backup of its own. It assumes that mkdtemp never makes up the name of a
repository (`TempNamesAssumption`) and that upstream has a commit
(`CommitsAssumption`). The lemmas about `FlattenSeq`, on which plans and locks are
built, are the one place where a fact holds by induction over data; they are proved by
the smallest counterexample (`SmallestOf`, from the well-foundedness of the
naturals), which needs no operator parameter.

The proof of `EditsSurvive` found a case the ghost `late` had left out: a failed
swap of another process can put a dirty checkout back after the look. `SwapIn`
counts that as an edit after the look, which is what it is for the process that
looked.

`RunsWhatIsLocked` is about a view of mounts that was planned before the run took
its first docker command. `VInv` says that where commands do not overlap one process
is at work in either half, and that the view it was handed still holds
(`ViewHolds`): planning made it hold (`ViewOfScan`: the scan found each mount at the
commit of its step, and a plan without duplicates has one step per identity), the
hand-over carries it from one half to the other, and no step of the backend touches
a checkout (`Carrying`). `TInv`, for the types, adds that a run has its identity from
its first step to its last, that a container that is up is there, and that a proof
in a job or in `custody.json` has the fields of one.

`DatabaseProviderProofs` proves all seven properties of the `provider` run
(`TypeCorrect`, `LiveContainersTracked`, `ClaimsBoundToOwn`, `RemovalOfOwnOnly`,
`PreexistingVolumesSurvive`, `NoVolumeLeaks`, `NoContainerLeaks`) for any sets of
processes, operations, names, volumes and ids, in every environment, assuming
only that the marks for "nobody's", "somebody else's" and "made by docker run"
differ and are no operations (`MarksAssumption`). None is inductive: whether a
removal or a binding is right was decided some docker commands earlier, in
locals, while containers, volumes and claims moved on. `IInv` has three parts.
`Proc(p)` says what each position of a call means: before `docker run` its
operation has made nothing and nobody else works for it (`Fresh`), the claim is
reserved first (`ReservedFirst`), the id it holds is its own operation's
(`IdOwn`), between `docker rm` and `retire` the container is gone
(`RetireGone`), and what a provision made is on its books until it is gone or
named as a residual (`VolumeHeld`, `ContainerHeld`). `Pairs` keeps two calls
apart (one provision per operation). `Shared` ties containers, ids, claims,
receipts and late commands together (`AllMinted`, `LateFresh` and the properties
themselves). The proof has one lemma per docker command and authority call.

`VpsProviderProofs` proves five of the six properties of the `vps` run (`TypeCorrect`,
`SuccessIsWhole`, `CompensationOfOwnOnly`, `ReceiptsNeverContradict`,
`UnknownOutcomesSurface`; not `FailedLeavesNothing`) for any callers and operations, a
plan of any length and any mix of volumes and containers. It assumes that
operations are of one verb as far as runs go, since the request digest covers
the verb, that `NoOp` and `Foreign` are none of them (`OperationsAssumption`),
and that the plan is not empty (`BoundsAssumption`). Its `IInv` says of each
position of a call what its locals are (`LocalsOK`), which records it has seen
succeed (`Checked`), that what it is about to remove is its proof's
(`TargetOwn`), that nobody has moved its revision on (`RevisionHeld`) and that
the parts it has passed are there, with nothing of its own to take back once any
run has succeeded (`RuntimeHeld`); and of the shared state that records are
well-formed (`RecordsOK`), ids are handed out in order (`IdsHandedOut`, which is
why a container recreated under an old name has another id) and an unknown
outcome in the body of a verb that is not on record has a caller about to mark it
(`UnknownHeld`, over the operations of `InBody`). The store enters through one notion, `Writes`: what a call of the
contract may do to one record.

`CopyWorkflowProofs` proves all five properties of the `copy` run
(`TypeCorrect`, `OwnDumpDelivered`, `PreMaskDumpReaped`, `RetainedBytesKept`,
`TemporariesRemoved`) for any processes, sources and number of copies, in every
environment, assuming only that `NoSource` is no source and the bound is a
number (`CopiesAssumption`). None is inductive: what is delivered was checked
three steps before, and whether a blob may go was decided by a scan that others
have written since. `IInv` says of each position of a copy what its locals are
(`LocalsOK`), what the two references of its source name as long as no other copy
of that source writes them (`RefsHeld`), where its pre-mask dump is still named
and that the discard under way takes it, knows that it failed or has met a manifest
it could not read (`RawHeld`, `Reaps`, `Passed`), which temporary files and containers it may have (`OutsideHeld`), and
that digests with its number are its own (`OwnDigests`). `UnlinkBacked` is where
the missing lock of the store matters: the scan is as good as new while copies
do not overlap (`ScanHeld`), and where they do, nobody else has the digest unless
bytes are equal. `ShadowsReaped` says that a shadow reference is there only while
its copy reaps it; without it a copy that is over could leave one that names
unlinked bytes. The other copies enter through one lemma, `OthersKeep`: a step
writes only references of its own source, only with its own dumps.

`ServerProofs` proves of the composed server half, for any processes, instances,
operations and names and in every environment, `RegistrationsProven`
(`LineageProven`), `EnvironmentReportsTrue` (`EnvironmentHonest`),
`ReadReportsTrue` (`ReadsHonest`), `DeletionsAccounted` (`DeletesAccounted`) and
`ServerTypes` (`TypeOK`).

A row is inserted several steps after its request was checked, and the custody it
relies on is kept by another store. `SInv` says that rows share no operation
(`Unique`), that the receipt of every row that names a container is backed by a claim
that was granted for that container and is active or retired (`Backed`), and that
what a registration under way is about to write is backed already, or will be by
the converge that comes first (`JobBacked`). `CustodyKept` is what it needs of the
authority: no step of anybody takes back a claim that was granted, only retires
it. The assumption (`RequestsAssumption`) is the type of a request; that its
container id is its operation is not assumed: it is what `verify_live` refuses
otherwise.

The two reports rest on `HInv`. A process is at a position of the call it serves
(`Placed`); where calls do not overlap, the target of a data environment run is as
it was before until the copy arrives, then holds the copy, and raw data gets no
further than the grant (`Faithful`); and what a read has taken for fresh was up,
unless its health changed since (`ReadJob`). `EndsServed` says that a call that ends
and reports does so in a step of its own kind, so each property is read off the
steps of one service.

`DeletionsAccounted` is about a decision that is several steps old when it is
carried out: a run lists, observes, reads the journal, chooses, revalidates,
quarantines, journals, revalidates again and only then removes, while containers
are created, used and removed, other runs do the same, and the clock ticks. Its
invariant `AInv`, next to `SInv` and `HInv`, has two parts. `Sound` is about what
outlives a run: an operation has at most one container, and every history of the
journal names a database of a class that expires, that was due by the digest it
keeps, and whose operation was given custody of it (`Recalls`). `Careful` is about a
run at each of its positions: what it observed and read is true in this sense
(`Saw`, `Past`), the resource it chose is eligible or comes from a history
(`Choice`), from the second look on it is quarantined and announced in the journal
(`Announced`), at the removal itself the digest is still that of the database or
the run is late (`Due`), and after it the custody has ended, so that the cleanup
that follows removes nothing. None of this can be taken back: `Forward` collects
what no step of anybody undoes (custody given stays given and ended stays ended, a
container does not come back to a custody that was given, the clock, the journal and
the quarantine only grow), and `CarefulKept` shows that a run that waits is still
careful after any step with `Forward`. Only the use of a database can make a digest
stale, and it marks the run (`UseCareful`). `ObservationsAssumption` is the type of
an observation.

The types of the server are proved last because they need all of it: that a history
of the journal has its type is known only because the run that wrote it had seen its
database in custody and due (`Saw`, `Choice`), and that a name a run quarantines is a
name because keys are ordered and one of them comes first (`FirstIn`). The invariant
adds what the arguments of each call are (`JobTyped`). It assumes that names are numbers, at least one of
them, and that the clock has a bound (`NamesAssumption`, `MaxTimeAssumption`).

Only model-checked: `OnboardSound` of `LocalForge`, `FailedLeavesNothing` of
`VpsProvider`, and `LockReleased` of
`OwnershipAuthority` (liveness under fairness is out of the prover's reach).
`OnboardSound` is not a theorem for every value of the constants: the scan that
verifies takes any checkout of the right identity below the mount roots for the one
it looks for, so a copy that a crash, a failing rename or an overlapping swap left
behind, two repositories of the same name, a layer that changes its category, or the
worktree of a fork of the same name can stand in for a checkout that is not in place.
The runs check it for the manifests of the instance, in the worlds its first line
names.

## Disagreements between code and text

Shown by a run of their own:

1. `_ensure_data_volume` reads every inspection failure as absence, although a
   pre-existing volume "is never removed by cleanup or rollback"
   (`provider_volume_inspect`).
2. Copies of one source share a reference that is checked and then resolved
   again, although "the DELIVERY TARGET never sees un-anonymized data"
   (`copy_same_source`).
3. The local backend gives the database provider four labels, of which that
   accepts one, so no `forge run` with the composed adapters gets past it,
   although "`run` returns a reachable instance" (`run_composed`).
4. `PostgresInstanceRegistry.get` drops the receipt, so `register` never
   recognises its own committed row, although "an exact match returns it
   unchanged" (`register_retry`).
5. `store` checks for a receipt and upserts in two statements that lock nothing,
   although "it must never rewrite (and never silently strip) an existing
   receipt" (`store_race`).

Stated in the modules and refuted by TLC when added to the configuration of
the module's passing run:

* `EvidenceOnlyForHeld`: `issue_evidence` and `verify_evidence` accept any active
  record of the history, although retire is documented to end historical
  authority.
* `ReconcileRecovers`: `reconcile` refuses operations interrupted before
  `activate`, although it is specified to recover mutations whose result was
  not returned.
* `ResidualRecorded`: the VPS provider commits failed compensations without
  residual cleanup, although the specification demands durable residual work. Where
  SSH and the host answer and calls do not overlap it holds (`FailedLeavesNothing`).
* `EveryUnknownSurfaced`: when the compensation in `run`'s `except` clause loses the
  answer to a `docker rm` (`vps/provider.py` 520-522), neither the mark nor the
  terminal commit is made and the record stays in progress, although the transport
  says "reconciliation required" and the mark is there to "durably surface an unknown
  mutation outcome".
* `RawReapReported`: `discard` takes the removal of a manifest it cannot parse for a
  completed discard (`staged_store.py` 163-164) and leaves the blob, although a raw
  blob left on disk "is recorded as a durable checkpoint" (`coordinator.py` 300-303).
* `WorktreesUsable`: replacing a checkout breaks the worktrees linked to it
  (`openspec/specs/manifest/spec.md` 505-507).
* `RunNeverLeaks`: a docker command that takes effect although its client
  failed is not in the ledger, so the rollback leaves its part unreported.
* `DependenciesResolve`: the module index looks one level below each root, and the
  checkouts lie two levels below, so onboard and validate see no module and never
  report a missing dependency.

Also seen while modelling, and left out by the conditions on the properties:

* Database provider and authority: `docker rm` by name after a check by id; a
  timed-out `docker volume create` outside the `try`; an authority directory with
  a lock file and no state file fails closed for ever.
* VPS: the exit code of remote commands is dropped and `runtime_ready` overlooks
  a missing container, so a run can be recorded as succeeded without Odoo; a lost
  answer of `commit_terminal` makes `run` destroy the runtime it just recorded;
  the compensation of one run removes a volume that an overlapping run adopted;
  the replay of an exposure that has succeeded is refused by the store, so a
  deploy that crashed before its recorder never delivers a receipt.
* Copies: two overlapping copies of equal bytes can lose a blob to the discard of
  the other, against the docstring of `discard` (the reader fails closed); a
  residual checkpoint of a copy that fails later is dropped with its result,
  although it is called durable; a copy killed after staging leaves a dump that
  the next copy of the source makes nameless; a failing put after masking leaves
  the masked blob.
* Local backend: `InvalidDatabaseRequestError` passes the error boundary of
  `commands/backend.py` 66-76; `stop` exits 0 whatever the outcomes are
  (`openspec/specs/local-backend/spec.md` 260); the rollback removes Odoo and the
  network by name, which can be those of an overlapping run.
* Workspace: edits made between the dirty check and the swap are lost; a crash
  between the two renames leaves no checkout in place (it can be recovered from
  the backup); a stray directory of a crash in which the user then commits is
  accepted by onboard.
* Server: rows come back without receipts from PostgreSQL, so a data environment
  there is always refused as an invalid definition and the lifecycle never
  deletes a registered database; registry, lifecycle and provider call the same
  resource an instance, a container and a database; authority records have no
  tenant and project, so the composed observation is empty; a delete with a wait
  never deletes, and repeating it ends in "duplicate-history" for good; a
  database used between the last look and the delete is deleted; a torn journal
  line blocks every later run; overlapping data environment runs of one target
  can undo each other.

## Not modelled

Not modelled for good: schema migrations and the wiring of the PostgreSQL driver;
authentication, the manifest context and the rendering of the HTTP pages; the
catalogs and validated value types; the file versions of the lock
(`lockfile.py`), the secret file that lives within one `docker run`
(`secret_injection.py`) and the copy command (`commands/copy.py`), which composes
the adapters and makes one call; the registry, identity and pipeline adapters
and the image, maintenance and pipeline commands (one request per call, nothing
kept); the credentials doctor; argv, env files, redaction and diagnostics; file
modes, signatures and message texts.

With TLC alone: liveness under fairness, `OnboardSound` and `FailedLeavesNothing`
(see above).
