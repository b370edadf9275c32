----------------------------- MODULE Workspace -----------------------------
(***************************************************************************)
(* The manifest commands of the command line (odoo_forge_cli/commands/     *)
(* manifest.py) and the git adapter they drive (odoo_forge_workspace):     *)
(* configure, lock, validate, project, onboard and unlock, on one          *)
(* project.yaml, one project.lock and one tree of checkouts.               *)
(*                                                                         *)
(* A command reads the manifest, then the lock, then works on the disk; a  *)
(* read, a git command and a rename are steps of their own, and the user,  *)
(* upstream and other commands act in between.  A clone is under way while *)
(* its temporary directory holds a checkout at commit Half, which a scan   *)
(* cannot read.                                                            *)
(***************************************************************************)
EXTENDS Manifest, ForgeCli, Functions

CONSTANTS
    Manifests,      \* what the user may write into project.yaml
    Commits,        \* upstream commits
    Local,          \* a commit the user made in a checkout
    Half,           \* HEAD of a checkout whose clone is under way
    TempNames       \* names mkdtemp hands out: bound on temporary directories

ASSUME CommitsAssumption == Commits # {} /\ Local \notin Commits /\ Half \notin Commits

ASSUME ManifestsAssumption == \A m \in Manifests : IsManifest(m)

(* No repository goes by a name that mkdtemp makes up at random. *)
ASSUME TempNamesAssumption ==
    \A m \in {x \in Manifests : Parses(x)} : \A url \in Urls(Parse(m)) : RepoName(url) \notin TempNames

VARIABLES
    manifest,       \* project.yaml
    lock,           \* project.lock
    remote,         \* upstream: source -> its commit now
    disk,           \* the checkouts: path -> tree, for the paths that hold one
    pc, job,        \* per process: position and locals of its command
    placed          \* ghost: the paths that have held a checkout

files == <<manifest, lock, remote, disk, placed>>
workspaceVars == <<files, pc, job>>

AllSources == UNION {Sources(Parse(m)) : m \in {x \in Manifests : Parses(x)}}

(* A checkout.  A linked worktree names the checkout it belongs to, which  *)
(* lists it; late (ghost) are the processes that were replacing the        *)
(* checkout when the user last edited it, or another process put it back.  *)
Clone(url, commit) ==
    [url |-> url, commit |-> commit, dirty |-> FALSE, source |-> <<>>, linked |-> {}, late |-> {}]

NoTarget == [source |-> <<>>, dest |-> <<>>]

NoJob == [cmd |-> "none", m |-> NoManifest, lock |-> NoLock, at |-> 1,
          clone |-> <<>>, backup |-> <<>>, target |-> NoTarget, view |-> {}, ok |-> FALSE]

Positions == {"idle", "create", "resolve", "write", "plan", "survey", "inspect", "clone", "fetch",
              "swap_out", "swap_in", "reap", "verify", "check", "promote", "mounts", "run"}

(* forge lock was run before: the manifest parses and composes. *)
Locks(m) == m # NoManifest /\ Parses(m) /\ Composes(Parse(m))

WorkspaceInit ==
    /\ manifest \in {NoManifest} \cup (IF "workspace" \in world THEN Manifests ELSE {})
    /\ remote \in [AllSources -> {CHOOSE c \in Commits : TRUE}]
    /\ lock \in {NoLock} \cup
          IF Locks(manifest) THEN {BuildLock(Parse(manifest), remote)} ELSE {}
    /\ disk = <<>>
    /\ pc = [p \in Procs |-> "idle"]
    /\ job = [p \in Procs |-> NoJob]
    /\ placed = {}

-----------------------------------------------------------------------------
Goto(p, l) == pc' = [pc EXCEPT ![p] = l]

With(p, j) == job' = [job EXCEPT ![p] = j]

(* The command ends; ok is its exit code. *)
End(p, ok) == Goto(p, "idle") /\ With(p, [NoJob EXCEPT !.ok = ok])

Fail(p) == End(p, FALSE)

Without(paths) == Restrict(disk, DOMAIN disk \ paths)

(* A map of trees with one more, at a path that holds none. *)
PutTree(trees, path, tree) ==
    [x \in DOMAIN trees \cup {path} |-> IF x = path THEN tree ELSE trees[x]]

Roots(p) == BuildMountRoots(job[p].m)

Plan(p) == PlanProjection(job[p].m, job[p].lock)

PlanStep(p) == Plan(p)[job[p].at]

Dest(p) == PlanStep(p).path

(* The processes that looked at a checkout and have not moved it away yet. *)
Replacing(path) == {p \in Procs : pc[p] \in {"clone", "fetch", "swap_out"} /\ Dest(p) = path}

(* The tree a linked worktree belongs to still lists it. *)
Readable(path) ==
    LET t == disk[path] IN
    /\ t.commit # Half
    /\ t.source # <<>> => t.source \in DOMAIN disk /\ path \in disk[t.source].linked

(* scan: the checkouts below the roots; ScanError when one is unreadable. *)
Below(roots) == {path \in DOMAIN disk : \E r \in roots : IsPrefix(r, path)}

ScanWorks(roots) == \A path \in Below(roots) : Readable(path)

Scan(roots) == {[path |-> path, url |-> disk[path].url, commit |-> disk[path].commit]
                : path \in Below(roots)}

(* mkdtemp in a directory: a name that is not in use there. *)
Fresh(dir) == {t \in TempNames : \A path \in DOMAIN disk : ~IsPrefix(dir \o <<t>>, path)}

MkDtemp(dir) == CHOOSE t \in Fresh(dir) : TRUE

-----------------------------------------------------------------------------
(* The commands begin: they read project.yaml and parse it.                *)
MayBegin(p) ==
    /\ "workspace" \in world
    /\ pc[p] = "idle"
    /\ "concurrent" \in world \/ \A q \in Procs \ {p} : job[q] = NoJob
    /\ Begun

Read(p, cmd, l) ==
    /\ MayBegin(p)
    /\ manifest # NoManifest /\ Parses(manifest)
    /\ Goto(p, l) /\ With(p, [NoJob EXCEPT !.cmd = cmd, !.m = Parse(manifest)])
    /\ UNCHANGED files

Configure(p) ==
    /\ MayBegin(p)
    /\ manifest = NoManifest
    /\ \E m \in {x \in Manifests : Parses(x)} :
          Goto(p, "create") /\ With(p, [NoJob EXCEPT !.cmd = "configure", !.m = m])
    /\ UNCHANGED files

(* _write_manifest_create_only links the new file; an existing one stays. *)
CreateManifest(p) ==
    /\ pc[p] = "create"
    /\ manifest' = IF manifest = NoManifest THEN job[p].m ELSE manifest
    /\ End(p, manifest = NoManifest)
    /\ UNCHANGED <<lock, remote, disk, placed>>

(* forge onboard for a client of the catalog, which names the manifest. *)
OnboardCatalog(p) == Read(p, "catalog", "survey")

BeginCommand(p) ==
    \/ Configure(p)
    \/ Read(p, "lock", "resolve")
    \/ Read(p, "validate", "check")
    \/ Read(p, "project", "plan")
    \/ Read(p, "onboard", "survey")
    \/ "backend" \in world /\ (OnboardCatalog(p) \/ Read(p, "run", "mounts"))

(* The hosts the enterprise credential may be sent to. *)
AllowedHost(m) == m.enterprise.url \in AllowedHosts

(* The enterprise preflight and the host check of the bound provider. *)
Credentialed(m) == m.edition = "enterprise" => "nocred" \notin world /\ AllowedHost(m)

(* git ls-remote: the commit upstream has for the ref of each source. *)
ResolveRef(m) == [source \in Sources(m) |-> remote[source]]

GitFails == "network" \in world

-----------------------------------------------------------------------------
(* forge lock.                                                             *)
Resolve(p) ==
    /\ pc[p] = "resolve"
    /\ \/ /\ Credentialed(job[p].m) /\ Composes(job[p].m)
          /\ Goto(p, "write")
          /\ With(p, [job[p] EXCEPT !.lock = BuildLock(job[p].m, ResolveRef(job[p].m))])
       \/ (GitFails \/ ~Credentialed(job[p].m) \/ ~Composes(job[p].m)) /\ Fail(p)
    /\ UNCHANGED files

(* Mutant: the hash is taken from project.yaml when the lock is written. *)
WriteLockRehashed(p) ==
    /\ pc[p] = "write"
    /\ lock' = [job[p].lock EXCEPT !.from = IF Parses(manifest) THEN Parse(manifest) ELSE @]
    /\ End(p, TRUE)
    /\ UNCHANGED <<manifest, remote, disk, placed>>

(* _write_lock_atomic: a temporary file renamed over project.lock. *)
WriteLock(p) ==
    /\ pc[p] = "write"
    /\ \/ lock' = job[p].lock /\ End(p, TRUE)
       \/ "os" \in world /\ UNCHANGED lock /\ Fail(p)
    /\ UNCHANGED <<manifest, remote, disk, placed>>
-----------------------------------------------------------------------------
(* forge project and forge onboard: the lock, the plan, the preflight.     *)
LockFits(p) == lock # NoLock /\ NoOrphan(job[p].m, lock)

PlanProject(p) ==
    /\ pc[p] = "plan"
    /\ \/ LockFits(p) /\ Goto(p, "inspect") /\ With(p, [job[p] EXCEPT !.lock = lock])
       \/ ~LockFits(p) /\ Fail(p)
    /\ UNCHANGED files

States(p) == Materialized(Scan(Roots(p)), Roots(p))

Survey(p) ==
    LET ready == Credentialed(job[p].m) /\ Composes(job[p].m) /\ LockFits(p) /\ ScanWorks(Roots(p))
        blocked(state) == DetectDrift(job[p].m, lock, state) \ {"not_materialized"} # {}
    IN  /\ pc[p] = "survey"
        /\ \/ /\ ready /\ \E state \in States(p) : ~blocked(state)
              /\ Goto(p, "inspect") /\ With(p, [job[p] EXCEPT !.lock = lock])
           \/ (~ready \/ \E state \in States(p) : blocked(state)) /\ Fail(p)
        /\ UNCHANGED files

(* project_workspace goes on with the next step of the plan, or is done. *)
NextEntry(p) ==
    IF job[p].at < Len(Plan(p))
    THEN Goto(p, "inspect") /\ With(p, [job[p] EXCEPT !.at = @ + 1, !.clone = <<>>, !.backup = <<>>])
    ELSE IF job[p].cmd = "project" THEN End(p, TRUE)
    ELSE Goto(p, "verify") /\ With(p, [job[p] EXCEPT !.clone = <<>>, !.backup = <<>>])

-----------------------------------------------------------------------------
(* GitWorkspaceProvider.checkout.                                          *)
IsLinked(path) == disk[path].source # <<>>

IsDirty(path) == disk[path].dirty

(* Mutant: the checkout is not asked whether it is dirty. *)
InspectNotDirty(p) ==
    LET present == Dest(p) \in DOMAIN disk IN
    /\ pc[p] = "inspect"
    /\ IF present /\ IsLinked(Dest(p)) THEN Fail(p)
       ELSE IF present /\ disk[Dest(p)].commit = PlanStep(p).commit THEN NextEntry(p)
       ELSE Goto(p, "clone") /\ UNCHANGED job
    /\ UNCHANGED files

Inspect(p) ==
    LET present == Dest(p) \in DOMAIN disk IN
    /\ pc[p] = "inspect"
    /\ IF present /\ IsLinked(Dest(p)) THEN Fail(p)
       ELSE IF present /\ disk[Dest(p)].commit = PlanStep(p).commit THEN NextEntry(p)
       ELSE IF present /\ IsDirty(Dest(p)) THEN Fail(p)
       ELSE Goto(p, "clone") /\ UNCHANGED job
    /\ UNCHANGED files

(* A temporary directory beside the destination, and git clone into it. *)
StartClone(p) ==
    LET dir == Front(Dest(p))
        path == dir \o <<MkDtemp(dir)>>
    IN  /\ pc[p] = "clone"
        /\ Fresh(dir) # {}
        /\ disk' = PutTree(disk, path, Clone(PlanStep(p).url, Half))
        /\ Goto(p, "fetch") /\ With(p, [job[p] EXCEPT !.clone = path])
        /\ UNCHANGED <<manifest, lock, remote, placed>>

(* The clone, with its retry, and git checkout --detach come to an end. *)
Fetch(p) ==
    /\ pc[p] = "fetch"
    /\ \/ disk' = [disk EXCEPT ![job[p].clone] = Clone(PlanStep(p).url, PlanStep(p).commit)]
          /\ Goto(p, "swap_out") /\ UNCHANGED job
       \/ GitFails /\ disk' = Without({job[p].clone}) /\ Fail(p)
    /\ UNCHANGED <<manifest, lock, remote, placed>>

(* Mutant: an existing destination is deleted. *)
SwapOutDeletes(p) ==
    /\ pc[p] = "swap_out"
    /\ disk' = Without({Dest(p)})
    /\ Goto(p, "swap_in") /\ UNCHANGED job
    /\ UNCHANGED <<manifest, lock, remote, placed>>

(* _atomic_swap: an existing destination moves into a reserved directory. *)
SwapOut(p) ==
    LET dir == Front(Dest(p))
        path == dir \o <<MkDtemp(dir), Last(Dest(p))>>
    IN  /\ pc[p] = "swap_out"
        /\ \/ /\ Dest(p) \in DOMAIN disk /\ Fresh(dir) # {}
              /\ disk' = PutTree(Without({Dest(p)}), path, disk[Dest(p)])
              /\ Goto(p, "swap_in") /\ With(p, [job[p] EXCEPT !.backup = path])
           \/ /\ Dest(p) \notin DOMAIN disk
              /\ Goto(p, "swap_in") /\ UNCHANGED <<disk, job>>
           \/ /\ "os" \in world /\ Dest(p) \in DOMAIN disk
              /\ disk' = Without({job[p].clone}) /\ Fail(p)
        /\ UNCHANGED <<manifest, lock, remote, placed>>

Occupied(p) == Dest(p) \in DOMAIN disk

(* The clone moves onto the destination; when it cannot, the backup moves  *)
(* back, and stays where it is when it cannot either.                      *)
SwapIn(p) ==
    LET clone == job[p].clone
        backup == job[p].backup
        returned == [disk[backup] EXCEPT !.late = @ \cup Replacing(Dest(p))]
    IN  /\ pc[p] = "swap_in"
        /\ \/ /\ ~Occupied(p)
              /\ disk' = PutTree(Without({clone}), Dest(p), disk[clone]) /\ placed' = placed \cup {Dest(p)}
              /\ IF backup = <<>> THEN NextEntry(p) ELSE Goto(p, "reap") /\ UNCHANGED job
           \/ /\ (Occupied(p) \/ "os" \in world)
              /\ \/ disk' = IF backup # <<>> /\ ~Occupied(p)
                            THEN PutTree(Without({clone, backup}), Dest(p), returned)
                            ELSE Without({clone})
                 \/ "os" \in world /\ disk' = Without({clone})
              /\ Fail(p) /\ UNCHANGED placed
        /\ UNCHANGED <<manifest, lock, remote>>

Reap(p) ==
    /\ pc[p] = "reap"
    /\ disk' = Without({job[p].backup})
    /\ NextEntry(p)
    /\ UNCHANGED <<manifest, lock, remote, placed>>

-----------------------------------------------------------------------------
(* The end of forge onboard, and forge validate.                           *)
DependenciesMet(p) ==
    MissingDependencies(ModuleIndex(Modules(Scan(Roots(p))), Roots(p))) = {}

(* Mutant: the workspace is not looked at again after the projection. *)
VerifyBlind(p) ==
    /\ pc[p] = "verify"
    /\ IF job[p].cmd = "catalog" THEN Goto(p, "run") /\ UNCHANGED job ELSE End(p, TRUE)
    /\ UNCHANGED files

Verify(p) ==
    LET m == job[p].m
        scanned == Scan(Roots(p))
        mounts(state) == job[p].cmd = "catalog" =>
                            MountViewValid(m, job[p].lock, scanned, state, Roots(p))
        good(state) == /\ DetectDrift(m, job[p].lock, state) = {}
                       /\ DependenciesMet(p)
                       /\ mounts(state)
    IN  /\ pc[p] = "verify"
        /\ \/ /\ ScanWorks(Roots(p)) /\ \E state \in States(p) : good(state)
              /\ IF job[p].cmd = "catalog"
                 THEN /\ Goto(p, "run")
                      /\ With(p, [job[p] EXCEPT !.view = MountView(m, job[p].lock, scanned, Roots(p))])
                 ELSE End(p, TRUE)
           \/ (~ScanWorks(Roots(p)) \/ \E state \in States(p) : ~good(state)) /\ Fail(p)
        /\ UNCHANGED files

Check(p) ==
    LET bad(state) == /\ lock # NoLock
                      /\ "not_materialized" \in DetectDrift(job[p].m, lock, state)
                            \/ ~DependenciesMet(p)
    IN  /\ pc[p] = "check"
        /\ \/ /\ Composes(job[p].m) /\ ScanWorks(Roots(p))
              /\ \E state \in States(p) : End(p, ~bad(state))
           \/ (~Composes(job[p].m) \/ ~ScanWorks(Roots(p))) /\ Fail(p)
        /\ UNCHANGED files

(* forge run plans its mounts from the checkouts as they are. *)
PlanMounts(p) ==
    LET m == job[p].m
        scanned == Scan(Roots(p))
        valid(state) == MountViewValid(m, lock, scanned, state, Roots(p))
    IN  /\ pc[p] = "mounts"
        /\ \/ /\ ScanWorks(Roots(p)) /\ LockFits(p) /\ \E state \in States(p) : valid(state)
              /\ Goto(p, "run")
              /\ With(p, [job[p] EXCEPT !.lock = lock, !.view = MountView(m, lock, scanned, Roots(p))])
           \/ /\ ~ScanWorks(Roots(p)) \/ ~LockFits(p) \/ \E state \in States(p) : ~valid(state)
              /\ Fail(p)
        /\ UNCHANGED files

-----------------------------------------------------------------------------
(* forge unlock: plan_unlock, then git worktree add -b from the source.    *)
BeginUnlock(p) ==
    /\ "unlock" \in world
    /\ MayBegin(p)
    /\ manifest # NoManifest /\ Parses(manifest)
    /\ LET m == Parse(manifest) IN
       \E layer \in LayerNames(m) \cup {"core"} : \E url \in DeclaredUrls(m, layer) :
          /\ MayUnlock(m, layer, url)
          /\ With(p, [NoJob EXCEPT !.cmd = "unlock", !.m = m, !.target = PlanUnlock(m, layer, url)])
    /\ Goto(p, "promote")
    /\ UNCHANGED files

Promote(p) ==
    LET source == job[p].target.source
        dest == job[p].target.dest
        works == /\ dest \notin DOMAIN disk /\ source \in DOMAIN disk
                 /\ dest \notin disk[source].linked
    IN  /\ pc[p] = "promote"
        /\ \/ /\ works
              /\ disk' = PutTree([disk EXCEPT ![source].linked = @ \cup {dest}], dest,
                            [Clone(disk[source].url, disk[source].commit) EXCEPT !.source = source])
              /\ placed' = placed \cup {dest} /\ End(p, TRUE)
           \/ ~works /\ UNCHANGED <<disk, placed>> /\ Fail(p)
        /\ UNCHANGED <<manifest, lock, remote>>

-----------------------------------------------------------------------------
(* The environment: a process dies, the user and upstream make changes.    *)
Crash(p) ==
    /\ pc[p] # "idle" /\ Died
    /\ Goto(p, "idle") /\ With(p, NoJob)
    /\ UNCHANGED files

EditManifest ==
    /\ \E m \in Manifests : manifest # NoManifest /\ m # manifest /\ manifest' = m
    /\ UNCHANGED <<lock, remote, disk, placed>>

Push ==
    /\ \E s \in AllSources, c \in Commits : remote[s] # c /\ remote' = [remote EXCEPT ![s] = c]
    /\ UNCHANGED <<manifest, lock, disk, placed>>

EditTree ==
    /\ "user" \in world
    /\ \E path \in placed \cap DOMAIN disk :
          /\ Readable(path)
          /\ \/ disk' = [disk EXCEPT ![path].dirty = TRUE, ![path].late = Replacing(path)]
             \/ disk' = [disk EXCEPT ![path].dirty = FALSE, ![path].commit = Local]
    /\ UNCHANGED <<manifest, lock, remote, placed>>

WorkspaceEnv ==
    /\ "workspace" \in world /\ Changed
    /\ EditManifest \/ Push \/ EditTree
    /\ UNCHANGED <<pc, job>>

Command(p) ==
    \/ CreateManifest(p) \/ Resolve(p) \/ WriteLock(p)
    \/ PlanProject(p) \/ Survey(p)
    \/ Inspect(p) \/ StartClone(p) \/ Fetch(p) \/ SwapOut(p) \/ SwapIn(p) \/ Reap(p)
    \/ Verify(p) \/ Check(p) \/ PlanMounts(p) \/ Promote(p)

WorkspaceStep(p) ==
    \/ BeginCommand(p) \/ BeginUnlock(p)
    \/ Command(p) /\ UNCHANGED cli
    \/ Crash(p)

-----------------------------------------------------------------------------
Trees == [url : {s.url : s \in AllSources}, commit : Commits \cup {Local, Half}, dirty : BOOLEAN,
          source : {<<>>} \cup placed, linked : SUBSET placed, late : SUBSET Procs]

(* Type invariant of the workspace. *)
WorkspaceTypeOK ==
    /\ CliTypeOK
    /\ manifest \in {NoManifest} \cup Manifests
    /\ remote \in [AllSources -> Commits]
    /\ \A path \in DOMAIN disk : disk[path] \in Trees
    /\ pc \in [Procs -> Positions]
    /\ \A p \in Procs : pc[p] \in {"fetch", "swap_out", "swap_in"} => job[p].clone \in DOMAIN disk

(* Where the swap keeps the checkout it replaces (provider.py 219-222). *)
Backups(path) == {Front(path) \o <<t, Last(path)>> : t \in TempNames}

(* A checkout that has been placed is on disk whole, at its path or in a   *)
(* backup beside it, whatever process dies or fails in the middle of the   *)
(* swap (provider.py 210-245: "never leaving dest absent" is not true of a *)
(* crash between the two renames, but nothing is lost).                    *)
PriorRecoverable == \A path \in placed : DOMAIN disk \cap ({path} \cup Backups(path)) # {}

(* Uncommitted work the dirty check could see is never moved out of the    *)
(* way: the checkout a process replaces is dirty only when the user edited *)
(* it, or a failed swap of another process put it back, after that process *)
(* had looked (provider.py 76-86).                                         *)
EditsSeenSurvive ==
    \A p \in Procs :
        job[p].backup \in DOMAIN disk /\ disk[job[p].backup].dirty => p \in disk[job[p].backup].late

(* project.lock always is one whole lock of the manifest whose hash it     *)
(* carries: what build_lock writes is what _validate_lock_structure        *)
(* expects of that manifest (locking.py 24-104, projection.py 435-472).    *)
LockCoherent == lock # NoLock => LockStructureMatches(lock.from, lock)

(* When onboard reports success, every locked repository is at its locked  *)
(* commit in its own place, unless another process is swapping it right    *)
(* now.  Not where the user commits to checkouts of which a crash left     *)
(* copies behind: the scan may take a copy for the checkout                *)
(* (manifest.py 340-368 and 437-465, projection.py 291-337).               *)
Succeeds(p) == pc[p] = "verify" /\ (pc'[p] = "run" \/ job'[p].ok)

Swapping(p, path) == pc[p] \in {"swap_out", "swap_in", "reap"} /\ Dest(p) = path

InUse(s) == LET worktree == <<"worktrees", s.layer, RepoName(s.url)>>
            IN  IF worktree \in DOMAIN disk THEN worktree ELSE s.path

OnboardSound ==
    [][\A p \in Procs : Succeeds(p) /\ ~({"crash", "user"} \subseteq world) =>
          \A s \in ToSet(Plan(p)) :
             \/ InUse(s) \in DOMAIN disk /\ disk[InUse(s)].commit = s.commit
             \/ \E q \in Procs : Swapping(q, s.path)
      ]_workspaceVars

(* Every module of the workspace that onboard accepts finds its            *)
(* dependencies (module_deps.py 70-145).                                   *)
DependenciesResolve ==
    [][\A p \in Procs : Succeeds(p) => MissingDependencies(Modules(Scan(Roots(p)))) = {}
      ]_workspaceVars

(* An unlocked worktree stays usable: the checkout it belongs to is still  *)
(* there when no command is under way.                                     *)
WorktreesUsable ==
    (\A p \in Procs : pc[p] = "idle") => \A path \in DOMAIN disk : disk[path].commit # Half => Readable(path)
=============================================================================
