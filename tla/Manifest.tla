------------------------------ MODULE Manifest ------------------------------
(***************************************************************************)
(* The pure core of odoo_forge/manifest: the schema of project.yaml, its   *)
(* composition, the lock built from it, the plan that places every locked  *)
(* repository on disk, and the checks that compare the three.              *)
(*                                                                         *)
(* A path is the sequence of its names below the mount base: a mount root  *)
(* (<<"community">>, <<"custom", folder>>, ...), a layer and a repository. *)
(* A hash stands for what is hashed, so compute_manifest_hash(m) is m.     *)
(***************************************************************************)
EXTENDS Naturals, Sequences, SequencesExt

CONSTANTS
    RepoName(_),    \* _repo_name: the last path segment of a URL
    Depends(_),     \* the modules of a repository: name -> its depends list, as a set
    Official,       \* the enterprise source a manifest gets by default
    AllowedHosts    \* enterprise URLs whose host may receive the credential

NoRepo == [url |-> "none", ref |-> "none"]

NoManifest == [edition |-> "none"]

NoLock == [from |-> NoManifest, git |-> <<>>, published |-> <<>>]

Rejected == [edition |-> "rejected"]

-----------------------------------------------------------------------------
(* schema.py.                                                              *)
Git(m) == SelectSeq(m.layers, LAMBDA l : l.type = "git")

Published(m) == SelectSeq(m.layers, LAMBDA l : l.type = "published")

CategoryFolder(category) == IF category = "custom" THEN "default" ELSE category

CustomRootKey(category) == <<"custom", CategoryFolder(category)>>

SystemRoots == {<<"worktrees">>, <<"community">>, <<"enterprise">>}

CustomRoots(m) == {CustomRootKey(l.category) : l \in ToSet(m.layers)}

(* Manifest.model_validate, with the enterprise source filled in. *)
Parse(m) ==
    LET enterprise == IF m.edition = "enterprise" /\ m.enterprise = NoRepo
                      THEN Official ELSE m.enterprise
    IN  IF /\ m.edition # "enterprise" => m.enterprise = NoRepo
           /\ ToSet(m.priority) \subseteq SystemRoots \cup CustomRoots(m)
           /\ IsInjective(m.priority)
        THEN [m EXCEPT !.enterprise = enterprise]
        ELSE Rejected

Parses(m) == Parse(m) # Rejected

(* The fields of a manifest.  Its git layers are a list (the prover knows  *)
(* nothing of SelectSeq), and so are their repositories and the overrides. *)
ManifestFields == {"edition", "version", "core", "enterprise", "layers", "overrides", "priority"}

IsManifest(m) ==
    /\ DOMAIN m = ManifestFields
    /\ Git(m) \in Seq(ToSet(m.layers))
    /\ \A l \in ToSet(Git(m)) : l.repos \in Seq(ToSet(l.repos))
    /\ m.overrides \in Seq(ToSet(m.overrides))

-----------------------------------------------------------------------------
(* composition.py.                                                         *)
LayerNames(m) == {l.name : l \in ToSet(m.layers)}

(* The last declaration of a name wins, as in a dictionary. *)
LayerNamed(m, name) == m.layers[SelectLastInSeq(m.layers, LAMBDA l : l.name = name)]

OverridesApply(m) ==
    /\ \A i, j \in DOMAIN m.overrides :
          i # j => <<m.overrides[i].layer, m.overrides[i].repo>> #
                   <<m.overrides[j].layer, m.overrides[j].repo>>
    /\ \A o \in ToSet(m.overrides) :
          /\ o.layer # "core" /\ o.layer \in LayerNames(m)
          /\ LayerNamed(m, o.layer).type = "git"
          /\ \E r \in ToSet(LayerNamed(m, o.layer).repos) : r.url = o.repo

(* compose raises no CompositionError; the chain it returns is not used. *)
Composes(m) ==
    /\ "core" \notin LayerNames(m)
    /\ m.edition # "enterprise" =>
          \A l \in ToSet(m.layers) : l.type = "published" => ~l.needsEnterprise
    /\ OverridesApply(m)

-----------------------------------------------------------------------------
(* locking.py.                                                             *)
OverridesOf(m, layer, url) ==
    {i \in DOMAIN m.overrides : m.overrides[i].layer = layer /\ m.overrides[i].repo = url}

(* The last override of a repository counts, as in a dictionary. *)
ResolveRepo(m, layer, repo) ==
    LET found == OverridesOf(m, layer, repo.url)
        o == m.overrides[Max(found)]
    IN  IF found = {} THEN repo ELSE [url |-> o.fork, ref |-> o.ref]

(* resolve_default_ref: an unset ref of a singleton is the Odoo version. *)
Defaulted(m, repo) == IF repo.ref = "unset" THEN [repo EXCEPT !.ref = m.version] ELSE repo

(* The singleton layers of a manifest, by the names the lock gives them. *)
Singletons(m) ==
    <<[name |-> "core", repo |-> Defaulted(m, m.core)]>> \o
    IF m.enterprise = NoRepo THEN <<>>
    ELSE <<[name |-> "enterprise", repo |-> Defaulted(m, m.enterprise)]>>

(* The sources build_lock resolves, layer by layer; head[repo] is the      *)
(* commit the remote has for its ref at that moment.                       *)
BuildLock(m, head) ==
    LET Pin(repo) == [url |-> repo.url, ref |-> repo.ref, commit |-> head[repo]]
        Layer(name, repos) == [name |-> name, repos |-> [i \in DOMAIN repos |-> Pin(repos[i])]]
        ResolveGitLayer(l) ==
            Layer(l.name, [i \in DOMAIN l.repos |-> ResolveRepo(m, l.name, l.repos[i])])
        alone == Singletons(m)
        git == Git(m)
        published == Published(m)
    IN  [from |-> m,
         git |-> [i \in DOMAIN alone |-> Layer(alone[i].name, <<alone[i].repo>>)]
                 \o [i \in DOMAIN git |-> ResolveGitLayer(git[i])],
         published |-> [i \in DOMAIN published |->
                          [name |-> published[i].name, source |-> published[i].source]]]

(* Every source some lock of m may name. *)
Sources(m) ==
    {x.repo : x \in ToSet(Singletons(m))} \cup
    UNION {{ResolveRepo(m, l.name, r) : r \in ToSet(l.repos)} : l \in ToSet(Git(m))}

-----------------------------------------------------------------------------
(* projection.py: where every locked repository goes.                      *)
BuildMountRoots(m) == SystemRoots \cup CustomRoots(m)

(* The layer a locked name stands for: a user layer called "enterprise"    *)
(* hides the singleton of that name.                                       *)
Known(m, name) ==
    name \in LayerNames(m) \cup {x.name : x \in ToSet(Singletons(m))}

ClassifyRoot(m, name) ==
    IF name \in LayerNames(m) THEN CustomRootKey(LayerNamed(m, name).category)
    ELSE IF name = "core" THEN <<"community">> ELSE <<"enterprise">>

NoOrphan(m, lock) == \A l \in ToSet(lock.git) : Known(m, l.name)

PlanEntry(m, layer, repo) ==
    [root |-> ClassifyRoot(m, layer), layer |-> layer, url |-> repo.url, commit |-> repo.commit,
     path |-> ClassifyRoot(m, layer) \o <<layer, RepoName(repo.url)>>]

(* The steps of plan_projection, defined when NoOrphan(m, lock). *)
PlanProjection(m, lock) ==
    FlattenSeq([i \in DOMAIN lock.git |->
        [j \in DOMAIN lock.git[i].repos |-> PlanEntry(m, lock.git[i].name, lock.git[i].repos[j])]])

DeclaredUrls(m, name) ==
    IF name \in LayerNames(m)
    THEN UNION {{r.url : r \in ToSet(l.repos)} : l \in {LayerNamed(m, name)} \cap ToSet(Git(m))}
    ELSE IF name = "core" THEN {m.core.url} ELSE {m.enterprise.url}

(* The repositories a lock of m or an unlock may name. *)
Urls(m) ==
    {s.url : s \in Sources(m)} \cup {o.fork : o \in ToSet(m.overrides)} \cup
    UNION {DeclaredUrls(m, name) : name \in LayerNames(m) \cup {"core", "enterprise"}}

MayUnlock(m, layer, url) == Known(m, layer) /\ url \in DeclaredUrls(m, layer)

(* The first override of the repository gives its name, as in next(...). *)
PlanUnlock(m, layer, url) ==
    LET found == OverridesOf(m, layer, url)
        name == RepoName(IF found = {} THEN url ELSE m.overrides[Min(found)].fork)
    IN  [source |-> ClassifyRoot(m, layer) \o <<layer, name>>,
         dest |-> <<"worktrees", layer, name>>]

-----------------------------------------------------------------------------
(* What a scan says: a set of [path, url, commit].                         *)
Under(path, roots) == {r \in roots : IsPrefix(r, path) /\ Len(path) >= Len(r) + 2}

LayerOf(path, roots) == path[Len(CHOOSE r \in Under(path, roots) : TRUE) + 1]

Matched(scanned, roots) == \A s \in scanned : Under(s.path, roots) # {}

IsWorktree(s) == Head(s.path) = "worktrees"

Identity(s, roots) == <<LayerOf(s.path, roots), s.url>>

(* materialize_state: a worktree wins over a read-only checkout, and of    *)
(* several of one kind the one the scan met last, which may be any.        *)
Materialized(scanned, roots) ==
    LET ids == {Identity(s, roots) : s \in scanned}
        of(id) == {s \in scanned : Identity(s, roots) = id}
        worktrees(id) == {s \in of(id) : IsWorktree(s)}
        winners(id) == IF worktrees(id) # {} THEN worktrees(id) ELSE of(id)
    IN  {f \in [ids -> {s.commit : s \in scanned}] :
            \A id \in ids : \E s \in winners(id) : f[id] = s.commit}

(* drift.py: the kinds of entries detect_drift reports. *)
ManifestLockDrift(m, lock) ==
    IF lock = NoLock THEN {"missing_lock"}
    ELSE IF lock.from # m THEN {"manifest_lock_hash"} ELSE {}

LockedRepos(lock) ==
    UNION {{<<l.name, r.url, r.commit>> : r \in ToSet(l.repos)} : l \in ToSet(lock.git)}

LockStateDrift(lock, state) ==
    UNION {IF <<k[1], k[2]>> \notin DOMAIN state THEN {"not_materialized"}
           ELSE IF state[<<k[1], k[2]>>] # k[3] THEN {"commit_mismatch"} ELSE {}
           : k \in LockedRepos(lock)}

DetectDrift(m, lock, state) == ManifestLockDrift(m, lock) \cup LockStateDrift(lock, state)

-----------------------------------------------------------------------------
(* build_mount_planning_view.                                              *)
(* The layers _validate_lock_structure derives from the manifest itself. *)
ExpectedGit(m) ==
    LET Source(layer, r) ==
            IF \E o \in ToSet(m.overrides) : <<o.layer, o.repo>> = <<layer, r.url>>
            THEN LET o == m.overrides[Max(OverridesOf(m, layer, r.url))] IN <<o.fork, o.ref>>
            ELSE <<r.url, r.ref>>
    IN  [i \in DOMAIN Singletons(m) |->
            LET x == Singletons(m)[i] IN <<x.name, <<<<x.repo.url, x.repo.ref>>>>>>]
        \o [i \in DOMAIN Git(m) |->
            LET l == Git(m)[i]
            IN  <<l.name, [j \in DOMAIN l.repos |-> Source(l.name, l.repos[j])]>>]

LockStructureMatches(m, lock) ==
    LET published == Published(m) IN
    /\ Composes(m)
    /\ ExpectedGit(m) = [i \in DOMAIN lock.git |->
          <<lock.git[i].name, [j \in DOMAIN lock.git[i].repos |->
                                 <<lock.git[i].repos[j].url, lock.git[i].repos[j].ref>>]>>]
    /\ lock.published = [i \in DOMAIN published |->
          [name |-> published[i].name, source |-> published[i].source]]

Expected(plan) == {<<s.layer, s.url>> : s \in ToSet(plan)}

StepFor(plan, id) == plan[SelectLastInSeq(plan, LAMBDA s : <<s.layer, s.url>> = id)]

(* Every scanned checkout is where the plan puts its layer and URL, once. *)
Coherent(plan, scanned, roots) ==
    \A s \in scanned :
        LET id == Identity(s, roots) IN
        /\ id \in Expected(plan)
        /\ s.path = (IF IsWorktree(s) THEN <<"worktrees", id[1], RepoName(s.url)>>
                     ELSE StepFor(plan, id).path)

Evidence(scanned, roots, id) ==
    LET of == {s \in scanned : Identity(s, roots) = id}
        worktrees == {s \in of : IsWorktree(s)}
    IN  IF worktrees # {} THEN worktrees ELSE of

(* Mutant: the commits of the checkouts are not compared with the lock. *)
MountViewUnchecked(m, lock, scanned, state, roots) ==
    LET plan == PlanProjection(m, lock) IN
    /\ lock # NoLock /\ ManifestLockDrift(m, lock) = {} /\ LockStructureMatches(m, lock)
    /\ Matched(scanned, roots) /\ Coherent(plan, scanned, roots)
    /\ DOMAIN state = Expected(plan)

MountViewValid(m, lock, scanned, state, roots) ==
    LET plan == PlanProjection(m, lock) IN
    /\ lock # NoLock /\ ManifestLockDrift(m, lock) = {} /\ LockStructureMatches(m, lock)
    /\ \A i, j \in DOMAIN plan : i # j =>
          /\ <<plan[i].layer, plan[i].url>> # <<plan[j].layer, plan[j].url>>
          /\ plan[i].path # plan[j].path
    /\ Matched(scanned, roots) /\ Coherent(plan, scanned, roots)
    /\ \A s \in ToSet(plan) : \E e \in Evidence(scanned, roots, <<s.layer, s.url>>) :
          e.commit = s.commit
    /\ DOMAIN state = Expected(plan)
    /\ \A s \in ToSet(plan) : state[<<s.layer, s.url>>] = s.commit

MountView(m, lock, scanned, roots) ==
    {LET e == CHOOSE x \in Evidence(scanned, roots, <<s.layer, s.url>>) : TRUE
     IN  [source |-> e.path, target |-> s.path, commit |-> s.commit, readOnly |-> ~IsWorktree(e)]
     : s \in ToSet(PlanProjection(m, lock))}

-----------------------------------------------------------------------------
(* module_deps.py: modules of the checkouts, [path, depends].              *)
Modules(scanned) ==
    UNION {{[path |-> s.path \o <<n>>, depends |-> Depends(s.url)[n]] : n \in DOMAIN Depends(s.url)}
           : s \in scanned}

(* build_module_index looks one level below every root of the addons path. *)
ModuleIndex(modules, roots) ==
    {x \in modules : \E r \in roots : IsPrefix(r, x.path) /\ Len(x.path) = Len(r) + 1}

MissingDependencies(index) ==
    UNION {x.depends : x \in index} \ {Last(x.path) : x \in index}

=============================================================================
