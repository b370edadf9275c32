---------------------------- MODULE MCLocalForge ----------------------------
(* Two processes, four manifests and two upstream commits; the commands of *)
(* a world are those its features switch on.                               *)
EXTENDS LocalForge

(* Repositories: the core, the enterprise addons, an OCA repository and a  *)
(* fork of it, which is checked out under the same name.                   *)
Name(url) ==
    CASE url = "core" -> "odoo"
      [] url = "ent" -> "enterprise"
      [] url \in {"up", "fork"} -> "addons"
      [] OTHER -> "other"

Mods(url) == IF url = "up" THEN ("sale_x" :> {"account_reports"}) ELSE ("base" :> {})

OfficialRepo == [url |-> "ent", ref |-> "unset"]

Allowed == {"ent"}

Oca == [name |-> "oca", type |-> "git", category |-> "custom",
        repos |-> <<[url |-> "up", ref |-> "18"]>>]

Reports == [name |-> "reports", type |-> "published", category |-> "custom",
            needsEnterprise |-> TRUE, source |-> "index"]

Base == [edition |-> "community", version |-> "18", core |-> [url |-> "core", ref |-> "unset"],
         enterprise |-> NoRepo, layers |-> <<Oca>>, overrides |-> <<>>, priority |-> <<>>]

Override(layer, repo) == [layer |-> layer, repo |-> repo, fork |-> "fork", ref |-> "fix"]

Forked == [Base EXCEPT !.overrides = <<Override("oca", "up")>>]
Ent == [Base EXCEPT !.edition = "enterprise", !.layers = <<Oca, Reports>>]
Bad == [Base EXCEPT !.overrides = <<Override("core", "core")>>]

AllManifests == {Base, Forked, Ent, Bad}

Calls(w) == IF w \cap {"workspace", "concurrent", "docker", "timeout"} # {} THEN 3 ELSE 4

Edits(w) == IF w \cap {"concurrent", "backend"} # {} THEN 1 ELSE 2

WorkspaceWorlds == {{"workspace"} \cup w : w \in
    {{}, {"concurrent"}, {"network", "nocred"}, {"os"}, {"user"}, {"unlock", "user"}}}

BackendWorlds == {{"backend"} \cup w : w \in
    {{"foreign"}, {"docker", "foreign"}, {"timeout"}, {"crash"}, {"os"}, {"concurrent", "foreign"},
     {"nocred"}, {"adapter"}}}

BothWorlds == {{"workspace", "backend"}, {"workspace", "backend", "crash"}}

AllWorlds == WorkspaceWorlds \cup BackendWorlds \cup BothWorlds

(* The commands as they are composed, where nothing fails. *)
ComposedWorlds == {{"backend", "adapter"}}

Sym == Permutations(Procs)
=============================================================================
