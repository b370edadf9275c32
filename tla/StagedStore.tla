---------------------------- MODULE StagedStore ----------------------------
(***************************************************************************)
(* FilesystemStagedArtifactStore and StagedArtifactCapability              *)
(* (odoo_forge_postgres_docker/staged_store.py, staged_capability.py): a   *)
(* directory of blobs named by their digest and one of manifests named by  *)
(* their reference.  There is no lock: what a method reads in one system   *)
(* call and writes in a later one is split here into operators that its    *)
(* caller takes as separate steps.                                         *)
(*                                                                         *)
(* A digest stands for the bytes it names.  A manifest is the digest of    *)
(* its database component: the filestore component is a placeholder that   *)
(* never has a blob, and discard unlinks it with missing_ok.               *)
(***************************************************************************)
CONSTANTS Refs, Digests, NoDigest

VARIABLES
    blobs,          \* digests that have a file under blobs/
    manifests       \* manifests/: ref -> digest of the database component

TypeOK ==
    /\ blobs \subseteq Digests
    /\ manifests \in [Refs -> Digests \cup {NoDigest}]

Init ==
    /\ blobs = {}
    /\ manifests = [r \in Refs |-> NoDigest]

(* stage: bytes that are already there are not moved a second time. *)
Stage(d) ==
    /\ blobs' = blobs \cup {d}
    /\ UNCHANGED manifests

(* put: an atomic replace of whatever the reference named before. *)
Put(r, d) ==
    /\ manifests' = [manifests EXCEPT ![r] = d]
    /\ UNCHANGED blobs

Resolve(r) == manifests[r]

CanOpen(d) == d \in blobs

(* validate_for_restore: the manifest resolves and its database blob opens. *)
Ready(r) == Resolve(r) # NoDigest /\ CanOpen(Resolve(r))

(* Mutant: no other manifest counts. *)
ReferencedNowhere(r) == {}

ReferencedExcluding(r) == {manifests[q] : q \in Refs \ {r}} \ {NoDigest}

(* discard, after the scan: the blob, unless some other manifest named it, *)
(* and then the manifest, whatever it holds by now.                        *)
UnlinkBlob(d, referenced) ==
    /\ blobs' = IF d \in referenced THEN blobs ELSE blobs \ {d}
    /\ UNCHANGED manifests

UnlinkManifest(r) ==
    /\ manifests' = [manifests EXCEPT ![r] = NoDigest]
    /\ UNCHANGED blobs
=============================================================================
