---------------------------- MODULE CopyWorkflow ----------------------------
(***************************************************************************)
(* DataArtifactCopyCoordinator (odoo_forge/data_artifacts/coordinator.py)  *)
(* as `copy` and the data environments wire it: capture a source with      *)
(* pg_dump, mask the dump in a scratch container, verify it and restore it *)
(* into a new database, with the staged artifact store in between.  The    *)
(* code it drives is in capture.py, mask_transform.py, restore_target.py   *)
(* and target_handoffs.py of odoo_forge_postgres_docker.                   *)
(*                                                                         *)
(* A step is one store call, one system call of discard, or one group of   *)
(* docker commands that touches nothing another process sees.  All copies  *)
(* of a source share one reference, restore-set-<source>; the pre-mask     *)
(* manifest has a second one while it is reaped.                           *)
(***************************************************************************)
EXTENDS Naturals

CONSTANTS
    Procs,          \* processes that copy
    Sources,        \* source databases
    NoSource,
    MaxCopies,      \* bound: copies started
    Worlds          \* the environments a behaviour may run in

Features == {"overlap",     \* copies of different sources run at once
             "same_source", \* copies of one source run at once
             "same_bytes",  \* two dumps may come out byte for byte the same
             "crash",       \* processes die
             "docker",      \* docker commands fail or time out
             "rm",          \* removing the scratch container fails
             "disk",        \* calls of the store fail
             "unreadable"}  \* the content of a manifest cannot be read or parsed

ASSUME WorldsAssumption == Worlds \subseteq SUBSET Features

ASSUME CopiesAssumption == NoSource \notin Sources /\ MaxCopies \in Nat

Copies == 1..MaxCopies

(* The dumps copy n makes; their digests tell them apart. *)
Digests == [kind : {"raw", "masked"}, n : Copies]

NoDigest == [kind |-> "none", n |-> 0]

(* restore-set-<source> and restore-set-<source>-preanonymize-raw. *)
Refs == Sources \X {"set", "raw"}

NoRef == <<NoSource, "none">>

VARIABLES
    world,              \* fixed by Init
    blobs, manifests,   \* the staged artifact store
    outside,            \* <<copy, thing>>: temporary files and scratch containers
    started,            \* copies started so far
    pc, job,            \* per process: position and locals of its copy
    delivered,          \* what was streamed into a target, and for which copy
    ended               \* copies that returned or raised

vars == <<world, blobs, manifests, outside, started, pc, job, delivered, ended>>

Store == INSTANCE StagedStore

store == <<blobs, manifests>>

NoDiscard == [ref |-> NoRef, blob |-> NoDigest, kept |-> {}, clean |-> TRUE, then |-> "none"]

NoJob == [n |-> 0, source |-> NoSource, rules |-> FALSE, raw |-> FALSE, granted |-> FALSE,
          retain |-> FALSE, captured |-> NoDigest, masked |-> NoDigest, component |-> NoDigest,
          discard |-> NoDiscard, ok |-> TRUE, residual |-> FALSE, unclean |-> FALSE]

Jobs == [n : Copies, source : Sources, rules : BOOLEAN, raw : BOOLEAN, granted : BOOLEAN,
         retain : BOOLEAN, captured : Digests \cup {NoDigest}, masked : Digests \cup {NoDigest},
         component : Digests \cup {NoDigest},
         discard : [ref : Refs \cup {NoRef}, blob : Digests \cup {NoDigest},
                    kept : SUBSET Digests, clean : BOOLEAN,
                    then : {"none", "raise", "validate", "compensate", "succeed"}],
         ok : BOOLEAN, residual : BOOLEAN, unclean : BOOLEAN]

Things == {"dump", "masked dump", "scratch", "loaded scratch"}

Positions == {"idle", "dump", "put", "stage", "grant", "open", "scratch", "load", "mask", "rm",
              "stage_masked", "put_shadow", "put_masked", "put_again", "validate", "restore",
              "provision", "inject", "discard", "scan", "unlink", "forget", "compensate"}

Init ==
    /\ world \in Worlds
    /\ Store!Init
    /\ outside = {} /\ started = 0
    /\ pc = [p \in Procs |-> "idle"]
    /\ job = [p \in Procs |-> NoJob]
    /\ delivered = {} /\ ended = {}

-----------------------------------------------------------------------------
books == <<started, delivered, ended>>

Goto(p, l) == pc' = [pc EXCEPT ![p] = l]

(* Mutant: one reference for all sources. *)
RefUnscoped(p) == <<CHOOSE s \in Sources : TRUE, "set">>

With(p, j) == job' = [job EXCEPT ![p] = j]

Ref(p) == <<job[p].source, "set">>

ShadowRef(p) == <<job[p].source, "raw">>

Creates(p, thing) == outside' = outside \cup {<<job[p].n, thing>>}

Removes(p, things) == outside' = outside \ {<<job[p].n, t>> : t \in things}

(* The digest of a new dump of copy n: its own, or that of equal bytes. *)
DumpOf(k, n) ==
    [kind : {k}, n : IF "same_bytes" \in world THEN 1..n ELSE {n}]

(* run returns or raises, and the process is done with it. *)
End(p, outcome) ==
    /\ Goto(p, "idle") /\ With(p, NoJob)
    /\ ended' = ended \cup {[job |-> job[p], outcome |-> outcome]}

(* An exception of a step after the capture: run goes to _compensate. *)
Raise(p) == Goto(p, "compensate") /\ UNCHANGED job

(* Start store.discard(r); `then` says where its caller goes on. *)
Discard(p, r, then) ==
    /\ Goto(p, "discard")
    /\ With(p, [job[p] EXCEPT !.discard = [NoDiscard EXCEPT !.ref = r, !.then = then]])

(* put, with the reference, the digest and where to go when it worked. *)
PutThen(p, r, d, l) ==
    \/ Store!Put(r, d) /\ Goto(p, l) /\ UNCHANGED job
    \/ "disk" \in world /\ UNCHANGED store /\ Raise(p)

(* resolve raises although the manifest is there: it cannot be opened        *)
(* (StagedArtifactCustodyError), or its content is no manifest               *)
(* (StagedArtifactStateError).                                               *)
MayNotResolve == world \cap {"disk", "unreadable"} # {}

-----------------------------------------------------------------------------
(* A copy is started: by `copy`, which never asks for raw delivery, or by a *)
(* data environment, which may.                                             *)
MayStart(p, s) ==
    /\ pc[p] = "idle" /\ started < MaxCopies
    /\ \A q \in Procs : pc[q] # "idle" =>
          IF job[q].source = s THEN "same_source" \in world ELSE "overlap" \in world

Start(p, s) ==
    /\ MayStart(p, s)
    /\ started' = started + 1
    /\ \E rules, raw, retain \in BOOLEAN :
          /\ rules \/ ~raw
          /\ With(p, [NoJob EXCEPT !.n = started', !.source = s, !.rules = rules,
                                   !.raw = raw, !.retain = retain])
    /\ Goto(p, "dump")
    /\ UNCHANGED <<store, outside, delivered, ended>>

(* reap_orphaned_staged_files: dumps so old that no running capture owns them. *)
Orphans == {o \in outside : o[2] = "dump" /\ \A q \in Procs : job[q].n # o[1]}

(* _run: the sweep, the space check, pg_dump into a temporary file and its   *)
(* digest.  A failure removes the file and, on a timeout, ends the backend   *)
(* in the source; nothing is staged, so there is nothing to discard.         *)
Dump(p) ==
    /\ pc[p] = "dump"
    /\ \E old \in SUBSET Orphans :
          \/ \E d \in DumpOf("raw", job[p].n) :
                /\ outside' = (outside \ old) \cup {<<job[p].n, "dump">>}
                /\ With(p, [job[p] EXCEPT !.captured = d])
                /\ Goto(p, "put") /\ UNCHANGED ended
          \/ /\ "docker" \in world
             /\ outside' = outside \ old
             /\ End(p, "raised")
    /\ UNCHANGED <<store, started, delivered>>

(* _persist: the manifest first.  When put fails no reference is known yet. *)
PutCaptured(p) ==
    /\ pc[p] = "put"
    /\ \/ /\ Store!Put(Ref(p), job[p].captured)
          /\ Goto(p, "stage") /\ UNCHANGED <<job, outside, ended>>
       \/ /\ "disk" \in world
          /\ UNCHANGED store
          /\ Removes(p, {"dump"}) /\ End(p, "raised")
    /\ UNCHANGED <<started, delivered>>

(* Where run goes after the capture: the raw delivery gate, the masking, or *)
(* the empty policy, which leaves the component as it is.                   *)
AfterCapture(p) ==
    IF job[p].raw THEN "grant" ELSE IF job[p].rules THEN "open" ELSE "put_again"

(* _persist: then the bytes; a failure discards the manifest and raises.  *)
(* Either way the temporary file is gone.                                 *)
StageCaptured(p) ==
    /\ pc[p] = "stage"
    /\ Removes(p, {"dump"})
    /\ \/ Store!Stage(job[p].captured) /\ Goto(p, AfterCapture(p)) /\ UNCHANGED job
       \/ "disk" \in world /\ UNCHANGED store /\ Discard(p, Ref(p), "raise")
    /\ UNCHANGED books

(* The raw delivery gate: a grant for this operation and environment that  *)
(* has not expired, or RawDeliveryRefusedError.                            *)
Grant(p) ==
    /\ pc[p] = "grant"
    /\ \/ Goto(p, "validate") /\ With(p, [job[p] EXCEPT !.granted = TRUE])
       \/ Raise(p)
    /\ UNCHANGED <<store, outside, books>>

-----------------------------------------------------------------------------
(* The mask transform.                                                     *)
OpenRaw(p) ==
    /\ pc[p] = "open"
    /\ IF Store!CanOpen(job[p].captured) THEN Goto(p, "scratch") /\ UNCHANGED job ELSE Raise(p)
    /\ UNCHANGED <<store, outside, books>>

(* From here on the scratch container is removed whatever happens. *)
RemoveScratch(p, ok) == Goto(p, "rm") /\ With(p, [job[p] EXCEPT !.ok = ok])

(* docker run, the readiness poll and the isolation check; a failed or     *)
(* timed-out command may have made the container all the same.             *)
StartScratch(p) ==
    /\ pc[p] = "scratch"
    /\ \/ Creates(p, "scratch") /\ Goto(p, "load") /\ UNCHANGED job
       \/ /\ "docker" \in world
          /\ Creates(p, "scratch") \/ UNCHANGED outside
          /\ RemoveScratch(p, FALSE)
    /\ UNCHANGED <<store, books>>

(* Mutant: a failed restore leaves the scratch container behind. *)
LoadNoFinally(p) ==
    /\ pc[p] = "load"
    /\ Creates(p, "loaded scratch")
    /\ \/ Goto(p, "mask") /\ UNCHANGED job
       \/ "docker" \in world /\ Raise(p)
    /\ UNCHANGED <<store, books>>

(* pg_restore of the raw dump, from a path that was resolved two steps ago. *)
Load(p) ==
    /\ pc[p] = "load"
    /\ \/ /\ Store!CanOpen(job[p].captured)
          /\ Creates(p, "loaded scratch") /\ Goto(p, "mask") /\ UNCHANGED job
       \/ /\ "docker" \in world /\ Store!CanOpen(job[p].captured)
          /\ Creates(p, "loaded scratch") /\ RemoveScratch(p, FALSE)
       \/ /\ ~Store!CanOpen(job[p].captured)
          /\ RemoveScratch(p, FALSE) /\ UNCHANGED outside
    /\ UNCHANGED <<store, books>>

(* Introspection, the check of every rule, the updates and the new dump. *)
Mask(p) ==
    /\ pc[p] = "mask"
    /\ \/ \E d \in DumpOf("masked", job[p].n) :
             /\ Creates(p, "masked dump")
             /\ Goto(p, "rm") /\ With(p, [job[p] EXCEPT !.masked = d])
       \/ "docker" \in world /\ RemoveScratch(p, FALSE) /\ UNCHANGED outside
    /\ UNCHANGED <<store, books>>

(* Mutant: the failure before the removal is forgotten. *)
RmIgnoringFailure(p) ==
    /\ pc[p] = "rm"
    /\ Removes(p, {"scratch", "loaded scratch"}) /\ Goto(p, "stage_masked")
    /\ UNCHANGED <<job, store, books>>

(* docker rm -f: its exit code is not looked at, a timeout raises.  An     *)
(* exception of the transform removes the masked dump on its way out.      *)
Rm(p) ==
    LET scratch == {"scratch", "loaded scratch"}
    IN  /\ pc[p] = "rm"
        /\ \/ job[p].ok /\ Removes(p, scratch) /\ Goto(p, "stage_masked")
           \/ job[p].ok /\ "rm" \in world /\ Goto(p, "stage_masked") /\ UNCHANGED outside
           \/ ~job[p].ok /\ Removes(p, scratch) /\ Goto(p, "compensate")
           \/ "rm" \in world /\ Removes(p, {"masked dump"}) /\ Goto(p, "compensate")
        /\ UNCHANGED <<job, store, books>>

StageMasked(p) ==
    /\ pc[p] = "stage_masked"
    /\ Removes(p, {"masked dump"})
    /\ \/ Store!Stage(job[p].masked) /\ Goto(p, "put_shadow") /\ UNCHANGED job
       \/ "disk" \in world /\ UNCHANGED store /\ Raise(p)
    /\ UNCHANGED books

(* Mutant: the shadow is discarded only when put succeeded. *)
PutMaskedNoFinally(p) ==
    /\ pc[p] = "put_masked"
    /\ \/ Store!Put(Ref(p), job[p].masked) /\ Discard(p, ShadowRef(p), "validate")
       \/ "disk" \in world /\ UNCHANGED store /\ Raise(p)
    /\ UNCHANGED <<outside, books>>

-----------------------------------------------------------------------------
(* Back in run: the pre-mask manifest under its shadow reference, the      *)
(* masked one under the copy's own, and the shadow discarded whether that  *)
(* worked or not.                                                          *)
PutShadow(p) ==
    /\ pc[p] = "put_shadow"
    /\ PutThen(p, ShadowRef(p), job[p].captured, "put_masked")
    /\ UNCHANGED <<outside, books>>

PutMasked(p) ==
    /\ pc[p] = "put_masked"
    /\ \/ Store!Put(Ref(p), job[p].masked) /\ Discard(p, ShadowRef(p), "validate")
       \/ "disk" \in world /\ UNCHANGED store /\ Discard(p, ShadowRef(p), "compensate")
    /\ UNCHANGED <<outside, books>>

(* An empty policy: the manifest is persisted once more, unchanged. *)
PutAgain(p) ==
    /\ pc[p] = "put_again"
    /\ PutThen(p, Ref(p), job[p].captured, "validate")
    /\ UNCHANGED <<outside, books>>

(* validate_for_restore, and for a copy that did not ask for raw delivery   *)
(* the guard that the store serves what anonymization produced.             *)
Expected(j) == IF j.rules /\ ~j.raw THEN j.masked ELSE j.captured

Validate(p) ==
    /\ pc[p] = "validate"
    /\ \/ /\ Store!Ready(Ref(p))
          /\ job[p].raw \/ Store!Resolve(Ref(p)) = Expected(job[p])
          /\ Goto(p, "restore") /\ UNCHANGED job
       \/ /\ \/ ~Store!Ready(Ref(p)) \/ MayNotResolve
             \/ ~job[p].raw /\ Store!Resolve(Ref(p)) # Expected(job[p])
          /\ Raise(p)
    /\ UNCHANGED <<store, outside, books>>

-----------------------------------------------------------------------------
(* DatabaseProvider.restore: it validates the reference again and keeps    *)
(* the component, provisions the target, and streams the bytes into it.    *)
RestoreComponent(p) ==
    /\ pc[p] = "restore"
    /\ \/ /\ Store!Ready(Ref(p))
          /\ With(p, [job[p] EXCEPT !.component = Store!Resolve(Ref(p))])
          /\ Goto(p, "provision")
       \/ (~Store!Ready(Ref(p)) \/ MayNotResolve) /\ Raise(p)
    /\ UNCHANGED <<store, outside, books>>

Provision(p) ==
    /\ pc[p] = "provision"
    /\ \/ Goto(p, "inject") /\ UNCHANGED job
       \/ "docker" \in world /\ Raise(p)
    /\ UNCHANGED <<store, outside, books>>

(* pg_restore into the target; what a failing one did is rolled back with  *)
(* the container, but the target has seen the bytes.                       *)
Inject(p) ==
    /\ pc[p] = "inject"
    /\ IF Store!CanOpen(job[p].component)
       THEN /\ delivered' = delivered \cup {[job |-> job[p], got |-> job[p].component]}
            /\ \/ /\ job[p].retain
                  /\ End(p, "succeeded")
               \/ /\ ~job[p].retain
                  /\ Discard(p, Ref(p), "succeed") /\ UNCHANGED ended
               \/ "docker" \in world /\ Raise(p) /\ UNCHANGED ended
       ELSE Raise(p) /\ UNCHANGED <<delivered, ended>>
    /\ UNCHANGED <<store, outside, started>>

(* _compensate: the state is failed, then cleanup_required, and the staged *)
(* reference is discarded with every exception swallowed.                  *)
Compensate(p) ==
    /\ pc[p] = "compensate"
    /\ Discard(p, Ref(p), "raise")
    /\ UNCHANGED <<store, outside, books>>

-----------------------------------------------------------------------------
(* discard, one step per access to the store.                              *)

(* discard is over: its caller records a residual (run, l.303-324 and      *)
(* l.374-397), or drops it (_compensate, _persist).                        *)
Discarded(p, clean) ==
    LET then == job[p].discard.then
        j == [job[p] EXCEPT !.discard = NoDiscard, !.unclean = @ \/ ~clean,
                            !.residual = @ \/ (~clean /\ then # "raise")]
    IN  IF then \in {"raise", "succeed"}
        THEN /\ Goto(p, "idle") /\ With(p, NoJob)
             /\ ended' = ended \cup {[job |-> j, outcome |-> IF then = "raise" THEN "raised"
                                                             ELSE "succeeded"]}
        ELSE Goto(p, then) /\ With(p, j) /\ UNCHANGED ended

(* A manifest that cannot be opened raises; one whose content cannot be      *)
(* read is removed, and the blob it named is left: the caller is told that   *)
(* the discard was completed, and only the ghost unclean knows.              *)
ReadManifest(p) ==
    LET d == Store!Resolve(job[p].discard.ref)
    IN  /\ pc[p] = "discard"
        /\ \/ d = NoDigest /\ Discarded(p, TRUE)
           \/ "disk" \in world /\ Discarded(p, FALSE)
           \/ /\ d # NoDigest
              /\ Goto(p, "scan") /\ With(p, [job[p] EXCEPT !.discard.blob = d])
              /\ UNCHANGED ended
           \/ /\ d # NoDigest /\ "unreadable" \in world
              /\ Goto(p, "forget") /\ With(p, [job[p] EXCEPT !.unclean = TRUE])
              /\ UNCHANGED ended
        /\ UNCHANGED <<store, outside, started, delivered>>

(* The manifests of others that do not resolve are passed over. *)
Scan(p) ==
    /\ pc[p] = "scan"
    /\ Goto(p, "unlink")
    /\ LET named == Store!ReferencedExcluding(job[p].discard.ref) IN
       \E kept \in SUBSET named :
          /\ kept = named \/ MayNotResolve
          /\ With(p, [job[p] EXCEPT !.discard.kept = kept])
    /\ UNCHANGED <<store, outside, books>>

Unlink(p) ==
    /\ pc[p] = "unlink"
    /\ \/ Store!UnlinkBlob(job[p].discard.blob, job[p].discard.kept) /\ UNCHANGED job
       \/ /\ "disk" \in world /\ job[p].discard.blob \notin job[p].discard.kept
          /\ With(p, [job[p] EXCEPT !.discard.clean = FALSE]) /\ UNCHANGED store
    /\ Goto(p, "forget")
    /\ UNCHANGED <<outside, books>>

Forget(p) ==
    /\ pc[p] = "forget"
    /\ \/ Store!UnlinkManifest(job[p].discard.ref) /\ Discarded(p, job[p].discard.clean)
       \/ "disk" \in world /\ UNCHANGED store /\ Discarded(p, FALSE)
    /\ UNCHANGED <<outside, started, delivered>>

(* The process dies, and no finally runs. *)
Crash(p) ==
    /\ "crash" \in world /\ pc[p] # "idle"
    /\ Goto(p, "idle") /\ With(p, NoJob)
    /\ UNCHANGED <<store, outside, books>>

-----------------------------------------------------------------------------
Step(p) ==
    \/ \E s \in Sources : Start(p, s)
    \/ Dump(p) \/ PutCaptured(p) \/ StageCaptured(p) \/ Grant(p)
    \/ OpenRaw(p) \/ StartScratch(p) \/ Load(p) \/ Mask(p) \/ Rm(p) \/ StageMasked(p)
    \/ PutShadow(p) \/ PutMasked(p) \/ PutAgain(p) \/ Validate(p)
    \/ RestoreComponent(p) \/ Provision(p) \/ Inject(p) \/ Compensate(p)
    \/ ReadManifest(p) \/ Scan(p) \/ Unlink(p) \/ Forget(p) \/ Crash(p)

Next == (\E p \in Procs : Step(p)) /\ UNCHANGED world

Spec == Init /\ [][Next]_vars

-----------------------------------------------------------------------------
TypeOK ==
    /\ world \in Worlds
    /\ Store!TypeOK
    /\ outside \subseteq Copies \X Things
    /\ started \in 0..MaxCopies
    /\ pc \in [Procs -> Positions]
    /\ job \in [Procs -> Jobs \cup {NoJob}]
    /\ delivered \subseteq [job : Jobs, got : Digests]
    /\ ended \subseteq [job : Jobs, outcome : {"succeeded", "raised"}]

-----------------------------------------------------------------------------
(* What the environment leaves in place for a property to hold.            *)
Apart == "same_source" \notin world

(* Unless copies of one source overlap: what is streamed into a target is   *)
(* the dump this very copy made, masked when its policy has rules, and raw  *)
(* only past the delivery gate (coordinator.run, l.245-264, l.329-347).     *)
DeliversOwn ==
    Apart => \A d \in delivered : /\ d.got = Expected(d.job)
                                  /\ d.job.raw => d.job.granted

(* mask_transform.py l.22, of every copy: "the DELIVERY TARGET never sees   *)
(* un-anonymized data" when masking was asked for.                          *)
TargetNeverSeesRaw ==
    \A d \in delivered : d.job.rules /\ ~d.job.raw => d.got.kind = "masked"

Keeps(e) == e.outcome = "succeeded" /\ e.job.retain /\ Expected(e.job) = e.job.captured

Reported(e) == IF e.outcome = "succeeded" THEN e.job.residual ELSE e.job.unclean

(* A discard can meet a manifest whose content cannot be read. *)
Blind == "unreadable" \in world

(* A copy that returned leaves its pre-mask dump in the store only with a   *)
(* residual checkpoint in its result, and one that raised only when one of  *)
(* its discards failed (run, l.295-324, l.368-397; _compensate).  A discard *)
(* that met an unreadable manifest leaves the dump too, and reports nothing *)
(* (RawReapReported).  Copies of equal bytes share the blob and are left    *)
(* out.                                                                     *)
RawReaped ==
    Apart /\ "same_bytes" \notin world =>
        \A e \in ended : e.job.captured \in blobs =>
            Keeps(e) \/ Reported(e) \/ (Blind /\ e.job.unclean)

(* run, l.299-304: "a failed reap leaves the raw (unmasked PII) blob on      *)
(* disk, so a RESIDUAL_FAILURE outcome or a raised exception is recorded as  *)
(* a durable checkpoint", of every masked copy that succeeded, unreadable    *)
(* manifests included.                                                       *)
RawReapReported ==
    Apart /\ "same_bytes" \notin world =>
        \A e \in ended : e.outcome = "succeeded" /\ e.job.rules /\ ~e.job.raw =>
            e.job.captured \notin blobs \/ e.job.residual

(* discard, l.152-157: it "can never silently destroy bytes another manifest *)
(* depends on".  A reference that no copy is using still has its bytes, when *)
(* nobody died or failed half-way through a discard, every manifest can be   *)
(* read and no copy raced with one of equal bytes.                           *)
InUse(r) == \E p \in Procs : pc[p] # "idle" /\ job[p].source = r[1]

RetainedIsBacked ==
    ~(world \cap {"crash", "disk", "unreadable", "same_source"} # {}
      \/ {"overlap", "same_bytes"} \subseteq world) =>
        \A r \in Refs : manifests[r] # NoDigest /\ ~InUse(r) => manifests[r] \in blobs

(* No temporary dump and no scratch container with raw data outlives the    *)
(* copy that made it, on any path, unless the process died or docker rm     *)
(* failed (capture, _run_subprocess and _mask with their finally blocks).   *)
NothingLeftOutside ==
    world \cap {"crash", "rm"} = {} =>
        \A o \in outside : \E p \in Procs : job[p].n = o[1]
=============================================================================
