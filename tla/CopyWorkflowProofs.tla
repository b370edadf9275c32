------------------------- MODULE CopyWorkflowProofs -------------------------
(***************************************************************************)
(* CopyWorkflow keeps its safety properties for any processes, sources and *)
(* number of copies, in every environment.                                 *)
(***************************************************************************)
EXTENDS CopyWorkflow, TLAPS

(* The policy has rules and raw delivery was not asked for. *)
Masks(j) == j.rules /\ ~j.raw

(* Inside discard. *)
Discarding == {"discard", "scan", "unlink", "forget"}

(* The mask transform, up to its result being staged. *)
Masking == {"open", "scratch", "load", "mask", "rm", "stage_masked", "put_shadow", "put_masked"}

(* From the check of what the store serves to its delivery. *)
Delivering == {"validate", "restore", "provision", "inject"}

(* The bytes of no two copies are equal. *)
Unequal == "same_bytes" \notin world

(* A copy one of whose discards failed or met a manifest it could not read. *)
Passed(j) == Blind /\ j.unclean

-----------------------------------------------------------------------------
(* What the position of a copy says ... about its locals.                  *)
LocalsOK(p) ==
    LET j == job[p] IN
    /\ pc[p] = "idle" <=> j = NoJob
    /\ j.n <= started
    /\ pc[p] \in {"idle", "dump"} <=> j.captured = NoDigest
    /\ j.captured # NoDigest => j.captured.kind = "raw" /\ j.captured.n <= started
    /\ j.masked # NoDigest => j.masked.kind = "masked" /\ j.masked.n <= started
    /\ Unequal => /\ j.captured # NoDigest => j.captured.n = j.n
                  /\ j.masked # NoDigest => j.masked.n = j.n
    /\ pc[p] \in {"stage_masked", "put_shadow", "put_masked"} => j.masked # NoDigest
    /\ pc[p] = "rm" /\ j.ok => j.masked # NoDigest
    /\ pc[p] \in {"dump", "put", "stage", "open", "scratch", "load", "mask"} => j.ok
    /\ pc[p] \in Masking => Masks(j)
    /\ pc[p] = "put_again" => ~j.rules /\ ~j.raw
    /\ pc[p] = "grant" => j.raw
    /\ j.raw /\ pc[p] \in Delivering => j.granted
    /\ pc[p] \in Discarding =>
          \/ j.discard.ref = Ref(p) /\ j.discard.then \in {"raise", "succeed"}
          \/ j.discard.ref = ShadowRef(p) /\ j.discard.then \in {"validate", "compensate"} /\ Masks(j)
    /\ pc[p] \in {"scan", "unlink"} => j.discard.blob # NoDigest

(* ... about the manifests of its source, which nobody else writes.         *)
RefsHeld(p) ==
    LET j == job[p] IN
    Apart =>
      /\ pc[p] \in (Masking \cup {"stage", "grant", "put_again"}) => manifests[Ref(p)] = j.captured
      /\ pc[p] = "put_masked" => manifests[ShadowRef(p)] = j.captured
      /\ pc[p] \in Delivering => manifests[Ref(p)] = Expected(j)
      /\ pc[p] \in {"provision", "inject"} => j.component = Expected(j)
      /\ pc[p] = "compensate" => manifests[Ref(p)] \in {j.captured, j.masked}
      /\ pc[p] \in Discarding /\ j.discard.then = "validate" => manifests[Ref(p)] = j.masked
      /\ pc[p] \in Discarding /\ j.discard.then = "compensate" => manifests[Ref(p)] = j.captured
      /\ pc[p] = "discard" => manifests[j.discard.ref] \in {j.captured, j.masked}
      /\ pc[p] \in {"scan", "unlink"} => j.discard.blob \in {j.captured, j.masked}

Elsewhere(p, S) == \A r \in Refs \ S : manifests[r] # job[p].captured

(* Only the reference r names the pre-mask dump. *)
OnlyRef(p, r) == manifests[r] = job[p].captured /\ Elsewhere(p, {r})

(* The discard under way takes the pre-mask dump, or knows that it failed. *)
Reaps(p) ==
    LET d == job[p].discard IN
    /\ pc[p] = "discard" => OnlyRef(p, d.ref)
    /\ pc[p] = "scan" => d.blob = job[p].captured /\ Elsewhere(p, {d.ref})
    /\ pc[p] = "unlink" => d.blob = job[p].captured /\ job[p].captured \notin d.kept
    /\ pc[p] = "forget" => ~d.clean

(* ... about its pre-mask dump, while it is in the store.                   *)
RawHeld(p) ==
    LET j == job[p]
        then == j.discard.then
    IN
    Apart /\ Unequal /\ j.captured \in blobs =>
      /\ pc[p] \notin {"idle", "dump", "put", "stage"}
      /\ pc[p] \in ((Masking \ {"put_masked"}) \cup {"grant", "put_again"}) => OnlyRef(p, Ref(p))
      /\ pc[p] = "put_masked" => Elsewhere(p, {Ref(p), ShadowRef(p)})
      /\ pc[p] \in Delivering => IF Masks(j) THEN (j.residual \/ Blind) /\ j.unclean ELSE OnlyRef(p, Ref(p))
      /\ pc[p] = "compensate" => j.unclean \/ OnlyRef(p, Ref(p))
      /\ pc[p] \in Discarding =>
           /\ then = "validate" => Passed(j) \/ Reaps(p)
           /\ then = "compensate" => Elsewhere(p, {Ref(p), ShadowRef(p)})
           /\ then = "raise" => j.unclean \/ Reaps(p)
           /\ then = "succeed" => j.residual \/ Passed(j) \/ Reaps(p)

(* ... about what it has outside the store. *)
Temporary(p) ==
    CASE pc[p] \in {"put", "stage"} -> {"dump"}
      [] pc[p] \in {"load", "mask"} -> {"scratch", "loaded scratch"}
      [] pc[p] = "rm" -> {"scratch", "loaded scratch"} \cup (IF job[p].ok THEN {"masked dump"} ELSE {})
      [] pc[p] = "stage_masked" -> {"masked dump"}
      [] OTHER -> {}

OutsideHeld(p) ==
    world \cap {"crash", "rm"} = {} =>
        \A o \in outside : o[1] = job[p].n => o[2] \in Temporary(p)

(* ... and about digests of its own: nobody else has them. *)
OwnDigests(p) ==
    Unequal =>
      /\ \A r \in Refs : manifests[r] # NoDigest /\ manifests[r].n = job[p].n => r[1] = job[p].source
      /\ pc[p] \in {"dump", "put", "stage"} => manifests[ShadowRef(p)].n # job[p].n
      /\ pc[p] = "dump" => \A d \in blobs : d.n # job[p].n

(* While calls do not overlap and manifests resolve, the scan is as good as new. *)
ScanHeld(p) ==
    Apart /\ "overlap" \notin world /\ ~MayNotResolve /\ pc[p] = "unlink" =>
        job[p].discard.kept = Store!ReferencedExcluding(job[p].discard.ref)

Proc(p) ==
    /\ LocalsOK(p) /\ RefsHeld(p) /\ RawHeld(p) /\ OutsideHeld(p) /\ OwnDigests(p) /\ ScanHeld(p)

-----------------------------------------------------------------------------
(* Two copies.                                                             *)
Busy(p) == pc[p] # "idle"

Pairs ==
    \A p, q \in Procs : p # q /\ Busy(p) /\ Busy(q) =>
        /\ job[p].n # job[q].n
        /\ Apart => "overlap" \in world /\ job[p].source # job[q].source

-----------------------------------------------------------------------------
(* The shared state.                                                       *)
Numbered ==
    /\ \A r \in Refs : manifests[r] # NoDigest => manifests[r].n <= started
    /\ \A d \in blobs : d.n <= started
    /\ \A o \in outside : o[1] <= started

EndedOver ==
    \A e \in ended :
        /\ e.job.n <= started
        /\ \A p \in Procs : Busy(p) => job[p].n # e.job.n
        /\ Unequal => e.job.captured = NoDigest \/ e.job.captured.n = e.job.n

(* Where references keep their bytes. *)
Orderly ==
    ~(world \cap {"crash", "disk", "unreadable", "same_source"} # {}
      \/ {"overlap", "same_bytes"} \subseteq world)

(* A reference that no copy has written yet, or any more, has its bytes. *)
Touched(r) ==
    \E p \in Procs : pc[p] \notin {"idle", "dump", "put"} /\ job[p].source = r[1]

Backed == Orderly => \A r \in Refs : manifests[r] # NoDigest /\ ~Touched(r) => manifests[r] \in blobs

(* A shadow reference is there only while its copy reaps it. *)
ShadowsReaped ==
    Orderly =>
        \A s \in Sources : manifests[<<s, "raw">>] # NoDigest =>
            \E p \in Procs : /\ job[p].source = s
                             /\ \/ pc[p] = "put_masked"
                                \/ pc[p] \in Discarding /\ job[p].discard.ref = <<s, "raw">>

Shared ==
    /\ Numbered /\ EndedOver /\ Backed /\ ShadowsReaped
    /\ DeliversOwn /\ RawReaped /\ NothingLeftOutside

(* The inductive invariant. *)
IInv == TypeOK /\ Shared /\ Pairs /\ \A p \in Procs : Proc(p)

-----------------------------------------------------------------------------
(* Steps of a copy.                                                        *)

(* It is p's turn. *)
Turn(p) ==
    /\ pc' \in [Procs -> Positions] /\ job' \in [Procs -> Jobs \cup {NoJob}]
    /\ \A q \in Procs \ {p} : pc'[q] = pc[q] /\ job'[q] = job[q]

(* It goes on at l, as the same copy. *)
Moves(p, l) ==
    /\ Turn(p) /\ pc'[p] = l /\ job'[p] \in Jobs
    /\ job'[p].n = job[p].n /\ job'[p].source = job[p].source /\ job'[p].rules = job[p].rules
    /\ job'[p].raw = job[p].raw /\ job'[p].retain = job[p].retain

(* It is over. *)
Ends(p) == Turn(p) /\ pc'[p] = "idle" /\ job'[p] = NoJob

Discards == [ref : Refs \cup {NoRef}, blob : Digests \cup {NoDigest}, kept : SUBSET Digests,
             clean : BOOLEAN, then : {"none", "raise", "validate", "compensate", "succeed"}]

LEMMA NoJobFields ==
    /\ NoJob.n = 0 /\ NoJob.source = NoSource /\ NoJob.captured = NoDigest /\ NoJob.masked = NoDigest
    /\ NoJob.raw = FALSE /\ NoJob.ok = TRUE /\ NoJob.discard = NoDiscard /\ NoJob \notin Jobs
<1>1. NoJob.n \notin Copies
  BY DEF NoJob, Copies
<1> QED BY <1>1 DEF NoJob, Jobs

LEMMA DigestFields ==
    /\ NoDigest \notin Digests /\ NoDigest.n = 0
    /\ \A d \in Digests : d.n \in Copies /\ d.n \in Nat /\ d.n >= 1 /\ d.kind \in {"raw", "masked"}
    /\ \A d, e \in Digests : d.n = e.n /\ d.kind = e.kind => d = e
BY DEF NoDigest, Digests, Copies

LEMMA JobFields ==
    ASSUME NEW j \in Jobs
    PROVE  /\ j.n \in Copies /\ j.n \in Nat /\ j.n >= 1 /\ j.source \in Sources /\ j.rules \in BOOLEAN /\ j.raw \in BOOLEAN
           /\ j.granted \in BOOLEAN /\ j.retain \in BOOLEAN
           /\ j.captured \in Digests \cup {NoDigest} /\ j.masked \in Digests \cup {NoDigest}
           /\ j.component \in Digests \cup {NoDigest} /\ j.discard \in Discards
           /\ j.ok \in BOOLEAN /\ j.residual \in BOOLEAN /\ j.unclean \in BOOLEAN /\ j # NoJob
<1>1. j # NoJob
  BY NoJobFields
<1> QED BY <1>1 DEF Jobs, Discards, Copies

LEMMA DiscardFields ==
    ASSUME NEW d \in Discards
    PROVE  /\ d.ref \in Refs \cup {NoRef} /\ d.blob \in Digests \cup {NoDigest}
           /\ d.kept \in SUBSET Digests /\ d.clean \in BOOLEAN
           /\ d.then \in {"none", "raise", "validate", "compensate", "succeed"}
BY DEF Discards

LEMMA RefFields ==
    /\ \A s \in Sources : /\ <<s, "set">> \in Refs /\ <<s, "raw">> \in Refs
                          /\ <<s, "set">> # <<s, "raw">>
                          /\ <<s, "set">>[1] = s /\ <<s, "raw">>[1] = s
    /\ \A r \in Refs : r[1] \in Sources /\ (r = <<r[1], "set">> \/ r = <<r[1], "raw">>)
BY DEF Refs

LEMMA Working ==
    ASSUME TypeOK, NEW p \in Procs, LocalsOK(p), pc[p] # "idle"
    PROVE  /\ job[p] \in Jobs /\ job[p] # NoJob
           /\ job[p].n \in Copies /\ job[p].n \in Nat /\ job[p].n >= 1 /\ job[p].source \in Sources
           /\ job[p].captured \in Digests \cup {NoDigest} /\ job[p].masked \in Digests \cup {NoDigest}
           /\ job[p].component \in Digests \cup {NoDigest} /\ job[p].discard \in Discards
           /\ Ref(p) \in Refs /\ ShadowRef(p) \in Refs /\ Ref(p) # ShadowRef(p)
           /\ Ref(p)[1] = job[p].source /\ ShadowRef(p)[1] = job[p].source
           /\ \A r \in Refs : r[1] = job[p].source => r \in {Ref(p), ShadowRef(p)}
<1>1. job[p] \in Jobs
  BY DEF TypeOK, LocalsOK
<1>2. job[p].source \in Sources
  BY <1>1, JobFields
<1>3. /\ Ref(p) \in Refs /\ ShadowRef(p) \in Refs /\ Ref(p) # ShadowRef(p)
      /\ Ref(p)[1] = job[p].source /\ ShadowRef(p)[1] = job[p].source
      /\ \A r \in Refs : r[1] = job[p].source => r \in {Ref(p), ShadowRef(p)}
  BY <1>2, RefFields DEF Ref, ShadowRef
<1> QED BY <1>1, <1>3, JobFields

LEMMA Resting ==
    ASSUME TypeOK, NEW p \in Procs, LocalsOK(p), pc[p] = "idle"
    PROVE  /\ job[p] = NoJob /\ job[p].n = 0 /\ job[p].source = NoSource
           /\ job[p].captured = NoDigest /\ job[p].masked = NoDigest
BY NoJobFields DEF LocalsOK

LEMMA TurnWith ==
    ASSUME TypeOK, NEW p \in Procs, NEW l \in Positions, NEW j \in Jobs \cup {NoJob},
           Goto(p, l), With(p, j)
    PROVE  Turn(p) /\ pc'[p] = l /\ job'[p] = j
BY DEF TypeOK, Goto, With, Turn

LEMMA MovesWith ==
    ASSUME TypeOK, NEW p \in Procs, NEW l \in Positions, NEW j \in Jobs, Goto(p, l), With(p, j),
           j.n = job[p].n, j.source = job[p].source, j.rules = job[p].rules, j.raw = job[p].raw,
           j.retain = job[p].retain
    PROVE  Moves(p, l) /\ job'[p] = j
BY TurnWith DEF Moves

LEMMA MovesOn ==
    ASSUME TypeOK, NEW p \in Procs, job[p] \in Jobs, NEW l \in Positions,
           Goto(p, l), UNCHANGED job
    PROVE  Moves(p, l) /\ job'[p] = job[p]
<1>1. With(p, job[p])
  BY DEF TypeOK, With
<1> QED BY <1>1, MovesWith

LEMMA IdleEnds ==
    ASSUME TypeOK, NEW p \in Procs, Goto(p, "idle"), With(p, NoJob)
    PROVE  Ends(p)
BY TurnWith DEF Ends, Positions

(* Assignments to locals. *)
SameCopy(u, j) ==
    /\ u \in Jobs /\ u.n = j.n /\ u.source = j.source /\ u.rules = j.rules /\ u.raw = j.raw
    /\ u.retain = j.retain

LEMMA MovesSame ==
    ASSUME TypeOK, NEW p \in Procs, NEW l \in Positions, NEW u, SameCopy(u, job[p]),
           Goto(p, l), With(p, u)
    PROVE  Moves(p, l) /\ pc'[p] = l /\ job'[p] = u /\ u \in Jobs /\ u # NoJob
<1>1. u \in Jobs /\ u # NoJob
  BY NoJobFields DEF SameCopy
<1> QED BY <1>1, MovesWith DEF SameCopy, Moves

LEMMA SetCaptured ==
    ASSUME NEW j \in Jobs, NEW d \in Digests
    PROVE  LET u == [j EXCEPT !.captured = d] IN
           /\ SameCopy(u, j) /\ u.captured = d /\ u.masked = j.masked /\ u.component = j.component
           /\ u.granted = j.granted /\ u.discard = j.discard /\ u.ok = j.ok
           /\ u.residual = j.residual /\ u.unclean = j.unclean
BY DEF Jobs, SameCopy

LEMMA SetMasked ==
    ASSUME NEW j \in Jobs, NEW d \in Digests
    PROVE  LET u == [j EXCEPT !.masked = d] IN
           /\ SameCopy(u, j) /\ u.captured = j.captured /\ u.masked = d /\ u.component = j.component
           /\ u.granted = j.granted /\ u.discard = j.discard /\ u.ok = j.ok
           /\ u.residual = j.residual /\ u.unclean = j.unclean
BY DEF Jobs, SameCopy

LEMMA SetComponent ==
    ASSUME NEW j \in Jobs, NEW d \in Digests
    PROVE  LET u == [j EXCEPT !.component = d] IN
           /\ SameCopy(u, j) /\ u.captured = j.captured /\ u.masked = j.masked /\ u.component = d
           /\ u.granted = j.granted /\ u.discard = j.discard /\ u.ok = j.ok
           /\ u.residual = j.residual /\ u.unclean = j.unclean
BY DEF Jobs, SameCopy

LEMMA SetGranted ==
    ASSUME NEW j \in Jobs
    PROVE  LET u == [j EXCEPT !.granted = TRUE] IN
           /\ SameCopy(u, j) /\ u.captured = j.captured /\ u.masked = j.masked
           /\ u.component = j.component /\ u.granted = TRUE /\ u.discard = j.discard /\ u.ok = j.ok
           /\ u.residual = j.residual /\ u.unclean = j.unclean
BY DEF Jobs, SameCopy

LEMMA SetOk ==
    ASSUME NEW j \in Jobs, NEW ok \in BOOLEAN
    PROVE  LET u == [j EXCEPT !.ok = ok] IN
           /\ SameCopy(u, j) /\ u.captured = j.captured /\ u.masked = j.masked
           /\ u.component = j.component /\ u.granted = j.granted /\ u.discard = j.discard
           /\ u.ok = ok /\ u.residual = j.residual /\ u.unclean = j.unclean
BY DEF Jobs, SameCopy

LEMMA SetDiscard ==
    ASSUME NEW j \in Jobs, NEW d \in Discards
    PROVE  LET u == [j EXCEPT !.discard = d] IN
           /\ SameCopy(u, j) /\ u.captured = j.captured /\ u.masked = j.masked
           /\ u.component = j.component /\ u.granted = j.granted /\ u.discard = d
           /\ u.ok = j.ok /\ u.residual = j.residual /\ u.unclean = j.unclean
BY DEF Jobs, Discards, SameCopy
-----------------------------------------------------------------------------
(* What a step of p may do to the shared state.                            *)
Effects(p) ==
    /\ Turn(p) /\ UNCHANGED world /\ started' \in Nat /\ started <= started'
    /\ \A r \in Refs : \/ manifests'[r] = manifests[r]
                       \/ /\ Busy(p) /\ r[1] = job[p].source
                          /\ manifests'[r] \in {NoDigest, job[p].captured, job[p].masked}
    /\ \A d \in blobs' : d \in blobs \/ (Busy(p) /\ d \in {job[p].captured, job[p].masked})
    /\ \A o \in outside' : o \in outside \/ (Busy(p) /\ o[1] = job[p].n)

(* The dumps of p belong to it. *)
LEMMA DumpsOfOthers ==
    ASSUME IInv, NEW p \in Procs, Busy(p), NEW q \in Procs, q # p, Busy(q), Unequal,
           NEW d \in {job[p].captured, job[p].masked}, d # NoDigest
    PROVE  d.n = job[p].n /\ d.n # job[q].n /\ d # job[q].captured
<1>1. LocalsOK(p) /\ LocalsOK(q)
  BY DEF IInv, Proc
<1>2. d.n = job[p].n
  BY <1>1 DEF LocalsOK
<1>3. job[p].n # job[q].n
  BY DEF IInv, Pairs
<1>4. job[q].captured # NoDigest => job[q].captured.n = job[q].n
  BY <1>1 DEF LocalsOK
<1> QED BY <1>2, <1>3, <1>4

LEMMA OthersKeep ==
    ASSUME IInv, NEW p \in Procs, Effects(p), TypeOK', NEW q \in Procs, q # p
    PROVE  Proc(q)'
<1>1. /\ pc'[q] = pc[q] /\ job'[q] = job[q] /\ Proc(q) /\ TypeOK /\ world' = world
      /\ LocalsOK(q)
  BY DEF Effects, Turn, IInv, Proc
<1>2. job[q].n \in Nat /\ started \in Nat /\ started' \in Nat
  BY <1>1, Working, Resting DEF TypeOK, Effects
<1>3. LocalsOK(q)'
  <2>1. job[q].captured # NoDigest => job[q].captured.n \in Nat
    BY <1>1, Working, Resting, DigestFields
  <2>2. job[q].masked # NoDigest => job[q].masked.n \in Nat
    BY <1>1, Working, Resting, DigestFields
  <2> QED BY <1>1, <1>2, <2>1, <2>2 DEF LocalsOK, Effects, Ref, ShadowRef, Unequal
<1>4. CASE pc[q] = "idle"
  <2>1. /\ job[q].n = 0 /\ job[q].captured = NoDigest
    BY <1>1, <1>4, Resting
  <2>2. RefsHeld(q)' /\ ScanHeld(q)'
    BY <1>1, <1>4 DEF RefsHeld, ScanHeld, Masking, Delivering, Discarding
  <2>3. RawHeld(q)'
    BY <1>1, <1>4, <2>1, DigestFields DEF RawHeld, Passed, Blind, TypeOK, Store!TypeOK
  <2>4. OutsideHeld(q)'
    BY <1>1, <2>1 DEF OutsideHeld, TypeOK, Copies
  <2>5. OwnDigests(q)'
    BY <1>1, <1>4, <2>1, DigestFields DEF OwnDigests, TypeOK, Store!TypeOK
  <2> QED BY <1>3, <2>2, <2>3, <2>4, <2>5 DEF Proc
<1>5. CASE pc[q] # "idle"
  <2>0. Busy(q) /\ job[q].n \in Nat /\ job[q].n >= 1
    BY <1>1, <1>5, Working DEF Busy
  <2>1. Busy(p) => /\ job[p].n # job[q].n
                   /\ Apart => "overlap" \in world /\ job[p].source # job[q].source
    BY <2>0 DEF IInv, Pairs
  <2>2. /\ Ref(q) \in Refs /\ ShadowRef(q) \in Refs
        /\ Ref(q)[1] = job[q].source /\ ShadowRef(q)[1] = job[q].source
    BY <1>1, <1>5, Working
  <2>3. Apart => manifests'[Ref(q)] = manifests[Ref(q)] /\ manifests'[ShadowRef(q)] = manifests[ShadowRef(q)]
    BY <2>1, <2>2 DEF Effects
  <2>4. pc[q] \in Discarding => job[q].discard.ref \in {Ref(q), ShadowRef(q)}
    BY <1>1 DEF LocalsOK
  <2>5. Ref(q)' = Ref(q) /\ ShadowRef(q)' = ShadowRef(q)
    BY <1>1 DEF Ref, ShadowRef
  <2>6. RefsHeld(q)'
    <3>1. Apart /\ pc[q] = "discard" => manifests'[job[q].discard.ref] = manifests[job[q].discard.ref]
      BY <2>3, <2>4 DEF Discarding
    <3> QED BY <1>1, <2>3, <2>5, <3>1 DEF RefsHeld, Proc, Apart, Expected
  <2>7. Unequal /\ job[q].captured \in blobs' => job[q].captured \in blobs
    <3>1. job[q].captured \in blobs' => job[q].captured # NoDigest
      BY DigestFields DEF TypeOK, Store!TypeOK
    <3> QED BY <2>0, <3>1, DumpsOfOthers DEF Effects
  <2>8. ASSUME Apart, Unequal, job[q].captured \in blobs, NEW S
        PROVE  Elsewhere(q, S) => Elsewhere(q, S)'
    <3>1. job[q].captured # NoDigest
      BY <2>8, DigestFields DEF IInv, TypeOK, Store!TypeOK
    <3>2. ASSUME NEW r \in Refs, manifests[r] # job[q].captured
          PROVE  manifests'[r] # job[q].captured
      BY <2>0, <2>8, <3>1, <3>2, DumpsOfOthers DEF Effects
    <3> QED BY <1>1, <3>2 DEF Elsewhere
  <2>9. RawHeld(q)'
    <3> SUFFICES ASSUME Apart, Unequal, job[q].captured \in blobs' PROVE RawHeld(q)'
      BY <1>1 DEF RawHeld, Passed, Blind, Apart, Unequal
    <3>1. job[q].captured \in blobs
      BY <2>7
    <3>2. \A S : Elsewhere(q, S) => Elsewhere(q, S)'
      BY <2>8, <3>1
    <3>3. OnlyRef(q, Ref(q)) => OnlyRef(q, Ref(q))'
      BY <1>1, <2>3, <2>5, <3>2 DEF OnlyRef, Elsewhere
    <3>4. pc[q] \in Discarding /\ Reaps(q) => Reaps(q)'
      <4>1. pc[q] = "discard" => manifests'[job[q].discard.ref] = manifests[job[q].discard.ref]
        BY <2>3, <2>4 DEF Discarding
      <4> QED BY <1>1, <3>2, <4>1 DEF Reaps, OnlyRef, Elsewhere
    <3>5. Elsewhere(q, {Ref(q), ShadowRef(q)}) => Elsewhere(q, {Ref(q), ShadowRef(q)})'
      BY <1>1, <2>5, <3>2 DEF Elsewhere
    <3>6. Masks(job[q])' = Masks(job[q])
      BY <1>1 DEF Masks
    <3> QED BY <1>1, <2>5, <3>1, <3>3, <3>4, <3>5, <3>6 DEF RawHeld, Passed, Blind, Proc, Apart, Unequal
  <2>10. OutsideHeld(q)'
    <3>1. Temporary(q)' = Temporary(q)
      BY <1>1 DEF Temporary
    <3> QED BY <1>1, <2>1, <3>1 DEF OutsideHeld, Proc, Effects
  <2>11. OwnDigests(q)'
    <3> SUFFICES ASSUME Unequal PROVE OwnDigests(q)'
      BY <1>1 DEF OwnDigests, Unequal
    <3>1. ASSUME NEW r \in Refs, manifests'[r] # NoDigest, manifests'[r].n = job[q].n
          PROVE  manifests'[r] = manifests[r]
      BY <2>0, <3>1, DumpsOfOthers DEF Effects
    <3>2. ASSUME NEW d \in blobs', d.n = job[q].n
          PROVE  d \in blobs
      <4>1. d # NoDigest
        BY DigestFields DEF TypeOK, Store!TypeOK
      <4> QED BY <2>0, <3>2, <4>1, DumpsOfOthers DEF Effects
    <3>3. manifests[ShadowRef(q)].n # job[q].n => manifests'[ShadowRef(q)].n # job[q].n
      BY <2>0, <2>2, <3>1, DigestFields
    <3> QED BY <1>1, <2>5, <3>1, <3>2, <3>3 DEF OwnDigests, Proc
  <2>12. ScanHeld(q)'
    <3> SUFFICES ASSUME Apart, "overlap" \notin world, pc[q] = "unlink" PROVE ScanHeld(q)'
      BY <1>1 DEF ScanHeld, Apart
    <3>1. \A r \in Refs : manifests'[r] = manifests[r]
      BY <2>1 DEF Effects
    <3> QED BY <1>1, <3>1 DEF ScanHeld, MayNotResolve, Proc, Store!ReferencedExcluding
  <2> QED BY <1>3, <2>6, <2>9, <2>10, <2>11, <2>12 DEF Proc
<1> QED BY <1>4, <1>5

-----------------------------------------------------------------------------
(* A step of a copy that is under way: it stays the copy it is, or is over. *)
Follows(p) ==
    /\ Effects(p) /\ Busy(p) /\ UNCHANGED started
    /\ Busy(p)' => job'[p].n = job[p].n /\ job'[p].source = job[p].source
    /\ \A e \in ended' : \/ e \in ended
                         \/ /\ ~Busy(p)' /\ e.job.n = job[p].n
                            /\ e.job.captured = job[p].captured

LEMMA PairsFollow ==
    ASSUME IInv, NEW p \in Procs, Follows(p)
    PROVE  Pairs'
<1>1. world' = world /\ \A q \in Procs \ {p} : pc'[q] = pc[q] /\ job'[q] = job[q]
  BY DEF Follows, Effects, Turn
<1> QED BY <1>1 DEF IInv, Pairs, Follows, Busy, Apart

LEMMA NumberedFollows ==
    ASSUME IInv, NEW p \in Procs, Follows(p)
    PROVE  Numbered'
<1>1. LocalsOK(p) /\ TypeOK
  BY DEF IInv, Proc
<1>2. /\ job[p].captured # NoDigest => job[p].captured.n <= started
      /\ job[p].masked # NoDigest => job[p].masked.n <= started
      /\ job[p].n <= started /\ started \in Nat
  BY <1>1 DEF LocalsOK, TypeOK
<1>3. NoDigest.n = 0
  BY DigestFields
<1> QED BY <1>2, <1>3 DEF IInv, Shared, Numbered, Follows, Effects

LEMMA EndedOverFollows ==
    ASSUME IInv, NEW p \in Procs, Follows(p)
    PROVE  EndedOver'
<1>1. /\ world' = world /\ LocalsOK(p) /\ Busy(p) /\ started' = started
      /\ \A q \in Procs \ {p} : pc'[q] = pc[q] /\ job'[q] = job[q]
  BY DEF Follows, Effects, Turn, IInv, Proc
<1>2. ASSUME NEW e \in ended', e \in ended
      PROVE  /\ e.job.n <= started'
             /\ \A q \in Procs : Busy(q)' => job'[q].n # e.job.n
             /\ Unequal' => e.job.captured = NoDigest \/ e.job.captured.n = e.job.n
  <2>1. /\ e.job.n <= started /\ \A q \in Procs : Busy(q) => job[q].n # e.job.n
        /\ Unequal => e.job.captured = NoDigest \/ e.job.captured.n = e.job.n
    BY <1>2 DEF IInv, Shared, EndedOver
  <2>2. ASSUME NEW q \in Procs, Busy(q)' PROVE job'[q].n # e.job.n
    BY <1>1, <2>1, <2>2 DEF Follows, Busy
  <2> QED BY <1>1, <2>1, <2>2 DEF Unequal
<1>3. ASSUME NEW e \in ended', e \notin ended
      PROVE  /\ e.job.n <= started'
             /\ \A q \in Procs : Busy(q)' => job'[q].n # e.job.n
             /\ Unequal' => e.job.captured = NoDigest \/ e.job.captured.n = e.job.n
  <2>1. ~Busy(p)' /\ e.job.n = job[p].n /\ e.job.captured = job[p].captured
    BY <1>3 DEF Follows
  <2>2. /\ job[p].n <= started
        /\ Unequal => job[p].captured = NoDigest \/ job[p].captured.n = job[p].n
    BY <1>1 DEF LocalsOK
  <2>3. ASSUME NEW q \in Procs, Busy(q)' PROVE job'[q].n # e.job.n
    BY <1>1, <2>1, <2>3 DEF IInv, Pairs, Busy
  <2> QED BY <1>1, <2>1, <2>2, <2>3 DEF Unequal
<1> QED BY <1>2, <1>3 DEF EndedOver

(* What RawReaped says of one copy. *)
Reaped(e) == Keeps(e) \/ Reported(e) \/ Passed(e.job)

LEMMA RawReapedFollows ==
    ASSUME IInv, NEW p \in Procs, Follows(p), TypeOK',
           \A e \in ended' \ ended : Apart /\ Unequal /\ e.job.captured \in blobs' => Reaped(e)
    PROVE  RawReaped'
<1>1. /\ world' = world /\ LocalsOK(p) /\ Busy(p)
  BY DEF Follows, Effects, IInv, Proc
<1>2. ASSUME NEW e \in ended, Apart, Unequal, e.job.captured \in blobs'
      PROVE  e.job.captured \in blobs
  <2>1. job[p].n # e.job.n /\ (e.job.captured = NoDigest \/ e.job.captured.n = e.job.n)
    BY <1>1, <1>2 DEF IInv, Shared, EndedOver
  <2>2. e.job.captured # NoDigest
    BY <1>2, DigestFields DEF TypeOK, Store!TypeOK
  <2>3. ASSUME NEW d \in {job[p].captured, job[p].masked}, d # NoDigest PROVE d.n = job[p].n
    BY <1>1, <1>2, <2>3 DEF LocalsOK
  <2> QED BY <1>2, <2>1, <2>2, <2>3 DEF Follows, Effects
<1>3. ASSUME NEW e \in ended', Apart, Unequal, e.job.captured \in blobs'
      PROVE  Reaped(e)
  BY <1>2, <1>3 DEF IInv, Shared, RawReaped, Reaped, Unequal, Reported, Passed
<1> QED BY <1>1, <1>3 DEF RawReaped, Reaped, Reported, Passed, Blind, Keeps, Expected, Apart, Unequal

LEMMA OutsideFollows ==
    ASSUME IInv, NEW p \in Procs, Follows(p), TypeOK',
           \/ Busy(p)'
           \/ world \cap {"crash", "rm"} = {} => \A o \in outside' : o[1] # job[p].n
    PROVE  NothingLeftOutside'
<1>1. world' = world /\ \A q \in Procs \ {p} : job'[q] = job[q]
  BY DEF Follows, Effects, Turn
<1> SUFFICES ASSUME world \cap {"crash", "rm"} = {}, NEW o \in outside'
             PROVE  \E q \in Procs : job'[q].n = o[1]
  BY <1>1 DEF NothingLeftOutside
<1>2. PICK q \in Procs : job[q].n = o[1]
  BY DEF Follows, Effects, IInv, Shared, NothingLeftOutside
<1>3. CASE q # p
  BY <1>1, <1>2, <1>3
<1>4. CASE q = p
  BY <1>2, <1>4 DEF Follows
<1> QED BY <1>3, <1>4

(* References of other sources are as they were. *)
LEMMA BackedStays ==
    ASSUME IInv, NEW p \in Procs, Follows(p), pc'[p] \notin {"idle", "dump", "put"},
           blobs \subseteq blobs'
    PROVE  Backed'
<1>1. /\ world' = world /\ \A q \in Procs \ {p} : pc'[q] = pc[q] /\ job'[q] = job[q]
  BY DEF Follows, Effects, Turn
<1>2. job'[p].source = job[p].source
  BY DEF Follows, Busy
<1> SUFFICES ASSUME Orderly, NEW r \in Refs, manifests'[r] # NoDigest, ~Touched(r)'
             PROVE  manifests'[r] \in blobs'
  BY <1>1 DEF Backed, Orderly
<1>3. r[1] # job[p].source
  BY <1>2 DEF Touched
<1>4. manifests'[r] = manifests[r]
  BY <1>3 DEF Follows, Effects
<1>5. ~Touched(r)
  BY <1>1, <1>3 DEF Touched
<1> QED BY <1>4, <1>5 DEF IInv, Shared, Backed

LEMMA BackedBefore ==
    ASSUME IInv, NEW p \in Procs, Turn(p), UNCHANGED <<world, store>>,
           pc[p] \in {"idle", "dump", "put"}, pc'[p] \in {"idle", "dump", "put"}
    PROVE  Backed'
<1>1. \A q \in Procs \ {p} : pc'[q] = pc[q] /\ job'[q] = job[q]
  BY DEF Turn
<1>2. ASSUME NEW r \in Refs, ~Touched(r)' PROVE ~Touched(r)
  BY <1>1, <1>2 DEF Touched
<1> QED BY <1>2 DEF IInv, Shared, Backed, Orderly, store

(* The copy is over: its references name bytes that are there, or nothing. *)
LEMMA BackedAfter ==
    ASSUME IInv, NEW p \in Procs, Follows(p), UNCHANGED blobs,
           Orderly => \A r \in Refs : r[1] = job[p].source /\ manifests'[r] # NoDigest =>
                                         manifests'[r] \in blobs
    PROVE  Backed'
<1>1. /\ world' = world /\ \A q \in Procs \ {p} : pc'[q] = pc[q] /\ job'[q] = job[q]
  BY DEF Follows, Effects, Turn
<1> SUFFICES ASSUME Orderly, NEW r \in Refs, manifests'[r] # NoDigest, ~Touched(r)',
                    r[1] # job[p].source
             PROVE  manifests'[r] \in blobs
  BY <1>1 DEF Backed, Orderly
<1>2. manifests'[r] = manifests[r]
  BY DEF Follows, Effects
<1>3. ~Touched(r)
  BY <1>1 DEF Touched
<1> QED BY <1>2, <1>3 DEF IInv, Shared, Backed

(* Outside the two steps that reap it, a copy has no shadow reference. *)
ReapsShadow(p) == pc[p] = "put_masked" \/ (pc[p] \in Discarding /\ job[p].discard.ref = ShadowRef(p))

LEMMA NoShadow ==
    ASSUME IInv, NEW p \in Procs, Busy(p), ~ReapsShadow(p), Orderly
    PROVE  manifests[ShadowRef(p)] = NoDigest
<1> SUFFICES ASSUME manifests[ShadowRef(p)] # NoDigest PROVE FALSE
  OBVIOUS
<1>1. LocalsOK(p) /\ TypeOK /\ pc[p] # "idle"
  BY DEF IInv, Proc, Busy
<1>2. job[p].source \in Sources
  BY <1>1, Working
<1>3. PICK q \in Procs : /\ job[q].source = job[p].source
                         /\ \/ pc[q] = "put_masked"
                            \/ pc[q] \in Discarding /\ job[q].discard.ref = ShadowRef(p)
  BY <1>2 DEF IInv, Shared, ShadowsReaped, ShadowRef
<1>4. Apart /\ Busy(q)
  BY <1>3 DEF Orderly, Apart, Busy, Discarding
<1>5. q = p
  BY <1>3, <1>4 DEF IInv, Pairs
<1> QED BY <1>3, <1>5 DEF ReapsShadow

LEMMA ShadowsStay ==
    ASSUME IInv, NEW p \in Procs, Follows(p),
           \/ Busy(p)' /\ ReapsShadow(p)'
           \/ ~ReapsShadow(p) /\ manifests'[ShadowRef(p)] = manifests[ShadowRef(p)]
           \/ Orderly => manifests'[ShadowRef(p)] = NoDigest
    PROVE  ShadowsReaped'
<1>1. /\ world' = world /\ \A q \in Procs \ {p} : pc'[q] = pc[q] /\ job'[q] = job[q]
      /\ LocalsOK(p) /\ TypeOK /\ pc[p] # "idle"
  BY DEF Follows, Effects, Turn, IInv, Proc, Busy
<1> SUFFICES ASSUME Orderly, NEW s \in Sources, manifests'[<<s, "raw">>] # NoDigest
             PROVE  \E q \in Procs :
                       /\ job'[q].source = s
                       /\ \/ pc'[q] = "put_masked"
                          \/ pc'[q] \in Discarding /\ job'[q].discard.ref = <<s, "raw">>
  BY <1>1 DEF ShadowsReaped, Orderly
<1>2. CASE s = job[p].source
  <2>1. manifests'[ShadowRef(p)] # NoDigest
    BY <1>2 DEF ShadowRef
  <2>2. Busy(p)' /\ ReapsShadow(p)'
    BY <2>1, NoShadow DEF Follows
  <2>3. job'[p].source = s
    BY <1>2, <2>2 DEF Follows
  <2> QED BY <2>2, <2>3 DEF ReapsShadow, ShadowRef
<1>3. CASE s # job[p].source
  <2>1. manifests'[<<s, "raw">>] = manifests[<<s, "raw">>]
    BY <1>3, RefFields DEF Follows, Effects
  <2> QED BY <1>1, <1>3, <2>1 DEF IInv, Shared, ShadowsReaped
<1> QED BY <1>2, <1>3

(* What is left to show of a step. *)
LEMMA StepKeeps ==
    ASSUME IInv, NEW p \in Procs, Follows(p), TypeOK', Proc(p)', Backed', ShadowsReaped',
           DeliversOwn',
           \A e \in ended' \ ended : Apart /\ Unequal /\ e.job.captured \in blobs' => Reaped(e),
           \/ Busy(p)'
           \/ world \cap {"crash", "rm"} = {} => \A o \in outside' : o[1] # job[p].n
    PROVE  IInv'
<1>1. \A q \in Procs : Proc(q)'
  BY OthersKeep DEF Follows
<1>2. Pairs' /\ Numbered' /\ EndedOver' /\ RawReaped' /\ NothingLeftOutside'
  BY PairsFollow, NumberedFollows, EndedOverFollows, RawReapedFollows, OutsideFollows
<1> QED BY <1>1, <1>2 DEF IInv, Shared
-----------------------------------------------------------------------------
(* The two halves of Effects.                                              *)
StoreOf(p) ==
    /\ Store!TypeOK'
    /\ \A r \in Refs : \/ manifests'[r] = manifests[r]
                       \/ /\ Busy(p) /\ r[1] = job[p].source
                          /\ manifests'[r] \in {NoDigest, job[p].captured, job[p].masked}
    /\ \A d \in blobs' : d \in blobs \/ (Busy(p) /\ d \in {job[p].captured, job[p].masked})

OutsideOf(p) ==
    /\ outside' \subseteq Copies \X Things
    /\ \A o \in outside' : o \in outside \/ (Busy(p) /\ o[1] = job[p].n)

LEMMA Under ==
    ASSUME IInv, NEW p \in Procs, pc[p] # "idle"
    PROVE  /\ TypeOK /\ Proc(p) /\ LocalsOK(p) /\ Busy(p)
           /\ job[p] \in Jobs /\ job[p] # NoJob
           /\ job[p].n \in Copies /\ job[p].n \in Nat /\ job[p].n >= 1 /\ job[p].source \in Sources
           /\ job[p].captured \in Digests \cup {NoDigest} /\ job[p].masked \in Digests \cup {NoDigest}
           /\ job[p].component \in Digests \cup {NoDigest} /\ job[p].discard \in Discards
           /\ Ref(p) \in Refs /\ ShadowRef(p) \in Refs /\ Ref(p) # ShadowRef(p)
           /\ Ref(p)[1] = job[p].source /\ ShadowRef(p)[1] = job[p].source
           /\ \A r \in Refs : r[1] = job[p].source => r \in {Ref(p), ShadowRef(p)}
BY Working DEF IInv, Proc, Busy

LEMMA StoreSame ==
    ASSUME IInv, NEW p \in Procs, UNCHANGED store
    PROVE  StoreOf(p) /\ blobs' = blobs /\ manifests' = manifests
BY DEF IInv, TypeOK, Store!TypeOK, StoreOf, store

LEMMA StorePut ==
    ASSUME IInv, NEW p \in Procs, pc[p] # "idle", NEW r \in {Ref(p), ShadowRef(p)},
           NEW d \in {NoDigest, job[p].captured, job[p].masked},
           Store!Put(r, d) \/ (d = NoDigest /\ Store!UnlinkManifest(r))
    PROVE  /\ StoreOf(p) /\ blobs' = blobs /\ manifests'[r] = d
           /\ \A q \in Refs \ {r} : manifests'[q] = manifests[q]
<1>1. /\ r \in Refs /\ r[1] = job[p].source /\ d \in Digests \cup {NoDigest} /\ Busy(p)
      /\ Store!TypeOK
  BY Under DEF TypeOK
<1>2. manifests' = [manifests EXCEPT ![r] = d] /\ blobs' = blobs
  BY DEF Store!Put, Store!UnlinkManifest
<1>3. manifests'[r] = d /\ \A q \in Refs \ {r} : manifests'[q] = manifests[q]
  BY <1>1, <1>2 DEF Store!TypeOK
<1>4. Store!TypeOK'
  BY <1>1, <1>2 DEF Store!TypeOK
<1> QED BY <1>1, <1>2, <1>3, <1>4 DEF StoreOf

LEMMA StoreStage ==
    ASSUME IInv, NEW p \in Procs, pc[p] # "idle", NEW d \in {job[p].captured, job[p].masked},
           d # NoDigest, Store!Stage(d)
    PROVE  StoreOf(p) /\ blobs' = blobs \cup {d} /\ manifests' = manifests
<1>1. d \in Digests /\ Busy(p) /\ Store!TypeOK
  BY Under DEF TypeOK
<1> QED BY <1>1 DEF Store!Stage, Store!TypeOK, StoreOf

LEMMA OutsideSame ==
    ASSUME IInv, NEW p \in Procs, UNCHANGED outside
    PROVE  OutsideOf(p)
BY DEF IInv, TypeOK, OutsideOf

LEMMA OutsideCreates ==
    ASSUME IInv, NEW p \in Procs, pc[p] # "idle", NEW t \in Things, Creates(p, t)
    PROVE  OutsideOf(p) /\ \A o \in outside' : o \in outside \/ (o[1] = job[p].n /\ o[2] = t)
<1>1. job[p].n \in Copies /\ Busy(p) /\ TypeOK
  BY Under
<1>2. \A o \in outside' : o \in outside \/ o = <<job[p].n, t>>
  BY DEF Creates
<1> QED BY <1>1, <1>2 DEF TypeOK, OutsideOf

LEMMA OutsideRemoves ==
    ASSUME IInv, NEW p \in Procs, NEW T, Removes(p, T)
    PROVE  /\ OutsideOf(p) /\ outside' \subseteq outside
           /\ \A o \in outside' : o[1] = job[p].n => o[2] \notin T
<1>1. outside' \subseteq outside /\ TypeOK
  BY DEF Removes, IInv
<1>2. ASSUME NEW o \in outside', o[1] = job[p].n, o[2] \in T PROVE FALSE
  <2>1. o = <<o[1], o[2]>>
    BY <1>1 DEF TypeOK
  <2> QED BY <1>2, <2>1 DEF Removes
<1> QED BY <1>1, <1>2 DEF TypeOK, OutsideOf

-----------------------------------------------------------------------------
LEMMA MovesFollow ==
    ASSUME IInv, NEW p \in Procs, pc[p] # "idle", NEW l \in Positions \ {"idle"}, Moves(p, l),
           UNCHANGED <<world, started, ended>>, StoreOf(p), OutsideOf(p)
    PROVE  Follows(p) /\ Busy(p)'
<1>1. started \in Nat
  BY DEF IInv, TypeOK
<1> QED BY <1>1, Under DEF Follows, Effects, StoreOf, OutsideOf, Moves, Busy

LEMMA EndsFollow ==
    ASSUME IInv, NEW p \in Procs, pc[p] # "idle", Ends(p), UNCHANGED <<world, started>>,
           StoreOf(p), OutsideOf(p),
           \A e \in ended' : e \in ended \/ (e.job.n = job[p].n /\ e.job.captured = job[p].captured)
    PROVE  Follows(p)
<1>1. started \in Nat
  BY DEF IInv, TypeOK
<1> QED BY <1>1, Under DEF Follows, Effects, StoreOf, OutsideOf, Ends, Busy

LEMMA TypeKeeps ==
    ASSUME IInv, NEW p \in Procs, Turn(p), UNCHANGED world, started' \in 0..MaxCopies,
           StoreOf(p), OutsideOf(p), delivered' \subseteq [job : Jobs, got : Digests],
           ended' \subseteq [job : Jobs, outcome : {"succeeded", "raised"}]
    PROVE  TypeOK'
BY DEF IInv, TypeOK, Turn, StoreOf, OutsideOf

LEMMA EndsProc ==
    ASSUME NEW p \in Procs, TypeOK', Ends(p)
    PROVE  Proc(p)'
<1>1. /\ pc'[p] = "idle" /\ job'[p] = NoJob /\ started' \in Nat
      /\ \A o \in outside' : o[1] # 0
      /\ NoDigest \notin blobs' /\ \A r \in Refs : manifests'[r] # NoDigest => manifests'[r].n # 0
  BY DigestFields DEF Ends, TypeOK, Store!TypeOK, Copies
<1>2. LocalsOK(p)'
  BY <1>1, NoJobFields DEF LocalsOK, Masking, Delivering, Discarding
<1>3. RefsHeld(p)' /\ ScanHeld(p)'
  BY <1>1 DEF RefsHeld, ScanHeld, Masking, Delivering, Discarding
<1>4. RawHeld(p)' /\ OutsideHeld(p)' /\ OwnDigests(p)'
  BY <1>1, NoJobFields DEF RawHeld, Passed, Blind, OutsideHeld, OwnDigests
<1> QED BY <1>2, <1>3, <1>4 DEF Proc

LEMMA MovesOwn ==
    ASSUME IInv, NEW p \in Procs, Follows(p), Busy(p)', pc'[p] \notin {"dump", "put", "stage"}
    PROVE  OwnDigests(p)'
<1>1. /\ world' = world /\ job'[p].n = job[p].n /\ job'[p].source = job[p].source /\ OwnDigests(p)
  BY DEF Follows, Effects, IInv, Proc
<1> QED BY <1>1 DEF OwnDigests, Unequal, Follows, Effects

(* What was delivered was delivered rightly. *)
Delivers == DeliversOwn' /\ delivered' \subseteq [job : Jobs, got : Digests]

LEMMA DeliversSame ==
    ASSUME IInv, UNCHANGED <<world, delivered>>
    PROVE  Delivers
BY DEF IInv, TypeOK, Shared, DeliversOwn, Delivers, Apart, Expected

(* A copy that moves on: what is left to show. *)
LEMMA MovesKeep ==
    ASSUME IInv, NEW p \in Procs, pc[p] # "idle",
           NEW l \in Positions \ {"idle", "dump", "put", "stage", "unlink"}, Moves(p, l),
           UNCHANGED <<world, started, ended>>, StoreOf(p), OutsideOf(p), Delivers,
           blobs \subseteq blobs',
           \/ ReapsShadow(p)'
           \/ ~ReapsShadow(p) /\ manifests'[ShadowRef(p)] = manifests[ShadowRef(p)]
           \/ Orderly => manifests'[ShadowRef(p)] = NoDigest,
           LocalsOK(p)', RefsHeld(p)', RawHeld(p)', OutsideHeld(p)'
    PROVE  IInv'
<1>1. Follows(p) /\ Busy(p)' /\ pc'[p] = l /\ Turn(p)
  BY MovesFollow DEF Moves
<1>2. TypeOK'
  BY <1>1, TypeKeeps DEF IInv, TypeOK, Delivers
<1>3. Proc(p)'
  BY <1>1, MovesOwn DEF Proc, ScanHeld
<1>4. Backed' /\ ShadowsReaped'
  BY <1>1, BackedStays, ShadowsStay
<1> QED BY <1>1, <1>2, <1>3, <1>4, StepKeeps DEF Delivers

(* The names of a copy are the same after the step. *)
LEMMA SameNames ==
    ASSUME NEW p \in Procs, NEW l, Moves(p, l)
    PROVE  Ref(p)' = Ref(p) /\ ShadowRef(p)' = ShadowRef(p) /\ Masks(job[p])' = Masks(job[p])
BY DEF Moves, Ref, ShadowRef, Masks

(* An exception after the capture. *)
LEMMA RaiseKeeps ==
    ASSUME IInv, NEW p \in Procs,
           pc[p] \in (Masking \ {"put_masked"}) \cup {"grant", "put_again"} \cup Delivering,
           Raise(p), UNCHANGED <<world, store, started, ended>>, OutsideOf(p), Delivers,
           world \cap {"crash", "rm"} = {} => \A o \in outside' : o[1] # job[p].n
    PROVE  IInv'
<1>1. /\ pc[p] # "idle" /\ pc[p] \notin {"dump"} /\ pc[p] \notin Discarding /\ pc[p] # "put_masked"
      /\ "compensate" \in Positions /\ ~ReapsShadow(p)
  BY DEF Masking, Delivering, Discarding, Positions, ReapsShadow
<1>2. Proc(p) /\ job[p] \in Jobs /\ TypeOK /\ job[p] # NoJob
  BY <1>1, Under
<1>3. Moves(p, "compensate") /\ job'[p] = job[p] /\ pc'[p] = "compensate"
  BY <1>1, <1>2, MovesOn DEF Raise, Moves
<1>4. Ref(p)' = Ref(p)
  BY <1>3, SameNames
<1>5. blobs' = blobs /\ manifests' = manifests /\ StoreOf(p)
  BY StoreSame
<1>6. LocalsOK(p)'
  BY <1>1, <1>2, <1>3 DEF Proc, LocalsOK, Masking, Delivering, Discarding, Unequal
<1>7. RefsHeld(p)'
  <2>1. Apart => manifests[Ref(p)] \in {job[p].captured, job[p].masked}
    BY <1>2 DEF Proc, RefsHeld, Expected
  <2> QED BY <1>3, <1>4, <1>5, <2>1 DEF RefsHeld, Masking, Delivering, Discarding, Apart
<1>8. RawHeld(p)'
  <2>1. Apart /\ Unequal /\ job[p].captured \in blobs => job[p].unclean \/ OnlyRef(p, Ref(p))
    BY <1>2 DEF Proc, RawHeld, Passed, Blind
  <2>2. OnlyRef(p, Ref(p)) => OnlyRef(p, Ref(p))'
    BY <1>3, <1>4, <1>5 DEF OnlyRef, Elsewhere
  <2> QED
    BY <1>3, <1>4, <1>5, <2>1, <2>2 DEF RawHeld, Passed, Blind, Masking, Delivering, Discarding, Apart, Unequal
<1>9. OutsideHeld(p)'
  BY <1>3 DEF OutsideHeld
<1> QED BY <1>1, <1>3, <1>5, <1>6, <1>7, <1>8, <1>9, MovesKeep

(* Nothing is outside while the position has no temporary files. *)
LEMMA NoneOutside ==
    ASSUME IInv, NEW p \in Procs, Temporary(p) = {}, world \cap {"crash", "rm"} = {}
    PROVE  \A o \in outside : o[1] # job[p].n
BY DEF IInv, Proc, OutsideHeld

LEMMA GrantKeeps ==
    ASSUME IInv, NEW p \in Procs, Grant(p), UNCHANGED world
    PROVE  IInv'
<1>1. pc[p] = "grant" /\ UNCHANGED <<store, outside, started, delivered, ended>>
  BY DEF Grant, books
<1>2. /\ Proc(p) /\ job[p] \in Jobs /\ TypeOK /\ job[p] # NoJob /\ job[p].raw = TRUE
      /\ ~ReapsShadow(p)
  BY <1>1, Under, JobFields DEF LocalsOK, ReapsShadow, Discarding
<1>3. OutsideOf(p) /\ StoreOf(p) /\ Delivers /\ blobs' = blobs /\ manifests' = manifests
  BY <1>1, OutsideSame, StoreSame, DeliversSame
<1>4. Temporary(p) = {}
  BY <1>1 DEF Temporary
<1>5. CASE Raise(p)
  BY <1>1, <1>3, <1>4, <1>5, RaiseKeeps, NoneOutside
<1>6. CASE Goto(p, "validate") /\ With(p, [job[p] EXCEPT !.granted = TRUE])
  <2> DEFINE u == [job[p] EXCEPT !.granted = TRUE]
  <2>1. /\ SameCopy(u, job[p]) /\ u.captured = job[p].captured /\ u.masked = job[p].masked
        /\ u.granted = TRUE /\ u.ok = job[p].ok /\ u.residual = job[p].residual /\ u.unclean = job[p].unclean
    BY <1>2, SetGranted
  <2>2. With(p, u) /\ Goto(p, "validate")
    BY <1>6
  <2> HIDE DEF u
  <2>3. Moves(p, "validate") /\ job'[p] = u /\ pc'[p] = "validate"
    BY <1>2, <2>1, <2>2, MovesWith DEF SameCopy, Moves, Positions
  <2>4. Ref(p)' = Ref(p) /\ Masks(u) = FALSE /\ Expected(u) = u.captured /\ u # NoJob
    BY <1>2, <2>1, <2>3, SameNames, JobFields DEF Masks, Expected, SameCopy
  <2>5. LocalsOK(p)'
    BY <1>1, <1>2, <2>1, <2>3, <2>4
    DEF Proc, LocalsOK, Masking, Delivering, Discarding, Unequal, SameCopy
  <2>6. RefsHeld(p)'
    BY <1>1, <1>2, <1>3, <2>1, <2>3, <2>4
    DEF Proc, RefsHeld, Masking, Delivering, Discarding, Apart
  <2>7. RawHeld(p)'
    BY <1>1, <1>2, <1>3, <2>1, <2>3, <2>4
    DEF Proc, RawHeld, Passed, Blind, OnlyRef, Elsewhere, Masking, Delivering, Discarding, Apart, Unequal
  <2>8. OutsideHeld(p)'
    BY <1>1, <1>4, <2>1, <2>3, NoneOutside DEF OutsideHeld, SameCopy
  <2> QED BY <1>1, <1>2, <1>3, <2>3, <2>5, <2>6, <2>7, <2>8, MovesKeep DEF Positions
<1> QED BY <1>5, <1>6 DEF Grant
-----------------------------------------------------------------------------
(* The mask transform.                                                     *)
LEMMA MaskingKeeps ==
    ASSUME IInv, NEW p \in Procs, pc[p] \in Masking \ {"put_masked"},
           NEW l \in Masking \ {"put_masked"}, Moves(p, l),
           job'[p].captured = job[p].captured,
           UNCHANGED <<world, manifests, started, delivered, ended>>,
           StoreOf(p), OutsideOf(p), blobs \subseteq blobs',
           job[p].captured \in blobs' => job[p].captured \in blobs,
           LocalsOK(p)', OutsideHeld(p)'
    PROVE  IInv'
<1>1. /\ pc[p] # "idle" /\ ~ReapsShadow(p) /\ pc'[p] = l /\ Delivers
      /\ l \in Positions \ {"idle", "dump", "put", "stage", "unlink"}
      /\ l \notin {"stage", "grant", "put_again", "compensate"} \cup Delivering \cup Discarding
      /\ l # "put_masked"
  BY DeliversSame DEF Masking, Discarding, Delivering, ReapsShadow, Positions, Moves
<1>2. Proc(p)
  BY <1>1, Under
<1>3. Ref(p)' = Ref(p)
  BY SameNames
<1>4. RefsHeld(p)'
  <2>1. Apart => manifests[Ref(p)] = job[p].captured
    BY <1>2 DEF Proc, RefsHeld
  <2> QED BY <1>1, <1>3, <2>1 DEF RefsHeld, Apart, Masking, Delivering, Discarding
<1>5. RawHeld(p)'
  <2>1. Apart /\ Unequal /\ job[p].captured \in blobs => OnlyRef(p, Ref(p))
    BY <1>2 DEF Proc, RawHeld, Passed, Blind
  <2>2. OnlyRef(p, Ref(p)) => OnlyRef(p, Ref(p))'
    BY <1>3 DEF OnlyRef, Elsewhere
  <2> QED
    BY <1>1, <1>3, <2>1, <2>2 DEF RawHeld, Passed, Blind, Apart, Unequal, Masking, Delivering, Discarding
<1> QED BY <1>1, <1>4, <1>5, MovesKeep

LEMMA OpenRawKeeps ==
    ASSUME IInv, NEW p \in Procs, OpenRaw(p), UNCHANGED world
    PROVE  IInv'
<1>1. pc[p] = "open" /\ UNCHANGED <<store, outside, started, delivered, ended>>
  BY DEF OpenRaw, books
<1>2. Proc(p) /\ job[p] \in Jobs /\ TypeOK /\ job[p] # NoJob
  BY <1>1, Under
<1>3. OutsideOf(p) /\ StoreOf(p) /\ Delivers /\ blobs' = blobs /\ manifests' = manifests
  BY <1>1, OutsideSame, StoreSame, DeliversSame
<1>4. Temporary(p) = {}
  BY <1>1 DEF Temporary
<1>5. CASE Raise(p)
  BY <1>1, <1>3, <1>4, <1>5, RaiseKeeps, NoneOutside DEF Masking
<1>6. CASE Goto(p, "scratch") /\ UNCHANGED job
  <2>1. Moves(p, "scratch") /\ job'[p] = job[p] /\ pc'[p] = "scratch"
    BY <1>2, <1>6, MovesOn DEF Moves, Positions
  <2>2. LocalsOK(p)'
    BY <1>1, <1>2, <2>1 DEF Proc, LocalsOK, Masking, Delivering, Discarding, Unequal
  <2>3. OutsideHeld(p)'
    BY <1>1, <1>4, <2>1, NoneOutside DEF OutsideHeld
  <2> QED BY <1>1, <1>3, <2>1, <2>2, <2>3, MaskingKeeps DEF Masking
<1> QED BY <1>5, <1>6 DEF OpenRaw

(* Into the finally block that removes the container. *)
LEMMA RemoveScratchKeeps ==
    ASSUME IInv, NEW p \in Procs, pc[p] \in {"scratch", "load", "mask"}, RemoveScratch(p, FALSE),
           UNCHANGED <<world, store, started, delivered, ended>>, OutsideOf(p),
           \A o \in outside' : o \in outside \/ o[2] \in {"scratch", "loaded scratch"}
    PROVE  IInv'
<1>1. Proc(p) /\ job[p] \in Jobs /\ TypeOK
  BY Under
<1>2. StoreOf(p) /\ blobs' = blobs /\ manifests' = manifests
  BY StoreSame
<1> DEFINE u == [job[p] EXCEPT !.ok = FALSE]
<1>3. /\ SameCopy(u, job[p]) /\ u.captured = job[p].captured /\ u.masked = job[p].masked
      /\ u.ok = FALSE
  BY <1>1, SetOk
<1>4. With(p, u) /\ Goto(p, "rm")
  BY DEF RemoveScratch
<1> HIDE DEF u
<1>5. Moves(p, "rm") /\ job'[p] = u /\ pc'[p] = "rm" /\ u # NoJob
  BY <1>1, <1>3, <1>4, MovesSame DEF Positions
<1>6. LocalsOK(p)'
  BY <1>1, <1>3, <1>5
  DEF Proc, LocalsOK, Masking, Delivering, Discarding, Unequal, SameCopy, Masks
<1>7. OutsideHeld(p)'
  <2>1. Temporary(p) \subseteq {"scratch", "loaded scratch"}
    BY DEF Temporary
  <2>2. Temporary(p)' = {"scratch", "loaded scratch"}
    BY <1>3, <1>5 DEF Temporary
  <2> QED BY <1>1, <1>3, <1>5, <2>1, <2>2 DEF Proc, OutsideHeld, SameCopy
<1> QED BY <1>2, <1>3, <1>5, <1>6, <1>7, MaskingKeeps DEF Masking

LEMMA StartScratchKeeps ==
    ASSUME IInv, NEW p \in Procs, StartScratch(p), UNCHANGED world
    PROVE  IInv'
<1>1. pc[p] = "scratch" /\ UNCHANGED <<store, started, delivered, ended>> /\ "scratch" \in Things
  BY DEF StartScratch, books, Things
<1>2. Proc(p) /\ job[p] \in Jobs /\ TypeOK /\ job[p] # NoJob
  BY <1>1, Under
<1>3. StoreOf(p) /\ blobs' = blobs /\ manifests' = manifests
  BY <1>1, StoreSame
<1>4. Creates(p, "scratch") => OutsideOf(p) /\ \A o \in outside' : o \in outside \/ o[2] = "scratch"
  BY <1>1, OutsideCreates
<1>5. CASE Creates(p, "scratch") /\ Goto(p, "load") /\ UNCHANGED job
  <2>1. Moves(p, "load") /\ job'[p] = job[p] /\ pc'[p] = "load"
    BY <1>2, <1>5, MovesOn DEF Moves, Positions
  <2>2. LocalsOK(p)'
    BY <1>1, <1>2, <2>1 DEF Proc, LocalsOK, Masking, Delivering, Discarding, Unequal
  <2>3. OutsideHeld(p)'
    <3>1. Temporary(p) = {} /\ Temporary(p)' = {"scratch", "loaded scratch"}
      BY <1>1, <2>1 DEF Temporary
    <3> QED BY <1>4, <1>5, <2>1, <3>1, NoneOutside DEF OutsideHeld
  <2> QED BY <1>1, <1>3, <1>4, <1>5, <2>1, <2>2, <2>3, MaskingKeeps DEF Masking
<1>6. CASE (Creates(p, "scratch") \/ UNCHANGED outside) /\ RemoveScratch(p, FALSE)
  <2>1. OutsideOf(p) /\ \A o \in outside' : o \in outside \/ o[2] \in {"scratch", "loaded scratch"}
    BY <1>4, <1>6, OutsideSame
  <2> QED BY <1>1, <1>6, <2>1, RemoveScratchKeeps
<1> QED BY <1>5, <1>6 DEF StartScratch

LEMMA LoadKeeps ==
    ASSUME IInv, NEW p \in Procs, Load(p), UNCHANGED world
    PROVE  IInv'
<1>1. pc[p] = "load" /\ UNCHANGED <<store, started, delivered, ended>> /\ "loaded scratch" \in Things
  BY DEF Load, books, Things
<1>2. Proc(p) /\ job[p] \in Jobs /\ TypeOK /\ job[p] # NoJob
  BY <1>1, Under
<1>3. StoreOf(p) /\ blobs' = blobs /\ manifests' = manifests
  BY <1>1, StoreSame
<1>4. Creates(p, "loaded scratch") =>
         OutsideOf(p) /\ \A o \in outside' : o \in outside \/ o[2] = "loaded scratch"
  BY <1>1, OutsideCreates
<1>5. CASE Creates(p, "loaded scratch") /\ Goto(p, "mask") /\ UNCHANGED job
  <2>1. Moves(p, "mask") /\ job'[p] = job[p] /\ pc'[p] = "mask"
    BY <1>2, <1>5, MovesOn DEF Moves, Positions
  <2>2. LocalsOK(p)'
    BY <1>1, <1>2, <2>1 DEF Proc, LocalsOK, Masking, Delivering, Discarding, Unequal
  <2>3. OutsideHeld(p)'
    <3>1. /\ Temporary(p) = {"scratch", "loaded scratch"}
          /\ Temporary(p)' = {"scratch", "loaded scratch"}
      BY <1>1, <2>1 DEF Temporary
    <3> QED BY <1>2, <1>4, <1>5, <2>1, <3>1 DEF Proc, OutsideHeld
  <2> QED BY <1>1, <1>3, <1>4, <1>5, <2>1, <2>2, <2>3, MaskingKeeps DEF Masking
<1>6. CASE (Creates(p, "loaded scratch") \/ UNCHANGED outside) /\ RemoveScratch(p, FALSE)
  <2>1. OutsideOf(p) /\ \A o \in outside' : o \in outside \/ o[2] \in {"scratch", "loaded scratch"}
    BY <1>4, <1>6, OutsideSame
  <2> QED BY <1>1, <1>6, <2>1, RemoveScratchKeeps
<1> QED BY <1>5, <1>6 DEF Load

LEMMA DumpFields ==
    ASSUME NEW k \in {"raw", "masked"}, NEW n \in Copies, NEW d \in DumpOf(k, n)
    PROVE  d \in Digests /\ d # NoDigest /\ d.kind = k /\ d.n <= n /\ (Unequal => d.n = n)
<1>1. n \in Nat /\ n >= 1 /\ n <= MaxCopies /\ MaxCopies \in Nat
  BY CopiesAssumption DEF Copies
<1>2. d.kind = k /\ d = [kind |-> d.kind, n |-> d.n] /\ d.n \in IF "same_bytes" \in world THEN 1..n ELSE {n}
  BY DEF DumpOf
<1>3. d.n \in 1..n /\ (Unequal => d.n = n)
  BY <1>1, <1>2 DEF Unequal
<1>4. d.n \in Copies /\ d.n <= n
  BY <1>1, <1>3 DEF Copies
<1>5. d \in Digests
  BY <1>2, <1>4 DEF Digests
<1> QED BY <1>2, <1>3, <1>4, <1>5, DigestFields

LEMMA MaskKeeps ==
    ASSUME IInv, NEW p \in Procs, Mask(p), UNCHANGED world
    PROVE  IInv'
<1>1. pc[p] = "mask" /\ UNCHANGED <<store, started, delivered, ended>> /\ "masked dump" \in Things
  BY DEF Mask, books, Things
<1>2. /\ Proc(p) /\ job[p] \in Jobs /\ TypeOK /\ job[p] # NoJob /\ job[p].n \in Copies
      /\ job[p].n \in Nat
  BY <1>1, Under
<1>3. StoreOf(p) /\ blobs' = blobs /\ manifests' = manifests
  BY <1>1, StoreSame
<1>4. CASE RemoveScratch(p, FALSE) /\ UNCHANGED outside
  BY <1>1, <1>4, OutsideSame, RemoveScratchKeeps
<1>5. ASSUME NEW d \in DumpOf("masked", job[p].n), Creates(p, "masked dump"), Goto(p, "rm"),
             With(p, [job[p] EXCEPT !.masked = d])
      PROVE  IInv'
  <2> DEFINE u == [job[p] EXCEPT !.masked = d]
  <2>1. d \in Digests /\ d # NoDigest /\ d.kind = "masked" /\ d.n <= job[p].n /\ (Unequal => d.n = job[p].n)
    BY <1>2, DumpFields
  <2>2. /\ SameCopy(u, job[p]) /\ u.captured = job[p].captured /\ u.masked = d /\ u.ok = job[p].ok
    BY <1>2, <2>1, SetMasked
  <2>3. With(p, u) /\ Goto(p, "rm") /\ "rm" \in Positions
    BY <1>5 DEF Positions
  <2> HIDE DEF u
  <2>4. Moves(p, "rm") /\ pc'[p] = "rm" /\ job'[p] = u /\ u # NoJob
    BY <1>2, <2>2, <2>3, MovesSame
  <2>5. OutsideOf(p) /\ \A o \in outside' : o \in outside \/ o[2] = "masked dump"
    BY <1>1, <1>5, OutsideCreates
  <2>6. d.n <= started
    <3>1. d.n \in Nat /\ job[p].n <= started /\ started \in Nat
      BY <1>2, <2>1, DigestFields DEF Proc, LocalsOK, TypeOK
    <3> QED BY <1>2, <2>1, <3>1
  <2>7. LocalsOK(p)'
    BY <1>1, <1>2, <2>1, <2>2, <2>4, <2>6
    DEF Proc, LocalsOK, Masking, Delivering, Discarding, Unequal, SameCopy, Masks
  <2>8. OutsideHeld(p)'
    <3>1. Temporary(p) = {"scratch", "loaded scratch"} /\ job[p].ok
      BY <1>1, <1>2 DEF Temporary, Proc, LocalsOK
    <3>2. Temporary(p)' = {"scratch", "loaded scratch", "masked dump"}
      BY <2>2, <2>4, <3>1 DEF Temporary
    <3> QED BY <1>2, <2>2, <2>4, <2>5, <3>1, <3>2 DEF Proc, OutsideHeld, SameCopy
  <2> QED BY <1>1, <1>3, <2>2, <2>4, <2>5, <2>7, <2>8, MaskingKeeps DEF Masking
<1> QED BY <1>4, <1>5 DEF Mask

LEMMA RmKeeps ==
    ASSUME IInv, NEW p \in Procs, Rm(p), UNCHANGED world
    PROVE  IInv'
<1> DEFINE scratch == {"scratch", "loaded scratch"}
<1>1. pc[p] = "rm" /\ UNCHANGED <<job, store, started, delivered, ended>>
  BY DEF Rm, books
<1>2. Proc(p) /\ job[p] \in Jobs /\ TypeOK /\ job[p] # NoJob
  BY <1>1, Under
<1>3. StoreOf(p) /\ blobs' = blobs /\ manifests' = manifests /\ Delivers
  BY <1>1, StoreSame, DeliversSame
<1>4. \/ job[p].ok /\ Removes(p, scratch) /\ Goto(p, "stage_masked")
      \/ job[p].ok /\ "rm" \in world /\ Goto(p, "stage_masked") /\ UNCHANGED outside
      \/ ~job[p].ok /\ Removes(p, scratch) /\ Goto(p, "compensate")
      \/ "rm" \in world /\ Removes(p, {"masked dump"}) /\ Goto(p, "compensate")
  BY DEF Rm
<1>5. Temporary(p) = scratch \cup (IF job[p].ok THEN {"masked dump"} ELSE {})
  BY <1>1 DEF Temporary
<1>6. world \cap {"crash", "rm"} = {} =>
         /\ "rm" \notin world
         /\ \A o \in outside : o[1] = job[p].n => o[2] \in Temporary(p)
  BY <1>2 DEF Proc, OutsideHeld
<1> HIDE DEF scratch
<1>7. CASE /\ job[p].ok /\ Goto(p, "stage_masked")
           /\ Removes(p, scratch) \/ ("rm" \in world /\ UNCHANGED outside)
  <2>1. Moves(p, "stage_masked") /\ job'[p] = job[p] /\ pc'[p] = "stage_masked"
    BY <1>1, <1>2, <1>7, MovesOn DEF Moves, Positions
  <2>2. LocalsOK(p)'
    BY <1>1, <1>2, <1>7, <2>1 DEF Proc, LocalsOK, Masking, Delivering, Discarding, Unequal
  <2>3. /\ OutsideOf(p)
        /\ Removes(p, scratch) => outside' \subseteq outside /\ \A o \in outside' : o[1] = job[p].n => o[2] \notin scratch
    BY <1>7, OutsideSame, OutsideRemoves
  <2>4. OutsideHeld(p)'
    <3>1. Temporary(p)' = {"masked dump"}
      BY <2>1 DEF Temporary
    <3> QED BY <1>5, <1>6, <1>7, <2>1, <2>3, <3>1 DEF OutsideHeld
  <2> QED BY <1>1, <1>3, <2>1, <2>2, <2>3, <2>4, MaskingKeeps DEF Masking
<1>8. CASE ~job[p].ok /\ Removes(p, scratch) /\ Goto(p, "compensate")
  <2>1. OutsideOf(p) /\ outside' \subseteq outside /\ \A o \in outside' : o[1] = job[p].n => o[2] \notin scratch
    BY <1>8, OutsideRemoves
  <2>2. world \cap {"crash", "rm"} = {} => \A o \in outside' : o[1] # job[p].n
    BY <1>5, <1>6, <1>8, <2>1
  <2>3. Raise(p)
    BY <1>1, <1>8 DEF Raise
  <2> QED BY <1>1, <1>3, <2>1, <2>2, <2>3, RaiseKeeps DEF Masking
<1>9. CASE "rm" \in world /\ Removes(p, {"masked dump"}) /\ Goto(p, "compensate")
  <2>1. OutsideOf(p) /\ Raise(p)
    BY <1>1, <1>9, OutsideRemoves DEF Raise
  <2> QED BY <1>1, <1>3, <1>9, <2>1, RaiseKeeps DEF Masking
<1> QED BY <1>4, <1>7, <1>8, <1>9

LEMMA StageMaskedKeeps ==
    ASSUME IInv, NEW p \in Procs, StageMasked(p), UNCHANGED world
    PROVE  IInv'
<1>1. /\ pc[p] = "stage_masked" /\ UNCHANGED <<started, delivered, ended>>
      /\ Removes(p, {"masked dump"})
  BY DEF StageMasked, books
<1>2. /\ Proc(p) /\ LocalsOK(p) /\ job[p] \in Jobs /\ TypeOK /\ job[p] # NoJob /\ Delivers
      /\ job[p].captured \in Digests \cup {NoDigest}
  BY <1>1, Under, DeliversSame
<1>3. /\ job[p].masked # NoDigest /\ job[p].masked # job[p].captured
  BY <1>1, <1>2 DEF LocalsOK
<1>4. /\ OutsideOf(p) /\ outside' \subseteq outside
      /\ \A o \in outside' : o[1] = job[p].n => o[2] \notin {"masked dump"}
  BY <1>1, OutsideRemoves
<1>5. world \cap {"crash", "rm"} = {} => \A o \in outside' : o[1] # job[p].n
  <2>1. Temporary(p) = {"masked dump"}
    BY <1>1 DEF Temporary
  <2> QED BY <1>2, <1>4, <2>1 DEF Proc, OutsideHeld
<1>6. CASE UNCHANGED store /\ Raise(p)
  BY <1>1, <1>2, <1>4, <1>5, <1>6, RaiseKeeps DEF Masking
<1>7. CASE Store!Stage(job[p].masked) /\ Goto(p, "put_shadow") /\ UNCHANGED job
  <2>1. StoreOf(p) /\ blobs' = blobs \cup {job[p].masked} /\ manifests' = manifests
    BY <1>1, <1>3, <1>7, StoreStage
  <2>2. Moves(p, "put_shadow") /\ job'[p] = job[p] /\ pc'[p] = "put_shadow"
    BY <1>2, <1>7, MovesOn DEF Moves, Positions
  <2>3. LocalsOK(p)'
    BY <1>1, <1>2, <2>2 DEF LocalsOK, Masking, Delivering, Discarding, Unequal
  <2>4. OutsideHeld(p)'
    BY <1>5, <2>2 DEF OutsideHeld
  <2> QED BY <1>1, <1>3, <1>4, <2>1, <2>2, <2>3, <2>4, MaskingKeeps DEF Masking
<1> QED BY <1>6, <1>7 DEF StageMasked
-----------------------------------------------------------------------------
(* Back in run.                                                            *)
LEMMA PutShadowKeeps ==
    ASSUME IInv, NEW p \in Procs, PutShadow(p), UNCHANGED world
    PROVE  IInv'
<1>1. pc[p] = "put_shadow" /\ UNCHANGED <<outside, started, delivered, ended>>
  BY DEF PutShadow, books
<1>2. /\ Proc(p) /\ LocalsOK(p) /\ job[p] \in Jobs /\ TypeOK /\ job[p] # NoJob /\ Delivers
      /\ OutsideOf(p) /\ Ref(p) \in Refs /\ Ref(p) # ShadowRef(p)
  BY <1>1, Under, DeliversSame, OutsideSame
<1>3. Temporary(p) = {}
  BY <1>1 DEF Temporary
<1>4. CASE UNCHANGED store /\ Raise(p)
  BY <1>1, <1>2, <1>3, <1>4, RaiseKeeps, NoneOutside DEF Masking
<1>5. CASE Store!Put(ShadowRef(p), job[p].captured) /\ Goto(p, "put_masked") /\ UNCHANGED job
  <2>1. /\ StoreOf(p) /\ blobs' = blobs /\ manifests'[ShadowRef(p)] = job[p].captured
        /\ \A r \in Refs \ {ShadowRef(p)} : manifests'[r] = manifests[r]
    BY <1>1, <1>5, StorePut
  <2>2. Moves(p, "put_masked") /\ job'[p] = job[p] /\ pc'[p] = "put_masked"
    BY <1>2, <1>5, MovesOn DEF Moves, Positions
  <2>3. Ref(p)' = Ref(p) /\ ShadowRef(p)' = ShadowRef(p) /\ ReapsShadow(p)'
    BY <2>2, SameNames DEF ReapsShadow
  <2>4. LocalsOK(p)'
    BY <1>1, <1>2, <2>2 DEF LocalsOK, Masking, Delivering, Discarding, Unequal
  <2>5. RefsHeld(p)'
    <3>1. Apart => manifests'[Ref(p)] = job[p].captured
      BY <1>1, <1>2, <2>1 DEF Proc, RefsHeld, Masking
    <3> QED BY <2>1, <2>2, <2>3, <3>1 DEF RefsHeld, Masking, Delivering, Discarding, Apart
  <2>6. RawHeld(p)'
    <3>1. Apart /\ Unequal /\ job[p].captured \in blobs => Elsewhere(p, {Ref(p)})
      BY <1>1, <1>2 DEF Proc, RawHeld, Passed, Blind, OnlyRef, Masking
    <3>2. Elsewhere(p, {Ref(p)}) => Elsewhere(p, {Ref(p), ShadowRef(p)})'
      BY <2>1, <2>2, <2>3 DEF Elsewhere
    <3> QED
      BY <2>1, <2>2, <2>3, <3>1, <3>2 DEF RawHeld, Passed, Blind, Masking, Delivering, Discarding, Apart, Unequal
  <2>7. OutsideHeld(p)'
    BY <1>1, <1>3, <2>2, NoneOutside DEF OutsideHeld
  <2> QED BY <1>1, <1>2, <2>1, <2>2, <2>3, <2>4, <2>5, <2>6, <2>7, MovesKeep DEF Positions
<1> QED BY <1>4, <1>5 DEF PutShadow, PutThen

(* The start of a discard. *)
LEMMA DiscardMoves ==
    ASSUME IInv, NEW p \in Procs, pc[p] \notin {"idle", "dump"}, NEW r \in {Ref(p), ShadowRef(p)},
           NEW then \in {"raise", "validate", "compensate", "succeed"}, Discard(p, r, then),
           UNCHANGED <<world, started>>,
           \/ r = Ref(p) /\ then \in {"raise", "succeed"}
           \/ r = ShadowRef(p) /\ then \in {"validate", "compensate"} /\ Masks(job[p])
    PROVE  /\ Moves(p, "discard") /\ pc'[p] = "discard"
           /\ job'[p].captured = job[p].captured /\ job'[p].masked = job[p].masked
           /\ job'[p].residual = job[p].residual /\ job'[p].unclean = job[p].unclean
           /\ job'[p].discard.ref = r /\ job'[p].discard.then = then
           /\ LocalsOK(p)'
<1>1. Proc(p) /\ LocalsOK(p) /\ job[p] \in Jobs /\ TypeOK /\ r \in Refs
  BY Under
<1>2. PICK d : d = [NoDiscard EXCEPT !.ref = r, !.then = then]
  OBVIOUS
<1>3. d \in Discards /\ d.ref = r /\ d.then = then
  BY <1>1, <1>2 DEF Discards, NoDiscard
<1> DEFINE u == [job[p] EXCEPT !.discard = d]
<1>4. /\ SameCopy(u, job[p]) /\ u.captured = job[p].captured /\ u.masked = job[p].masked
      /\ u.granted = job[p].granted /\ u.discard = d /\ u.ok = job[p].ok
      /\ u.residual = job[p].residual /\ u.unclean = job[p].unclean
  BY <1>1, <1>3, SetDiscard
<1>5. With(p, u) /\ Goto(p, "discard") /\ "discard" \in Positions
  BY <1>2 DEF Discard, Positions
<1> HIDE DEF u
<1>6. Moves(p, "discard") /\ pc'[p] = "discard" /\ job'[p] = u /\ u # NoJob
  BY <1>1, <1>4, <1>5, MovesSame
<1>7. Ref(p)' = Ref(p) /\ ShadowRef(p)' = ShadowRef(p) /\ Masks(u) = Masks(job[p])
  BY <1>6, SameNames
<1>8. LocalsOK(p)'
  BY <1>1, <1>3, <1>4, <1>6, <1>7
  DEF LocalsOK, Masking, Delivering, Discarding, Unequal, SameCopy
<1> QED BY <1>3, <1>4, <1>6, <1>8

LEMMA DiscardKeeps ==
    ASSUME IInv, NEW p \in Procs, pc[p] # "idle", Moves(p, "discard"),
           UNCHANGED <<world, started, ended>>, StoreOf(p), OutsideOf(p), Delivers, blobs' = blobs,
           world \cap {"crash", "rm"} = {} => \A o \in outside' : o[1] # job[p].n,
           \/ ReapsShadow(p)'
           \/ ~ReapsShadow(p) /\ manifests'[ShadowRef(p)] = manifests[ShadowRef(p)],
           LocalsOK(p)', RefsHeld(p)', RawHeld(p)'
    PROVE  IInv'
<1>1. OutsideHeld(p)'
  BY DEF OutsideHeld, Moves
<1> QED BY <1>1, MovesKeep DEF Positions

LEMMA PutMaskedKeeps ==
    ASSUME IInv, NEW p \in Procs, PutMasked(p), UNCHANGED world
    PROVE  IInv'
<1>1. pc[p] = "put_masked" /\ UNCHANGED <<outside, started, delivered, ended>>
  BY DEF PutMasked, books
<1>2. /\ Proc(p) /\ LocalsOK(p) /\ job[p] \in Jobs /\ TypeOK /\ Delivers
      /\ OutsideOf(p) /\ Ref(p) \in Refs /\ ShadowRef(p) \in Refs /\ Ref(p) # ShadowRef(p)
  BY <1>1, Under, DeliversSame, OutsideSame
<1>3. /\ job[p].masked # NoDigest /\ job[p].captured # job[p].masked /\ Masks(job[p])
  BY <1>1, <1>2 DEF LocalsOK, Masking
<1>4. world \cap {"crash", "rm"} = {} => \A o \in outside' : o[1] # job[p].n
  <2>1. Temporary(p) = {}
    BY <1>1 DEF Temporary
  <2> QED BY <1>1, <2>1, NoneOutside
<1>5. Apart => manifests[Ref(p)] = job[p].captured /\ manifests[ShadowRef(p)] = job[p].captured
  BY <1>1, <1>2 DEF Proc, RefsHeld, Masking
<1>6. Apart /\ Unequal /\ job[p].captured \in blobs => Elsewhere(p, {Ref(p), ShadowRef(p)})
  BY <1>1, <1>2 DEF Proc, RawHeld, Passed, Blind
<1>7. CASE Store!Put(Ref(p), job[p].masked) /\ Discard(p, ShadowRef(p), "validate")
  <2>1. /\ StoreOf(p) /\ blobs' = blobs /\ manifests'[Ref(p)] = job[p].masked
        /\ \A r \in Refs \ {Ref(p)} : manifests'[r] = manifests[r]
    BY <1>1, <1>7, StorePut
  <2>2. /\ Moves(p, "discard") /\ pc'[p] = "discard"
        /\ job'[p].captured = job[p].captured /\ job'[p].masked = job[p].masked
        /\ job'[p].discard.ref = ShadowRef(p) /\ job'[p].discard.then = "validate"
        /\ LocalsOK(p)'
    BY <1>1, <1>3, <1>7, DiscardMoves
  <2>3. Ref(p)' = Ref(p) /\ ShadowRef(p)' = ShadowRef(p) /\ ReapsShadow(p)'
    BY <2>2, SameNames DEF ReapsShadow, Discarding
  <2>4. RefsHeld(p)'
    BY <1>2, <1>5, <2>1, <2>2, <2>3 DEF RefsHeld, Masking, Delivering, Discarding, Apart
  <2>5. RawHeld(p)'
    <3>1. Apart /\ Unequal /\ job[p].captured \in blobs => OnlyRef(p, ShadowRef(p))'
      BY <1>2, <1>3, <1>5, <1>6, <2>1, <2>2, <2>3 DEF OnlyRef, Elsewhere
    <3> QED
      BY <2>1, <2>2, <2>3, <3>1
      DEF RawHeld, Passed, Blind, Reaps, OnlyRef, Masking, Delivering, Discarding, Apart, Unequal
  <2> QED BY <1>1, <1>2, <1>4, <2>1, <2>2, <2>3, <2>4, <2>5, DiscardKeeps
<1>8. CASE UNCHANGED store /\ Discard(p, ShadowRef(p), "compensate")
  <2>1. StoreOf(p) /\ blobs' = blobs /\ manifests' = manifests
    BY <1>8, StoreSame
  <2>2. /\ Moves(p, "discard") /\ pc'[p] = "discard"
        /\ job'[p].captured = job[p].captured /\ job'[p].masked = job[p].masked
        /\ job'[p].discard.ref = ShadowRef(p) /\ job'[p].discard.then = "compensate"
        /\ LocalsOK(p)'
    BY <1>1, <1>3, <1>8, DiscardMoves
  <2>3. Ref(p)' = Ref(p) /\ ShadowRef(p)' = ShadowRef(p) /\ ReapsShadow(p)'
    BY <2>2, SameNames DEF ReapsShadow, Discarding
  <2>4. RefsHeld(p)'
    BY <1>2, <1>5, <2>1, <2>2, <2>3 DEF RefsHeld, Masking, Delivering, Discarding, Apart
  <2>5. RawHeld(p)'
    BY <1>6, <2>1, <2>2, <2>3
    DEF RawHeld, Passed, Blind, Elsewhere, Masking, Delivering, Discarding, Apart, Unequal
  <2> QED BY <1>1, <1>2, <1>4, <2>1, <2>2, <2>3, <2>4, <2>5, DiscardKeeps
<1> QED BY <1>7, <1>8 DEF PutMasked

LEMMA CompensateKeeps ==
    ASSUME IInv, NEW p \in Procs, Compensate(p), UNCHANGED world
    PROVE  IInv'
<1>1. /\ pc[p] = "compensate" /\ UNCHANGED <<store, outside, started, delivered, ended>>
      /\ Discard(p, Ref(p), "raise")
  BY DEF Compensate, books
<1>2. /\ Proc(p) /\ LocalsOK(p) /\ TypeOK /\ Delivers /\ OutsideOf(p) /\ ~ReapsShadow(p)
      /\ StoreOf(p) /\ blobs' = blobs /\ manifests' = manifests
  BY <1>1, Under, DeliversSame, OutsideSame, StoreSame DEF ReapsShadow, Discarding
<1>3. world \cap {"crash", "rm"} = {} => \A o \in outside' : o[1] # job[p].n
  <2>1. Temporary(p) = {}
    BY <1>1 DEF Temporary
  <2> QED BY <1>1, <2>1, NoneOutside
<1>4. /\ Moves(p, "discard") /\ pc'[p] = "discard"
      /\ job'[p].captured = job[p].captured /\ job'[p].masked = job[p].masked
      /\ job'[p].unclean = job[p].unclean
      /\ job'[p].discard.ref = Ref(p) /\ job'[p].discard.then = "raise" /\ LocalsOK(p)'
  BY <1>1, DiscardMoves
<1>5. Ref(p)' = Ref(p)
  BY <1>4, SameNames
<1>6. RefsHeld(p)'
  BY <1>1, <1>2, <1>4, <1>5 DEF Proc, RefsHeld, Masking, Delivering, Discarding, Apart
<1>7. RawHeld(p)'
  <2>1. Apart /\ Unequal /\ job[p].captured \in blobs => job[p].unclean \/ OnlyRef(p, Ref(p))
    BY <1>1, <1>2 DEF Proc, RawHeld, Passed, Blind
  <2>2. OnlyRef(p, Ref(p)) => OnlyRef(p, Ref(p))'
    BY <1>2, <1>4, <1>5 DEF OnlyRef, Elsewhere
  <2> QED
    BY <1>2, <1>4, <1>5, <2>1, <2>2
    DEF RawHeld, Passed, Blind, Reaps, OnlyRef, Masking, Delivering, Discarding, Apart, Unequal
<1> QED BY <1>1, <1>2, <1>3, <1>4, <1>6, <1>7, DiscardKeeps
-----------------------------------------------------------------------------
(* From the validation to the delivery.                                    *)
LEMMA DeliveringKeeps ==
    ASSUME IInv, NEW p \in Procs, pc[p] \in Delivering, NEW l \in Delivering, Moves(p, l),
           job'[p].captured = job[p].captured, job'[p].masked = job[p].masked,
           job'[p].granted = job[p].granted, job'[p].residual = job[p].residual,
           job'[p].unclean = job[p].unclean,
           UNCHANGED <<world, store, outside, started, delivered, ended>>,
           Apart /\ l \in {"provision", "inject"} => job'[p].component = Expected(job[p])
    PROVE  IInv'
<1>1. /\ pc[p] \notin {"idle", "dump"} /\ ~ReapsShadow(p) /\ pc'[p] = l /\ Delivers
      /\ l \in Positions \ {"idle", "dump", "put", "stage", "unlink"}
      /\ l \notin {"grant", "put_again", "compensate", "rm"} \cup Masking \cup Discarding
      /\ job'[p] \in Jobs
  BY DeliversSame DEF Masking, Discarding, Delivering, ReapsShadow, Positions, Moves
<1>2. /\ Proc(p) /\ LocalsOK(p) /\ StoreOf(p) /\ OutsideOf(p) /\ blobs' = blobs
      /\ manifests' = manifests /\ job'[p] # NoJob
  BY <1>1, Under, StoreSame, OutsideSame, JobFields
<1>3. Ref(p)' = Ref(p) /\ Masks(job[p])' = Masks(job[p])
  BY SameNames
<1>4. Expected(job[p])' = Expected(job[p])
  BY DEF Moves, Expected
<1>5. LocalsOK(p)'
  BY <1>1, <1>2, <1>3 DEF LocalsOK, Masking, Delivering, Discarding, Unequal, Moves
<1>6. RefsHeld(p)'
  BY <1>1, <1>2, <1>3, <1>4 DEF Proc, RefsHeld, Masking, Delivering, Discarding, Apart
<1>7. RawHeld(p)'
  <2>1. OnlyRef(p, Ref(p)) => OnlyRef(p, Ref(p))'
    BY <1>2, <1>3 DEF OnlyRef, Elsewhere
  <2> QED BY <1>1, <1>2, <1>3, <2>1
          DEF Proc, RawHeld, Passed, Blind, Masking, Delivering, Discarding, Apart, Unequal
<1>8. OutsideHeld(p)'
  <2>1. Temporary(p) = {}
    BY DEF Temporary, Delivering
  <2> QED BY <2>1, NoneOutside DEF OutsideHeld, Moves
<1> QED BY <1>1, <1>2, <1>5, <1>6, <1>7, <1>8, MovesKeep

(* A step of it that fails. *)
LEMMA DeliveringRaises ==
    ASSUME IInv, NEW p \in Procs, pc[p] \in Delivering, Raise(p), Delivers,
           UNCHANGED <<world, store, outside, started, ended>>
    PROVE  IInv'
<1>1. Temporary(p) = {}
  BY DEF Temporary, Delivering
<1> QED BY <1>1, NoneOutside, OutsideSame, RaiseKeeps

LEMMA ValidateKeeps ==
    ASSUME IInv, NEW p \in Procs, Validate(p), UNCHANGED world
    PROVE  IInv'
<1>1. /\ pc[p] = "validate" /\ UNCHANGED <<store, outside, started, delivered, ended>>
      /\ (Goto(p, "restore") /\ UNCHANGED job) \/ Raise(p)
  BY DEF Validate, books
<1>2. /\ job[p] \in Jobs /\ TypeOK /\ Delivers
  BY <1>1, Under, DeliversSame
<1>3. CASE Goto(p, "restore") /\ UNCHANGED job
  <2>1. Moves(p, "restore") /\ job'[p] = job[p]
    BY <1>2, <1>3, MovesOn DEF Positions
  <2> QED BY <1>1, <2>1, DeliveringKeeps DEF Delivering
<1> QED BY <1>1, <1>2, <1>3, DeliveringRaises DEF Delivering

LEMMA RestoreComponentKeeps ==
    ASSUME IInv, NEW p \in Procs, RestoreComponent(p), UNCHANGED world
    PROVE  IInv'
<1>1. pc[p] = "restore" /\ UNCHANGED <<store, outside, started, delivered, ended>>
  BY DEF RestoreComponent, books
<1>2. job[p] \in Jobs /\ TypeOK /\ Delivers /\ Proc(p) /\ Ref(p) \in Refs
  BY <1>1, Under, DeliversSame
<1>3. CASE Store!Ready(Ref(p)) /\ With(p, [job[p] EXCEPT !.component = Store!Resolve(Ref(p))]) /\ Goto(p, "provision")
  <2>1. PICK d \in Digests : d = Store!Resolve(Ref(p)) /\ d = manifests[Ref(p)]
    BY <1>2, <1>3 DEF Store!Ready, Store!Resolve, TypeOK, Store!TypeOK
  <2> DEFINE u == [job[p] EXCEPT !.component = d]
  <2>2. /\ SameCopy(u, job[p]) /\ u.captured = job[p].captured /\ u.masked = job[p].masked
        /\ u.component = d /\ u.granted = job[p].granted
        /\ u.residual = job[p].residual /\ u.unclean = job[p].unclean
    BY <1>2, SetComponent
  <2>3. With(p, u) /\ Goto(p, "provision") /\ "provision" \in Positions
    BY <1>3, <2>1 DEF Positions
  <2> HIDE DEF u
  <2>4. Moves(p, "provision") /\ job'[p] = u
    BY <1>2, <2>2, <2>3, MovesSame
  <2>5. Apart => d = Expected(job[p])
    BY <1>1, <1>2, <2>1 DEF Proc, RefsHeld, Delivering
  <2> QED BY <1>1, <2>2, <2>4, <2>5, DeliveringKeeps DEF Delivering
<1> QED BY <1>1, <1>2, <1>3, DeliveringRaises DEF RestoreComponent, Delivering

LEMMA ProvisionKeeps ==
    ASSUME IInv, NEW p \in Procs, Provision(p), UNCHANGED world
    PROVE  IInv'
<1>1. /\ pc[p] = "provision" /\ UNCHANGED <<store, outside, started, delivered, ended>>
      /\ (Goto(p, "inject") /\ UNCHANGED job) \/ Raise(p)
  BY DEF Provision, books
<1>2. job[p] \in Jobs /\ TypeOK /\ Delivers /\ Proc(p)
  BY <1>1, Under, DeliversSame
<1>3. CASE Goto(p, "inject") /\ UNCHANGED job
  <2>1. Moves(p, "inject") /\ job'[p] = job[p]
    BY <1>2, <1>3, MovesOn DEF Positions
  <2>2. Apart => job[p].component = Expected(job[p])
    BY <1>1, <1>2 DEF Proc, RefsHeld
  <2> QED BY <1>1, <2>1, <2>2, DeliveringKeeps DEF Delivering
<1> QED BY <1>1, <1>2, <1>3, DeliveringRaises DEF Delivering

LEMMA PutAgainKeeps ==
    ASSUME IInv, NEW p \in Procs, PutAgain(p), UNCHANGED world
    PROVE  IInv'
<1>1. pc[p] = "put_again" /\ UNCHANGED <<outside, started, delivered, ended>>
  BY DEF PutAgain, books
<1>2. /\ Proc(p) /\ LocalsOK(p) /\ job[p] \in Jobs /\ TypeOK /\ job[p] # NoJob /\ Delivers
      /\ OutsideOf(p) /\ Ref(p) \in Refs /\ ShadowRef(p) \in Refs /\ Ref(p) # ShadowRef(p)
      /\ ~ReapsShadow(p)
  BY <1>1, Under, DeliversSame, OutsideSame DEF ReapsShadow, Discarding
<1>3. Temporary(p) = {} /\ ~job[p].rules /\ ~job[p].raw
  BY <1>1, <1>2 DEF Temporary, LocalsOK
<1>4. CASE UNCHANGED store /\ Raise(p)
  BY <1>1, <1>2, <1>3, <1>4, RaiseKeeps, NoneOutside
<1>5. CASE Store!Put(Ref(p), job[p].captured) /\ Goto(p, "validate") /\ UNCHANGED job
  <2>1. /\ StoreOf(p) /\ blobs' = blobs /\ manifests'[Ref(p)] = job[p].captured
        /\ \A r \in Refs \ {Ref(p)} : manifests'[r] = manifests[r]
    BY <1>1, <1>5, StorePut
  <2>2. Moves(p, "validate") /\ job'[p] = job[p] /\ pc'[p] = "validate"
    BY <1>2, <1>5, MovesOn DEF Moves, Positions
  <2>3. Ref(p)' = Ref(p) /\ ~Masks(job[p])' /\ Expected(job[p])' = job[p].captured
    BY <1>3, <2>2, SameNames DEF Masks, Expected
  <2>4. LocalsOK(p)'
    BY <1>1, <1>2, <1>3, <2>2 DEF LocalsOK, Masking, Delivering, Discarding, Unequal
  <2>5. RefsHeld(p)'
    BY <2>1, <2>2, <2>3 DEF RefsHeld, Masking, Delivering, Discarding, Apart
  <2>6. RawHeld(p)'
    <3>1. Apart /\ Unequal /\ job[p].captured \in blobs => Elsewhere(p, {Ref(p)})
      BY <1>1, <1>2 DEF Proc, RawHeld, Passed, Blind, OnlyRef
    <3>2. Elsewhere(p, {Ref(p)}) => OnlyRef(p, Ref(p))'
      BY <2>1, <2>2, <2>3 DEF Elsewhere, OnlyRef
    <3> QED
      BY <2>1, <2>2, <2>3, <3>1, <3>2 DEF RawHeld, Passed, Blind, Masking, Delivering, Discarding, Apart, Unequal
  <2>7. OutsideHeld(p)'
    BY <1>1, <1>3, <2>2, NoneOutside DEF OutsideHeld
  <2> QED BY <1>1, <1>2, <2>1, <2>2, <2>4, <2>5, <2>6, <2>7, MovesKeep DEF Positions
<1> QED BY <1>4, <1>5 DEF PutAgain, PutThen
-----------------------------------------------------------------------------
(* The capture.                                                            *)
LEMMA StageCapturedKeeps ==
    ASSUME IInv, NEW p \in Procs, StageCaptured(p), UNCHANGED world
    PROVE  IInv'
<1>1. /\ pc[p] = "stage" /\ UNCHANGED <<started, delivered, ended>> /\ Removes(p, {"dump"})
  BY DEF StageCaptured, books
<1>2. /\ Proc(p) /\ LocalsOK(p) /\ job[p] \in Jobs /\ TypeOK /\ job[p] # NoJob /\ Delivers
      /\ Ref(p) \in Refs /\ ShadowRef(p) \in Refs /\ ~ReapsShadow(p)
      /\ \A r \in Refs : r[1] = job[p].source => r \in {Ref(p), ShadowRef(p)}
  BY <1>1, Under, DeliversSame DEF ReapsShadow, Discarding
<1>3. job[p].captured # NoDigest /\ (Apart => manifests[Ref(p)] = job[p].captured)
  BY <1>1, <1>2 DEF LocalsOK, Proc, RefsHeld
<1>4. /\ OutsideOf(p) /\ outside' \subseteq outside
      /\ \A o \in outside' : o[1] = job[p].n => o[2] \notin {"dump"}
  BY <1>1, OutsideRemoves
<1>5. world \cap {"crash", "rm"} = {} => \A o \in outside' : o[1] # job[p].n
  <2>1. Temporary(p) = {"dump"}
    BY <1>1 DEF Temporary
  <2> QED BY <1>2, <1>4, <2>1 DEF Proc, OutsideHeld
<1>6. CASE Store!Stage(job[p].captured) /\ Goto(p, AfterCapture(p)) /\ UNCHANGED job
  <2>1. StoreOf(p) /\ blobs' = blobs \cup {job[p].captured} /\ manifests' = manifests
    BY <1>1, <1>3, <1>6, StoreStage
  <2>2. PICK l \in {"grant", "open", "put_again"} : l = AfterCapture(p)
    BY DEF AfterCapture
  <2>3. Moves(p, l) /\ job'[p] = job[p] /\ pc'[p] = l
    BY <1>2, <1>6, <2>2, MovesOn DEF Moves, Positions
  <2>4. /\ l = "grant" => job[p].raw
        /\ l = "open" => Masks(job[p])
        /\ l = "put_again" => ~job[p].rules /\ ~job[p].raw
    BY <2>2 DEF AfterCapture, Masks
  <2>5. Ref(p)' = Ref(p)
    BY <2>3, SameNames
  <2>6. LocalsOK(p)'
    BY <1>1, <1>2, <2>3, <2>4 DEF LocalsOK, Masking, Delivering, Discarding, Unequal
  <2>7. RefsHeld(p)'
    BY <1>3, <2>1, <2>3, <2>5 DEF RefsHeld, Masking, Delivering, Discarding, Apart
  <2>8. RawHeld(p)'
    <3>1. ASSUME Apart, Unequal PROVE OnlyRef(p, Ref(p))
      <4>1. ASSUME NEW r \in Refs \ {Ref(p)}, manifests[r] = job[p].captured PROVE FALSE
        <5>1. manifests[r].n = job[p].n
          BY <1>2, <1>3, <3>1, <4>1 DEF LocalsOK
        <5>2. r = ShadowRef(p)
          BY <1>2, <1>3, <3>1, <4>1, <5>1 DEF Proc, OwnDigests
        <5> QED BY <1>1, <1>2, <3>1, <5>1, <5>2 DEF Proc, OwnDigests
      <4> QED BY <1>3, <3>1, <4>1 DEF OnlyRef, Elsewhere
    <3>2. OnlyRef(p, Ref(p)) => OnlyRef(p, Ref(p))'
      BY <2>1, <2>3, <2>5 DEF OnlyRef, Elsewhere
    <3> QED
      BY <2>3, <2>5, <3>1, <3>2 DEF RawHeld, Passed, Blind, Masking, Delivering, Discarding, Apart, Unequal
  <2>9. OutsideHeld(p)'
    BY <1>5, <2>3 DEF OutsideHeld
  <2> QED BY <1>1, <1>2, <1>4, <2>1, <2>3, <2>6, <2>7, <2>8, <2>9, MovesKeep DEF Positions
<1>7. CASE UNCHANGED store /\ Discard(p, Ref(p), "raise")
  <2>1. StoreOf(p) /\ blobs' = blobs /\ manifests' = manifests
    BY <1>7, StoreSame
  <2>2. /\ Moves(p, "discard") /\ pc'[p] = "discard"
        /\ job'[p].captured = job[p].captured /\ job'[p].masked = job[p].masked
        /\ job'[p].discard.ref = Ref(p) /\ job'[p].discard.then = "raise" /\ LocalsOK(p)'
    BY <1>1, <1>7, DiscardMoves
  <2>3. RefsHeld(p)'
    BY <1>3, <2>1, <2>2 DEF RefsHeld, Masking, Delivering, Discarding, Apart
  <2>4. RawHeld(p)'
    BY <1>1, <1>2, <2>1, <2>2 DEF Proc, RawHeld, Passed, Blind, Apart, Unequal
  <2> QED BY <1>1, <1>2, <1>4, <1>5, <2>1, <2>2, <2>3, <2>4, DiscardKeeps
<1> QED BY <1>6, <1>7 DEF StageCaptured

(* A copy that is over: what is left to show. *)
LEMMA EndsKeep ==
    ASSUME IInv, NEW p \in Procs, pc[p] # "idle", Ends(p), UNCHANGED <<world, started>>,
           StoreOf(p), OutsideOf(p), Delivers,
           NEW j \in Jobs, j.n = job[p].n, j.captured = job[p].captured,
           NEW outcome \in {"succeeded", "raised"},
           ended' = ended \cup {[job |-> j, outcome |-> outcome]},
           Apart /\ Unequal /\ job[p].captured \in blobs' =>
              Reaped([job |-> j, outcome |-> outcome]),
           world \cap {"crash", "rm"} = {} => \A o \in outside' : o[1] # job[p].n,
           Backed', ShadowsReaped'
    PROVE  IInv'
<1> DEFINE e == [job |-> j, outcome |-> outcome]
<1>1. e.job = j /\ e \in [job : Jobs, outcome : {"succeeded", "raised"}]
  OBVIOUS
<1>2. \A x \in ended' : x \in ended \/ x = e
  OBVIOUS
<1>3. Apart /\ Unequal /\ e.job.captured \in blobs' => Reaped(e)
  BY <1>1
<1> HIDE DEF e
<1>4. Turn(p) /\ started \in 0..MaxCopies
  BY DEF Ends, IInv, TypeOK
<1>5. ended' \subseteq [job : Jobs, outcome : {"succeeded", "raised"}]
  BY <1>1, <1>2 DEF IInv, TypeOK
<1>6. TypeOK'
  BY <1>4, <1>5, TypeKeeps DEF Delivers
<1>7. Follows(p)
  BY <1>1, <1>2, EndsFollow
<1>8. Proc(p)'
  BY <1>6, EndsProc
<1> QED BY <1>2, <1>3, <1>6, <1>7, <1>8, StepKeeps DEF Delivers

LEMMA DumpKeeps ==
    ASSUME IInv, NEW p \in Procs, Dump(p), UNCHANGED world
    PROVE  IInv'
<1>1. pc[p] = "dump" /\ UNCHANGED <<store, started, delivered>>
  BY DEF Dump
<1>2. /\ Proc(p) /\ LocalsOK(p) /\ job[p] \in Jobs /\ TypeOK /\ job[p] # NoJob /\ Delivers
      /\ job[p].n \in Copies /\ job[p].n \in Nat /\ ~ReapsShadow(p)
      /\ StoreOf(p) /\ blobs' = blobs /\ manifests' = manifests
      /\ ShadowRef(p) \in Refs
  BY <1>1, Under, DeliversSame, StoreSame DEF ReapsShadow, Discarding
<1>3. Temporary(p) = {}
  BY <1>1 DEF Temporary
<1>4. ASSUME NEW old \in SUBSET Orphans, NEW d \in DumpOf("raw", job[p].n),
             outside' = (outside \ old) \cup {<<job[p].n, "dump">>},
             With(p, [job[p] EXCEPT !.captured = d]), Goto(p, "put"), UNCHANGED ended
      PROVE  IInv'
  <2>1. d \in Digests /\ d # NoDigest /\ d.kind = "raw" /\ d.n <= job[p].n /\ (Unequal => d.n = job[p].n)
    BY <1>2, DumpFields
  <2> DEFINE u == [job[p] EXCEPT !.captured = d]
  <2>2. /\ SameCopy(u, job[p]) /\ u.captured = d /\ u.masked = job[p].masked /\ u.ok = job[p].ok
    BY <1>2, <2>1, SetCaptured
  <2>3. With(p, u) /\ Goto(p, "put") /\ "put" \in Positions
    BY <1>4 DEF Positions
  <2> HIDE DEF u
  <2>4. Moves(p, "put") /\ pc'[p] = "put" /\ job'[p] = u /\ u # NoJob /\ Turn(p)
    BY <1>2, <2>2, <2>3, MovesSame DEF Moves
  <2>5. \A o \in outside' : o \in outside \/ o = <<job[p].n, "dump">>
    BY <1>4
  <2>6. OutsideOf(p) /\ \A o \in outside' : o \in outside \/ (o[1] = job[p].n /\ o[2] = "dump")
    <3>1. /\ outside \subseteq Copies \X Things /\ <<job[p].n, "dump">> \in Copies \X Things
          /\ Busy(p)
      BY <1>1, <1>2 DEF TypeOK, Things, Busy
    <3> QED BY <2>5, <3>1 DEF OutsideOf
  <2>7. Follows(p) /\ Busy(p)'
    BY <1>1, <1>2, <1>4, <2>3, <2>4, <2>6, MovesFollow
  <2>8. TypeOK'
    <3>1. /\ started' \in 0..MaxCopies /\ UNCHANGED ended
          /\ ended \subseteq [job : Jobs, outcome : {"succeeded", "raised"}]
      BY <1>1, <1>2, <1>4 DEF TypeOK
    <3> QED BY <1>2, <2>4, <2>6, <3>1, TypeKeeps DEF Delivers
  <2>9. Backed' /\ ShadowsReaped'
    BY <1>1, <1>2, <2>4, <2>7, BackedBefore, ShadowsStay
  <2>10. Proc(p)'
    <3>1. d.n <= started
      <4>1. d.n \in Nat /\ job[p].n <= started /\ started \in Nat
        BY <1>2, <2>1, DigestFields DEF LocalsOK, TypeOK
      <4> QED BY <1>2, <2>1, <4>1
    <3>2. LocalsOK(p)'
      BY <1>1, <1>2, <2>1, <2>2, <2>4, <3>1
      DEF LocalsOK, Masking, Delivering, Discarding, Unequal, SameCopy
    <3>3. RefsHeld(p)' /\ ScanHeld(p)'
      BY <2>4 DEF RefsHeld, ScanHeld, Masking, Delivering, Discarding
    <3>4. Unequal => d \notin blobs
      BY <1>1, <1>2, <2>1 DEF Proc, OwnDigests
    <3>5. RawHeld(p)'
      BY <1>2, <2>2, <2>4, <3>4 DEF RawHeld, Passed, Blind, Unequal
    <3>6. OutsideHeld(p)'
      <4>1. Temporary(p)' = {"dump"}
        BY <2>4 DEF Temporary
      <4> QED BY <1>3, <2>2, <2>4, <2>6, <4>1, NoneOutside DEF OutsideHeld, SameCopy
    <3>7. OwnDigests(p)'
      <4>1. ShadowRef(p)' = ShadowRef(p) /\ OwnDigests(p)
        BY <1>2, <2>4, SameNames DEF Proc
      <4> QED BY <1>1, <1>2, <2>2, <2>4, <4>1 DEF OwnDigests, Unequal, SameCopy
    <3> QED BY <3>2, <3>3, <3>5, <3>6, <3>7 DEF Proc
  <2> QED BY <1>2, <1>4, <2>7, <2>8, <2>9, <2>10, StepKeeps DEF Delivers
<1>5. ASSUME NEW old \in SUBSET Orphans, outside' = outside \ old, End(p, "raised")
      PROVE  IInv'
  <2>1. Ends(p) /\ pc'[p] = "idle" /\ Turn(p)
    BY <1>2, <1>5, IdleEnds DEF End, Ends
  <2>2. OutsideOf(p) /\ outside' \subseteq outside
    BY <1>2, <1>5 DEF OutsideOf, TypeOK
  <2>3. world \cap {"crash", "rm"} = {} => \A o \in outside' : o[1] # job[p].n
    BY <1>3, <2>2, NoneOutside
  <2>4. ended' = ended \cup {[job |-> job[p], outcome |-> "raised"]}
    BY <1>5 DEF End
  <2>5. Follows(p)
    BY <1>1, <1>2, <2>1, <2>2, <2>4, EndsFollow
  <2>6. Backed' /\ ShadowsReaped'
    BY <1>1, <1>2, <2>1, <2>5, BackedBefore, ShadowsStay
  <2>7. job[p].captured \notin blobs'
    BY <1>1, <1>2, DigestFields DEF LocalsOK, TypeOK, Store!TypeOK
  <2> QED BY <1>1, <1>2, <2>1, <2>2, <2>3, <2>4, <2>6, <2>7, EndsKeep
<1> QED BY <1>4, <1>5 DEF Dump

LEMMA PutCapturedKeeps ==
    ASSUME IInv, NEW p \in Procs, PutCaptured(p), UNCHANGED world
    PROVE  IInv'
<1>1. pc[p] = "put" /\ UNCHANGED <<started, delivered>>
  BY DEF PutCaptured
<1>2. /\ Proc(p) /\ LocalsOK(p) /\ job[p] \in Jobs /\ TypeOK /\ job[p] # NoJob /\ Delivers
      /\ ~ReapsShadow(p) /\ Ref(p) \in Refs /\ ShadowRef(p) \in Refs /\ Ref(p) # ShadowRef(p)
  BY <1>1, Under, DeliversSame DEF ReapsShadow, Discarding
<1>3. Temporary(p) = {"dump"}
  BY <1>1 DEF Temporary
<1>4. CASE Store!Put(Ref(p), job[p].captured) /\ Goto(p, "stage") /\ UNCHANGED <<job, outside, ended>>
  <2>1. /\ StoreOf(p) /\ blobs' = blobs /\ manifests'[Ref(p)] = job[p].captured
        /\ \A r \in Refs \ {Ref(p)} : manifests'[r] = manifests[r]
    BY <1>1, <1>4, StorePut
  <2>2. Moves(p, "stage") /\ job'[p] = job[p] /\ pc'[p] = "stage" /\ Turn(p) /\ "stage" \in Positions
    BY <1>2, <1>4, MovesOn DEF Moves, Positions
  <2>3. OutsideOf(p) /\ Follows(p) /\ Busy(p)'
    BY <1>1, <1>4, <2>1, <2>2, OutsideSame, MovesFollow
  <2>4. TypeOK'
    <3>1. /\ started' \in 0..MaxCopies /\ UNCHANGED ended
          /\ ended \subseteq [job : Jobs, outcome : {"succeeded", "raised"}]
      BY <1>1, <1>2, <1>4 DEF TypeOK
    <3> QED BY <1>2, <2>1, <2>2, <2>3, <3>1, TypeKeeps DEF Delivers
  <2>5. Backed' /\ ShadowsReaped'
    BY <1>2, <2>1, <2>2, <2>3, BackedStays, ShadowsStay
  <2>6. Proc(p)'
    <3>1. Ref(p)' = Ref(p) /\ ShadowRef(p)' = ShadowRef(p)
      BY <2>2, SameNames
    <3>2. LocalsOK(p)'
      BY <1>1, <1>2, <2>2 DEF LocalsOK, Masking, Delivering, Discarding, Unequal
    <3>3. RefsHeld(p)' /\ ScanHeld(p)'
      BY <2>1, <2>2, <3>1 DEF RefsHeld, ScanHeld, Masking, Delivering, Discarding
    <3>4. RawHeld(p)'
      BY <1>1, <1>2, <2>1, <2>2 DEF Proc, RawHeld, Passed, Blind, Apart, Unequal
    <3>5. OutsideHeld(p)'
      <4>1. Temporary(p)' = {"dump"}
        BY <2>2 DEF Temporary
      <4> QED BY <1>2, <1>3, <1>4, <2>2, <4>1 DEF Proc, OutsideHeld
    <3>6. OwnDigests(p)'
      <4>1. Ref(p)[1] = job[p].source
        BY DEF Ref
      <4> QED BY <1>1, <1>2, <2>1, <2>2, <3>1, <4>1 DEF Proc, OwnDigests, Unequal
    <3> QED BY <3>2, <3>3, <3>4, <3>5, <3>6 DEF Proc
  <2> QED BY <1>2, <1>4, <2>3, <2>4, <2>5, <2>6, StepKeeps DEF Delivers
<1>5. CASE UNCHANGED store /\ Removes(p, {"dump"}) /\ End(p, "raised")
  <2>1. Ends(p) /\ pc'[p] = "idle" /\ Turn(p) /\ StoreOf(p) /\ blobs' = blobs /\ manifests' = manifests
    BY <1>2, <1>5, IdleEnds, StoreSame DEF End, Ends
  <2>2. /\ OutsideOf(p) /\ outside' \subseteq outside
        /\ \A o \in outside' : o[1] = job[p].n => o[2] \notin {"dump"}
    BY <1>5, OutsideRemoves
  <2>3. world \cap {"crash", "rm"} = {} => \A o \in outside' : o[1] # job[p].n
    BY <1>2, <1>3, <2>2 DEF Proc, OutsideHeld
  <2>4. ended' = ended \cup {[job |-> job[p], outcome |-> "raised"]}
    BY <1>5 DEF End
  <2>5. Follows(p)
    BY <1>1, <1>2, <2>1, <2>2, <2>4, EndsFollow
  <2>6. Backed' /\ ShadowsReaped'
    BY <1>1, <1>2, <1>5, <2>1, <2>5, BackedBefore, ShadowsStay
  <2>7. ~(Apart /\ Unequal /\ job[p].captured \in blobs')
    BY <1>1, <1>2, <2>1 DEF Proc, RawHeld, Passed, Blind
  <2> QED BY <1>1, <1>2, <2>1, <2>2, <2>3, <2>4, <2>6, <2>7, EndsKeep
<1> QED BY <1>4, <1>5 DEF PutCaptured

LEMMA StartKeeps ==
    ASSUME IInv, NEW p \in Procs, NEW s \in Sources, Start(p, s), UNCHANGED world
    PROVE  IInv'
<1>1. /\ pc[p] = "idle" /\ started < MaxCopies /\ started' = started + 1 /\ Goto(p, "dump")
      /\ UNCHANGED <<store, outside, delivered, ended>>
      /\ \A q \in Procs : pc[q] # "idle" =>
            IF job[q].source = s THEN "same_source" \in world ELSE "overlap" \in world
  BY DEF Start, MayStart
<1>2. /\ TypeOK /\ LocalsOK(p) /\ job[p].n = 0 /\ job[p] = NoJob
      /\ StoreOf(p) /\ blobs' = blobs /\ manifests' = manifests /\ OutsideOf(p) /\ Delivers
  BY <1>1, Resting, StoreSame, OutsideSame, DeliversSame DEF IInv, Proc
<1>3. started \in Nat /\ started' \in Copies /\ started' \in Nat /\ started' \in 0..MaxCopies
  BY <1>1, <1>2, CopiesAssumption DEF TypeOK, Copies
<1>4. PICK rules, raw, retain \in BOOLEAN :
         /\ rules \/ ~raw
         /\ With(p, [NoJob EXCEPT !.n = started', !.source = s, !.rules = rules,
                                  !.raw = raw, !.retain = retain])
  BY DEF Start
<1>5. PICK u : u = [NoJob EXCEPT !.n = started', !.source = s, !.rules = rules,
                                 !.raw = raw, !.retain = retain]
  OBVIOUS
<1>6. /\ u \in Jobs /\ u.n = started' /\ u.source = s /\ u.captured = NoDigest
      /\ u.masked = NoDigest /\ u.ok = TRUE /\ u # NoJob
  <2>1. NoDiscard \in Discards
    BY DEF NoDiscard, Discards
  <2>2. u \in Jobs /\ u.n = started' /\ u.source = s /\ u.captured = NoDigest
        /\ u.masked = NoDigest /\ u.ok = TRUE
    BY <1>3, <1>5, <2>1 DEF NoJob, Jobs, Discards
  <2> QED BY <2>2, JobFields
<1>7. With(p, u) /\ "dump" \in Positions
  BY <1>4, <1>5 DEF Positions
<1>8. Turn(p) /\ pc'[p] = "dump" /\ job'[p] = u
  BY <1>1, <1>2, <1>6, <1>7, TurnWith
<1>9. \A q \in Procs \ {p} : pc'[q] = pc[q] /\ job'[q] = job[q]
  BY <1>8 DEF Turn
<1>10. Effects(p)
  BY <1>1, <1>2, <1>3, <1>8 DEF Effects, StoreOf, OutsideOf
<1>11. TypeOK'
  <2>1. UNCHANGED ended /\ ended \subseteq [job : Jobs, outcome : {"succeeded", "raised"}]
    BY <1>1, <1>2 DEF TypeOK
  <2> QED BY <1>2, <1>3, <1>8, <2>1, TypeKeeps DEF Delivers
<1>12. Proc(p)'
  <2>1. LocalsOK(p)'
    BY <1>3, <1>6, <1>8 DEF LocalsOK, Masking, Delivering, Discarding
  <2>2. RefsHeld(p)' /\ ScanHeld(p)'
    BY <1>8 DEF RefsHeld, ScanHeld, Masking, Delivering, Discarding
  <2>3. RawHeld(p)'
    BY <1>6, <1>8, <1>11, DigestFields DEF RawHeld, Passed, Blind, TypeOK, Store!TypeOK
  <2>4. OutsideHeld(p)'
    <3>1. \A o \in outside : o[1] <= started /\ o[1] \in Nat
      BY <1>2 DEF IInv, Shared, Numbered, TypeOK, Copies
    <3> QED BY <1>1, <1>3, <1>6, <1>8, <3>1 DEF OutsideHeld
  <2>5. OwnDigests(p)'
    <3>1. \A r \in Refs : manifests[r].n \in Nat /\ manifests[r].n <= started
      BY <1>2, <1>3, DigestFields DEF IInv, Shared, Numbered, TypeOK, Store!TypeOK
    <3>2. \A d \in blobs : d.n \in Nat /\ d.n <= started
      BY <1>2, DigestFields DEF IInv, Shared, Numbered, TypeOK, Store!TypeOK
    <3>3. ShadowRef(p)' \in Refs
      BY <1>6, <1>8, RefFields DEF ShadowRef
    <3> QED BY <1>1, <1>2, <1>3, <1>6, <1>8, <3>1, <3>2, <3>3 DEF OwnDigests
  <2> QED BY <2>1, <2>2, <2>3, <2>4, <2>5 DEF Proc
<1>13. \A q \in Procs : Proc(q)'
  BY <1>10, <1>11, <1>12, OthersKeep
<1>14. Pairs'
  <2>1. ASSUME NEW q \in Procs, q # p, Busy(q)
        PROVE  /\ job[q].n # u.n
               /\ Apart => "overlap" \in world /\ job[q].source # s
    <3>1. LocalsOK(q) /\ pc[q] # "idle"
      BY <2>1 DEF IInv, Proc, Busy
    <3>2. job[q].n \in Nat /\ job[q].n <= started
      BY <1>2, <3>1, Working DEF LocalsOK
    <3> QED BY <1>1, <1>3, <1>6, <3>1, <3>2 DEF Apart
  <2> QED BY <1>1, <1>6, <1>8, <1>9, <2>1 DEF IInv, Pairs, Busy, Apart
<1>15. Numbered'
  <2>1. /\ \A o \in outside : o[1] \in Nat
        /\ \A d \in blobs : d.n \in Nat
        /\ \A r \in Refs : manifests[r].n \in Nat
    BY <1>2, DigestFields DEF TypeOK, Store!TypeOK, Copies
  <2> QED BY <1>1, <1>2, <1>3, <2>1 DEF IInv, Shared, Numbered
<1>16. EndedOver'
  <2>1. ASSUME NEW e \in ended
        PROVE  /\ e.job.n <= started' /\ e.job.n # started'
               /\ \A q \in Procs : Busy(q) => job[q].n # e.job.n
               /\ Unequal => e.job.captured = NoDigest \/ e.job.captured.n = e.job.n
    <3>1. e.job.n \in Nat
      BY <1>2, JobFields DEF TypeOK
    <3> QED BY <1>1, <1>3, <3>1 DEF IInv, Shared, EndedOver
  <2>2. UNCHANGED <<world, ended>>
    BY <1>1
  <2> QED BY <1>6, <1>8, <1>9, <2>1, <2>2 DEF EndedOver, Busy, Unequal
<1>17. Backed'
  BY <1>1, <1>8, BackedBefore
<1>18. ShadowsReaped'
  <2>1. Orderly => \A x \in Sources : manifests[<<x, "raw">>] # NoDigest =>
            \E q \in Procs \ {p} : /\ job[q].source = x
                             /\ \/ pc[q] = "put_masked"
                                \/ pc[q] \in Discarding /\ job[q].discard.ref = <<x, "raw">>
    BY <1>1 DEF IInv, Shared, ShadowsReaped, Discarding
  <2> QED BY <1>2, <1>9, <2>1 DEF ShadowsReaped, Orderly
<1>19. RawReaped'
  BY <1>1, <1>2 DEF IInv, Shared, RawReaped, Apart, Blind, Keeps, Expected
<1>20. NothingLeftOutside'
  <2>1. \A o \in outside : o[1] # 0
    BY <1>2 DEF TypeOK, Copies
  <2> QED BY <1>1, <1>2, <1>9, <2>1 DEF IInv, Shared, NothingLeftOutside
<1> QED
  BY <1>2, <1>11, <1>13, <1>14, <1>15, <1>16, <1>17, <1>18, <1>19, <1>20 DEF IInv, Shared, Delivers

LEMMA InjectKeeps ==
    ASSUME IInv, NEW p \in Procs, Inject(p), UNCHANGED world
    PROVE  IInv'
<1>1. pc[p] = "inject" /\ UNCHANGED <<store, outside, started>>
  BY DEF Inject
<1>2. /\ Proc(p) /\ LocalsOK(p) /\ job[p] \in Jobs /\ TypeOK /\ StoreOf(p) /\ OutsideOf(p)
      /\ ~ReapsShadow(p) /\ blobs' = blobs /\ manifests' = manifests
      /\ \A r \in Refs : r[1] = job[p].source => r \in {Ref(p), ShadowRef(p)}
  BY <1>1, Under, StoreSame, OutsideSame DEF ReapsShadow, Discarding
<1>3. /\ Apart => job[p].component = Expected(job[p]) /\ manifests[Ref(p)] = Expected(job[p])
      /\ job[p].raw => job[p].granted
  BY <1>1, <1>2 DEF LocalsOK, Proc, RefsHeld, Delivering
<1>4. world \cap {"crash", "rm"} = {} => \A o \in outside' : o[1] # job[p].n
  <2>1. Temporary(p) = {}
    BY <1>1 DEF Temporary
  <2> QED BY <1>1, <2>1, NoneOutside
<1>5. CASE ~Store!CanOpen(job[p].component)
  <2>1. Raise(p) /\ UNCHANGED <<delivered, ended>>
    BY <1>5 DEF Inject
  <2> QED BY <1>1, <2>1, DeliveringRaises, DeliversSame DEF Delivering
<1>6. CASE Store!CanOpen(job[p].component)
  <2>1. job[p].component \in blobs /\ job[p].component \in Digests
    BY <1>2, <1>6 DEF Store!CanOpen, TypeOK, Store!TypeOK
  <2>2. Delivers
    <3> DEFINE d == [job |-> job[p], got |-> job[p].component]
    <3>1. /\ d.job = job[p] /\ d.got = job[p].component /\ d \in [job : Jobs, got : Digests]
      BY <1>2, <2>1
    <3>2. delivered' = delivered \cup {d}
      BY <1>6 DEF Inject
    <3> HIDE DEF d
    <3>3. DeliversOwn'
      BY <1>3, <3>1, <3>2 DEF IInv, Shared, DeliversOwn, Apart, Expected
    <3>4. delivered' \subseteq [job : Jobs, got : Digests]
      BY <1>2, <3>1, <3>2 DEF TypeOK
    <3> QED BY <3>3, <3>4 DEF Delivers
  <2>3. CASE Raise(p) /\ UNCHANGED ended
    BY <1>1, <2>2, <2>3, DeliveringRaises DEF Delivering
  <2>4. CASE job[p].retain /\ End(p, "succeeded")
    <3>1. Ends(p)
      BY <1>2, <2>4, IdleEnds DEF End
    <3>2. ended' = ended \cup {[job |-> job[p], outcome |-> "succeeded"]}
      BY <2>4 DEF End
    <3>3. Follows(p)
      BY <1>1, <1>2, <3>1, <3>2, EndsFollow
    <3>4. ShadowsReaped'
      BY <1>2, <3>3, ShadowsStay
    <3>5. Backed'
      <4>1. Orderly => manifests[ShadowRef(p)] = NoDigest /\ manifests[Ref(p)] \in blobs
        <5>1. Orderly => Apart
          BY DEF Orderly, Apart
        <5>2. Orderly => manifests[ShadowRef(p)] = NoDigest
          BY <1>1, <1>2, NoShadow DEF Busy
        <5> QED BY <1>3, <2>1, <5>1, <5>2
      <4> QED BY <1>2, <3>3, <4>1, BackedAfter
    <3>6. Apart /\ Unequal /\ job[p].captured \in blobs =>
             Reaped([job |-> job[p], outcome |-> "succeeded"])
      <4>1. Apart /\ Unequal /\ job[p].captured \in blobs =>
               Expected(job[p]) = job[p].captured \/ job[p].residual \/ Passed(job[p])
        BY <1>1, <1>2 DEF Proc, RawHeld, Passed, Blind, Delivering, Masks, Expected
      <4> QED BY <2>4, <4>1 DEF Reaped, Reported, Keeps
    <3> QED BY <1>1, <1>2, <1>4, <2>2, <3>1, <3>2, <3>4, <3>5, <3>6, EndsKeep
  <2>5. CASE Discard(p, Ref(p), "succeed") /\ UNCHANGED ended
    <3>1. /\ Moves(p, "discard") /\ pc'[p] = "discard"
          /\ job'[p].captured = job[p].captured /\ job'[p].masked = job[p].masked
          /\ job'[p].residual = job[p].residual /\ job'[p].unclean = job[p].unclean
          /\ job'[p].discard.ref = Ref(p) /\ job'[p].discard.then = "succeed" /\ LocalsOK(p)'
      BY <1>1, <2>5, DiscardMoves
    <3>2. Ref(p)' = Ref(p)
      BY <3>1, SameNames
    <3>3. RefsHeld(p)'
      BY <1>2, <1>3, <3>1 DEF RefsHeld, Masking, Delivering, Discarding, Apart, Expected
    <3>4. RawHeld(p)'
      <4>1. Apart /\ Unequal /\ job[p].captured \in blobs =>
               job[p].residual \/ Passed(job[p]) \/ OnlyRef(p, Ref(p))
        BY <1>1, <1>2 DEF Proc, RawHeld, Passed, Blind, Delivering
      <4>2. OnlyRef(p, Ref(p)) => OnlyRef(p, Ref(p))'
        BY <1>2, <3>1, <3>2 DEF OnlyRef, Elsewhere
      <4> QED
        BY <1>2, <3>1, <3>2, <4>1, <4>2
        DEF RawHeld, Passed, Blind, Reaps, OnlyRef, Masking, Delivering, Discarding, Apart, Unequal
    <3> QED BY <1>1, <1>2, <1>4, <2>2, <2>5, <3>1, <3>3, <3>4, DiscardKeeps
  <2> QED BY <1>6, <2>3, <2>4, <2>5 DEF Inject
<1> QED BY <1>5, <1>6
-----------------------------------------------------------------------------
(* The end of a discard.                                                   *)
LEMMA DiscardedKeeps ==
    ASSUME IInv, NEW p \in Procs, pc[p] \in {"discard", "forget"}, NEW clean \in BOOLEAN,
           Discarded(p, clean), UNCHANGED <<world, outside, started, delivered>>,
           StoreOf(p), blobs' = blobs,
           \A r \in Refs \ {job[p].discard.ref} : manifests'[r] = manifests[r],
           manifests'[job[p].discard.ref] = NoDigest \/ ("disk" \in world /\ ~clean),
           Apart /\ Unequal /\ job[p].captured \in blobs /\ Reaps(p) => ~clean
    PROVE  IInv'
<1>1. /\ Proc(p) /\ LocalsOK(p) /\ job[p] \in Jobs /\ TypeOK /\ Delivers /\ OutsideOf(p)
      /\ Ref(p) \in Refs /\ ShadowRef(p) \in Refs /\ Ref(p) # ShadowRef(p)
      /\ job[p].captured \in Digests \cup {NoDigest} /\ job[p].n \in Nat
      /\ \A r \in Refs : r[1] = job[p].source => r \in {Ref(p), ShadowRef(p)}
      /\ pc[p] \in Discarding
  BY Under, DeliversSame, OutsideSame DEF Discarding
<1>2. world \cap {"crash", "rm"} = {} => \A o \in outside' : o[1] # job[p].n
  <2>1. Temporary(p) = {}
    BY DEF Temporary
  <2> QED BY <2>1, NoneOutside
<1>3. PICK then : then = job[p].discard.then
  OBVIOUS
<1>4. PICK a \in BOOLEAN : a = (job[p].unclean \/ ~clean)
  OBVIOUS
<1>5. PICK b \in BOOLEAN : b = (job[p].residual \/ (~clean /\ then # "raise"))
  OBVIOUS
<1> DEFINE u == [job[p] EXCEPT !.discard = NoDiscard, !.unclean = a, !.residual = b]
<1>6. /\ SameCopy(u, job[p]) /\ u.captured = job[p].captured /\ u.masked = job[p].masked
      /\ u.granted = job[p].granted /\ u.ok = job[p].ok /\ u.unclean = a /\ u.residual = b
  <2>1. NoDiscard \in Discards
    BY DEF NoDiscard, Discards
  <2> QED BY <1>1, <2>1 DEF Jobs, Discards, SameCopy
<1>7. /\ job[p].unclean \/ ~clean => u.unclean
      /\ job[p].residual \/ (~clean /\ then # "raise") => u.residual
  BY <1>4, <1>5, <1>6
<1>8. [job[p] EXCEPT !.discard = NoDiscard, !.unclean = @ \/ ~clean,
                     !.residual = @ \/ (~clean /\ then # "raise")] = u
  BY <1>1, <1>4, <1>5 DEF Jobs
<1> HIDE DEF u
<1>9. IF then \in {"raise", "succeed"}
      THEN /\ Goto(p, "idle") /\ With(p, NoJob)
           /\ ended' = ended \cup {[job |-> u, outcome |-> IF then = "raise" THEN "raised"
                                                           ELSE "succeeded"]}
      ELSE Goto(p, then) /\ With(p, u) /\ UNCHANGED ended
  BY <1>3, <1>8 DEF Discarded
<1>10. Masks(u) = Masks(job[p]) /\ Expected(u) = Expected(job[p]) /\ u \in Jobs
  BY <1>6 DEF Masks, Expected, SameCopy
<1>11. CASE job[p].discard.ref = Ref(p) /\ then \in {"raise", "succeed"}
  <2>1. Ends(p)
    BY <1>1, <1>9, <1>11, IdleEnds
  <2>2. PICK outcome \in {"succeeded", "raised"} : outcome = IF then = "raise" THEN "raised" ELSE "succeeded"
    OBVIOUS
  <2>3. ended' = ended \cup {[job |-> u, outcome |-> outcome]}
    BY <1>9, <1>11, <2>2
  <2>4. u.n = job[p].n /\ u.captured = job[p].captured
    BY <1>6 DEF SameCopy
  <2>5. Follows(p)
    <3>1. pc[p] # "idle"
      OBVIOUS
    <3> QED BY <1>1, <2>1, <2>3, <2>4, <3>1, EndsFollow
  <2>6. ~ReapsShadow(p) /\ manifests'[ShadowRef(p)] = manifests[ShadowRef(p)]
    BY <1>1, <1>11 DEF ReapsShadow
  <2>7. ShadowsReaped'
    BY <2>5, <2>6, ShadowsStay
  <2>8. Backed'
    <3>1. Orderly => manifests'[Ref(p)] = NoDigest
      BY <1>11 DEF Orderly
    <3>2. Orderly => manifests'[ShadowRef(p)] = NoDigest
      BY <2>6, NoShadow DEF Busy
    <3> QED BY <1>1, <2>5, <3>1, <3>2, BackedAfter
  <2>9. Apart /\ Unequal /\ job[p].captured \in blobs' => Reaped([job |-> u, outcome |-> outcome])
    <3>1. Apart /\ Unequal /\ job[p].captured \in blobs =>
            /\ then = "raise" => job[p].unclean \/ Reaps(p)
            /\ then = "succeed" => job[p].residual \/ Passed(job[p]) \/ Reaps(p)
      BY <1>1, <1>3 DEF Proc, RawHeld, Passed, Blind
    <3>2. Apart /\ Unequal /\ job[p].captured \in blobs =>
            /\ then = "raise" => u.unclean
            /\ then = "succeed" => u.residual \/ Passed(u)
      BY <1>7, <3>1 DEF Passed
    <3> QED BY <1>11, <2>2, <3>2 DEF Reaped, Reported
  <2> QED BY <1>1, <1>2, <1>10, <2>1, <2>3, <2>4, <2>7, <2>8, <2>9, EndsKeep
<1>12. CASE job[p].discard.ref = ShadowRef(p) /\ then \in {"validate", "compensate"} /\ Masks(job[p])
  <2>1. Goto(p, then) /\ With(p, u) /\ UNCHANGED ended /\ then \in Positions
    BY <1>9, <1>12 DEF Positions
  <2>2. Moves(p, then) /\ pc'[p] = then /\ job'[p] = u /\ u # NoJob
    BY <1>1, <1>6, <2>1, MovesSame
  <2>3. Ref(p)' = Ref(p) /\ ShadowRef(p)' = ShadowRef(p)
    BY <2>2, SameNames
  <2>4. manifests'[Ref(p)] = manifests[Ref(p)]
    BY <1>1, <1>12
  <2>5. LocalsOK(p)'
    BY <1>1, <1>6, <1>10, <1>12, <2>2
    DEF LocalsOK, Masking, Delivering, Discarding, Unequal, SameCopy, Masks
  <2>6. RefsHeld(p)'
    <3>1. /\ Apart /\ then = "validate" => manifests[Ref(p)] = job[p].masked
          /\ Apart /\ then = "compensate" => manifests[Ref(p)] = job[p].captured
      BY <1>1, <1>3 DEF Proc, RefsHeld
    <3>2. Expected(u) = u.masked
      BY <1>10, <1>12 DEF Expected, Masks
    <3> QED
      BY <1>6, <1>12, <2>2, <2>3, <2>4, <3>1, <3>2 DEF RefsHeld, Masking, Delivering, Discarding, Apart
  <2>7. RawHeld(p)'
    <3>1. ASSUME Apart, Unequal, job[p].captured \in blobs
          PROVE  /\ then = "validate" => (u.residual \/ Blind) /\ u.unclean
                 /\ then = "compensate" => u.unclean \/ OnlyRef(p, Ref(p))'
      <4>1. /\ then = "validate" => Passed(job[p]) \/ Reaps(p)
            /\ then = "compensate" => /\ Elsewhere(p, {Ref(p), ShadowRef(p)})
                                      /\ manifests[Ref(p)] = job[p].captured
        BY <1>1, <1>3, <3>1 DEF Proc, RawHeld, Passed, Blind, RefsHeld
      <4>2. then = "validate" => Passed(job[p]) \/ ~clean
        BY <3>1, <4>1
      <4>3. job[p].captured # NoDigest
        BY <1>1, <3>1, DigestFields DEF TypeOK, Store!TypeOK
      <4>4. Elsewhere(p, {Ref(p), ShadowRef(p)}) /\ manifests[Ref(p)] = job[p].captured /\ clean =>
               OnlyRef(p, Ref(p))'
        BY <1>6, <1>12, <2>2, <2>3, <2>4, <4>3 DEF Elsewhere, OnlyRef
      <4> QED BY <1>12, <1>7, <4>1, <4>2, <4>4 DEF Passed
    <3> QED
      BY <1>6, <1>10, <1>12, <2>2, <2>3, <3>1
      DEF RawHeld, Passed, Blind, Masking, Delivering, Discarding, Apart, Unequal
  <2>8. OutsideHeld(p)'
    BY <1>2, <1>6, <2>2 DEF OutsideHeld, SameCopy
  <2>9. Orderly => manifests'[ShadowRef(p)] = NoDigest
    BY <1>12 DEF Orderly
  <2> QED BY <1>1, <1>12, <2>1, <2>2, <2>5, <2>6, <2>7, <2>8, <2>9, MovesKeep
<1> QED BY <1>1, <1>3, <1>11, <1>12 DEF LocalsOK

(* The locals of a discard change, the rest of the copy does not. *)
LEMMA DiscardSteps ==
    ASSUME IInv, NEW p \in Procs, NEW l \in Discarding, pc[p] \in Discarding,
           NEW d \in Discards, d.ref = job[p].discard.ref, d.then = job[p].discard.then,
           NEW u, u = [job[p] EXCEPT !.discard = d], Goto(p, l), With(p, u),
           UNCHANGED <<world, started>>, l \in {"scan", "unlink"} => d.blob # NoDigest
    PROVE  /\ Moves(p, l) /\ pc'[p] = l /\ job'[p].discard = d
           /\ job'[p].captured = job[p].captured /\ job'[p].masked = job[p].masked
           /\ job'[p].residual = job[p].residual /\ job'[p].unclean = job[p].unclean
           /\ LocalsOK(p)' /\ (ReapsShadow(p)' <=> ReapsShadow(p))
<1>1. /\ Proc(p) /\ LocalsOK(p) /\ job[p] \in Jobs /\ TypeOK /\ l \in Positions /\ pc[p] # "idle"
  BY Under DEF Discarding, Positions
<1>2. /\ SameCopy(u, job[p]) /\ u.captured = job[p].captured /\ u.masked = job[p].masked
      /\ u.granted = job[p].granted /\ u.discard = d /\ u.ok = job[p].ok
      /\ u.residual = job[p].residual /\ u.unclean = job[p].unclean
  BY <1>1 DEF Jobs, Discards, SameCopy
<1>3. Moves(p, l) /\ pc'[p] = l /\ job'[p] = u /\ u # NoJob
  BY <1>1, <1>2, MovesSame
<1>4. Ref(p)' = Ref(p) /\ ShadowRef(p)' = ShadowRef(p) /\ Masks(u) = Masks(job[p])
  BY <1>3, SameNames
<1>5. LocalsOK(p)'
  BY <1>1, <1>2, <1>3, <1>4 DEF LocalsOK, Masking, Delivering, Discarding, Unequal, SameCopy
<1>6. ReapsShadow(p)' <=> ReapsShadow(p)
  BY <1>2, <1>3, <1>4 DEF ReapsShadow, Discarding
<1> QED BY <1>2, <1>3, <1>5, <1>6

(* Inside discard the manifests of the copy are as they were. *)
LEMMA DiscardHolds ==
    ASSUME IInv, NEW p \in Procs, NEW l \in Discarding \ {"discard"}, pc[p] \in Discarding,
           Moves(p, l), UNCHANGED <<world, manifests>>,
           job'[p].discard.then = job[p].discard.then,
           job'[p].captured = job[p].captured, job'[p].masked = job[p].masked,
           job'[p].residual = job[p].residual, job[p].unclean => job'[p].unclean,
           Apart /\ l # "forget" => job'[p].discard.blob \in {job[p].captured, job[p].masked},
           Apart /\ Unequal /\ job[p].captured \in blobs' =>
              job[p].captured \in blobs /\ (Reaps(p) => Passed(job[p])' \/ Reaps(p)')
    PROVE  RefsHeld(p)' /\ RawHeld(p)'
<1>1. Proc(p) /\ pc'[p] = l
  BY Under DEF Discarding, Moves
<1>2. Ref(p)' = Ref(p) /\ ShadowRef(p)' = ShadowRef(p) /\ Masks(job[p])' = Masks(job[p])
  BY SameNames
<1>3. RefsHeld(p)'
  BY <1>1, <1>2 DEF Proc, RefsHeld, Masking, Delivering, Discarding, Apart
<1>4. RawHeld(p)'
  <2>1. Elsewhere(p, {Ref(p), ShadowRef(p)}) => Elsewhere(p, {Ref(p), ShadowRef(p)})'
    BY <1>2 DEF Elsewhere
  <2>2. ASSUME Apart, Unequal, job[p].captured \in blobs'
        PROVE  /\ job[p].discard.then = "validate" => Passed(job[p])' \/ Reaps(p)'
               /\ job[p].discard.then = "compensate" => Elsewhere(p, {Ref(p), ShadowRef(p)})'
               /\ job[p].discard.then = "raise" => job'[p].unclean \/ Reaps(p)'
               /\ job[p].discard.then = "succeed" =>
                    job[p].residual \/ Passed(job[p])' \/ Reaps(p)'
    BY <1>1, <2>1, <2>2 DEF Proc, RawHeld, Passed, Blind
  <2> QED
    BY <1>1, <1>2, <2>2 DEF RawHeld, Passed, Blind, Masking, Delivering, Discarding, Apart, Unequal
<1> QED BY <1>3, <1>4

LEMMA ReadManifestKeeps ==
    ASSUME IInv, NEW p \in Procs, ReadManifest(p), UNCHANGED world
    PROVE  IInv'
<1>1. pc[p] = "discard" /\ UNCHANGED <<store, outside, started, delivered>>
  BY DEF ReadManifest
<1>2. /\ Proc(p) /\ LocalsOK(p) /\ job[p] \in Jobs /\ TypeOK /\ job[p].discard \in Discards
      /\ StoreOf(p) /\ blobs' = blobs /\ manifests' = manifests /\ OutsideOf(p) /\ Delivers
      /\ Ref(p) \in Refs /\ ShadowRef(p) \in Refs
  BY <1>1, Under, StoreSame, OutsideSame, DeliversSame
<1>3. job[p].discard.ref \in Refs
  BY <1>1, <1>2 DEF LocalsOK, Discarding
<1>4. PICK d \in Digests \cup {NoDigest} : d = manifests[job[p].discard.ref]
  BY <1>2, <1>3 DEF TypeOK, Store!TypeOK
<1>5. job[p].captured \in blobs => job[p].captured # NoDigest
  BY <1>2, DigestFields DEF TypeOK, Store!TypeOK
<1>6. CASE d = NoDigest /\ Discarded(p, TRUE)
  <2>1. job[p].captured \in blobs => ~Reaps(p)
    BY <1>1, <1>4, <1>5, <1>6 DEF Reaps, OnlyRef
  <2> QED BY <1>1, <1>2, <1>4, <1>6, <2>1, DiscardedKeeps
<1>7. CASE "disk" \in world /\ Discarded(p, FALSE)
  BY <1>1, <1>2, <1>7, DiscardedKeeps
<1>8. CASE /\ d # NoDigest /\ Goto(p, "scan") /\ With(p, [job[p] EXCEPT !.discard.blob = d])
           /\ UNCHANGED ended
  <2>1. PICK c : c = [job[p].discard EXCEPT !.blob = d]
    OBVIOUS
  <2>2. c \in Discards /\ c.ref = job[p].discard.ref /\ c.then = job[p].discard.then /\ c.blob = d
    BY <1>2, <2>1 DEF Discards
  <2>3. PICK u : u = [job[p] EXCEPT !.discard = c]
    OBVIOUS
  <2>4. With(p, u) /\ Goto(p, "scan") /\ "scan" \in Discarding /\ "discard" \in Discarding
    BY <1>8, <2>1, <2>3 DEF Discarding
  <2>5. /\ Moves(p, "scan") /\ pc'[p] = "scan" /\ job'[p].discard = c
        /\ job'[p].captured = job[p].captured /\ job'[p].masked = job[p].masked
        /\ job'[p].residual = job[p].residual /\ job'[p].unclean = job[p].unclean
        /\ LocalsOK(p)' /\ (ReapsShadow(p)' <=> ReapsShadow(p))
    BY <1>1, <1>8, <2>2, <2>3, <2>4, DiscardSteps
  <2>6. Apart => d \in {job[p].captured, job[p].masked}
    BY <1>1, <1>2, <1>4 DEF Proc, RefsHeld
  <2>7. Reaps(p) => Reaps(p)'
    BY <1>1, <1>2, <1>4, <2>2, <2>5 DEF Reaps, OnlyRef, Elsewhere
  <2>8. RefsHeld(p)' /\ RawHeld(p)'
    BY <1>1, <1>2, <2>2, <2>4, <2>5, <2>6, <2>7, DiscardHolds
  <2>9. OutsideHeld(p)'
    <3>1. Temporary(p) = {}
      BY <1>1 DEF Temporary
    <3> QED BY <1>1, <2>5, <3>1, NoneOutside DEF OutsideHeld, Moves
  <2> QED BY <1>1, <1>2, <1>8, <2>5, <2>8, <2>9, MovesKeep DEF Positions
<1>9. CASE /\ Goto(p, "forget") /\ With(p, [job[p] EXCEPT !.unclean = TRUE])
           /\ UNCHANGED ended /\ "unreadable" \in world
  <2>1. PICK u : u = [job[p] EXCEPT !.unclean = TRUE]
    OBVIOUS
  <2>2. /\ SameCopy(u, job[p]) /\ u.captured = job[p].captured /\ u.masked = job[p].masked
        /\ u.granted = job[p].granted /\ u.discard = job[p].discard /\ u.ok = job[p].ok
        /\ u.residual = job[p].residual /\ u.unclean = TRUE
    BY <1>2, <2>1 DEF Jobs, SameCopy
  <2>3. Moves(p, "forget") /\ pc'[p] = "forget" /\ job'[p] = u /\ u # NoJob
    BY <1>1, <1>2, <1>9, <2>1, <2>2, MovesSame DEF Positions
  <2>4. Ref(p)' = Ref(p) /\ ShadowRef(p)' = ShadowRef(p) /\ Masks(u) = Masks(job[p])
    BY <2>3, SameNames
  <2>5. LocalsOK(p)' /\ (ReapsShadow(p)' <=> ReapsShadow(p))
    <3>1. LocalsOK(p)'
      BY <1>1, <1>2, <2>2, <2>3, <2>4
      DEF LocalsOK, Masking, Delivering, Discarding, Unequal, SameCopy
    <3>2. ReapsShadow(p)' <=> ReapsShadow(p)
      BY <1>1, <2>2, <2>3, <2>4 DEF ReapsShadow, Discarding
    <3> QED BY <3>1, <3>2
  <2>7. Passed(job[p])'
    BY <1>9, <2>2, <2>3 DEF Passed, Blind
  <2>8. RefsHeld(p)' /\ RawHeld(p)'
    <3>1. "forget" \in Discarding \ {"discard"} /\ pc[p] \in Discarding
      BY <1>1 DEF Discarding
    <3> QED BY <1>1, <1>2, <2>2, <2>3, <2>7, <3>1, DiscardHolds
  <2>6. OutsideHeld(p)'
    <3>1. Temporary(p) = {}
      BY <1>1 DEF Temporary
    <3> QED BY <1>1, <2>3, <3>1, NoneOutside DEF OutsideHeld, Moves
  <2> QED BY <1>1, <1>2, <1>9, <2>3, <2>5, <2>8, <2>6, MovesKeep DEF Positions
<1> QED BY <1>4, <1>6, <1>7, <1>8, <1>9 DEF ReadManifest, Store!Resolve

LEMMA ScanKeeps ==
    ASSUME IInv, NEW p \in Procs, Scan(p), UNCHANGED world
    PROVE  IInv'
<1>1. pc[p] = "scan" /\ UNCHANGED <<store, outside, started, delivered, ended>>
  BY DEF Scan, books
<1>2. /\ Proc(p) /\ LocalsOK(p) /\ job[p] \in Jobs /\ TypeOK /\ job[p].discard \in Discards
      /\ StoreOf(p) /\ blobs' = blobs /\ manifests' = manifests /\ OutsideOf(p) /\ Delivers
  BY <1>1, Under, StoreSame, OutsideSame, DeliversSame
<1>3. PICK k \in SUBSET Store!ReferencedExcluding(job[p].discard.ref) :
          /\ k = Store!ReferencedExcluding(job[p].discard.ref) \/ MayNotResolve
          /\ With(p, [job[p] EXCEPT !.discard.kept = k])
  BY DEF Scan
<1>20. k \in SUBSET Digests
  BY <1>2, <1>3 DEF TypeOK, Store!TypeOK, Store!ReferencedExcluding
<1>4. PICK c : c = [job[p].discard EXCEPT !.kept = k]
  OBVIOUS
<1>5. /\ c \in Discards /\ c.ref = job[p].discard.ref /\ c.then = job[p].discard.then
      /\ c.blob = job[p].discard.blob /\ c.kept = k
  BY <1>2, <1>4, <1>20 DEF Discards
<1>6. PICK u : u = [job[p] EXCEPT !.discard = c]
  OBVIOUS
<1>7. With(p, u) /\ Goto(p, "unlink") /\ "unlink" \in Discarding /\ "scan" \in Discarding
  BY <1>3, <1>4, <1>6 DEF Discarding, Scan
<1>8. job[p].discard.blob # NoDigest
  BY <1>1, <1>2 DEF LocalsOK
<1>9. /\ Moves(p, "unlink") /\ pc'[p] = "unlink" /\ job'[p].discard = c
      /\ job'[p].captured = job[p].captured /\ job'[p].masked = job[p].masked
      /\ job'[p].residual = job[p].residual /\ job'[p].unclean = job[p].unclean
      /\ LocalsOK(p)' /\ (ReapsShadow(p)' <=> ReapsShadow(p)) /\ Turn(p)
  BY <1>1, <1>5, <1>6, <1>7, <1>8, DiscardSteps DEF Moves
<1>10. Apart => job[p].discard.blob \in {job[p].captured, job[p].masked}
  BY <1>1, <1>2 DEF Proc, RefsHeld
<1>11. Reaps(p) => Reaps(p)'
  BY <1>1, <1>3, <1>5, <1>9 DEF Reaps, Elsewhere, Store!ReferencedExcluding
<1>12. RefsHeld(p)' /\ RawHeld(p)'
  BY <1>1, <1>2, <1>5, <1>7, <1>9, <1>10, <1>11, DiscardHolds
<1>13. OutsideHeld(p)'
  <2>1. Temporary(p) = {}
    BY <1>1 DEF Temporary
  <2> QED BY <1>1, <1>9, <2>1, NoneOutside DEF OutsideHeld, Moves
<1>14. ScanHeld(p)'
  BY <1>2, <1>3, <1>5, <1>9 DEF ScanHeld, MayNotResolve, Store!ReferencedExcluding
<1>15. Follows(p) /\ Busy(p)'
  BY <1>1, <1>2, <1>9, MovesFollow DEF Positions
<1>16. OwnDigests(p)'
  BY <1>9, <1>15, MovesOwn
<1>17. TypeOK'
  <2>1. /\ started' \in 0..MaxCopies /\ UNCHANGED ended
        /\ ended \subseteq [job : Jobs, outcome : {"succeeded", "raised"}]
    BY <1>1, <1>2 DEF TypeOK
  <2> QED BY <1>2, <1>9, <2>1, TypeKeeps DEF Delivers
<1>18. Backed' /\ ShadowsReaped'
  BY <1>2, <1>9, <1>15, BackedStays, ShadowsStay
<1>19. Proc(p)'
  BY <1>9, <1>12, <1>13, <1>14, <1>16 DEF Proc
<1> QED BY <1>1, <1>2, <1>15, <1>17, <1>18, <1>19, StepKeeps DEF Delivers

(* No manifest that is left alone names the blob that discard unlinks: the  *)
(* scan saw it, or, when copies of unequal bytes overlap, nobody else has   *)
(* the digest.                                                              *)
LEMMA UnlinkBacked ==
    ASSUME IInv, NEW p \in Procs, pc[p] = "unlink", Follows(p), pc'[p] = "forget", Orderly,
           blobs' = IF job[p].discard.blob \in job[p].discard.kept THEN blobs
                    ELSE blobs \ {job[p].discard.blob}
    PROVE  Backed'
<1>1. /\ world' = world /\ \A q \in Procs \ {p} : pc'[q] = pc[q] /\ job'[q] = job[q]
  BY DEF Follows, Effects, Turn
<1>2. /\ Proc(p) /\ LocalsOK(p) /\ TypeOK /\ Apart
      /\ Ref(p)[1] = job[p].source /\ ShadowRef(p)[1] = job[p].source
  BY Under DEF Orderly, Apart
<1>3. job'[p].source = job[p].source
  BY DEF Follows, Busy
<1> SUFFICES ASSUME NEW r \in Refs, manifests'[r] # NoDigest, ~Touched(r)'
             PROVE  manifests'[r] \in blobs'
  BY <1>1 DEF Backed, Orderly
<1>4. r[1] # job[p].source
  BY <1>3 DEF Touched
<1>5. manifests'[r] = manifests[r] /\ ~Touched(r)
  BY <1>1, <1>4 DEF Follows, Effects, Touched
<1>6. manifests[r] \in blobs
  BY <1>5 DEF IInv, Shared, Backed
<1>7. job[p].discard.blob \notin job[p].discard.kept => manifests[r] # job[p].discard.blob
  <2>1. CASE "overlap" \notin world
    <3>1. job[p].discard.kept = Store!ReferencedExcluding(job[p].discard.ref)
      BY <1>2, <2>1 DEF Proc, ScanHeld, Orderly, MayNotResolve
    <3>2. r # job[p].discard.ref
      BY <1>2, <1>4 DEF LocalsOK, Discarding
    <3> QED BY <1>5, <3>1, <3>2 DEF Store!ReferencedExcluding
  <2>2. CASE "overlap" \in world
    <3>1. Unequal
      BY <2>2 DEF Orderly, Unequal
    <3>2. job[p].discard.blob # NoDigest /\ job[p].discard.blob \in {job[p].captured, job[p].masked}
      BY <1>2 DEF Proc, LocalsOK, RefsHeld
    <3>3. job[p].discard.blob.n = job[p].n
      BY <1>2, <3>1, <3>2 DEF LocalsOK
    <3> QED BY <1>2, <1>4, <1>5, <3>1, <3>3 DEF Proc, OwnDigests
  <2> QED BY <2>1, <2>2
<1> QED BY <1>5, <1>6, <1>7

LEMMA UnlinkStep ==
    ASSUME IInv, NEW p \in Procs, pc[p] = "unlink", Goto(p, "forget"),
           UNCHANGED <<world, manifests, outside, started, delivered, ended>>,
           NEW c \in Discards, c.ref = job[p].discard.ref, c.then = job[p].discard.then,
           c.blob = job[p].discard.blob, NEW u, u = [job[p] EXCEPT !.discard = c], With(p, u),
           \/ blobs' = IF job[p].discard.blob \in job[p].discard.kept THEN blobs
                       ELSE blobs \ {job[p].discard.blob}
           \/ "disk" \in world /\ blobs' = blobs /\ ~c.clean
    PROVE  IInv'
<1>1. /\ Proc(p) /\ LocalsOK(p) /\ TypeOK /\ OutsideOf(p) /\ Delivers
      /\ "forget" \in Discarding /\ "unlink" \in Discarding
  BY Under, OutsideSame, DeliversSame DEF Discarding
<1>2. StoreOf(p) /\ blobs' \subseteq blobs
  BY <1>1 DEF StoreOf, TypeOK, Store!TypeOK
<1>3. job[p].discard.blob # NoDigest
  BY <1>1 DEF LocalsOK
<1>4. /\ Moves(p, "forget") /\ pc'[p] = "forget" /\ job'[p].discard = c
      /\ job'[p].captured = job[p].captured /\ job'[p].masked = job[p].masked
      /\ job'[p].residual = job[p].residual /\ job'[p].unclean = job[p].unclean
      /\ LocalsOK(p)' /\ (ReapsShadow(p)' <=> ReapsShadow(p)) /\ Turn(p)
  BY <1>1, <1>3, DiscardSteps DEF Moves
<1>5. Apart => c.blob \in {job[p].captured, job[p].masked}
  BY <1>1 DEF Proc, RefsHeld
<1>6. job[p].captured \in blobs' => (Reaps(p) => Reaps(p)')
  BY <1>4 DEF Reaps
<1>7. RefsHeld(p)' /\ RawHeld(p)'
  BY <1>1, <1>2, <1>4, <1>5, <1>6, DiscardHolds
<1>8. OutsideHeld(p)'
  <2>1. Temporary(p) = {}
    BY DEF Temporary
  <2> QED BY <1>4, <2>1, NoneOutside DEF OutsideHeld, Moves
<1>9. Follows(p) /\ Busy(p)'
  BY <1>1, <1>2, <1>4, MovesFollow DEF Positions
<1>10. Proc(p)'
  BY <1>4, <1>7, <1>8, <1>9, MovesOwn DEF Proc, ScanHeld
<1>11. TypeOK'
  <2>1. /\ started' \in 0..MaxCopies /\ UNCHANGED ended
        /\ ended \subseteq [job : Jobs, outcome : {"succeeded", "raised"}]
    BY <1>1 DEF TypeOK
  <2> QED BY <1>1, <1>2, <1>4, <2>1, TypeKeeps DEF Delivers
<1>12. Backed'
  <2>1. CASE Orderly
    BY <1>4, <1>9, <2>1, UnlinkBacked DEF Orderly
  <2>2. CASE ~Orderly
    BY <2>2 DEF Backed, Orderly
  <2> QED BY <2>1, <2>2
<1>13. ShadowsReaped'
  BY <1>4, <1>9, ShadowsStay
<1> QED BY <1>1, <1>9, <1>10, <1>11, <1>12, <1>13, StepKeeps DEF Delivers

LEMMA UnlinkKeeps ==
    ASSUME IInv, NEW p \in Procs, Unlink(p), UNCHANGED world
    PROVE  IInv'
<1>1. pc[p] = "unlink" /\ Goto(p, "forget") /\ UNCHANGED <<outside, started, delivered, ended>>
  BY DEF Unlink, books
<1>2. job[p] \in Jobs /\ TypeOK /\ job[p].discard \in Discards
  BY <1>1, Under
<1>3. CASE Store!UnlinkBlob(job[p].discard.blob, job[p].discard.kept) /\ UNCHANGED job
  <2>1. job[p] = [job[p] EXCEPT !.discard = job[p].discard]
    BY <1>2 DEF Jobs
  <2>2. With(p, job[p])
    BY <1>2, <1>3 DEF With, TypeOK
  <2>3. /\ UNCHANGED manifests
        /\ blobs' = IF job[p].discard.blob \in job[p].discard.kept THEN blobs
                    ELSE blobs \ {job[p].discard.blob}
    BY <1>3 DEF Store!UnlinkBlob
  <2> QED BY <1>1, <1>2, <2>1, <2>2, <2>3, UnlinkStep
<1>4. CASE "disk" \in world /\ With(p, [job[p] EXCEPT !.discard.clean = FALSE]) /\ UNCHANGED store
  <2>1. PICK c : c = [job[p].discard EXCEPT !.clean = FALSE]
    OBVIOUS
  <2>2. /\ c \in Discards /\ c.ref = job[p].discard.ref /\ c.then = job[p].discard.then
        /\ c.blob = job[p].discard.blob /\ ~c.clean
    BY <1>2, <2>1 DEF Discards
  <2>3. PICK u : u = [job[p] EXCEPT !.discard = c]
    OBVIOUS
  <2>4. With(p, u) /\ blobs' = blobs /\ UNCHANGED manifests
    BY <1>4, <2>1, <2>3 DEF store
  <2> QED BY <1>1, <1>4, <2>2, <2>3, <2>4, UnlinkStep
<1> QED BY <1>3, <1>4 DEF Unlink

LEMMA ForgetKeeps ==
    ASSUME IInv, NEW p \in Procs, Forget(p), UNCHANGED world
    PROVE  IInv'
<1>1. pc[p] = "forget" /\ UNCHANGED <<outside, started, delivered>>
  BY DEF Forget
<1>2. /\ LocalsOK(p) /\ job[p].discard \in Discards /\ job[p].discard.clean \in BOOLEAN
  BY <1>1, Under, DiscardFields
<1>3. job[p].discard.ref \in {Ref(p), ShadowRef(p)}
  BY <1>1, <1>2 DEF LocalsOK, Discarding
<1>4. Reaps(p) => ~job[p].discard.clean
  BY <1>1 DEF Reaps
<1>5. CASE Store!UnlinkManifest(job[p].discard.ref) /\ Discarded(p, job[p].discard.clean)
  <2>1. /\ StoreOf(p) /\ blobs' = blobs /\ manifests'[job[p].discard.ref] = NoDigest
        /\ \A r \in Refs \ {job[p].discard.ref} : manifests'[r] = manifests[r]
    BY <1>1, <1>3, <1>5, StorePut
  <2> QED BY <1>1, <1>2, <1>4, <1>5, <2>1, DiscardedKeeps
<1>6. CASE "disk" \in world /\ UNCHANGED store /\ Discarded(p, FALSE)
  <2>1. StoreOf(p) /\ blobs' = blobs /\ manifests' = manifests
    BY <1>6, StoreSame
  <2> QED BY <1>1, <1>6, <2>1, DiscardedKeeps
<1> QED BY <1>5, <1>6 DEF Forget

LEMMA CrashKeeps ==
    ASSUME IInv, NEW p \in Procs, Crash(p), UNCHANGED world
    PROVE  IInv'
<1>1. /\ "crash" \in world /\ pc[p] # "idle" /\ Goto(p, "idle") /\ With(p, NoJob)
      /\ UNCHANGED <<store, outside, started, delivered, ended>>
  BY DEF Crash, books
<1>2. TypeOK /\ StoreOf(p) /\ OutsideOf(p) /\ Delivers
  BY <1>1, Under, StoreSame, OutsideSame, DeliversSame
<1>3. Ends(p) /\ Turn(p)
  BY <1>1, <1>2, IdleEnds DEF Ends
<1>4. Follows(p)
  BY <1>1, <1>2, <1>3, EndsFollow
<1>5. TypeOK'
  <2>1. /\ started' \in 0..MaxCopies /\ UNCHANGED ended
        /\ ended \subseteq [job : Jobs, outcome : {"succeeded", "raised"}]
    BY <1>1, <1>2 DEF TypeOK
  <2> QED BY <1>2, <1>3, <2>1, TypeKeeps DEF Delivers
<1>6. Proc(p)'
  BY <1>3, <1>5, EndsProc
<1>7. Backed' /\ ShadowsReaped'
  BY <1>1 DEF Backed, ShadowsReaped, Orderly
<1> QED BY <1>1, <1>2, <1>4, <1>5, <1>6, <1>7, StepKeeps DEF Delivers
-----------------------------------------------------------------------------
LEMMA InitInv == Init => IInv
<1> SUFFICES ASSUME Init PROVE IInv
  OBVIOUS
<1>1. /\ blobs = {} /\ outside = {} /\ started = 0 /\ delivered = {} /\ ended = {}
      /\ \A r \in Refs : manifests[r] = NoDigest
      /\ \A p \in Procs : pc[p] = "idle" /\ job[p] = NoJob
  BY DEF Init, Store!Init
<1>2. TypeOK
  BY CopiesAssumption DEF Init, Store!Init, TypeOK, Store!TypeOK, Positions
<1>3. Shared
  BY <1>1, RefFields DEF Shared, Numbered, EndedOver, Backed, ShadowsReaped, DeliversOwn, RawReaped,
     NothingLeftOutside
<1>4. Pairs
  BY <1>1 DEF Pairs, Busy
<1>5. ASSUME NEW p \in Procs PROVE Proc(p)
  <2>1. LocalsOK(p)
    BY <1>1, NoJobFields DEF LocalsOK, Masking, Delivering, Discarding
  <2>2. RefsHeld(p) /\ ScanHeld(p) /\ RawHeld(p) /\ OutsideHeld(p) /\ OwnDigests(p)
    BY <1>1 DEF RefsHeld, ScanHeld, RawHeld, Passed, Blind, OutsideHeld, OwnDigests, Masking, Delivering,
       Discarding
  <2> QED BY <2>1, <2>2 DEF Proc
<1> QED BY <1>2, <1>3, <1>4, <1>5 DEF IInv

LEMMA StutterKeeps ==
    ASSUME IInv, UNCHANGED vars
    PROVE  IInv'
<1> USE DEF vars
<1>1. TypeOK'
  BY DEF IInv, TypeOK, Store!TypeOK
<1>2. Shared'
  BY DEF IInv, Shared, Numbered, EndedOver, Backed, Orderly, Touched, ShadowsReaped, DeliversOwn,
     RawReaped, NothingLeftOutside, Apart, Blind, Keeps, Expected, Busy, Unequal
<1>3. Pairs'
  BY DEF IInv, Pairs, Busy, Apart
<1>4. \A p \in Procs : Proc(p)'
  <2> SUFFICES ASSUME NEW p \in Procs PROVE Proc(p)'
    OBVIOUS
  <2>1. Proc(p) /\ Ref(p)' = Ref(p) /\ ShadowRef(p)' = ShadowRef(p)
    BY DEF IInv, Ref, ShadowRef
  <2>2. LocalsOK(p)' /\ RefsHeld(p)'
    BY <2>1 DEF Proc, LocalsOK, RefsHeld, Apart, Unequal
  <2>3. RawHeld(p)'
    BY <2>1 DEF Proc, RawHeld, Passed, Blind, Apart, Unequal, Elsewhere, OnlyRef, Reaps
  <2>4. OutsideHeld(p)' /\ OwnDigests(p)' /\ ScanHeld(p)'
    BY <2>1 DEF Proc, OutsideHeld, OwnDigests, ScanHeld, MayNotResolve, Apart, Unequal, Temporary,
       Store!ReferencedExcluding
  <2> QED BY <2>2, <2>3, <2>4 DEF Proc
<1> QED BY <1>1, <1>2, <1>3, <1>4 DEF IInv

LEMMA NextInv == IInv /\ [Next]_vars => IInv'
<1> SUFFICES ASSUME IInv, [Next]_vars PROVE IInv'
  OBVIOUS
<1>1. CASE UNCHANGED vars
  BY <1>1, StutterKeeps
<1>2. ASSUME NEW p \in Procs, Step(p), UNCHANGED world PROVE IInv'
  BY <1>2, StartKeeps, DumpKeeps, PutCapturedKeeps, StageCapturedKeeps, GrantKeeps, OpenRawKeeps,
     StartScratchKeeps, LoadKeeps, MaskKeeps, RmKeeps, StageMaskedKeeps, PutShadowKeeps,
     PutMaskedKeeps, PutAgainKeeps, ValidateKeeps, RestoreComponentKeeps, ProvisionKeeps,
     InjectKeeps, CompensateKeeps, ReadManifestKeeps, ScanKeeps, UnlinkKeeps, ForgetKeeps,
     CrashKeeps DEF Step
<1> QED BY <1>1, <1>2 DEF Next

(* The inductive invariant holds for any processes, sources and number of   *)
(* copies, in every environment.                                            *)
THEOREM Invariance == Spec => []IInv
BY InitInv, NextInv, PTL DEF Spec

(* The variables keep their types: the store, what is outside it, the       *)
(* positions and locals of the copies, and what they delivered.             *)
THEOREM TypeCorrect == Spec => []TypeOK
<1>1. IInv => TypeOK
  BY DEF IInv
<1> QED BY <1>1, Invariance, PTL

(* Unless copies of one source overlap, coordinator.run streams into a      *)
(* target only the dump this very copy made: masked when its policy has     *)
(* rules, raw only past the delivery gate.                                  *)
THEOREM OwnDumpDelivered == Spec => []DeliversOwn
<1>1. IInv => DeliversOwn
  BY DEF IInv, Shared
<1> QED BY <1>1, Invariance, PTL

(* A pre-mask dump stays in the store after its copy only when run put a    *)
(* residual checkpoint into its result, or when a copy that raised had a    *)
(* discard that failed, or after a discard met a manifest it could not      *)
(* read, while copies of one source do not overlap and no two dumps are     *)
(* equal.                                                                   *)
THEOREM PreMaskDumpReaped == Spec => []RawReaped
<1>1. IInv => RawReaped
  BY DEF IInv, Shared
<1> QED BY <1>1, Invariance, PTL

(* discard never takes the bytes of a reference that no copy is using,      *)
(* unless somebody died or failed half-way through a discard, a manifest    *)
(* could not be read, or copies of one source or of equal bytes raced.      *)
THEOREM RetainedBytesKept == Spec => []RetainedIsBacked
<1>1. IInv => RetainedIsBacked
  <2>1. ASSUME NEW r \in Refs, ~InUse(r) PROVE ~Touched(r)
    BY <2>1 DEF InUse, Touched
  <2> QED BY <2>1 DEF IInv, Shared, Backed, Orderly, RetainedIsBacked
<1> QED BY <1>1, Invariance, PTL

(* The finally blocks of capture and mask_transform leave no temporary dump *)
(* and no scratch container behind, on any path, unless the process died or *)
(* docker rm failed.                                                        *)
THEOREM TemporariesRemoved == Spec => []NothingLeftOutside
<1>1. IInv => NothingLeftOutside
  BY DEF IInv, Shared
<1> QED BY <1>1, Invariance, PTL
=============================================================================
