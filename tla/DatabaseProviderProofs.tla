----------------------- MODULE DatabaseProviderProofs -----------------------
(***************************************************************************)
(* DatabaseProvider keeps its safety properties for any sets of processes, *)
(* operations, names, ids and volumes, in every environment.               *)
(*                                                                         *)
(* The inductive invariant says what the resources, claims and receipts    *)
(* say of one another (Shared), what each position of a call says of its   *)
(* locals and of the shared state (Proc), and how two calls are kept apart *)
(* (Pairs).                                                                *)
(***************************************************************************)
EXTENDS DatabaseProvider, TLAPS

Provisioning(p) == run[p].kind \in {"provision", "restore"}

(* Before docker run has been tried. *)
Early == {"volume", "volcreate", "reserve", "run"}

(* While the container of a provision may be there without a residual. *)
Holding == {"inspect", "bind", "activate", "ready", "inject", "inspectrm", "rm"}

Uncreated(o) == \A d \in DockerIds : creator[d] # o

-----------------------------------------------------------------------------
(* What the position of a call says.                                       *)

(* ... about its locals. *)
LocalsOK(p) ==
    /\ pc[p] = "idle" <=> run[p] = NoRun
    /\ pc[p] \in Early \cup {"inspect", "bind", "activate", "ready", "inject"} => Provisioning(p)
    /\ run[p].owned => run[p].volume # NoVolume
    /\ pc[p] \in {"volume", "volcreate"} => run[p].volume # NoVolume /\ ~run[p].owned
    /\ pc[p] \in {"volinspect", "volrm"} => run[p].owned
    /\ pc[p] \in {"bind", "activate", "rm", "retire"} => run[p].id # NoId
    /\ run[p].op \in minted \cup {NoId}

(* An operation that has not tried docker run has made nothing, and nobody *)
(* else works for it.                                                      *)
Fresh(p) ==
    pc[p] \in Early =>
        /\ Uncreated(run[p].op)
        /\ \A c \in late : c.op # run[p].op
        /\ \A rec \in receipts : rec.op # run[p].op
        /\ \A q \in Procs : run[q].op = run[p].op => q = p

ReservedFirst(p) == pc[p] = "run" => custody[run[p].op][run[p].name].state # "none"

IdOwn(p) == run[p].id # NoId => creator[run[p].id] = run[p].op

(* Between docker rm and retire the container of the claim is gone. *)
RetireGone(p) == pc[p] = "retire" => containers[run[p].name].op # run[p].op

(* One call at a time and nobody meddles: what was checked is removed. *)
RmHolds(p) ==
    world \cap {"concurrent", "operator"} = {} =>
        (pc[p] = "rm" => containers[run[p].name].op = run[p].op)

(* A volume that was there before is no call's. *)
Unowned(p) ==
    "inspect" \notin world =>
        \A v \in Volumes : volumes[v] = Foreign /\ run[p].volume = v =>
            ~run[p].owned /\ pc[p] # "volcreate"

NotFailed(p) == Provisioning(p) => run[p].op \notin failed

(* What a provision has made is on its books. *)
VolumeHeld(p) ==
    "timeout" \notin world =>
        \A v \in Volumes : Provisioning(p) /\ volumes[v] = run[p].op =>
            /\ run[p].owned /\ v = run[p].volume
            /\ pc[p] = "end" => run[p].residual # {}

ContainerHeld(p) ==
    world \cap {"fail", "timeout"} = {} =>
        \A n \in Names : Provisioning(p) /\ containers[n].op = run[p].op =>
            /\ n = run[p].name /\ run[p].created
            /\ pc[p] \in Holding \/ run[p].residual # {}

Proc(p) ==
    /\ LocalsOK(p) /\ Fresh(p) /\ ReservedFirst(p) /\ IdOwn(p) /\ RetireGone(p) /\ RmHolds(p)
    /\ Unowned(p) /\ NotFailed(p) /\ VolumeHeld(p) /\ ContainerHeld(p)

-----------------------------------------------------------------------------
(* Two calls: an operation is provisioned by one of them only; without     *)
(* concurrency there are no two.                                           *)
OneProvision ==
    \A p, q \in Procs : Provisioning(p) /\ Provisioning(q) /\ run[p].op = run[q].op => p = q

Alone ==
    "concurrent" \notin world =>
        \A p, q \in Procs : pc[p] # "idle" /\ pc[q] # "idle" => p = q

Pairs == OneProvision /\ Alone

-----------------------------------------------------------------------------
(* The shared state.                                                       *)
AllMinted ==
    /\ \A d \in DockerIds : creator[d] \in minted \cup {NoId}
    /\ \A v \in Volumes : volumes[v] \in minted \cup {Foreign, Stray, NoId}
    /\ \A c \in late : c.op \in minted
    /\ \A rec \in receipts : rec.op \in minted
    /\ failed \subseteq minted

(* A docker run that is still to come is the first of its operation, whose *)
(* claim is there.                                                         *)
LateFresh ==
    \A c \in late :
        /\ Uncreated(c.op)
        /\ custody[c.op][c.name].state # "none"
        /\ \A e \in late : e.op = c.op => e = c

NoLate == "timeout" \notin world => late = {}

ContainersMade ==
    \A n \in Names : Present(n) => creator[containers[n].id] = containers[n].op

ClaimsBound ==
    \A o \in Operations, n \in Names :
        custody[o][n].state \in {"active", "retired"} => custody[o][n].docker_id # NoId

ReceiptsUnowned ==
    "inspect" \notin world =>
        \A v \in Volumes, rec \in receipts : volumes[v] = Foreign => rec.volume # v

Shared ==
    /\ AllMinted /\ LateFresh /\ NoLate /\ ContainersMade /\ ClaimsBound /\ ReceiptsUnowned
    /\ LiveIsTracked /\ BoundToOwn /\ RemovesOnlyOwn /\ SeenVolumeSurvives
    /\ FailureNeverLeaksVolume /\ FailureNeverLeaksContainer

(* The inductive invariant. *)
IInv == TypeOK /\ Shared /\ Pairs /\ \A p \in Procs : Proc(p)

-----------------------------------------------------------------------------
(* Steps, without their records.                                           *)

(* Only the call of process p moves. *)
Turn(p) ==
    /\ pc' \in [Procs -> Positions] /\ run' \in [Procs -> Runs \cup {NoRun}]
    /\ \A q \in Procs : q # p => pc'[q] = pc[q] /\ run'[q] = run[q]

(* It moves on to position l, for the same operation on the same resources. *)
Moves(p, l) ==
    /\ Turn(p) /\ pc'[p] = l /\ run'[p] \in Runs
    /\ run'[p].kind = run[p].kind /\ run'[p].op = run[p].op
    /\ run'[p].name = run[p].name /\ run'[p].volume = run[p].volume

(* It is over. *)
Ends(p) == Turn(p) /\ pc'[p] = "idle" /\ run'[p] = NoRun

LEMMA NoRunFields ==
    /\ NoRun.kind = "none" /\ NoRun.op = NoId /\ NoRun.name = NoId /\ NoRun.volume = NoVolume
    /\ NoRun.owned = FALSE /\ NoRun.created = FALSE /\ NoRun.raised = FALSE
    /\ NoRun.id = NoId /\ NoRun.residual = {} /\ NoRun \notin Runs
BY DEF NoRun, Runs, Kinds

LEMMA RunFields ==
    ASSUME NEW r \in Runs
    PROVE  /\ r.kind \in Kinds /\ r.op \in Operations /\ r.name \in Names
           /\ r.volume \in Volumes \cup {NoVolume} /\ r.owned \in BOOLEAN
           /\ r.created \in BOOLEAN /\ r.raised \in BOOLEAN /\ r.id \in DockerIds \cup {NoId}
           /\ r.residual \in SUBSET (Names \cup Volumes)
           /\ r # NoRun
BY MarksAssumption DEF Runs, NoRun, Kinds

LEMMA ReceiptFields ==
    ASSUME NEW r \in Receipts
    PROVE  r.op \in Operations /\ r.name \in Names /\ r.volume \in Volumes \cup {NoVolume}
BY DEF Receipts

(* The call of a busy process has its locals. *)
LEMMA Busy ==
    ASSUME TypeOK, NEW p \in Procs, LocalsOK(p), pc[p] # "idle"
    PROVE  /\ run[p] \in Runs /\ run[p].kind \in Kinds /\ run[p].op \in Operations
           /\ run[p].name \in Names /\ run[p].volume \in Volumes \cup {NoVolume}
           /\ run[p].id \in DockerIds \cup {NoId}
           /\ run[p].residual \in SUBSET (Names \cup Volumes)
           /\ run[p].owned \in BOOLEAN /\ run[p].created \in BOOLEAN
<1>1. run[p] \in Runs
  BY DEF TypeOK, LocalsOK
<1> QED BY <1>1, RunFields

LEMMA TurnWith ==
    ASSUME TypeOK, NEW p \in Procs, NEW l \in Positions, NEW r \in Runs \cup {NoRun},
           Goto(p, l), With(p, r)
    PROVE  Turn(p) /\ pc'[p] = l /\ run'[p] = r
BY DEF TypeOK, Goto, With, Turn

LEMMA MovesWith ==
    ASSUME TypeOK, NEW p \in Procs, NEW l \in Positions, NEW r \in Runs,
           Goto(p, l), With(p, r),
           r.kind = run[p].kind, r.op = run[p].op, r.name = run[p].name, r.volume = run[p].volume
    PROVE  Moves(p, l) /\ run'[p] = r
BY TurnWith DEF Moves

LEMMA MovesOn ==
    ASSUME TypeOK, NEW p \in Procs, run[p] \in Runs, NEW l \in Positions,
           Goto(p, l), UNCHANGED run
    PROVE  Moves(p, l) /\ run'[p] = run[p]
<1>1. With(p, run[p])
  BY DEF TypeOK, With
<1> QED BY <1>1, MovesWith

LEMMA Finishes ==
    ASSUME TypeOK, NEW p \in Procs, Finish(p)
    PROVE  Ends(p)
BY TurnWith DEF Finish, Ends, Positions


(* Assignments to one local. *)
LEMMA SetOwned ==
    ASSUME NEW r \in Runs
    PROVE  LET u == [r EXCEPT !.owned = TRUE] IN
           /\ u \in Runs /\ u.owned = TRUE
           /\ u.kind = r.kind /\ u.op = r.op /\ u.name = r.name /\ u.volume = r.volume
           /\ u.created = r.created /\ u.raised = r.raised /\ u.id = r.id /\ u.residual = r.residual
BY DEF Runs

LEMMA SetCreated ==
    ASSUME NEW r \in Runs
    PROVE  LET u == [r EXCEPT !.created = TRUE] IN
           /\ u \in Runs /\ u.created = TRUE
           /\ u.kind = r.kind /\ u.op = r.op /\ u.name = r.name /\ u.volume = r.volume
           /\ u.owned = r.owned /\ u.raised = r.raised /\ u.id = r.id /\ u.residual = r.residual
BY DEF Runs

LEMMA SetRaised ==
    ASSUME NEW r \in Runs
    PROVE  LET u == [r EXCEPT !.raised = TRUE] IN
           /\ u \in Runs /\ u.raised = TRUE
           /\ u.kind = r.kind /\ u.op = r.op /\ u.name = r.name /\ u.volume = r.volume
           /\ u.owned = r.owned /\ u.created = r.created /\ u.id = r.id /\ u.residual = r.residual
BY DEF Runs

LEMMA SetId ==
    ASSUME NEW r \in Runs, NEW d \in DockerIds
    PROVE  LET u == [r EXCEPT !.id = d] IN
           /\ u \in Runs /\ u.id = d
           /\ u.kind = r.kind /\ u.op = r.op /\ u.name = r.name /\ u.volume = r.volume
           /\ u.owned = r.owned /\ u.created = r.created /\ u.raised = r.raised /\ u.residual = r.residual
BY DEF Runs

LEMMA SetResidual ==
    ASSUME NEW r \in Runs, NEW s \in SUBSET (Names \cup Volumes)
    PROVE  LET u == [r EXCEPT !.residual = s] IN
           /\ u \in Runs /\ u.residual = s
           /\ u.kind = r.kind /\ u.op = r.op /\ u.name = r.name /\ u.volume = r.volume
           /\ u.owned = r.owned /\ u.created = r.created /\ u.raised = r.raised /\ u.id = r.id
BY DEF Runs

-----------------------------------------------------------------------------
(* Steps that leave Docker alone.                                          *)

(* A change of the claim that the call works on. *)
OwnClaim(p) ==
    \/ UNCHANGED custody
    \/ \E c \in Authority!Claims :
          /\ Authority!Becomes(run[p].op, run[p].name, c)
          /\ c.state # "none"
          /\ c.state \in {"active", "retired"} => c.docker_id # NoId
          /\ c.docker_id # NoId => creator[c.docker_id] = run[p].op
          /\ containers[run[p].name].op = run[p].op => c.state # "retired"

LEMMA ClaimsKeep ==
    ASSUME IInv, NEW p \in Procs, pc[p] # "idle", OwnClaim(p), UNCHANGED <<containers, creator>>
    PROVE  /\ Authority!TypeOK' /\ ClaimsBound' /\ BoundToOwn' /\ LiveIsTracked'
           /\ \A o \in Operations, n \in Names :
                 custody[o][n].state # "none" => custody'[o][n].state # "none"
<1>1. run[p].op \in Operations /\ run[p].name \in Names
  BY Busy DEF IInv, Proc
<1>2. CASE UNCHANGED custody
  BY <1>2 DEF IInv, TypeOK, Authority!TypeOK, Shared, ClaimsBound, BoundToOwn, LiveIsTracked
<1>3. ASSUME NEW c \in Authority!Claims, Authority!Becomes(run[p].op, run[p].name, c),
             c.state # "none", c.state \in {"active", "retired"} => c.docker_id # NoId,
             c.docker_id # NoId => creator[c.docker_id] = run[p].op,
             containers[run[p].name].op = run[p].op => c.state # "retired"
      PROVE  /\ Authority!TypeOK' /\ ClaimsBound' /\ BoundToOwn' /\ LiveIsTracked'
             /\ \A o \in Operations, n \in Names :
                   custody[o][n].state # "none" => custody'[o][n].state # "none"
  <2>1. /\ Authority!TypeOK'
        /\ \A o \in Operations, n \in Names :
              custody'[o][n] = IF o = run[p].op /\ n = run[p].name THEN c ELSE custody[o][n]
    BY <1>1, <1>3 DEF IInv, TypeOK, Authority!TypeOK, Authority!Becomes
  <2>2. ClaimsBound'
    BY <1>3, <2>1 DEF IInv, Shared, ClaimsBound
  <2>3. BoundToOwn'
    BY <1>3, <2>1 DEF IInv, Shared, BoundToOwn
  <2>4. LiveIsTracked'
    <3>1. c.state \in {"reserved", "active", "retired"}
      BY <1>3 DEF Authority!Claims, Authority!ClaimStates
    <3> QED BY <1>3, <2>1, <3>1 DEF IInv, Shared, LiveIsTracked
  <2> QED BY <1>3, <2>1, <2>2, <2>3, <2>4
<1> QED BY <1>2, <1>3 DEF OwnClaim

(* A step of a call that works on its claim only. *)
LEMMA MovesKeep ==
    ASSUME IInv, NEW p \in Procs, NEW l, pc[p] # "idle", l # "idle", Moves(p, l), OwnClaim(p),
           UNCHANGED <<world, docker, callers>>, Proc(p)'
    PROVE  IInv'
<1> USE DEF docker, callers
<1>1. TypeOK'
  BY ClaimsKeep DEF IInv, TypeOK, Moves, Turn
<1>2. Shared'
  <2>1. LateFresh'
    BY ClaimsKeep, ReceiptFields DEF IInv, TypeOK, Shared, LateFresh, Uncreated
  <2>2. /\ AllMinted' /\ NoLate' /\ ContainersMade' /\ ReceiptsUnowned' /\ RemovesOnlyOwn'
        /\ SeenVolumeSurvives' /\ FailureNeverLeaksVolume' /\ FailureNeverLeaksContainer'
    BY DEF IInv, Shared, AllMinted, NoLate, ContainersMade, Present, ReceiptsUnowned, RemovesOnlyOwn,
           SeenVolumeSurvives, PreexistingVolumeSurvives, FailureNeverLeaksVolume,
           FailureNeverLeaksContainer
  <2> QED BY <2>1, <2>2, ClaimsKeep DEF Shared
<1>3. Pairs'
  BY DEF IInv, Pairs, OneProvision, Alone, Moves, Turn, Provisioning
<1>4. ASSUME NEW q \in Procs, q # p
      PROVE  Proc(q)'
  <2>1. pc'[q] = pc[q] /\ run'[q] = run[q]
    BY <1>4 DEF Moves, Turn
  <2>2. \A x \in Procs : run'[x].op = run[x].op
    BY DEF Moves, Turn
  <2>3. ReservedFirst(q)'
    BY <2>1, ClaimsKeep, Busy DEF IInv, Proc, ReservedFirst
  <2> QED
    BY <2>1, <2>2, <2>3 DEF IInv, Proc, LocalsOK, Provisioning, Fresh, Uncreated, IdOwn, RetireGone,
       RmHolds, Unowned, NotFailed, VolumeHeld, ContainerHeld
<1> QED BY <1>1, <1>2, <1>3, <1>4 DEF IInv

-----------------------------------------------------------------------------
(* A call ends. *)
LEMMA EndsKeep ==
    ASSUME IInv, NEW p \in Procs, pc[p] # "idle", Ends(p),
           UNCHANGED <<world, custody, containers, creator, late, removed, minted>>,
           \/ UNCHANGED volumes
           \/ /\ "timeout" \in world /\ volumes' \in [Volumes -> Creators \cup {NoId}]
              /\ \A v \in Volumes : volumes'[v] \in {volumes[v], run[p].op},
           \/ UNCHANGED receipts
           \/ receipts' = receipts \cup {ReceiptOf(run[p])},
           \/ UNCHANGED failed
           \/ /\ failed' = failed \cup {run[p].op} /\ Provisioning(p)
              /\ "timeout" \notin world => \A v \in Volumes : volumes[v] # run[p].op
              /\ world \cap {"fail", "timeout"} = {} =>
                    \A n \in Names : containers[n].op # run[p].op
    PROVE  IInv'
<1>1. /\ run[p] \in Runs /\ run[p].op \in Operations /\ run[p].name \in Names
      /\ run[p].volume \in Volumes \cup {NoVolume}
      /\ run[p].op \in minted
  BY Busy, MarksAssumption DEF IInv, Proc, LocalsOK
<1>2. /\ ReceiptOf(run[p]) \in Receipts /\ ReceiptOf(run[p]).op = run[p].op
      /\ ReceiptOf(run[p]).volume = IF run[p].owned THEN run[p].volume ELSE NoVolume
  BY <1>1 DEF ReceiptOf, Receipts
<1>3. \A v \in Volumes : volumes'[v] = Foreign => volumes[v] = Foreign
  BY <1>1, MarksAssumption
<1>4. TypeOK'
  BY <1>1, <1>2 DEF IInv, TypeOK, Authority!TypeOK, Ends, Turn
<1>5. Shared'
  <2>1. AllMinted'
    BY <1>1, <1>2 DEF IInv, Shared, AllMinted
  <2>2. ReceiptsUnowned'
    BY <1>1, <1>2, <1>3, MarksAssumption DEF IInv, Shared, ReceiptsUnowned, Proc, Unowned
  <2>3. FailureNeverLeaksVolume' /\ FailureNeverLeaksContainer'
    BY DEF IInv, Shared, FailureNeverLeaksVolume, FailureNeverLeaksContainer
  <2> QED
    BY <2>1, <2>2, <2>3 DEF IInv, Shared, LateFresh, Uncreated, NoLate, ContainersMade, Present,
       ClaimsBound, LiveIsTracked, BoundToOwn, RemovesOnlyOwn, SeenVolumeSurvives,
       PreexistingVolumeSurvives
<1>6. Pairs'
  BY NoRunFields DEF IInv, Pairs, OneProvision, Alone, Ends, Turn, Provisioning
<1>7. Proc(p)'
  BY NoRunFields DEF Ends, Proc, LocalsOK, Provisioning, Early, Fresh, ReservedFirst, IdOwn,
     RetireGone, RmHolds, Unowned, NotFailed, VolumeHeld, ContainerHeld
<1>8. ASSUME NEW q \in Procs, q # p
      PROVE  Proc(q)'
  <2>1. pc'[q] = pc[q] /\ run'[q] = run[q] /\ pc'[p] = "idle" /\ run'[p].op = NoId
    BY <1>8, NoRunFields DEF Ends, Turn
  <2>2. \A x \in Procs : x # p => run'[x].op = run[x].op
    BY DEF Ends, Turn
  <2>3. Fresh(q)'
    <3>1. pc[q] \in Early => run[q].op \in Operations
      BY Busy DEF IInv, Proc, Early
    <3> QED BY <1>1, <1>2, <1>8, <2>1, <2>2, <3>1, MarksAssumption DEF IInv, Proc, Fresh, Uncreated
  <2>4. NotFailed(q)'
    BY <1>8, <2>1 DEF IInv, Pairs, OneProvision, Proc, NotFailed, Provisioning
  <2>5. Unowned(q)'
    BY <1>3, <2>1 DEF IInv, Proc, Unowned
  <2>6. VolumeHeld(q)'
    BY <2>1 DEF IInv, Proc, VolumeHeld, Provisioning
  <2> QED
    BY <2>1, <2>3, <2>4, <2>5, <2>6 DEF IInv, Proc, LocalsOK, Provisioning, ReservedFirst, IdOwn,
       RetireGone, RmHolds, ContainerHeld
<1> QED BY <1>4, <1>5, <1>6, <1>7, <1>8 DEF IInv

(* A call starts, for operation o on volume v. *)
LEMMA StartsKeep ==
    ASSUME IInv, NEW p \in Procs, MayCall(p), Turn(p), pc'[p] # "idle", run'[p] \in Runs,
           UNCHANGED <<world, custody, docker, receipts, failed>>,
           minted \subseteq minted', minted' \subseteq Operations,
           Proc(p)',
           Provisioning(p)' => run'[p].op \notin minted,
           \A q \in Procs : pc[q] \in Early => run[q].op # run'[p].op
    PROVE  IInv'
<1> USE DEF docker
<1>1. TypeOK'
  BY DEF IInv, TypeOK, Authority!TypeOK, Turn
<1>2. Shared'
  BY DEF IInv, Shared, AllMinted, LateFresh, Uncreated, NoLate, ContainersMade, Present,
     ClaimsBound, ReceiptsUnowned, LiveIsTracked, BoundToOwn, RemovesOnlyOwn, SeenVolumeSurvives,
     PreexistingVolumeSurvives, FailureNeverLeaksVolume, FailureNeverLeaksContainer
<1>3. Pairs'
  <2>1. run'[p].op \in Operations
    BY RunFields
  <2>2. OneProvision'
    BY <2>1, MarksAssumption DEF IInv, Pairs, OneProvision, Turn, Provisioning, Proc, LocalsOK
  <2>3. Alone'
    BY DEF MayCall, Alone, Turn
  <2> QED BY <2>2, <2>3 DEF Pairs
<1>4. ASSUME NEW q \in Procs, q # p
      PROVE  Proc(q)'
  <2>1. pc'[q] = pc[q] /\ run'[q] = run[q]
    BY <1>4 DEF Turn
  <2>2. \A x \in Procs : x # p => run'[x].op = run[x].op
    BY DEF Turn
  <2>3. Fresh(q)'
    BY <1>4, <2>1, <2>2 DEF IInv, Proc, Fresh, Uncreated
  <2> QED
    BY <2>1, <2>3 DEF IInv, Proc, LocalsOK, Provisioning, ReservedFirst, IdOwn, NotFailed,
       RetireGone, RmHolds, Unowned, VolumeHeld, ContainerHeld
<1> QED BY <1>1, <1>2, <1>3, <1>4 DEF IInv

-----------------------------------------------------------------------------
(* Containers come and go.                                                 *)

(* docker run made container d of operation o on the free name n. *)
Creates(o, n, d) ==
    /\ ~Present(n) /\ creator[d] = NoId
    /\ containers' \in [Names -> Containers \cup {NoContainer}]
    /\ \A m \in Names : m # n => containers'[m] = containers[m]
    /\ containers'[n].id = d /\ containers'[n].op = o
    /\ creator' \in [DockerIds -> Operations \cup {NoId}]
    /\ \A e \in DockerIds : creator'[e] = IF e = d THEN o ELSE creator[e]
    /\ volumes' \in [Volumes -> Creators \cup {NoId}]
    /\ \A v \in Volumes : volumes'[v] \in {volumes[v], Stray}

LEMMA DockerRunCreates ==
    ASSUME TypeOK, NEW o \in Operations, NEW n \in Names, NEW v \in Volumes \cup {NoVolume},
           DockerRun(o, n, v)
    PROVE  \E d \in DockerIds : Creates(o, n, d)
<1>1. PICK d \in Unused :
        /\ containers' = [containers EXCEPT ![n] = [id |-> d, op |-> o, volume |-> v]]
        /\ creator' = [creator EXCEPT ![d] = o]
  BY DEF DockerRun
<1>2. d \in DockerIds /\ creator[d] = NoId
  BY DEF Unused
<1>3. [id |-> d, op |-> o, volume |-> v] \in Containers
  BY <1>2 DEF Containers
<1>4. /\ volumes' \in [Volumes -> Creators \cup {NoId}]
      /\ \A w \in Volumes : volumes'[w] \in {volumes[w], Stray}
  BY DEF TypeOK, DockerRun, Creators
<1>5. Creates(o, n, d)
  BY <1>1, <1>2, <1>3, <1>4 DEF TypeOK, Creates, DockerRun
<1> QED BY <1>2, <1>5

(* A name without a container has no operation. *)
LEMMA PresentOp ==
    ASSUME TypeOK, NEW n \in Names
    PROVE  /\ Present(n) => containers[n] \in Containers /\ containers[n].id \in DockerIds
           /\ Present(n) <=> containers[n].op \in Operations
           /\ ~Present(n) => containers[n].op = NoId
BY MarksAssumption DEF TypeOK, Present, Containers, NoContainer

LEMMA CreatesShared ==
    ASSUME IInv, NEW o \in Operations, NEW n \in Names, NEW d \in DockerIds, Creates(o, n, d),
           UNCHANGED <<world, custody, minted, receipts, failed, removed>>, late' \subseteq late,
           \A c \in late' : c.op # o,
           o \in minted, Uncreated(o), custody[o][n].state # "none",
           world \cap {"fail", "timeout"} = {} => o \notin failed
    PROVE  Shared'
<1>1. \A e \in DockerIds : creator[e] # NoId => creator'[e] = creator[e]
  BY DEF Creates
<1>2. AllMinted' /\ NoLate'
  BY DEF IInv, Shared, AllMinted, NoLate, Creates
<1>3. LateFresh'
  BY DEF IInv, Shared, LateFresh, Uncreated, Creates
<1>4. ContainersMade'
  <2>1. ASSUME NEW m \in Names, m # n, Present(m)'
        PROVE  creator'[containers'[m].id] = containers'[m].op
    <3>1. containers'[m] = containers[m] /\ Present(m)
      BY <2>1 DEF Creates, Present
    <3> QED BY <1>1, <3>1, PresentOp, MarksAssumption DEF IInv, Shared, ContainersMade
  <2>2. creator'[containers'[n].id] = containers'[n].op
    BY DEF Creates
  <2> QED BY <2>1, <2>2 DEF ContainersMade
<1>5. BoundToOwn' /\ ClaimsBound'
  BY <1>1, MarksAssumption DEF IInv, TypeOK, Authority!TypeOK, Authority!Claims, Shared, BoundToOwn,
     ClaimsBound
<1>6. LiveIsTracked'
  <2>1. custody[o][n].state \in {"none", "reserved", "active", "retired"}
        /\ custody[o][n].docker_id \in DockerIds \cup {NoId}
    BY DEF IInv, TypeOK, Authority!TypeOK, Authority!Claims, Authority!ClaimStates
  <2>2. custody[o][n].state = "reserved"
    BY <2>1 DEF IInv, Shared, BoundToOwn, ClaimsBound, Uncreated
  <2> QED BY <2>2 DEF IInv, Shared, LiveIsTracked, Creates
<1>7. FailureNeverLeaksVolume' /\ ReceiptsUnowned'
  BY MarksAssumption DEF IInv, TypeOK, Shared, FailureNeverLeaksVolume, ReceiptsUnowned, Creates
<1>8. FailureNeverLeaksContainer'
  BY DEF IInv, Shared, FailureNeverLeaksContainer, Creates
<1> QED
  BY <1>2, <1>3, <1>4, <1>5, <1>6, <1>7, <1>8 DEF IInv, Shared, RemovesOnlyOwn, SeenVolumeSurvives,
     PreexistingVolumeSurvives

LEMMA CreatesOthers ==
    ASSUME IInv, NEW o \in Operations, NEW n \in Names, NEW d \in DockerIds, Creates(o, n, d),
           UNCHANGED <<world, custody, minted, receipts, failed>>, late' \subseteq late,
           Uncreated(o), \A x \in Procs : run'[x].op = run[x].op,
           NEW q \in Procs, pc'[q] = pc[q], run'[q] = run[q],
           pc[q] \in Early => run[q].op # o,
           world \cap {"fail", "timeout"} = {} => ~(Provisioning(q) /\ run[q].op = o)
    PROVE  Proc(q)'
<1>1. pc[q] # "idle" => /\ run[q] \in Runs /\ run[q].op \in Operations /\ run[q].name \in Names
                        /\ run[q].id \in DockerIds \cup {NoId}
  BY Busy DEF IInv, Proc
<1>2. \A e \in DockerIds : creator[e] # NoId => creator'[e] = creator[e]
  BY DEF Creates
<1>3. Fresh(q)'
  BY DEF IInv, Proc, Fresh, Uncreated, Creates
<1>4. IdOwn(q)'
  BY <1>1, <1>2, NoRunFields, MarksAssumption DEF IInv, Proc, LocalsOK, IdOwn
<1>5. RetireGone(q)'
  <2>1. pc[q] = "retire" => run[q].op # o /\ run[q].name \in Names
    BY <1>1 DEF IInv, Proc, LocalsOK, IdOwn, Uncreated
  <2>2. pc[q] = "retire" => containers[run[q].name].op # run[q].op
    BY DEF IInv, Proc, RetireGone
  <2>3. \A m \in Names : containers'[m].op \in {containers[m].op, o}
    BY DEF Creates
  <2> QED BY <2>1, <2>2, <2>3 DEF RetireGone
<1>6. RmHolds(q)'
  <2>1. ASSUME world \cap {"concurrent", "operator"} = {}, pc[q] = "rm"
        PROVE  containers'[run[q].name].op = run[q].op
    <3>1. containers[run[q].name].op = run[q].op
      BY <2>1 DEF IInv, Proc, RmHolds
    <3>2. Present(run[q].name) /\ run[q].name \in Names
      BY <1>1, <2>1, <3>1, PresentOp DEF IInv
    <3> QED BY <3>1, <3>2 DEF Creates
  <2> QED BY <2>1 DEF RmHolds
<1>7. Unowned(q)' /\ VolumeHeld(q)'
  <2>1. Provisioning(q) => run[q].op \in Operations
    BY <1>1, NoRunFields DEF IInv, Proc, LocalsOK, Provisioning
  <2> QED
    BY <2>1, MarksAssumption DEF IInv, Proc, Unowned, VolumeHeld, Provisioning, Creates
<1>8. ContainerHeld(q)'
  BY DEF IInv, Proc, ContainerHeld, Provisioning, Creates
<1> QED
  BY <1>3, <1>4, <1>5, <1>6, <1>7, <1>8 DEF IInv, Proc, LocalsOK, Provisioning, ReservedFirst,
     NotFailed

(* The container on name n is removed. *)
Removes(n) ==
    /\ containers' \in [Names -> Containers \cup {NoContainer}]
    /\ \A m \in Names : containers'[m] = IF m = n THEN NoContainer ELSE containers[m]

LEMMA RmRemoves ==
    ASSUME TypeOK, NEW n \in Names, containers' = [containers EXCEPT ![n] = NoContainer]
    PROVE  Removes(n)
BY DEF TypeOK, Removes

LEMMA RemovesShared ==
    ASSUME IInv, NEW n \in Names, Removes(n),
           UNCHANGED <<world, custody, volumes, creator, late, minted, receipts, failed>>,
           \/ UNCHANGED removed
           \/ \E o \in Operations :
                 /\ removed' = removed \cup {<<"container", o, containers[n].op>>}
                 /\ world \cap {"concurrent", "operator"} = {} => containers[n].op = o
    PROVE  Shared'
<1>1. NoContainer.op = NoId /\ NoId \notin Operations
  BY MarksAssumption DEF NoContainer
<1>2. LiveIsTracked' /\ ContainersMade' /\ FailureNeverLeaksContainer'
  BY <1>1 DEF IInv, TypeOK, Shared, LiveIsTracked, ContainersMade, Present,
     FailureNeverLeaksContainer, Removes
<1>3. RemovesOnlyOwn' /\ SeenVolumeSurvives'
  BY DEF IInv, Shared, RemovesOnlyOwn, SeenVolumeSurvives, PreexistingVolumeSurvives
<1> QED
  BY <1>2, <1>3 DEF IInv, Shared, AllMinted, LateFresh, Uncreated, NoLate, ClaimsBound, BoundToOwn,
     ReceiptsUnowned, FailureNeverLeaksVolume

LEMMA RemovesOthers ==
    ASSUME IInv, NEW n \in Names, Removes(n),
           UNCHANGED <<world, custody, volumes, creator, late, minted, receipts, failed>>,
           \A x \in Procs : run'[x].op = run[x].op,
           NEW q \in Procs, pc'[q] = pc[q], run'[q] = run[q],
           world \cap {"concurrent", "operator"} = {} => pc[q] # "rm"
    PROVE  Proc(q)'
<1>1. pc[q] # "idle" => run[q].op \in Operations /\ run[q].name \in Names
  BY Busy DEF IInv, Proc
<1>2. NoContainer.op = NoId /\ NoId \notin Operations
  BY MarksAssumption DEF NoContainer
<1>3. Provisioning(q) => run[q].op \in Operations
  BY <1>1, NoRunFields DEF IInv, Proc, LocalsOK, Provisioning
<1>4. RetireGone(q)' /\ RmHolds(q)' /\ ContainerHeld(q)'
  BY <1>1, <1>2, <1>3 DEF IInv, Proc, RetireGone, RmHolds, ContainerHeld, Provisioning, Removes
<1> QED
  BY <1>4 DEF IInv, Proc, LocalsOK, Provisioning, Fresh, Uncreated, ReservedFirst, IdOwn, Unowned,
     NotFailed, VolumeHeld

-----------------------------------------------------------------------------
(* The steps of a call that leave Docker alone, one by one.                *)

(* What has to be known of a move to keep the invariant. *)
LEMMA AdvanceKeeps ==
    ASSUME IInv, NEW p \in Procs, NEW l, pc[p] # "idle", l # "idle", Moves(p, l), OwnClaim(p),
           UNCHANGED <<world, docker, callers>>,
           l \in Early => pc[p] \in Early,
           l \in {"inspect", "bind", "activate", "ready", "inject"} => Provisioning(p),
           l \in {"volume", "volcreate"} => run[p].volume # NoVolume /\ ~run[p].owned,
           l = "volcreate" => volumes[run[p].volume] = NoId \/ "inspect" \in world,
           l \in {"volinspect", "volrm"} => run[p].owned,
           l \in {"bind", "activate", "rm", "retire"} => run'[p].id # NoId,
           l = "run" => custody'[run[p].op][run[p].name].state # "none",
           l = "retire" => containers[run[p].name].op # run[p].op,
           l = "rm" => containers[run[p].name].op = run[p].op,
           run'[p].owned = run[p].owned,
           run[p].created => run'[p].created,
           run[p].residual \subseteq run'[p].residual,
           run'[p].id \in {run[p].id, NoId} \/ creator[run'[p].id] = run[p].op,
           "timeout" \notin world /\ Provisioning(p) /\ l = "end" /\ run'[p].residual = {} =>
               \A v \in Volumes : volumes[v] # run[p].op,
           world \cap {"fail", "timeout"} = {} /\ Provisioning(p) /\ l \notin Holding
                   /\ run'[p].residual = {} =>
               \A n \in Names : containers[n].op # run[p].op
    PROVE  IInv'
<1> USE DEF docker, callers
<1>1. /\ Proc(p) /\ run[p] \in Runs /\ run'[p] \in Runs /\ run'[p] # NoRun /\ pc'[p] = l
      /\ Provisioning(p)' <=> Provisioning(p)
      /\ run'[p].op = run[p].op /\ run'[p].name = run[p].name /\ run'[p].volume = run[p].volume
      /\ \A x \in Procs : run'[x].op = run[x].op
  BY Busy, RunFields DEF IInv, Proc, Moves, Turn, Provisioning
<1>2. LocalsOK(p)'
  BY <1>1 DEF Proc, LocalsOK
<1>3. Fresh(p)'
  BY <1>1 DEF Proc, Fresh, Uncreated
<1>4. ReservedFirst(p)' /\ IdOwn(p)' /\ RetireGone(p)' /\ RmHolds(p)' /\ NotFailed(p)'
  BY <1>1 DEF Proc, ReservedFirst, IdOwn, RetireGone, RmHolds, NotFailed
<1>5. Unowned(p)'
  BY <1>1, MarksAssumption DEF Proc, Unowned
<1>6. VolumeHeld(p)'
  BY <1>1 DEF Proc, VolumeHeld
<1>7. ContainerHeld(p)'
  <2>1. ASSUME world \cap {"fail", "timeout"} = {}, Provisioning(p),
               NEW n \in Names, containers[n].op = run[p].op
        PROVE  n = run[p].name /\ run'[p].created /\ (l \in Holding \/ run'[p].residual # {})
    BY <1>1, <2>1 DEF Proc, ContainerHeld
  <2> QED BY <1>1, <2>1 DEF ContainerHeld
<1> QED BY <1>2, <1>3, <1>4, <1>5, <1>6, <1>7, MovesKeep DEF Proc

LEMMA VolumeHalfIs ==
    ASSUME NEW r
    PROVE  /\ VolumeHalf(r) \in {"end", "volinspect", "volrm"}
           /\ VolumeHalf(r) # "end" => r.owned
           /\ VolumeHalf(r) = "end" => ~r.owned \/ r.kind = "delete"
BY DEF VolumeHalf, UndoesVolume

LEMMA RollbackKeeps ==
    ASSUME IInv, NEW p \in Procs, pc[p] # "idle", Rollback(p),
           UNCHANGED <<world, custody, docker, run, callers>>
    PROVE  IInv'
<1> DEFINE l == IF run[p].created THEN "inspectrm" ELSE VolumeHalf(run[p])
<1>1. /\ l \in {"inspectrm", "end", "volinspect", "volrm"}
      /\ l \in {"volinspect", "volrm"} => run[p].owned
      /\ l = "end" => ~run[p].owned \/ run[p].kind = "delete"
      /\ run[p].created => l = "inspectrm"
  BY VolumeHalfIs
<1>2. Moves(p, l) /\ run'[p] = run[p]
  BY <1>1, MovesOn, Busy DEF IInv, Proc, Rollback, Positions
<1>3. Proc(p)
  BY DEF IInv
<1> HIDE DEF l
<1>4. "timeout" \notin world /\ Provisioning(p) /\ l = "end" =>
          \A v \in Volumes : volumes[v] # run[p].op
  BY <1>1, <1>3 DEF Proc, VolumeHeld, Provisioning
<1>5. world \cap {"fail", "timeout"} = {} /\ Provisioning(p) /\ l \notin Holding =>
          run[p].residual # {} \/ \A n \in Names : containers[n].op # run[p].op
  BY <1>1, <1>3 DEF Proc, ContainerHeld, Provisioning, Holding
<1> QED BY <1>1, <1>2, <1>4, <1>5, AdvanceKeeps DEF OwnClaim, Early

LEMMA ContainerDoneMoves ==
    ASSUME IInv, NEW p \in Procs, pc[p] # "idle", NEW ok \in BOOLEAN, ContainerDone(p, ok)
    PROVE  \E l \in {"end", "volinspect", "volrm"} :
             /\ Moves(p, l) /\ run'[p].owned = run[p].owned /\ run'[p].created = run[p].created
             /\ run'[p].id = run[p].id /\ run[p].residual \subseteq run'[p].residual
             /\ ~ok => run'[p].residual # {}
             /\ l \in {"volinspect", "volrm"} => run[p].owned
             /\ l = "end" => ~run[p].owned \/ run[p].kind = "delete"
<1> DEFINE l == VolumeHalf(run[p])
<1>1. /\ l \in {"end", "volinspect", "volrm"}
      /\ l \in {"volinspect", "volrm"} => run[p].owned
      /\ l = "end" => ~run[p].owned \/ run[p].kind = "delete"
  BY VolumeHalfIs
<1>2. run[p] \in Runs /\ run[p].name \in Names /\ run[p].residual \in SUBSET (Names \cup Volumes)
  BY Busy DEF IInv, Proc
<1>3. CASE ok
  <2>1. Moves(p, l) /\ run'[p] = run[p]
    BY <1>1, <1>2, <1>3, MovesOn DEF IInv, ContainerDone, Positions
  <2> HIDE DEF l
  <2> QED BY <1>1, <1>3, <2>1
<1>4. CASE ~ok
  <2> DEFINE s == run[p].residual \cup {run[p].name}
             r == [run[p] EXCEPT !.residual = s]
  <2>1. s \in SUBSET (Names \cup Volumes)
    BY <1>2
  <2>2. /\ r \in Runs /\ r.residual = s /\ r.kind = run[p].kind /\ r.op = run[p].op
        /\ r.name = run[p].name /\ r.volume = run[p].volume /\ r.owned = run[p].owned
        /\ r.created = run[p].created /\ r.id = run[p].id
    BY <1>2, <2>1, SetResidual
  <2>3. With(p, r) /\ Goto(p, l)
    BY <1>4 DEF ContainerDone
  <2> HIDE DEF r, l
  <2>4. Moves(p, l) /\ run'[p] = r
    BY <1>1, <2>2, <2>3, MovesWith DEF IInv, Positions
  <2> QED BY <1>1, <1>4, <2>2, <2>4
<1> QED BY <1>3, <1>4

LEMMA ContainerDoneKeeps ==
    ASSUME IInv, NEW p \in Procs, pc[p] # "idle", NEW ok \in BOOLEAN, ContainerDone(p, ok),
           OwnClaim(p), UNCHANGED <<world, docker, callers>>,
           ok => containers[run[p].name].op # run[p].op
    PROVE  IInv'
<1>1. PICK l \in {"end", "volinspect", "volrm"} :
             /\ Moves(p, l) /\ run'[p].owned = run[p].owned /\ run'[p].created = run[p].created
             /\ run'[p].id = run[p].id /\ run[p].residual \subseteq run'[p].residual
             /\ ~ok => run'[p].residual # {}
             /\ l \in {"volinspect", "volrm"} => run[p].owned
             /\ l = "end" => ~run[p].owned \/ run[p].kind = "delete"
  BY ContainerDoneMoves
<1>2. Proc(p)
  BY DEF IInv
<1>3. "timeout" \notin world /\ Provisioning(p) /\ l = "end" =>
          \A v \in Volumes : volumes[v] # run[p].op
  BY <1>1, <1>2 DEF Proc, VolumeHeld, Provisioning
<1>4. world \cap {"fail", "timeout"} = {} /\ Provisioning(p) /\ run'[p].residual = {} =>
          \A n \in Names : containers[n].op # run[p].op
  BY <1>1, <1>2 DEF Proc, ContainerHeld
<1> QED BY <1>1, <1>3, <1>4, AdvanceKeeps DEF Early

LEMMA EnsureVolumeKeeps ==
    ASSUME IInv, NEW p \in Procs, EnsureVolume(p), UNCHANGED world
    PROVE  IInv'
<1> USE DEF docker, callers
<1>1. /\ pc[p] = "volume" /\ UNCHANGED <<custody, docker>>
      /\ TypeOK /\ Proc(p) /\ run[p] \in Runs
  BY Busy DEF EnsureVolume, IInv, Proc
<1>2. /\ Provisioning(p) /\ run[p].volume # NoVolume /\ ~run[p].owned
  BY <1>1 DEF Proc, LocalsOK, Early
<1>3. ASSUME NEW l \in {"reserve", "volcreate"}, Goto(p, l), UNCHANGED <<run, callers>>,
             l = "volcreate" => volumes[run[p].volume] = NoId \/ "inspect" \in world
      PROVE  IInv'
  <2>1. Moves(p, l) /\ run'[p] = run[p]
    BY <1>1, <1>3, MovesOn DEF Positions
  <2>2. world \cap {"fail", "timeout"} = {} =>
            \A n \in Names : containers[n].op # run[p].op
    <3>1. \A n \in Names : Present(n) => containers[n].op # run[p].op
      BY <1>1, PresentOp DEF IInv, Shared, ContainersMade, Proc, Fresh, Uncreated, Early
    <3>2. run[p].op \in Operations
      BY <1>1, RunFields
    <3> QED BY <1>1, <3>1, <3>2, PresentOp, MarksAssumption
  <2> QED BY <1>1, <1>2, <1>3, <2>1, <2>2, AdvanceKeeps DEF OwnClaim, Early
<1>4. CASE "timeout" \in world /\ RaisePlain(p)
  BY <1>1, <1>2, <1>4, Finishes, EndsKeep DEF RaisePlain
<1> QED BY <1>3, <1>4 DEF EnsureVolume

LEMMA ReserveKeeps ==
    ASSUME IInv, NEW p \in Procs, Reserve(p), UNCHANGED world
    PROVE  IInv'
<1> USE DEF docker, callers
<1>1. /\ pc[p] = "reserve" /\ UNCHANGED <<docker, run, callers>>
      /\ TypeOK /\ Proc(p) /\ run[p] \in Runs
      /\ run[p].op \in Operations /\ run[p].name \in Names
  BY Busy DEF Reserve, IInv, Proc
<1>2. CASE Authority!Reserve(run[p].op, run[p].name) /\ Goto(p, "run")
  <2>1. Moves(p, "run") /\ run'[p] = run[p]
    BY <1>1, <1>2, MovesOn DEF Positions
  <2> DEFINE c == Authority!Claim("reserved", NoId)
  <2>2. c \in Authority!Claims /\ c.state = "reserved" /\ c.docker_id = NoId
    BY DEF Authority!Claims, Authority!Claim, Authority!ClaimStates
  <2>3. Authority!Becomes(run[p].op, run[p].name, c)
    BY <1>2 DEF Authority!Reserve
  <2> HIDE DEF c
  <2>4. OwnClaim(p)
    BY <2>2, <2>3 DEF OwnClaim
  <2>5. custody'[run[p].op][run[p].name].state # "none"
    BY <1>1, <2>2, <2>3 DEF TypeOK, Authority!TypeOK, Authority!Becomes
  <2>6. \A n \in Names : containers[n].op # run[p].op
    <3>1. \A n \in Names : Present(n) => containers[n].op # run[p].op
      BY <1>1, PresentOp DEF IInv, Shared, ContainersMade, Proc, Fresh, Uncreated, Early
    <3> QED BY <1>1, <3>1, PresentOp, MarksAssumption
  <2> QED BY <1>1, <2>1, <2>4, <2>5, <2>6, AdvanceKeeps DEF Early
<1>3. CASE Rollback(p) /\ UNCHANGED custody
  BY <1>1, <1>3, RollbackKeeps
<1> QED BY <1>2, <1>3 DEF Reserve

LEMMA InspectKeeps ==
    ASSUME IInv, NEW p \in Procs, Inspect(p), UNCHANGED world
    PROVE  IInv'
<1> USE DEF docker, callers
<1>1. /\ pc[p] = "inspect" /\ UNCHANGED <<custody, docker, callers>>
      /\ TypeOK /\ Proc(p) /\ run[p] \in Runs /\ run[p].name \in Names
  BY Busy DEF Inspect, IInv, Proc
<1>2. CASE /\ Present(run[p].name) /\ containers[run[p].name].op = run[p].op
           /\ With(p, [run[p] EXCEPT !.id = containers[run[p].name].id]) /\ Goto(p, "bind")
  <2> DEFINE d == containers[run[p].name].id
             r == [run[p] EXCEPT !.id = d]
  <2>1. d \in DockerIds /\ creator[d] = run[p].op
    BY <1>1, <1>2, PresentOp DEF IInv, Shared, ContainersMade
  <2>2. /\ r \in Runs /\ r.id = d /\ r.kind = run[p].kind /\ r.op = run[p].op
        /\ r.name = run[p].name /\ r.volume = run[p].volume /\ r.owned = run[p].owned
        /\ r.created = run[p].created /\ r.residual = run[p].residual
    BY <1>1, <2>1, SetId
  <2>3. With(p, r)
    BY <1>2
  <2> HIDE DEF r, d
  <2>4. Moves(p, "bind") /\ run'[p] = r
    BY <1>1, <1>2, <2>2, <2>3, MovesWith DEF Positions
  <2>5. Provisioning(p) /\ d # NoId
    BY <1>1, <2>1, MarksAssumption DEF Proc, LocalsOK
  <2> QED BY <1>1, <2>1, <2>2, <2>4, <2>5, AdvanceKeeps DEF OwnClaim, Early, Holding
<1>3. CASE Rollback(p) /\ UNCHANGED run
  BY <1>1, <1>3, RollbackKeeps
<1> QED BY <1>2, <1>3 DEF Inspect

LEMMA BindKeeps ==
    ASSUME IInv, NEW p \in Procs, Bind(p), UNCHANGED world
    PROVE  IInv'
<1> USE DEF docker, callers
<1>1. /\ pc[p] = "bind" /\ UNCHANGED <<docker, run, callers>>
      /\ TypeOK /\ Proc(p) /\ run[p] \in Runs /\ run[p].id \in DockerIds \cup {NoId}
  BY Busy DEF Bind, IInv, Proc
<1>2. Provisioning(p) /\ run[p].id # NoId /\ creator[run[p].id] = run[p].op
  BY <1>1 DEF Proc, LocalsOK, IdOwn
<1>3. CASE Authority!Bind(run[p].op, run[p].name, run[p].id) /\ Goto(p, "activate")
  <2>1. Moves(p, "activate") /\ run'[p] = run[p]
    BY <1>1, <1>3, MovesOn DEF Positions
  <2> DEFINE c == Authority!Claim("reserved", run[p].id)
  <2>2. c \in Authority!Claims /\ c.state = "reserved" /\ c.docker_id = run[p].id
    BY <1>1 DEF Authority!Claims, Authority!Claim, Authority!ClaimStates
  <2>3. Authority!Becomes(run[p].op, run[p].name, c)
    BY <1>3 DEF Authority!Bind
  <2> HIDE DEF c
  <2>4. OwnClaim(p)
    BY <1>2, <2>2, <2>3 DEF OwnClaim
  <2> QED BY <1>1, <1>2, <2>1, <2>4, AdvanceKeeps DEF Early, Holding
<1>4. CASE Rollback(p) /\ UNCHANGED custody
  BY <1>1, <1>4, RollbackKeeps
<1> QED BY <1>3, <1>4 DEF Bind

LEMMA ActivateKeeps ==
    ASSUME IInv, NEW p \in Procs, Activate(p), UNCHANGED world
    PROVE  IInv'
<1> USE DEF docker, callers
<1>1. /\ pc[p] = "activate" /\ UNCHANGED <<docker, callers>>
      /\ TypeOK /\ Proc(p) /\ run[p] \in Runs /\ run[p].id \in DockerIds \cup {NoId}
  BY Busy DEF Activate, IInv, Proc
<1>2. Provisioning(p) /\ run[p].id # NoId /\ creator[run[p].id] = run[p].op
  BY <1>1 DEF Proc, LocalsOK, IdOwn
<1>3. CASE /\ Authority!Activate(run[p].op, run[p].name, run[p].id)
           /\ IF run[p].raised
              THEN With(p, [run[p] EXCEPT !.created = TRUE]) /\ Goto(p, "inspectrm")
              ELSE UNCHANGED run /\ Goto(p, "ready")
  <2> DEFINE c == Authority!Claim("active", run[p].id)
  <2>1. c \in Authority!Claims /\ c.state = "active" /\ c.docker_id = run[p].id
    BY <1>1 DEF Authority!Claims, Authority!Claim, Authority!ClaimStates
  <2>2. Authority!Becomes(run[p].op, run[p].name, c)
    BY <1>3 DEF Authority!Activate
  <2> HIDE DEF c
  <2>3. OwnClaim(p)
    BY <1>2, <2>1, <2>2 DEF OwnClaim
  <2>4. CASE run[p].raised
    <3> DEFINE r == [run[p] EXCEPT !.created = TRUE]
    <3>1. /\ r \in Runs /\ r.created = TRUE /\ r.kind = run[p].kind /\ r.op = run[p].op
          /\ r.name = run[p].name /\ r.volume = run[p].volume /\ r.owned = run[p].owned
          /\ r.id = run[p].id /\ r.residual = run[p].residual
      BY <1>1, SetCreated
    <3>2. With(p, r) /\ Goto(p, "inspectrm")
      BY <1>3, <2>4
    <3> HIDE DEF r
    <3>3. Moves(p, "inspectrm") /\ run'[p] = r
      BY <1>1, <3>1, <3>2, MovesWith DEF Positions
    <3> QED BY <1>1, <2>3, <3>1, <3>3, AdvanceKeeps DEF Early, Holding
  <2>5. CASE ~run[p].raised
    <3>1. Moves(p, "ready") /\ run'[p] = run[p]
      BY <1>1, <1>3, <2>5, MovesOn DEF Positions
    <3> QED BY <1>1, <1>2, <2>3, <3>1, AdvanceKeeps DEF Early, Holding
  <2> QED BY <2>4, <2>5
<1>4. CASE Rollback(p) /\ UNCHANGED <<custody, run>>
  BY <1>1, <1>4, RollbackKeeps
<1> QED BY <1>3, <1>4 DEF Activate

LEMMA ReturnKeeps ==
    ASSUME IInv, NEW p \in Procs, pc[p] # "idle", Return(p), UNCHANGED <<world, custody, docker>>
    PROVE  IInv'
BY Finishes, EndsKeep DEF Return, docker, IInv

LEMMA WaitReadyKeeps ==
    ASSUME IInv, NEW p \in Procs, WaitReady(p), UNCHANGED world
    PROVE  IInv'
<1> USE DEF docker, callers
<1>1. /\ pc[p] = "ready" /\ UNCHANGED <<custody, docker>> /\ TypeOK /\ run[p] \in Runs
      /\ Provisioning(p)
  BY Busy DEF WaitReady, IInv, Proc, LocalsOK
<1>2. ASSUME NEW l \in {"inject", "inspectrm"}, Goto(p, l), UNCHANGED <<run, callers>>
      PROVE  IInv'
  <2>1. Moves(p, l) /\ run'[p] = run[p]
    BY <1>1, <1>2, MovesOn DEF Positions
  <2> QED BY <1>1, <1>2, <2>1, AdvanceKeeps DEF OwnClaim, Early, Holding
<1> QED BY <1>1, <1>2, ReturnKeeps DEF WaitReady

LEMMA InjectKeeps ==
    ASSUME IInv, NEW p \in Procs, Inject(p), UNCHANGED world
    PROVE  IInv'
<1> USE DEF docker, callers
<1>1. pc[p] = "inject" /\ UNCHANGED <<custody, docker>> /\ TypeOK /\ run[p] \in Runs
  BY Busy DEF Inject, IInv, Proc
<1>2. CASE Goto(p, "inspectrm") /\ UNCHANGED <<run, callers>>
  <2>1. Moves(p, "inspectrm") /\ run'[p] = run[p]
    BY <1>1, <1>2, MovesOn DEF Positions
  <2> QED BY <1>1, <1>2, <2>1, AdvanceKeeps DEF OwnClaim, Early, Holding
<1> QED BY <1>1, <1>2, ReturnKeeps DEF Inject

(* A claim is retired once its container is gone. *)
LEMMA RetiresOwn ==
    ASSUME IInv, NEW p \in Procs, pc[p] # "idle", NEW d \in DockerIds, creator[d] = run[p].op,
           Authority!Retire(run[p].op, run[p].name, d),
           containers[run[p].name].op # run[p].op
    PROVE  OwnClaim(p)
<1> DEFINE c == Authority!Claim("retired", d)
<1>1. c \in Authority!Claims /\ c.state = "retired" /\ c.docker_id = d /\ d # NoId
  BY MarksAssumption DEF Authority!Claims, Authority!Claim, Authority!ClaimStates
<1>2. Authority!Becomes(run[p].op, run[p].name, c)
  BY DEF Authority!Retire
<1> HIDE DEF c
<1> QED BY <1>1, <1>2 DEF OwnClaim

LEMMA RetireAbsentOwn ==
    ASSUME IInv, NEW p \in Procs, pc[p] # "idle", RetireAbsent(run[p].op, run[p].name),
           containers[run[p].name].op # run[p].op
    PROVE  OwnClaim(p)
<1> DEFINE o == run[p].op
           n == run[p].name
<1>1. o \in Operations /\ n \in Names
  BY Busy DEF IInv, Proc
<1>2. CASE custody[o][n].state = "active"
  <2>1. custody[o][n].docker_id \in DockerIds /\ creator[custody[o][n].docker_id] = o
    BY <1>1, <1>2 DEF IInv, TypeOK, Authority!TypeOK, Authority!Claims, Shared, ClaimsBound,
       BoundToOwn
  <2> QED BY <1>2, <2>1, RetiresOwn DEF RetireAbsent
<1>3. CASE custody[o][n].state # "active"
  BY <1>3 DEF RetireAbsent, OwnClaim
<1> QED BY <1>2, <1>3

LEMMA InspectForRemovalKeeps ==
    ASSUME IInv, NEW p \in Procs, InspectForRemoval(p), UNCHANGED world
    PROVE  IInv'
<1> USE DEF docker, callers
<1> DEFINE o == run[p].op
           n == run[p].name
<1>1. /\ pc[p] = "inspectrm" /\ UNCHANGED <<docker, callers>>
      /\ TypeOK /\ Proc(p) /\ run[p] \in Runs /\ o \in Operations /\ n \in Names
  BY Busy DEF InspectForRemoval, IInv, Proc
<1>2. CASE /\ Present(n) /\ containers[n].op = o
           /\ With(p, [run[p] EXCEPT !.id = containers[n].id]) /\ Goto(p, "rm")
           /\ UNCHANGED custody
  <2> DEFINE d == containers[n].id
             r == [run[p] EXCEPT !.id = d]
  <2>1. d \in DockerIds /\ d # NoId /\ creator[d] = o
    BY <1>1, <1>2, PresentOp, MarksAssumption DEF IInv, Shared, ContainersMade
  <2>2. /\ r \in Runs /\ r.id = d /\ r.kind = run[p].kind /\ r.op = run[p].op
        /\ r.name = run[p].name /\ r.volume = run[p].volume /\ r.owned = run[p].owned
        /\ r.created = run[p].created /\ r.residual = run[p].residual
    BY <1>1, <2>1, SetId
  <2>3. With(p, r) /\ Goto(p, "rm")
    BY <1>2
  <2> HIDE DEF r, d
  <2>4. Moves(p, "rm") /\ run'[p] = r
    BY <1>1, <2>2, <2>3, MovesWith DEF Positions
  <2> QED BY <1>1, <1>2, <2>1, <2>2, <2>4, AdvanceKeeps DEF OwnClaim, Early, Holding
<1>3. CASE ~Present(n) /\ RetireAbsent(o, n) /\ ContainerDone(p, TRUE)
  <2>1. containers[n].op # o
    BY <1>1, <1>3, PresentOp
  <2> QED BY <1>1, <1>3, <2>1, RetireAbsentOwn, ContainerDoneKeeps
<1>4. CASE ContainerDone(p, FALSE) /\ UNCHANGED custody
  BY <1>1, <1>4, ContainerDoneKeeps DEF OwnClaim
<1> QED BY <1>2, <1>3, <1>4 DEF InspectForRemoval

LEMMA RetireKeeps ==
    ASSUME IInv, NEW p \in Procs, Retire(p), UNCHANGED world
    PROVE  IInv'
<1> USE DEF docker, callers
<1> DEFINE o == run[p].op
           n == run[p].name
<1>1. /\ pc[p] = "retire" /\ UNCHANGED <<docker, callers>>
      /\ run[p].id \in DockerIds /\ creator[run[p].id] = o /\ containers[n].op # o
  BY Busy DEF Retire, IInv, Proc, LocalsOK, IdOwn, RetireGone
<1>2. CASE Authority!Retire(o, n, run[p].id) /\ ContainerDone(p, TRUE)
  BY <1>1, <1>2, RetiresOwn, ContainerDoneKeeps
<1>3. CASE RetireAbsent(o, n) /\ ContainerDone(p, TRUE)
  BY <1>1, <1>3, RetireAbsentOwn, ContainerDoneKeeps
<1>4. CASE ContainerDone(p, FALSE) /\ UNCHANGED custody
  BY <1>1, <1>4, ContainerDoneKeeps DEF OwnClaim
<1> QED BY <1>2, <1>3, <1>4 DEF Retire

(* What Leave does to the locals. *)
LEMMA LeaveMoves ==
    ASSUME IInv, NEW p \in Procs, pc[p] # "idle", run[p].owned,
           NEW bad \in BOOLEAN, Leave(p, bad), Goto(p, "end")
    PROVE  /\ Moves(p, "end") /\ run'[p].owned = run[p].owned
           /\ run'[p].created = run[p].created /\ run'[p].id = run[p].id
           /\ run[p].residual \subseteq run'[p].residual
           /\ bad => run'[p].residual # {}
<1>1. /\ run[p] \in Runs /\ run[p].volume \in Volumes
      /\ run[p].residual \in SUBSET (Names \cup Volumes) /\ TypeOK
  BY Busy DEF IInv, Proc, LocalsOK
<1> DEFINE s == IF bad THEN run[p].residual \cup {run[p].volume} ELSE run[p].residual
           r == [run[p] EXCEPT !.residual = s]
<1>2. /\ s \in SUBSET (Names \cup Volumes) /\ run[p].residual \subseteq s
      /\ bad => s # {}
  BY <1>1
<1>3. With(p, r)
  BY DEF Leave
<1> HIDE DEF s
<1>4. /\ r \in Runs /\ r.residual = s /\ r.kind = run[p].kind /\ r.op = run[p].op
      /\ r.name = run[p].name /\ r.volume = run[p].volume /\ r.owned = run[p].owned
      /\ r.created = run[p].created /\ r.id = run[p].id
  BY <1>1, <1>2, SetResidual
<1> HIDE DEF r
<1>5. Moves(p, "end") /\ run'[p] = r
  BY <1>1, <1>3, <1>4, MovesWith DEF Positions
<1> QED BY <1>2, <1>4, <1>5

(* The volume half ends and leaves the volumes as they are. *)
LEMMA LeaveKeeps ==
    ASSUME IInv, NEW p \in Procs, pc[p] \in {"volinspect", "volrm"},
           NEW bad \in BOOLEAN, Leave(p, bad), Goto(p, "end"),
           UNCHANGED <<world, custody, docker, callers>>,
           ~bad => volumes[run[p].volume] = NoId
    PROVE  IInv'
<1>1. /\ Proc(p) /\ run[p].owned /\ run[p].op \in Operations /\ pc[p] # "idle"
  BY Busy DEF IInv, Proc, LocalsOK
<1>2. /\ Moves(p, "end") /\ run'[p].owned = run[p].owned
      /\ run'[p].created = run[p].created /\ run'[p].id = run[p].id
      /\ run[p].residual \subseteq run'[p].residual
      /\ bad => run'[p].residual # {}
  BY <1>1, LeaveMoves
<1>3. "timeout" \notin world /\ Provisioning(p) /\ run'[p].residual = {} =>
          \A v \in Volumes : volumes[v] # run[p].op
  BY <1>1, <1>2, MarksAssumption DEF Proc, VolumeHeld
<1>4. world \cap {"fail", "timeout"} = {} /\ Provisioning(p) /\ run'[p].residual = {} =>
          \A n \in Names : containers[n].op # run[p].op
  BY <1>1, <1>2 DEF Proc, ContainerHeld, Holding
<1> QED BY <1>1, <1>2, <1>3, <1>4, AdvanceKeeps DEF OwnClaim, Early

LEMMA InspectVolumeKeeps ==
    ASSUME IInv, NEW p \in Procs, InspectVolume(p), UNCHANGED world
    PROVE  IInv'
<1> USE DEF docker, callers
<1>1. /\ pc[p] = "volinspect" /\ UNCHANGED <<custody, docker, callers>>
      /\ TypeOK /\ Proc(p) /\ run[p] \in Runs /\ run[p].owned
  BY Busy DEF InspectVolume, IInv, Proc, LocalsOK
<1>2. CASE Goto(p, "volrm") /\ UNCHANGED run
  <2>1. Moves(p, "volrm") /\ run'[p] = run[p]
    BY <1>1, <1>2, MovesOn DEF Positions
  <2>2. world \cap {"fail", "timeout"} = {} /\ Provisioning(p) /\ run[p].residual = {} =>
            \A n \in Names : containers[n].op # run[p].op
    BY <1>1 DEF Proc, ContainerHeld, Holding
  <2> QED BY <1>1, <1>2, <2>1, <2>2, AdvanceKeeps DEF OwnClaim, Early
<1>3. ASSUME NEW bad \in BOOLEAN, Leave(p, bad), Goto(p, "end"),
             ~bad => volumes[run[p].volume] = NoId
      PROVE  IInv'
  BY <1>1, <1>3, LeaveKeeps
<1> QED BY <1>2, <1>3 DEF InspectVolume

LEMMA EndKeeps ==
    ASSUME IInv, NEW p \in Procs, End(p), UNCHANGED world
    PROVE  IInv'
<1> USE DEF docker, callers
<1>1. pc[p] = "end" /\ UNCHANGED <<custody, docker>> /\ Proc(p) /\ TypeOK
  BY DEF End, IInv
<1>2. CASE Provisioning(p) /\ run[p].residual = {} /\ RaisePlain(p)
  <2>1. "timeout" \notin world => \A v \in Volumes : volumes[v] # run[p].op
    BY <1>1, <1>2 DEF Proc, VolumeHeld
  <2>2. world \cap {"fail", "timeout"} = {} => \A n \in Names : containers[n].op # run[p].op
    BY <1>1, <1>2 DEF Proc, ContainerHeld, Holding
  <2> QED BY <1>1, <1>2, <2>1, <2>2, Finishes, EndsKeep DEF RaisePlain
<1>3. CASE Return(p)
  BY <1>1, <1>3, ReturnKeeps
<1>4. CASE Finish(p) /\ UNCHANGED callers
  BY <1>1, <1>4, Finishes, EndsKeep
<1> QED BY <1>2, <1>3, <1>4 DEF End, RaiseAfterRollback, Provisioning

LEMMA CrashKeeps ==
    ASSUME IInv, NEW p \in Procs, Crash(p), UNCHANGED world
    PROVE  IInv'
BY Finishes, EndsKeep DEF Crash, docker, callers, IInv

-----------------------------------------------------------------------------
(* Calls.                                                                  *)
LEMMA ProvisionKeeps ==
    ASSUME IInv, NEW p \in Procs, NEW k \in {"provision", "restore"}, NEW o \in Operations,
           NEW n \in Names, NEW v \in Volumes \cup {NoVolume}, Provision(p, k, o, n, v),
           UNCHANGED world
    PROVE  IInv'
<1> USE DEF docker, callers
<1> DEFINE r == [NoRun EXCEPT !.kind = k, !.op = o, !.name = n, !.volume = v]
           l == IF v = NoVolume THEN "reserve" ELSE "volume"
<1>1. /\ r \in Runs /\ r.kind = k /\ r.op = o /\ r.volume = v /\ r.owned = FALSE /\ r.id = NoId
  BY DEF NoRun, Runs, Kinds
<1>2. /\ With(p, r) /\ Goto(p, l) /\ MayCall(p) /\ o \notin minted /\ minted' = minted \cup {o}
      /\ UNCHANGED <<custody, docker, receipts, failed>>
  BY DEF Provision
<1>3. l \in {"reserve", "volume"} /\ (l = "volume" => v # NoVolume) /\ TypeOK
  BY DEF IInv
<1> HIDE DEF r, l
<1>4. Turn(p) /\ pc'[p] = l /\ run'[p] = r
  BY <1>1, <1>2, <1>3, TurnWith DEF Positions
<1>5. \A q \in Procs : run[q].op # o
  BY <1>2, MarksAssumption DEF IInv, Proc, LocalsOK
<1>6. Uncreated(o) /\ \A w \in Volumes : volumes[w] # o
  BY <1>2, MarksAssumption DEF IInv, Shared, AllMinted, Uncreated
<1>7. \A m \in Names : containers[m].op # o
  BY <1>3, <1>6, PresentOp DEF IInv, Shared, ContainersMade, Uncreated
<1>8. Proc(p)'
  <2>1. LocalsOK(p)'
    BY <1>1, <1>2, <1>3, <1>4, RunFields DEF LocalsOK, Provisioning
  <2>2. Fresh(p)'
    <3>1. \A q \in Procs : q # p => run'[q].op # o
      BY <1>4, <1>5 DEF Turn
    <3> QED BY <1>1, <1>2, <1>4, <1>6, <3>1 DEF IInv, Shared, AllMinted, Fresh, Uncreated
  <2>3. NotFailed(p)'
    BY <1>1, <1>2, <1>4 DEF IInv, Shared, AllMinted, NotFailed
  <2> QED
    BY <1>1, <1>2, <1>3, <1>4, <1>6, <1>7, <2>1, <2>2, <2>3 DEF Proc, ReservedFirst, IdOwn,
       RetireGone, RmHolds, Unowned, VolumeHeld, ContainerHeld
<1> QED
  BY <1>1, <1>2, <1>3, <1>4, <1>5, <1>8, StartsKeep DEF IInv, TypeOK

LEMMA RemoveKeeps ==
    ASSUME IInv, NEW p \in Procs, NEW k \in {"delete", "cleanup"}, NEW rec, Remove(p, k, rec),
           UNCHANGED world
    PROVE  IInv'
<1> USE DEF docker, callers
<1> DEFINE r == [NoRun EXCEPT !.kind = k, !.op = rec.op, !.name = rec.name,
                              !.volume = rec.volume, !.owned = rec.volume # NoVolume]
<1>1. rec \in receipts /\ rec \in Receipts /\ rec.op \in Operations /\ rec.name \in Names
      /\ rec.volume \in Volumes \cup {NoVolume} /\ TypeOK
  BY ReceiptFields DEF Remove, IInv, TypeOK
<1>2. /\ r \in Runs /\ r.kind = k /\ r.op = rec.op /\ r.volume = rec.volume /\ r.id = NoId
      /\ r.owned <=> rec.volume # NoVolume
  BY <1>1 DEF NoRun, Runs, Kinds
<1>3. /\ With(p, r) /\ Goto(p, "inspectrm") /\ MayCall(p)
      /\ UNCHANGED <<custody, docker, minted, receipts, failed>>
  BY DEF Remove
<1> HIDE DEF r
<1>4. Turn(p) /\ pc'[p] = "inspectrm" /\ run'[p] = r
  BY <1>1, <1>2, <1>3, TurnWith DEF Positions
<1>5. Proc(p)'
  <2>1. LocalsOK(p)'
    BY <1>1, <1>2, <1>3, <1>4, RunFields DEF IInv, Shared, AllMinted, LocalsOK, Provisioning, Early
  <2>2. Unowned(p)'
    BY <1>1, <1>2, <1>3, <1>4 DEF IInv, Shared, ReceiptsUnowned, Unowned
  <2>3. ~Provisioning(p)'
    BY <1>2, <1>4 DEF Provisioning
  <2> QED
    BY <1>2, <1>4, <2>1, <2>2, <2>3 DEF Proc, Fresh, Early, ReservedFirst, IdOwn, RetireGone,
       RmHolds, NotFailed, VolumeHeld, ContainerHeld
<1>6. \A q \in Procs : pc[q] \in Early => run[q].op # rec.op
  BY <1>1 DEF IInv, Proc, Fresh
<1>7. ~Provisioning(p)'
  BY <1>2, <1>4 DEF Provisioning
<1> QED
  BY <1>1, <1>2, <1>3, <1>4, <1>5, <1>6, <1>7, StartsKeep DEF IInv, TypeOK

LEMMA ReconcileKeeps ==
    ASSUME IInv, NEW o \in Operations, NEW n \in Names, Reconcile(o, n), UNCHANGED world
    PROVE  IInv'
<1> USE DEF docker
<1> DEFINE rec == [op |-> o, name |-> n, volume |-> NoVolume]
<1>1. rec \in Receipts /\ rec.op = o /\ rec.volume = NoVolume
  BY DEF Receipts
<1>2. /\ Present(n) /\ containers[n].op = o /\ receipts' = receipts \cup {rec}
      /\ UNCHANGED <<custody, docker, pc, run, minted, failed>> /\ TypeOK
  BY DEF Reconcile, IInv
<1> HIDE DEF rec
<1>3. ~Uncreated(o) /\ o \in minted
  <2>1. containers[n].id \in DockerIds /\ creator[containers[n].id] = o
    BY <1>2, PresentOp DEF IInv, Shared, ContainersMade
  <2> QED BY <2>1, MarksAssumption DEF Uncreated, IInv, Shared, AllMinted
<1>4. TypeOK' /\ Pairs'
  BY <1>1, <1>2 DEF IInv, TypeOK, Authority!TypeOK, Pairs, OneProvision, Alone, Provisioning
<1>5. Shared'
  BY <1>1, <1>2, <1>3, MarksAssumption DEF IInv, Shared, AllMinted, LateFresh, Uncreated, NoLate,
     ContainersMade, Present, ClaimsBound, ReceiptsUnowned, LiveIsTracked, BoundToOwn,
     RemovesOnlyOwn, SeenVolumeSurvives, PreexistingVolumeSurvives, FailureNeverLeaksVolume,
     FailureNeverLeaksContainer
<1>6. ASSUME NEW q \in Procs
      PROVE  Proc(q)'
  <2>1. Fresh(q)'
    BY <1>1, <1>2, <1>3 DEF IInv, Proc, Fresh, Uncreated
  <2> QED
    BY <1>2, <2>1 DEF IInv, Proc, LocalsOK, Provisioning, ReservedFirst, IdOwn,
       RetireGone, RmHolds, Unowned, NotFailed, VolumeHeld, ContainerHeld
<1> QED BY <1>4, <1>5, <1>6 DEF IInv

-----------------------------------------------------------------------------
(* Steps that change what Docker has.                                      *)
LEMMA LateRunKeeps ==
    ASSUME IInv, LateRun, UNCHANGED world
    PROVE  IInv'
<1>1. PICK c \in late :
        /\ IF Present(c.name) \/ Unused = {} THEN UNCHANGED <<containers, volumes, creator>>
                                             ELSE DockerRun(c.op, c.name, c.volume)
        /\ late' = late \ {c}
        /\ UNCHANGED <<custody, pc, run, minted, receipts, failed, removed>>
  BY DEF LateRun
<1>2. /\ TypeOK /\ c.op \in Operations /\ c.name \in Names
      /\ c.volume \in Volumes \cup {NoVolume}
  BY ReceiptFields DEF IInv, TypeOK
<1>3. Pairs'
  BY <1>1 DEF IInv, Pairs, OneProvision, Alone, Provisioning
<1>4. CASE UNCHANGED <<containers, volumes, creator>>
  <2>1. TypeOK'
    BY <1>1, <1>4 DEF IInv, TypeOK, Authority!TypeOK
  <2>2. Shared'
    BY <1>1, <1>4 DEF IInv, Shared, AllMinted, LateFresh, Uncreated, NoLate,
       ContainersMade, Present, ClaimsBound, ReceiptsUnowned, LiveIsTracked, BoundToOwn,
       RemovesOnlyOwn, SeenVolumeSurvives, PreexistingVolumeSurvives, FailureNeverLeaksVolume,
       FailureNeverLeaksContainer
  <2>3. ASSUME NEW q \in Procs
        PROVE  Proc(q)'
    BY <1>1, <1>4 DEF IInv, Proc, Fresh, Uncreated, LocalsOK, Provisioning, ReservedFirst, IdOwn,
       RetireGone, RmHolds, Unowned, NotFailed, VolumeHeld, ContainerHeld
  <2> QED BY <1>3, <2>1, <2>2, <2>3 DEF IInv
<1>5. CASE DockerRun(c.op, c.name, c.volume)
  <2>1. PICK d \in DockerIds : Creates(c.op, c.name, d)
    BY <1>2, <1>5, DockerRunCreates
  <2>2. /\ Uncreated(c.op) /\ custody[c.op][c.name].state # "none" /\ c.op \in minted
        /\ \A e \in late' : e.op # c.op
        /\ "timeout" \in world
        /\ \A q \in Procs : pc[q] \in Early => run[q].op # c.op
    BY <1>1 DEF IInv, Shared, LateFresh, AllMinted, NoLate, Proc, Fresh
  <2>3. world \cap {"fail", "timeout"} # {}
    BY <2>2
  <2>4. Shared'
    BY <1>1, <1>2, <2>1, <2>2, <2>3, CreatesShared
  <2>5. \A q \in Procs : Proc(q)'
    BY <1>1, <1>2, <2>1, <2>2, <2>3, CreatesOthers
  <2>6. TypeOK'
    BY <1>1, <2>1 DEF IInv, TypeOK, Authority!TypeOK, Creates
  <2> QED BY <1>3, <2>4, <2>5, <2>6 DEF IInv
<1> QED BY <1>1, <1>4, <1>5

LEMMA OperatorRmKeeps ==
    ASSUME IInv, NEW n \in Names, OperatorRm(n), UNCHANGED world
    PROVE  IInv'
<1>1. /\ Removes(n) /\ "operator" \in world
      /\ UNCHANGED <<custody, volumes, creator, late, pc, run, minted, receipts, failed, removed>>
  BY RmRemoves DEF OperatorRm, IInv, callers
<1>2. world \cap {"concurrent", "operator"} # {}
  BY <1>1
<1>3. TypeOK' /\ Pairs'
  BY <1>1 DEF IInv, TypeOK, Authority!TypeOK, Pairs, OneProvision, Alone, Provisioning, Removes
<1>4. Shared'
  BY <1>1, RemovesShared
<1>5. \A q \in Procs : Proc(q)'
  BY <1>1, <1>2, RemovesOthers
<1> QED BY <1>3, <1>4, <1>5 DEF IInv

(* Where docker run leaves the locals of its call. *)
LEMMA RunMoves ==
    ASSUME IInv, NEW p \in Procs, pc[p] = "run",
           \/ With(p, [run[p] EXCEPT !.created = TRUE]) /\ Goto(p, "inspect")
           \/ "fail" \in world /\ Rollback(p) /\ UNCHANGED run
           \/ "timeout" \in world /\ With(p, [run[p] EXCEPT !.raised = TRUE]) /\ Goto(p, "inspect")
    PROVE  \E l \in {"inspect", "inspectrm", "end", "volinspect", "volrm"} :
             /\ Moves(p, l) /\ run'[p].owned = run[p].owned /\ run'[p].id = run[p].id
             /\ run'[p].residual = run[p].residual
             /\ l \in {"volinspect", "volrm"} => run[p].owned
             /\ l = "end" => ~run[p].owned
             /\ world \cap {"fail", "timeout"} = {} => l = "inspect" /\ run'[p].created
<1>1. /\ run[p] \in Runs /\ TypeOK /\ Provisioning(p)
  BY Busy DEF IInv, Proc, LocalsOK, Early
<1>2. CASE With(p, [run[p] EXCEPT !.created = TRUE]) /\ Goto(p, "inspect")
  <2> DEFINE r == [run[p] EXCEPT !.created = TRUE]
  <2>1. /\ r \in Runs /\ r.created = TRUE /\ r.kind = run[p].kind /\ r.op = run[p].op
        /\ r.name = run[p].name /\ r.volume = run[p].volume /\ r.owned = run[p].owned
        /\ r.id = run[p].id /\ r.residual = run[p].residual
    BY <1>1, SetCreated
  <2>2. With(p, r) /\ Goto(p, "inspect")
    BY <1>2
  <2> HIDE DEF r
  <2>3. Moves(p, "inspect") /\ run'[p] = r
    BY <1>1, <2>1, <2>2, MovesWith DEF Positions
  <2> QED BY <2>1, <2>3
<1>3. CASE "fail" \in world /\ Rollback(p) /\ UNCHANGED run
  <2> DEFINE l == IF run[p].created THEN "inspectrm" ELSE VolumeHalf(run[p])
  <2>1. /\ l \in {"inspectrm", "end", "volinspect", "volrm"}
        /\ l \in {"volinspect", "volrm"} => run[p].owned
        /\ l = "end" => ~run[p].owned
    BY <1>1, VolumeHalfIs DEF Provisioning
  <2>2. Moves(p, l) /\ run'[p] = run[p]
    BY <1>1, <1>3, <2>1, MovesOn DEF Rollback, Positions
  <2>3. world \cap {"fail", "timeout"} # {}
    BY <1>3
  <2> HIDE DEF l
  <2> QED BY <2>1, <2>2, <2>3
<1>4. CASE /\ "timeout" \in world /\ With(p, [run[p] EXCEPT !.raised = TRUE])
           /\ Goto(p, "inspect")
  <2> DEFINE r == [run[p] EXCEPT !.raised = TRUE]
  <2>1. /\ r \in Runs /\ r.kind = run[p].kind /\ r.op = run[p].op
        /\ r.name = run[p].name /\ r.volume = run[p].volume /\ r.owned = run[p].owned
        /\ r.id = run[p].id /\ r.residual = run[p].residual
    BY <1>1, SetRaised
  <2>2. With(p, r) /\ Goto(p, "inspect")
    BY <1>4
  <2> HIDE DEF r
  <2>3. Moves(p, "inspect") /\ run'[p] = r
    BY <1>1, <2>1, <2>2, MovesWith DEF Positions
  <2>4. world \cap {"fail", "timeout"} # {}
    BY <1>4
  <2> QED BY <2>1, <2>3, <2>4
<1> QED BY <1>2, <1>3, <1>4

LEMMA RunCreatesKeeps ==
    ASSUME IInv, NEW p \in Procs, pc[p] = "run",
           DockerRun(run[p].op, run[p].name, run[p].volume),
           \/ With(p, [run[p] EXCEPT !.created = TRUE]) /\ Goto(p, "inspect")
           \/ "fail" \in world /\ Rollback(p) /\ UNCHANGED run
           \/ "timeout" \in world /\ With(p, [run[p] EXCEPT !.raised = TRUE]) /\ Goto(p, "inspect"),
           UNCHANGED <<world, custody, late, removed, callers>>
    PROVE  IInv'
<1> USE DEF callers
<1> DEFINE o == run[p].op
           n == run[p].name
<1>1. /\ TypeOK /\ Proc(p) /\ run[p] \in Runs /\ o \in Operations /\ n \in Names
      /\ run[p].volume \in Volumes \cup {NoVolume} /\ Provisioning(p) /\ o \in minted
      /\ run[p].id \in DockerIds \cup {NoId}
  BY Busy, MarksAssumption DEF IInv, Proc, LocalsOK, Early
<1>2. PICK d \in DockerIds : Creates(o, n, d)
  BY <1>1, DockerRunCreates
<1>3. PICK l \in {"inspect", "inspectrm", "end", "volinspect", "volrm"} :
             /\ Moves(p, l) /\ run'[p].owned = run[p].owned /\ run'[p].id = run[p].id
             /\ run'[p].residual = run[p].residual
             /\ l \in {"volinspect", "volrm"} => run[p].owned
             /\ l = "end" => ~run[p].owned
             /\ world \cap {"fail", "timeout"} = {} => l = "inspect" /\ run'[p].created
  BY RunMoves
<1>4. /\ Uncreated(o) /\ \A c \in late : c.op # o
      /\ \A q \in Procs : run[q].op = o => q = p
      /\ custody[o][n].state # "none" /\ o \notin failed
  BY <1>1 DEF Proc, Fresh, Early, ReservedFirst, NotFailed
<1>5. Shared'
  BY <1>1, <1>2, <1>4, CreatesShared
<1>6. TypeOK'
  BY <1>1, <1>2, <1>3 DEF TypeOK, Authority!TypeOK, Creates, Moves, Turn
<1>7. Pairs'
  BY <1>3 DEF IInv, Pairs, OneProvision, Alone, Moves, Turn, Provisioning
<1>8. /\ pc'[p] = l /\ run'[p] \in Runs /\ run'[p].op = o /\ run'[p].name = n
      /\ run'[p].kind = run[p].kind /\ run'[p].volume = run[p].volume
      /\ \A q \in Procs : q # p => pc'[q] = pc[q] /\ run'[q] = run[q]
      /\ \A q \in Procs : run'[q].op = run[q].op
  BY <1>3 DEF Moves, Turn
<1>9. ASSUME NEW q \in Procs, q # p
      PROVE  Proc(q)'
  BY <1>1, <1>2, <1>4, <1>8, <1>9, CreatesOthers
<1>10. Proc(p)'
  <2>1. LocalsOK(p)'
    BY <1>1, <1>3, <1>8, RunFields DEF Proc, LocalsOK, Early, Provisioning
  <2>2. IdOwn(p)'
    BY <1>1, <1>2, <1>3, <1>8, MarksAssumption DEF Proc, IdOwn, Creates
  <2>3. Unowned(p)' /\ VolumeHeld(p)'
    <3>1. \A v \in Volumes : /\ volumes'[v] = Foreign => volumes[v] = Foreign
                             /\ volumes'[v] = o => volumes[v] = o
      BY <1>1, <1>2, MarksAssumption DEF Creates
    <3>2. Unowned(p)'
      BY <1>1, <1>3, <1>8, <3>1 DEF Proc, Unowned
    <3>3. VolumeHeld(p)'
      BY <1>1, <1>3, <1>8, <3>1 DEF Proc, VolumeHeld, Provisioning
    <3> QED BY <3>2, <3>3
  <2>4. ContainerHeld(p)'
    <3>1. \A m \in Names : containers'[m].op = o => m = n
      <4>1. \A m \in Names : containers[m].op # o
        BY <1>1, <1>4, PresentOp DEF IInv, Shared, ContainersMade, Uncreated
      <4> QED BY <1>2, <4>1 DEF Creates
    <3> QED BY <1>3, <1>8, <3>1 DEF ContainerHeld, Holding
  <2>5. NotFailed(p)'
    BY <1>4, <1>8 DEF NotFailed
  <2> QED
    BY <1>3, <1>8, <2>1, <2>2, <2>3, <2>4, <2>5 DEF Proc, Fresh, Early, ReservedFirst, RetireGone,
       RmHolds
<1> QED BY <1>5, <1>6, <1>7, <1>9, <1>10 DEF IInv

(* The client gives up on docker run; the daemon may execute it later. *)
LEMMA RunLaterKeeps ==
    ASSUME IInv, NEW p \in Procs, pc[p] = "run", "timeout" \in world,
           late' \in {late, late \cup {[op |-> run[p].op, name |-> run[p].name,
                                        volume |-> run[p].volume]}},
           With(p, [run[p] EXCEPT !.raised = TRUE]), Goto(p, "inspect"),
           UNCHANGED <<world, custody, containers, volumes, creator, removed, callers>>
    PROVE  IInv'
<1> USE DEF callers
<1> DEFINE o == run[p].op
           n == run[p].name
           c == [op |-> o, name |-> n, volume |-> run[p].volume]
<1>1. /\ TypeOK /\ Proc(p) /\ run[p] \in Runs /\ o \in Operations /\ n \in Names
      /\ run[p].volume \in Volumes \cup {NoVolume} /\ Provisioning(p) /\ o \in minted
  BY Busy, MarksAssumption DEF IInv, Proc, LocalsOK, Early
<1>2. c \in Receipts /\ c.op = o /\ c.name = n
  BY <1>1 DEF Receipts
<1>3. late' \subseteq late \cup {c} /\ late' \subseteq Receipts
  BY <1>1, <1>2 DEF TypeOK
<1> HIDE DEF c
<1>4. PICK l \in {"inspect", "inspectrm", "end", "volinspect", "volrm"} :
             /\ Moves(p, l) /\ run'[p].owned = run[p].owned /\ run'[p].id = run[p].id
             /\ run'[p].residual = run[p].residual
             /\ l \in {"volinspect", "volrm"} => run[p].owned
             /\ l = "end" => ~run[p].owned
  BY RunMoves
<1>5. /\ Uncreated(o) /\ \A e \in late : e.op # o
      /\ \A q \in Procs : run[q].op = o => q = p
      /\ custody[o][n].state # "none"
  BY <1>1 DEF Proc, Fresh, Early, ReservedFirst
<1>6. /\ pc'[p] = l /\ run'[p] \in Runs /\ run'[p].op = o /\ run'[p].name = n
      /\ run'[p].kind = run[p].kind /\ run'[p].volume = run[p].volume
      /\ \A q \in Procs : q # p => pc'[q] = pc[q] /\ run'[q] = run[q]
      /\ \A q \in Procs : run'[q].op = run[q].op
  BY <1>4 DEF Moves, Turn
<1>7. world \cap {"fail", "timeout"} # {}
  OBVIOUS
<1>8. TypeOK'
  BY <1>1, <1>3, <1>4 DEF TypeOK, Authority!TypeOK, Moves, Turn
<1>9. Shared'
  <2>1. LateFresh'
    BY <1>2, <1>3, <1>5 DEF IInv, Shared, LateFresh, Uncreated
  <2>2. AllMinted'
    BY <1>1, <1>2, <1>3 DEF IInv, Shared, AllMinted
  <2> QED
    BY <2>1, <2>2 DEF IInv, Shared, NoLate,
       ContainersMade, Present, ClaimsBound, ReceiptsUnowned, LiveIsTracked, BoundToOwn,
       RemovesOnlyOwn, SeenVolumeSurvives, PreexistingVolumeSurvives, FailureNeverLeaksVolume,
       FailureNeverLeaksContainer
<1>10. Pairs'
  BY <1>6 DEF IInv, Pairs, OneProvision, Alone, Provisioning
<1>11. ASSUME NEW q \in Procs, q # p
       PROVE  Proc(q)'
  <2>1. Fresh(q)'
    BY <1>2, <1>3, <1>5, <1>6, <1>11 DEF IInv, Proc, Fresh, Uncreated
  <2>2. pc'[q] = pc[q] /\ run'[q] = run[q]
    BY <1>6, <1>11
  <2> QED
    BY <2>1, <2>2 DEF IInv, Proc, LocalsOK, Provisioning, ReservedFirst, IdOwn, RetireGone,
       RmHolds, Unowned, NotFailed, VolumeHeld, ContainerHeld
<1>12. Proc(p)'
  <2>1. LocalsOK(p)'
    BY <1>1, <1>4, <1>6, RunFields DEF Proc, LocalsOK, Early, Provisioning
  <2> QED
    BY <1>1, <1>4, <1>6, <1>7, <2>1 DEF Proc, Fresh, Early, ReservedFirst, IdOwn, RetireGone,
       RmHolds, Unowned, NotFailed, VolumeHeld, ContainerHeld, Provisioning
<1> QED BY <1>8, <1>9, <1>10, <1>11, <1>12 DEF IInv

LEMMA RunKeeps ==
    ASSUME IInv, NEW p \in Procs, Run(p), UNCHANGED world
    PROVE  IInv'
<1>1. CASE Rollback(p) /\ UNCHANGED <<docker, run, custody, callers>>
  BY <1>1, RollbackKeeps DEF Run
<1> QED BY <1>1, RunCreatesKeeps, RunLaterKeeps DEF Run

(* docker rm by its owner. *)
LEMMA RmKeeps ==
    ASSUME IInv, NEW p \in Procs, pc[p] = "rm", DockerRm(run[p].op, run[p].name),
           \/ Goto(p, "retire") /\ UNCHANGED run
           \/ "timeout" \in world /\ ContainerDone(p, FALSE),
           UNCHANGED <<world, custody, volumes, creator, late, callers>>
    PROVE  IInv'
<1> USE DEF callers
<1> DEFINE o == run[p].op
           n == run[p].name
<1>1. /\ TypeOK /\ Proc(p) /\ run[p] \in Runs /\ o \in Operations /\ n \in Names
      /\ run[p].id # NoId
  BY Busy DEF IInv, Proc, LocalsOK
<1>2. Removes(n) /\ removed' = removed \cup {<<"container", o, containers[n].op>>} /\ Present(n)
  BY <1>1, RmRemoves DEF DockerRm
<1>3. world \cap {"concurrent", "operator"} = {} => containers[n].op = o
  BY <1>1 DEF Proc, RmHolds
<1>4. Shared'
  BY <1>1, <1>2, <1>3, RemovesShared
<1>5. \E l \in {"retire", "end", "volinspect", "volrm"} :
          /\ Moves(p, l) /\ run'[p].owned = run[p].owned /\ run'[p].created = run[p].created
          /\ run'[p].id = run[p].id
          /\ l \in {"volinspect", "volrm"} => run[p].owned
          /\ l \in {"end", "volinspect", "volrm"} => "timeout" \in world
  <2>1. CASE Goto(p, "retire") /\ UNCHANGED run
    <3>1. Moves(p, "retire") /\ run'[p] = run[p]
      BY <1>1, <2>1, MovesOn DEF Positions
    <3> QED BY <3>1
  <2>2. CASE "timeout" \in world /\ ContainerDone(p, FALSE)
    BY <2>2, ContainerDoneMoves
  <2> QED BY <2>1, <2>2
<1>6. PICK l \in {"retire", "end", "volinspect", "volrm"} :
          /\ Moves(p, l) /\ run'[p].owned = run[p].owned /\ run'[p].created = run[p].created
          /\ run'[p].id = run[p].id
          /\ l \in {"volinspect", "volrm"} => run[p].owned
          /\ l \in {"end", "volinspect", "volrm"} => "timeout" \in world
  BY <1>5
<1>7. /\ pc'[p] = l /\ run'[p] \in Runs /\ run'[p].op = o /\ run'[p].name = n
      /\ run'[p].kind = run[p].kind /\ run'[p].volume = run[p].volume
      /\ \A q \in Procs : q # p => pc'[q] = pc[q] /\ run'[q] = run[q]
      /\ \A q \in Procs : run'[q].op = run[q].op
  BY <1>6 DEF Moves, Turn
<1>8. containers[n].op \in Operations
  BY <1>1, <1>2, PresentOp
<1>9. TypeOK'
  <2>1. <<"container", o, containers[n].op>> \in {"container", "volume"} \X Operations \X Creators
    BY <1>1, <1>8 DEF Creators
  <2>2. removed' \subseteq {"container", "volume"} \X Operations \X Creators
    BY <1>1, <1>2, <2>1 DEF TypeOK
  <2> QED BY <1>1, <1>2, <1>6, <2>2 DEF TypeOK, Authority!TypeOK, Removes, Moves, Turn
<1>10. Pairs'
  BY <1>1, <1>6, <1>7 DEF IInv, Pairs, OneProvision, Alone, Provisioning
<1>11. ASSUME NEW q \in Procs, q # p
       PROVE  Proc(q)'
  <2>1. world \cap {"concurrent", "operator"} = {} => pc[q] # "rm"
    BY <1>11 DEF IInv, Pairs, Alone
  <2> QED BY <1>1, <1>2, <1>7, <1>11, <2>1, RemovesOthers
<1>12. Proc(p)'
  <2>1. LocalsOK(p)'
    BY <1>1, <1>6, <1>7, RunFields DEF Proc, LocalsOK, Early, Provisioning
  <2>2. containers'[n].op = NoId /\ NoId \notin Operations
    BY <1>1, <1>2, MarksAssumption DEF Removes, NoContainer
  <2>3. ContainerHeld(p)'
    <3>1. world \cap {"fail", "timeout"} = {} /\ Provisioning(p) =>
              \A m \in Names : containers[m].op = o => m = n
      BY <1>1 DEF Proc, ContainerHeld
    <3>2. \A m \in Names : m # n => containers'[m] = containers[m]
      BY <1>2 DEF Removes
    <3> QED BY <1>1, <1>7, <2>2, <3>1, <3>2 DEF ContainerHeld, Provisioning
  <2>4. VolumeHeld(p)'
    BY <1>1, <1>6, <1>7 DEF Proc, VolumeHeld, Provisioning
  <2> QED
    BY <1>1, <1>6, <1>7, <2>1, <2>2, <2>3, <2>4 DEF Proc, Fresh, Early, ReservedFirst, IdOwn,
       RetireGone, RmHolds, Unowned, NotFailed, Provisioning
<1> QED BY <1>4, <1>9, <1>10, <1>11, <1>12 DEF IInv

LEMMA RemoveContainerKeeps ==
    ASSUME IInv, NEW p \in Procs, RemoveContainer(p), UNCHANGED world
    PROVE  IInv'
<1>1. /\ pc[p] = "rm" /\ UNCHANGED <<custody, volumes, creator, late, callers>>
      /\ TypeOK /\ Proc(p) /\ run[p] \in Runs /\ run[p].op \in Operations /\ run[p].name \in Names
      /\ run[p].id # NoId
  BY Busy DEF RemoveContainer, IInv, Proc, LocalsOK
<1>2. CASE /\ ~Present(run[p].name)
           /\ Goto(p, "retire") /\ UNCHANGED <<run, containers, removed>>
  <2>1. Moves(p, "retire") /\ run'[p] = run[p]
    BY <1>1, <1>2, MovesOn DEF Positions
  <2>2. containers[run[p].name].op # run[p].op
    BY <1>1, <1>2, PresentOp
  <2>3. world \cap {"fail", "timeout"} = {} /\ Provisioning(p) =>
            \A n \in Names : containers[n].op # run[p].op
    BY <1>1, <2>2 DEF Proc, ContainerHeld
  <2> QED BY <1>1, <1>2, <2>1, <2>2, <2>3, AdvanceKeeps DEF OwnClaim, Early, docker
<1>3. CASE ContainerDone(p, FALSE) /\ UNCHANGED <<containers, removed>>
  BY <1>1, <1>3, ContainerDoneKeeps DEF OwnClaim, docker
<1> QED BY <1>1, <1>2, <1>3, RmKeeps DEF RemoveContainer

-----------------------------------------------------------------------------
(* Volumes come and go: volume v now has creator x.                        *)
Labels(v, x) ==
    /\ volumes' \in [Volumes -> Creators \cup {NoId}]
    /\ \A w \in Volumes : volumes'[w] = IF w = v THEN x ELSE volumes[w]

LEMMA CreateVolumeKeeps ==
    ASSUME IInv, NEW p \in Procs, CreateVolume(p), UNCHANGED world
    PROVE  IInv'
<1> USE DEF docker, callers
<1> DEFINE o == run[p].op
           v == run[p].volume
           x == IF volumes[v] = NoId THEN o ELSE volumes[v]
<1>1. /\ pc[p] = "volcreate" /\ UNCHANGED <<custody, containers, creator, late, removed>>
      /\ TypeOK /\ Proc(p) /\ run[p] \in Runs /\ o \in Operations /\ v \in Volumes
      /\ Provisioning(p) /\ ~run[p].owned /\ o \in minted
  BY Busy, MarksAssumption DEF CreateVolume, IInv, Proc, LocalsOK, Early
<1>2. VolumeCreated(o, v) => Labels(v, x)
  BY <1>1 DEF VolumeCreated, Labels, TypeOK, Creators
<1>3. CASE /\ VolumeCreated(o, v)
           /\ With(p, [run[p] EXCEPT !.owned = TRUE]) /\ Goto(p, "reserve")
           /\ UNCHANGED callers
  <2> DEFINE r == [run[p] EXCEPT !.owned = TRUE]
  <2>1. /\ r \in Runs /\ r.owned = TRUE /\ r.kind = run[p].kind /\ r.op = run[p].op
        /\ r.name = run[p].name /\ r.volume = run[p].volume /\ r.created = run[p].created
        /\ r.id = run[p].id /\ r.residual = run[p].residual
    BY <1>1, SetOwned
  <2>2. With(p, r)
    BY <1>3
  <2> HIDE DEF r
  <2>3. Moves(p, "reserve") /\ run'[p] = r
    BY <1>1, <1>3, <2>1, <2>2, MovesWith DEF Positions
  <2>4. /\ pc'[p] = "reserve" /\ run'[p] \in Runs /\ run'[p].op = o /\ run'[p].name = run[p].name
        /\ run'[p].kind = run[p].kind /\ run'[p].volume = v
        /\ \A q \in Procs : q # p => pc'[q] = pc[q] /\ run'[q] = run[q]
        /\ \A q \in Procs : run'[q].op = run[q].op
    BY <2>3 DEF Moves, Turn
  <2>5. /\ \A w \in Volumes : volumes'[w] = Foreign => volumes[w] = Foreign
        /\ \A w \in Volumes : volumes'[w] # volumes[w] => w = v /\ volumes'[w] = o
    BY <1>1, <1>2, <1>3, MarksAssumption DEF Labels
  <2>6. o \notin failed
    BY <1>1 DEF Proc, NotFailed
  <2>7. TypeOK'
    BY <1>1, <1>2, <1>3, <2>3 DEF TypeOK, Authority!TypeOK, Labels, Moves, Turn
  <2>8. Shared'
    <3>1. AllMinted'
      BY <1>1, <1>3, <2>5 DEF IInv, Shared, AllMinted
    <3>2. ReceiptsUnowned' /\ FailureNeverLeaksVolume'
      BY <1>1, <1>3, <2>5, <2>6 DEF IInv, Shared, ReceiptsUnowned, FailureNeverLeaksVolume
    <3> QED
      BY <1>1, <1>3, <3>1, <3>2 DEF IInv, Shared, LateFresh, Uncreated, NoLate,
         ContainersMade, Present, ClaimsBound, LiveIsTracked, BoundToOwn,
         RemovesOnlyOwn, SeenVolumeSurvives, PreexistingVolumeSurvives,
         FailureNeverLeaksContainer
  <2>9. Pairs'
    BY <1>1, <2>4 DEF IInv, Pairs, OneProvision, Alone, Provisioning
  <2>10. ASSUME NEW q \in Procs, q # p
         PROVE  Proc(q)'
    <3>1. pc'[q] = pc[q] /\ run'[q] = run[q]
      BY <2>4, <2>10
    <3>2. Unowned(q)'
      BY <2>5, <3>1 DEF IInv, Proc, Unowned
    <3>3. VolumeHeld(q)'
      <4>1. Provisioning(q) => run[q].op # o
        BY <1>1, <2>10 DEF IInv, Pairs, OneProvision
      <4> QED BY <2>5, <3>1, <4>1 DEF IInv, Proc, VolumeHeld, Provisioning
    <3> QED
      BY <1>1, <1>3, <2>4, <3>1, <3>2, <3>3 DEF IInv, Proc, LocalsOK, Provisioning, Fresh,
         Uncreated, ReservedFirst, IdOwn, RetireGone, RmHolds, NotFailed, ContainerHeld
  <2>11. Proc(p)'
    <3>1. LocalsOK(p)'
      BY <1>1, <1>3, <2>1, <2>3, <2>4, RunFields DEF Proc, LocalsOK, Provisioning
    <3>2. Fresh(p)'
      BY <1>1, <1>3, <2>4 DEF Proc, Fresh, Uncreated, Early
    <3>3. VolumeHeld(p)'
      BY <1>1, <2>1, <2>3, <2>4, <2>5 DEF Proc, VolumeHeld, Provisioning
    <3>4. Unowned(p)'
      BY <1>1, <2>4, <2>5 DEF Proc, Unowned
    <3>5. ContainerHeld(p)'
      <4>1. \A m \in Names : containers[m].op # o
        BY <1>1, PresentOp DEF IInv, Shared, ContainersMade, Proc, Fresh, Uncreated, Early
      <4> QED BY <1>1, <2>4, <4>1 DEF ContainerHeld
    <3> QED
      BY <1>1, <1>3, <2>1, <2>3, <2>4, <3>1, <3>2, <3>3, <3>4, <3>5 DEF Proc, ReservedFirst, IdOwn,
         RetireGone, RmHolds, NotFailed, Provisioning
  <2> QED BY <2>7, <2>8, <2>9, <2>10, <2>11 DEF IInv
<1>4. CASE "timeout" \in world /\ VolumeCreated(o, v) /\ RaisePlain(p)
  <2>1. world \cap {"fail", "timeout"} # {}
    BY <1>4
  <2>2. /\ volumes' \in [Volumes -> Creators \cup {NoId}]
        /\ \A w \in Volumes : volumes'[w] \in {volumes[w], o}
    BY <1>1, <1>2, <1>4 DEF Labels
  <2> HIDE DEF x
  <2> QED BY <1>1, <1>4, <2>1, <2>2, Finishes, EndsKeep DEF RaisePlain
<1>5. CASE world \cap {"fail", "timeout"} # {} /\ RaisePlain(p) /\ UNCHANGED volumes
  <2>1. "timeout" \notin world => \A w \in Volumes : volumes[w] # o
    BY <1>1 DEF Proc, VolumeHeld
  <2> QED BY <1>1, <1>5, <2>1, Finishes, EndsKeep DEF RaisePlain
<1> QED BY <1>1, <1>3, <1>4, <1>5 DEF CreateVolume

LEMMA VolumeRmKeeps ==
    ASSUME IInv, NEW p \in Procs, pc[p] = "volrm", VolumeRemoved(run[p].op, run[p].volume),
           NEW bad \in BOOLEAN, Leave(p, bad), Goto(p, "end"),
           UNCHANGED <<world, custody, containers, creator, late, callers>>
    PROVE  IInv'
<1> USE DEF callers
<1> DEFINE o == run[p].op
           v == run[p].volume
<1>1. /\ TypeOK /\ Proc(p) /\ run[p] \in Runs /\ o \in Operations /\ v \in Volumes /\ run[p].owned
  BY Busy DEF IInv, Proc, LocalsOK
<1>2. /\ Labels(v, NoId) /\ volumes[v] # NoId
      /\ removed' = removed \cup {<<"volume", o, volumes[v]>>}
  BY <1>1 DEF VolumeRemoved, Labels, TypeOK
<1>3. /\ Moves(p, "end") /\ run'[p].owned = run[p].owned
      /\ run'[p].created = run[p].created /\ run'[p].id = run[p].id
      /\ run[p].residual \subseteq run'[p].residual
  BY <1>1, LeaveMoves
<1>4. /\ pc'[p] = "end" /\ run'[p] \in Runs /\ run'[p].op = o /\ run'[p].name = run[p].name
      /\ run'[p].kind = run[p].kind /\ run'[p].volume = v
      /\ \A q \in Procs : q # p => pc'[q] = pc[q] /\ run'[q] = run[q]
      /\ \A q \in Procs : run'[q].op = run[q].op
  BY <1>3 DEF Moves, Turn
<1>5. \A w \in Volumes : volumes'[w] # NoId => volumes'[w] = volumes[w] /\ w # v
  BY <1>1, <1>2 DEF Labels
<1>6. TypeOK'
  <2>1. <<"volume", o, volumes[v]>> \in {"container", "volume"} \X Operations \X Creators
    BY <1>1, <1>2 DEF TypeOK
  <2>2. removed' \subseteq {"container", "volume"} \X Operations \X Creators
    BY <1>1, <1>2, <2>1 DEF TypeOK
  <2> QED BY <1>1, <1>2, <1>3, <2>2 DEF TypeOK, Authority!TypeOK, Labels, Moves, Turn
<1>7. Shared'
  <2>1. AllMinted'
    BY <1>5 DEF IInv, Shared, AllMinted
  <2>2. ReceiptsUnowned' /\ FailureNeverLeaksVolume'
    <3>1. failed \subseteq Operations
      BY <1>1 DEF TypeOK
    <3> QED BY <1>5, <3>1, MarksAssumption
            DEF IInv, Shared, ReceiptsUnowned, FailureNeverLeaksVolume
  <2>3. SeenVolumeSurvives'
    <3>1. "inspect" \notin world => volumes[v] # Foreign
      BY <1>1 DEF Proc, Unowned
    <3> QED BY <1>2, <3>1 DEF IInv, Shared, SeenVolumeSurvives, PreexistingVolumeSurvives
  <2>4. RemovesOnlyOwn'
    BY <1>2 DEF IInv, Shared, RemovesOnlyOwn
  <2> QED
    BY <2>1, <2>2, <2>3, <2>4 DEF IInv, Shared, LateFresh, Uncreated, NoLate,
       ContainersMade, Present, ClaimsBound, LiveIsTracked, BoundToOwn,
       FailureNeverLeaksContainer
<1>8. Pairs'
  BY <1>4 DEF IInv, Pairs, OneProvision, Alone, Provisioning
<1>9. ASSUME NEW q \in Procs, q # p
      PROVE  Proc(q)'
  <2>1. pc'[q] = pc[q] /\ run'[q] = run[q]
    BY <1>4, <1>9
  <2>2. Unowned(q)'
    BY <1>5, <2>1, MarksAssumption DEF IInv, Proc, Unowned
  <2>3. VolumeHeld(q)'
    <3>1. Provisioning(q) => run[q].op \in Operations
      BY Busy, NoRunFields DEF IInv, Proc, LocalsOK, Provisioning
    <3> QED BY <1>5, <2>1, <3>1, MarksAssumption DEF IInv, Proc, VolumeHeld, Provisioning
  <2> QED
    BY <1>4, <2>1, <2>2, <2>3 DEF IInv, Proc, LocalsOK, Provisioning, Fresh,
       Uncreated, ReservedFirst, IdOwn, RetireGone, RmHolds, NotFailed, ContainerHeld
<1>10. Proc(p)'
  <2>1. LocalsOK(p)'
    BY <1>1, <1>3, <1>4, RunFields DEF Proc, LocalsOK, Early, Provisioning
  <2>2. VolumeHeld(p)'
    BY <1>1, <1>4, <1>5, MarksAssumption DEF Proc, VolumeHeld, Provisioning
  <2>3. Unowned(p)'
    BY <1>4, <1>5, MarksAssumption DEF Unowned
  <2>4. ContainerHeld(p)'
    BY <1>1, <1>3, <1>4 DEF Proc, ContainerHeld, Provisioning, Holding
  <2> QED
    BY <1>1, <1>3, <1>4, <2>1, <2>2, <2>3, <2>4 DEF Proc, Fresh, Early, ReservedFirst, IdOwn,
       RetireGone, RmHolds, NotFailed, Provisioning
<1> QED BY <1>6, <1>7, <1>8, <1>9, <1>10 DEF IInv

LEMMA RemoveVolumeKeeps ==
    ASSUME IInv, NEW p \in Procs, RemoveVolume(p), UNCHANGED world
    PROVE  IInv'
<1>1. /\ pc[p] = "volrm" /\ Goto(p, "end")
      /\ UNCHANGED <<custody, containers, creator, late, callers>>
  BY DEF RemoveVolume
<1>2. ASSUME NEW bad \in BOOLEAN, VolumeRemoved(run[p].op, run[p].volume), Leave(p, bad)
      PROVE  IInv'
  BY <1>1, <1>2, VolumeRmKeeps
<1>3. ASSUME NEW bad \in BOOLEAN, Leave(p, bad), UNCHANGED <<volumes, removed>>,
             ~bad => volumes[run[p].volume] = NoId
      PROVE  IInv'
  BY <1>1, <1>3, LeaveKeeps DEF docker
<1> QED BY <1>2, <1>3 DEF RemoveVolume

-----------------------------------------------------------------------------
(* The theorems.                                                           *)
LEMMA InitInv == Init => IInv
<1> SUFFICES ASSUME Init PROVE IInv
  OBVIOUS
<1>1. NoContainer.op = NoId
  BY DEF NoContainer
<1>2. /\ custody \in [Operations -> [Names -> Authority!Claims]]
      /\ \A o \in Operations, n \in Names :
            custody[o][n].state = "none" /\ custody[o][n].docker_id = NoId
  BY DEF Init, Authority!Init, Authority!Unclaimed, Authority!Claim, Authority!Claims,
     Authority!ClaimStates
<1>3. TypeOK
  BY <1>2 DEF Init, TypeOK, Authority!TypeOK, Creators, Positions
<1>4. Shared
  <2>1. \A v \in Volumes : volumes[v] \in {Foreign, NoId}
    BY DEF Init
  <2>2. \A n \in Names : containers[n] = NoContainer
    BY DEF Init
  <2> QED
    BY <1>1, <1>2, <2>1, <2>2, MarksAssumption DEF Init, Shared, AllMinted, LateFresh, NoLate,
       ContainersMade, Present, ClaimsBound, ReceiptsUnowned, LiveIsTracked, BoundToOwn,
       RemovesOnlyOwn, SeenVolumeSurvives, PreexistingVolumeSurvives, FailureNeverLeaksVolume,
       FailureNeverLeaksContainer
<1>5. \A p \in Procs : pc[p] = "idle" /\ run[p] = NoRun
  BY DEF Init
<1>6. Pairs
  BY <1>5, NoRunFields DEF Pairs, OneProvision, Alone, Provisioning
<1>7. ASSUME NEW p \in Procs PROVE Proc(p)
  BY <1>5, NoRunFields DEF Proc, LocalsOK, Provisioning, Early, Fresh, ReservedFirst, IdOwn,
     RetireGone, RmHolds, Unowned, NotFailed, VolumeHeld, ContainerHeld
<1> QED BY <1>3, <1>4, <1>6, <1>7 DEF IInv

LEMMA NextInv == IInv /\ [Next]_vars => IInv'
<1> SUFFICES ASSUME IInv, [Next]_vars PROVE IInv'
  OBVIOUS
<1>1. ASSUME NEW p \in Procs, Call(p), UNCHANGED world PROVE IInv'
  BY <1>1, ProvisionKeeps, RemoveKeeps DEF Call
<1>2. ASSUME NEW p \in Procs, Step(p), UNCHANGED world PROVE IInv'
  BY <1>2, EnsureVolumeKeeps, CreateVolumeKeeps, ReserveKeeps, RunKeeps, InspectKeeps, BindKeeps,
     ActivateKeeps, WaitReadyKeeps, InjectKeeps, InspectForRemovalKeeps, RemoveContainerKeeps,
     RetireKeeps, InspectVolumeKeeps, RemoveVolumeKeeps, EndKeeps DEF Step
<1>3. CASE UNCHANGED vars
  <2>1. TypeOK' /\ Shared' /\ Pairs'
    BY <1>3 DEF vars, IInv, TypeOK, Authority!TypeOK, Shared, AllMinted, LateFresh, NoLate, Uncreated,
       ContainersMade, Present, ClaimsBound, ReceiptsUnowned, LiveIsTracked, BoundToOwn,
       RemovesOnlyOwn, SeenVolumeSurvives, PreexistingVolumeSurvives, FailureNeverLeaksVolume,
       FailureNeverLeaksContainer, Pairs, OneProvision, Alone, Provisioning
  <2>2. ASSUME NEW p \in Procs PROVE Proc(p)'
    BY <1>3 DEF vars, IInv, Proc, LocalsOK, Provisioning, Early, Fresh, Uncreated, ReservedFirst,
       IdOwn, RetireGone, RmHolds, Unowned, NotFailed, VolumeHeld, ContainerHeld
  <2> QED BY <2>1, <2>2 DEF IInv
<1> QED
  BY <1>1, <1>2, <1>3, CrashKeeps, ReconcileKeeps, LateRunKeeps, OperatorRmKeeps DEF Next

(* The inductive invariant holds throughout. *)
THEOREM Invariance == Spec => []IInv
BY InitInv, NextInv, PTL DEF Spec

(* Every variable keeps its type. *)
THEOREM TypeCorrect == Spec => []TypeOK
<1>1. IInv => TypeOK
  BY DEF IInv
<1> QED BY <1>1, Invariance, PTL

(* Intent before creation (reserve before docker run in provider.py): a     *)
(* container that exists has a claim that is not retired, whatever the      *)
(* timeouts, late commands, crashes and racing cleanups.                    *)
THEOREM LiveContainersTracked == Spec => []LiveIsTracked
<1>1. IInv => LiveIsTracked
  BY DEF IInv, Shared
<1> QED BY <1>1, Invariance, PTL

(* A claim is bound only to a container of its own operation, although      *)
(* _inspect_identity goes by name and names are reused.                     *)
THEOREM ClaimsBoundToOwn == Spec => []BoundToOwn
<1>1. IInv => BoundToOwn
  BY DEF IInv, Shared
<1> QED BY <1>1, Invariance, PTL

(* Without overlapping calls and operators, docker rm of _remove_owned      *)
(* removes only containers of the receipt's operation.                      *)
THEOREM RemovalOfOwnOnly == Spec => []RemovesOnlyOwn
<1>1. IInv => RemovesOnlyOwn
  BY DEF IInv, Shared
<1> QED BY <1>1, Invariance, PTL

(* A volume that was there before is never removed as long as docker volume *)
(* inspect fails only on absent volumes (_ensure_data_volume).              *)
THEOREM PreexistingVolumesSurvive == Spec => []SeenVolumeSurvives
<1>1. IInv => SeenVolumeSurvives
  BY DEF IInv, Shared
<1> QED BY <1>1, Invariance, PTL

(* A call that raised a plain error left no volume (_rollback_data_volume,  *)
(* _raise_after_rollback), unless a docker command timed out.               *)
THEOREM NoVolumeLeaks == Spec => []FailureNeverLeaksVolume
<1>1. IInv => FailureNeverLeaksVolume
  BY DEF IInv, Shared
<1> QED BY <1>1, Invariance, PTL

(* A call that raised a plain error left no container, when docker run      *)
(* itself starts a container or leaves none (_raise_after_rollback).        *)
THEOREM NoContainerLeaks == Spec => []FailureNeverLeaksContainer
<1>1. IInv => FailureNeverLeaksContainer
  BY DEF IInv, Shared
<1> QED BY <1>1, Invariance, PTL
=============================================================================
