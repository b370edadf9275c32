------------------------- MODULE VpsProviderProofs -------------------------
(***************************************************************************)
(* VpsProvider keeps its safety properties for any callers, operations and *)
(* plans, in every environment.                                            *)
(***************************************************************************)
EXTENDS VpsProvider, TLAPS

(* Between create_or_load and the last store call of a verb. *)
Active == Positions \ {"idle", "load", "check", "deliver", "settle"}

(* The body of run, up to its terminal commit. *)
Running == {"create", "checkpoint", "ready", "ready_checkpoint", "commit", "undo", "rm"}

Whole == \A x \in Parts : Present(x)

NoneSucceeded == \A o \in RunOps : record[o].lifecycle # "succeeded"

(* The premise of SucceededRuntime. *)
Quiet == world \cap {"docker", "store", "concurrent"} = {} /\ ~Started(DestroyOps)

-----------------------------------------------------------------------------
(* What the position of a call says ... about its locals.                  *)
LocalsOK(p) ==
    LET j == job[p] IN
    /\ pc[p] = "idle" <=> j = NoJob
    /\ j.verb = "run" => j.op \in RunOps
    /\ j.verb \in {"stop", "destroy", "status", "expose"} => j.op \notin RunOps
    /\ j.verb = "expose" => j.op \in ExposeOps
    /\ j.verb = "destroy" => j.op \in DestroyOps
    /\ pc[p] \in {"preflight", "create", "checkpoint", "ready", "ready_checkpoint"} => j.verb = "run"
    /\ pc[p] \in {"undo", "rm"} => j.verb \in {"run", "destroy"}
    /\ pc[p] = "stop" => j.verb = "stop"
    /\ pc[p] = "verify" => j.verb = "expose"
    /\ pc[p] \in {"check", "settle", "deliver"} => j.deploy
    /\ j.deploy => j.verb \in {"run", "expose"} /\ j.runtime \in RunOps
    /\ j.deploy /\ j.verb = "run" => j.runtime = j.op
    /\ j.deploy /\ j.verb = "expose" => j.next = j.op
    /\ pc[p] \in {"load", "preflight"} /\ j.verb = "run" => j.owned = {} /\ j.at = 1
    /\ pc[p] = "rm" => j.target \in j.owned

(* ... about the records it has checked. *)
Checked(p) ==
    /\ pc[p] = "deliver" => /\ ValidTerminal(job[p].op, "succeeded")
                            /\ job[p].verb = "run" => job[p].next = NoOp
    /\ job[p].deploy /\ job[p].verb = "expose" => ValidTerminal(job[p].runtime, "succeeded")

(* ... about what it is about to remove: the id or, while calls do not      *)
(* overlap, the name belongs to the operation of the proof.                 *)
TargetOwn(p) ==
    pc[p] = "rm" =>
        LET c == job[p].target IN
        /\ c.id <= nextId
        /\ Present(c.part) /\ remote[c.part].id = c.id /\ c.part \in Containers =>
               remote[c.part].op = c.op
        /\ Present(c.part) /\ "concurrent" \notin world => remote[c.part].op = c.op

(* ... about the revision it holds: nobody else moves it on. *)
RevisionHeld(p) ==
    world \cap {"store", "concurrent"} = {} =>
        (pc[p] \in Active => Store!Current(job[p].op, job[p].rev))

(* ... about the runtime: what was seen or made is there, and a run that    *)
(* made something is the first to succeed.                                  *)
RuntimeHeld(p) ==
    /\ job[p].verb = "destroy" /\ pc[p] # "load" => Started(DestroyOps)
    /\ Quiet =>
         /\ pc[p] = "create" =>
               /\ \A x \in job[p].seen : Present(x)
               /\ \A i \in 1..Len(PartList) : i < job[p].at => Present(PartList[i])
               /\ NoneSucceeded \/ job[p].seen = Parts
         /\ pc[p] \in {"checkpoint", "ready", "ready_checkpoint"} => Whole
         /\ pc[p] = "commit" /\ job[p].verb = "run" => Whole
         /\ pc[p] \in Running /\ job[p].verb = "run" => NoneSucceeded \/ job[p].owned = {}

Proc(p) == LocalsOK(p) /\ Checked(p) /\ TargetOwn(p) /\ RevisionHeld(p) /\ RuntimeHeld(p)

-----------------------------------------------------------------------------
(* The shared state.                                                       *)
Alone ==
    "concurrent" \notin world =>
        \A p, q \in Procs : pc[p] # "idle" /\ pc[q] # "idle" => p = q

RecordsOK ==
    \A o \in Operations :
        /\ record[o].lifecycle \in Store!PostCommitStates <=> record[o].outcome # "none"
        /\ Store!ValidRecord(record[o])
        /\ record[o].lifecycle = "none" => record[o] = Store!NoRecord

IdsHandedOut == \A x \in Parts : remote[x].id <= nextId

(* Operations with a mutation of unknown outcome in the body of their verb. *)
InBody == {o \in Operations : <<o, "body">> \in unknown}

(* An unknown outcome that is not on record yet is about to be marked. *)
UnknownHeld ==
    world \cap {"crash", "store", "concurrent"} = {} =>
        \A o \in InBody :
            \/ Store!LifecycleOrder[record[o].lifecycle] >= 2
            \/ \E p \in Procs : pc[p] = "mark" /\ job[p].op = o

Shared ==
    /\ RecordsOK /\ IdsHandedOut /\ UnknownHeld
    /\ SucceededRuntime /\ CompensatesOnlyOwn /\ ReceiptsAgree

(* The inductive invariant. *)
IInv == TypeOK /\ Shared /\ Alone /\ \A p \in Procs : Proc(p)

-----------------------------------------------------------------------------
(* Steps, without their records.                                           *)

(* Only the call of p moves. *)
Turn(p) ==
    /\ pc' \in [Procs -> Positions] /\ job' \in [Procs -> Jobs \cup {NoJob}]
    /\ \A q \in Procs : q # p => pc'[q] = pc[q] /\ job'[q] = job[q]

(* It moves on to position l, in the same verb of the same operation. *)
Moves(p, l) ==
    /\ Turn(p) /\ pc'[p] = l /\ job'[p] \in Jobs
    /\ job'[p].verb = job[p].verb /\ job'[p].op = job[p].op /\ job'[p].deploy = job[p].deploy
    /\ job'[p].runtime = job[p].runtime /\ job'[p].next = job[p].next

(* It is over. *)
Ends(p) == Turn(p) /\ pc'[p] = "idle" /\ job'[p] = NoJob

LEMMA NoJobFields ==
    /\ NoJob.verb = "none" /\ NoJob.op = NoOp /\ NoJob.deploy = FALSE /\ NoJob.owned = {}
    /\ NoJob \notin Jobs
BY DEF NoJob, Jobs, Verbs

LEMMA JobFields ==
    ASSUME NEW j \in Jobs
    PROVE  /\ j.verb \in Verbs /\ j.op \in Operations /\ j.deploy \in BOOLEAN
           /\ j.runtime \in RunOps \cup {NoOp} /\ j.next \in ExposeOps \cup {NoOp}
           /\ j.rev \in Nat /\ j.seen \in SUBSET Parts /\ j.at \in 1..Len(PartList)
           /\ j.owned \in SUBSET Owned /\ j.target \in Owned \cup {NoTarget}
           /\ j # NoJob
<1>1. j # NoJob
  BY NoJobFields
<1> QED BY <1>1 DEF Jobs

LEMMA OwnedFields ==
    ASSUME NEW c \in Owned
    PROVE  c.part \in Parts /\ c.id \in 0..MaxId /\ c.op \in RunOps /\ c.op \in Operations
BY DEF Owned, Operations

LEMMA ResourceFields ==
    ASSUME NEW r \in Resources
    PROVE  /\ r.op \in Operations \cup {Foreign} /\ r.id \in 0..MaxId
           /\ r.up \in BOOLEAN /\ r # Absent
BY OperationsAssumption DEF Resources, Absent

LEMMA Busy ==
    ASSUME TypeOK, NEW p \in Procs, LocalsOK(p), pc[p] # "idle"
    PROVE  /\ job[p] \in Jobs /\ job[p].verb \in Verbs /\ job[p].op \in Operations
           /\ job[p].deploy \in BOOLEAN
           /\ job[p].runtime \in RunOps \cup {NoOp} /\ job[p].next \in ExposeOps \cup {NoOp}
           /\ job[p].rev \in Nat /\ job[p].seen \in SUBSET Parts
           /\ job[p].at \in 1..Len(PartList) /\ job[p].owned \in SUBSET Owned
           /\ job[p].target \in Owned \cup {NoTarget}
<1>1. job[p] \in Jobs
  BY DEF TypeOK, LocalsOK
<1> QED BY <1>1, JobFields

LEMMA TurnWith ==
    ASSUME TypeOK, NEW p \in Procs, NEW l \in Positions, NEW j \in Jobs \cup {NoJob},
           Goto(p, l), With(p, j)
    PROVE  Turn(p) /\ pc'[p] = l /\ job'[p] = j
BY DEF TypeOK, Goto, With, Turn

LEMMA MovesWith ==
    ASSUME TypeOK, NEW p \in Procs, NEW l \in Positions, NEW j \in Jobs, Goto(p, l), With(p, j),
           j.verb = job[p].verb, j.op = job[p].op, j.deploy = job[p].deploy,
           j.runtime = job[p].runtime, j.next = job[p].next
    PROVE  Moves(p, l) /\ job'[p] = j
BY TurnWith DEF Moves

LEMMA MovesOn ==
    ASSUME TypeOK, NEW p \in Procs, job[p] \in Jobs, NEW l \in Positions,
           Goto(p, l), UNCHANGED job
    PROVE  Moves(p, l) /\ job'[p] = job[p]
<1>1. With(p, job[p])
  BY DEF TypeOK, With
<1> QED BY <1>1, MovesWith

LEMMA IdleEnds ==
    ASSUME TypeOK, NEW p \in Procs, Idle(p)
    PROVE  Ends(p)
BY TurnWith DEF Idle, Ends, Positions

(* A verb that returns or raises is over, or its deployment goes on. *)
LEMMA ReturnEnds ==
    ASSUME TypeOK, NEW p \in Procs, job[p] \in Jobs, Return(p)
    PROVE  Ends(p) \/ (Moves(p, "check") /\ job'[p] = job[p] /\ job[p].deploy)
BY MovesOn, IdleEnds DEF Return, Positions

LEMMA RaiseEnds ==
    ASSUME TypeOK, NEW p \in Procs, job[p] \in Jobs, Raise(p)
    PROVE  Ends(p) \/ (Moves(p, "settle") /\ job'[p] = job[p] /\ job[p].deploy)
BY MovesOn, IdleEnds DEF Raise, Positions

(* Assignments to locals. *)
LEMMA SetRev ==
    ASSUME NEW j \in Jobs, NEW n \in Nat
    PROVE  LET u == [j EXCEPT !.rev = n] IN
           /\ u \in Jobs /\ u.rev = n
           /\ u.verb = j.verb /\ u.op = j.op /\ u.deploy = j.deploy /\ u.runtime = j.runtime /\ u.next = j.next
           /\ u.seen = j.seen /\ u.at = j.at /\ u.owned = j.owned /\ u.inner = j.inner /\ u.target = j.target
BY DEF Jobs

LEMMA SetSeen ==
    ASSUME NEW j \in Jobs, NEW s \in SUBSET Parts
    PROVE  LET u == [j EXCEPT !.seen = s] IN
           /\ u \in Jobs /\ u.seen = s
           /\ u.verb = j.verb /\ u.op = j.op /\ u.deploy = j.deploy /\ u.runtime = j.runtime /\ u.next = j.next
           /\ u.rev = j.rev /\ u.at = j.at /\ u.owned = j.owned /\ u.inner = j.inner /\ u.target = j.target
BY DEF Jobs

LEMMA SetAtOwned ==
    ASSUME NEW j \in Jobs, NEW i \in 1..Len(PartList), NEW s \in SUBSET Owned
    PROVE  LET u == [j EXCEPT !.at = i, !.owned = s] IN
           /\ u \in Jobs /\ u.at = i /\ u.owned = s
           /\ u.verb = j.verb /\ u.op = j.op /\ u.deploy = j.deploy /\ u.runtime = j.runtime /\ u.next = j.next
           /\ u.rev = j.rev /\ u.seen = j.seen /\ u.inner = j.inner /\ u.target = j.target
BY DEF Jobs

LEMMA SetInner ==
    ASSUME NEW j \in Jobs
    PROVE  LET u == [j EXCEPT !.inner = TRUE] IN
           /\ u \in Jobs /\ u.inner = TRUE
           /\ u.verb = j.verb /\ u.op = j.op /\ u.deploy = j.deploy /\ u.runtime = j.runtime /\ u.next = j.next
           /\ u.rev = j.rev /\ u.seen = j.seen /\ u.at = j.at /\ u.owned = j.owned /\ u.target = j.target
BY DEF Jobs

LEMMA SetOwned ==
    ASSUME NEW j \in Jobs, NEW s \in SUBSET Owned
    PROVE  LET u == [j EXCEPT !.owned = s] IN
           /\ u \in Jobs /\ u.owned = s
           /\ u.verb = j.verb /\ u.op = j.op /\ u.deploy = j.deploy /\ u.runtime = j.runtime /\ u.next = j.next
           /\ u.rev = j.rev /\ u.seen = j.seen /\ u.at = j.at /\ u.inner = j.inner /\ u.target = j.target
BY DEF Jobs

LEMMA SetTarget ==
    ASSUME NEW j \in Jobs, NEW c \in Owned
    PROVE  LET u == [j EXCEPT !.target = c] IN
           /\ u \in Jobs /\ u.target = c
           /\ u.verb = j.verb /\ u.op = j.op /\ u.deploy = j.deploy /\ u.runtime = j.runtime /\ u.next = j.next
           /\ u.rev = j.rev /\ u.seen = j.seen /\ u.at = j.at /\ u.owned = j.owned /\ u.inner = j.inner
BY DEF Jobs

LEMMA SetOwnedTarget ==
    ASSUME NEW j \in Jobs, NEW s \in SUBSET Owned
    PROVE  LET u == [j EXCEPT !.owned = s, !.target = NoTarget] IN
           /\ u \in Jobs /\ u.owned = s /\ u.target = NoTarget
           /\ u.verb = j.verb /\ u.op = j.op /\ u.deploy = j.deploy /\ u.runtime = j.runtime /\ u.next = j.next
           /\ u.rev = j.rev /\ u.seen = j.seen /\ u.at = j.at /\ u.inner = j.inner
BY DEF Jobs
-----------------------------------------------------------------------------
(* The store's contract.                                                   *)
LEMMA Ranks ==
  /\ DOMAIN Store!LifecycleOrder =
        {"none", "accepted", "in_progress", "reconciliation_required", "terminal_pending",
         "succeeded", "failed", "cleanup_required", "closed"}
  /\ Store!LifecycleOrder["none"] = 0 /\ Store!LifecycleOrder["accepted"] = 0
  /\ Store!LifecycleOrder["in_progress"] = 1
  /\ Store!LifecycleOrder["reconciliation_required"] = 2
  /\ Store!LifecycleOrder["terminal_pending"] = 3
  /\ Store!LifecycleOrder["succeeded"] = 4 /\ Store!LifecycleOrder["failed"] = 4
  /\ Store!LifecycleOrder["cleanup_required"] = 5 /\ Store!LifecycleOrder["closed"] = 6
  BY DEF Store!LifecycleOrder

LEMMA RecordFields ==
    ASSUME NEW r \in Store!Records
    PROVE  /\ r.lifecycle \in {"none", "accepted", "in_progress", "reconciliation_required",
                 "terminal_pending", "succeeded", "failed", "cleanup_required", "closed"}
           /\ r.revision \in Nat /\ r.outcome \in {"succeeded", "failed", "none"}
           /\ r.residual \in BOOLEAN
BY Ranks DEF Store!Records, Store!TerminalOutcomes

(* What a store call may do to one record. *)
Forward(r, s) ==
    /\ Store!LifecycleOrder[s.lifecycle] >= Store!LifecycleOrder[r.lifecycle]
    /\ s.lifecycle \in Store!PostCommitStates <=> s.outcome # "none"
    /\ Store!ValidRecord(s)
    /\ r.outcome # "none" => s.outcome = r.outcome /\ s.residual = r.residual
    /\ s.lifecycle = "none" => s = Store!NoRecord /\ r = s

(* A store call for operation o. *)
Writes(o) ==
    /\ record' \in [Operations -> Store!Records]
    /\ \A x \in Operations : x # o => record'[x] = record[x]
    /\ Forward(record[o], record'[o])

LEMMA ForwardSame ==
    ASSUME TypeOK, RecordsOK, NEW o \in Operations
    PROVE  Forward(record[o], record[o])
<1>1. record[o] \in Store!Records
  BY DEF TypeOK, Store!TypeOK
<1>2. Store!LifecycleOrder[record[o].lifecycle] \in Nat
  BY <1>1, RecordFields, Ranks
<1> QED BY <1>2 DEF RecordsOK, Forward

LEMMA LoadWrites ==
    ASSUME TypeOK, RecordsOK, NEW o \in Operations, Store!CreateOrLoad(o)
    PROVE  /\ Writes(o) /\ record'[o].lifecycle # "none"
           /\ record'[o].lifecycle \in {record[o].lifecycle, "accepted"}
<1>1. /\ record \in [Operations -> Store!Records] /\ record[o] \in Store!Records
  BY DEF TypeOK, Store!TypeOK
<1> DEFINE s == [Store!NoRecord EXCEPT !.lifecycle = "accepted"]
<1>2. s \in Store!Records /\ s.lifecycle = "accepted" /\ s.outcome = "none"
  BY Ranks DEF Store!Records, Store!NoRecord
<1>3. Store!NoRecord.lifecycle = "none" /\ Store!NoRecord.outcome = "none"
  BY DEF Store!NoRecord
<1> HIDE DEF s
<1>4. CASE record[o] = Store!NoRecord
  <2>1. record' = [record EXCEPT ![o] = s]
    BY <1>1, <1>4 DEF Store!CreateOrLoad, s
  <2>2. Forward(record[o], s)
    BY <1>2, <1>3, <1>4, Ranks DEF Forward, Store!PostCommitStates, Store!TerminalOutcomes,
       Store!ValidRecord
  <2> QED BY <1>1, <1>2, <2>1, <2>2 DEF Writes
<1>5. CASE record[o] # Store!NoRecord
  <2>1. record' = record
    BY <1>1, <1>5 DEF Store!CreateOrLoad
  <2>2. record[o].lifecycle # "none"
    BY <1>5 DEF RecordsOK
  <2> QED BY <1>1, <2>1, <2>2, ForwardSame DEF Writes
<1> QED BY <1>4, <1>5

(* A write of record t, but for its revision. *)
LEMMA WriteWrites ==
    ASSUME TypeOK, NEW o \in Operations, NEW rev \in Nat, NEW t \in Store!Records,
           Store!Write(o, rev, t), Forward(record[o], t), t.lifecycle # "none"
    PROVE  /\ Writes(o) /\ record'[o].lifecycle = t.lifecycle
           /\ record'[o].revision = rev + 1
<1> DEFINE s == [t EXCEPT !.revision = rev + 1]
<1>1. /\ s \in Store!Records /\ s.lifecycle = t.lifecycle /\ s.outcome = t.outcome
      /\ s.residual = t.residual /\ s.revision = rev + 1
  BY DEF Store!Records
<1>2. record' = [record EXCEPT ![o] = s] /\ record \in [Operations -> Store!Records]
  BY DEF Store!Write, TypeOK, Store!TypeOK
<1> HIDE DEF s
<1>3. Forward(record[o], s)
  BY <1>1 DEF Forward, Store!ValidRecord
<1> QED BY <1>1, <1>2, <1>3 DEF Writes

LEMMA CheckpointWrites ==
    ASSUME TypeOK, RecordsOK, NEW o \in Operations, NEW rev \in Nat, Store!SaveCheckpoint(o, rev)
    PROVE  /\ Writes(o) /\ record'[o].lifecycle \notin {"none", "succeeded", "failed"}
           /\ record'[o].revision = rev + 1
<1> DEFINE r == record[o]
           l == IF Store!Advances(r.lifecycle, "in_progress") THEN "in_progress" ELSE r.lifecycle
           t == [r EXCEPT !.checkpoint = TRUE, !.lifecycle = l]
<1>1. /\ r \in Store!Records /\ r.outcome = "none" /\ r.lifecycle # "none"
      /\ r.lifecycle \notin Store!PostCommitStates
  BY DEF TypeOK, Store!TypeOK, Store!SaveCheckpoint, Store!MayCheckpoint, Store!Committed,
     Store!Current, RecordsOK
<1>2. l \in DOMAIN Store!LifecycleOrder
  BY <1>1, Ranks DEF Store!Records
<1>3. /\ l # "none" /\ l \notin Store!PostCommitStates
      /\ Store!LifecycleOrder[l] >= Store!LifecycleOrder[r.lifecycle]
  BY <1>1, Ranks, RecordFields DEF Store!Advances, Store!PostCommitStates, Store!TerminalOutcomes
<1> HIDE DEF l
<1>4. /\ t \in Store!Records /\ t.lifecycle = l /\ t.outcome = r.outcome
      /\ t.residual = r.residual
  BY <1>1, <1>2 DEF Store!Records
<1>5. Store!Write(o, rev, t)
  BY DEF Store!SaveCheckpoint, l
<1> HIDE DEF t
<1>6. Forward(r, t)
  BY <1>1, <1>3, <1>4 DEF Forward, Store!ValidRecord
<1> QED
  BY <1>3, <1>4, <1>5, <1>6, WriteWrites DEF Store!PostCommitStates, Store!TerminalOutcomes

LEMMA MarkWrites ==
    ASSUME TypeOK, RecordsOK, NEW o \in Operations, NEW rev \in Nat,
           Store!MarkReconciliationRequired(o, rev)
    PROVE  Writes(o) /\ record'[o].lifecycle = "reconciliation_required"
<1> DEFINE r == record[o]
           t == [r EXCEPT !.lifecycle = "reconciliation_required"]
<1>1. /\ r \in Store!Records /\ Store!Advances(r.lifecycle, "reconciliation_required")
      /\ r.lifecycle \in Store!PostCommitStates <=> r.outcome # "none"
  BY DEF TypeOK, Store!TypeOK, Store!MarkReconciliationRequired, Store!MayMark, RecordsOK
<1>2. /\ t \in Store!Records /\ t.lifecycle = "reconciliation_required" /\ t.outcome = r.outcome
      /\ t.residual = r.residual
  BY <1>1, Ranks DEF Store!Records
<1>3. /\ r.outcome = "none"
      /\ Store!LifecycleOrder["reconciliation_required"] >= Store!LifecycleOrder[r.lifecycle]
  BY <1>1, Ranks, RecordFields DEF Store!Advances, Store!PostCommitStates, Store!TerminalOutcomes
<1>4. Store!Write(o, rev, t)
  BY DEF Store!MarkReconciliationRequired
<1> HIDE DEF t
<1>5. Forward(r, t)
  BY <1>2, <1>3 DEF Forward, Store!ValidRecord, Store!PostCommitStates, Store!TerminalOutcomes
<1> QED BY <1>2, <1>4, <1>5, WriteWrites

LEMMA CommitWrites ==
    ASSUME TypeOK, RecordsOK, NEW o \in Operations, NEW rev \in Nat,
           NEW l \in {"succeeded", "failed"}, Store!CommitTerminal(o, rev, l, FALSE)
    PROVE  Writes(o) /\ record'[o].lifecycle = l /\ record'[o] # record[o]
<1> DEFINE r == record[o]
           t == [r EXCEPT !.outcome = l, !.residual = FALSE, !.lifecycle = l]
<1>1. /\ r \in Store!Records /\ r.outcome = "none" /\ r.revision = rev
      /\ r.lifecycle \notin Store!PostCommitStates
  BY DEF TypeOK, Store!TypeOK, Store!CommitTerminal, Store!MayCommit, Store!Committed,
     Store!Current, RecordsOK
<1>2. /\ t \in Store!Records /\ t.lifecycle = l /\ t.outcome = l /\ t.residual = FALSE
  BY <1>1, Ranks DEF Store!Records, Store!TerminalOutcomes
<1>3. Store!LifecycleOrder[l] >= Store!LifecycleOrder[r.lifecycle]
  BY <1>1, Ranks, RecordFields DEF Store!PostCommitStates, Store!TerminalOutcomes
<1>4. Store!Write(o, rev, t)
  BY DEF Store!CommitTerminal
<1> HIDE DEF t
<1>5. Forward(r, t)
  BY <1>1, <1>2, <1>3 DEF Forward, Store!ValidRecord, Store!PostCommitStates,
     Store!TerminalOutcomes
<1> QED BY <1>1, <1>2, <1>4, <1>5, WriteWrites DEF Store!PostCommitStates, Store!TerminalOutcomes

StoreStep == UNCHANGED record \/ \E o \in Operations : Writes(o)

(* What was recorded stays recorded. *)
LEMMA StoreKeeps ==
    ASSUME TypeOK, RecordsOK, StoreStep
    PROVE  /\ Store!TypeOK' /\ RecordsOK'
           /\ \A o \in Operations : Forward(record[o], record'[o])
           /\ \A o \in Operations : record[o].lifecycle # "none" => record'[o].lifecycle # "none"
           /\ \A o \in Operations, l \in {"succeeded", "failed"} :
                 ValidTerminal(o, l) => ValidTerminal(o, l)'
           /\ Started(DestroyOps) => Started(DestroyOps)'
           /\ NoneSucceeded' => NoneSucceeded
<1>1. /\ Store!TypeOK'
      /\ \A o \in Operations : Forward(record[o], record'[o])
  BY ForwardSame DEF StoreStep, Writes, TypeOK, Store!TypeOK
<1>2. \A o \in Operations : record[o] \in Store!Records /\ record'[o] \in Store!Records
  BY <1>1 DEF TypeOK, Store!TypeOK
<1>3. RecordsOK'
  BY <1>1 DEF RecordsOK, Forward
<1>4. \A o \in Operations : record[o].lifecycle # "none" => record'[o].lifecycle # "none"
  BY <1>1 DEF Forward
<1>5. \A o \in Operations, l \in {"succeeded", "failed"} :
          ValidTerminal(o, l) => ValidTerminal(o, l)'
  BY <1>1, <1>2 DEF ValidTerminal, Forward, Store!ValidRecord
<1>6. Started(DestroyOps) => Started(DestroyOps)'
  BY <1>4 DEF Started, Operations
<1>7. ASSUME NEW o \in RunOps, record[o].lifecycle = "succeeded"
      PROVE  record'[o].lifecycle = "succeeded"
  <2>1. o \in Operations
    BY DEF Operations
  <2>2. record[o].outcome # "none" /\ ~record[o].residual /\ record[o].outcome = "succeeded"
    <3>1. record[o].outcome # "none" /\ Store!ValidRecord(record[o])
      BY <1>7, <2>1 DEF RecordsOK, Store!PostCommitStates, Store!TerminalOutcomes
    <3> QED BY <1>2, <1>7, <2>1, <3>1, RecordFields DEF Store!ValidRecord
  <2> QED BY <1>1, <2>1, <2>2 DEF Forward, Store!ValidRecord
<1> QED BY <1>1, <1>3, <1>4, <1>5, <1>6, <1>7 DEF NoneSucceeded

(* Containers keep their id and operation, and new ones get new ids. *)
HostKept ==
    /\ nextId' \in Nat /\ nextId <= nextId'
    /\ \A x \in Containers : Present(x)' =>
          \/ /\ Present(x) /\ remote'[x].id = remote[x].id /\ remote'[x].op = remote[x].op
          \/ remote'[x].id \in Nat /\ remote'[x].id > nextId

LEMMA OthersKeep ==
    ASSUME IInv, NEW p \in Procs, Turn(p), UNCHANGED world, StoreStep, HostKept,
           NEW q \in Procs, q # p, "concurrent" \notin world => pc[q] = "idle"
    PROVE  Proc(q)'
<1>1. pc'[q] = pc[q] /\ job'[q] = job[q] /\ Proc(q)
  BY DEF Turn, IInv
<1>2. pc[q] # "idle" => /\ job[q] \in Jobs /\ job[q].op \in Operations
                        /\ job[q].owned \in SUBSET Owned
  BY <1>1, Busy DEF IInv, Proc
<1>3. LocalsOK(q)'
  BY <1>1 DEF Proc, LocalsOK
<1>4. Checked(q)'
  <2>1. pc[q] = "deliver" => ValidTerminal(job[q].op, "succeeded")'
    BY <1>1, <1>2, StoreKeeps DEF IInv, Shared, Proc, Checked
  <2>2. job[q].deploy /\ job[q].verb = "expose" =>
           ValidTerminal(job[q].runtime, "succeeded")'
    <3>1. job[q].deploy => job[q].runtime \in Operations
      BY <1>1 DEF Proc, LocalsOK, Operations
    <3> QED BY <1>1, <3>1, StoreKeeps DEF IInv, Shared, Proc, Checked
  <2> QED BY <1>1, <2>1, <2>2 DEF Proc, Checked, ValidTerminal
<1>5. TargetOwn(q)'
  <2> SUFFICES ASSUME pc[q] = "rm" PROVE TargetOwn(q)'
    BY <1>1 DEF TargetOwn
  <2>1. PICK c \in Owned : c = job[q].target /\ c.id \in 0..MaxId /\ c.part \in Parts
    BY <1>1, <1>2, OwnedFields DEF Proc, LocalsOK
  <2>2. nextId \in Nat /\ c.id \in Nat
    BY <2>1, BoundsAssumption DEF IInv, TypeOK
  <2>3. "concurrent" \in world
    OBVIOUS
  <2>4. c.id <= nextId /\ (Present(c.part) /\ remote[c.part].id = c.id /\ c.part \in Containers =>
               remote[c.part].op = c.op)
    BY <1>1, <2>1 DEF Proc, TargetOwn
  <2>5. Present(c.part)' /\ remote'[c.part].id = c.id /\ c.part \in Containers =>
               remote'[c.part].op = c.op
    BY <2>2, <2>4 DEF HostKept
  <2>6. c.id <= nextId'
    BY <2>2, <2>4 DEF HostKept
  <2> QED BY <1>1, <2>1, <2>3, <2>5, <2>6 DEF TargetOwn, Present
<1>6. RevisionHeld(q)' /\ RuntimeHeld(q)'
  <2>1. job[q].verb = "destroy" /\ pc[q] # "load" => Started(DestroyOps)'
    BY <1>1, StoreKeeps DEF IInv, Shared, Proc, RuntimeHeld
  <2> QED
    BY <1>1, <2>1 DEF RevisionHeld, RuntimeHeld, Active, Running, Quiet, Started
<1> QED BY <1>3, <1>4, <1>5, <1>6 DEF Proc

LEMMA BodyKeeps ==
    ASSUME IInv, NEW p \in Procs, Turn(p), UNCHANGED world, InBody' = InBody, StoreStep,
           pc[p] # "mark" \/ "crash" \in world
    PROVE  UnknownHeld'
<1> SUFFICES ASSUME world \cap {"crash", "store", "concurrent"} = {}, NEW o \in InBody
             PROVE  \/ Store!LifecycleOrder[record'[o].lifecycle] >= 2
                    \/ \E q \in Procs : pc'[q] = "mark" /\ job'[q].op = o
  BY DEF UnknownHeld
<1>1. o \in Operations /\ pc[p] # "mark"
  BY DEF InBody
<1>2. CASE Store!LifecycleOrder[record[o].lifecycle] >= 2
  <2>1. Store!LifecycleOrder[record'[o].lifecycle] >= Store!LifecycleOrder[record[o].lifecycle]
    BY <1>1, StoreKeeps DEF IInv, Shared, Forward
  <2>2. /\ Store!LifecycleOrder[record[o].lifecycle] \in Nat
        /\ Store!LifecycleOrder[record'[o].lifecycle] \in Nat
    <3>1. record[o] \in Store!Records /\ record'[o] \in Store!Records
      BY <1>1, StoreKeeps DEF IInv, Shared, TypeOK, Store!TypeOK
    <3> QED BY <3>1, RecordFields, Ranks
  <2> QED BY <1>2, <2>1, <2>2
<1>3. CASE \E q \in Procs : pc[q] = "mark" /\ job[q].op = o
  BY <1>1, <1>3 DEF Turn
<1> QED BY <1>2, <1>3 DEF IInv, Shared, UnknownHeld

LEMMA UnknownKeeps ==
    ASSUME IInv, NEW p \in Procs, Turn(p), UNCHANGED <<world, unknown>>, StoreStep,
           pc[p] # "mark" \/ "crash" \in world
    PROVE  UnknownHeld'
<1>1. InBody' = InBody
  BY DEF InBody
<1> QED BY <1>1, BodyKeeps

LEMMA RuntimeKeeps ==
    ASSUME IInv, UNCHANGED world, StoreStep, NoneSucceeded => NoneSucceeded',
           \A x \in Parts : Present(x) => Present(x)'
    PROVE  SucceededRuntime'
<1>1. NoneSucceeded \/ ~Quiet \/ Whole
  BY DEF IInv, Shared, SucceededRuntime, NoneSucceeded, Quiet, Whole
<1>2. Quiet' => Quiet
  BY StoreKeeps DEF IInv, Shared, Quiet
<1>3. NoneSucceeded' \/ ~Quiet' \/ Whole'
  BY <1>1, <1>2 DEF Whole
<1> QED BY <1>3 DEF SucceededRuntime, NoneSucceeded, Quiet, Whole

LEMMA ReceiptsKeep ==
    ASSUME IInv, StoreStep, UNCHANGED receipts
    PROVE  ReceiptsAgree'
<1>1. ASSUME NEW r \in receipts
      PROVE  /\ r.runtime \in Operations /\ r.exposure \in Operations \cup {NoOp}
             /\ r.outcome \in {"succeeded", "failed"}
  BY DEF IInv, TypeOK, Receipts, Operations
<1> QED BY <1>1, StoreKeeps DEF IInv, Shared, ReceiptsAgree

(* A step of a busy caller: what is left to show. *)
LEMMA StepKeeps ==
    ASSUME IInv, NEW p \in Procs, pc[p] # "idle", Turn(p), UNCHANGED world, StoreStep, HostKept,
           TypeOK', Proc(p)', IdsHandedOut', UnknownHeld', SucceededRuntime', CompensatesOnlyOwn',
           ReceiptsAgree'
    PROVE  IInv'
<1>1. ASSUME NEW q \in Procs, q # p PROVE Proc(q)'
  BY <1>1, OthersKeep DEF IInv, Alone
<1>2. Alone'
  BY DEF IInv, Alone, Turn
<1> QED BY <1>1, <1>2, StoreKeeps DEF IInv, Shared

(* A step that leaves host and books alone. *)
LEMMA QuietStepKeeps ==
    ASSUME IInv, NEW p \in Procs, pc[p] # "idle", Turn(p), UNCHANGED <<world, calls, host, receipts, unknown>>,
           StoreStep, (NoneSucceeded => NoneSucceeded') \/ SucceededRuntime', kept' \subseteq Owned,
           pc[p] # "mark" \/ "crash" \in world \/ UnknownHeld', Proc(p)'
    PROVE  IInv'
<1> USE DEF host
<1>1. HostKept
  BY DEF HostKept, Present, IInv, TypeOK
<1>2. TypeOK'
  BY StoreKeeps DEF IInv, Shared, TypeOK, Turn
<1>3. IdsHandedOut' /\ CompensatesOnlyOwn'
  BY DEF IInv, Shared, IdsHandedOut, CompensatesOnlyOwn
<1>4. SucceededRuntime'
  BY RuntimeKeeps DEF Present
<1>5. UnknownHeld'
  BY UnknownKeeps
<1> QED BY <1>1, <1>2, <1>3, <1>4, <1>5, ReceiptsKeep, StepKeeps

(* A call that is over, or whose deployment goes on to look at the record. *)
Rests(p) ==
    \/ Ends(p)
    \/ \E l \in {"check", "settle"} : Moves(p, l) /\ job'[p] = job[p] /\ job[p].deploy

LEMMA RestsProc ==
    ASSUME IInv, NEW p \in Procs, pc[p] # "idle", Rests(p), UNCHANGED world, StoreStep
    PROVE  Turn(p) /\ Proc(p)'
<1>1. CASE Ends(p)
  BY <1>1, NoJobFields DEF Ends, Proc, LocalsOK, Checked, TargetOwn, RevisionHeld, RuntimeHeld,
     Active, Running
<1>2. ASSUME NEW l \in {"check", "settle"}, Moves(p, l), job'[p] = job[p], job[p].deploy
      PROVE  Turn(p) /\ Proc(p)'
  <2>1. Proc(p) /\ pc'[p] = l /\ Turn(p) /\ job[p] \in Jobs /\ job[p].runtime \in Operations
    BY <1>2, Busy DEF IInv, Proc, LocalsOK, Moves, Operations
  <2>2. job[p] # NoJob
    BY <2>1, JobFields
  <2>3. LocalsOK(p)'
    BY <1>2, <2>1, <2>2 DEF Proc, LocalsOK
  <2>4. Checked(p)'
    <3>1. \A o \in Operations : ValidTerminal(o, "succeeded") => ValidTerminal(o, "succeeded")'
      BY StoreKeeps DEF IInv, Shared
    <3> QED BY <1>2, <2>1, <3>1 DEF Proc, Checked, ValidTerminal
  <2> QED
    BY <1>2, <2>1, <2>3, <2>4 DEF Proc, LocalsOK, TargetOwn, RevisionHeld, RuntimeHeld, Active,
       Running
<1> QED BY <1>1, <1>2 DEF Rests

(* A call that goes on to its next remote command or store call. *)
LEMMA AdvanceProc ==
    ASSUME IInv, NEW p \in Procs, NEW l \in Active, pc[p] \in Active \cup {"load"}, Moves(p, l),
           UNCHANGED world, StoreStep, Quiet /\ NoneSucceeded => NoneSucceeded', RevisionHeld(p)',
           l = "stop" => job[p].verb = "stop", l = "verify" => job[p].verb = "expose",
           l = "preflight" => job[p].verb = "run" /\ job'[p].owned = {} /\ job'[p].at = 1,
           l \in {"create", "checkpoint", "ready", "ready_checkpoint"} => job[p].verb = "run",
           l \in {"undo", "rm"} => job[p].verb \in {"run", "destroy"},
           l = "rm" => job'[p].target \in job'[p].owned /\ TargetOwn(p)',
           job[p].verb = "destroy" => Started(DestroyOps)',
           Quiet =>
             /\ l = "create" =>
                  /\ \A x \in job'[p].seen : Present(x)'
                  /\ \A i \in 1..Len(PartList) : i < job'[p].at => Present(PartList[i])'
                  /\ NoneSucceeded \/ job'[p].seen = Parts
             /\ l \in {"checkpoint", "ready", "ready_checkpoint"} => Whole'
             /\ l = "commit" /\ job[p].verb = "run" => Whole'
             /\ l \in Running /\ job[p].verb = "run" => NoneSucceeded \/ job'[p].owned = {}
    PROVE  Proc(p)'
<1>1. /\ Turn(p) /\ pc'[p] = l /\ job'[p] \in Jobs /\ job'[p] # NoJob /\ Proc(p) /\ pc[p] # "idle"
      /\ job'[p].verb = job[p].verb /\ job'[p].op = job[p].op /\ job'[p].deploy = job[p].deploy
      /\ job'[p].runtime = job[p].runtime /\ job'[p].next = job[p].next
      /\ l \notin {"idle", "load", "check", "deliver", "settle"} /\ pc[p] # "deliver"
  BY JobFields DEF Moves, IInv, Active
<1>2. LocalsOK(p)'
  BY <1>1 DEF Proc, LocalsOK
<1>3. Checked(p)'
  <2>1. job[p].deploy => job[p].runtime \in Operations
    BY <1>1 DEF Proc, LocalsOK, Operations
  <2>2. \A o \in Operations : ValidTerminal(o, "succeeded") => ValidTerminal(o, "succeeded")'
    BY StoreKeeps DEF IInv, Shared
  <2> QED BY <1>1, <2>1, <2>2 DEF Proc, Checked, ValidTerminal
<1>4. TargetOwn(p)'
  BY <1>1 DEF TargetOwn
<1>5. RuntimeHeld(p)'
  <2>1. Quiet' => Quiet
    BY StoreKeeps DEF IInv, Shared, Quiet
  <2>2. job'[p].seen \in SUBSET Parts /\ \A i \in 1..Len(PartList) : PartList[i] \in Parts
    BY <1>1, JobFields DEF Parts
  <2> QED BY <1>1, <2>1, <2>2 DEF RuntimeHeld
<1> QED BY <1>2, <1>3, <1>4, <1>5 DEF Proc

(* The same, when only the locals change. *)
LEMMA AdvanceKeeps ==
    ASSUME IInv, NEW p \in Procs, NEW l \in Active, pc[p] \in Active, pc[p] # "mark", Moves(p, l),
           UNCHANGED <<world, calls, record, host, books>>, job'[p].rev = job[p].rev,
           l \notin {"preflight", "stop", "verify"},
           l \in {"create", "checkpoint", "ready", "ready_checkpoint"} => job[p].verb = "run",
           l \in {"undo", "rm"} => job[p].verb \in {"run", "destroy"},
           l = "rm" => job'[p].target \in job'[p].owned /\ TargetOwn(p)',
           Quiet =>
             /\ l = "create" =>
                  /\ \A x \in job'[p].seen : Present(x)
                  /\ \A i \in 1..Len(PartList) : i < job'[p].at => Present(PartList[i])
                  /\ NoneSucceeded \/ job'[p].seen = Parts
             /\ l \in {"checkpoint", "ready", "ready_checkpoint"} => Whole
             /\ l = "commit" /\ job[p].verb = "run" => Whole
             /\ l \in Running /\ job[p].verb = "run" => NoneSucceeded \/ job'[p].owned = {}
    PROVE  IInv'
<1> USE DEF host, books
<1>1. /\ Turn(p) /\ Proc(p) /\ pc[p] \notin {"idle", "load"} /\ job'[p].op = job[p].op
      /\ StoreStep /\ (NoneSucceeded => NoneSucceeded') /\ kept' \subseteq Owned
  BY DEF Moves, IInv, TypeOK, Active, StoreStep, NoneSucceeded
<1>2. RevisionHeld(p)'
  BY <1>1 DEF Proc, RevisionHeld, Store!Current
<1>3. /\ Whole' <=> Whole
      /\ \A x \in Parts : Present(x)' <=> Present(x)
      /\ job[p].verb = "destroy" => Started(DestroyOps)'
  BY <1>1 DEF Whole, Present, Proc, RuntimeHeld, Started
<1>4. job'[p].seen \in SUBSET Parts /\ \A i \in 1..Len(PartList) : PartList[i] \in Parts
  BY JobFields DEF Parts, Moves
<1>5. Proc(p)'
  BY <1>1, <1>2, <1>3, <1>4, AdvanceProc
<1> QED BY <1>1, <1>5, QuietStepKeeps

LEMMA PreflightKeeps ==
    ASSUME IInv, NEW p \in Procs, Preflight(p), UNCHANGED <<world, calls>>
    PROVE  IInv'
<1>1. /\ pc[p] = "preflight" /\ UNCHANGED <<record, host, books>> /\ TypeOK
      /\ job[p] \in Jobs /\ job[p].verb = "run" /\ job[p].owned = {} /\ job[p].at = 1
  BY Busy DEF Preflight, IInv, Proc, LocalsOK
<1> DEFINE s == {x \in Parts : Present(x)}
           j == [job[p] EXCEPT !.seen = s]
<1>2. CASE Goto(p, "create") /\ With(p, j)
  <2>1. /\ j \in Jobs /\ j.seen = s /\ j.verb = job[p].verb /\ j.op = job[p].op
        /\ j.deploy = job[p].deploy /\ j.runtime = job[p].runtime /\ j.next = job[p].next
        /\ j.rev = job[p].rev /\ j.owned = job[p].owned /\ j.at = job[p].at
    BY <1>1, SetSeen
  <2> HIDE DEF j
  <2>2. Moves(p, "create") /\ job'[p] = j
    BY <1>1, <1>2, <2>1, MovesWith DEF Positions
  <2>3. Quiet => NoneSucceeded \/ s = Parts
    BY DEF IInv, Shared, SucceededRuntime, Quiet, NoneSucceeded
  <2>4. /\ "create" \in Active /\ "preflight" \in Active
        /\ \A x \in s : Present(x)
        /\ \A i \in 1..Len(PartList) : ~(i < 1)
    BY BoundsAssumption DEF Active, Positions
  <2> HIDE DEF s
  <2> QED BY <1>1, <2>1, <2>2, <2>3, <2>4, AdvanceKeeps
<1>3. CASE RaiseInRun(p)
  <2>1. Moves(p, "undo") /\ job'[p] = job[p]
    BY <1>1, <1>3, MovesOn DEF RaiseInRun, Positions
  <2> QED BY <1>1, <2>1, AdvanceKeeps DEF Active, Positions
<1> QED BY <1>2, <1>3 DEF Preflight

LEMMA ReadyKeeps ==
    ASSUME IInv, NEW p \in Procs, Ready(p), UNCHANGED <<world, calls>>
    PROVE  IInv'
<1>1. /\ pc[p] = "ready" /\ UNCHANGED <<record, host, books>> /\ TypeOK /\ Proc(p)
      /\ job[p] \in Jobs /\ job[p].verb = "run"
  BY Busy DEF Ready, IInv, Proc, LocalsOK
<1>2. ASSUME NEW l \in {"ready_checkpoint", "undo"}, Goto(p, l), UNCHANGED job
      PROVE  IInv'
  <2>1. Moves(p, l) /\ job'[p] = job[p]
    BY <1>1, <1>2, MovesOn DEF Positions
  <2>2. Quiet => Whole /\ (NoneSucceeded \/ job[p].owned = {})
    BY <1>1 DEF Proc, RuntimeHeld, Running
  <2> QED BY <1>1, <2>1, <2>2, AdvanceKeeps DEF Active, Positions
<1> QED BY <1>2 DEF Ready, RaiseInRun

LEMMA VerifyKeeps ==
    ASSUME IInv, NEW p \in Procs, Verify(p), UNCHANGED <<world, calls>>
    PROVE  IInv'
<1> USE DEF host, books
<1>1. /\ pc[p] = "verify" /\ UNCHANGED <<record, host, books>> /\ TypeOK /\ Proc(p)
      /\ job[p] \in Jobs
  BY Busy DEF Verify, IInv, Proc
<1>2. ASSUME NEW l \in {"commit", "fail"}, Goto(p, l), UNCHANGED job, job[p].verb # "run"
      PROVE  IInv'
  <2>1. Moves(p, l) /\ job'[p] = job[p]
    BY <1>1, <1>2, MovesOn DEF Positions
  <2> QED BY <1>1, <1>2, <2>1, AdvanceKeeps DEF Active, Positions, Running
<1>3. CASE Rests(p)
  BY <1>1, <1>3, RestsProc, QuietStepKeeps DEF StoreStep, NoneSucceeded, IInv, TypeOK
<1>4. job[p].verb # "run"
  BY <1>1 DEF Proc, LocalsOK
<1> QED BY <1>1, <1>2, <1>3, <1>4, RaiseEnds, IdleEnds DEF Verify, Rests

LEMMA CrashKeeps ==
    ASSUME IInv, NEW p \in Procs, Crash(p), UNCHANGED <<world, calls>>
    PROVE  IInv'
<1>1. pc[p] # "idle" /\ "crash" \in world /\ UNCHANGED <<record, host, books>> /\ Ends(p)
  BY IdleEnds DEF Crash, IInv
<1> QED
  BY <1>1, RestsProc, QuietStepKeeps DEF Rests, StoreStep, NoneSucceeded, IInv, TypeOK, books

LEMMA LoadKeeps ==
    ASSUME IInv, NEW p \in Procs, Load(p), UNCHANGED <<world, calls>>
    PROVE  IInv'
<1> USE DEF host, books
<1> DEFINE o == job[p].op
           n == record'[o].revision
           j == [job[p] EXCEPT !.rev = n]
<1>1. /\ pc[p] = "load" /\ UNCHANGED <<host, books>> /\ TypeOK /\ RecordsOK /\ Proc(p) /\ LocalsOK(p)
      /\ job[p] \in Jobs /\ job[p].verb \in Verbs /\ o \in Operations /\ Store!CreateOrLoad(o)
  BY Busy DEF Load, IInv, Shared, Proc
<1>2. /\ Writes(o) /\ StoreStep /\ record'[o].lifecycle # "none" /\ n \in Nat
      /\ record'[o].lifecycle \in {record[o].lifecycle, "accepted"}
  BY <1>1, LoadWrites, RecordFields DEF StoreStep, Writes
<1>3. (NoneSucceeded => NoneSucceeded') /\ kept' \subseteq Owned
  BY <1>1, <1>2 DEF NoneSucceeded, Writes, Operations, TypeOK
<1>4. ASSUME NEW l \in {"verify", "preflight", "stop", "undo", "observe"}, Goto(p, l), With(p, j),
             l = "stop" => job[p].verb = "stop", l = "verify" => job[p].verb = "expose",
             l = "preflight" => job[p].verb = "run", l = "undo" => job[p].verb = "destroy"
      PROVE  IInv'
  <2>1. /\ j \in Jobs /\ j.rev = n /\ j.verb = job[p].verb /\ j.op = o
        /\ j.deploy = job[p].deploy /\ j.runtime = job[p].runtime /\ j.next = job[p].next
        /\ j.owned = job[p].owned /\ j.at = job[p].at
    BY <1>1, <1>2, SetRev
  <2> HIDE DEF j
  <2>2. Moves(p, l) /\ job'[p] = j /\ l \in Active /\ Turn(p) /\ pc'[p] = l
    BY <1>1, <1>4, <2>1, MovesWith DEF Positions, Active, Moves
  <2>3. RevisionHeld(p)'
    BY <1>2, <2>1, <2>2 DEF RevisionHeld, Store!Current
  <2>4. job[p].verb = "destroy" => Started(DestroyOps)'
    BY <1>1, <1>2 DEF LocalsOK, Started
  <2>5. job[p].verb = "run" => job[p].owned = {} /\ job[p].at = 1
    BY <1>1 DEF LocalsOK
  <2>6. Proc(p)'
    BY <1>1, <1>2, <1>3, <1>4, <2>1, <2>2, <2>3, <2>4, <2>5, AdvanceProc DEF Running
  <2> QED BY <1>1, <1>2, <1>3, <2>2, <2>6, QuietStepKeeps
<1>5. CASE Return(p)
  <2>1. Rests(p)
    BY <1>1, <1>5, ReturnEnds DEF Rests
  <2>2. Turn(p) /\ Proc(p)'
    BY <1>1, <1>2, <2>1, RestsProc
  <2> QED BY <1>1, <1>2, <1>3, <2>2, QuietStepKeeps
<1> HIDE DEF j
<1>6. \/ Return(p)
      \/ \E l \in {"verify", "preflight", "stop", "undo", "observe"} :
            /\ Goto(p, l) /\ With(p, j)
            /\ l = "stop" => job[p].verb = "stop"
            /\ l = "verify" => job[p].verb = "expose"
            /\ l = "preflight" => job[p].verb = "run"
            /\ l = "undo" => job[p].verb = "destroy"
  <2>1. j.verb = job[p].verb
    BY <1>1, <1>2, SetRev DEF j
  <2>2. LET resolved == record'[o].lifecycle \in {"succeeded", "closed"} IN
        CASE j.verb = "expose" -> Goto(p, "verify") /\ With(p, j)
             [] j.verb # "expose" /\ resolved -> Return(p)
             [] j.verb = "run" /\ ~resolved -> Goto(p, "preflight") /\ With(p, j)
             [] j.verb = "stop" /\ ~resolved -> Goto(p, "stop") /\ With(p, j)
             [] j.verb = "destroy" /\ ~resolved -> Goto(p, "undo") /\ With(p, j)
             [] j.verb = "status" /\ ~resolved -> Goto(p, "observe") /\ With(p, j)
    BY DEF Load, j
  <2> QED BY <1>1, <2>1, <2>2 DEF Verbs
<1> QED BY <1>4, <1>5, <1>6

(* A step that ends the verb, after a store call that publishes no success. *)
LEMMA RestKeeps ==
    ASSUME IInv, NEW p \in Procs, pc[p] # "idle", Rests(p), UNCHANGED <<world, calls, host, books>>,
           StoreStep, NoneSucceeded => NoneSucceeded', pc[p] # "mark" \/ UnknownHeld'
    PROVE  IInv'
<1>1. Turn(p) /\ Proc(p)' /\ kept' \subseteq Owned
  BY RestsProc DEF IInv, TypeOK, books
<1> QED BY <1>1, QuietStepKeeps DEF books

LEMMA FailKeeps ==
    ASSUME IInv, NEW p \in Procs, Fail(p), UNCHANGED <<world, calls>>
    PROVE  IInv'
<1>1. /\ pc[p] = "fail" /\ UNCHANGED <<host, books>> /\ TypeOK /\ RecordsOK
      /\ job[p] \in Jobs /\ job[p].op \in Operations /\ job[p].rev \in Nat
  BY Busy DEF Fail, IInv, Shared, Proc
<1>2. Rests(p)
  <2>1. Raise(p)
    BY DEF Fail, StoreCall
  <2> QED BY <1>1, <2>1, RaiseEnds DEF Rests
<1>3. UNCHANGED record \/ Store!CommitTerminal(job[p].op, job[p].rev, "failed", FALSE)
  BY DEF Fail, StoreCall
<1>4. StoreStep /\ (NoneSucceeded => NoneSucceeded')
  <2>1. CASE UNCHANGED record
    BY <2>1 DEF StoreStep, NoneSucceeded
  <2>2. CASE Store!CommitTerminal(job[p].op, job[p].rev, "failed", FALSE)
    <3>1. Writes(job[p].op) /\ record'[job[p].op].lifecycle = "failed"
      BY <1>1, <2>2, CommitWrites
    <3> QED BY <1>1, <3>1 DEF StoreStep, Writes, NoneSucceeded, Operations
  <2> QED BY <1>3, <2>1, <2>2
<1> QED BY <1>1, <1>2, <1>4, RestKeeps

LEMMA ObserveKeeps ==
    ASSUME IInv, NEW p \in Procs, Observe(p), UNCHANGED <<world, calls>>
    PROVE  IInv'
<1>1. /\ pc[p] = "observe" /\ UNCHANGED <<host, books>> /\ TypeOK /\ RecordsOK
      /\ job[p] \in Jobs /\ job[p].op \in Operations /\ job[p].rev \in Nat
  BY Busy DEF Observe, IInv, Shared, Proc
<1>2. Rests(p)
  <2>1. Idle(p)
    BY DEF Observe, StoreCall
  <2> QED BY <1>1, <2>1, IdleEnds DEF Rests
<1>3. UNCHANGED record \/ Store!SaveCheckpoint(job[p].op, job[p].rev)
  BY DEF Observe, StoreCall
<1>4. StoreStep /\ (NoneSucceeded => NoneSucceeded')
  <2>1. CASE UNCHANGED record
    BY <2>1 DEF StoreStep, NoneSucceeded
  <2>2. CASE Store!SaveCheckpoint(job[p].op, job[p].rev)
    <3>1. Writes(job[p].op) /\ record'[job[p].op].lifecycle # "succeeded"
      BY <1>1, <2>2, CheckpointWrites
    <3> QED BY <1>1, <3>1 DEF StoreStep, Writes, NoneSucceeded, Operations
  <2> QED BY <1>3, <2>1, <2>2
<1> QED BY <1>1, <1>2, <1>4, RestKeeps

(* The mark goes on record: while calls do not overlap nobody has moved the *)
(* revision on, so it is refused only to a record that is past it.          *)
LEMMA MarkKeeps ==
    ASSUME IInv, NEW p \in Procs, Mark(p), UNCHANGED <<world, calls>>
    PROVE  IInv'
<1> DEFINE o == job[p].op
<1>1. /\ pc[p] = "mark" /\ UNCHANGED <<host, books>> /\ TypeOK /\ RecordsOK /\ Proc(p)
      /\ job[p] \in Jobs /\ o \in Operations /\ job[p].rev \in Nat /\ record[o] \in Store!Records
  BY Busy DEF Mark, IInv, Shared, Proc, TypeOK, Store!TypeOK
<1>2. Rests(p)
  <2>1. Raise(p)
    BY DEF Mark, StoreCall
  <2> QED BY <1>1, <2>1, RaiseEnds DEF Rests
<1>3. \/ Store!MarkReconciliationRequired(o, job[p].rev)
      \/ UNCHANGED record /\ (~Store!MayMark(o, job[p].rev) \/ "store" \in world)
  BY DEF Mark, StoreCall
<1>4. ASSUME Store!MarkReconciliationRequired(o, job[p].rev)
      PROVE  Writes(o) /\ record'[o].lifecycle = "reconciliation_required"
  BY <1>1, <1>4, MarkWrites
<1>5. StoreStep /\ (NoneSucceeded => NoneSucceeded')
  BY <1>1, <1>3, <1>4 DEF StoreStep, Writes, NoneSucceeded, Operations
<1>6. UnknownHeld'
  <2> SUFFICES ASSUME world \cap {"crash", "store", "concurrent"} = {}, NEW x \in InBody
               PROVE  Store!LifecycleOrder[record'[x].lifecycle] >= 2
    BY <1>1 DEF UnknownHeld, InBody, books
  <2>1. /\ x \in Operations /\ record[x] \in Store!Records /\ record'[x] \in Store!Records
        /\ Store!LifecycleOrder[record'[x].lifecycle] >= Store!LifecycleOrder[record[x].lifecycle]
    BY <1>5, StoreKeeps DEF IInv, Shared, Forward, InBody, TypeOK, Store!TypeOK
  <2>2. CASE Store!LifecycleOrder[record[x].lifecycle] >= 2
    BY <2>1, <2>2, RecordFields, Ranks
  <2>3. CASE x = o
    <3>1. Store!Current(o, job[p].rev)
      BY <1>1 DEF Proc, RevisionHeld, Active, Positions
    <3>2. CASE UNCHANGED record /\ ~Store!MayMark(o, job[p].rev)
      BY <1>1, <2>3, <3>1, <3>2, RecordFields, Ranks DEF Store!MayMark, Store!Advances,
         Store!TerminalOutcomes, Store!PostCommitStates
    <3> QED BY <1>3, <1>4, <2>3, <3>2, Ranks
  <2>4. Store!LifecycleOrder[record[x].lifecycle] >= 2 \/ x = o
    BY <1>1 DEF IInv, Shared, UnknownHeld, Alone
  <2> QED BY <2>2, <2>3, <2>4
<1> QED BY <1>1, <1>2, <1>5, <1>6, RestKeeps

LEMMA CheckpointKeeps ==
    ASSUME IInv, NEW p \in Procs, Checkpoint(p), UNCHANGED <<world, calls>>
    PROVE  IInv'
<1> DEFINE o == job[p].op
           l == IF pc[p] = "checkpoint" THEN "ready" ELSE "commit"
           j == [job[p] EXCEPT !.rev = job[p].rev + 1]
<1>1. /\ pc[p] \in {"checkpoint", "ready_checkpoint"} /\ UNCHANGED <<host, books>>
      /\ TypeOK /\ RecordsOK /\ Proc(p) /\ kept' \subseteq Owned
      /\ job[p] \in Jobs /\ job[p].verb = "run" /\ o \in Operations /\ job[p].rev \in Nat
  BY Busy DEF Checkpoint, IInv, Shared, Proc, LocalsOK, TypeOK, books
<1>2. /\ (Whole' <=> Whole)
      /\ Quiet => Whole /\ (NoneSucceeded \/ job[p].owned = {})
  BY <1>1 DEF Proc, RuntimeHeld, Running, Whole, Present, host
<1>3. ASSUME Store!SaveCheckpoint(o, job[p].rev)
      PROVE  /\ StoreStep /\ (NoneSucceeded => NoneSucceeded')
             /\ record'[o].lifecycle # "none" /\ record'[o].revision = job[p].rev + 1
  <2>1. /\ Writes(o) /\ record'[o].lifecycle \notin {"none", "succeeded"}
        /\ record'[o].revision = job[p].rev + 1
    BY <1>1, <1>3, CheckpointWrites
  <2> QED BY <1>1, <2>1 DEF StoreStep, Writes, NoneSucceeded, Operations
<1>4. CASE Store!SaveCheckpoint(o, job[p].rev) /\ Later(p, l)
  <2>1. /\ j \in Jobs /\ j.rev = job[p].rev + 1 /\ j.verb = job[p].verb /\ j.op = o
        /\ j.deploy = job[p].deploy /\ j.runtime = job[p].runtime /\ j.next = job[p].next
        /\ j.owned = job[p].owned
    BY <1>1, SetRev
  <2>2. Goto(p, l) /\ With(p, j)
    BY <1>4 DEF Later
  <2> HIDE DEF j
  <2>3. l \in {"ready", "commit"} /\ l \in Active /\ l \in Positions /\ pc[p] \in Active
    BY <1>1 DEF Active, Positions
  <2>4. Moves(p, l) /\ job'[p] = j /\ Turn(p) /\ pc'[p] = l
    BY <1>1, <2>1, <2>2, <2>3, MovesWith DEF Moves
  <2>5. RevisionHeld(p)'
    BY <1>3, <1>4, <2>1, <2>4 DEF RevisionHeld, Store!Current
  <2>6. Proc(p)'
    BY <1>1, <1>2, <1>3, <1>4, <2>1, <2>3, <2>4, <2>5, AdvanceProc
  <2> QED BY <1>1, <1>3, <1>4, <2>4, <2>6, QuietStepKeeps DEF books
<1>5. ASSUME RaiseInRun(p), StoreStep, NoneSucceeded => NoneSucceeded',
             UNCHANGED record \/ "store" \in world
      PROVE  IInv'
  <2>1. Moves(p, "undo") /\ job'[p] = job[p] /\ Turn(p) /\ pc'[p] = "undo"
        /\ "undo" \in Active /\ pc[p] \in Active
    BY <1>1, <1>5, MovesOn DEF RaiseInRun, Positions, Moves, Active
  <2>2. RevisionHeld(p)'
    BY <1>1, <1>5, <2>1 DEF Proc, RevisionHeld, Store!Current
  <2>3. Proc(p)'
    BY <1>1, <1>2, <1>5, <2>1, <2>2, AdvanceProc
  <2> QED BY <1>1, <1>5, <2>1, <2>3, QuietStepKeeps DEF books
<1>6. \/ Store!SaveCheckpoint(o, job[p].rev) /\ Later(p, l)
      \/ Store!SaveCheckpoint(o, job[p].rev) /\ "store" \in world /\ RaiseInRun(p)
      \/ UNCHANGED record /\ RaiseInRun(p)
  BY DEF Checkpoint, StoreCall
<1>7. CASE UNCHANGED record /\ RaiseInRun(p)
  BY <1>5, <1>7 DEF StoreStep, NoneSucceeded
<1> QED BY <1>3, <1>4, <1>5, <1>6, <1>7

(* A success of run is published only over a whole runtime, of the other    *)
(* verbs it is none of a run.                                               *)
LEMMA CommitKeeps ==
    ASSUME IInv, NEW p \in Procs, Commit(p), UNCHANGED <<world, calls>>
    PROVE  IInv'
<1> DEFINE o == job[p].op
           Published == Store!CommitTerminal(o, job[p].rev, "succeeded", FALSE)
           Failed == CASE job[p].verb = "run" -> RaiseInRun(p)
                       [] job[p].verb = "expose" -> Goto(p, "fail") /\ UNCHANGED job
                       [] OTHER -> Raise(p)
<1>1. /\ pc[p] = "commit" /\ UNCHANGED <<host, receipts, unknown>> /\ TypeOK /\ RecordsOK /\ Proc(p)
      /\ job[p] \in Jobs /\ o \in Operations /\ job[p].rev \in Nat /\ job[p].owned \in SUBSET Owned
      /\ job[p].verb \in Verbs
  BY Busy DEF Commit, IInv, Shared, Proc
<1>2. kept' \subseteq Owned
  BY <1>1 DEF Commit, TypeOK
<1>3. \/ Published /\ Return(p)
      \/ Published /\ "store" \in world /\ Failed
      \/ UNCHANGED record /\ Failed
  BY DEF Commit, StoreCall
<1>4. /\ Whole' <=> Whole
      /\ Quiet /\ job[p].verb = "run" => Whole /\ (NoneSucceeded \/ job[p].owned = {})
  BY <1>1 DEF Proc, RuntimeHeld, Running, Whole, Present, host
<1>5. Published => StoreStep
  BY <1>1, CommitWrites DEF StoreStep
<1>6. CASE Published /\ Return(p)
  <2>1. Writes(o)
    BY <1>1, <1>6, CommitWrites
  <2>2. Turn(p) /\ Proc(p)'
    <3>1. Rests(p)
      BY <1>1, <1>6, ReturnEnds DEF Rests
    <3> QED BY <1>1, <1>5, <1>6, <3>1, RestsProc
  <2>3. (NoneSucceeded => NoneSucceeded') \/ SucceededRuntime'
    <3>1. CASE job[p].verb = "run"
      <4>1. Quiet' => Whole'
        BY <1>4, <1>5, <1>6, <3>1, StoreKeeps DEF IInv, Shared, Quiet
      <4> QED BY <4>1 DEF SucceededRuntime, Quiet, Whole
    <3>2. CASE job[p].verb # "run"
      <4>1. o \notin RunOps
        BY <1>1, <3>2 DEF Proc, LocalsOK, Verbs
      <4> QED BY <2>1, <4>1 DEF Writes, NoneSucceeded, Operations
    <3> QED BY <3>1, <3>2
  <2> QED BY <1>1, <1>2, <1>5, <1>6, <2>2, <2>3, QuietStepKeeps
<1>7. ASSUME Failed, StoreStep, UNCHANGED record \/ "store" \in world
      PROVE  IInv'
  <2> HIDE DEF Published, Failed
  <2>1. (NoneSucceeded => NoneSucceeded') \/ SucceededRuntime'
    BY <1>1, <1>7 DEF NoneSucceeded, SucceededRuntime
  <2>2. Quiet /\ NoneSucceeded => NoneSucceeded'
    BY <1>7 DEF NoneSucceeded, Quiet
  <2>3. ASSUME NEW l \in {"undo", "fail"}, Goto(p, l), UNCHANGED job,
               l = "undo" => job[p].verb = "run", job[p].verb \in {"run", "expose"}
        PROVE  Turn(p) /\ Proc(p)'
    <3>1. Moves(p, l) /\ job'[p] = job[p] /\ Turn(p) /\ pc'[p] = l /\ l \in Active /\ pc[p] \in Active
      BY <1>1, <2>3, MovesOn DEF Positions, Moves, Active
    <3>2. RevisionHeld(p)'
      BY <1>1, <1>7, <3>1 DEF Proc, RevisionHeld, Store!Current
    <3> QED BY <1>1, <1>4, <1>7, <2>2, <2>3, <3>1, <3>2, AdvanceProc DEF Running
  <2>4. ASSUME Raise(p)
        PROVE  Turn(p) /\ Proc(p)'
    <3>1. Rests(p)
      BY <1>1, <2>4, RaiseEnds DEF Rests
    <3>2. StoreStep /\ pc[p] # "idle" /\ UNCHANGED world
      BY <1>1, <1>7
    <3> QED BY <3>1, <3>2, RestsProc
  <2>5. \/ \E l \in {"undo", "fail"} :
              /\ Goto(p, l) /\ UNCHANGED job /\ job[p].verb \in {"run", "expose"}
              /\ l = "undo" => job[p].verb = "run"
        \/ Raise(p)
    <3>1. CASE job[p].verb = "run"
      BY <1>7, <3>1 DEF RaiseInRun, Failed
    <3>2. CASE job[p].verb = "expose"
      BY <1>7, <3>2 DEF Failed
    <3>3. CASE job[p].verb \notin {"run", "expose"}
      BY <1>7, <3>3 DEF Failed
    <3> QED BY <3>1, <3>2, <3>3
  <2>6. Turn(p) /\ Proc(p)'
    BY <2>3, <2>4, <2>5
  <2> QED BY <1>1, <1>2, <1>7, <2>1, <2>6, QuietStepKeeps
<1> HIDE DEF Published, Failed
<1>8. CASE UNCHANGED record /\ Failed
  BY <1>7, <1>8 DEF StoreStep
<1> QED BY <1>3, <1>5, <1>6, <1>7, <1>8

-----------------------------------------------------------------------------
(* Steps that change the host.                                             *)

(* A call that leaves a mutation of unknown outcome goes on to mark it. *)
LEMMA UnknownAdded ==
    ASSUME IInv, NEW p \in Procs, pc[p] # "mark", Moves(p, "mark"), UNCHANGED <<world, record>>,
           unknown' = unknown \cup {<<job[p].op, "body">>}
    PROVE  UnknownHeld'
<1> SUFFICES ASSUME world \cap {"crash", "store", "concurrent"} = {}, NEW o \in InBody'
             PROVE  \/ Store!LifecycleOrder[record'[o].lifecycle] >= 2
                    \/ \E q \in Procs : pc'[q] = "mark" /\ job'[q].op = o
  BY DEF UnknownHeld
<1>1. CASE o = job[p].op
  BY <1>1 DEF Moves
<1>2. CASE o \in InBody
  <2>1. \/ Store!LifecycleOrder[record[o].lifecycle] >= 2
        \/ \E q \in Procs : pc[q] = "mark" /\ job[q].op = o
    BY <1>2 DEF IInv, Shared, UnknownHeld
  <2> QED BY <2>1 DEF Moves, Turn
<1> QED BY <1>1, <1>2 DEF InBody

(* Making a part never touches another, and its id is new. *)
LEMMA HostGrows ==
    ASSUME IInv, NEW p \in Procs, job[p].op \in Operations, NEW x \in Parts, UNCHANGED <<world, removed>>,
           MakePart(p, x) \/ UNCHANGED <<remote, nextId>>
    PROVE  /\ remote' \in [Parts -> Resources \cup {Absent}] /\ nextId' \in 0..MaxId
           /\ HostKept /\ IdsHandedOut' /\ CompensatesOnlyOwn'
           /\ \A y \in Parts : Present(y) => Present(y)'
           /\ MakePart(p, x) => Present(x)' /\ remote'[x].id \in 0..MaxId
<1>1. /\ remote \in [Parts -> Resources \cup {Absent}] /\ nextId \in 0..MaxId /\ MaxId \in Nat
      /\ IdsHandedOut /\ CompensatesOnlyOwn
  BY BoundsAssumption DEF IInv, Shared, TypeOK
<1>2. CompensatesOnlyOwn'
  BY <1>1 DEF CompensatesOnlyOwn
<1>3. CASE UNCHANGED <<remote, nextId>>
  <2>1. ~MakePart(p, x)
    <3> SUFFICES ASSUME MakePart(p, x) PROVE FALSE
      OBVIOUS
    <3> DEFINE d == IF x \in VolumeParts THEN 0 ELSE nextId + 1
               r == [op |-> job[p].op, id |-> d, up |-> TRUE]
    <3>1. ~Present(x) /\ remote' = [remote EXCEPT ![x] = r]
      BY DEF MakePart
    <3>2. r # Absent
      BY OperationsAssumption DEF Absent
    <3> HIDE DEF r
    <3> QED BY <1>1, <1>3, <3>1, <3>2 DEF Present
  <2> QED BY <1>1, <1>2, <1>3, <2>1 DEF HostKept, Present, IdsHandedOut
<1>4. CASE MakePart(p, x)
  <2> DEFINE d == IF x \in VolumeParts THEN 0 ELSE nextId + 1
             r == [op |-> job[p].op, id |-> d, up |-> TRUE]
  <2>1. /\ ~Present(x) /\ remote' = [remote EXCEPT ![x] = r]
        /\ nextId' = IF x \in VolumeParts THEN nextId ELSE d
        /\ x \notin VolumeParts => nextId < MaxId
    BY <1>4 DEF MakePart, Containers
  <2>2. d \in 0..MaxId /\ (x \notin VolumeParts => d > nextId) /\ d <= nextId'
    BY <1>1, <2>1
  <2>3. nextId' \in 0..MaxId /\ nextId <= nextId'
    BY <1>1, <2>1
  <2> HIDE DEF d
  <2>4. r \in Resources /\ r # Absent /\ r.id = d
    BY <2>2, OperationsAssumption DEF Resources, Absent
  <2> HIDE DEF r
  <2>5. remote' \in [Parts -> Resources \cup {Absent}] /\ remote'[x] = r
        /\ \A y \in Parts : y # x => remote'[y] = remote[y]
    BY <1>1, <2>1, <2>4
  <2>6. \A y \in Parts : remote[y].id \in Nat
    BY <1>1, ResourceFields DEF Absent
  <2>7. HostKept
    BY <1>1, <2>2, <2>3, <2>4, <2>5 DEF HostKept, Present, Containers
  <2>8. IdsHandedOut'
    BY <1>1, <2>2, <2>3, <2>4, <2>5, <2>6 DEF IdsHandedOut
  <2> QED BY <1>2, <2>2, <2>3, <2>4, <2>5, <2>7, <2>8 DEF Present
<1> QED BY <1>3, <1>4

(* A step of a caller that is making parts, or stopping containers. *)
LEMMA GrowthKeeps ==
    ASSUME IInv, NEW p \in Procs, pc[p] # "idle", Turn(p),
           UNCHANGED <<world, calls, record, removed, kept, receipts>>,
           remote' \in [Parts -> Resources \cup {Absent}], nextId' \in 0..MaxId,
           HostKept, IdsHandedOut', \A y \in Parts : Present(y) => Present(y)',
           unknown' \subseteq Operations \X Places, UnknownHeld', Proc(p)'
    PROVE  IInv'
<1>1. StoreStep /\ (NoneSucceeded => NoneSucceeded')
  BY DEF StoreStep, NoneSucceeded
<1>2. TypeOK'
  BY <1>1, StoreKeeps DEF IInv, Shared, TypeOK, Turn
<1>3. CompensatesOnlyOwn'
  BY DEF IInv, Shared, CompensatesOnlyOwn
<1>4. SucceededRuntime' /\ ReceiptsAgree'
  BY <1>1, RuntimeKeeps, ReceiptsKeep
<1> QED BY <1>1, <1>2, <1>3, <1>4, StepKeeps

LEMMA NextPartProc ==
    ASSUME IInv, NEW p \in Procs, pc[p] = "create", NEW x, x = PartList[job[p].at],
           NEW d \in 0..MaxId, NextPart(p, x, d), UNCHANGED <<world, record>>,
           \A y \in Parts : Present(y) => Present(y)', Quiet => Present(x)'
    PROVE  Turn(p) /\ Proc(p)'
<1> DEFINE o == job[p].op
           i == IF job[p].at = Len(PartList) THEN job[p].at ELSE job[p].at + 1
           s == IF x \in job[p].seen THEN job[p].owned
                ELSE job[p].owned \cup {[part |-> x, id |-> d, op |-> o]}
           j == [job[p] EXCEPT !.at = i, !.owned = s]
           l == IF job[p].at = Len(PartList) THEN "checkpoint" ELSE "create"
<1>1. /\ TypeOK /\ Proc(p) /\ job[p] \in Jobs /\ o \in RunOps /\ job[p].seen \in SUBSET Parts
      /\ job[p].at \in 1..Len(PartList) /\ job[p].owned \in SUBSET Owned /\ job[p].verb = "run"
  BY Busy DEF IInv, Proc, LocalsOK
<1>2. x \in Parts /\ (\A k \in 1..Len(PartList) : PartList[k] \in Parts) /\ Len(PartList) \in Nat
  BY <1>1, BoundsAssumption DEF Parts
<1>3. s \in SUBSET Owned
  BY <1>1, <1>2 DEF Owned
<1>4. i \in 1..Len(PartList)
  BY <1>1, <1>2
<1>5. Goto(p, l) /\ With(p, j)
  BY DEF NextPart
<1>6. Quiet =>
        /\ \A y \in job[p].seen : Present(y)'
        /\ \A k \in 1..Len(PartList) : k <= job[p].at => Present(PartList[k])'
        /\ NoneSucceeded \/ job[p].seen = Parts
        /\ NoneSucceeded \/ s = {}
  <2> SUFFICES ASSUME Quiet
               PROVE  /\ \A y \in job[p].seen : Present(y)'
                      /\ \A k \in 1..Len(PartList) : k <= job[p].at => Present(PartList[k])'
                      /\ NoneSucceeded \/ job[p].seen = Parts
                      /\ NoneSucceeded \/ s = {}
    OBVIOUS
  <2>1. /\ \A y \in job[p].seen : Present(y)
        /\ \A k \in 1..Len(PartList) : k < job[p].at => Present(PartList[k])
        /\ NoneSucceeded \/ job[p].seen = Parts
        /\ NoneSucceeded \/ job[p].owned = {}
    BY <1>1 DEF Proc, RuntimeHeld, Running
  <2>2. \A k \in 1..Len(PartList) : k <= job[p].at => Present(PartList[k])'
    <3> SUFFICES ASSUME NEW k \in 1..Len(PartList), k <= job[p].at
                 PROVE  Present(PartList[k])'
      OBVIOUS
    <3>1. CASE k = job[p].at
      BY <3>1
    <3>2. CASE k < job[p].at
      BY <1>2, <2>1, <3>2
    <3> QED BY <1>1, <1>2, <3>1, <3>2
  <2> QED BY <1>1, <1>2, <2>1, <2>2
<1> HIDE DEF s, i
<1>7. /\ j \in Jobs /\ j.at = i /\ j.owned = s /\ j.verb = job[p].verb /\ j.op = o
      /\ j.deploy = job[p].deploy /\ j.runtime = job[p].runtime /\ j.next = job[p].next
      /\ j.rev = job[p].rev /\ j.seen = job[p].seen
  BY <1>1, <1>3, <1>4 DEF Jobs
<1>8. l \in {"create", "checkpoint"} /\ l \in Active /\ l \in Positions /\ "create" \in Active
  BY DEF Active, Positions
<1> HIDE DEF j
<1>9. Moves(p, l) /\ job'[p] = j /\ pc'[p] = l /\ Turn(p)
  BY <1>1, <1>5, <1>7, <1>8, MovesWith DEF Moves
<1>10. RevisionHeld(p)'
  BY <1>1, <1>7, <1>8, <1>9 DEF Proc, RevisionHeld, Store!Current
<1>11. Quiet =>
        /\ l = "create" => \A k \in 1..Len(PartList) : k < i => Present(PartList[k])'
        /\ l = "checkpoint" => Whole'
  <2>1. l = "create" => \A k \in 1..Len(PartList) : k < i => k <= job[p].at
    BY <1>1, <1>2 DEF i
  <2>2. l = "checkpoint" => \A k \in 1..Len(PartList) : k <= job[p].at
    BY <1>1, <1>2
  <2> QED BY <1>6, <2>1, <2>2 DEF Whole, Parts
<1> HIDE DEF l
<1>12. StoreStep /\ (NoneSucceeded => NoneSucceeded')
  BY DEF StoreStep, NoneSucceeded
<1> QED BY <1>1, <1>6, <1>7, <1>8, <1>9, <1>10, <1>11, <1>12, AdvanceProc

LEMMA CreateKeeps ==
    ASSUME IInv, NEW p \in Procs, Create(p), UNCHANGED <<world, calls>>
    PROVE  IInv'
<1>1. /\ pc[p] = "create" /\ UNCHANGED <<record, removed, kept, receipts>> /\ TypeOK /\ Proc(p)
      /\ job[p] \in Jobs /\ job[p].op \in Operations /\ job[p].seen \in SUBSET Parts
      /\ job[p].at \in 1..Len(PartList) /\ job[p].verb = "run" /\ job[p].verb # "destroy"
  BY Busy DEF Create, IInv, Proc, LocalsOK
<1>2. PICK x \in Parts : x = PartList[job[p].at]
  BY <1>1 DEF Parts
<1>3. MakePart(p, x) \/ UNCHANGED <<remote, nextId>>
  BY <1>2 DEF Create
<1>4. /\ remote' \in [Parts -> Resources \cup {Absent}] /\ nextId' \in 0..MaxId
      /\ HostKept /\ IdsHandedOut' /\ \A y \in Parts : Present(y) => Present(y)'
      /\ MakePart(p, x) => Present(x)' /\ remote'[x].id \in 0..MaxId
  BY <1>1, <1>3, HostGrows
<1>5. /\ "create" \in Active /\ "undo" \in Active /\ "mark" \in Active /\ "create" \in Running
      /\ "undo" \in Positions /\ "mark" \in Positions /\ "mark" \notin Running /\ 0 \in 0..MaxId
  BY BoundsAssumption DEF Active, Running, Positions
<1>6. StoreStep /\ (NoneSucceeded => NoneSucceeded')
  BY <1>1 DEF StoreStep, NoneSucceeded
<1>7. /\ Quiet => NoneSucceeded \/ job[p].owned = {}
      /\ Quiet => \A y \in job[p].seen : Present(y)
  BY <1>1, <1>5 DEF Proc, RuntimeHeld
<1>8. ASSUME NEW d \in 0..MaxId, NextPart(p, x, d), Quiet => Present(x)'
      PROVE  Turn(p) /\ Proc(p)'
  BY <1>1, <1>2, <1>4, <1>8, NextPartProc
<1>9. ASSUME Goto(p, "undo"), With(p, [job[p] EXCEPT !.inner = TRUE])
      PROVE  Turn(p) /\ Proc(p)'
  <2> DEFINE j == [job[p] EXCEPT !.inner = TRUE]
  <2>1. /\ j \in Jobs /\ j.verb = job[p].verb /\ j.op = job[p].op
        /\ j.deploy = job[p].deploy /\ j.runtime = job[p].runtime /\ j.next = job[p].next
        /\ j.rev = job[p].rev /\ j.owned = job[p].owned
    BY <1>1, SetInner
  <2>2. With(p, j)
    BY <1>9
  <2> HIDE DEF j
  <2>3. Moves(p, "undo") /\ job'[p] = j /\ pc'[p] = "undo" /\ Turn(p)
    BY <1>1, <1>5, <1>9, <2>1, <2>2, MovesWith DEF Moves
  <2>4. RevisionHeld(p)'
    BY <1>1, <1>5, <2>1, <2>3 DEF Proc, RevisionHeld, Store!Current
  <2> QED BY <1>1, <1>5, <1>6, <1>7, <2>1, <2>3, <2>4, AdvanceProc
<1>10. ASSUME Goto(p, "mark"), With(p, [job[p] EXCEPT !.owned = {}])
       PROVE  Moves(p, "mark") /\ Turn(p) /\ Proc(p)'
  <2> DEFINE j == [job[p] EXCEPT !.owned = {}]
  <2>1. /\ j \in Jobs /\ j.verb = job[p].verb /\ j.op = job[p].op
        /\ j.deploy = job[p].deploy /\ j.runtime = job[p].runtime /\ j.next = job[p].next
        /\ j.rev = job[p].rev
    BY <1>1, SetOwned
  <2>2. With(p, j)
    BY <1>10
  <2> HIDE DEF j
  <2>3. Moves(p, "mark") /\ job'[p] = j /\ pc'[p] = "mark" /\ Turn(p)
    BY <1>1, <1>5, <1>10, <2>1, <2>2, MovesWith DEF Moves
  <2>4. RevisionHeld(p)'
    BY <1>1, <1>5, <2>1, <2>3 DEF Proc, RevisionHeld, Store!Current
  <2> QED BY <1>1, <1>5, <1>6, <2>1, <2>3, <2>4, AdvanceProc
<1>11. CASE UNCHANGED unknown /\ Turn(p) /\ Proc(p)'
  <2>1. UnknownHeld' /\ unknown' \subseteq Operations \X Places
    BY <1>1, <1>6, <1>11, UnknownKeeps DEF TypeOK
  <2> QED BY <1>1, <1>4, <1>11, <2>1, GrowthKeeps
<1>12. CASE unknown' = unknown \cup {<<job[p].op, "body">>} /\ Moves(p, "mark") /\ Turn(p) /\ Proc(p)'
  <2>1. UnknownHeld' /\ unknown' \subseteq Operations \X Places
    BY <1>1, <1>12, UnknownAdded DEF TypeOK, Places
  <2> QED BY <1>1, <1>4, <1>12, <2>1, GrowthKeeps
<1>13. \/ x \in job[p].seen /\ NextPart(p, x, 0) /\ UNCHANGED unknown
       \/ MakePart(p, x) /\ NextPart(p, x, remote'[x].id) /\ UNCHANGED unknown
       \/ (Present(x) \/ "docker" \in world) /\ NextPart(p, x, 0) /\ UNCHANGED unknown
       \/ Goto(p, "undo") /\ With(p, [job[p] EXCEPT !.inner = TRUE]) /\ UNCHANGED unknown
       \/ /\ Goto(p, "mark") /\ With(p, [job[p] EXCEPT !.owned = {}])
          /\ unknown' = unknown \cup {<<job[p].op, "body">>}
  BY <1>2 DEF Create
<1>14. Quiet => "docker" \notin world
  BY DEF Quiet
<1>15. CASE x \in job[p].seen /\ NextPart(p, x, 0) /\ UNCHANGED unknown
  BY <1>4, <1>5, <1>7, <1>8, <1>11, <1>15
<1>16. CASE MakePart(p, x) /\ NextPart(p, x, remote'[x].id) /\ UNCHANGED unknown
  <2>1. PICK d \in 0..MaxId : d = remote'[x].id
    BY <1>4, <1>16
  <2> QED BY <1>4, <1>8, <1>11, <1>16, <2>1
<1>17. CASE (Present(x) \/ "docker" \in world) /\ NextPart(p, x, 0) /\ UNCHANGED unknown
  BY <1>4, <1>5, <1>8, <1>11, <1>14, <1>17
<1> QED BY <1>9, <1>10, <1>11, <1>12, <1>13, <1>15, <1>16, <1>17

LEMMA UndoKeeps ==
    ASSUME IInv, NEW p \in Procs, Undo(p), UNCHANGED <<world, calls>>
    PROVE  IInv'
<1>1. /\ pc[p] = "undo" /\ UNCHANGED <<record, host, books>> /\ TypeOK /\ Proc(p)
      /\ job[p] \in Jobs /\ job[p].owned \in SUBSET Owned /\ job[p].verb \in {"run", "destroy"}
  BY Busy DEF Undo, IInv, Proc, LocalsOK
<1>2. /\ "undo" \in Active /\ "rm" \in Active /\ "commit" \in Active /\ "fail" \in Active
      /\ "undo" \in Running /\ "fail" \notin Running
      /\ {"undo", "rm", "commit", "fail"} \subseteq Positions
  BY DEF Active, Running, Positions
<1>3. Quiet /\ job[p].verb = "run" => NoneSucceeded \/ job[p].owned = {}
  BY <1>1, <1>2 DEF Proc, RuntimeHeld
<1>4. CASE /\ Goto(p, IF job[p].verb = "destroy" THEN "commit" ELSE "fail") /\ UNCHANGED job
  <2>1. PICK l \in {"commit", "fail"} : Goto(p, l) /\ (l = "commit" => job[p].verb = "destroy")
    BY <1>4
  <2>2. Moves(p, l) /\ job'[p] = job[p]
    BY <1>1, <1>2, <1>4, <2>1, MovesOn
  <2> QED BY <1>1, <1>2, <2>1, <2>2, AdvanceKeeps
<1>5. ASSUME NEW c \in job[p].owned, Proves(c), Goto(p, "rm"), With(p, [job[p] EXCEPT !.target = c])
      PROVE  IInv'
  <2> DEFINE j == [job[p] EXCEPT !.target = c]
  <2>1. /\ c \in Owned /\ c.part \in Parts /\ j \in Jobs /\ j.target = c /\ j.verb = job[p].verb
        /\ j.op = job[p].op /\ j.deploy = job[p].deploy /\ j.runtime = job[p].runtime
        /\ j.next = job[p].next /\ j.rev = job[p].rev /\ j.owned = job[p].owned
    BY <1>1, SetTarget, OwnedFields
  <2>2. With(p, j)
    BY <1>5
  <2> HIDE DEF j
  <2>3. Moves(p, "rm") /\ job'[p] = j
    BY <1>1, <1>2, <1>5, <2>1, <2>2, MovesWith
  <2>4. c.id <= nextId /\ remote[c.part].op = c.op
    BY <1>5, <2>1 DEF Proves, IInv, Shared, IdsHandedOut
  <2>5. TargetOwn(p)'
    BY <1>1, <2>1, <2>3, <2>4 DEF TargetOwn, Present, host
  <2> QED BY <1>1, <1>2, <1>3, <2>1, <2>3, <2>5, AdvanceKeeps
<1>6. ASSUME NEW c \in job[p].owned, With(p, [job[p] EXCEPT !.owned = @ \ {c}]), UNCHANGED pc
      PROVE  IInv'
  <2> DEFINE s == job[p].owned \ {c}
             j == [job[p] EXCEPT !.owned = s]
  <2>1. s \in SUBSET Owned /\ With(p, j)
    BY <1>1, <1>6
  <2> HIDE DEF s
  <2>2. /\ j \in Jobs /\ j.owned = s /\ j.verb = job[p].verb
        /\ j.op = job[p].op /\ j.deploy = job[p].deploy /\ j.runtime = job[p].runtime
        /\ j.next = job[p].next /\ j.rev = job[p].rev
    BY <1>1, <2>1, SetOwned
  <2> HIDE DEF j
  <2>3. Goto(p, "undo")
    BY <1>1, <1>6 DEF Goto, TypeOK
  <2>4. Moves(p, "undo") /\ job'[p] = j
    BY <1>1, <1>2, <2>1, <2>2, <2>3, MovesWith
  <2>5. Quiet /\ job[p].verb = "run" => NoneSucceeded
    BY <1>3, <1>6
  <2> QED BY <1>1, <1>2, <2>2, <2>4, <2>5, AdvanceKeeps
<1> QED BY <1>4, <1>5, <1>6 DEF Undo

(* What is removed was made by the operation of the proof, and no run that  *)
(* has succeeded is left short by it.                                       *)
LEMMA RemovePartKeeps ==
    ASSUME IInv, NEW p \in Procs, pc[p] = "rm", UNCHANGED <<world, record>>,
           RemovePart(job[p].target) \/ UNCHANGED host
    PROVE  /\ remote' \in [Parts -> Resources \cup {Absent}] /\ nextId' \in 0..MaxId
           /\ removed' \subseteq Parts \X RunOps \X (Operations \cup {Foreign})
           /\ HostKept /\ IdsHandedOut' /\ CompensatesOnlyOwn' /\ SucceededRuntime'
<1>1. /\ TypeOK /\ Proc(p) /\ IdsHandedOut /\ CompensatesOnlyOwn /\ SucceededRuntime
      /\ remote \in [Parts -> Resources \cup {Absent}] /\ nextId \in 0..MaxId /\ MaxId \in Nat
      /\ removed \subseteq Parts \X RunOps \X (Operations \cup {Foreign})
  BY BoundsAssumption DEF IInv, Shared, TypeOK
<1>2. PICK c \in Owned : /\ c = job[p].target /\ c.part \in Parts /\ c.op \in RunOps
                         /\ c \in job[p].owned /\ job[p].verb \in {"run", "destroy"}
  BY <1>1, Busy, OwnedFields DEF Proc, LocalsOK
<1>3. Started(DestroyOps)' <=> Started(DestroyOps)
  BY DEF Started
<1>4. CASE UNCHANGED host
  BY <1>1, <1>3, <1>4 DEF host, HostKept, Present, IdsHandedOut, CompensatesOnlyOwn, SucceededRuntime
<1>5. CASE RemovePart(c)
  <2>1. /\ Present(c.part) /\ Removable(c) /\ nextId' = nextId
        /\ remote' = [remote EXCEPT ![c.part] = Absent]
        /\ removed' = removed \cup {<<c.part, c.op, remote[c.part].op>>}
    BY <1>5 DEF RemovePart
  <2>2. remote' \in [Parts -> Resources \cup {Absent}] /\ remote'[c.part] = Absent
        /\ \A x \in Parts : x # c.part => remote'[x] = remote[x]
    BY <1>1, <1>2, <2>1
  <2>3. remote[c.part] \in Resources /\ remote[c.part].op \in Operations \cup {Foreign}
    BY <1>1, <1>2, <2>1, ResourceFields DEF Present
  <2>4. HostKept
    BY <1>1, <1>2, <2>1, <2>2 DEF HostKept, Present, Containers
  <2>5. IdsHandedOut'
    <3>1. Absent.id = 0
      BY DEF Absent
    <3> QED BY <1>1, <2>1, <2>2, <3>1 DEF IdsHandedOut
  <2>6. CompensatesOnlyOwn'
    <3>1. remote[c.part].op # c.op => c.part \in VolumeParts /\ "concurrent" \in world
      BY <1>1, <1>2, <2>1 DEF Proc, TargetOwn, Removable, Containers
    <3> QED BY <1>1, <2>1, <3>1 DEF CompensatesOnlyOwn
  <2>7. SucceededRuntime'
    <3>1. Quiet => NoneSucceeded
      BY <1>1, <1>2 DEF Proc, RuntimeHeld, Quiet, Running
    <3> QED BY <1>3, <3>1 DEF SucceededRuntime, Quiet, NoneSucceeded
  <2> QED BY <1>1, <1>2, <2>1, <2>2, <2>3, <2>4, <2>5, <2>6, <2>7
<1> QED BY <1>2, <1>4, <1>5

LEMMA RmKeeps ==
    ASSUME IInv, NEW p \in Procs, Rm(p), UNCHANGED <<world, calls>>
    PROVE  IInv'
<1> DEFINE c == job[p].target
           s == job[p].owned \ {c}
           j == [job[p] EXCEPT !.owned = s, !.target = NoTarget]
           k == [job[p] EXCEPT !.owned = {}]
<1>1. /\ pc[p] = "rm" /\ UNCHANGED <<record, kept, receipts>> /\ TypeOK /\ Proc(p)
      /\ job[p] \in Jobs /\ job[p].op \in Operations /\ job[p].owned \in SUBSET Owned /\ c \in job[p].owned
      /\ job[p].verb \in {"run", "destroy"}
  BY Busy DEF Rm, IInv, Proc, LocalsOK
<1>2. /\ "rm" \in Active /\ "undo" \in Active /\ "mark" \in Active /\ "fail" \in Active
      /\ "rm" \in Running /\ "mark" \notin Running /\ "fail" \notin Running
      /\ {"undo", "mark", "fail"} \subseteq Positions
  BY DEF Active, Running, Positions
<1>3. /\ Quiet /\ job[p].verb = "run" => NoneSucceeded
      /\ job[p].verb = "destroy" => Started(DestroyOps)'
  BY <1>1, <1>2 DEF Proc, RuntimeHeld, Started
<1>4. StoreStep /\ (NoneSucceeded => NoneSucceeded')
  BY <1>1 DEF StoreStep, NoneSucceeded
<1>5. s \in SUBSET Owned
  BY <1>1
<1>6. /\ RemovePart(c) \/ UNCHANGED host
      /\ \/ Goto(p, "undo") /\ With(p, j) /\ UNCHANGED unknown
         \/ RaiseInUndo(p, "plain") /\ UNCHANGED unknown
         \/ /\ RaiseInUndo(p, "unknown")
            /\ unknown' = unknown \cup {<<job[p].op, UndoPlace(p)>>}
  BY DEF Rm
<1> HIDE DEF s
<1>7. ASSUME NEW l \in {"undo", "mark", "fail"}, Goto(p, l), NEW u \in {j, k}, With(p, u)
      PROVE  Turn(p) /\ Proc(p)'
  <2>1. /\ u \in Jobs /\ u.verb = job[p].verb
        /\ u.op = job[p].op /\ u.deploy = job[p].deploy /\ u.runtime = job[p].runtime
        /\ u.next = job[p].next /\ u.rev = job[p].rev
    <3>1. CASE u = j
      BY <1>1, <1>5, <3>1, SetOwnedTarget
    <3>2. CASE u = k
      BY <1>1, <3>2, SetOwned
    <3> QED BY <3>1, <3>2
  <2> HIDE DEF j, k
  <2>2. Moves(p, l) /\ job'[p] = u /\ pc'[p] = l /\ Turn(p)
    BY <1>1, <1>2, <1>7, <2>1, MovesWith DEF Moves
  <2>3. RevisionHeld(p)'
    BY <1>1, <1>2, <2>1, <2>2 DEF Proc, RevisionHeld, Store!Current
  <2> QED BY <1>1, <1>2, <1>3, <1>4, <2>1, <2>2, <2>3, AdvanceProc
<1>8. ASSUME Raise(p)
      PROVE  Turn(p) /\ Proc(p)'
  <2>1. Rests(p)
    BY <1>1, <1>8, RaiseEnds DEF Rests
  <2> QED BY <1>1, <1>4, <2>1, RestsProc
<1>9. Turn(p) /\ Proc(p)'
  <2> HIDE DEF j
  <2>1. \/ Goto(p, "undo") /\ With(p, j)
        \/ \E l \in {"mark", "fail"} : Goto(p, l) /\ With(p, k)
        \/ Raise(p)
    BY <1>6 DEF RaiseInUndo
  <2> HIDE DEF k
  <2> QED BY <1>7, <1>8, <2>1
<1>10. /\ remote' \in [Parts -> Resources \cup {Absent}] /\ nextId' \in 0..MaxId
       /\ removed' \subseteq Parts \X RunOps \X (Operations \cup {Foreign})
       /\ HostKept /\ IdsHandedOut' /\ CompensatesOnlyOwn' /\ SucceededRuntime'
  BY <1>1, <1>6, RemovePartKeeps
<1>11. UnknownHeld' /\ ReceiptsAgree' /\ unknown' \subseteq Operations \X Places
  <2>1. ReceiptsAgree'
    BY <1>1, <1>4, ReceiptsKeep
  <2>2. unknown' \subseteq Operations \X Places
    BY <1>1, <1>6 DEF TypeOK, Places, UndoPlace
  <2>3. CASE UNCHANGED unknown
    BY <1>1, <1>4, <1>9, <2>1, <2>2, <2>3, UnknownKeeps
  <2>4. CASE /\ RaiseInUndo(p, "unknown") /\ UndoPlace(p) = "body"
             /\ unknown' = unknown \cup {<<job[p].op, "body">>}
    <3>1. Goto(p, "mark") /\ With(p, k)
      BY <2>4 DEF RaiseInUndo
    <3>2. /\ k \in Jobs /\ k.verb = job[p].verb /\ k.op = job[p].op
          /\ k.deploy = job[p].deploy /\ k.runtime = job[p].runtime /\ k.next = job[p].next
      BY <1>1, SetOwned
    <3> HIDE DEF k
    <3>3. Moves(p, "mark")
      BY <1>1, <1>2, <3>1, <3>2, MovesWith
    <3> QED BY <1>1, <2>1, <2>2, <2>4, <3>3, UnknownAdded
  <2>5. CASE unknown' = unknown \cup {<<job[p].op, "handler">>}
    <3>1. InBody' = InBody
      BY <2>5 DEF InBody
    <3> QED BY <1>1, <1>4, <1>9, <2>1, <2>2, <3>1, BodyKeeps
  <2> QED BY <1>6, <2>3, <2>4, <2>5 DEF UndoPlace
<1>12. TypeOK'
  BY <1>1, <1>4, <1>9, <1>10, <1>11, StoreKeeps DEF IInv, Shared, TypeOK, Turn
<1> QED BY <1>1, <1>4, <1>9, <1>10, <1>11, <1>12, StepKeeps

LEMMA StopRuntimeKeeps ==
    ASSUME IInv, NEW p \in Procs, StopRuntime(p), UNCHANGED <<world, calls>>
    PROVE  IInv'
<1>1. /\ pc[p] = "stop" /\ UNCHANGED <<record, nextId, removed, kept, receipts>> /\ TypeOK /\ Proc(p)
      /\ job[p] \in Jobs /\ job[p].verb = "stop" /\ job[p].op \in Operations
      /\ remote \in [Parts -> Resources \cup {Absent}] /\ nextId \in 0..MaxId /\ MaxId \in Nat
  BY Busy, BoundsAssumption DEF StopRuntime, IInv, Proc, LocalsOK, TypeOK
<1>2. /\ "stop" \in Active /\ "mark" \in Active /\ "commit" \in Active
      /\ "mark" \notin Running /\ {"mark", "commit"} \subseteq Positions
  BY DEF Active, Running, Positions
<1>3. PICK S \in SUBSET Containers :
          /\ remote' = [x \in Parts |-> IF x \in S /\ Present(x)
                                        THEN [remote[x] EXCEPT !.up = FALSE] ELSE remote[x]]
          /\ \/ Goto(p, "commit") /\ UNCHANGED <<job, unknown>>
             \/ Raise(p) /\ UNCHANGED unknown
             \/ Goto(p, "mark") /\ UNCHANGED job /\ unknown' = unknown \cup {<<job[p].op, "body">>}
  BY DEF StopRuntime
<1>4. ASSUME NEW x \in Parts
      PROVE  /\ remote'[x] \in Resources \cup {Absent} /\ remote'[x].id = remote[x].id
             /\ remote'[x].op = remote[x].op /\ (Present(x)' <=> Present(x))
  <2>1. CASE x \in S /\ Present(x)
    <3>1. remote[x] \in Resources
      BY <1>1, <2>1 DEF Present
    <3> DEFINE r == [remote[x] EXCEPT !.up = FALSE]
    <3>2. r \in Resources /\ r.id = remote[x].id /\ r.op = remote[x].op
      BY <3>1 DEF Resources
    <3>3. remote'[x] = r
      BY <1>3, <2>1
    <3> HIDE DEF r
    <3> QED BY <2>1, <3>1, <3>2, <3>3, ResourceFields DEF Present
  <2>2. CASE ~(x \in S /\ Present(x))
    BY <1>1, <1>3, <2>2 DEF Present
  <2> QED BY <2>1, <2>2
<1>5. remote' \in [Parts -> Resources \cup {Absent}]
  <2>1. remote' = [x \in Parts |-> remote'[x]]
    BY <1>3
  <2> QED BY <1>4, <2>1
<1>6. HostKept /\ IdsHandedOut'
  BY <1>1, <1>4 DEF HostKept, IInv, Shared, IdsHandedOut, Containers
<1>7. StoreStep /\ (NoneSucceeded => NoneSucceeded')
  BY <1>1 DEF StoreStep, NoneSucceeded
<1>8. ASSUME NEW l \in {"commit", "mark"}, Goto(p, l), UNCHANGED job
      PROVE  Moves(p, l) /\ Turn(p) /\ Proc(p)'
  <2>1. Moves(p, l) /\ job'[p] = job[p] /\ pc'[p] = l /\ Turn(p)
    BY <1>1, <1>2, <1>8, MovesOn DEF Moves
  <2>2. RevisionHeld(p)'
    BY <1>1, <1>2, <2>1 DEF Proc, RevisionHeld, Store!Current
  <2> QED BY <1>1, <1>2, <1>7, <2>1, <2>2, AdvanceProc
<1>9. CASE unknown' = unknown \cup {<<job[p].op, "body">>} /\ Goto(p, "mark") /\ UNCHANGED job
  <2>1. Moves(p, "mark") /\ Turn(p) /\ Proc(p)'
    BY <1>8, <1>9
  <2>2. UnknownHeld' /\ unknown' \subseteq Operations \X Places
    BY <1>1, <1>9, <2>1, UnknownAdded DEF TypeOK, Places
  <2> QED BY <1>1, <1>4, <1>5, <1>6, <2>1, <2>2, GrowthKeeps
<1>10. CASE UNCHANGED unknown /\ ((Goto(p, "commit") /\ UNCHANGED job) \/ Raise(p))
  <2>1. CASE Raise(p)
    <3>1. Rests(p)
      BY <1>1, <2>1, RaiseEnds DEF Rests
    <3>2. Turn(p) /\ Proc(p)'
      BY <1>1, <1>7, <3>1, RestsProc
    <3>3. UnknownHeld' /\ unknown' \subseteq Operations \X Places
      BY <1>1, <1>7, <1>10, <3>2, UnknownKeeps DEF TypeOK
    <3> QED BY <1>1, <1>4, <1>5, <1>6, <3>2, <3>3, GrowthKeeps
  <2>2. CASE Goto(p, "commit") /\ UNCHANGED job
    <3>1. Turn(p) /\ Proc(p)'
      BY <1>8, <2>2
    <3>2. UnknownHeld' /\ unknown' \subseteq Operations \X Places
      BY <1>1, <1>7, <1>10, <3>1, UnknownKeeps DEF TypeOK
    <3> QED BY <1>1, <1>4, <1>5, <1>6, <3>1, <3>2, GrowthKeeps
  <2> QED BY <1>10, <2>1, <2>2
<1> QED BY <1>3, <1>9, <1>10

-----------------------------------------------------------------------------
(* Calls and the coordinator.                                              *)

LEMMA PlanStarts == 1 \in 1..Len(PartList)
BY BoundsAssumption

LEMMA CallKeeps ==
    ASSUME IInv, NEW p \in Procs, NEW j \in Jobs, Call(p, j), UNCHANGED world,
           j.verb = "run" => j.op \in RunOps /\ j.owned = {} /\ j.at = 1,
           j.verb # "run" => j.op \notin RunOps /\ ~j.deploy,
           j.verb = "expose" => j.op \in ExposeOps, j.verb = "destroy" => j.op \in DestroyOps,
           j.deploy => j.runtime = j.op
    PROVE  IInv'
<1>1. /\ TypeOK /\ pc[p] = "idle" /\ calls' \in 0..MaxCalls
      /\ UNCHANGED <<record, remote, nextId, removed, kept, receipts, unknown>>
      /\ "concurrent" \in world \/ \A q \in Procs : pc[q] = "idle"
  BY BoundsAssumption DEF Call, MayCall, IInv, TypeOK, host, books
<1>2. Turn(p) /\ pc'[p] = "load" /\ job'[p] = j /\ j # NoJob /\ j.verb \in Verbs
  BY <1>1, TurnWith, JobFields DEF Call, Positions
<1>3. StoreStep /\ (NoneSucceeded => NoneSucceeded') /\ HostKept
  BY <1>1 DEF StoreStep, NoneSucceeded, HostKept, Present, TypeOK
<1>4. ASSUME NEW q \in Procs, q # p PROVE Proc(q)'
  BY <1>1, <1>2, <1>3, <1>4, OthersKeep
<1>5. Proc(p)'
  <2>1. LocalsOK(p)'
    BY <1>2 DEF LocalsOK, Verbs
  <2> QED
    BY <1>2, <2>1 DEF Proc, Checked, TargetOwn, RevisionHeld, RuntimeHeld, Active, Running
<1>6. Alone'
  BY <1>1, <1>2 DEF Alone, Turn
<1>7. UnknownHeld' /\ SucceededRuntime' /\ ReceiptsAgree'
  <2>1. \A x \in Parts : Present(x) => Present(x)'
    BY <1>1 DEF Present
  <2> QED BY <1>1, <1>2, <1>3, <2>1, UnknownKeeps, RuntimeKeeps, ReceiptsKeep
<1>8. TypeOK'
  BY <1>1, <1>2, <1>3, StoreKeeps DEF IInv, Shared, TypeOK, Turn
<1>9. RecordsOK' /\ IdsHandedOut' /\ CompensatesOnlyOwn'
  BY <1>1, <1>3, StoreKeeps DEF IInv, Shared, IdsHandedOut, CompensatesOnlyOwn
<1> QED BY <1>4, <1>5, <1>6, <1>7, <1>8, <1>9 DEF IInv, Shared

LEMMA CallVerbKeeps ==
    ASSUME IInv, NEW p \in Procs, CallVerb(p), UNCHANGED world
    PROVE  IInv'
<1>1. /\ RunOps \subseteq Operations /\ StopOps \subseteq Operations /\ DestroyOps \subseteq Operations
      /\ StatusOps \subseteq Operations /\ ExposeOps \subseteq Operations
      /\ \A o \in StopOps \cup DestroyOps \cup StatusOps \cup ExposeOps : o \notin RunOps
  BY OperationsAssumption DEF Operations
<1>2. ASSUME NEW v \in Verbs, NEW o \in Operations, Call(p, [NoJob EXCEPT !.verb = v, !.op = o]),
             v = "run" <=> o \in RunOps, v = "expose" => o \in ExposeOps, v # "destroy"
      PROVE  IInv'
  <2>0. PICK j : j = [NoJob EXCEPT !.verb = v, !.op = o]
    OBVIOUS
  <2>1. j \in Jobs /\ j.verb = v /\ j.op = o /\ j.deploy = FALSE /\ j.owned = {} /\ j.at = 1
    BY <2>0, PlanStarts DEF NoJob, Jobs
  <2>2. Call(p, j)
    BY <1>2, <2>0
  <2> QED BY <1>2, <2>1, <2>2, CallKeeps
<1>3. ASSUME NEW o \in DestroyOps,
             Call(p, [NoJob EXCEPT !.verb = "destroy", !.op = o, !.owned = kept])
      PROVE  IInv'
  <2>0. PICK j : j = [NoJob EXCEPT !.verb = "destroy", !.op = o, !.owned = kept]
    OBVIOUS
  <2>1. j \in Jobs /\ j.verb = "destroy" /\ j.op = o /\ j.deploy = FALSE
    <3>1. o \in Operations /\ kept \in SUBSET Owned
      BY <1>1 DEF IInv, TypeOK
    <3> QED BY <2>0, <3>1, PlanStarts DEF NoJob, Jobs, Verbs
  <2>2. Call(p, j)
    BY <1>3, <2>0
  <2> QED BY <1>1, <1>3, <2>1, <2>2, CallKeeps
<1>4. {"run", "stop", "status", "expose"} \subseteq Verbs
  BY DEF Verbs
<1>5. CASE \E o \in RunOps : Call(p, [NoJob EXCEPT !.verb = "run", !.op = o])
  BY <1>1, <1>2, <1>4, <1>5
<1>6. CASE \E o \in StopOps : Call(p, [NoJob EXCEPT !.verb = "stop", !.op = o])
  BY <1>1, <1>2, <1>4, <1>6
<1>7. CASE \E o \in StatusOps : Call(p, [NoJob EXCEPT !.verb = "status", !.op = o])
  BY <1>1, <1>2, <1>4, <1>7
<1>8. CASE \E o \in ExposeOps : Call(p, [NoJob EXCEPT !.verb = "expose", !.op = o])
  BY <1>1, <1>2, <1>4, <1>8
<1> QED BY <1>3, <1>5, <1>6, <1>7, <1>8 DEF CallVerb

LEMMA DeployKeeps ==
    ASSUME IInv, NEW p \in Procs, NEW o \in RunOps, NEW e \in ExposeOps \cup {NoOp}, Deploy(p, o, e),
           UNCHANGED world
    PROVE  IInv'
<1>0. PICK j : j = [NoJob EXCEPT !.verb = "run", !.op = o, !.deploy = TRUE, !.runtime = o, !.next = e]
  OBVIOUS
<1>1. /\ j \in Jobs /\ j.verb = "run" /\ j.op = o /\ j.deploy = TRUE /\ j.runtime = o
      /\ j.owned = {} /\ j.at = 1
  <2>1. "run" \in Verbs /\ o \in Operations
    BY DEF Verbs, Operations
  <2> QED BY <1>0, <2>1, PlanStarts DEF NoJob, Jobs
<1>2. Call(p, j)
  BY <1>0 DEF Deploy
<1> QED BY <1>1, <1>2, CallKeeps

LEMMA CheckKeeps ==
    ASSUME IInv, NEW p \in Procs, Check(p), UNCHANGED <<world, calls>>
    PROVE  IInv'
<1>1. /\ pc[p] = "check" /\ UNCHANGED <<record, host, books>> /\ TypeOK /\ Proc(p) /\ job[p] \in Jobs
      /\ job[p].deploy /\ job[p].runtime \in RunOps /\ job[p].next \in ExposeOps \cup {NoOp}
      /\ job[p].op \in Operations /\ job[p].verb \in {"run", "expose"}
      /\ job[p].verb = "run" => job[p].runtime = job[p].op
  BY Busy DEF Check, IInv, Proc, LocalsOK
<1>2. /\ StoreStep /\ (NoneSucceeded => NoneSucceeded') /\ kept' \subseteq Owned
      /\ UNCHANGED <<receipts, unknown>>
  BY <1>1 DEF StoreStep, NoneSucceeded, books, TypeOK
<1>3. CASE Idle(p)
  <2>1. Rests(p)
    BY <1>1, <1>3, IdleEnds DEF Rests
  <2> QED BY <1>1, <1>2, <2>1, RestKeeps
<1>4. CASE ValidTerminal(job[p].op, "succeeded") /\ Goto(p, "deliver") /\ UNCHANGED job
           /\ ~(job[p].verb = "run" /\ job[p].next # NoOp)
  <2>1. Turn(p) /\ pc'[p] = "deliver" /\ job'[p] = job[p] /\ job[p] # NoJob
    BY <1>1, <1>4, MovesOn, JobFields DEF Moves, Positions
  <2>2. LocalsOK(p)' /\ Checked(p)'
    BY <1>1, <1>4, <2>1 DEF Proc, LocalsOK, Checked, ValidTerminal
  <2>3. Proc(p)'
    BY <1>1, <2>1, <2>2 DEF Proc, TargetOwn, RevisionHeld, RuntimeHeld, Active, Running
  <2> QED BY <1>1, <1>2, <2>1, <2>3, QuietStepKeeps
<1>5. ASSUME ValidTerminal(job[p].op, "succeeded"), job[p].verb = "run", job[p].next # NoOp,
             Goto(p, "load"),
             With(p, [NoJob EXCEPT !.verb = "expose", !.op = job[p].next, !.deploy = TRUE,
                                   !.runtime = job[p].runtime, !.next = job[p].next])
      PROVE  IInv'
  <2> DEFINE e == job[p].next
             r == job[p].runtime
  <2>0. PICK j : j = [NoJob EXCEPT !.verb = "expose", !.op = e, !.deploy = TRUE, !.runtime = r, !.next = e]
    OBVIOUS
  <2>1. /\ e \in ExposeOps /\ e \in Operations /\ e \notin RunOps /\ "expose" \in Verbs
        /\ "load" \in Positions
    BY <1>1, <1>5, OperationsAssumption DEF Operations, Verbs, Positions
  <2>2. /\ j \in Jobs /\ j.verb = "expose" /\ j.op = e /\ j.deploy = TRUE
        /\ j.runtime = r /\ j.next = e
    BY <1>1, <2>0, <2>1, PlanStarts DEF NoJob, Jobs
  <2>3. With(p, j)
    BY <1>5, <2>0
  <2>4. Turn(p) /\ pc'[p] = "load" /\ job'[p] = j /\ j # NoJob
    BY <1>1, <1>5, <2>1, <2>2, <2>3, TurnWith, JobFields
  <2>5. LocalsOK(p)'
    BY <1>1, <2>1, <2>2, <2>4 DEF LocalsOK
  <2>6. Checked(p)'
    BY <1>1, <1>5, <2>2, <2>4 DEF Checked, ValidTerminal
  <2>7. Proc(p)'
    BY <2>2, <2>4, <2>5, <2>6 DEF Proc, TargetOwn, RevisionHeld, RuntimeHeld, Active, Running
  <2> QED BY <1>1, <1>2, <2>4, <2>7, QuietStepKeeps
<1> QED BY <1>3, <1>4, <1>5 DEF Check

(* What a receipt says, on record. *)
Backed(r) ==
    IF r.outcome = "succeeded"
    THEN \A o \in {r.runtime, r.exposure} \ {NoOp} : ValidTerminal(o, "succeeded")
    ELSE IF r.exposure = NoOp THEN ValidTerminal(r.runtime, "failed")
    ELSE ValidTerminal(r.runtime, "succeeded") /\ ValidTerminal(r.exposure, "failed")

(* Records that back two receipts for one deployment back the same receipt. *)
LEMMA ReceiptAdded ==
    ASSUME IInv, UNCHANGED record, NEW r \in Receipts, Backed(r), receipts' = receipts \cup {r}
    PROVE  ReceiptsAgree'
<1>1. \A q \in receipts : q \in Receipts /\ Backed(q)
  BY DEF IInv, Shared, TypeOK, ReceiptsAgree, Backed
<1>2. ASSUME NEW q \in Receipts, NEW s \in Receipts, Backed(q), Backed(s),
             q.runtime = s.runtime, q.exposure = s.exposure
      PROVE  q = s
  <2>1. /\ q.outcome \in {"succeeded", "failed"} /\ s.outcome \in {"succeeded", "failed"}
        /\ q.runtime # NoOp
    BY OperationsAssumption DEF Receipts, Operations
  <2>2. q.outcome = s.outcome
    BY <1>2, <2>1 DEF Backed, ValidTerminal
  <2> QED BY <1>2, <2>2 DEF Receipts
<1>3. \A q \in receipts' : q \in Receipts /\ Backed(q) /\ Backed(q)'
  BY <1>1 DEF Backed, ValidTerminal
<1> QED BY <1>2, <1>3 DEF ReceiptsAgree, Backed

(* A deployment that is over, its receipt given. *)
LEMMA ReceiptKeeps ==
    ASSUME IInv, NEW p \in Procs, pc[p] \in {"deliver", "settle"}, Idle(p),
           UNCHANGED <<world, calls, record, host, kept, unknown>>,
           UNCHANGED receipts \/ \E r \in Receipts : Backed(r) /\ receipts' = receipts \cup {r}
    PROVE  IInv'
<1> USE DEF host
<1>1. StoreStep /\ (NoneSucceeded => NoneSucceeded') /\ TypeOK /\ pc[p] # "idle" /\ pc[p] # "mark"
  BY DEF StoreStep, NoneSucceeded, IInv
<1>2. Rests(p) /\ Turn(p) /\ Proc(p)'
  BY <1>1, IdleEnds, RestsProc DEF Rests
<1>3. ReceiptsAgree' /\ receipts' \subseteq Receipts
  BY <1>1, ReceiptAdded, ReceiptsKeep DEF TypeOK
<1>4. HostKept /\ (\A x \in Parts : Present(x) => Present(x)')
  BY <1>1 DEF HostKept, Present, TypeOK
<1>5. TypeOK'
  BY <1>1, <1>2, <1>3, StoreKeeps DEF IInv, Shared, TypeOK, Turn
<1>6. IdsHandedOut' /\ CompensatesOnlyOwn'
  BY DEF IInv, Shared, IdsHandedOut, CompensatesOnlyOwn
<1>7. UnknownHeld' /\ SucceededRuntime'
  BY <1>1, <1>2, <1>4, UnknownKeeps, RuntimeKeeps
<1> QED BY <1>1, <1>2, <1>3, <1>4, <1>5, <1>6, <1>7, StepKeeps

LEMMA DeliverKeeps ==
    ASSUME IInv, NEW p \in Procs, Deliver(p), UNCHANGED <<world, calls>>
    PROVE  IInv'
<1> DEFINE r == ReceiptFor(job[p], job[p].next, "succeeded")
<1>1. /\ pc[p] = "deliver" /\ Idle(p) /\ UNCHANGED <<record, host, kept, unknown>> /\ Proc(p)
      /\ receipts' = receipts \cup {r} /\ job[p].next \in ExposeOps \cup {NoOp}
      /\ job[p].op \in Operations /\ job[p].deploy /\ job[p].verb \in {"run", "expose"}
      /\ job[p].runtime \in RunOps
  BY Busy DEF Deliver, IInv, Proc, LocalsOK
<1>2. /\ r \in Receipts /\ r.runtime = job[p].runtime /\ r.exposure = job[p].next
      /\ r.outcome = "succeeded"
  BY <1>1 DEF ReceiptFor, Receipts
<1>3. Backed(r)
  <2> HIDE DEF r
  <2>1. ValidTerminal(job[p].op, "succeeded")
    BY <1>1 DEF Proc, Checked
  <2>2. CASE job[p].verb = "run"
    BY <1>1, <1>2, <2>1, <2>2 DEF Proc, Checked, LocalsOK, Backed
  <2>3. CASE job[p].verb = "expose"
    BY <1>1, <1>2, <2>1, <2>3 DEF Proc, Checked, LocalsOK, Backed
  <2> QED BY <1>1, <2>2, <2>3
<1> HIDE DEF r
<1> QED BY <1>1, <1>2, <1>3, ReceiptKeeps

LEMMA SettleKeeps ==
    ASSUME IInv, NEW p \in Procs, Settle(p), UNCHANGED <<world, calls>>
    PROVE  IInv'
<1> DEFINE e == IF job[p].verb = "run" THEN NoOp ELSE job[p].op
           r == ReceiptFor(job[p], e, "failed")
<1>1. /\ pc[p] = "settle" /\ Idle(p) /\ UNCHANGED <<record, host, kept, unknown>> /\ Proc(p)
      /\ job[p].op \in Operations /\ job[p].deploy /\ job[p].verb \in {"run", "expose"}
      /\ job[p].runtime \in RunOps /\ e \in ExposeOps \cup {NoOp}
      /\ job[p].verb = "expose" => e \in ExposeOps
      /\ job[p].verb = "run" => job[p].runtime = job[p].op
  BY Busy DEF Settle, IInv, Proc, LocalsOK
<1>2. \/ UNCHANGED receipts
      \/ /\ receipts' = receipts \cup {r} /\ ValidTerminal(job[p].op, "failed")
         /\ job[p].verb = "expose" => ValidTerminal(job[p].runtime, "succeeded")
  BY DEF Settle
<1>3. CASE /\ receipts' = receipts \cup {r} /\ ValidTerminal(job[p].op, "failed")
           /\ job[p].verb = "expose" => ValidTerminal(job[p].runtime, "succeeded")
  <2>1. /\ r \in Receipts /\ r.runtime = job[p].runtime /\ r.exposure = e /\ r.outcome = "failed"
    BY <1>1 DEF ReceiptFor, Receipts
  <2> HIDE DEF r
  <2>2. NoOp \notin ExposeOps
    BY OperationsAssumption DEF Operations
  <2>3. Backed(r)
    BY <1>1, <1>3, <2>1, <2>2 DEF Backed
  <2> QED BY <1>1, <1>3, <2>1, <2>3, ReceiptKeeps
<1> HIDE DEF r
<1>4. CASE UNCHANGED receipts
  BY <1>1, <1>4, ReceiptKeeps
<1> QED BY <1>2, <1>3, <1>4
-----------------------------------------------------------------------------
LEMMA InitInv == Init => IInv
<1> SUFFICES ASSUME Init PROVE IInv
  OBVIOUS
<1>1. /\ Store!NoRecord \in Store!Records /\ Store!NoRecord.lifecycle = "none"
      /\ Store!NoRecord.outcome = "none"
  BY Ranks DEF Store!NoRecord, Store!Records
<1>2. \A o \in Operations : record[o] = Store!NoRecord
  BY DEF Init, Store!Init
<1>3. Store!TypeOK
  BY <1>1, <1>2 DEF Init, Store!Init, Store!TypeOK
<1>4. [op |-> Foreign, id |-> 0, up |-> TRUE] \in Resources
  BY BoundsAssumption DEF Resources
<1>5. remote \in [Parts -> Resources \cup {Absent}]
  BY <1>4 DEF Init
<1>6. TypeOK
  BY <1>3, <1>5, BoundsAssumption DEF Init, TypeOK, Positions
<1>7. RecordsOK
  BY <1>1, <1>2 DEF RecordsOK, Store!ValidRecord, Store!PostCommitStates, Store!TerminalOutcomes
<1>8. IdsHandedOut
  <2>1. \A x \in Parts : remote[x] \in {Absent, [op |-> Foreign, id |-> 0, up |-> TRUE]}
    BY DEF Init
  <2>2. \A x \in Parts : remote[x].id = 0
    BY <2>1 DEF Absent
  <2> QED BY <2>2 DEF IdsHandedOut, Init
<1>9. SucceededRuntime
  BY <1>1, <1>2 DEF SucceededRuntime, Operations
<1>10. UnknownHeld /\ CompensatesOnlyOwn /\ ReceiptsAgree /\ Alone
  BY DEF Init, UnknownHeld, InBody, CompensatesOnlyOwn, ReceiptsAgree, Alone
<1>11. ASSUME NEW p \in Procs PROVE Proc(p)
  <2>1. pc[p] = "idle" /\ job[p] = NoJob
    BY DEF Init
  <2> QED
    BY <2>1, NoJobFields DEF Proc, LocalsOK, Checked, TargetOwn, RevisionHeld, RuntimeHeld, Active,
       Running
<1> QED BY <1>6, <1>7, <1>8, <1>9, <1>10, <1>11 DEF IInv, Shared

LEMMA StutterKeeps ==
    ASSUME IInv, UNCHANGED vars
    PROVE  IInv'
BY DEF IInv, TypeOK, Store!TypeOK, Shared, RecordsOK, IdsHandedOut, UnknownHeld, InBody, SucceededRuntime,
   CompensatesOnlyOwn, ReceiptsAgree, Alone, Proc, LocalsOK, Checked, TargetOwn, RevisionHeld,
   RuntimeHeld, Quiet, Whole, NoneSucceeded, Started, Present, ValidTerminal, Store!Current, vars

LEMMA NextInv == IInv /\ [Next]_vars => IInv'
<1> SUFFICES ASSUME IInv, [Next]_vars PROVE IInv'
  OBVIOUS
<1>1. CASE UNCHANGED vars
  BY <1>1, StutterKeeps
<1>2. ASSUME NEW p \in Procs, CallVerb(p), UNCHANGED world PROVE IInv'
  BY <1>2, CallVerbKeeps
<1>3. ASSUME NEW p \in Procs, NEW o \in RunOps, NEW e \in ExposeOps \cup {NoOp}, Deploy(p, o, e),
             UNCHANGED world
      PROVE  IInv'
  BY <1>3, DeployKeeps
<1>4. ASSUME NEW p \in Procs, Step(p), UNCHANGED <<world, calls>> PROVE IInv'
  BY <1>4, LoadKeeps, PreflightKeeps, CreateKeeps, CheckpointKeeps, ReadyKeeps, CommitKeeps,
     UndoKeeps, RmKeeps, FailKeeps, MarkKeeps, StopRuntimeKeeps, ObserveKeeps, VerifyKeeps,
     CheckKeeps, DeliverKeeps, SettleKeeps DEF Step
<1>5. ASSUME NEW p \in Procs, Crash(p), UNCHANGED <<world, calls>> PROVE IInv'
  BY <1>5, CrashKeeps
<1> QED BY <1>1, <1>2, <1>3, <1>4, <1>5 DEF Next

(* The inductive invariant holds for any callers, operations and plans, in  *)
(* every environment.                                                       *)
THEOREM Invariance == Spec => []IInv
BY InitInv, NextInv, PTL DEF Spec

(* The variables keep their types: locals, records, resources and receipts. *)
THEOREM TypeCorrect == Spec => []TypeOK
<1>1. IInv => TypeOK
  BY DEF IInv
<1> QED BY <1>1, Invariance, PTL

(* A run that is recorded as succeeded left the whole runtime on the host,  *)
(* across crashes, replays, adoption and the compensation of other runs     *)
(* (VpsBackendProvider.run, RemoteDockerMechanics.ensure_runtime).          *)
THEOREM SuccessIsWhole == Spec => []SucceededRuntime
<1>1. IInv => SucceededRuntime
  BY DEF IInv, Shared
<1> QED BY <1>1, Invariance, PTL

(* Compensation and destroy remove only what the operation in the ownership *)
(* proof created (_proves_created), but for volumes under overlapping calls.*)
THEOREM CompensationOfOwnOnly == Spec => []CompensatesOnlyOwn
<1>1. IInv => CompensatesOnlyOwn
  BY DEF IInv, Shared
<1> QED BY <1>1, Invariance, PTL

(* Receipts are backed by terminal records and never contradict each other  *)
(* (_valid_terminal, _record_validated_failure).                            *)
THEOREM ReceiptsNeverContradict == Spec => []ReceiptsAgree
<1>1. IInv => ReceiptsAgree
  BY DEF IInv, Shared
<1> QED BY <1>1, Invariance, PTL

(* A mutation of a verb whose outcome SSH could not tell is on record once   *)
(* its caller is done (the except clauses of run, stop and destroy): a       *)
(* create, a stop, a removal of destroy or of ensure_runtime's compensation. *)
THEOREM UnknownOutcomesSurface == Spec => []UnknownSurfaced
<1>1. IInv => UnknownSurfaced
  <2> SUFFICES ASSUME IInv, world \cap {"crash", "store", "concurrent"} = {}, NEW o \in Operations,
                      <<o, "body">> \in unknown, ~Working(o)
               PROVE  Store!LifecycleOrder[record[o].lifecycle] >= 2
    BY DEF UnknownSurfaced, Surfaced
  <2> QED BY DEF IInv, Shared, UnknownHeld, InBody, Working
<1> QED BY <1>1, Invariance, PTL
=============================================================================
