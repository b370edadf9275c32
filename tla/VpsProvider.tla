---------------------------- MODULE VpsProvider ----------------------------
(***************************************************************************)
(* VpsBackendProvider and RemoteDockerMechanics (odoo_forge_docker/vps):   *)
(* operation-bound verbs against one remote host over SSH, journalled in   *)
(* the durable operation store, and RemoteDeploymentCoordinator            *)
(* (odoo_forge/remote_deployment.py), which runs a runtime, then exposes   *)
(* it, and hands a receipt to its recorder.                                *)
(*                                                                         *)
(* One SSH command and one store call is a step.  OpenSshTransport._invoke *)
(* raises before the mutation ("refused"), with its outcome unknown        *)
(* ("unknown"), or not at all: a remote command that merely fails          *)
(* ("docker") returns its output like any other, and _run drops the code.  *)
(***************************************************************************)
EXTENDS Naturals, Sequences

CONSTANTS
    Procs,                                      \* callers
    RunOps, StopOps, DestroyOps, StatusOps, ExposeOps, NoOp,
    PartList,       \* the resources of the plan, in creation order
    VolumeParts,    \* those of them that are volumes: their name is their identity
    Foreign,        \* creator of resources an earlier deployment left, adoptable
    MaxId,          \* bound: docker ids handed out
    MaxCalls,       \* bound: calls made
    Worlds          \* the environments a behaviour may run in

Operations == RunOps \cup StopOps \cup DestroyOps \cup StatusOps \cup ExposeOps

Features == {"concurrent",  \* calls overlap
             "crash",       \* callers die
             "refused",     \* SSH fails before the mutation, or a check refuses
             "unknown",     \* SSH dies while a mutation is under way
             "docker",      \* remote commands exit with an error
             "store",       \* store calls raise, with or without their effect
             "notready",    \* the runtime or the route does not get ready
             "adopt"}       \* resources of an earlier deployment are there

ASSUME WorldsAssumption == Worlds \subseteq SUBSET Features

(* The request digest of an operation covers its verb (_begin): no run is   *)
(* an operation of another verb.                                            *)
ASSUME OperationsAssumption ==
    /\ NoOp \notin Operations \cup {Foreign} /\ Foreign \notin Operations
    /\ RunOps \cap (StopOps \cup DestroyOps \cup StatusOps \cup ExposeOps) = {}

(* A plan has at least its Odoo container. *)
ASSUME BoundsAssumption == MaxId \in Nat /\ MaxCalls \in Nat /\ Len(PartList) \in Nat \ {0}

VARIABLES
    world,          \* fixed by Init
    record,         \* the durable operation store
    remote,         \* the remote host: part -> resource or Absent
    nextId,         \* docker ids handed out so far
    calls,          \* calls made so far
    pc, job,        \* per caller: position and locals of its call
    kept,           \* OwnershipRecords callers kept from successful runs
    receipts,       \* RemoteDeploymentReceipts given to the recorder
    unknown,        \* ghost: <<operation, place>> of mutations of unknown outcome
    removed         \* ghost: <<part, operation in the proof, creator>> of removed resources

vars == <<world, record, remote, nextId, calls, pc, job, kept, receipts, unknown, removed>>

Store == INSTANCE DurableOperations

Parts == {PartList[i] : i \in 1..Len(PartList)}

Containers == Parts \ VolumeParts

Absent == [op |-> NoOp, id |-> 0, up |-> FALSE]

Resources == [op : Operations \cup {Foreign}, id : 0..MaxId, up : BOOLEAN]

(* OwnershipRecord of a created resource; id 0 is the name, the identity of *)
(* a volume and the stand-in for the output of a command that failed.       *)
Owned == [part : Parts, id : 0..MaxId, op : RunOps]

NoTarget == [part |-> "none", id |-> 0, op |-> NoOp]

Verbs == {"run", "stop", "destroy", "status", "expose"}

NoJob == [verb |-> "none", op |-> NoOp, deploy |-> FALSE, runtime |-> NoOp, next |-> NoOp,
          rev |-> 0, seen |-> {}, at |-> 1, owned |-> {}, inner |-> FALSE, target |-> NoTarget]

Jobs == [verb : Verbs, op : Operations, deploy : BOOLEAN, runtime : RunOps \cup {NoOp},
         next : ExposeOps \cup {NoOp}, rev : Nat, seen : SUBSET Parts, at : 1..Len(PartList),
         owned : SUBSET Owned, inner : BOOLEAN, target : Owned \cup {NoTarget}]

(* Where SSH lost a mutation: in the body of the verb's try, ensure_runtime's *)
(* own compensation included, or in the compensation of run's except clause.  *)
Places == {"body", "handler"}

Receipts == [runtime : RunOps, exposure : ExposeOps \cup {NoOp}, outcome : {"succeeded", "failed"}]

Positions == {"idle", "load", "preflight", "create", "checkpoint", "ready", "ready_checkpoint",
              "commit", "undo", "rm", "fail", "mark", "stop", "observe", "verify", "settle",
              "check", "deliver"}

Init ==
    /\ world \in Worlds
    /\ Store!Init
    /\ remote \in [Parts -> {Absent} \cup
                     (IF "adopt" \in world THEN {[op |-> Foreign, id |-> 0, up |-> TRUE]} ELSE {})]
    /\ nextId = 0 /\ calls = 0
    /\ pc = [p \in Procs |-> "idle"]
    /\ job = [p \in Procs |-> NoJob]
    /\ kept = {} /\ receipts = {} /\ unknown = {} /\ removed = {}

-----------------------------------------------------------------------------
host == <<remote, nextId, removed>>
books == <<kept, receipts, unknown>>

Present(x) == remote[x] # Absent

Goto(p, l) == pc' = [pc EXCEPT ![p] = l]

With(p, j) == job' = [job EXCEPT ![p] = j]

Idle(p) == Goto(p, "idle") /\ With(p, NoJob)

(* The verb returns: deploy goes on to check the record. *)
Return(p) == IF job[p].deploy THEN Goto(p, "check") /\ UNCHANGED job ELSE Idle(p)

(* The verb raises: deploy goes to _record_validated_failure. *)
Raise(p) == IF job[p].deploy THEN Goto(p, "settle") /\ UNCHANGED job ELSE Idle(p)

(* The except clause of run around everything after ensure_runtime. *)
RaiseInRun(p) == Goto(p, "undo") /\ UNCHANGED job

(* A store call of p: it succeeds, is refused, or its answer is lost. *)
StoreCall(may, write, then, else) ==
    \/ may /\ write /\ then
    \/ may /\ write /\ "store" \in world /\ else
    \/ (~may \/ "store" \in world) /\ UNCHANGED record /\ else

Later(p, l) == Goto(p, l) /\ With(p, [job[p] EXCEPT !.rev = @ + 1])

-----------------------------------------------------------------------------
(* The verbs.                                                              *)
MayCall(p) ==
    /\ pc[p] = "idle"
    /\ "concurrent" \in world \/ \A q \in Procs : pc[q] = "idle"

Call(p, j) ==
    /\ MayCall(p) /\ calls < MaxCalls
    /\ calls' = calls + 1
    /\ Goto(p, "load") /\ With(p, j)
    /\ UNCHANGED <<record, host, books>>

CallVerb(p) ==
    \/ \E o \in RunOps : Call(p, [NoJob EXCEPT !.verb = "run", !.op = o])
    \/ \E o \in StopOps : Call(p, [NoJob EXCEPT !.verb = "stop", !.op = o])
    \/ \E o \in DestroyOps : Call(p, [NoJob EXCEPT !.verb = "destroy", !.op = o, !.owned = kept])
    \/ \E o \in StatusOps : Call(p, [NoJob EXCEPT !.verb = "status", !.op = o])
    \/ \E o \in ExposeOps : Call(p, [NoJob EXCEPT !.verb = "expose", !.op = o])

(* RemoteDeploymentCoordinator.deploy, with or without exposure intent. *)
Deploy(p, o, e) ==
    Call(p, [NoJob EXCEPT !.verb = "run", !.op = o, !.deploy = TRUE, !.runtime = o, !.next = e])

(* _begin: create_or_load. An operation that succeeded or was closed is not *)
(* done again; reconcile of an exposure has no such test.                   *)
Load(p) ==
    /\ pc[p] = "load"
    /\ Store!CreateOrLoad(job[p].op)
    /\ LET r == record'[job[p].op]
           j == [job[p] EXCEPT !.rev = r.revision]
           resolved == r.lifecycle \in {"succeeded", "closed"}
       IN  CASE j.verb = "expose" -> Goto(p, "verify") /\ With(p, j)
             [] j.verb # "expose" /\ resolved -> Return(p)
             [] j.verb = "run" /\ ~resolved -> Goto(p, "preflight") /\ With(p, j)
             [] j.verb = "stop" /\ ~resolved -> Goto(p, "stop") /\ With(p, j)
             [] j.verb = "destroy" /\ ~resolved -> Goto(p, "undo") /\ With(p, j)
             [] j.verb = "status" /\ ~resolved -> Goto(p, "observe") /\ With(p, j)
    /\ UNCHANGED <<host, books>>

(* _prepare_runtime and _preflight: what is there is remembered, and        *)
(* anything outside the bound scope refused.                                *)
Preflight(p) ==
    /\ pc[p] = "preflight"
    /\ \/ Goto(p, "create") /\ With(p, [job[p] EXCEPT !.seen = {x \in Parts : Present(x)}])
       \/ "refused" \in world /\ RaiseInRun(p)
    /\ UNCHANGED <<record, host, books>>

(* docker network/volume create, docker run of one part. Creating a volume  *)
(* that exists succeeds; a taken container name is an error of the command. *)
MakePart(p, x) ==
    /\ ~Present(x)
    /\ x \in Containers => nextId < MaxId
    /\ LET d == IF x \in VolumeParts THEN 0 ELSE nextId + 1 IN
       /\ remote' = [remote EXCEPT ![x] = [op |-> job[p].op, id |-> d, up |-> TRUE]]
       /\ nextId' = IF x \in VolumeParts THEN nextId ELSE d

(* Mutant: the last part of the plan is left out. *)
NextPartShort(p, x, d) ==
    /\ Goto(p, IF job[p].at + 1 >= Len(PartList) THEN "checkpoint" ELSE "create")
    /\ With(p, [job[p] EXCEPT !.at = IF @ = Len(PartList) THEN @ ELSE @ + 1,
                              !.owned = IF x \in job[p].seen THEN @
                                        ELSE @ \cup {[part |-> x, id |-> d, op |-> job[p].op]}])

(* Mutant: the position moves on past the last part. *)
NextPartPastEnd(p, x, d) ==
    /\ Goto(p, IF job[p].at = Len(PartList) THEN "checkpoint" ELSE "create")
    /\ With(p, [job[p] EXCEPT !.at = @ + 1,
                              !.owned = IF x \in job[p].seen THEN @
                                        ELSE @ \cup {[part |-> x, id |-> d, op |-> job[p].op]}])

NextPart(p, x, d) ==
    /\ Goto(p, IF job[p].at = Len(PartList) THEN "checkpoint" ELSE "create")
    /\ With(p, [job[p] EXCEPT !.at = IF @ = Len(PartList) THEN @ ELSE @ + 1,
                              !.owned = IF x \in job[p].seen THEN @
                                        ELSE @ \cup {[part |-> x, id |-> d, op |-> job[p].op]}])

(* ensure_runtime, one part: found in the preflight and adopted, or made.   *)
(* The bootstrap container of a managed Odoo is part of making the last one.*)
Create(p) ==
    /\ pc[p] = "create"
    /\ LET x == PartList[job[p].at] IN
       \/ x \in job[p].seen /\ NextPart(p, x, 0) /\ UNCHANGED <<remote, nextId, unknown>>
       \/ /\ x \notin job[p].seen
          /\ MakePart(p, x) /\ NextPart(p, x, remote'[x].id) /\ UNCHANGED unknown
       \/ /\ x \notin job[p].seen
          /\ Present(x) \/ "docker" \in world
          /\ NextPart(p, x, 0) /\ UNCHANGED <<remote, nextId, unknown>>
       \/ /\ x \notin job[p].seen /\ "refused" \in world
          /\ Goto(p, "undo") /\ With(p, [job[p] EXCEPT !.inner = TRUE])
          /\ UNCHANGED <<remote, nextId, unknown>>
       \/ /\ x \notin job[p].seen /\ "unknown" \in world
          /\ MakePart(p, x) \/ UNCHANGED <<remote, nextId>>
          /\ Goto(p, "mark") /\ With(p, [job[p] EXCEPT !.owned = {}])
          /\ unknown' = unknown \cup {<<job[p].op, "body">>}
    /\ UNCHANGED <<record, removed, kept, receipts>>

Checkpoint(p) ==
    /\ pc[p] \in {"checkpoint", "ready_checkpoint"}
    /\ LET o == job[p].op
           r == job[p].rev
       IN  StoreCall(Store!MayCheckpoint(o, r), Store!SaveCheckpoint(o, r),
                     Later(p, IF pc[p] = "checkpoint" THEN "ready" ELSE "commit"),
                     RaiseInRun(p))
    /\ UNCHANGED <<host, books>>

(* runtime_ready: docker inspect leaves out the containers that are missing *)
(* and the answer is about the rest.                                        *)
Ready(p) ==
    /\ pc[p] = "ready"
    /\ \/ /\ \A x \in Containers : Present(x) => remote[x].up
          /\ Goto(p, "ready_checkpoint") /\ UNCHANGED job
       \/ /\ \/ \E x \in Containers : Present(x) /\ ~remote[x].up
             \/ world \cap {"notready", "refused"} # {}
          /\ RaiseInRun(p)
    /\ UNCHANGED <<record, host, books>>

(* The terminal commit of a success. Only run and reconcile make it inside  *)
(* their try.                                                               *)
Commit(p) ==
    /\ pc[p] = "commit"
    /\ LET o == job[p].op
           r == job[p].rev
           failed == CASE job[p].verb = "run" -> RaiseInRun(p)
                       [] job[p].verb = "expose" -> Goto(p, "fail") /\ UNCHANGED job
                       [] OTHER -> Raise(p)
       IN  /\ StoreCall(Store!MayCommit(o, r), Store!CommitTerminal(o, r, "succeeded", FALSE),
                        Return(p), failed)
           /\ kept' = IF job[p].verb = "run" /\ record' # record
                      THEN kept \cup job[p].owned ELSE kept
    /\ UNCHANGED <<host, receipts, unknown>>

-----------------------------------------------------------------------------
(* Taking down: compensation of a failed run, and destroy.                 *)
(* Mutant: in the order of creation. *)
FirstPart(c, S) == \A other \in S : \E i, k \in 1..Len(PartList) :
                      PartList[i] = c.part /\ PartList[k] = other.part /\ i <= k

(* reversed(ownership): c is the newest of S. *)
LastPart(c, S) == \A other \in S : \E i, k \in 1..Len(PartList) :
                     PartList[i] = c.part /\ PartList[k] = other.part /\ k <= i

(* Mutant: the identity of the live resource is not compared. *)
ProvesByName(c) == Present(c.part)

(* _proves_created: same identity, same operation in the labels. *)
Proves(c) == Present(c.part) /\ remote[c.part].id = c.id /\ remote[c.part].op = c.op

(* _destroy_owned, newest first; a proof that cannot be had skips the part. *)
Undo(p) ==
    /\ pc[p] = "undo"
    /\ \/ /\ job[p].owned = {}
          /\ Goto(p, IF job[p].verb = "destroy" THEN "commit" ELSE "fail") /\ UNCHANGED job
       \/ \E c \in job[p].owned :
             /\ LastPart(c, job[p].owned)
             /\ \/ /\ Proves(c)
                   /\ Goto(p, "rm") /\ With(p, [job[p] EXCEPT !.target = c])
                \/ /\ ~Proves(c) \/ "refused" \in world
                   /\ With(p, [job[p] EXCEPT !.owned = @ \ {c}]) /\ UNCHANGED pc
    /\ UNCHANGED <<record, host, books>>

Removable(c) ==
    IF c.part \in VolumeParts THEN \A x \in Containers : ~Present(x)
                              ELSE remote[c.part].id = c.id

RemovePart(c) ==
    /\ Present(c.part) /\ Removable(c)
    /\ remote' = [remote EXCEPT ![c.part] = Absent]
    /\ removed' = removed \cup {<<c.part, c.op, remote[c.part].op>>}
    /\ UNCHANGED nextId

UndoPlace(p) == IF job[p].inner \/ job[p].verb = "destroy" THEN "body" ELSE "handler"

(* An exception out of the compensation: inside ensure_runtime it reaches   *)
(* run's except clause, inside that clause it leaves run at once.           *)
RaiseInUndo(p, how) ==
    IF how = "unknown" /\ UndoPlace(p) = "body"
    THEN Goto(p, "mark") /\ With(p, [job[p] EXCEPT !.owned = {}])
    ELSE IF job[p].inner THEN Goto(p, "fail") /\ With(p, [job[p] EXCEPT !.owned = {}])
    ELSE Raise(p)

Rm(p) ==
    /\ pc[p] = "rm"
    /\ LET c == job[p].target
           done == Goto(p, "undo") /\ With(p, [job[p] EXCEPT !.owned = @ \ {c}, !.target = NoTarget])
       IN
       \/ RemovePart(c) /\ done /\ UNCHANGED unknown
       \/ /\ ~Present(c.part) \/ ~Removable(c) \/ "docker" \in world
          /\ done /\ UNCHANGED <<host, unknown>>
       \/ "refused" \in world /\ RaiseInUndo(p, "plain") /\ UNCHANGED <<host, unknown>>
       \/ /\ "unknown" \in world
          /\ RemovePart(c) \/ UNCHANGED host
          /\ RaiseInUndo(p, "unknown")
          /\ unknown' = unknown \cup {<<job[p].op, UndoPlace(p)>>}
    /\ UNCHANGED <<record, kept, receipts>>

Fail(p) ==
    /\ pc[p] = "fail"
    /\ StoreCall(Store!MayCommit(job[p].op, job[p].rev),
                 Store!CommitTerminal(job[p].op, job[p].rev, "failed", FALSE),
                 Raise(p), Raise(p))
    /\ UNCHANGED <<host, books>>

(* Mutant: an unknown outcome is only raised. *)
MarkNothing(p) == pc[p] = "mark" /\ Raise(p) /\ UNCHANGED <<record, host, books>>

Mark(p) ==
    /\ pc[p] = "mark"
    /\ StoreCall(Store!MayMark(job[p].op, job[p].rev),
                 Store!MarkReconciliationRequired(job[p].op, job[p].rev),
                 Raise(p), Raise(p))
    /\ UNCHANGED <<host, books>>

-----------------------------------------------------------------------------
(* stop: docker stop of the containers. *)
StopRuntime(p) ==
    /\ pc[p] = "stop"
    /\ \E S \in SUBSET Containers :
          /\ remote' = [x \in Parts |-> IF x \in S /\ Present(x)
                                        THEN [remote[x] EXCEPT !.up = FALSE] ELSE remote[x]]
          /\ \/ /\ S = Containers \/ "docker" \in world
                /\ Goto(p, "commit") /\ UNCHANGED <<job, unknown>>
             \/ "refused" \in world /\ Raise(p) /\ UNCHANGED unknown
             \/ /\ "unknown" \in world
                /\ Goto(p, "mark") /\ UNCHANGED job
                /\ unknown' = unknown \cup {<<job[p].op, "body">>}
    /\ UNCHANGED <<record, nextId, removed, kept, receipts>>

(* status: a checkpoint, then the inspection. *)
Observe(p) ==
    /\ pc[p] = "observe"
    /\ StoreCall(Store!MayCheckpoint(job[p].op, job[p].rev),
                 Store!SaveCheckpoint(job[p].op, job[p].rev), Idle(p), Idle(p))
    /\ UNCHANGED <<host, books>>

(* reconcile of an exposure: validate_exposure, whose refusal is raised as   *)
(* it is; then ensure_http, verify_http and verify_dns. A route that is only *)
(* pending is returned as in_progress; a failed one has no resource to take  *)
(* down, and is committed as failed.                                         *)
Verify(p) ==
    /\ pc[p] = "verify"
    /\ \/ Goto(p, "commit") /\ UNCHANGED job
       \/ "notready" \in world /\ Idle(p)
       \/ "refused" \in world /\ Goto(p, "fail") /\ UNCHANGED job
       \/ "refused" \in world /\ Raise(p)
    /\ UNCHANGED <<record, host, books>>

-----------------------------------------------------------------------------
(* The coordinator.                                                        *)
(* _valid_terminal with the outcome l. *)
ValidTerminal(o, l) ==
    record[o].lifecycle = l /\ record[o].outcome = l /\ ~record[o].residual

ReceiptFor(j, exposure, l) == [runtime |-> j.runtime, exposure |-> exposure, outcome |-> l]

(* After the provider returned: its record is read again. *)
Check(p) ==
    /\ pc[p] = "check"
    /\ LET j == job[p] IN
       IF ~ValidTerminal(j.op, "succeeded") THEN Idle(p)
       ELSE IF j.verb = "run" /\ j.next # NoOp
       THEN Goto(p, "load") /\ With(p, [NoJob EXCEPT !.verb = "expose", !.op = j.next,
                                        !.deploy = TRUE, !.runtime = j.runtime, !.next = j.next])
       ELSE Goto(p, "deliver") /\ UNCHANGED job
    /\ UNCHANGED <<record, host, books>>

Deliver(p) ==
    /\ pc[p] = "deliver"
    /\ receipts' = receipts \cup {ReceiptFor(job[p], job[p].next, "succeeded")}
    /\ Idle(p)
    /\ UNCHANGED <<record, host, kept, unknown>>

(* Mutant: whatever the record says, the failure is recorded. *)
SettleBlindly(p) ==
    /\ pc[p] = "settle"
    /\ receipts' = receipts \cup {ReceiptFor(job[p], NoOp, "failed")}
    /\ Idle(p)
    /\ UNCHANGED <<record, host, kept, unknown>>

(* _record_validated_failure. *)
Settle(p) ==
    /\ pc[p] = "settle"
    /\ LET j == job[p]
           proven == /\ ValidTerminal(j.op, "failed")
                     /\ j.verb = "expose" => ValidTerminal(j.runtime, "succeeded")
       IN  receipts' = IF proven
                       THEN receipts \cup {ReceiptFor(j, IF j.verb = "run" THEN NoOp ELSE j.op, "failed")}
                       ELSE receipts
    /\ Idle(p)
    /\ UNCHANGED <<record, host, kept, unknown>>

Crash(p) ==
    /\ "crash" \in world /\ pc[p] # "idle"
    /\ Idle(p)
    /\ UNCHANGED <<record, host, books>>

Step(p) ==
    \/ Load(p) \/ Preflight(p) \/ Create(p) \/ Checkpoint(p) \/ Ready(p) \/ Commit(p)
    \/ Undo(p) \/ Rm(p) \/ Fail(p) \/ Mark(p) \/ StopRuntime(p) \/ Observe(p) \/ Verify(p)
    \/ Check(p) \/ Deliver(p) \/ Settle(p)

Next ==
    /\ \E p \in Procs :
          \/ CallVerb(p)
          \/ \E o \in RunOps, e \in ExposeOps \cup {NoOp} : Deploy(p, o, e)
          \/ (Step(p) \/ Crash(p)) /\ UNCHANGED calls
    /\ UNCHANGED world

Spec == Init /\ [][Next]_vars

-----------------------------------------------------------------------------
(* Types of the variables; the store's own are Store!TypeOK. *)
TypeOK ==
    /\ Store!TypeOK
    /\ remote \in [Parts -> Resources \cup {Absent}]
    /\ nextId \in 0..MaxId /\ calls \in 0..MaxCalls
    /\ pc \in [Procs -> Positions]
    /\ job \in [Procs -> Jobs \cup {NoJob}]
    /\ kept \subseteq Owned
    /\ receipts \subseteq Receipts
    /\ unknown \subseteq Operations \X Places
    /\ removed \subseteq Parts \X RunOps \X (Operations \cup {Foreign})

Working(o) == \E p \in Procs : pc[p] # "idle" /\ job[p].op = o

Started(S) == \E o \in S : record[o].lifecycle # "none"

(* While the remote commands and the store do what they are asked and calls *)
(* do not overlap, a run that is recorded as succeeded left the whole        *)
(* runtime on the host, and it is still there until someone destroys it:     *)
(* across crashes, replays of the operation, adoption of what an earlier     *)
(* attempt left, and the compensation of other operations that failed        *)
(* (VpsBackendProvider.run, RemoteDockerMechanics.ensure_runtime).           *)
SucceededRuntime ==
    world \cap {"docker", "store", "concurrent"} = {} /\ ~Started(DestroyOps) =>
        \A o \in RunOps : record[o].lifecycle = "succeeded" => \A x \in Parts : Present(x)

(* Taking down, by a compensation or by destroy, only ever removes what the  *)
(* operation named in the ownership proof created (_proves_created), whoever *)
(* recreated the name meanwhile. A volume is removed by its name, which is   *)
(* all the identity it has, so of volumes this holds while calls do not      *)
(* overlap.                                                                  *)
CompensatesOnlyOwn ==
    \A r \in removed : r[2] # r[3] => r[1] \in VolumeParts /\ "concurrent" \in world

(* Receipts given to the recorder are backed by terminal records, those they *)
(* carry stay as they were, and no deployment is reported both as succeeded  *)
(* and as failed (_valid_terminal, _record_validated_failure).               *)
ReceiptsAgree ==
    \A r \in receipts :
        /\ IF r.outcome = "succeeded"
           THEN \A o \in {r.runtime, r.exposure} \ {NoOp} : ValidTerminal(o, "succeeded")
           ELSE IF r.exposure = NoOp THEN ValidTerminal(r.runtime, "failed")
           ELSE ValidTerminal(r.runtime, "succeeded") /\ ValidTerminal(r.exposure, "failed")
        /\ \A q \in receipts : q.runtime = r.runtime /\ q.exposure = r.exposure => q = r

Surfaced(o) == ~Working(o) => Store!LifecycleOrder[record[o].lifecycle] >= 2

(* A mutation whose outcome SSH could not tell is surfaced: once the caller  *)
(* is done with it, the record requires reconciliation, or a later attempt   *)
(* settled the operation (UnknownMutationOutcomeError and the except clauses *)
(* of run, stop and destroy). It counts every create and stop, the removals  *)
(* of destroy and those of ensure_runtime's own compensation; not those of   *)
(* the compensation in run's except clause, for which see                    *)
(* EveryUnknownSurfaced. A caller that dies, a failing store and another     *)
(* caller that moves the revision on can each lose the mark.                 *)
UnknownSurfaced ==
    world \cap {"crash", "store", "concurrent"} = {} =>
        \A o \in Operations : <<o, "body">> \in unknown => Surfaced(o)

(* "Durably surface an unknown mutation outcome for workflow reconciliation" *)
(* (mark_reconciliation_required): the same of every mutation, also of a     *)
(* docker rm that run's except clause makes to take its resources down.      *)
EveryUnknownSurfaced ==
    world \cap {"crash", "store", "concurrent"} = {} =>
        \A o \in Operations, l \in Places : <<o, l>> \in unknown => Surfaced(o)

(* "If cleanup fails, the system MUST create durable residual cleanup state  *)
(* for that operation": a failed run that left resources of its own behind   *)
(* has an open residual. (_terminal commits no residual, ever.)              *)
ResidualRecorded ==
    \A o \in RunOps : record[o].lifecycle = "failed" /\ ~Working(o) =>
        \A x \in Parts : remote[x].op # o

(* Where SSH and the host answer and calls neither die nor overlap, the      *)
(* compensation is complete: a run on record as failed has left nothing of   *)
(* its own on the host, whichever store call failed or lost its answer, and  *)
(* also after a replay, which makes everything again, is refused the second  *)
(* terminal commit and takes it down again (run, _destroy_owned).            *)
FailedLeavesNothing == world \subseteq {"notready", "store"} => ResidualRecorded
=============================================================================
