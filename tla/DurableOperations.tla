------------------------- MODULE DurableOperations -------------------------
(***************************************************************************)
(* Durable operations: the transition rules of durable_operations/service  *)
(* and the DurableOperationStore contract (ports/durable_operation_store). *)
(* No store is implemented under src/, so its methods are what the port's  *)
(* docstrings and DurableOperationRecord demand, each one atomic           *)
(* compare-and-swap step; an action that is not enabled raises.            *)
(***************************************************************************)
EXTENDS Naturals

CONSTANTS Operations

VARIABLE record     \* the durable record of every operation

TerminalOutcomes == {"succeeded", "failed"}

LifecycleOrder ==
    [none |-> 0, accepted |-> 0, in_progress |-> 1, reconciliation_required |-> 2,
     terminal_pending |-> 3, succeeded |-> 4, failed |-> 4, cleanup_required |-> 5, closed |-> 6]

PostCommitStates == TerminalOutcomes \cup {"cleanup_required", "closed"}

Records == [lifecycle : DOMAIN LifecycleOrder, revision : Nat, checkpoint : BOOLEAN,
            outcome : TerminalOutcomes \cup {"none"}, residual : BOOLEAN]

NoRecord == [lifecycle |-> "none", revision |-> 0, checkpoint |-> FALSE,
             outcome |-> "none", residual |-> FALSE]

TypeOK == record \in [Operations -> Records]

Init == record = [o \in Operations |-> NoRecord]

-----------------------------------------------------------------------------
(* advance_lifecycle: no regression, no flip of the outcome, and no way     *)
(* into the committed states but commit_terminal.                           *)
Advances(current, target) ==
    /\ LifecycleOrder[target] >= LifecycleOrder[current]
    /\ current \in TerminalOutcomes /\ target \in TerminalOutcomes => target = current
    /\ target \in PostCommitStates => current \in PostCommitStates

(* DurableOperationRecord.__post_init__. *)
ValidRecord(r) ==
    r.outcome # "none" =>
        IF r.residual THEN r.lifecycle \in {"cleanup_required", "closed"}
                      ELSE r.lifecycle = r.outcome

Committed(o) == record[o].outcome # "none"

(* The revision still matches. *)
Current(o, rev) == record[o].lifecycle # "none" /\ record[o].revision = rev

(* A write that the rules admit: the revision matches and moves on by one. *)
Write(o, rev, r) ==
    /\ Current(o, rev) /\ ValidRecord(r)
    /\ record' = [record EXCEPT ![o] = [r EXCEPT !.revision = rev + 1]]

CreateOrLoad(o) ==
    record' = [record EXCEPT ![o] =
                  IF @ = NoRecord THEN [NoRecord EXCEPT !.lifecycle = "accepted"] ELSE @]

MayCheckpoint(o, rev) == Current(o, rev) /\ ~Committed(o)

(* Progress never takes a record back from reconciliation_required. *)
SaveCheckpoint(o, rev) ==
    LET l == record[o].lifecycle IN
    /\ MayCheckpoint(o, rev)
    /\ Write(o, rev, [record[o] EXCEPT
          !.checkpoint = TRUE,
          !.lifecycle = IF Advances(l, "in_progress") THEN "in_progress" ELSE l])

MayMark(o, rev) ==
    Current(o, rev) /\ Advances(record[o].lifecycle, "reconciliation_required")

MarkReconciliationRequired(o, rev) ==
    /\ MayMark(o, rev)
    /\ Write(o, rev, [record[o] EXCEPT !.lifecycle = "reconciliation_required"])

(* build_terminal_commit and commit_terminal: one outcome, once. *)
MayCommit(o, rev) == Current(o, rev) /\ ~Committed(o)

CommitTerminal(o, rev, outcome, residual) ==
    /\ outcome \in TerminalOutcomes
    /\ MayCommit(o, rev)
    /\ Write(o, rev, [record[o] EXCEPT !.outcome = outcome, !.residual = residual,
                         !.lifecycle = IF residual THEN "cleanup_required" ELSE outcome])

(* resolve_residual keeps the terminal commit. *)
ResolveResidual(o, rev) ==
    /\ record[o].lifecycle = "cleanup_required"
    /\ Write(o, rev, [record[o] EXCEPT !.lifecycle = "closed"])

(* A workflow step through advance_lifecycle. *)
Advance(o, rev, target) ==
    /\ Advances(record[o].lifecycle, target)
    /\ Write(o, rev, [record[o] EXCEPT !.lifecycle = target])

Next ==
    \E o \in Operations :
        \/ CreateOrLoad(o)
        \/ SaveCheckpoint(o, record[o].revision)
        \/ MarkReconciliationRequired(o, record[o].revision)
        \/ \E outcome \in TerminalOutcomes, residual \in BOOLEAN :
              CommitTerminal(o, record[o].revision, outcome, residual)
        \/ ResolveResidual(o, record[o].revision)
        \/ \E target \in DOMAIN LifecycleOrder \ {"none"} : Advance(o, record[o].revision, target)

Spec == Init /\ [][Next]_record

-----------------------------------------------------------------------------
(* plan_recovery. *)
PlanRecovery(r, mutationAttempted) ==
    CASE r.lifecycle \in TerminalOutcomes \cup {"closed"} -> "no_recovery_required"
      [] r.lifecycle = "cleanup_required" -> "surface_residual"
      [] r.lifecycle = "reconciliation_required" -> "reconcile"
      [] mutationAttempted /\ ~r.checkpoint -> "reconcile"
      [] OTHER -> "resume"

-----------------------------------------------------------------------------
(* A terminal lifecycle is backed by the commit that carries its evidence:  *)
(* "A terminal lifecycle outcome MUST NOT become authoritative through any  *)
(* path that bypasses the terminal commit".                                 *)
TerminalIsCommitted ==
    \A o \in Operations : /\ record[o].lifecycle \in PostCommitStates <=> Committed(o)
                          /\ ValidRecord(record[o])

(* "Once an operation reaches a later lifecycle state, the system MUST NOT  *)
(* transition it back to an earlier state", and what a terminal commit      *)
(* published (outcome, residual entries) is never changed, closing included. *)
LifecycleForward ==
    [][\A o \in Operations :
          /\ LifecycleOrder[record'[o].lifecycle] >= LifecycleOrder[record[o].lifecycle]
          /\ Committed(o) => /\ record'[o].outcome = record[o].outcome
                             /\ record'[o].residual = record[o].residual]_record

(* An open cleanup obligation stays visible until resolve_residual: the     *)
(* record leaves cleanup_required only for closed.                          *)
ResidualVisible ==
    [][\A o \in Operations : record[o].lifecycle = "cleanup_required" =>
          record'[o].lifecycle \in {"cleanup_required", "closed"}]_record
=============================================================================
