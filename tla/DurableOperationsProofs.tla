---------------------- MODULE DurableOperationsProofs ----------------------
(* What the transition rules of durable operations guarantee, for every set *)
(* of operations.                                                           *)
EXTENDS DurableOperations, TLAPS

(* The inductive invariant: the records are typed, and a lifecycle is past  *)
(* the terminal commit exactly when the commit is there.                    *)
IInv == TypeOK /\ TerminalIsCommitted

(* What one write may do to the record of its operation. *)
Moves(r, s) ==
    /\ s \in Records
    /\ LifecycleOrder[s.lifecycle] >= LifecycleOrder[r.lifecycle]
    /\ s.lifecycle \in PostCommitStates <=> s.outcome # "none"
    /\ ValidRecord(s)
    /\ r.outcome # "none" => s.outcome = r.outcome /\ s.residual = r.residual

(* The ranks of the lifecycles, as a table. *)
LEMMA Ranks ==
  /\ DOMAIN LifecycleOrder =
        {"none", "accepted", "in_progress", "reconciliation_required", "terminal_pending",
         "succeeded", "failed", "cleanup_required", "closed"}
  /\ LifecycleOrder["none"] = 0 /\ LifecycleOrder["accepted"] = 0
  /\ LifecycleOrder["in_progress"] = 1 /\ LifecycleOrder["reconciliation_required"] = 2
  /\ LifecycleOrder["terminal_pending"] = 3
  /\ LifecycleOrder["succeeded"] = 4 /\ LifecycleOrder["failed"] = 4
  /\ LifecycleOrder["cleanup_required"] = 5 /\ LifecycleOrder["closed"] = 6
  BY DEF LifecycleOrder

(* Updating a record field by field keeps its type and its other fields. *)
LEMMA MovedOn ==
  ASSUME NEW r \in Records, NEW l \in DOMAIN LifecycleOrder
  PROVE  LET s == [r EXCEPT !.lifecycle = l, !.revision = r.revision + 1]
         IN  s \in Records /\ s.lifecycle = l /\ s.outcome = r.outcome /\ s.residual = r.residual
<1> DEFINE t == [r EXCEPT !.lifecycle = l]
           s == [t EXCEPT !.revision = r.revision + 1]
<1>1. t \in Records /\ t.lifecycle = l /\ t.outcome = r.outcome /\ t.residual = r.residual
  BY DEF Records
<1>2. s \in Records /\ s.lifecycle = l /\ s.outcome = r.outcome /\ s.residual = r.residual
  <2> HIDE DEF t
  <2> QED BY <1>1 DEF Records
<1>3. [r EXCEPT !.lifecycle = l, !.revision = r.revision + 1] = s
  OBVIOUS
<1> QED BY <1>2, <1>3

(* No operation has a record, so none has a terminal one. *)
LEMMA Initial == Init => IInv
  BY DEF Init, IInv, TypeOK, TerminalIsCommitted, NoRecord, Records, LifecycleOrder,
         PostCommitStates, TerminalOutcomes, Committed, ValidRecord

(* A step writes one record at most, and moves it forward. *)
LEMMA StepMoves ==
  ASSUME IInv, [Next]_record
  PROVE  /\ record' \in [Operations -> Records]
         /\ \A o \in Operations : Moves(record[o], record'[o])
<1>1. \A o \in Operations :
         /\ record[o] \in Records
         /\ record[o].lifecycle \in PostCommitStates <=> record[o].outcome # "none"
         /\ ValidRecord(record[o])
  BY DEF IInv, TypeOK, TerminalIsCommitted, Committed
<1>2. \A o \in Operations : Moves(record[o], record[o])
  BY <1>1 DEF Moves, Records, LifecycleOrder
<1>3. SUFFICES ASSUME NEW o \in Operations, NEW s, Moves(record[o], s),
                      record' = [record EXCEPT ![o] = s]
               PROVE  /\ record' \in [Operations -> Records]
                      /\ \A x \in Operations : Moves(record[x], record'[x])
  <2>1. CASE UNCHANGED record
    BY <1>2, <2>1 DEF IInv, TypeOK
  <2>2. CASE Next
    <3>1. PICK o \in Operations :
             \/ CreateOrLoad(o)
             \/ SaveCheckpoint(o, record[o].revision)
             \/ MarkReconciliationRequired(o, record[o].revision)
             \/ \E outcome \in TerminalOutcomes, residual \in BOOLEAN :
                   CommitTerminal(o, record[o].revision, outcome, residual)
             \/ ResolveResidual(o, record[o].revision)
             \/ \E target \in DOMAIN LifecycleOrder \ {"none"} :
                   Advance(o, record[o].revision, target)
      BY <2>2 DEF Next
    <3> DEFINE r == record[o]
    <3>2. /\ r \in Records
          /\ r.lifecycle \in PostCommitStates <=> r.outcome # "none"
          /\ ValidRecord(r)
      BY <1>1
    <3>3. SUFFICES \E s : Moves(r, s) /\ record' = [record EXCEPT ![o] = s]
      BY <1>3
    <3>4. CASE CreateOrLoad(o)
      <4> DEFINE s == [NoRecord EXCEPT !.lifecycle = "accepted"]
      <4>1. CASE r = NoRecord
        <5>1. s \in Records /\ s.lifecycle = "accepted" /\ s.outcome = "none"
          BY Ranks DEF Records, NoRecord
        <5>2. r.lifecycle = "none" /\ r.outcome = "none"
          BY <4>1 DEF NoRecord
        <5>3. Moves(r, s)
          BY <5>1, <5>2, Ranks DEF Moves, PostCommitStates, TerminalOutcomes, ValidRecord
        <5> QED BY <4>1, <5>3, <3>4 DEF CreateOrLoad
      <4>2. CASE r # NoRecord
        BY <4>2, <1>2, <3>4 DEF CreateOrLoad
      <4> QED BY <4>1, <4>2
    <3>5. CASE SaveCheckpoint(o, r.revision)
      <4> DEFINE s == [r EXCEPT !.checkpoint = TRUE,
                          !.lifecycle = IF Advances(r.lifecycle, "in_progress")
                                        THEN "in_progress" ELSE r.lifecycle,
                          !.revision = r.revision + 1]
      <4>1. r.outcome = "none" /\ record' = [record EXCEPT ![o] = s]
        BY <3>2, <3>5 DEF SaveCheckpoint, MayCheckpoint, Committed, Write, Records
      <4>2. Moves(r, s)
        <5>1. /\ s \in Records /\ s.lifecycle = (IF Advances(r.lifecycle, "in_progress") THEN "in_progress" ELSE r.lifecycle)
              /\ s.outcome = r.outcome /\ s.residual = r.residual
          <6> DEFINE t == [r EXCEPT !.checkpoint = TRUE]
                     l == (IF Advances(r.lifecycle, "in_progress") THEN "in_progress" ELSE r.lifecycle)
          <6>1. /\ t \in Records /\ t.outcome = r.outcome /\ t.residual = r.residual
                /\ t.revision = r.revision /\ l \in DOMAIN LifecycleOrder
            BY <3>2, Ranks DEF Records
          <6>2. s = [t EXCEPT !.lifecycle = l, !.revision = t.revision + 1]
            BY <6>1
          <6> HIDE DEF t, l, s
          <6>3. /\ s \in Records /\ s.lifecycle = l
                /\ s.outcome = t.outcome /\ s.residual = t.residual
            BY <6>1, <6>2, MovedOn
          <6> QED BY <6>1, <6>3 DEF l
        <5> QED BY <5>1, <4>1, <3>2, Ranks DEF Moves, Records, Advances, PostCommitStates,
                                      TerminalOutcomes, ValidRecord
      <4> QED BY <4>1, <4>2
    <3>6. CASE MarkReconciliationRequired(o, r.revision)
      <4> DEFINE s == [r EXCEPT !.lifecycle = "reconciliation_required",
                                !.revision = r.revision + 1]
      <4>1. /\ Advances(r.lifecycle, "reconciliation_required")
            /\ record' = [record EXCEPT ![o] = s]
        BY <3>2, <3>6 DEF MarkReconciliationRequired, MayMark, Write, Records
      <4>2. Moves(r, s)
        <5>1. /\ s \in Records /\ s.lifecycle = "reconciliation_required"
              /\ s.outcome = r.outcome /\ s.residual = r.residual
          BY <3>2, MovedOn, Ranks
        <5> QED BY <5>1, <4>1, <3>2, Ranks DEF Moves, Records, Advances, PostCommitStates,
                                      TerminalOutcomes, ValidRecord
      <4> QED BY <4>1, <4>2
    <3>7. ASSUME NEW outcome \in TerminalOutcomes, NEW residual \in BOOLEAN,
                 CommitTerminal(o, r.revision, outcome, residual)
          PROVE  \E s : Moves(r, s) /\ record' = [record EXCEPT ![o] = s]
      <4> DEFINE s == [r EXCEPT !.outcome = outcome, !.residual = residual,
                          !.lifecycle = IF residual THEN "cleanup_required" ELSE outcome,
                          !.revision = r.revision + 1]
      <4>1. r.outcome = "none" /\ record' = [record EXCEPT ![o] = s]
        BY <3>2, <3>7 DEF CommitTerminal, MayCommit, Committed, Write, Records
      <4>2. Moves(r, s)
        <5>1. /\ s \in Records /\ s.lifecycle = (IF residual THEN "cleanup_required" ELSE outcome)
              /\ s.outcome = outcome /\ s.residual = residual
          <6> DEFINE q == [r EXCEPT !.outcome = outcome]
                     t == [q EXCEPT !.residual = residual]
                     l == IF residual THEN "cleanup_required" ELSE outcome
          <6>1. q \in Records /\ q.outcome = outcome /\ q.revision = r.revision
            BY <3>2 DEF Records
          <6>2. l \in DOMAIN LifecycleOrder
            BY Ranks DEF TerminalOutcomes
          <6>3. /\ t \in Records /\ t.outcome = outcome /\ t.residual = residual
                /\ t.revision = r.revision
            <7> HIDE DEF q
            <7> QED BY <6>1 DEF Records
          <6>4. s = [t EXCEPT !.lifecycle = l, !.revision = t.revision + 1]
            BY <6>3
          <6> HIDE DEF t, l, s
          <6>5. /\ s \in Records /\ s.lifecycle = l
                /\ s.outcome = t.outcome /\ s.residual = t.residual
            BY <6>2, <6>3, <6>4, MovedOn
          <6> QED BY <6>3, <6>5 DEF l
        <5> QED BY <5>1, <4>1, <3>2, Ranks DEF Moves, Records, Advances, PostCommitStates,
                                      TerminalOutcomes, ValidRecord
      <4> QED BY <4>1, <4>2
    <3>8. CASE ResolveResidual(o, r.revision)
      <4> DEFINE s == [r EXCEPT !.lifecycle = "closed", !.revision = r.revision + 1]
      <4>1. /\ r.lifecycle = "cleanup_required"
            /\ record' = [record EXCEPT ![o] = s]
        BY <3>2, <3>8 DEF ResolveResidual, Write, Records
      <4>2. Moves(r, s)
        <5>1. /\ s \in Records /\ s.lifecycle = "closed"
              /\ s.outcome = r.outcome /\ s.residual = r.residual
          BY <3>2, MovedOn, Ranks
        <5> QED BY <5>1, <4>1, <3>2, Ranks DEF Moves, Records, Advances, PostCommitStates,
                                      TerminalOutcomes, ValidRecord
      <4> QED BY <4>1, <4>2
    <3>9. ASSUME NEW target \in DOMAIN LifecycleOrder \ {"none"}, Advance(o, r.revision, target)
          PROVE  \E s : Moves(r, s) /\ record' = [record EXCEPT ![o] = s]
      <4> DEFINE s == [r EXCEPT !.lifecycle = target, !.revision = r.revision + 1]
      <4>1. /\ Advances(r.lifecycle, target)
            /\ ValidRecord([r EXCEPT !.lifecycle = target])
            /\ record' = [record EXCEPT ![o] = s]
        BY <3>2, <3>9 DEF Advance, Write, Records
      <4>2. Moves(r, s)
        <5>1. /\ s \in Records /\ s.lifecycle = target
              /\ s.outcome = r.outcome /\ s.residual = r.residual
          BY <3>2, MovedOn
        <5> QED BY <5>1, <4>1, <3>2, Ranks DEF Moves, Records, Advances, PostCommitStates,
                                      TerminalOutcomes, ValidRecord
      <4> QED BY <4>1, <4>2
    <3> QED BY <3>1, <3>4, <3>5, <3>6, <3>7, <3>8, <3>9
  <2> QED BY <2>1, <2>2
<1>4. record \in [Operations -> Records] /\ s \in Records
  BY <1>3 DEF IInv, TypeOK, Moves
<1> QED
  BY <1>2, <1>3, <1>4

(* The step case of the induction. *)
LEMMA Preserved == IInv /\ [Next]_record => IInv'
  BY StepMoves DEF IInv, TypeOK, TerminalIsCommitted, Committed, Moves

(* Every record keeps its type and a lifecycle is past the terminal commit   *)
(* exactly when the commit is there: no path of advance_lifecycle, of a      *)
(* checkpoint or of a mark mints a terminal outcome.                         *)
THEOREM TerminalOnlyByCommit == Spec => [](TypeOK /\ TerminalIsCommitted)
<1> QED BY Initial, Preserved, PTL DEF Spec, IInv

(* No write takes a lifecycle back, and none changes what a terminal commit  *)
(* published, resolve_residual included.                                     *)
THEOREM NeverBack == Spec => LifecycleForward
<1>1. IInv /\ [Next]_record =>
         [\A o \in Operations :
             /\ LifecycleOrder[record'[o].lifecycle] >= LifecycleOrder[record[o].lifecycle]
             /\ Committed(o) => /\ record'[o].outcome = record[o].outcome
                                /\ record'[o].residual = record[o].residual]_record
  BY StepMoves DEF Moves, Committed
<1> QED BY <1>1, Initial, Preserved, PTL DEF Spec, LifecycleForward

(* A recorded cleanup obligation stays open until resolve_residual closes it. *)
THEOREM ObligationStaysOpen == Spec => ResidualVisible
<1>1. ASSUME IInv, [Next]_record, NEW o \in Operations,
             record[o].lifecycle = "cleanup_required"
      PROVE  record'[o].lifecycle \in {"cleanup_required", "closed"}
  <2>1. /\ record[o] \in Records /\ record[o].outcome # "none"
        /\ ValidRecord(record[o])
    BY <1>1 DEF IInv, TypeOK, TerminalIsCommitted, Committed, PostCommitStates
  <2>2. Moves(record[o], record'[o])
    BY <1>1, StepMoves
  <2> QED BY <1>1, <2>1, <2>2 DEF Moves, ValidRecord, Records, TerminalOutcomes
<1>2. IInv /\ [Next]_record =>
         [\A o \in Operations : record[o].lifecycle = "cleanup_required" =>
             record'[o].lifecycle \in {"cleanup_required", "closed"}]_record
  BY <1>1
<1> QED BY <1>2, Initial, Preserved, PTL DEF Spec, ResidualVisible
=============================================================================
