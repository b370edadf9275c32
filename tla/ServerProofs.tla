---------------------------- MODULE ServerProofs ----------------------------
(***************************************************************************)
(* A registered container was given to the operation of its row, and no    *)
(* two rows share an operation; a data environment run reports what        *)
(* happened to its target, a read hides no trouble, and a lifecycle run    *)
(* removes only what it has quarantined, announced and found due: for any  *)
(* processes, instances, operations and names, however calls overlap,      *)
(* fail, are tried again and die.                                          *)
(***************************************************************************)
EXTENDS Server, TLAPS, WellFoundedInduction

(* The operation of a receipt for a container has, or had, custody of      *)
(* exactly that container.  An operation creates one container, whose id   *)
(* is the operation.                                                       *)
Granted(c, o, n) == c[o][n].state \in {"active", "retired"} /\ c[o][n].docker_id = o

Backed(c, receipt) ==
    receipt # None /\ receipt.digest.resource.kind = "container" =>
        /\ receipt.owned = receipt.operation
        /\ receipt.operation \in Operations /\ receipt.digest.resource.name \in Names
        /\ Granted(c, receipt.operation, receipt.digest.resource.name)

Unique(r) ==
    \A i, k \in Pointers :
        i # k /\ r[i] # None /\ r[k] # None /\ r[i].receipt # None /\ r[k].receipt # None
            => r[i].receipt.operation # r[k].receipt.operation

(* Position l and locals j of a process, with the records c of the         *)
(* authority: what a registration is about to write.                       *)
Committing == {"lookup", "insert", "relookup"}

Verifying == {"existing", "verify_live", "converge"}

JobBacked(c, l, j) ==
    /\ l \in Committing \cup Verifying => {"row", "pointer"} \subseteq DOMAIN j
    /\ l \in Committing => Backed(c, j.row.receipt)
    /\ l \in Verifying => "request" \in DOMAIN j /\ j.request \in Requests /\ j.row.receipt = Receipt(j.request)
    /\ l = "converge" => j.request.id = j.request.operation

(* The inductive invariant. *)
SInv ==
    /\ rows = [i \in Pointers |-> rows[i]]
    /\ Authority!TypeOK
    /\ pc = [p \in Procs |-> pc[p]] /\ job = [p \in Procs |-> job[p]]
    /\ Unique(rows)
    /\ \A i \in Pointers : rows[i] # None => Backed(custody, rows[i].receipt)
    /\ \A p \in Procs : JobBacked(custody, pc[p], job[p])

(* No step takes custody from an operation that was given it. *)
CustodyKept ==
    /\ Authority!TypeOK'
    /\ \A o \in Operations, n \in Names : Granted(custody, o, n) => Granted(custody', o, n)

RowsBacked ==
    /\ rows' = [i \in Pointers |-> rows'[i]]
    /\ Unique(rows')
    /\ \A i \in Pointers : rows'[i] # None => Backed(custody', rows'[i].receipt)

Moves(p, l, j) == pc' = [pc EXCEPT ![p] = l] /\ job' = [job EXCEPT ![p] = j]

LEMMA BackedKept ==
  ASSUME CustodyKept, NEW receipt, Backed(custody, receipt)
  PROVE  Backed(custody', receipt)
  BY DEF CustodyKept, Backed

LEMMA SameCustody ==
  ASSUME SInv, UNCHANGED custody
  PROVE  CustodyKept
  BY DEF SInv, CustodyKept, Authority!TypeOK, Authority!Claims, Authority!ClaimStates

LEMMA SameRows ==
  ASSUME SInv, CustodyKept, UNCHANGED rows
  PROVE  RowsBacked
  BY BackedKept DEF SInv, RowsBacked

(* A call that goes on for one process. *)
LEMMA CallKeeps ==
  ASSUME SInv, NEW p \in Procs, NEW l, NEW j, Moves(p, l, j),
         CustodyKept, RowsBacked, JobBacked(custody', l, j)
  PROVE  SInv'
  <1>1. pc' = [q \in Procs |-> pc'[q]] /\ job' = [q \in Procs |-> job'[q]]
    BY DEF SInv, Moves
  <1>2. ASSUME NEW q \in Procs PROVE JobBacked(custody', pc'[q], job'[q])
    <2>1. CASE q = p
      BY <2>1 DEF SInv, Moves
    <2>2. CASE q # p
      <3>1. pc'[q] = pc[q] /\ job'[q] = job[q]
        BY <2>2 DEF SInv, Moves
      <3>2. JobBacked(custody, pc[q], job[q])
        BY DEF SInv
      <3>3. QED
        BY <3>1, <3>2, BackedKept DEF JobBacked
    <2>3. QED
      BY <2>1, <2>2
  <1>3. QED
    BY <1>1, <1>2 DEF SInv, CustodyKept, RowsBacked

(* A step of p outside a registration. *)
Elsewhere(p) == \E l, j : l \notin Committing \cup Verifying /\ Moves(p, l, j)

LEMMA ElsewhereKeeps ==
  ASSUME SInv, NEW p \in Procs, Elsewhere(p), CustodyKept, RowsBacked
  PROVE  SInv'
  <1>1. PICK l, j : l \notin Committing \cup Verifying /\ Moves(p, l, j)
    BY DEF Elsewhere
  <1>2. JobBacked(custody', l, j)
    BY <1>1 DEF JobBacked, Committing, Verifying
  <1>3. QED
    BY <1>1, <1>2, CallKeeps

LEMMA GotoElsewhere ==
  ASSUME NEW p, NEW l, NEW j, l \notin Committing \cup Verifying, Goto(p, l, j)
  PROVE  Elsewhere(p)
  BY DEF Goto, Elsewhere, Moves

LEMMA ReturnElsewhere ==
  ASSUME NEW p, NEW result, Return(p, result)
  PROVE  Elsewhere(p)
  BY GotoElsewhere DEF Return, Committing, Verifying

-----------------------------------------------------------------------------
(* The registry.                                                           *)
LEMMA StoreKeeps ==
  ASSUME SInv, NEW p \in Procs, StoreCheck(p) \/ StoreWrite(p), UNCHANGED custody
  PROVE  SInv'
  <1>1. CustodyKept
    BY SameCustody
  <1>2. Elsewhere(p)
    <2>1. ASSUME Step(p, "store_write") PROVE Elsewhere(p)
      BY <2>1, GotoElsewhere DEF Step, Committing, Verifying
    <2>2. QED
      BY <2>1, ReturnElsewhere DEF StoreCheck, StoreWrite
  <1>3. ASSUME NEW i, NEW resource, NEW kept, SetRow(i, [resource |-> resource, receipt |-> kept]),
               kept = IF i \in Present THEN rows[i].receipt ELSE None
        PROVE  RowsBacked
    <2> DEFINE new == [resource |-> resource, receipt |-> kept]
    <2>1. new.receipt = kept
      OBVIOUS
    <2>2. rows' = [rows EXCEPT ![i] = new]
      BY <1>3 DEF SetRow
    <2> HIDE DEF new
    <2>3. \A k \in Pointers : rows'[k] = rows[k] \/ (k = i /\ rows'[k] = new)
      BY <2>2 DEF SInv
    <2>4. ASSUME NEW k \in Pointers, rows'[k] # None, rows'[k].receipt # None
          PROVE  rows[k] # None /\ rows[k].receipt = rows'[k].receipt
      BY <1>3, <2>1, <2>3, <2>4 DEF Present
    <2>5. Unique(rows')
      BY <2>4 DEF SInv, Unique
    <2>6. ASSUME NEW k \in Pointers, rows'[k] # None PROVE Backed(custody', rows'[k].receipt)
      <3>1. CASE rows'[k].receipt = None
        BY <3>1 DEF Backed
      <3>2. CASE rows'[k].receipt # None
        BY <2>4, <2>6, <3>2, <1>1, BackedKept DEF SInv
      <3>3. QED
        BY <3>1, <3>2
    <2>7. QED
      BY <2>2, <2>5, <2>6 DEF RowsBacked, SInv
  <1>4. RowsBacked
    BY <1>1, <1>3, SameRows DEF StoreCheck, StoreWrite
  <1>5. QED
    BY <1>1, <1>2, <1>4, ElsewhereKeeps

(* A registration that is tried again or ends. *)
LEMMA DoneKeeps ==
  ASSUME SInv, NEW p \in Procs, pc[p] \in Committing, NEW outcome, Done(p, outcome), UNCHANGED custody, RowsBacked
  PROVE  SInv'
  <1>1. CustodyKept
    BY SameCustody
  <1>2. ASSUME NEW retries, Goto(p, "lookup", [job[p] EXCEPT !.retries = retries]) PROVE SInv'
    <2> DEFINE j == [job[p] EXCEPT !.retries = retries]
    <2>1. JobBacked(custody, pc[p], job[p])
      BY DEF SInv
    <2>2. {"row", "pointer"} \subseteq DOMAIN j /\ j.row = job[p].row
      BY <2>1 DEF JobBacked
    <2>3. Moves(p, "lookup", j)
      BY <1>2 DEF Goto, Moves
    <2> HIDE DEF j
    <2>4. JobBacked(custody', "lookup", j)
      BY <1>1, <2>1, <2>2, BackedKept DEF JobBacked, Committing, Verifying
    <2>5. QED
      BY <1>1, <2>3, <2>4, CallKeeps
  <1>3. QED
    BY <1>1, <1>2, ReturnElsewhere, ElsewhereKeeps DEF Done

(* A row that conflicts with none is added. *)
LEMMA AddedBacked ==
  ASSUME SInv, NEW i, NEW row, Conflicting(i, row) = {}, SetRow(i, row),
         UNCHANGED custody, Backed(custody, row.receipt)
  PROVE  RowsBacked
  <1>1. CustodyKept
    BY SameCustody
  <1>2. rows' = [rows EXCEPT ![i] = row]
    BY DEF SetRow
  <1>3. \A k \in Pointers : rows'[k] = rows[k] \/ (k = i /\ rows'[k] = row)
    BY <1>2 DEF SInv
  <1>4. \A k \in Pointers : rows[k] # None /\ rows[k].receipt # None => rows[k].receipt.operation # row.receipt.operation
    BY DEF Conflicting, HoldsOperation, Present
  <1>5. Unique(rows')
    BY <1>3, <1>4 DEF SInv, Unique
  <1>6. ASSUME NEW k \in Pointers, rows'[k] # None PROVE Backed(custody', rows'[k].receipt)
    BY <1>1, <1>3, <1>6, BackedKept DEF SInv
  <1>7. QED
    BY <1>2, <1>5, <1>6 DEF RowsBacked, SInv

LEMMA RegistrationKeeps ==
  ASSUME SInv, NEW p \in Procs, Registration(p), UNCHANGED custody
  PROVE  SInv'
  <1>1. CustodyKept
    BY SameCustody
  <1>2. pc[p] \in Committing /\ JobBacked(custody, pc[p], job[p])
    BY DEF Registration, Lookup, Insert, RegisterInMemory, At, Committing, SInv
  <1>3. Backed(custody, job[p].row.receipt)
    BY <1>2 DEF JobBacked
  <1>4. ASSUME NEW l \in Committing, Step(p, l), UNCHANGED rows PROVE SInv'
    <2>1. Moves(p, l, job[p])
      BY <1>4 DEF Step, Goto, Moves
    <2>2. JobBacked(custody', l, job[p])
      BY <1>1, <1>2, <1>4, BackedKept DEF JobBacked, Committing, Verifying
    <2>3. QED
      BY <1>1, <1>4, <2>1, <2>2, SameRows, CallKeeps
  <1>5. ASSUME NEW outcome, Done(p, outcome), UNCHANGED rows PROVE SInv'
    BY <1>1, <1>2, <1>5, SameRows, DoneKeeps
  <1>6. ASSUME NEW i, NEW outcome, Conflicting(i, job[p].row) = {}, SetRow(i, job[p].row), Done(p, outcome)
        PROVE  SInv'
    BY <1>2, <1>3, <1>6, AddedBacked, DoneKeeps
  <1>7. ASSUME NEW l, Lookup(p, l) PROVE SInv'
    BY <1>4, <1>5, <1>7 DEF Lookup, Committing
  <1>8. ASSUME Insert(p) PROVE SInv'
    BY <1>4, <1>5, <1>6, <1>8 DEF Insert, Committing
  <1>9. ASSUME RegisterInMemory(p) PROVE SInv'
    BY <1>5, <1>6, <1>9 DEF RegisterInMemory
  <1>10. QED
    BY <1>7, <1>8, <1>9 DEF Registration
-----------------------------------------------------------------------------
(* ControlPlaneAuthority.register.                                         *)
LEMMA ReceiptFields ==
  ASSUME NEW r \in Requests
  PROVE  /\ r.operation \in Operations /\ r.resource.name \in Names
         /\ Receipt(r).operation = r.operation /\ Receipt(r).owned = r.id
         /\ Receipt(r).digest.resource = r.resource
  BY RequestsAssumption DEF Receipt, Meaning, Resources

(* The claim an operation converges on. *)
LEMMA ConvergeKept ==
  ASSUME SInv, NEW r \in Requests, r.id = r.operation, Converges(r),
         Authority!Becomes(r.operation, r.resource.name, Authority!Claim("active", r.id))
  PROVE  CustodyKept /\ Granted(custody', r.operation, r.resource.name)
  <1> DEFINE o == r.operation
             n == r.resource.name
             claim == [state |-> "active", docker_id |-> o]
  <1>1. o \in Operations /\ n \in Names
    BY ReceiptFields
  <1>2. custody' = [custody EXCEPT ![o][n] = claim]
    BY DEF Authority!Becomes, Authority!Claim
  <1>3. claim \in Authority!Claims /\ claim.state = "active" /\ claim.docker_id = o
    BY <1>1 DEF Authority!Claims, Authority!ClaimStates
  <1>4. custody \in [Operations -> [Names -> Authority!Claims]]
    BY DEF SInv, Authority!TypeOK
  <1> HIDE DEF o, n, claim
  <1>5. custody' \in [Operations -> [Names -> Authority!Claims]]
    BY <1>1, <1>2, <1>3, <1>4
  <1>6. custody'[o][n] = claim
    BY <1>1, <1>2, <1>4
  <1>7. ASSUME NEW q \in Operations, NEW m \in Names
        PROVE  custody'[q][m] = custody[q][m] \/ (q = o /\ custody'[q][m] = claim)
    BY <1>1, <1>2, <1>4
  <1>8. QED
    BY <1>3, <1>5, <1>6, <1>7 DEF CustodyKept, Granted, Authority!TypeOK, o, n

LEMMA VerifiersKeep ==
  ASSUME SInv, NEW p \in Procs, Existing(p) \/ VerifyLive(p)
  PROVE  SInv'
  <1>1. UNCHANGED <<rows, custody>> /\ CustodyKept /\ RowsBacked
    BY SameCustody, SameRows DEF Existing, VerifyLive, planeVars
  <1>2. pc[p] \in Verifying /\ JobBacked(custody, pc[p], job[p])
    BY DEF Existing, VerifyLive, At, Verifying, SInv
  <1>3. ASSUME NEW result, Return(p, result) PROVE SInv'
    BY <1>1, <1>3, ReturnElsewhere, ElsewhereKeeps
  <1>4. ASSUME NEW l \in {"verify_live", "converge"}, Step(p, l),
               l = "converge" => job[p].request.id = job[p].request.operation
        PROVE  SInv'
    <2>1. Moves(p, l, job[p])
      BY <1>4 DEF Step, Goto, Moves
    <2>2. JobBacked(custody', l, job[p])
      BY <1>2, <1>4 DEF JobBacked, Committing, Verifying
    <2>3. QED
      BY <1>1, <2>1, <2>2, CallKeeps
  <1>5. QED
    BY <1>3, <1>4 DEF Existing, VerifyLive

LEMMA ConvergeKeeps ==
  ASSUME SInv, NEW p \in Procs, Converge(p)
  PROVE  SInv'
  <1> DEFINE r == job[p].request
  <1>1. UNCHANGED rows /\ pc[p] = "converge"
    BY DEF Converge, At
  <1>2. r \in Requests /\ r.id = r.operation /\ job[p].row.receipt = Receipt(r) /\ {"row", "pointer"} \subseteq DOMAIN job[p]
    BY <1>1 DEF SInv, JobBacked, Verifying
  <1>3. ASSUME NEW result, UNCHANGED custody, Return(p, result) PROVE SInv'
    BY <1>1, <1>3, SameCustody, SameRows, ReturnElsewhere, ElsewhereKeeps
  <1>4. ASSUME Converges(r), Step(p, "lookup"),
               Authority!Becomes(r.operation, r.resource.name, Authority!Claim("active", r.id))
        PROVE  SInv'
    <2>1. CustodyKept /\ Granted(custody', r.operation, r.resource.name)
      BY <1>2, <1>4, ConvergeKept
    <2>2. Backed(custody', job[p].row.receipt)
      BY <1>2, <2>1, ReceiptFields DEF Backed
    <2>3. JobBacked(custody', "lookup", job[p])
      BY <1>2, <2>2 DEF JobBacked, Committing, Verifying
    <2>4. Moves(p, "lookup", job[p])
      BY <1>4 DEF Step, Goto, Moves
    <2>5. QED
      BY <1>1, <2>1, <2>3, <2>4, SameRows, CallKeeps
  <1>5. QED
    BY <1>3, <1>4 DEF Converge

LEMMA RegisterKeeps ==
  ASSUME SInv, NEW p \in Procs, Register(p)
  PROVE  SInv'
  <1>1. ASSUME Commit(p) PROVE SInv'
    BY <1>1, RegistrationKeeps DEF Commit, planeVars
  <1>2. QED
    BY <1>1, VerifiersKeep, ConvergeKeeps DEF Register

-----------------------------------------------------------------------------
(* The calls that only read the registry and the authority.                *)
LEMMA EnvironmentKeeps ==
  ASSUME SInv, NEW p \in Procs, Environment(p)
  PROVE  SInv'
  <1>1. UNCHANGED <<rows, custody>>
    BY DEF Environment, Definition, Grant, AcquirePoint, Mutate, Verified, Restore, VerifyRestore,
           planeVars, dockerVars
  <1>2. ASSUME NEW result, Return(p, result) PROVE Elsewhere(p)
    BY <1>2, ReturnElsewhere
  <1>3. ASSUME NEW l \in {"grant", "point", "mutate", "restore", "verify", "verify_restore"}, NEW j, Goto(p, l, j)
        PROVE  Elsewhere(p)
    BY <1>3, GotoElsewhere DEF Committing, Verifying
  <1>4. ASSUME Definition(p) \/ Grant(p) \/ AcquirePoint(p) PROVE Elsewhere(p)
    BY <1>2, <1>3, <1>4 DEF Definition, Grant, AcquirePoint, Refuse, Step
  <1>5. ASSUME Mutate(p) \/ Verified(p) \/ Restore(p) \/ VerifyRestore(p) PROVE Elsewhere(p)
    BY <1>2, <1>3, <1>5 DEF Mutate, Verified, Restore, VerifyRestore, Ended, Step
  <1>6. QED
    BY <1>1, <1>4, <1>5, SameCustody, SameRows, ElsewhereKeeps DEF Environment

LEMMA ReadKeeps ==
  ASSUME SInv, NEW p \in Procs, ReadInstances(p)
  PROVE  SInv'
  <1>1. UNCHANGED <<rows, custody>>
    BY DEF ReadInstances, ReadRows, ReadStatus, planeVars
  <1>2. ASSUME NEW j, Goto(p, "status", j) PROVE Elsewhere(p)
    BY <1>2, GotoElsewhere DEF Committing, Verifying
  <1>3. Elsewhere(p)
    BY <1>2, ReturnElsewhere DEF ReadInstances, ReadRows, ReadStatus
  <1>4. QED
    BY <1>1, <1>3, SameCustody, SameRows, ElsewhereKeeps

(* A removal retires the claim of the container it removes. *)
LEMMA RemovalKept ==
  ASSUME SInv, NEW o, NEW n, RemoveOwned(n, o)
  PROVE  CustodyKept
  <1>1. custody \in [Operations -> [Names -> Authority!Claims]]
    BY DEF SInv, Authority!TypeOK
  <1>2. CASE UNCHANGED custody
    BY <1>2, SameCustody
  <1>3. CASE custody' = [custody EXCEPT ![o][n].state = "retired"]
    <2>1. ASSUME NEW q \in Operations, NEW m \in Names
          PROVE  custody'[q][m] = custody[q][m] \/ custody'[q][m] = [custody[q][m] EXCEPT !.state = "retired"]
      BY <1>1, <1>3
    <2>2. ASSUME NEW c \in Authority!Claims
          PROVE  /\ [c EXCEPT !.state = "retired"] \in Authority!Claims
                 /\ [c EXCEPT !.state = "retired"].state = "retired"
                 /\ [c EXCEPT !.state = "retired"].docker_id = c.docker_id
      BY DEF Authority!Claims, Authority!ClaimStates
    <2>3. ASSUME NEW q \in Operations, NEW m \in Names
          PROVE  custody'[q][m] \in Authority!Claims /\ (Granted(custody, q, m) => Granted(custody', q, m))
      <3> DEFINE c == custody[q][m]
                 d == custody'[q][m]
      <3>1. c \in Authority!Claims
        BY <1>1
      <3>2. d = c \/ d = [c EXCEPT !.state = "retired"]
        BY <2>1
      <3> HIDE DEF c, d
      <3>3. d \in Authority!Claims /\ d.docker_id = c.docker_id /\ (d.state = c.state \/ d.state = "retired")
        BY <2>2, <3>1, <3>2
      <3>4. QED
        BY <3>3 DEF Granted, c, d
    <2>4. custody' = [q \in Operations |-> [m \in Names |-> custody'[q][m]]]
      BY <1>1, <1>3
    <2>5. custody' \in [Operations -> [Names -> Authority!Claims]]
      BY <2>3, <2>4
    <2>6. QED
      BY <2>3, <2>5 DEF CustodyKept, Authority!TypeOK
  <1>4. QED
    BY <1>2, <1>3 DEF RemoveOwned

LEMMA LifecycleKeeps ==
  ASSUME SInv, NEW p \in Procs, Lifecycle(p)
  PROVE  SInv'
  <1> DEFINE Places == {"observe", "events", "key", "revalidate", "reconcile", "quarantine", "journal",
                        "revalidate_zombie", "delete", "journal_delete", "cleanup"}
  <1>1. ASSUME NEW l \in Places, NEW j, Goto(p, l, j) PROVE Elsewhere(p)
    BY <1>1, GotoElsewhere DEF Committing, Verifying
  <1>2. ASSUME Finish(p) PROVE Elsewhere(p)
    BY <1>1, <1>2 DEF Finish
  <1>3. ASSUME NEW l \in Places, Step(p, l) PROVE Elsewhere(p)
    BY <1>1, <1>3 DEF Step
  <1>4. ASSUME ListRecords(p) \/ Observe(p) \/ ReadJournal(p) \/ NextKey(p) PROVE Elsewhere(p)
    BY <1>1, <1>2, <1>4, ReturnElsewhere DEF ListRecords, Observe, ReadJournal, NextKey
  <1>5. ASSUME Revalidate(p) \/ Reconcile(p) \/ Quarantine(p) \/ JournalQuarantine(p) PROVE Elsewhere(p)
    BY <1>1, <1>2, <1>3, <1>5, ReturnElsewhere DEF Revalidate, Reconcile, Quarantine, JournalQuarantine
  <1>6. ASSUME RevalidateZombie(p) \/ Delete(p) \/ JournalDelete(p) \/ Cleanup(p) PROVE Elsewhere(p)
    BY <1>1, <1>2, <1>3, <1>6, ReturnElsewhere DEF RevalidateZombie, Delete, JournalDelete, Cleanup
  <1>7. Elsewhere(p)
    BY <1>4, <1>5, <1>6 DEF Lifecycle
  <1>8. UNCHANGED rows /\ CustodyKept
    <2>1. ASSUME Delete(p) \/ Cleanup(p) PROVE UNCHANGED rows /\ CustodyKept
      BY <2>1, RemovalKept, SameCustody DEF Delete, Cleanup, dockerVars
    <2>2. ASSUME ListRecords(p) \/ Observe(p) \/ ReadJournal(p) \/ NextKey(p) \/ Revalidate(p) \/ Reconcile(p)
          PROVE  UNCHANGED <<rows, custody>>
      BY <2>2 DEF ListRecords, Observe, ReadJournal, NextKey, Revalidate, Reconcile, planeVars
    <2>3. ASSUME Quarantine(p) \/ JournalQuarantine(p) \/ RevalidateZombie(p) \/ JournalDelete(p)
          PROVE  UNCHANGED <<rows, custody>>
      BY <2>3 DEF Quarantine, JournalQuarantine, RevalidateZombie, JournalDelete, planeVars
    <2>4. QED
      BY <2>1, <2>2, <2>3, SameCustody DEF Lifecycle
  <1>9. QED
    BY <1>7, <1>8, SameRows, ElsewhereKeeps
-----------------------------------------------------------------------------
(* A call begins.                                                          *)
LEMMA BeginKeeps ==
  ASSUME SInv, NEW p \in Procs, NEW cmd, NEW l, NEW j, Begin(p, cmd, l, j), UNCHANGED <<rows, custody>>,
         JobBacked(custody, l, j)
  PROVE  SInv'
  <1>1. CustodyKept /\ RowsBacked /\ Moves(p, l, j)
    BY SameCustody, SameRows DEF Begin, Moves
  <1>2. JobBacked(custody', l, j)
    OBVIOUS
  <1>3. QED
    BY <1>1, <1>2, CallKeeps

LEMMA BeginCallKeeps ==
  ASSUME SInv, NEW p \in Procs, BeginCall(p)
  PROVE  SInv'
  <1>1. ASSUME NEW l, NEW j, l \notin Committing \cup Verifying PROVE JobBacked(custody, l, j)
    BY <1>1 DEF JobBacked, Committing, Verifying
  <1>2. ASSUME NEW i, NEW r, BeginStore(p, i, r), UNCHANGED planeVars PROVE SInv'
    BY <1>1, <1>2, BeginKeeps DEF BeginStore, planeVars, Committing, Verifying
  <1>3. ASSUME NEW i, NEW n, NEW o, BeginEnrol(p, i, n, o), UNCHANGED planeVars PROVE SInv'
    <2> DEFINE j == [cmd |-> "enrol", pointer |-> i, row |-> Enrolled(i, n, o), retries |-> 0]
    <2>1. {"row", "pointer"} \subseteq DOMAIN j /\ j.row = Enrolled(i, n, o)
      OBVIOUS
    <2>2. Begin(p, "enrol", "lookup", j) /\ UNCHANGED <<rows, custody>>
      BY <1>3 DEF BeginEnrol, planeVars
    <2> HIDE DEF j
    <2>3. Backed(custody, Enrolled(i, n, o).receipt)
      BY DEF Backed, Enrolled
    <2>4. JobBacked(custody, "lookup", j)
      BY <2>1, <2>3 DEF JobBacked, Committing, Verifying
    <2>5. QED
      BY <2>2, <2>4, BeginKeeps
  <1>4. ASSUME NEW r \in Requests, BeginRegister(p, r) PROVE SInv'
    <2> DEFINE row == [resource |-> r.resource, receipt |-> Receipt(r)]
               j == [cmd |-> "register", pointer |-> r.pointer, request |-> r, retries |-> 1, row |-> row]
    <2>1. {"row", "pointer", "request"} \subseteq DOMAIN j /\ j.row.receipt = Receipt(r) /\ j.request = r
      OBVIOUS
    <2>2. Begin(p, "register", "existing", j) /\ UNCHANGED <<rows, custody>>
      BY <1>4 DEF BeginRegister, planeVars
    <2> HIDE DEF j
    <2>3. JobBacked(custody, "existing", j)
      BY <2>1 DEF JobBacked, Committing, Verifying
    <2>4. QED
      BY <2>2, <2>3, BeginKeeps
  <1>5. ASSUME NEW i, NEW n, NEW o, NEW given, NEW raw, BeginEnvironment(p, i, n, o, given, raw) PROVE SInv'
    BY <1>1, <1>5, BeginKeeps DEF BeginEnvironment, planeVars, Committing, Verifying
  <1>6. ASSUME NEW only, BeginRead(p, only) PROVE SInv'
    BY <1>1, <1>6, BeginKeeps DEF BeginRead, planeVars, Committing, Verifying
  <1>7. ASSUME NEW run, BeginLifecycle(p, run) PROVE SInv'
    BY <1>1, <1>7, BeginKeeps DEF BeginLifecycle, planeVars, Committing, Verifying
  <1>8. QED
    BY <1>2, <1>3, <1>4, <1>5, <1>6, <1>7 DEF BeginCall

-----------------------------------------------------------------------------
(* The surroundings.                                                       *)
LEMMA JobsKept ==
  ASSUME SInv, CustodyKept, RowsBacked, UNCHANGED <<pc, job>>
  PROVE  SInv'
  <1>1. ASSUME NEW q \in Procs PROVE JobBacked(custody', pc[q], job[q])
    <2>1. JobBacked(custody, pc[q], job[q])
      BY DEF SInv
    <2>2. QED
      BY <2>1, BackedKept DEF JobBacked
  <1>2. QED
    BY <1>1 DEF SInv, CustodyKept, RowsBacked

LEMMA ProvisionKept ==
  ASSUME SInv, NEW n \in Names, NEW o \in Operations, Provision(n, o)
  PROVE  CustodyKept
  <1> DEFINE claim == [state |-> "active", docker_id |-> o]
  <1>1. custody \in [Operations -> [Names -> Authority!Claims]]
    BY DEF SInv, Authority!TypeOK
  <1>2. claim \in Authority!Claims
    BY DEF Authority!Claims, Authority!ClaimStates
  <1>3. custody[o][n].state = "none"
    BY DEF Provision, Authority!Unclaimed, Authority!Claim
  <1>4. custody' = custody \/ custody' = [custody EXCEPT ![o][n] = claim]
    BY DEF Provision, Authority!Claim
  <1> HIDE DEF claim
  <1>5. CASE custody' = [custody EXCEPT ![o][n] = claim]
    <2>1. custody' \in [Operations -> [Names -> Authority!Claims]]
      BY <1>1, <1>2, <1>5
    <2>2. ASSUME NEW q \in Operations, NEW m \in Names
          PROVE  custody'[q][m] = custody[q][m] \/ (q = o /\ m = n)
      BY <1>1, <1>5
    <2>3. QED
      BY <1>3, <2>1, <2>2 DEF CustodyKept, Granted, Authority!TypeOK
  <1>6. QED
    BY <1>4, <1>5, SameCustody

LEMMA UnlistBacked ==
  ASSUME SInv, NEW i \in Pointers, Unlist(i), UNCHANGED custody
  PROVE  RowsBacked
  <1>1. rows' = [rows EXCEPT ![i] = None]
    BY DEF Unlist, SetRow
  <1>2. \A k \in Pointers : rows'[k] = rows[k] \/ rows'[k] = None
    BY <1>1 DEF SInv
  <1>3. QED
    BY <1>1, <1>2 DEF RowsBacked, SInv, Unique

(* Only the row and the request of a job matter. *)
LEMMA SameLocals ==
  ASSUME NEW c, NEW l, NEW j, NEW k, JobBacked(c, l, j), DOMAIN k = DOMAIN j,
         "row" \in DOMAIN j => k.row = j.row, "request" \in DOMAIN j => k.request = j.request
  PROVE  JobBacked(c, l, k)
  BY DEF JobBacked, Committing, Verifying

LEMMA FluctuateKeeps ==
  ASSUME SInv, NEW i, NEW h, Fluctuate(i, h)
  PROVE  SInv'
  <1>1. UNCHANGED <<rows, custody, pc>> /\ CustodyKept /\ RowsBacked
    BY SameCustody, SameRows DEF Fluctuate, dockerVars
  <1>2. job' = [p \in Procs |-> job'[p]]
    BY DEF Fluctuate
  <1>3. ASSUME NEW p \in Procs PROVE JobBacked(custody', pc'[p], job'[p])
    <2>1. JobBacked(custody, pc[p], job[p])
      BY DEF SInv
    <2>2. CASE job'[p] = job[p]
      BY <1>1, <2>1, <2>2
    <2>3. ASSUME NEW s, job'[p] = [job[p] EXCEPT !.steady = s] PROVE JobBacked(custody', pc'[p], job'[p])
      <3>1. /\ DOMAIN job'[p] = DOMAIN job[p]
            /\ "row" \in DOMAIN job[p] => job'[p].row = job[p].row
            /\ "request" \in DOMAIN job[p] => job'[p].request = job[p].request
        <4> DEFINE j == job[p]
                   k == [j EXCEPT !.steady = s]
        <4>1. job'[p] = k
          BY <2>3
        <4> HIDE DEF j
        <4>2. DOMAIN k = DOMAIN j
          OBVIOUS
        <4>3. "row" \in DOMAIN j => k.row = j.row
          OBVIOUS
        <4>4. "request" \in DOMAIN j => k.request = j.request
          OBVIOUS
        <4> HIDE DEF k
        <4>5. QED
          BY <4>1, <4>2, <4>3, <4>4 DEF j
      <3>2. custody' = custody /\ pc'[p] = pc[p]
        BY <1>1
      <3>3. QED
        BY <2>1, <3>1, <3>2, SameLocals
    <2>4. QED
      BY <2>2, <2>3 DEF Fluctuate
  <1>4. QED
    BY <1>1, <1>2, <1>3 DEF SInv, CustodyKept, RowsBacked

LEMMA SurroundingsKeep ==
  ASSUME SInv, Surroundings
  PROVE  SInv'
  <1>1. ASSUME NEW n \in Names, NEW o \in Operations, Provision(n, o) PROVE SInv'
    BY <1>1, ProvisionKept, SameRows, JobsKept DEF Provision, Change, callVars
  <1>2. ASSUME UNCHANGED <<rows, custody, pc, job>> PROVE SInv'
    BY <1>2, SameCustody, SameRows, JobsKept
  <1>3. ASSUME NEW n \in Names, Perish(n) \/ Use(n) PROVE SInv'
    BY <1>2, <1>3 DEF Perish, Use, Change, callVars, planeVars
  <1>4. ASSUME Govern \/ Tick PROVE SInv'
    BY <1>2, <1>4 DEF Govern, Tick, Change, callVars, planeVars, dockerVars
  <1>5. ASSUME NEW i \in Pointers, Unlist(i), UNCHANGED planeVars PROVE SInv'
    BY <1>5, UnlistBacked, SameCustody, JobsKept DEF Unlist, Change, callVars, planeVars
  <1>6. QED
    BY <1>1, <1>3, <1>4, <1>5, FluctuateKeeps DEF Surroundings

-----------------------------------------------------------------------------

LEMMA SInitial == Init => SInv
  <1>1. SUFFICES ASSUME Init PROVE SInv
    OBVIOUS
  <1>2. pc = [p \in Procs |-> "idle"] /\ job = [p \in Procs |-> None]
    BY <1>1 DEF Init, CallsInit
  <1>3. \A p \in Procs : JobBacked(custody, pc[p], job[p])
    BY <1>2 DEF JobBacked, Committing, Verifying
  <1> DEFINE Sound == /\ rows = [i \in Pointers |-> rows[i]] /\ Authority!TypeOK /\ Unique(rows)
                      /\ \A i \in Pointers : rows[i] # None => Backed(custody, rows[i].receipt)
  <1>4. ASSUME Authority!Init PROVE Authority!TypeOK
    BY <1>4 DEF Authority!Init, Authority!TypeOK, Authority!Unclaimed, Authority!Claim, Authority!Claims,
                Authority!ClaimStates
  <1>5. ASSUME Blank PROVE Sound
    BY <1>4, <1>5 DEF Blank, RegistryInit, Unique
  <1>6. ASSUME Listed PROVE Sound
    <2>1. rows \in [Pointers -> [resource : Resources, receipt : {None}] \cup {None}] /\ Authority!TypeOK
      BY <1>4, <1>6 DEF Listed
    <2>2. \A i \in Pointers : rows[i] = None \/ rows[i].receipt = None
      BY <2>1
    <2>3. QED
      BY <2>1, <2>2 DEF Unique, Backed
  <1>7. ASSUME Settled PROVE Sound
    <2> DEFINE i == CHOOSE k \in Pointers : TRUE
               n == CHOOSE k \in Names : TRUE
    <2>1. PICK o \in Operations :
             /\ rows = [k \in Pointers |-> IF k = i THEN Enrolled(i, n, o) ELSE None]
             /\ custody = [q \in Operations |-> [m \in Names |->
                    IF q = o /\ m = n THEN Authority!Claim("active", o) ELSE Authority!Unclaimed]]
      BY <1>7 DEF Settled
    <2> HIDE DEF i, n
    <2>2. Authority!TypeOK
      BY <2>1 DEF Authority!TypeOK, Authority!Unclaimed, Authority!Claim, Authority!Claims, Authority!ClaimStates
    <2>3. Backed(custody, Enrolled(i, n, o).receipt)
      BY DEF Backed, Enrolled
    <2>4. \A k \in Pointers : rows[k] # None => k = i /\ rows[k] = Enrolled(i, n, o)
      BY <2>1
    <2>5. rows = [k \in Pointers |-> rows[k]]
      BY <2>1
    <2>6. QED
      BY <2>2, <2>3, <2>4, <2>5 DEF Unique
  <1>8. Settled \/ Listed \/ Blank
    BY <1>1 DEF Init
  <1>9. Sound
    BY <1>5, <1>6, <1>7, <1>8
  <1>10. QED
    BY <1>2, <1>3, <1>9 DEF SInv

LEMMA SInductive == SInv /\ [Next]_serverVars => SInv'
  <1>1. SUFFICES ASSUME SInv, [Next]_serverVars PROVE SInv'
    OBVIOUS
  <1>2. ASSUME NEW p \in Procs, Serve(p) PROVE SInv'
    <2>1. ASSUME StoreCheck(p) \/ StoreWrite(p), UNCHANGED planeVars PROVE SInv'
      BY <1>1, <2>1, StoreKeeps DEF planeVars
    <2>2. ASSUME Enrol(p), UNCHANGED planeVars PROVE SInv'
      BY <1>1, <2>2, RegistrationKeeps DEF Enrol, planeVars
    <2>3. ASSUME Dies(p) PROVE SInv'
      BY <1>1, <2>3, ReturnElsewhere, SameCustody, SameRows, ElsewhereKeeps DEF Dies, planeVars
    <2>4. QED
      BY <1>1, <1>2, <2>1, <2>2, <2>3, RegisterKeeps, EnvironmentKeeps, ReadKeeps, LifecycleKeeps DEF Serve
  <1>3. ASSUME UNCHANGED serverVars PROVE SInv'
    BY <1>1, <1>3, SameCustody, SameRows, JobsKept DEF serverVars, callVars, planeVars
  <1>4. QED
    BY <1>1, <1>2, <1>3, BeginCallKeeps, SurroundingsKeep DEF Next

(* Whatever fails, overlaps, dies and is tried again, no two rows share an *)
(* operation, and the operation of a registered container was given        *)
(* custody of exactly that container (authority.py 58-84, adapter.py       *)
(* 215-257).                                                               *)
THEOREM RegistrationsProven == Spec => []LineageProven
  <1>1. SInv => LineageProven
    <2>1. SUFFICES ASSUME SInv, NEW i \in Present, rows[i].receipt # None
                   PROVE  LET receipt == rows[i].receipt
                              claim == custody[receipt.operation][receipt.digest.resource.name]
                          IN /\ \A k \in Present \ {i} : ~HoldsOperation(k, receipt.operation)
                             /\ receipt.digest.resource.kind = "container" =>
                                   claim.state \in {"active", "retired"} /\ claim.docker_id = receipt.owned
      BY DEF LineageProven
    <2>2. \A k \in Present \ {i} : ~HoldsOperation(k, rows[i].receipt.operation)
      BY <2>1 DEF SInv, Unique, HoldsOperation, Present
    <2>3. Backed(custody, rows[i].receipt)
      BY <2>1 DEF SInv, Present
    <2>4. QED
      BY <2>1, <2>2, <2>3 DEF Backed, Granted
  <1>2. QED
    BY <1>1, SInitial, SInductive, PTL DEF Spec
-----------------------------------------------------------------------------

(* What the runs of a data environment and the reads report.               *)
EnvironmentPositions == {"definition", "grant", "point", "mutate", "verify", "restore", "verify_restore"}

ReadPositions == {"rows", "status"}

(* Positions of a lifecycle run: one that removes its resource, has chosen *)
(* one, has read the journal, and any.                                     *)
Removing == {"delete", "journal_delete", "cleanup"}

Handling == {"revalidate", "quarantine", "journal", "revalidate_zombie"} \cup Removing

Informed == {"key", "reconcile"} \cup Handling

Running == {"list", "observe", "events"} \cup Informed

(* A process is at a position of the call it serves. *)
Placed(l, j) ==
    l # "idle" => /\ "cmd" \in DOMAIN j
                  /\ l \in EnvironmentPositions <=> j.cmd = "environment"
                  /\ l \in ReadPositions <=> j.cmd = "read"

(* Where nothing overlaps: the target is as it was until the copy arrives, *)
(* and then holds the copy; raw data had its grant.                        *)
Faithful(d, l, j) ==
    /\ l \in {"definition", "grant", "point", "mutate"} => d[j.target] = j.before
    /\ l = "verify" => d[j.target] = j.operation
    /\ l \in {"point", "mutate", "verify"} => (j.raw => j.granted)

EnvironmentJob(j) ==
    /\ j = [cmd |-> "environment", pointer |-> j.pointer, target |-> j.target, operation |-> j.operation,
            given |-> j.given, raw |-> j.raw, before |-> j.before, granted |-> j.granted, failure |-> j.failure]
    /\ j.target \in Names

(* What a read has taken for fresh was up, unless its health changed since. *)
ReadJob(h, j) ==
    /\ j = [cmd |-> "read", only |-> j.only, todo |-> j.todo, seen |-> j.seen, steady |-> j.steady]
    /\ j.steady \subseteq Pointers
    /\ \A i \in DOMAIN j.seen : j.seen[i] \in {"fresh", "drifted", "stale_unverified"}
    /\ \A i \in DOMAIN j.seen \cap j.steady : j.seen[i] = "fresh" => h[i] = "up"

Truthful(d, h, l, j) ==
    /\ Placed(l, j)
    /\ l \in EnvironmentPositions => EnvironmentJob(j)
    /\ "concurrent" \notin world => Faithful(d, l, j)
    /\ l \in ReadPositions => ReadJob(h, j)

(* The inductive invariant of EnvironmentHonest and ReadsHonest. *)
HInv ==
    /\ pc = [p \in Procs |-> pc[p]] /\ job = [p \in Procs |-> job[p]]
    /\ data = [n \in Names |-> data[n]]
    /\ health \in [Pointers -> Healths]
    /\ "concurrent" \notin world => \A p, q \in Procs : p # q => pc[p] = "idle" \/ pc[q] = "idle"
    /\ \A p \in Procs : Truthful(data, health, pc[p], job[p])

Apart(p) == "concurrent" \notin world => \A q \in Procs \ {p} : pc[q] = "idle"

LEMMA BusyApart ==
  ASSUME HInv, NEW p \in Procs, pc[p] # "idle"
  PROVE  Apart(p)
  BY DEF HInv, Apart

(* A step of one process. *)
LEMMA TruthKept ==
  ASSUME HInv, NEW p \in Procs, Apart(p), NEW l, NEW j, Moves(p, l, j),
         UNCHANGED <<world, health>>, data' = [n \in Names |-> data'[n]],
         Truthful(data', health, l, j)
  PROVE  HInv'
  <1>1. /\ pc' = [q \in Procs |-> pc'[q]] /\ job' = [q \in Procs |-> job'[q]]
        /\ \A q \in Procs \ {p} : pc'[q] = pc[q] /\ job'[q] = job[q]
        /\ pc'[p] = l /\ job'[p] = j
    BY DEF HInv, Moves
  <1>2. "concurrent" \notin world => \A q, r \in Procs : q # r => pc'[q] = "idle" \/ pc'[r] = "idle"
    BY <1>1 DEF Apart
  <1>3. ASSUME NEW q \in Procs \ {p} PROVE Truthful(data', health, pc[q], job[q])
    <2>1. Truthful(data, health, pc[q], job[q])
      BY DEF HInv
    <2>2. "concurrent" \notin world => Faithful(data', pc[q], job[q])
      BY DEF Apart, Faithful
    <2>3. QED
      BY <2>1, <2>2 DEF Truthful
  <1>4. ASSUME NEW q \in Procs PROVE Truthful(data, health, pc[q], job[q])'
    BY <1>1, <1>3 DEF Truthful
  <1>5. QED
    BY <1>1, <1>2, <1>4 DEF HInv

LEMMA IdleTruthful ==
  ASSUME NEW d, NEW h, NEW j
  PROVE  Truthful(d, h, "idle", j)
  BY DEF Truthful, Placed, Faithful, EnvironmentPositions, ReadPositions

LEMMA ReturnTruthful ==
  ASSUME HInv, NEW p \in Procs, pc[p] # "idle", NEW result, Return(p, result),
         UNCHANGED health, data' = [n \in Names |-> data'[n]]
  PROVE  HInv'
  <1>1. Moves(p, "idle", [cmd |-> job[p].cmd, result |-> result]) /\ UNCHANGED world
    BY DEF Return, Goto, Moves, setting
  <1>2. QED
    BY <1>1, IdleTruthful, BusyApart, TruthKept

(* A step of a call of another kind. *)
Other(p, l, j) ==
    /\ Moves(p, l, j)
    /\ pc[p] \notin EnvironmentPositions \cup ReadPositions \cup {"idle"}
    /\ l \notin EnvironmentPositions \cup ReadPositions
    /\ l # "idle" => "cmd" \in DOMAIN j /\ j.cmd = job[p].cmd
    /\ UNCHANGED <<world, data, health>>

LEMMA OtherTruthful ==
  ASSUME HInv, NEW p \in Procs, NEW l, NEW j, Other(p, l, j)
  PROVE  HInv'
  <1>1. Truthful(data, health, pc[p], job[p]) /\ Apart(p) /\ data = [n \in Names |-> data[n]]
    BY BusyApart DEF HInv, Other
  <1>2. Placed(l, j)
    BY <1>1 DEF Truthful, Placed, Other
  <1>3. Faithful(data, l, j)
    BY DEF Faithful, Other, EnvironmentPositions
  <1>4. Truthful(data', health, l, j)
    BY <1>2, <1>3 DEF Truthful, Other
  <1>5. QED
    BY <1>1, <1>4, TruthKept DEF Other

LEMMA OtherGoto ==
  ASSUME HInv, NEW p \in Procs, pc[p] \notin EnvironmentPositions \cup ReadPositions \cup {"idle"},
         NEW l, l \notin EnvironmentPositions \cup ReadPositions, NEW j, Goto(p, l, j),
         "cmd" \in DOMAIN job[p] => "cmd" \in DOMAIN j /\ j.cmd = job[p].cmd,
         UNCHANGED <<data, health>>
  PROVE  HInv'
  <1>1. "cmd" \in DOMAIN job[p]
    BY DEF HInv, Truthful, Placed
  <1>2. Other(p, l, j)
    BY <1>1 DEF Other, Goto, Moves, setting
  <1>3. QED
    BY <1>2, OtherTruthful

LEMMA RegistryTruthful ==
  ASSUME HInv, NEW p \in Procs, UNCHANGED <<data, health>>,
         StoreCheck(p) \/ StoreWrite(p) \/ Registration(p)
  PROVE  HInv'
  <1> DEFINE Places == {"store", "store_write", "lookup", "insert", "relookup"}
  <1>1. pc[p] \in Places
    BY DEF StoreCheck, StoreWrite, Registration, Lookup, Insert, RegisterInMemory, At
  <1>2. \A l \in Places : l \notin EnvironmentPositions \cup ReadPositions \cup {"idle"}
    BY DEF EnvironmentPositions, ReadPositions
  <1> HIDE DEF Places
  <1>3. ASSUME NEW result, Return(p, result) PROVE HInv'
    BY <1>1, <1>2, <1>3, ReturnTruthful DEF HInv
  <1>4. ASSUME NEW l \in Places, NEW j, Goto(p, l, j), "cmd" \in DOMAIN job[p] => "cmd" \in DOMAIN j /\ j.cmd = job[p].cmd
        PROVE  HInv'
    BY <1>1, <1>2, <1>4, OtherGoto
  <1>5. ASSUME NEW l \in Places, Step(p, l) PROVE HInv'
    BY <1>4, <1>5 DEF Step
  <1>6. ASSUME NEW outcome, Done(p, outcome) PROVE HInv'
    <2>1. ASSUME NEW r, Goto(p, "lookup", [job[p] EXCEPT !.retries = r]) PROVE HInv'
      <3> DEFINE j == [job[p] EXCEPT !.retries = r]
      <3>1. "cmd" \in DOMAIN job[p] => "cmd" \in DOMAIN j /\ j.cmd = job[p].cmd
        OBVIOUS
      <3>2. Goto(p, "lookup", j)
        BY <2>1
      <3> HIDE DEF j
      <3>3. QED
        BY <1>4, <3>1, <3>2 DEF Places
    <2>2. QED
      BY <1>3, <1>6, <2>1 DEF Done
  <1>7. ASSUME StoreCheck(p) \/ StoreWrite(p) PROVE HInv'
    BY <1>3, <1>5, <1>7 DEF StoreCheck, StoreWrite, Places
  <1>8. ASSUME NEW l, Lookup(p, l) PROVE HInv'
    BY <1>5, <1>6, <1>8 DEF Lookup, Places
  <1>9. ASSUME Insert(p) \/ RegisterInMemory(p) PROVE HInv'
    BY <1>5, <1>6, <1>9 DEF Insert, RegisterInMemory, Places
  <1>10. QED
    BY <1>7, <1>8, <1>9 DEF Registration

LEMMA RegisterTruthful ==
  ASSUME HInv, NEW p \in Procs, Register(p)
  PROVE  HInv'
  <1> DEFINE Places == {"existing", "verify_live", "converge", "lookup"}
  <1>1. UNCHANGED <<data, health>>
    BY DEF Register, Existing, VerifyLive, Converge, Commit, planeVars, environmentVars
  <1>2. ASSUME Existing(p) \/ VerifyLive(p) \/ Converge(p) PROVE HInv'
    <2>1. pc[p] \in Places
      BY <1>2 DEF Existing, VerifyLive, Converge, At
    <2>2. \A l \in Places : l \notin EnvironmentPositions \cup ReadPositions \cup {"idle"}
      BY DEF EnvironmentPositions, ReadPositions
    <2> HIDE DEF Places
    <2>3. ASSUME NEW result, Return(p, result) PROVE HInv'
      BY <1>1, <2>1, <2>2, <2>3, ReturnTruthful DEF HInv
    <2>4. ASSUME NEW l \in Places, Step(p, l) PROVE HInv'
      BY <1>1, <2>1, <2>2, <2>4, OtherGoto DEF Step
    <2>5. QED
      BY <1>2, <2>3, <2>4 DEF Existing, VerifyLive, Converge, Places
  <1>3. QED
    BY <1>1, <1>2, RegistryTruthful DEF Register, Commit

LEMMA KeyLocals ==
  ASSUME NEW r, NEW a, NEW b, NEW c, NEW d, NEW e, "cmd" \in DOMAIN r
  PROVE  LET j == [r EXCEPT !.key = a, !.record = b, !.seen = c, !.history = d, !.path = e, !.tries = 0]
         IN "cmd" \in DOMAIN j /\ j.cmd = r.cmd
  OBVIOUS

LEMMA LifecycleTruthful ==
  ASSUME HInv, NEW p \in Procs, Lifecycle(p)
  PROVE  HInv'
  <1> DEFINE Places == {"list", "observe", "events", "key", "revalidate", "reconcile", "quarantine", "journal",
                        "revalidate_zombie", "delete", "journal_delete", "cleanup"}
             SameCall(j) == "cmd" \in DOMAIN job[p] => "cmd" \in DOMAIN j /\ j.cmd = job[p].cmd
  <1>1. UNCHANGED <<data, health>>
    <2>1. ASSUME Delete(p) \/ Cleanup(p) PROVE UNCHANGED <<data, health>>
      BY <2>1 DEF Delete, Cleanup, environmentVars
    <2>2. ASSUME ListRecords(p) \/ Observe(p) \/ ReadJournal(p) \/ NextKey(p) \/ Revalidate(p) \/ Reconcile(p)
          PROVE  UNCHANGED <<data, health>>
      BY <2>2 DEF ListRecords, Observe, ReadJournal, NextKey, Revalidate, Reconcile, planeVars
    <2>3. ASSUME Quarantine(p) \/ JournalQuarantine(p) \/ RevalidateZombie(p) \/ JournalDelete(p)
          PROVE  UNCHANGED <<data, health>>
      BY <2>3 DEF Quarantine, JournalQuarantine, RevalidateZombie, JournalDelete, planeVars
    <2>4. QED
      BY <2>1, <2>2, <2>3 DEF Lifecycle
  <1>2. pc[p] \in Places
    BY DEF Lifecycle, ListRecords, Observe, ReadJournal, NextKey, Revalidate, Reconcile, Quarantine,
           JournalQuarantine, RevalidateZombie, Delete, JournalDelete, Cleanup, At
  <1>3. \A l \in Places : l \notin EnvironmentPositions \cup ReadPositions \cup {"idle"}
    BY DEF EnvironmentPositions, ReadPositions
  <1> HIDE DEF Places
  <1>4. ASSUME NEW result, Return(p, result) PROVE HInv'
    BY <1>1, <1>2, <1>3, <1>4, ReturnTruthful DEF HInv
  <1>5. ASSUME NEW l \in Places, NEW j, Goto(p, l, j), SameCall(j) PROVE HInv'
    BY <1>1, <1>2, <1>3, <1>5, OtherGoto
  <1>6. ASSUME NEW l \in Places, Step(p, l) PROVE HInv'
    BY <1>5, <1>6 DEF Step
  <1>7. ASSUME Finish(p) PROVE HInv'
    <2>1. PICK keys : Goto(p, "key", [job[p] EXCEPT !.keys = keys])
      BY <1>7 DEF Finish
    <2>2. SameCall([job[p] EXCEPT !.keys = keys])
      OBVIOUS
    <2>3. QED
      BY <1>5, <2>1, <2>2 DEF Places
  <1>8. ASSUME ListRecords(p) \/ Observe(p) PROVE HInv'
    <2>1. ASSUME NEW x PROVE SameCall([job[p] EXCEPT !.records = x]) /\ SameCall([job[p] EXCEPT !.observed = x])
      OBVIOUS
    <2> HIDE DEF SameCall
    <2>2. QED
      BY <1>4, <1>5, <1>8, <2>1 DEF ListRecords, Observe, Places
  <1>9. ASSUME ReadJournal(p) PROVE HInv'
    <2> DEFINE j == [job[p] EXCEPT !.histories = journal.histories]
    <2>1. ASSUME NEW x PROVE SameCall([j EXCEPT !.keys = x])
      OBVIOUS
    <2> HIDE DEF SameCall
    <2>2. QED
      BY <1>4, <1>5, <1>9, <2>1 DEF ReadJournal, Places
  <1>10. ASSUME NextKey(p) PROVE HInv'
    <2>1. ASSUME NEW a, NEW b, NEW c, NEW d, NEW e
          PROVE  SameCall([job[p] EXCEPT !.key = a, !.record = b, !.seen = c, !.history = d, !.path = e, !.tries = 0])
      BY KeyLocals
    <2> HIDE DEF SameCall
    <2>2. ASSUME NEW l, l \in {"quarantine", "revalidate"}, NEW a, NEW b, NEW c, NEW d, NEW e,
                 Goto(p, l, [job[p] EXCEPT !.key = a, !.record = b, !.seen = c, !.history = d, !.path = e, !.tries = 0])
          PROVE  HInv'
      <3> DEFINE j == [job[p] EXCEPT !.key = a, !.record = b, !.seen = c, !.history = d, !.path = e, !.tries = 0]
      <3>1. SameCall(j) /\ Goto(p, l, j) /\ l \in Places
        BY <2>1, <2>2 DEF Places
      <3> HIDE DEF j
      <3>2. QED
        BY <1>5, <3>1
    <2>3. CASE job[p].keys = {}
      BY <1>4, <1>10, <2>3 DEF NextKey
    <2>4. CASE job[p].keys # {}
      <3> DEFINE j == job[p]
                 key == First(j.keys)
                 owners == {i \in DOMAIN j.records : KeyOf(j.records[i]) = key}
                 seen == IF key[1] = "database" THEN j.observed[key[2]] ELSE {}
                 told == {k \in DOMAIN j.histories : key = <<"database", j.histories[k].name>>}
                 found == IF owners = {} THEN None
                          ELSE [pointer |-> Only(owners), row |-> j.records[Only(owners)]]
                 history == IF told = {} THEN None ELSE j.histories[Only(told)]
                 record == IF history = None THEN found ELSE FromHistory(found, history)
                 look == IF seen = {} THEN None ELSE Only(seen)
                 path == PathOf(j, record, look, history)
      <3>1. \/ Finish(p)
            \/ Goto(p, IF path = "zombie" THEN "quarantine" ELSE "revalidate",
                    [job[p] EXCEPT !.key = key[2], !.record = record, !.seen = look,
                                   !.history = history, !.path = path, !.tries = 0])
        BY <1>10, <2>4, Zenon DEF NextKey
      <3> HIDE DEF key, record, look, history, path
      <3>2. QED
        BY <1>7, <2>2, <3>1
    <2>5. QED
      BY <2>3, <2>4
  <1>11. ASSUME Revalidate(p) \/ Reconcile(p) \/ Quarantine(p) \/ RevalidateZombie(p) \/ Delete(p) \/ JournalDelete(p)
         PROVE  HInv'
    BY <1>4, <1>6, <1>7, <1>11 DEF Revalidate, Reconcile, Quarantine, RevalidateZombie, Delete, JournalDelete, Places
  <1>12. ASSUME JournalQuarantine(p) PROVE HInv'
    <2>1. ASSUME NEW h PROVE SameCall([job[p] EXCEPT !.history = h, !.tries = 1])
      OBVIOUS
    <2> HIDE DEF SameCall
    <2>2. QED
      BY <1>5, <1>7, <1>12, <2>1 DEF JournalQuarantine, Places
  <1>13. ASSUME Cleanup(p) PROVE HInv'
    <2>1. ASSUME NEW t PROVE SameCall([job[p] EXCEPT !.tries = t])
      OBVIOUS
    <2> HIDE DEF SameCall
    <2>2. QED
      BY <1>5, <1>7, <1>13, <2>1 DEF Cleanup, Places
  <1>14. QED
    BY <1>8, <1>9, <1>10, <1>11, <1>12, <1>13 DEF Lifecycle

LEMMA EnvironmentGoto ==
  ASSUME HInv, NEW p \in Procs, pc[p] \in EnvironmentPositions,
         NEW l \in EnvironmentPositions, NEW j, Goto(p, l, j), EnvironmentJob(j),
         "concurrent" \notin world => Faithful(data', l, j),
         UNCHANGED health, data' = [n \in Names |-> data'[n]]
  PROVE  HInv'
  <1>1. pc[p] # "idle" /\ l \notin ReadPositions /\ l # "idle"
    BY DEF EnvironmentPositions, ReadPositions
  <1>2. "cmd" \in DOMAIN j /\ j.cmd = "environment"
    BY DEF EnvironmentJob
  <1>3. Truthful(data', health, l, j)
    BY <1>1, <1>2 DEF Truthful, Placed
  <1>4. Moves(p, l, j) /\ UNCHANGED world
    BY DEF Goto, Moves, setting
  <1>5. QED
    BY <1>1, <1>3, <1>4, BusyApart, TruthKept

(* A run of a data environment. *)
LEMMA EnvironmentTruthful ==
  ASSUME HInv, NEW p \in Procs, Environment(p)
  PROVE  HInv'
  <1> DEFINE j0 == job[p]
  <1>1. /\ pc[p] \in EnvironmentPositions /\ pc[p] # "idle"
        /\ data = [n \in Names |-> data[n]]
    BY DEF HInv, Environment, Definition, Grant, AcquirePoint, Mutate, Verified, Restore, VerifyRestore, At,
           EnvironmentPositions
  <1>2. EnvironmentJob(j0) /\ ("concurrent" \notin world => Faithful(data, pc[p], j0))
    BY <1>1 DEF HInv, Truthful
  <1>3. ASSUME NEW result, Return(p, result), UNCHANGED health, data' = [n \in Names |-> data'[n]]
        PROVE  HInv'
    BY <1>1, <1>3, ReturnTruthful
  <1>4. ASSUME UNCHANGED <<data, health>>, NEW l \in EnvironmentPositions, Step(p, l), Faithful(data, pc[p], j0) => Faithful(data, l, j0)
        PROVE  HInv'
    BY <1>1, <1>2, <1>4, EnvironmentGoto DEF Step
  <1>5. ASSUME NEW x
        PROVE  /\ EnvironmentJob([j0 EXCEPT !.granted = x]) /\ [j0 EXCEPT !.granted = x].granted = x
               /\ EnvironmentJob([j0 EXCEPT !.before = x]) /\ [j0 EXCEPT !.before = x].before = x
               /\ EnvironmentJob([j0 EXCEPT !.failure = x])
               /\ [j0 EXCEPT !.granted = x].target = j0.target /\ [j0 EXCEPT !.before = x].target = j0.target
               /\ [j0 EXCEPT !.granted = x].before = j0.before
               /\ [j0 EXCEPT !.before = x].raw = j0.raw /\ [j0 EXCEPT !.before = x].granted = j0.granted
    <2> HIDE DEF j0
    <2>1. QED
      BY <1>2 DEF EnvironmentJob
  <1>6. ASSUME Definition(p) PROVE HInv'
    <2>1. UNCHANGED <<data, health>> /\ pc[p] = "definition"
      BY <1>6 DEF Definition, planeVars, At
    <2>2. Faithful(data, pc[p], j0) => Faithful(data, IF j0.raw THEN "grant" ELSE "point", j0)
      BY <2>1 DEF Faithful
    <2>3. CASE Step(p, IF j0.raw THEN "grant" ELSE "point")
      BY <1>4, <2>1, <2>2, <2>3 DEF EnvironmentPositions
    <2>4. QED
      BY <1>1, <1>3, <1>6, <2>1, <2>3 DEF Definition, Refuse
  <1>7. ASSUME Grant(p) PROVE HInv'
    <2> DEFINE j == [j0 EXCEPT !.granted = TRUE]
    <2>1. UNCHANGED <<data, health>> /\ pc[p] = "grant"
      BY <1>7 DEF Grant, planeVars, At
    <2>2. EnvironmentJob(j) /\ j.granted = TRUE /\ j.target = j0.target /\ j.before = j0.before
      BY <1>5
    <2>3. \/ Goto(p, "point", j) \/ \E result : Return(p, result)
      BY <1>7 DEF Grant, Refuse
    <2> HIDE DEF j
    <2>4. Faithful(data, pc[p], j0) => Faithful(data', "point", j)
      BY <2>1, <2>2 DEF Faithful
    <2>5. CASE Goto(p, "point", j)
      BY <1>1, <1>2, <2>1, <2>2, <2>4, <2>5, EnvironmentGoto DEF EnvironmentPositions
    <2>6. QED
      BY <1>1, <1>3, <2>1, <2>3, <2>5
  <1>8. ASSUME AcquirePoint(p) PROVE HInv'
    <2> DEFINE j == [j0 EXCEPT !.before = data[j0.target]]
    <2>1. UNCHANGED <<data, health>> /\ pc[p] = "point"
      BY <1>8 DEF AcquirePoint, planeVars, At
    <2>2. /\ EnvironmentJob(j) /\ j.before = data[j0.target] /\ j.target = j0.target
          /\ j.raw = j0.raw /\ j.granted = j0.granted
      BY <1>5
    <2>3. \/ Goto(p, "mutate", j) \/ \E result : Return(p, result)
      BY <1>8 DEF AcquirePoint, Refuse
    <2> HIDE DEF j
    <2>4. Faithful(data, pc[p], j0) => Faithful(data', "mutate", j)
      BY <2>1, <2>2 DEF Faithful
    <2>5. CASE Goto(p, "mutate", j)
      BY <1>1, <1>2, <2>1, <2>2, <2>4, <2>5, EnvironmentGoto DEF EnvironmentPositions
    <2>6. QED
      BY <1>1, <1>3, <2>1, <2>3, <2>5
  <1>9. ASSUME NEW code, Goto(p, "restore", [j0 EXCEPT !.failure = code]), UNCHANGED health,
               data' = [n \in Names |-> data'[n]]
        PROVE  HInv'
    <2> DEFINE j == [j0 EXCEPT !.failure = code]
    <2>1. EnvironmentJob(j) /\ Goto(p, "restore", j)
      BY <1>5, <1>9
    <2> HIDE DEF j
    <2>2. Faithful(data', "restore", j)
      BY DEF Faithful
    <2>3. QED
      BY <1>1, <1>9, <2>1, <2>2, EnvironmentGoto DEF EnvironmentPositions
  <1>10. ASSUME Mutate(p) PROVE HInv'
    <2>1. UNCHANGED health /\ pc[p] = "mutate" /\ j0.target \in Names
      BY <1>2, <1>10 DEF Mutate, At, EnvironmentJob
    <2>2. CASE data' = [data EXCEPT ![j0.target] = j0.operation] /\ Step(p, "verify")
      <3>1. data' = [n \in Names |-> data'[n]] /\ data'[j0.target] = j0.operation
        BY <1>1, <2>1, <2>2
      <3>2. Faithful(data, pc[p], j0) => Faithful(data', "verify", j0)
        BY <2>1, <3>1 DEF Faithful
      <3>3. QED
        BY <1>1, <1>2, <2>1, <2>2, <3>1, <3>2, EnvironmentGoto DEF Step, EnvironmentPositions
    <2>3. CASE /\ data' \in {data, [data EXCEPT ![j0.target] = "partial"]}
               /\ Goto(p, "restore", [j0 EXCEPT !.failure = "mutation_failed"])
      <3>1. data' = [n \in Names |-> data'[n]]
        BY <1>1, <2>1, <2>3
      <3>2. QED
        BY <1>9, <2>1, <2>3, <3>1
    <2>4. QED
      BY <1>10, <2>2, <2>3 DEF Mutate
  <1>11. ASSUME Verified(p) PROVE HInv'
    <2>1. UNCHANGED <<data, health>>
      BY <1>11 DEF Verified, planeVars
    <2>2. QED
      BY <1>1, <1>3, <1>9, <1>11, <2>1 DEF Verified, Ended
  <1>12. ASSUME Restore(p) PROVE HInv'
    <2>1. UNCHANGED health /\ pc[p] = "restore" /\ j0.target \in Names
      BY <1>2, <1>12 DEF Restore, At, EnvironmentJob
    <2>2. data' = [n \in Names |-> data'[n]]
      BY <1>1, <1>12, <2>1 DEF Restore
    <2>3. ASSUME Step(p, "verify_restore") PROVE HInv'
      <3>1. Faithful(data', "verify_restore", j0)
        BY DEF Faithful
      <3>2. QED
        BY <1>1, <1>2, <2>1, <2>2, <2>3, <3>1, EnvironmentGoto DEF Step, EnvironmentPositions
    <2>4. QED
      BY <1>3, <1>12, <2>1, <2>2, <2>3 DEF Restore, Ended
  <1>13. ASSUME VerifyRestore(p) PROVE HInv'
    <2>1. UNCHANGED <<data, health>>
      BY <1>13 DEF VerifyRestore, planeVars
    <2>2. QED
      BY <1>1, <1>3, <1>13, <2>1 DEF VerifyRestore, Ended
  <1>14. QED
    BY <1>6, <1>7, <1>8, <1>10, <1>11, <1>12, <1>13 DEF Environment

LEMMA ReadGoto ==
  ASSUME HInv, NEW p \in Procs, pc[p] \in ReadPositions, NEW l \in ReadPositions,
         NEW j, Goto(p, l, j), ReadJob(health, j), UNCHANGED <<data, health>>
  PROVE  HInv'
  <1>1. pc[p] # "idle" /\ l \notin EnvironmentPositions /\ l # "idle" /\ data = [n \in Names |-> data[n]]
    BY DEF EnvironmentPositions, ReadPositions, HInv
  <1>2. "cmd" \in DOMAIN j /\ j.cmd = "read"
    BY DEF ReadJob
  <1>3. Faithful(data, l, j)
    BY DEF Faithful, ReadPositions
  <1>4. Truthful(data', health, l, j)
    BY <1>1, <1>2, <1>3 DEF Truthful, Placed
  <1>5. Moves(p, l, j) /\ UNCHANGED world
    BY DEF Goto, Moves, setting
  <1>6. QED
    BY <1>1, <1>4, <1>5, BusyApart, TruthKept

(* A read of the routes. *)
LEMMA ReadTruthful ==
  ASSUME HInv, NEW p \in Procs, ReadInstances(p)
  PROVE  HInv'
  <1> DEFINE j0 == job[p]
  <1>1. /\ pc[p] \in ReadPositions /\ pc[p] # "idle"
        /\ UNCHANGED <<data, health>> /\ data = [n \in Names |-> data[n]]
    BY DEF HInv, ReadInstances, ReadRows, ReadStatus, At, ReadPositions, planeVars
  <1>2. ReadJob(health, j0)
    BY <1>1 DEF HInv, Truthful
  <1>3. ASSUME NEW result, Return(p, result) PROVE HInv'
    BY <1>1, <1>3, ReturnTruthful
  <1>4. ASSUME ReadRows(p) PROVE HInv'
    <2>1. ASSUME NEW x, Goto(p, "status", [j0 EXCEPT !.todo = x]) PROVE HInv'
      <3> DEFINE j == [j0 EXCEPT !.todo = x]
      <3>1. Goto(p, "status", j)
        BY <2>1
      <3> HIDE DEF j0
      <3>2. ReadJob(health, j)
        BY <1>2 DEF ReadJob
      <3> HIDE DEF j
      <3>3. QED
        BY <1>1, <3>1, <3>2, ReadGoto DEF ReadPositions
    <2>2. QED
      BY <1>3, <1>4, <2>1 DEF ReadRows
  <1>5. ASSUME ReadStatus(p) PROVE HInv'
    <2>1. ASSUME NEW i, NEW x, NEW outcome, outcome \in {"fresh", "drifted", "stale_unverified"},
                 i \in Pointers /\ outcome = "fresh" => health[i] = "up",
                 Goto(p, "status", [j0 EXCEPT !.todo = x, !.seen = [k \in DOMAIN j0.seen \cup {i} |->
                                                  IF k = i THEN outcome ELSE j0.seen[k]]])
          PROVE  HInv'
      <3> DEFINE seen == [k \in DOMAIN j0.seen \cup {i} |-> IF k = i THEN outcome ELSE j0.seen[k]]
      <3>1. Goto(p, "status", [j0 EXCEPT !.todo = x, !.seen = seen])
        BY <2>1
      <3>2. /\ DOMAIN seen = {i} \cup DOMAIN j0.seen
            /\ \A k \in {i} \cup DOMAIN j0.seen : seen[k] = IF k = i THEN outcome ELSE j0.seen[k]
        OBVIOUS
      <3> HIDE DEF seen, j0
      <3>3. PICK a, b, c, d : j0 = [cmd |-> "read", only |-> a, todo |-> b, seen |-> c, steady |-> d]
        BY <1>2 DEF ReadJob
      <3> DEFINE j1 == [j0 EXCEPT !.todo = x]
                 j == [j0 EXCEPT !.todo = x, !.seen = seen]
      <3>4. j1 = [cmd |-> "read", only |-> a, todo |-> x, seen |-> c, steady |-> d]
        BY <3>3
      <3>5. j = [j1 EXCEPT !.seen = seen]
        OBVIOUS
      <3>6. Goto(p, "status", j)
        BY <3>1
      <3>7. j0.steady = d
        BY <3>3
      <3> HIDE DEF j1, j
      <3>8. j = [cmd |-> "read", only |-> a, todo |-> x, seen |-> seen, steady |-> d]
        BY <3>4, <3>5
      <3>9. /\ j = [cmd |-> "read", only |-> j.only, todo |-> j.todo, seen |-> j.seen, steady |-> j.steady]
            /\ j.seen = seen /\ j.steady = j0.steady
        BY <3>7, <3>8
      <3>10. ReadJob(health, j)
        BY <1>2, <2>1, <3>2, <3>9 DEF ReadJob
      <3>11. QED
        BY <1>1, <3>6, <3>10, ReadGoto DEF ReadPositions
    <2>2. ASSUME NEW i, NEW row
          PROVE  /\ RowOutcome(i, row) \in {"fresh", "drifted", "stale_unverified"}
                 /\ i \in Pointers /\ RowOutcome(i, row) = "fresh" => health[i] = "up"
      <3>1. i \in Pointers => health[i] \in Healths
        BY DEF HInv
      <3>2. QED
        BY <3>1 DEF RowOutcome, StatusOutcome, Healths
    <2>3. CASE \E result : Return(p, result)
      BY <1>3, <2>3
    <2>4. CASE \E i \in DOMAIN j0.todo :
                  Goto(p, "status", [j0 EXCEPT !.todo = [k \in DOMAIN j0.todo \ {i} |-> j0.todo[k]],
                                               !.seen = [k \in DOMAIN j0.seen \cup {i} |->
                                                   IF k = i THEN RowOutcome(i, j0.todo[i]) ELSE j0.seen[k]]])
      <3>1. PICK i \in DOMAIN j0.todo :
                  Goto(p, "status", [j0 EXCEPT !.todo = [k \in DOMAIN j0.todo \ {i} |-> j0.todo[k]],
                                               !.seen = [k \in DOMAIN j0.seen \cup {i} |->
                                                   IF k = i THEN RowOutcome(i, j0.todo[i]) ELSE j0.seen[k]]])
        BY <2>4
      <3> DEFINE x == [k \in DOMAIN j0.todo \ {i} |-> j0.todo[k]]
                 outcome == RowOutcome(i, j0.todo[i])
      <3>2. Goto(p, "status", [j0 EXCEPT !.todo = x, !.seen = [k \in DOMAIN j0.seen \cup {i} |->
                                                  IF k = i THEN outcome ELSE j0.seen[k]]])
        BY <3>1
      <3>3. /\ outcome \in {"fresh", "drifted", "stale_unverified"}
            /\ i \in Pointers /\ outcome = "fresh" => health[i] = "up"
        BY <2>2
      <3> HIDE DEF x, outcome
      <3>4. QED
        BY <2>1, <3>2, <3>3
    <2>5. QED
      BY <1>5, <2>3, <2>4 DEF ReadStatus
  <1>6. QED
    BY <1>4, <1>5 DEF ReadInstances

(* Calls begin. *)
LEMMA BeginTruthful ==
  ASSUME HInv, NEW p \in Procs, NEW cmd, NEW l, NEW j, Begin(p, cmd, l, j),
         UNCHANGED <<data, health>>, Truthful(data, health, l, j)
  PROVE  HInv'
  <1>1. Apart(p) /\ Moves(p, l, j) /\ UNCHANGED world /\ data = [n \in Names |-> data[n]]
    BY DEF Apart, Begin, At, Moves, setting, HInv
  <1>2. QED
    BY <1>1, TruthKept

LEMMA BeginCallTruthful ==
  ASSUME HInv, NEW p \in Procs, BeginCall(p)
  PROVE  HInv'
  <1>1. UNCHANGED <<data, health>>
    BY DEF BeginCall, BeginRegister, BeginEnvironment, BeginRead, BeginLifecycle, planeVars
  <1>2. ASSUME NEW l, NEW j, NEW cmd, Begin(p, cmd, l, j), l \notin EnvironmentPositions \cup ReadPositions,
               "cmd" \in DOMAIN j /\ j.cmd \notin {"environment", "read"}
        PROVE  HInv'
    <2>1. Truthful(data, health, l, j)
      BY <1>2 DEF Truthful, Placed, Faithful, EnvironmentPositions
    <2>2. QED
      BY <1>1, <1>2, <2>1, BeginTruthful
  <1>3. ASSUME NEW i, NEW r, BeginStore(p, i, r) PROVE HInv'
    <2> DEFINE j == [cmd |-> "store", pointer |-> i, resource |-> r]
    <2>1. Begin(p, "store", "store", j) /\ "cmd" \in DOMAIN j /\ j.cmd = "store"
      BY <1>3 DEF BeginStore
    <2> HIDE DEF j
    <2>2. QED
      BY <1>2, <2>1 DEF EnvironmentPositions, ReadPositions
  <1>4. ASSUME NEW i, NEW n, NEW o, BeginEnrol(p, i, n, o) PROVE HInv'
    <2> DEFINE j == [cmd |-> "enrol", pointer |-> i, row |-> Enrolled(i, n, o), retries |-> 0]
    <2>1. Begin(p, "enrol", "lookup", j) /\ "cmd" \in DOMAIN j /\ j.cmd = "enrol"
      BY <1>4 DEF BeginEnrol
    <2> HIDE DEF j
    <2>2. QED
      BY <1>2, <2>1 DEF EnvironmentPositions, ReadPositions
  <1>5. ASSUME NEW r, BeginRegister(p, r) PROVE HInv'
    <2> DEFINE j == [cmd |-> "register", pointer |-> r.pointer, request |-> r, retries |-> 1,
                     row |-> [resource |-> r.resource, receipt |-> Receipt(r)]]
    <2>1. Begin(p, "register", "existing", j) /\ "cmd" \in DOMAIN j /\ j.cmd = "register"
      BY <1>5 DEF BeginRegister
    <2> HIDE DEF j
    <2>2. QED
      BY <1>2, <2>1 DEF EnvironmentPositions, ReadPositions
  <1>6. ASSUME NEW run, BeginLifecycle(p, run) PROVE HInv'
    <2> DEFINE j == [cmd |-> "lifecycle", delete |-> run.delete, wait |-> run.wait, approved |-> run.approved,
                     records |-> <<>>, observed |-> <<>>, histories |-> <<>>, keys |-> {},
                     key |-> None, record |-> None, seen |-> None, history |-> None, tries |-> 0,
                     path |-> None]
    <2>1. Begin(p, "lifecycle", "list", j) /\ "cmd" \in DOMAIN j /\ j.cmd = "lifecycle"
      BY <1>6 DEF BeginLifecycle
    <2> HIDE DEF j
    <2>2. QED
      BY <1>2, <2>1 DEF EnvironmentPositions, ReadPositions
  <1>7. ASSUME NEW i, NEW n \in Names, NEW o, NEW given, NEW raw, BeginEnvironment(p, i, n, o, given, raw) PROVE HInv'
    <2> DEFINE j == [cmd |-> "environment", pointer |-> i, target |-> n, operation |-> o, given |-> given,
                     raw |-> raw, before |-> data[n], granted |-> FALSE, failure |-> None]
    <2>1. Begin(p, "environment", "definition", j)
      BY <1>7 DEF BeginEnvironment
    <2>2. EnvironmentJob(j) /\ "cmd" \in DOMAIN j /\ j.cmd = "environment" /\ j.before = data[j.target]
      BY DEF EnvironmentJob
    <2> HIDE DEF j
    <2>3. Truthful(data, health, "definition", j)
      BY <2>2 DEF Truthful, Placed, Faithful, EnvironmentPositions, ReadPositions
    <2>4. QED
      BY <1>1, <2>1, <2>3, BeginTruthful
  <1>8. ASSUME NEW only, BeginRead(p, only) PROVE HInv'
    <2> DEFINE j == [cmd |-> "read", only |-> only, todo |-> <<>>, seen |-> <<>>, steady |-> Pointers]
    <2>1. Begin(p, "read", "rows", j)
      BY <1>8 DEF BeginRead
    <2>2. /\ j = [cmd |-> "read", only |-> j.only, todo |-> j.todo, seen |-> j.seen, steady |-> j.steady]
          /\ j.seen = <<>> /\ j.steady = Pointers /\ "cmd" \in DOMAIN j /\ j.cmd = "read"
      OBVIOUS
    <2> HIDE DEF j
    <2>3. DOMAIN j.seen = {}
      BY <2>2
    <2>4. ReadJob(health, j)
      BY <2>2, <2>3 DEF ReadJob
    <2>5. Truthful(data, health, "rows", j)
      BY <2>2, <2>4 DEF Truthful, Placed, Faithful, EnvironmentPositions, ReadPositions
    <2>6. QED
      BY <1>1, <2>1, <2>5, BeginTruthful
  <1>9. QED
    BY <1>3, <1>4, <1>5, <1>6, <1>7, <1>8 DEF BeginCall

LEMMA CallsApartFromChange ==
  ASSUME HInv, UNCHANGED <<world, pc, job, data, health>>
  PROVE  HInv'
  BY DEF HInv, Truthful, Placed, Faithful, EnvironmentJob, ReadJob

(* The health of an instance changes under the reads. *)
LEMMA FluctuateTruthful ==
  ASSUME HInv, NEW i \in Pointers, NEW h \in Healths, Fluctuate(i, h)
  PROVE  HInv'
  <1>1. /\ UNCHANGED <<world, pc, data>> /\ health' = [health EXCEPT ![i] = h]
        /\ job' = [p \in Procs |-> IF ~At(p, "idle") /\ job[p].cmd = "read"
                                  THEN [job[p] EXCEPT !.steady = @ \ {i}] ELSE job[p]]
    BY DEF Fluctuate, environmentVars
  <1>2. /\ health' \in [Pointers -> Healths] /\ pc' = [p \in Procs |-> pc'[p]] /\ job' = [p \in Procs |-> job'[p]]
        /\ \A k \in Pointers \ {i} : health'[k] = health[k]
    BY <1>1 DEF HInv
  <1>3. ASSUME NEW p \in Procs PROVE Truthful(data, health', pc[p], job'[p])
    <2>1. Truthful(data, health, pc[p], job[p])
      BY DEF HInv
    <2>2. CASE job'[p] = job[p] /\ (pc[p] = "idle" \/ job[p].cmd # "read")
      BY <2>1, <2>2 DEF Truthful, Placed, ReadPositions
    <2>3. CASE pc[p] # "idle" /\ job[p].cmd = "read" /\ job'[p] = [job[p] EXCEPT !.steady = @ \ {i}]
      <3> DEFINE j0 == job[p]
                 j == [j0 EXCEPT !.steady = @ \ {i}]
      <3>1. pc[p] \in ReadPositions /\ ReadJob(health, j0)
        BY <2>1, <2>3 DEF Truthful, Placed
      <3> HIDE DEF j0
      <3>2. /\ j = [cmd |-> "read", only |-> j.only, todo |-> j.todo, seen |-> j.seen, steady |-> j.steady]
            /\ j.seen = j0.seen /\ j.steady = j0.steady \ {i} /\ "cmd" \in DOMAIN j /\ j.cmd = "read"
        BY <3>1 DEF ReadJob
      <3>3. job'[p] = j
        BY <2>3 DEF j0
      <3> HIDE DEF j
      <3>4. ReadJob(health', j)
        BY <1>2, <3>1, <3>2 DEF ReadJob
      <3>5. QED
        BY <3>1, <3>2, <3>3, <3>4 DEF Truthful, Placed, Faithful, EnvironmentPositions, ReadPositions
    <2>4. QED
      BY <1>1, <2>2, <2>3 DEF At
  <1>4. ASSUME NEW p \in Procs PROVE Truthful(data, health, pc[p], job[p])'
    BY <1>1, <1>3 DEF Truthful
  <1>5. QED
    BY <1>1, <1>2, <1>4 DEF HInv

LEMMA HInitial == Init => HInv
  <1>1. SUFFICES ASSUME Init PROVE HInv
    OBVIOUS
  <1>2. /\ pc = [p \in Procs |-> "idle"] /\ job = [p \in Procs |-> None]
        /\ data = [n \in Names |-> "base"] /\ health = [i \in Pointers |-> "up"]
    BY <1>1 DEF Init, CallsInit, PlaneInit
  <1>3. \A p \in Procs : Truthful(data, health, pc[p], job[p])
    BY <1>2, IdleTruthful
  <1>4. health \in [Pointers -> Healths]
    BY <1>2 DEF Healths
  <1>5. QED
    BY <1>2, <1>3, <1>4 DEF HInv

LEMMA SurroundingsTruthful ==
  ASSUME HInv, Surroundings
  PROVE  HInv'
  <1>1. ASSUME NEW n, \/ \E o \in Operations : Provision(n, o)
                      \/ Perish(n) \/ Use(n)
        PROVE  HInv'
    BY <1>1, CallsApartFromChange DEF Provision, Perish, Use, Change, callVars, planeVars, environmentVars
  <1>2. ASSUME NEW i, Unlist(i), UNCHANGED planeVars PROVE HInv'
    BY <1>2, CallsApartFromChange DEF Unlist, Change, callVars, planeVars
  <1>3. ASSUME Govern \/ Tick PROVE HInv'
    BY <1>3, CallsApartFromChange DEF Govern, Tick, Change, setting, callVars, planeVars
  <1>4. QED
    BY <1>1, <1>2, <1>3, FluctuateTruthful DEF Surroundings

LEMMA HInductive == HInv /\ [Next]_serverVars => HInv'
  <1>1. SUFFICES ASSUME HInv, [Next]_serverVars PROVE HInv'
    OBVIOUS
  <1>2. ASSUME NEW p \in Procs, Serve(p) PROVE HInv'
    <2>1. ASSUME StoreCheck(p) \/ StoreWrite(p) \/ Enrol(p), UNCHANGED planeVars PROVE HInv'
      BY <1>1, <2>1, RegistryTruthful DEF Enrol, planeVars
    <2>2. ASSUME Dies(p) PROVE HInv'
      <3>1. pc[p] # "idle" /\ Return(p, None) /\ UNCHANGED <<data, health>> /\ data = [n \in Names |-> data[n]]
        BY <1>1, <2>2 DEF Dies, At, planeVars, HInv
      <3>2. QED
        BY <1>1, <3>1, ReturnTruthful
    <2>3. QED
      BY <1>1, <1>2, <2>1, <2>2, RegisterTruthful, EnvironmentTruthful, ReadTruthful, LifecycleTruthful DEF Serve
  <1>3. ASSUME UNCHANGED serverVars PROVE HInv'
    BY <1>1, <1>3, CallsApartFromChange DEF serverVars, setting, callVars, planeVars
  <1>4. QED
    BY <1>1, <1>2, <1>3, BeginCallTruthful, SurroundingsTruthful DEF Next

(* A process moves on only in its own call, and into a lifecycle run only  *)
(* in one.                                                                 *)
MovesOnly(p) == \E l, j : Moves(p, l, j) /\ UNCHANGED world

Aside(p) == \E l, j : l \notin Running /\ Moves(p, l, j) /\ UNCHANGED world

LEMMA StepsAside ==
  ASSUME NEW p, \/ \E l, j : l \notin Running /\ Goto(p, l, j)
                \/ \E l : l \notin Running /\ Step(p, l)
                \/ \E result : Return(p, result)
  PROVE  Aside(p)
  <1>1. "idle" \notin Running
    BY DEF Running, Informed, Handling, Removing
  <1>2. QED
    BY <1>1 DEF Aside, Moves, Goto, Step, Return, setting

LEMMA RegistrationAside ==
  ASSUME NEW p, Registration(p)
  PROVE  Aside(p)
  <1>1. \A l \in {"lookup", "insert", "relookup"} : l \notin Running
    BY DEF Running, Informed, Handling, Removing
  <1>2. ASSUME NEW outcome, Done(p, outcome) PROVE Aside(p)
    BY <1>1, <1>2, StepsAside DEF Done
  <1>3. ASSUME NEW l, Lookup(p, l) PROVE Aside(p)
    BY <1>1, <1>2, <1>3, StepsAside DEF Lookup
  <1>4. ASSUME Insert(p) \/ RegisterInMemory(p) PROVE Aside(p)
    BY <1>1, <1>2, <1>4, StepsAside DEF Insert, RegisterInMemory
  <1>5. QED
    BY <1>3, <1>4 DEF Registration

LEMMA OtherCallsAside ==
  ASSUME NEW p, StoreCheck(p) \/ StoreWrite(p) \/ Enrol(p) \/ Register(p) \/ Environment(p) \/ ReadInstances(p)
                \/ Dies(p)
  PROVE  Aside(p)
  <1>1. \A l \in {"store_write", "verify_live", "converge", "lookup"} \cup EnvironmentPositions \cup ReadPositions :
           l \notin Running
    BY DEF Running, Informed, Handling, Removing, EnvironmentPositions, ReadPositions
  <1>2. CASE StoreCheck(p) \/ StoreWrite(p)
    BY <1>1, <1>2, StepsAside DEF StoreCheck, StoreWrite
  <1>3. CASE Enrol(p) \/ Commit(p)
    BY <1>3, RegistrationAside DEF Enrol, Commit
  <1>4. CASE Existing(p) \/ VerifyLive(p) \/ Converge(p)
    BY <1>1, <1>4, StepsAside DEF Existing, VerifyLive, Converge
  <1>5. CASE Environment(p)
    <2>1. \A l \in {"grant", "point", "mutate", "verify", "restore", "verify_restore"} : l \notin Running
      BY <1>1 DEF EnvironmentPositions
    <2>2. CASE Definition(p) \/ Restore(p) \/ VerifyRestore(p)
      BY <2>1, <2>2, StepsAside DEF Definition, Restore, VerifyRestore, Refuse, Ended
    <2>3. CASE Grant(p) \/ AcquirePoint(p) \/ Mutate(p) \/ Verified(p)
      BY <2>1, <2>3, StepsAside DEF Grant, AcquirePoint, Mutate, Verified, Refuse, Ended
    <2>4. QED
      BY <1>5, <2>2, <2>3 DEF Environment
  <1>6. CASE ReadInstances(p)
    <2>1. "status" \notin Running
      BY <1>1 DEF ReadPositions
    <2>2. QED
      BY <1>6, <2>1, StepsAside DEF ReadInstances, ReadRows, ReadStatus
  <1>7. CASE Dies(p)
    BY <1>7, StepsAside DEF Dies
  <1>8. QED
    BY <1>2, <1>3, <1>4, <1>5, <1>6, <1>7 DEF Register

LEMMA ServeMoves ==
  ASSUME NEW p, Serve(p)
  PROVE  MovesOnly(p)
  <1>1. ASSUME NEW l, NEW j, Goto(p, l, j) PROVE MovesOnly(p)
    BY <1>1 DEF Goto, MovesOnly, Moves, setting
  <1>2. ASSUME NEW l, Step(p, l) PROVE MovesOnly(p)
    BY <1>1, <1>2 DEF Step
  <1>3. ASSUME NEW result, Return(p, result) PROVE MovesOnly(p)
    BY <1>3 DEF Return, Goto, MovesOnly, Moves, setting
  <1>4. ASSUME Finish(p) PROVE MovesOnly(p)
    BY <1>1, <1>4 DEF Finish
  <1>5. CASE Lifecycle(p)
    <2>1. CASE ListRecords(p) \/ Observe(p) \/ ReadJournal(p)
      BY <1>1, <1>3, <2>1 DEF ListRecords, Observe, ReadJournal
    <2>2. CASE NextKey(p)
      BY <1>1, <1>3, <1>4, <2>2 DEF NextKey
    <2>3. CASE Revalidate(p) \/ Reconcile(p) \/ Quarantine(p) \/ RevalidateZombie(p) \/ Delete(p) \/ JournalDelete(p)
      BY <1>2, <1>3, <1>4, <2>3 DEF Revalidate, Reconcile, Quarantine, RevalidateZombie, Delete, JournalDelete
    <2>4. CASE JournalQuarantine(p) \/ Cleanup(p)
      BY <1>1, <1>4, <2>4 DEF JournalQuarantine, Cleanup
    <2>5. QED
      BY <1>5, <2>1, <2>2, <2>3, <2>4 DEF Lifecycle
  <1>6. QED
    BY <1>5, OtherCallsAside DEF Serve, Aside, MovesOnly

(* A call that ends without dying was in a step of its own kind. *)
LEMMA EndsServed ==
  ASSUME HInv, [Next]_serverVars, NEW p \in Procs, Ends(p)
  PROVE  /\ job[p].cmd = "environment" => Environment(p)
         /\ job[p].cmd = "read" => ReadInstances(p)
  <1>1. pc[p] # "idle" /\ pc'[p] = "idle" /\ job'[p].result # None
    BY DEF Ends, At
  <1>2. ~UNCHANGED pc
    BY <1>1
  <1>3. ~Surroundings
    <2>1. ASSUME Surroundings PROVE UNCHANGED pc
      BY <2>1 DEF Surroundings, Provision, Perish, Use, Unlist, Fluctuate, Govern, Tick, Change, callVars
    <2>2. QED
      BY <1>2, <2>1
  <1>4. PICK q \in Procs : BeginCall(q) \/ Serve(q)
    BY <1>2, <1>3 DEF Next, serverVars, callVars
  <1>5. ~BeginCall(q)
    <2>1. ASSUME NEW cmd, NEW l, NEW j, Begin(q, cmd, l, j) PROVE FALSE
      BY <1>1, <2>1 DEF Begin, At, HInv
    <2>2. QED
      BY <2>1 DEF BeginCall, BeginStore, BeginEnrol, BeginRegister, BeginEnvironment, BeginRead, BeginLifecycle
  <1>6. q = p /\ Serve(p)
    BY <1>1, <1>4, <1>5, ServeMoves DEF MovesOnly, Moves, HInv
  <1>7. ~Dies(p)
    <2>1. ASSUME Dies(p) PROVE FALSE
      <3>1. job' = [job EXCEPT ![p] = [cmd |-> job[p].cmd, result |-> None]]
        BY <2>1 DEF Dies, Return, Goto
      <3>2. job'[p].result = None
        BY <3>1 DEF HInv
      <3>3. QED
        BY <1>1, <3>2
    <2>2. QED
      BY <2>1
  <1>8. Placed(pc[p], job[p])
    BY DEF HInv, Truthful
  <1>9. ASSUME job[p].cmd \in {"environment", "read"} PROVE pc[p] \in EnvironmentPositions \cup ReadPositions
    BY <1>1, <1>8, <1>9 DEF Placed
  <1>10. ASSUME StoreCheck(p) \/ StoreWrite(p) \/ Enrol(p) \/ Register(p)
         PROVE  job[p].cmd \notin {"environment", "read"}
    BY <1>9, <1>10 DEF StoreCheck, StoreWrite, Enrol, Register, Existing, VerifyLive, Converge, Commit, At,
                       EnvironmentPositions, ReadPositions
  <1>11. ASSUME Lifecycle(p)
         PROVE  job[p].cmd \notin {"environment", "read"}
    BY <1>9, <1>11 DEF Lifecycle, ListRecords, Observe, ReadJournal, NextKey, Revalidate, Reconcile, Quarantine,
           JournalQuarantine, RevalidateZombie, Delete, JournalDelete, Cleanup, At, EnvironmentPositions, ReadPositions
  <1>12. ASSUME Environment(p) PROVE job[p].cmd = "environment"
    BY <1>8, <1>12 DEF Placed, Environment, Definition, Grant, AcquirePoint, Mutate, Verified, Restore, VerifyRestore,
                       At, EnvironmentPositions
  <1>13. ASSUME ReadInstances(p) PROVE job[p].cmd = "read"
    BY <1>8, <1>13 DEF Placed, ReadInstances, ReadRows, ReadStatus, At, ReadPositions
  <1>14. QED
    BY <1>6, <1>7, <1>10, <1>11, <1>12, <1>13 DEF Serve

(* The report r of a run with the locals j, over the data d it leaves. *)
Honest(r, j, d) ==
    CASE r.outcome = "refused" -> d[j.target] = j.before
      [] r.outcome = "succeeded" -> d[j.target] = j.operation /\ (j.raw => j.granted)
      [] OTHER -> j.given /\ d[j.target] # j.before =>
                      r.code \in {"recovery_restore_failed", "recovery_verification_failed"}

LEMMA EnvironmentReports ==
  ASSUME HInv, NEW p \in Procs, Environment(p), pc'[p] = "idle", "concurrent" \notin world
  PROVE  Honest(job'[p].result, job[p], data')
  <1> DEFINE j0 == job[p]
  <1>1. /\ pc[p] \in EnvironmentPositions /\ pc[p] # "idle"
        /\ data = [n \in Names |-> data[n]]
    BY DEF HInv, Environment, Definition, Grant, AcquirePoint, Mutate, Verified, Restore, VerifyRestore, At,
           EnvironmentPositions
  <1>2. Faithful(data, pc[p], j0) /\ j0.target \in Names
    BY <1>1 DEF HInv, Truthful, EnvironmentJob
  <1>3. ASSUME NEW l, NEW j, Goto(p, l, j) PROVE l = "idle"
    BY <1>3 DEF Goto, HInv
  <1>4. ASSUME NEW l, Step(p, l) PROVE l = "idle"
    BY <1>3, <1>4 DEF Step
  <1>5. ASSUME NEW r, Return(p, r) PROVE job'[p].result = r
    BY <1>5 DEF Return, Goto, HInv
  <1>6. ASSUME NEW code, Refuse(p, code), UNCHANGED data, j0.before = data[j0.target]
        PROVE  Honest(job'[p].result, j0, data')
    <2>1. job'[p].result = [outcome |-> "refused", code |-> code]
      BY <1>5, <1>6 DEF Refuse
    <2>2. job'[p].result.outcome = "refused"
      BY <2>1
    <2>3. QED
      BY <1>6, <2>2 DEF Honest
  <1>7. ASSUME NEW code, Ended(p, "failed", code),
               j0.given /\ data'[j0.target] # j0.before => code \in {"recovery_restore_failed", "recovery_verification_failed"}
        PROVE  Honest(job'[p].result, j0, data')
    <2>1. job'[p].result = [outcome |-> "failed", code |-> code]
      BY <1>5, <1>7 DEF Ended
    <2>2. job'[p].result.outcome = "failed" /\ job'[p].result.code = code
      BY <2>1
    <2>3. QED
      BY <1>7, <2>2 DEF Honest
  <1> HIDE DEF j0
  <1>8. ASSUME Definition(p) PROVE Honest(job'[p].result, j0, data')
    <2>1. UNCHANGED data /\ j0.before = data[j0.target]
      BY <1>2, <1>8 DEF Definition, planeVars, Faithful, At
    <2>2. PICK code : Refuse(p, code)
      BY <1>4, <1>8 DEF Definition
    <2>3. QED
      BY <1>6, <2>1, <2>2
  <1>9. ASSUME Grant(p) PROVE Honest(job'[p].result, j0, data')
    <2>1. UNCHANGED data /\ j0.before = data[j0.target]
      BY <1>2, <1>9 DEF Grant, planeVars, Faithful, At
    <2>2. PICK code : Refuse(p, code)
      BY <1>3, <1>9 DEF Grant
    <2>3. QED
      BY <1>6, <2>1, <2>2
  <1>10. ASSUME AcquirePoint(p) PROVE Honest(job'[p].result, j0, data')
    <2>1. UNCHANGED data /\ j0.before = data[j0.target]
      BY <1>2, <1>10 DEF AcquirePoint, planeVars, Faithful, At
    <2>2. PICK code : Refuse(p, code)
      BY <1>3, <1>10 DEF AcquirePoint
    <2>3. QED
      BY <1>6, <2>1, <2>2
  <1>11. ASSUME Mutate(p) PROVE FALSE
    BY <1>3, <1>4, <1>11 DEF Mutate
  <1>12. ASSUME Verified(p) PROVE Honest(job'[p].result, j0, data')
    <2>1. UNCHANGED data /\ data[j0.target] = j0.operation /\ (j0.raw => j0.granted)
      BY <1>2, <1>12 DEF Verified, planeVars, Faithful, At
    <2>2. Ended(p, "succeeded", None)
      BY <1>3, <1>12 DEF Verified
    <2>3. job'[p].result = [outcome |-> "succeeded", code |-> None]
      BY <1>5, <2>2 DEF Ended
    <2>4. job'[p].result.outcome = "succeeded"
      BY <2>3
    <2>5. QED
      BY <2>1, <2>4 DEF Honest
  <1>13. ASSUME Restore(p) PROVE Honest(job'[p].result, j0, data')
    <2>1. CASE ~j0.given /\ Ended(p, "failed", j0.failure)
      BY <1>7, <2>1
    <2>2. CASE Ended(p, "failed", "recovery_restore_failed")
      BY <1>7, <2>2
    <2>3. QED
      BY <1>4, <1>13, <2>1, <2>2 DEF Restore, j0
  <1>14. ASSUME VerifyRestore(p) PROVE Honest(job'[p].result, j0, data')
    <2>1. CASE Recovered(p) /\ UNCHANGED data /\ Ended(p, "failed", j0.failure)
      BY <1>7, <2>1 DEF Recovered, j0
    <2>2. CASE Ended(p, "failed", "recovery_verification_failed")
      BY <1>7, <2>2
    <2>3. QED
      BY <1>14, <2>1, <2>2 DEF VerifyRestore, planeVars, j0
  <1>15. QED
    BY <1>8, <1>9, <1>10, <1>11, <1>12, <1>13, <1>14 DEF Environment, j0

(* What a data environment run reports is what happened to the target,     *)
(* where calls do not overlap: a refusal and a plain failure leave it as   *)
(* it was, a success leaves the copy of its own operation, anything else   *)
(* is reported as a failed recovery, and raw data had its grant            *)
(* (service.py 78-142, 228-253).                                           *)
THEOREM EnvironmentReportsTrue == Spec => EnvironmentHonest
  <1>1. HInv /\ [Next]_serverVars =>
          [\A p \in Procs : Ends(p) /\ job[p].cmd = "environment" /\ "concurrent" \notin world
              => LET report == job'[p].result
                     now == data'[job[p].target]
                 IN CASE report.outcome = "refused" -> now = job[p].before
                      [] report.outcome = "succeeded" ->
                            now = job[p].operation /\ (job[p].raw => job[p].granted)
                      [] OTHER ->
                            job[p].given /\ now # job[p].before =>
                                report.code \in {"recovery_restore_failed", "recovery_verification_failed"}]_
             <<pc, job, data>>
    <2>1. SUFFICES ASSUME HInv, [Next]_serverVars, NEW p \in Procs, Ends(p), job[p].cmd = "environment",
                          "concurrent" \notin world
                   PROVE  Honest(job'[p].result, job[p], data')
      BY DEF Honest
    <2>2. Environment(p) /\ pc'[p] = "idle"
      BY <2>1, EndsServed DEF Ends
    <2>3. QED
      BY <2>1, <2>2, EnvironmentReports
  <1>2. QED
    BY <1>1, HInitial, HInductive, PTL DEF Spec, EnvironmentHonest

(* A read that answers "fresh" lists no instance that was out of order for *)
(* the whole request (reconcile.py 33-137, routes/instances.py 63-69).     *)
THEOREM ReadReportsTrue == Spec => ReadsHonest
  <1>1. ASSUME HInv, NEW p \in Procs, ReadInstances(p), pc'[p] = "idle"
        PROVE  job'[p].result.status # 503 =>
                  (job'[p].result.outcome = "fresh" =>
                      \A i \in job'[p].result.rows \cap job'[p].result.steady : health[i] = "up")
    <2> DEFINE j0 == job[p]
               seen == j0.seen
               outcome == Summary({seen[i] : i \in DOMAIN seen})
    <2>1. ASSUME NEW r, Return(p, r) PROVE job'[p].result = r
      BY <1>1, <2>1 DEF Return, Goto, HInv
    <2>2. ASSUME NEW l, NEW j, Goto(p, l, j) PROVE l = "idle"
      BY <1>1, <2>2 DEF Goto, HInv
    <2>3. ReadJob(health, j0)
      BY <1>1 DEF HInv, Truthful, ReadInstances, ReadRows, ReadStatus, At, ReadPositions
    <2>4. CASE Return(p, [status |-> 503])
      <3>1. job'[p].result = [status |-> 503]
        BY <2>1, <2>4
      <3>2. QED
        BY <3>1
    <2>5. CASE Return(p, [status |-> IF outcome = "empty" /\ j0.only # None THEN 404 ELSE 200,
                          outcome |-> outcome, steady |-> j0.steady, rows |-> DOMAIN seen])
      <3>1. job'[p].result = [status |-> IF outcome = "empty" /\ j0.only # None THEN 404 ELSE 200,
                              outcome |-> outcome, steady |-> j0.steady, rows |-> DOMAIN seen]
        BY <2>1, <2>5
      <3> HIDE DEF outcome, j0, seen
      <3>2. job'[p].result.outcome = outcome /\ job'[p].result.rows = DOMAIN seen /\ job'[p].result.steady = j0.steady
        BY <3>1
      <3>3. ASSUME outcome = "fresh" PROVE \A i \in DOMAIN seen : seen[i] = "fresh"
        <4>1. /\ "stale_unverified" \notin {seen[i] : i \in DOMAIN seen}
              /\ "drifted" \notin {seen[i] : i \in DOMAIN seen}
          <5> DEFINE S == {seen[i] : i \in DOMAIN seen}
          <5>1. Summary(S) = "fresh"
            BY <3>3 DEF outcome
          <5> HIDE DEF S
          <5>2. "stale_unverified" \notin S /\ "drifted" \notin S
            BY <5>1 DEF Summary
          <5>3. QED
            BY <5>2 DEF S
        <4>2. QED
          BY <2>3, <4>1 DEF ReadJob, seen
      <3>4. QED
        BY <2>3, <3>2, <3>3 DEF ReadJob, seen
    <2>6. ASSUME ReadRows(p) PROVE Return(p, [status |-> 503])
      BY <2>2, <2>6 DEF ReadRows
    <2>7. ASSUME ReadStatus(p)
          PROVE  Return(p, [status |-> IF outcome = "empty" /\ j0.only # None THEN 404 ELSE 200,
                            outcome |-> outcome, steady |-> j0.steady, rows |-> DOMAIN seen])
      <3>1. ASSUME NEW j, Goto(p, "status", j) PROVE FALSE
        BY <2>2, <3>1
      <3>2. QED
        BY <2>7, <3>1, Zenon DEF ReadStatus
    <2>8. QED
      BY <1>1, <2>4, <2>5, <2>6, <2>7 DEF ReadInstances
  <1>2. HInv /\ [Next]_serverVars =>
          [\A p \in Procs : Ends(p) /\ job[p].cmd = "read" =>
              LET reply == job'[p].result
              IN reply.status # 503 =>
                    (reply.outcome = "fresh" =>
                        \A i \in reply.rows \cap reply.steady : health[i] = "up")]_<<pc, job>>
    BY <1>1, EndsServed DEF Ends
  <1>3. QED
    BY <1>2, HInitial, HInductive, PTL DEF Spec, ReadsHonest

-----------------------------------------------------------------------------
(* What a lifecycle run may remove.                                        *)
RunFields == {"cmd", "delete", "wait", "approved", "records", "observed", "histories", "keys", "key",
              "record", "seen", "history", "tries", "path"}

(* A custody that was given stays given, and one that ended stays ended. *)
Given(c, o, n) == o \in Operations /\ c[o][n].state \in {"active", "retired"}

Expires(o) == ClassOf(o) \in {"dev", "qa"}

(* An observation s of the name n. *)
Saw(n, s) ==
    /\ s.class = ClassOf(s.operation) /\ s.digest \in Nat
    /\ Given(custody, s.operation, n)

(* A history of the journal: its database was due.  Only names are of      *)
(* interest.                                                               *)
Recalls(h) ==
    /\ {"name", "operation", "digest", "class"} \subseteq DOMAIN h
    /\ h.name \in Names =>
          /\ h.class = ClassOf(h.operation) /\ Expires(h.operation)
          /\ h.digest \in Nat /\ clock - h.digest >= 1
          /\ Given(custody, h.operation, h.name)

Past(h) == \E k \in DOMAIN journal.histories : journal.histories[k] = h

(* Why a run with the locals j may go on with its resource. *)
Choice(j) ==
    /\ j.key \in Names /\ j.path \in {"both", "adopt"} => Saw(j.key, j.seen) /\ Eligible(j.seen)
    /\ j.path = "zombie" => Past(j.history) /\ j.history.name = j.key

Announced(j) ==
    /\ j.key \in quarantined
    /\ Past(j.history) /\ j.history.name = j.key

Due(p, n, h) ==
    live[n] # None /\ live[n].operation = h.operation /\ custody[h.operation][n].state = "active" =>
        h.digest = activity[h.operation] \/ p \in late

Careful(p, l, j) ==
    /\ l \in Running => RunFields \subseteq DOMAIN j
    /\ l \in {"events"} \cup Informed => \A n \in Names : \A s \in j.observed[n] : Saw(n, s)
    /\ l \in Informed => \A k \in DOMAIN j.histories : Past(j.histories[k])
    /\ l \in Handling => /\ j.path \in {"both", "adopt", "registry", "zombie"}
                         /\ j.path = "both" => j.record # None
                         /\ Choice(j)
    /\ l = "revalidate" => /\ j.path # "zombie"
                           /\ j.tries = 1 => /\ j.path = "both" /\ Announced(j)
                                             /\ j.history.operation = j.record.row.receipt.operation
                                             /\ j.history.digest = j.seen.digest
    /\ l = "quarantine" => j.path # "registry" /\ (j.path = "both" => LineageMatches(j.record, j.seen))
    /\ l = "journal" => /\ j.path \in {"both", "zombie"} /\ j.key \in quarantined
                        /\ j.path = "both" => LineageMatches(j.record, j.seen)
    /\ l \in {"revalidate_zombie"} \cup Removing => Announced(j)
    /\ l = "delete" /\ j.key \in Names => Due(p, j.key, j.history)
    /\ l \in {"journal_delete", "cleanup"} /\ j.key \in Names =>
          custody[j.history.operation][j.key].state = "retired"

(* The inductive invariant of DeletesAccounted. *)
Sound ==
    /\ clock \in Nat /\ activity \in [Operations -> Nat]
    /\ live \in [Names -> [operation : Operations, dead : BOOLEAN] \cup {None}]
    /\ \A n, m \in Names :
          live[n] # None /\ live[m] # None /\ live[n].operation = live[m].operation => n = m
    /\ journal = [histories |-> journal.histories, torn |-> journal.torn]
    /\ \E S : journal.histories \in Seq(S)
    /\ \A k \in DOMAIN journal.histories : Recalls(journal.histories[k])

AInv ==
    /\ Sound
    /\ pc = [p \in Procs |-> pc[p]] /\ job = [p \in Procs |-> job[p]]
    /\ "concurrent" \notin world /\ journal.torn => \A p \in Procs : pc[p] \notin Informed
    /\ \A p \in Procs : Careful(p, pc[p], job[p])

(* What no step takes back. *)
Forward ==
    /\ \A o \in Operations, n \in Names : Given(custody, o, n) =>
          /\ Given(custody', o, n)
          /\ custody[o][n].state = "retired" => custody'[o][n].state = "retired"
          /\ live'[n] # None /\ live'[n].operation = o => live[n] # None /\ live[n].operation = o
    /\ clock' \in Nat /\ clock <= clock'
    /\ \A k \in DOMAIN journal.histories :
          k \in DOMAIN journal'.histories /\ journal'.histories[k] = journal.histories[k]
    /\ quarantined \subseteq quarantined'

LEMMA PastRecalled ==
  ASSUME AInv, NEW h, Past(h)
  PROVE  Recalls(h)
  BY DEF AInv, Sound, Past

LEMMA PastKept ==
  ASSUME Forward, NEW h, Past(h)
  PROVE  Past(h)'
  BY DEF Forward, Past

LEMMA SawKept ==
  ASSUME Forward, NEW n \in Names, NEW s, Saw(n, s)
  PROVE  Saw(n, s)'
  BY DEF Forward, Saw, Given

LEMMA EligibleKept ==
  ASSUME AInv, Forward, NEW s, s.digest \in Nat, Eligible(s)
  PROVE  Eligible(s)'
  BY DEF Forward, Eligible, AInv, Sound

LEMMA RecallsKept ==
  ASSUME AInv, Forward, NEW h, Recalls(h)
  PROVE  Recalls(h)'
  BY DEF Forward, Recalls, Given, AInv, Sound, Expires

LEMMA ChoiceKept ==
  ASSUME AInv, Forward, NEW j, Choice(j)
  PROVE  Choice(j)'
  BY PastKept, SawKept, EligibleKept DEF Choice, Saw

LEMMA AnnouncedKept ==
  ASSUME Forward, NEW j, Announced(j)
  PROVE  Announced(j)'
  BY PastKept DEF Announced, Forward

LEMMA DueKept ==
  ASSUME AInv, Forward, UNCHANGED activity, NEW q, q \in late => q \in late', NEW j, j.key \in Names,
         Announced(j), Due(q, j.key, j.history)
  PROVE  Due(q, j.key, j.history)'
  <1>1. Given(custody, j.history.operation, j.key)
    BY PastRecalled DEF Announced, Recalls
  <1>2. QED
    BY <1>1 DEF Forward, Due, Given

LEMMA CarefulWhenDue ==
  ASSUME AInv, Forward, NEW q, NEW l, NEW j, Careful(q, l, j),
         l = "delete" /\ j.key \in Names => Due(q, j.key, j.history)'
  PROVE  Careful(q, l, j)'
  <1>1. l \in {"revalidate_zombie"} \cup Removing => Announced(j)
    BY DEF Careful
  <1>2. l = "delete" /\ j.key \in Names => Due(q, j.key, j.history)'
    OBVIOUS
  <1>3. l \in {"journal_delete", "cleanup"} /\ j.key \in Names => custody'[j.history.operation][j.key].state = "retired"
    <2>1. SUFFICES ASSUME l \in {"journal_delete", "cleanup"}, j.key \in Names
                   PROVE  custody'[j.history.operation][j.key].state = "retired"
      OBVIOUS
    <2>2. Given(custody, j.history.operation, j.key)
      BY <1>1, <2>1, PastRecalled DEF Announced, Recalls, Removing
    <2>3. QED
      BY <2>1, <2>2 DEF Careful, Forward, Given
  <1>4. l \in {"events"} \cup Informed => \A n \in Names : \A s \in j.observed[n] : Saw(n, s)'
    BY SawKept DEF Careful
  <1>5. l \in Informed => \A k \in DOMAIN j.histories : Past(j.histories[k])'
    BY PastKept DEF Careful
  <1>6. l \in Handling => Choice(j)'
    BY ChoiceKept DEF Careful
  <1>7. Announced(j) => Announced(j)'
    BY AnnouncedKept
  <1>8. quarantined \subseteq quarantined'
    BY DEF Forward
  <1>9. QED
    BY <1>1, <1>2, <1>3, <1>4, <1>5, <1>6, <1>7, <1>8 DEF Careful

LEMMA CarefulKept ==
  ASSUME AInv, Forward, UNCHANGED activity, NEW q, q \in late => q \in late',
         NEW l, NEW j, Careful(q, l, j)
  PROVE  Careful(q, l, j)'
  <1>1. l = "delete" /\ j.key \in Names => Due(q, j.key, j.history)'
    BY DueKept DEF Careful, Removing
  <1>2. QED
    BY <1>1, CarefulWhenDue

LEMMA SoundKept ==
  ASSUME AInv, Forward, UNCHANGED <<activity, live, journal>>
  PROVE  Sound'
  <1>1. \A k \in DOMAIN journal.histories : Recalls(journal.histories[k])'
    BY RecallsKept DEF AInv, Sound
  <1>2. clock' \in Nat
    BY DEF Forward
  <1>3. QED
    BY <1>1, <1>2 DEF AInv, Sound

(* A step of one process. *)
LEMMA StepCareful ==
  ASSUME AInv, NEW p \in Procs, NEW l, NEW j, Moves(p, l, j), UNCHANGED <<world, activity>>,
         Forward, Sound', \A q \in Procs \ {p} : q \in late => q \in late',
         journal'.torn = journal.torn, l \in Informed => pc[p] \in Informed \/ ~journal.torn,
         Careful(p, l, j)'
  PROVE  AInv'
  <1>1. /\ pc' = [q \in Procs |-> pc'[q]] /\ job' = [q \in Procs |-> job'[q]]
        /\ \A q \in Procs \ {p} : pc'[q] = pc[q] /\ job'[q] = job[q]
        /\ pc'[p] = l /\ job'[p] = j
    BY DEF AInv, Moves
  <1>2. "concurrent" \notin world /\ journal'.torn => \A q \in Procs : pc'[q] \notin Informed
    BY <1>1 DEF AInv
  <1>3. ASSUME NEW q \in Procs \ {p} PROVE Careful(q, pc[q], job[q])'
    <2>1. Careful(q, pc[q], job[q])
      BY DEF AInv
    <2> DEFINE m == pc[q]
               r == job[q]
    <2>2. Careful(q, m, r)
      BY <2>1
    <2>3. pc'[q] = m /\ job'[q] = r
      BY <1>1
    <2> HIDE DEF m, r
    <2>4. QED
      BY <2>2, <2>3, CarefulKept
  <1>4. QED
    BY <1>1, <1>2, <1>3 DEF AInv

CustodyForward ==
    \A o \in Operations, n \in Names : Given(custody, o, n) =>
        /\ Given(custody', o, n)
        /\ custody[o][n].state = "retired" => custody'[o][n].state = "retired"

LEMMA ClaimForward ==
  ASSUME Authority!TypeOK, NEW o \in Operations, NEW n \in Names, NEW c,
         custody' = [custody EXCEPT ![o][n] = c], c.state \in {"active", "retired"},
         custody[o][n].state = "retired" => c.state = "retired"
  PROVE  CustodyForward
  <1>1. custody \in [Operations -> [Names -> Authority!Claims]]
    BY DEF Authority!TypeOK
  <1>2. ASSUME NEW q \in Operations, NEW m \in Names
        PROVE  custody'[q][m] = IF q = o /\ m = n THEN c ELSE custody[q][m]
    BY <1>1
  <1>3. QED
    BY <1>2 DEF CustodyForward, Given

LEMMA SameForward ==
  ASSUME AInv, CustodyForward, UNCHANGED <<live, clock, journal>>, quarantined \subseteq quarantined'
  PROVE  Forward
  BY DEF Forward, CustodyForward, AInv, Sound

LEMMA CustodyStill ==
  ASSUME UNCHANGED custody
  PROVE  CustodyForward
  BY DEF CustodyForward, Given

(* A step of a call of another kind. *)
LEMMA AsideCareful ==
  ASSUME AInv, NEW p \in Procs, Aside(p), CustodyForward, UNCHANGED <<live, lifecycleVars>>
  PROVE  AInv'
  <1>1. PICK l, j : l \notin Running /\ Moves(p, l, j) /\ UNCHANGED world
    BY DEF Aside
  <1>2. Forward /\ UNCHANGED <<activity, journal, late>>
    BY SameForward DEF lifecycleVars
  <1>3. Sound'
    BY <1>2, SoundKept
  <1>4. Careful(p, l, j)'
    BY <1>1 DEF Careful, Running, Informed, Handling, Removing
  <1>5. l \notin Informed
    BY <1>1 DEF Running
  <1>6. QED
    BY <1>1, <1>2, <1>3, <1>4, <1>5, StepCareful

LEMMA RegisterCareful ==
  ASSUME AInv, SInv, NEW p \in Procs, Register(p), UNCHANGED lifecycleVars
  PROVE  AInv'
  <1>1. UNCHANGED live
    BY DEF Register, Existing, VerifyLive, Converge, Commit, planeVars
  <1>2. ASSUME Converge(p) PROVE CustodyForward
    <2> DEFINE r == job[p].request
    <2>1. r \in Requests
      BY <1>2 DEF Converge, At, SInv, JobBacked, Verifying, Committing
    <2>2. r.operation \in Operations /\ r.resource.name \in Names
      BY <2>1, RequestsAssumption DEF Resources
    <2>3. \/ UNCHANGED custody
          \/ /\ custody[r.operation][r.resource.name].state # "retired"
             /\ custody' = [custody EXCEPT ![r.operation][r.resource.name] = [state |-> "active", docker_id |-> r.id]]
      BY <1>2 DEF Converge, Converges, Authority!Becomes, Authority!Claim
    <2> HIDE DEF r
    <2>4. Authority!TypeOK
      BY DEF SInv
    <2> DEFINE o == r.operation
               n == r.resource.name
               c == [state |-> "active", docker_id |-> r.id]
    <2>5. o \in Operations /\ n \in Names /\ c.state = "active"
      BY <2>2
    <2>6. UNCHANGED custody \/ (custody[o][n].state # "retired" /\ custody' = [custody EXCEPT ![o][n] = c])
      BY <2>3
    <2> HIDE DEF o, n, c
    <2>7. QED
      BY <2>4, <2>5, <2>6, ClaimForward, CustodyStill
  <1>3. ASSUME Existing(p) \/ VerifyLive(p) \/ Commit(p) PROVE CustodyForward
    BY <1>3, CustodyStill DEF Existing, VerifyLive, Commit, planeVars
  <1>4. CustodyForward
    BY <1>2, <1>3 DEF Register
  <1>5. QED
    BY <1>1, <1>4, OtherCallsAside, AsideCareful

LEMMA OtherCareful ==
  ASSUME AInv, NEW p \in Procs,
         \/ (StoreCheck(p) \/ StoreWrite(p) \/ Enrol(p)) /\ UNCHANGED planeVars
         \/ Environment(p)
         \/ ReadInstances(p),
         UNCHANGED lifecycleVars
  PROVE  AInv'
  <1>1. UNCHANGED <<custody, live>>
    <2>1. ASSUME Environment(p) PROVE UNCHANGED <<custody, live>>
      BY <2>1 DEF Environment, Definition, Grant, AcquirePoint, Mutate, Verified, Restore, VerifyRestore,
                  planeVars, dockerVars
    <2>2. QED
      BY <2>1 DEF ReadInstances, ReadRows, ReadStatus, planeVars
  <1>2. QED
    BY <1>1, OtherCallsAside, CustodyStill, AsideCareful

(* A process dies; where nothing overlaps, nobody else is in a run. *)
LEMMA DiesCareful ==
  ASSUME AInv, HInv, NEW p \in Procs, Dies(p)
  PROVE  AInv'
  <1>1. /\ UNCHANGED <<custody, live, clock, activity, quarantined, late>>
        /\ journal'.histories = journal.histories
        /\ journal' = [histories |-> journal'.histories, torn |-> journal'.torn]
    BY DEF Dies, planeVars, AInv, Sound
  <1>2. Forward
    BY <1>1 DEF Forward, Given, AInv, Sound
  <1>3. Sound'
    <2>1. ASSUME NEW k \in DOMAIN journal.histories PROVE Recalls(journal.histories[k])'
      <3> DEFINE h == journal.histories[k]
      <3>1. Recalls(h) /\ journal'.histories[k] = h
        BY <1>1 DEF AInv, Sound
      <3> HIDE DEF h
      <3>2. QED
        BY <1>2, <3>1, RecallsKept
    <2>2. QED
      BY <1>1, <2>1 DEF AInv, Sound
  <1>4. pc[p] # "idle" /\ Moves(p, "idle", [cmd |-> job[p].cmd, result |-> None]) /\ UNCHANGED world
    BY DEF Dies, At, Return, Goto, Moves, setting
  <1>5. /\ pc' = [q \in Procs |-> pc'[q]] /\ job' = [q \in Procs |-> job'[q]]
        /\ \A q \in Procs \ {p} : pc'[q] = pc[q] /\ job'[q] = job[q]
        /\ pc'[p] = "idle"
    BY <1>4 DEF AInv, Moves
  <1>6. "idle" \notin Running /\ "idle" \notin Informed
    BY DEF Running, Informed, Handling, Removing
  <1>7. "concurrent" \notin world => \A q \in Procs : pc'[q] = "idle"
    BY <1>4, <1>5, BusyApart DEF Apart
  <1>8. ASSUME NEW q \in Procs PROVE Careful(q, pc[q], job[q])'
    <2>1. CASE q = p
      BY <1>5, <1>6, <2>1 DEF Careful, Running, Informed, Handling, Removing
    <2>2. CASE q # p
      <3> DEFINE m == pc[q]
                 r == job[q]
      <3>1. Careful(q, m, r) /\ pc'[q] = m /\ job'[q] = r
        BY <1>5, <2>2 DEF AInv
      <3> HIDE DEF m, r
      <3>2. QED
        BY <1>1, <1>2, <3>1, CarefulKept
    <2>3. QED
      BY <2>1, <2>2
  <1>9. QED
    BY <1>3, <1>4, <1>5, <1>6, <1>7, <1>8 DEF AInv

(* Steps of a lifecycle run. *)
LEMMA QuietForward ==
  ASSUME AInv, UNCHANGED <<custody, live, lifecycleVars>>
  PROVE  Forward /\ Sound' /\ UNCHANGED <<activity, journal, late>>
  <1>1. Forward /\ UNCHANGED <<activity, journal, late>>
    BY CustodyStill, SameForward DEF lifecycleVars
  <1>2. QED
    BY <1>1, SoundKept

LEMMA QuietStep ==
  ASSUME AInv, NEW p \in Procs, NEW l, NEW j, Goto(p, l, j), UNCHANGED <<custody, live, lifecycleVars>>,
         l \in Informed => pc[p] \in Informed \/ ~journal.torn, Careful(p, l, j)
  PROVE  AInv'
  <1>1. Forward /\ Sound' /\ UNCHANGED <<activity, journal, late>>
    BY QuietForward
  <1>2. Careful(p, l, j)'
    BY <1>1, CarefulKept
  <1>3. Moves(p, l, j) /\ UNCHANGED world
    BY DEF Goto, Moves, setting
  <1>4. QED
    BY <1>1, <1>2, <1>3, StepCareful

LEMMA FinishCareful ==
  ASSUME AInv, NEW p \in Procs, pc[p] \in Informed, Finish(p), UNCHANGED activity,
         Forward, Sound', \A q \in Procs \ {p} : q \in late => q \in late', journal'.torn = journal.torn
  PROVE  AInv'
  <1>1. PICK j0, j : j0 = job[p] /\ j = [j0 EXCEPT !.keys = @ \ {First(j0.keys)}] /\ Goto(p, "key", j)
    BY DEF Finish
  <1>2. /\ RunFields \subseteq DOMAIN j0
        /\ \A n \in Names : \A s \in j0.observed[n] : Saw(n, s)
        /\ \A k \in DOMAIN j0.histories : Past(j0.histories[k])
    BY <1>1 DEF AInv, Careful, Running
  <1>3. RunFields \subseteq DOMAIN j /\ j.observed = j0.observed /\ j.histories = j0.histories
    BY <1>1, <1>2 DEF RunFields
  <1>4. \A n \in Names : \A s \in j.observed[n] : Saw(n, s)'
    BY <1>2, <1>3, SawKept
  <1>5. \A k \in DOMAIN j.histories : Past(j.histories[k])'
    BY <1>2, <1>3, PastKept
  <1>6. Careful(p, "key", j)'
    BY <1>3, <1>4, <1>5 DEF Careful, Handling, Removing
  <1>7. Moves(p, "key", j) /\ UNCHANGED world
    BY <1>1 DEF Goto, Moves, setting
  <1>8. QED
    BY <1>6, <1>7, StepCareful

LEMMA ReturnCareful ==
  ASSUME AInv, NEW p \in Procs, NEW result, Return(p, result), UNCHANGED activity,
         Forward, Sound', \A q \in Procs \ {p} : q \in late => q \in late', journal'.torn = journal.torn
  PROVE  AInv'
  <1>1. PICK j : Moves(p, "idle", j) /\ UNCHANGED world
    BY DEF Return, Goto, Moves, setting
  <1>2. "idle" \notin Informed /\ Careful(p, "idle", j)'
    BY DEF Careful, Running, Informed, Handling, Removing
  <1>3. QED
    BY <1>1, <1>2, StepCareful

LEMMA ObservationTrue ==
  ASSUME AInv, NEW n \in Names, NEW now \in Observations(n), NEW s \in now
  PROVE  Saw(n, s) /\ s.digest = activity[s.operation] /\ s # None
  <1>1. PICK o \in Recorded(n) : \E presence \in Presence : s = Observation(o, presence)
    BY DEF Observations
  <1>2. o \in Operations /\ custody[o][n].state = "active"
    BY DEF Recorded
  <1>3. s.operation = o /\ s.digest = activity[o] /\ s.class = ClassOf(o)
    BY <1>1 DEF Observation
  <1>4. activity[o] \in Nat
    BY <1>2 DEF AInv, Sound
  <1>5. s \in [operation : Operations, digest : Nat, class : Classes, presence : Presence]
    BY <1>1, <1>2, <1>4, ObservationsAssumption DEF Observation
  <1>6. QED
    BY <1>2, <1>3, <1>4, <1>5, ObservationsAssumption DEF Saw, Given

LEMMA NothingObserved ==
  ASSUME NEW n \in Names, {} \in Observations(n), NEW o \in Operations
  PROVE  custody[o][n].state # "active"
  <1>1. SUFFICES ASSUME custody[o][n].state = "active" PROVE FALSE
    OBVIOUS
  <1>2. o \in Recorded(n)
    BY <1>1 DEF Recorded
  <1>3. PICK f : {} = {Observation(q, f[q]) : q \in Recorded(n)}
    BY <1>2 DEF Observations
  <1>4. Observation(o, f[o]) \in {}
    BY <1>2, <1>3
  <1>5. QED
    BY <1>4

LEMMA OnlyIn ==
  ASSUME NEW S, S # {}
  PROVE  Only(S) \in S
  BY DEF Only

LEMMA ReadersCareful ==
  ASSUME AInv, NEW p \in Procs, ListRecords(p) \/ Observe(p) \/ ReadJournal(p)
  PROVE  AInv'
  <1> DEFINE j0 == job[p]
  <1>1. UNCHANGED <<custody, live, lifecycleVars>>
    BY DEF ListRecords, Observe, ReadJournal, planeVars
  <1>2. pc[p] \in {"list", "observe", "events"} /\ Careful(p, pc[p], j0)
    BY DEF ListRecords, Observe, ReadJournal, At, AInv
  <1>3. RunFields \subseteq DOMAIN j0
    BY <1>2 DEF Careful, Running
  <1>4. ASSUME NEW result, Return(p, result) PROVE AInv'
    BY <1>1, <1>4, QuietForward, ReturnCareful
  <1>5. "observe" \notin Informed /\ "events" \notin Informed
    BY DEF Informed, Handling, Removing
  <1>6. ASSUME ListRecords(p) PROVE AInv'
    <2> DEFINE j == [j0 EXCEPT !.records = List]
    <2>1. (\E result : Return(p, result)) \/ Goto(p, "observe", j)
      BY <1>6 DEF ListRecords
    <2> HIDE DEF j0
    <2>2. RunFields \subseteq DOMAIN j
      BY <1>3
    <2> HIDE DEF j
    <2>3. Careful(p, "observe", j)
      BY <2>2, <1>5 DEF Careful, Informed, Handling, Removing
    <2>4. QED
      BY <1>1, <1>4, <1>5, <2>1, <2>3, QuietStep
  <1>7. ASSUME Observe(p) PROVE AInv'
    <2>1. PICK f : (\A n \in Names : f[n] \in Observations(n)) /\ Goto(p, "events", [j0 EXCEPT !.observed = f])
      BY <1>7 DEF Observe
    <2> DEFINE j == [j0 EXCEPT !.observed = f]
    <2>2. Goto(p, "events", j)
      BY <2>1
    <2> HIDE DEF j0
    <2>3. RunFields \subseteq DOMAIN j /\ j.observed = f
      BY <1>3 DEF RunFields
    <2> HIDE DEF j
    <2>4. \A n \in Names : \A s \in j.observed[n] : Saw(n, s)
      BY <2>1, <2>3, ObservationTrue
    <2>5. Careful(p, "events", j)
      BY <2>3, <2>4, <1>5 DEF Careful, Informed, Handling, Removing
    <2>6. QED
      BY <1>1, <1>5, <2>2, <2>5, QuietStep
  <1>8. ASSUME ReadJournal(p) PROVE AInv'
    <2> DEFINE j1 == [j0 EXCEPT !.histories = journal.histories]
               j == [j1 EXCEPT !.keys = Keys(j1)]
    <2>1. (\E result : Return(p, result)) \/ (~journal.torn /\ Goto(p, "key", j))
      BY <1>8 DEF ReadJournal
    <2>2. \A n \in Names : \A s \in j0.observed[n] : Saw(n, s)
      BY <1>2, <1>8 DEF Careful, ReadJournal, At
    <2> HIDE DEF j0
    <2>3. RunFields \subseteq DOMAIN j1 /\ j1.observed = j0.observed /\ j1.histories = journal.histories
      BY <1>3 DEF RunFields
    <2> HIDE DEF j1
    <2>4. RunFields \subseteq DOMAIN j /\ j.observed = j0.observed /\ j.histories = journal.histories
      BY <2>3 DEF RunFields
    <2> HIDE DEF j
    <2>5. Careful(p, "key", j)
      BY <2>2, <2>4 DEF Careful, Handling, Removing, Past
    <2>6. QED
      BY <1>1, <1>4, <2>1, <2>5, QuietStep
  <1>9. QED
    BY <1>6, <1>7, <1>8

LEMMA PathChosen ==
  ASSUME NEW j, NEW record, NEW seen, NEW h, NEW path, path = PathOf(j, record, seen, h), path # "human"
  PROVE  /\ path \in {"both", "adopt", "registry", "zombie"}
         /\ path \in {"both", "adopt"} => seen # None /\ Eligible(seen)
         /\ path = "zombie" => h # None
         /\ path = "both" => record # None
  BY DEF PathOf

LEMMA NextKeyCareful ==
  ASSUME AInv, NEW p \in Procs, NextKey(p)
  PROVE  AInv'
  <1>1. UNCHANGED <<custody, live, lifecycleVars>> /\ pc[p] = "key" /\ pc[p] \in Informed
    BY DEF NextKey, planeVars, At, Informed
  <1>2. /\ RunFields \subseteq DOMAIN job[p]
        /\ \A n \in Names : \A s \in job[p].observed[n] : Saw(n, s)
        /\ \A k \in DOMAIN job[p].histories : Past(job[p].histories[k])
    BY <1>1 DEF AInv, Careful, Running
  <1>3. ASSUME Finish(p) PROVE AInv'
    BY <1>1, <1>3, QuietForward, FinishCareful
  <1>4. CASE job[p].keys = {}
    <2>1. Return(p, "done")
      BY <1>4 DEF NextKey
    <2>2. QED
      BY <1>1, <2>1, QuietForward, ReturnCareful
  <1>5. CASE job[p].keys # {}
    <2> DEFINE j0 == job[p]
               key == First(j0.keys)
               owners == {i \in DOMAIN j0.records : KeyOf(j0.records[i]) = key}
               seen == IF key[1] = "database" THEN j0.observed[key[2]] ELSE {}
               told == {k \in DOMAIN j0.histories : key = <<"database", j0.histories[k].name>>}
               found == IF owners = {} THEN None
                        ELSE [pointer |-> Only(owners), row |-> j0.records[Only(owners)]]
               history == IF told = {} THEN None ELSE j0.histories[Only(told)]
               record == IF history = None THEN found ELSE FromHistory(found, history)
               look == IF seen = {} THEN None ELSE Only(seen)
               path == PathOf(j0, record, look, history)
               j == [j0 EXCEPT !.key = key[2], !.record = record, !.seen = look,
                               !.history = history, !.path = path, !.tries = 0]
    <2>1. \/ Finish(p)
          \/ path # "human" /\ Goto(p, IF path = "zombie" THEN "quarantine" ELSE "revalidate", j)
      BY <1>5, Zenon DEF NextKey
    <2>2. look # None /\ key[2] \in Names => Saw(key[2], look)
      <3>1. SUFFICES ASSUME look # None, key[2] \in Names PROVE Saw(key[2], look)
        OBVIOUS
      <3>2. seen # {} /\ look = Only(seen)
        BY <3>1
      <3>3. look \in seen
        BY <3>2, OnlyIn
      <3>4. look \in j0.observed[key[2]]
        BY <3>2, <3>3
      <3>5. QED
        BY <1>2, <3>1, <3>4
    <2>3. history # None => Past(history) /\ history.name = key[2]
      <3>1. SUFFICES ASSUME history # None PROVE Past(history) /\ history.name = key[2]
        OBVIOUS
      <3>2. told # {} /\ history = j0.histories[Only(told)]
        BY <3>1
      <3>3. Only(told) \in told
        BY <3>2, OnlyIn
      <3>4. Only(told) \in DOMAIN j0.histories /\ key = <<"database", j0.histories[Only(told)].name>>
        BY <3>3
      <3>5. Past(history)
        BY <1>2, <3>2, <3>4
      <3> HIDE DEF key, told, history
      <3>6. key[2] = history.name
        BY <3>2, <3>4
      <3>7. QED
        BY <3>5, <3>6
    <2>4. ASSUME path # "human"
          PROVE  /\ path \in {"both", "adopt", "registry", "zombie"}
                 /\ path \in {"both", "adopt"} => look # None /\ Eligible(look)
                 /\ path = "zombie" => history # None
                 /\ path = "both" => record # None
      <3>1. path = PathOf(j0, record, look, history)
        OBVIOUS
      <3> HIDE DEF j0, key, owners, seen, told, found, history, record, look, path
      <3>2. QED
        BY <2>4, <3>1, PathChosen
    <2> HIDE DEF key, owners, seen, told, found, history, record, look, path
    <2>5. /\ RunFields \subseteq DOMAIN j /\ j.observed = j0.observed /\ j.histories = j0.histories
          /\ j.key = key[2] /\ j.record = record /\ j.seen = look /\ j.history = history /\ j.path = path /\ j.tries = 0
      <3> DEFINE a == key[2]
      <3>1. RunFields \subseteq DOMAIN j0
        BY <1>2
      <3>2. j = [j0 EXCEPT !.key = a, !.record = record, !.seen = look, !.history = history, !.path = path, !.tries = 0]
        OBVIOUS
      <3>3. a = key[2]
        OBVIOUS
      <3> HIDE DEF j, j0, a
      <3>4. /\ RunFields \subseteq DOMAIN j /\ j.observed = j0.observed /\ j.histories = j0.histories
            /\ j.key = a /\ j.record = record /\ j.seen = look /\ j.history = history /\ j.path = path /\ j.tries = 0
        BY <3>1, <3>2 DEF RunFields
      <3>5. QED
        BY <3>3, <3>4
    <2> HIDE DEF j
    <2>6. ASSUME path # "human" PROVE Choice(j)
      BY <2>2, <2>3, <2>4, <2>5, <2>6 DEF Choice
    <2>7. ASSUME path # "human", path # "zombie" PROVE Careful(p, "revalidate", j)
      BY <1>2, <2>4, <2>5, <2>6, <2>7 DEF Careful, Handling, Removing
    <2>8. ASSUME path = "zombie" PROVE Careful(p, "quarantine", j)
      BY <1>2, <2>4, <2>5, <2>6, <2>8 DEF Careful, Handling, Removing
    <2>9. ASSUME path # "human", Goto(p, IF path = "zombie" THEN "quarantine" ELSE "revalidate", j) PROVE AInv'
      BY <1>1, <2>7, <2>8, <2>9, QuietStep
    <2>10. QED
      BY <1>3, <2>1, <2>9
  <1>6. QED
    BY <1>4, <1>5

LEMMA RevalidateCareful ==
  ASSUME AInv, NEW p \in Procs, Revalidate(p)
  PROVE  AInv'
  <1> DEFINE j == job[p]
  <1>1. UNCHANGED <<custody, live, lifecycleVars>> /\ pc[p] = "revalidate" /\ pc[p] \in Informed
    BY DEF Revalidate, planeVars, At, Informed, Handling
  <1>2. Careful(p, "revalidate", j)
    BY <1>1 DEF AInv
  <1>3. ASSUME Finish(p) PROVE AInv'
    BY <1>1, <1>3, QuietForward, FinishCareful
  <1>4. ASSUME NEW result, Return(p, result) PROVE AInv'
    BY <1>1, <1>4, QuietForward, ReturnCareful
  <1>5. ASSUME NEW l, Step(p, l), Careful(p, l, j) PROVE AInv'
    BY <1>1, <1>5, QuietStep DEF Step
  <1>6. Careful(p, "reconcile", j)
    BY <1>2 DEF Careful, Running, Informed, Handling, Removing
  <1>7. ASSUME j.path # "registry", j.path = "both" => LineageMatches(j.record, j.seen)
        PROVE  Careful(p, "quarantine", j)
    BY <1>2, <1>7 DEF Careful, Running, Informed, Handling, Removing
  <1>8. ASSUME j.path # "registry", j.tries = 1, NEW now \in Observations(j.key), Revalidated(j, now)
        PROVE  Careful(p, "delete", j)
    <2>1. /\ j.path = "both" /\ Announced(j)
          /\ j.history.operation = j.record.row.receipt.operation /\ j.history.digest = j.seen.digest
      BY <1>2, <1>8 DEF Careful
    <2>2. ASSUME j.key \in Names PROVE Due(p, j.key, j.history)
      <3>1. PICK o \in now : o.digest = j.seen.digest /\ (j.record # None => LineageMatches(j.record, o))
        BY <1>8 DEF Revalidated
      <3>2. o.digest = activity[o.operation]
        BY <1>8, <2>2, ObservationTrue
      <3>3. j.record # None
        BY <1>2, <2>1 DEF Careful, Handling
      <3>4. o.operation = j.history.operation
        BY <2>1, <3>1, <3>3 DEF LineageMatches
      <3>5. QED
        BY <2>1, <3>1, <3>2, <3>4 DEF Due
    <2>3. QED
      BY <1>2, <2>1, <2>2 DEF Careful, Running, Informed, Handling, Removing
  <1>9. QED
    BY <1>3, <1>4, <1>5, <1>6, <1>7, <1>8 DEF Revalidate

LEMMA ReconcileCareful ==
  ASSUME AInv, NEW p \in Procs, Reconcile(p)
  PROVE  AInv'
  <1>1. UNCHANGED <<custody, live, lifecycleVars>> /\ pc[p] \in Informed
    BY DEF Reconcile, planeVars, At, Informed, Handling
  <1>2. Finish(p) \/ Return(p, "raised")
    BY DEF Reconcile
  <1>3. QED
    BY <1>1, <1>2, QuietForward, FinishCareful, ReturnCareful

LEMMA RevalidateZombieCareful ==
  ASSUME AInv, NEW p \in Procs, RevalidateZombie(p)
  PROVE  AInv'
  <1> DEFINE j == job[p]
  <1>1. UNCHANGED <<custody, live, lifecycleVars>> /\ pc[p] = "revalidate_zombie" /\ pc[p] \in Informed
    BY DEF RevalidateZombie, planeVars, At, Informed, Handling
  <1>2. Careful(p, "revalidate_zombie", j)
    BY <1>1 DEF AInv
  <1>3. ASSUME Finish(p) PROVE AInv'
    BY <1>1, <1>3, QuietForward, FinishCareful
  <1>4. ASSUME NEW result, Return(p, result) PROVE AInv'
    BY <1>1, <1>4, QuietForward, ReturnCareful
  <1>5. ASSUME NEW now \in Observations(j.key), ConfirmedZombie(j.history, IF now = {} THEN None ELSE Only(now)),
               Step(p, "delete")
        PROVE  AInv'
    <2>1. Announced(j)
      BY <1>2 DEF Careful
    <2>2. ASSUME j.key \in Names PROVE Due(p, j.key, j.history)
      <3>1. CASE now = {}
        <4>1. j.history.operation \in Operations
          BY <2>1, <2>2, PastRecalled DEF Announced, Recalls, Given
        <4>2. QED
          BY <1>5, <2>2, <3>1, <4>1, NothingObserved DEF Due
      <3>2. CASE now # {}
        <4>1. Only(now) \in now /\ Only(now) # None
          BY <1>5, <2>2, <3>2, OnlyIn, ObservationTrue
        <4>2. Only(now).digest = j.history.digest /\ Only(now).operation = j.history.operation
          BY <1>5, <3>2, <4>1 DEF ConfirmedZombie
        <4>3. Only(now).digest = activity[Only(now).operation]
          BY <1>5, <2>2, <4>1, ObservationTrue
        <4>4. QED
          BY <4>2, <4>3 DEF Due
      <3>3. QED
        BY <3>1, <3>2
    <2>3. Careful(p, "delete", j)
      BY <1>2, <2>1, <2>2 DEF Careful, Running, Informed, Handling, Removing
    <2>4. QED
      BY <1>1, <1>5, <2>3, QuietStep DEF Step
  <1>6. QED
    BY <1>3, <1>4, <1>5 DEF RevalidateZombie

LEMMA QuarantineCareful ==
  ASSUME AInv, NEW p \in Procs, Quarantine(p)
  PROVE  AInv'
  <1>1. /\ UNCHANGED <<custody, live, clock, activity, journal>> /\ pc[p] = "quarantine" /\ pc[p] \in Informed
        /\ quarantined \subseteq quarantined' /\ \A q \in Procs \ {p} : q \in late => q \in late'
    BY DEF Quarantine, planeVars, At, Informed, Handling
  <1>2. Forward /\ Sound'
    BY <1>1, CustodyStill, SameForward, SoundKept
  <1>3. PICK j : j = job[p] /\ Careful(p, "quarantine", j)
    BY <1>1 DEF AInv
  <1>4. CASE Finish(p)
    BY <1>1, <1>2, <1>4, FinishCareful
  <1>5. CASE Return(p, "raised")
    BY <1>1, <1>2, <1>5, ReturnCareful
  <1>6. CASE j.path # "adopt" /\ j.key \in quarantined' /\ Step(p, "journal")
    <2>1. /\ RunFields \subseteq DOMAIN j
          /\ \A n \in Names : \A s \in j.observed[n] : Saw(n, s)'
          /\ \A k \in DOMAIN j.histories : Past(j.histories[k])'
          /\ Choice(j)'
      BY <1>2, <1>3, SawKept, PastKept, ChoiceKept DEF Careful, Running, Informed, Handling
    <2>2. /\ j.path \in {"both", "zombie"} /\ (j.path = "both" => j.record # None)
          /\ j.path = "both" => LineageMatches(j.record, j.seen)
      BY <1>3, <1>6 DEF Careful, Handling
    <2>3. Careful(p, "journal", j)'
      BY <1>6, <2>1, <2>2 DEF Careful, Running, Informed, Handling, Removing, LineageMatches
    <2>4. Moves(p, "journal", j) /\ UNCHANGED world
      BY <1>3, <1>6 DEF Step, Goto, Moves, setting
    <2>5. QED
      BY <1>1, <1>2, <2>3, <2>4, StepCareful
  <1>7. QED
    BY <1>3, <1>4, <1>5, <1>6 DEF Quarantine

LEMMA AppendGrows ==
  ASSUME NEW S, NEW s \in Seq(S), NEW e
  PROVE  /\ Append(s, e) \in Seq(S \cup {e})
         /\ DOMAIN Append(s, e) = DOMAIN s \cup {Len(s) + 1}
         /\ \A k \in DOMAIN s : Append(s, e)[k] = s[k]
         /\ Append(s, e)[Len(s) + 1] = e
  <1>1. s \in Seq(S \cup {e})
    OBVIOUS
  <1>2. QED
    BY <1>1

LEMMA JournalGrows ==
  ASSUME AInv, NEW h, Recalls(h), Journalled(h),
         UNCHANGED <<custody, live, clock, activity, quarantined>>
  PROVE  Forward /\ Sound' /\ Past(h)' /\ journal'.torn = journal.torn
  <1>1. PICK s, t : journal = [histories |-> s, torn |-> t] /\ \E S : s \in Seq(S)
    BY DEF AInv, Sound
  <1>2. journal' = [histories |-> Append(s, h), torn |-> t]
    BY <1>1 DEF Journalled
  <1>3. PICK S : s \in Seq(S)
    BY <1>1
  <1>4. journal.histories = s /\ journal.torn = t
    BY <1>1
  <1>5. journal'.histories = Append(s, h) /\ journal'.torn = t
    BY <1>2
  <1>6. /\ Append(s, h) \in Seq(S \cup {h})
        /\ DOMAIN Append(s, h) = DOMAIN s \cup {Len(s) + 1}
        /\ \A k \in DOMAIN s : Append(s, h)[k] = s[k]
        /\ Append(s, h)[Len(s) + 1] = h
    BY <1>3, AppendGrows
  <1>7. PICK r : r = Append(s, h)
    OBVIOUS
  <1>8. Forward
    BY <1>4, <1>5, <1>6 DEF Forward, Given, AInv, Sound
  <1>9. \A k \in DOMAIN r : Recalls(r[k])'
    <2>1. Recalls(h)'
      BY <1>8, RecallsKept
    <2>2. ASSUME NEW k \in DOMAIN s PROVE Recalls(s[k])'
      BY <1>4, <1>8, RecallsKept DEF AInv, Sound
    <2>3. QED
      BY <1>6, <1>7, <2>1, <2>2
  <1>10. Past(h)'
    BY <1>5, <1>6 DEF Past
  <1>11. Sound'
    BY <1>2, <1>5, <1>6, <1>7, <1>9 DEF AInv, Sound
  <1>12. QED
    BY <1>4, <1>5, <1>8, <1>10, <1>11

LEMMA JournalQuarantineCareful ==
  ASSUME AInv, NEW p \in Procs, JournalQuarantine(p)
  PROVE  AInv'
  <1>1. UNCHANGED <<custody, live, clock, activity, quarantined, late>> /\ pc[p] = "journal" /\ pc[p] \in Informed
    BY DEF JournalQuarantine, planeVars, At, Informed, Handling
  <1>2. PICK j : j = job[p] /\ Careful(p, "journal", j)
    BY <1>1 DEF AInv
  <1>3. PICK h : h = QuarantineHistory(j)
    OBVIOUS
  <1>4. /\ Journalled(h)
        /\ \/ Finish(p)
           \/ Goto(p, IF j.path = "zombie" THEN "revalidate_zombie" ELSE "revalidate",
                   [j EXCEPT !.history = h, !.tries = 1])
    BY <1>2, <1>3 DEF JournalQuarantine
  <1>5. /\ RunFields \subseteq DOMAIN j /\ j.path \in {"both", "zombie"} /\ j.key \in quarantined
        /\ j.path = "both" => j.record # None /\ LineageMatches(j.record, j.seen)
        /\ Choice(j)
        /\ \A n \in Names : \A s \in j.observed[n] : Saw(n, s)
        /\ \A k \in DOMAIN j.histories : Past(j.histories[k])
    BY <1>2 DEF Careful, Running, Informed, Handling
  <1>6. /\ Recalls(h) /\ h.name = j.key
        /\ j.path = "both" => h.operation = j.record.row.receipt.operation /\ h.digest = j.seen.digest
    <2>1. CASE j.path = "zombie"
      <3>1. Recalls(j.history) /\ j.history.name = j.key
        BY <1>5, <2>1, PastRecalled DEF Choice
      <3>2. h = [j.history EXCEPT !.outcome = "quarantined"]
        BY <1>3, <2>1 DEF QuarantineHistory
      <3>3. /\ DOMAIN h = DOMAIN j.history
            /\ h.name = j.history.name /\ h.operation = j.history.operation
            /\ h.digest = j.history.digest /\ h.class = j.history.class
        BY <3>1, <3>2 DEF Recalls
      <3>4. QED
        BY <2>1, <3>1, <3>3 DEF Recalls
    <2>2. CASE j.path = "both"
      <3>1. h = [pointer |-> j.record.pointer, name |-> j.key, operation |-> j.record.row.receipt.operation,
                 digest |-> j.seen.digest, class |-> j.seen.class, at |-> clock, outcome |-> "quarantined"]
        BY <1>3, <2>2 DEF QuarantineHistory
      <3>2. /\ {"name", "operation", "digest", "class"} \subseteq DOMAIN h
            /\ h.name = j.key /\ h.operation = j.record.row.receipt.operation
            /\ h.digest = j.seen.digest /\ h.class = j.seen.class
        BY <3>1
      <3>3. h.operation = j.seen.operation
        BY <1>5, <2>2, <3>2 DEF LineageMatches
      <3>4. j.key \in Names => Saw(j.key, j.seen) /\ Eligible(j.seen)
        BY <1>5, <2>2 DEF Choice
      <3>5. QED
        BY <3>2, <3>3, <3>4 DEF Recalls, Saw, Eligible, Expires
    <2>3. QED
      BY <1>5, <2>1, <2>2
  <1>7. Forward /\ Sound' /\ Past(h)' /\ journal'.torn = journal.torn
    BY <1>1, <1>4, <1>6, JournalGrows
  <1>8. CASE Finish(p)
    BY <1>1, <1>7, <1>8, FinishCareful
  <1>9. CASE Goto(p, IF j.path = "zombie" THEN "revalidate_zombie" ELSE "revalidate",
                  [j EXCEPT !.history = h, !.tries = 1])
    <2>1. PICK r : r = [j EXCEPT !.history = h, !.tries = 1]
      OBVIOUS
    <2>2. /\ RunFields \subseteq DOMAIN r /\ r.history = h /\ r.tries = 1 /\ r.key = j.key /\ r.path = j.path
          /\ r.record = j.record /\ r.seen = j.seen /\ r.observed = j.observed /\ r.histories = j.histories
      BY <1>5, <2>1 DEF RunFields
    <2>3. Choice(j)'
      BY <1>5, <1>7, ChoiceKept
    <2>4. Choice(r)'
      BY <1>6, <1>7, <2>2, <2>3 DEF Choice
    <2>5. Announced(r)'
      BY <1>1, <1>5, <1>6, <1>7, <2>2 DEF Announced
    <2>6. /\ \A n \in Names : \A s \in r.observed[n] : Saw(n, s)'
          /\ \A k \in DOMAIN r.histories : Past(r.histories[k])'
      BY <1>5, <1>7, <2>2, SawKept, PastKept
    <2>7. CASE r.path = "zombie"
      <3>1. Careful(p, "revalidate_zombie", r)'
        BY <1>5, <2>2, <2>4, <2>5, <2>6, <2>7 DEF Careful, Running, Informed, Handling, Removing
      <3>2. Moves(p, "revalidate_zombie", r) /\ UNCHANGED world
        BY <1>9, <2>1, <2>2, <2>7 DEF Goto, Moves, setting
      <3>3. QED
        BY <1>1, <1>7, <3>1, <3>2, StepCareful
    <2>8. CASE r.path = "both"
      <3>1. Careful(p, "revalidate", r)'
        BY <1>5, <1>6, <2>2, <2>4, <2>5, <2>6, <2>8 DEF Careful, Running, Informed, Handling, Removing
      <3>2. Moves(p, "revalidate", r) /\ UNCHANGED world
        BY <1>9, <2>1, <2>2, <2>8 DEF Goto, Moves, setting
      <3>3. QED
        BY <1>1, <1>7, <3>1, <3>2, StepCareful
    <2>9. QED
      BY <1>5, <2>2, <2>7, <2>8
  <1>10. QED
    BY <1>4, <1>8, <1>9

(* A container is removed, and the custody of it ends. *)
LEMMA SoundLess ==
  ASSUME AInv, Forward, UNCHANGED <<activity, journal>>,
         live' \in [Names -> [operation : Operations, dead : BOOLEAN] \cup {None}],
         \A n \in Names : live'[n] # None => live[n] # None /\ live'[n].operation = live[n].operation
  PROVE  Sound'
  <1>1. \A k \in DOMAIN journal.histories : Recalls(journal.histories[k])'
    BY RecallsKept DEF AInv, Sound
  <1>2. clock' \in Nat
    BY DEF Forward
  <1>3. QED
    BY <1>1, <1>2 DEF AInv, Sound

LEMMA RetireForward ==
  ASSUME Authority!TypeOK, NEW o \in Operations, NEW n \in Names, custody[o][n].state \in {"active", "retired"},
         custody' = IF custody[o][n].state = "active"
                    THEN [custody EXCEPT ![o][n].state = "retired"] ELSE custody
  PROVE  CustodyForward /\ custody'[o][n].state = "retired"
  <1>1. CASE custody[o][n].state = "active"
    <2>1. custody \in [Operations -> [Names -> Authority!Claims]]
      BY DEF Authority!TypeOK
    <2>2. PICK c : c = [custody[o][n] EXCEPT !.state = "retired"]
      OBVIOUS
    <2>3. custody' = [custody EXCEPT ![o][n] = c]
      BY <1>1, <2>2
    <2>4. custody[o][n] \in Authority!Claims
      BY <2>1
    <2>5. c.state = "retired"
      BY <2>2, <2>4 DEF Authority!Claims
    <2>6. custody'[o][n] = c
      BY <2>1, <2>3
    <2>7. QED
      BY <2>3, <2>5, <2>6, ClaimForward
  <1>2. CASE custody[o][n].state = "retired"
    BY <1>2, CustodyStill
  <1>3. QED
    BY <1>1, <1>2

LEMMA RemovalForward ==
  ASSUME AInv, SInv, NEW n, NEW o, RemoveOwned(n, o), n \in Names => Given(custody, o, n),
         UNCHANGED lifecycleVars
  PROVE  /\ Forward /\ Sound' /\ UNCHANGED <<activity, journal, late>>
         /\ n \in Names => custody'[o][n].state = "retired"
  <1>1. Authority!TypeOK /\ custody \in [Operations -> [Names -> Authority!Claims]]
    BY DEF SInv, Authority!TypeOK
  <1>2. UNCHANGED <<clock, activity, journal, quarantined, late>>
    BY DEF lifecycleVars
  <1>3. /\ live' \in [Names -> [operation : Operations, dead : BOOLEAN] \cup {None}]
        /\ \A m \in Names : live'[m] # None => live'[m] = live[m]
    BY DEF RemoveOwned, AInv, Sound
  <1>4. CustodyForward /\ (n \in Names => custody'[o][n].state = "retired")
    <2>1. CASE n \in Names
      BY <1>1, <2>1, RetireForward DEF RemoveOwned, Given
    <2>2. CASE n \notin Names
      <3>1. custody' = custody
        <4>1. CASE custody' = [custody EXCEPT ![o][n].state = "retired"]
          <5>1. CASE o \notin Operations
            BY <1>1, <4>1, <5>1
          <5>2. CASE o \in Operations
            <6>1. custody[o] \in [Names -> Authority!Claims]
              BY <1>1, <5>2
            <6>2. [custody[o] EXCEPT ![n].state = "retired"] = custody[o]
              BY <2>2, <6>1
            <6>3. QED
              BY <1>1, <4>1, <5>2, <6>2
          <5>3. QED
            BY <5>1, <5>2
        <4>2. QED
          BY <4>1 DEF RemoveOwned
      <3>2. QED
        BY <2>2, <3>1, CustodyStill
    <2>3. QED
      BY <2>1, <2>2
  <1>5. Forward
    BY <1>2, <1>3, <1>4 DEF Forward, CustodyForward, AInv, Sound
  <1>6. Sound'
    BY <1>2, <1>3, <1>5, SoundLess
  <1>7. QED
    BY <1>2, <1>4, <1>5, <1>6

(* The history a removal goes by gave custody to its operation. *)
LEMMA RemovalGiven ==
  ASSUME AInv, NEW p \in Procs, pc[p] \in Removing
  PROVE  /\ Announced(job[p]) /\ Recalls(job[p].history)
         /\ job[p].key \in Names => Given(custody, job[p].history.operation, job[p].key)
  <1>1. Announced(job[p])
    BY DEF AInv, Careful
  <1>2. QED
    BY <1>1, PastRecalled DEF Announced, Recalls

LEMMA DeleteCareful ==
  ASSUME AInv, SInv, NEW p \in Procs, Delete(p)
  PROVE  AInv'
  <1>1. pc[p] = "delete" /\ pc[p] \in Informed /\ pc[p] \in Removing /\ UNCHANGED lifecycleVars
    BY DEF Delete, At, Informed, Handling, Removing
  <1>2. PICK j : j = job[p] /\ Careful(p, "delete", j)
    BY <1>1 DEF AInv
  <1>3. j.key \in Names => Given(custody, j.history.operation, j.key)
    BY <1>1, <1>2, RemovalGiven
  <1>4. CASE RemoveOwned(j.key, j.history.operation) /\ Step(p, "journal_delete")
    <2>1. /\ Forward /\ Sound' /\ UNCHANGED <<activity, journal, late>>
          /\ j.key \in Names => custody'[j.history.operation][j.key].state = "retired"
      BY <1>1, <1>3, <1>4, RemovalForward
    <2>2. Careful(p, "delete", j)'
      BY <1>2, <2>1, CarefulKept
    <2>3. Careful(p, "journal_delete", j)'
      BY <2>1, <2>2 DEF Careful, Running, Informed, Handling, Removing
    <2>4. Moves(p, "journal_delete", j) /\ UNCHANGED world
      BY <1>2, <1>4 DEF Step, Goto, Moves, setting
    <2>5. QED
      BY <1>1, <2>1, <2>3, <2>4, StepCareful
  <1>5. CASE Return(p, "raised") /\ UNCHANGED dockerVars
    BY <1>1, <1>5, QuietForward, ReturnCareful DEF dockerVars
  <1>6. QED
    BY <1>2, <1>4, <1>5 DEF Delete

LEMMA JournalDeleteCareful ==
  ASSUME AInv, NEW p \in Procs, JournalDelete(p)
  PROVE  AInv'
  <1>1. /\ UNCHANGED <<custody, live, clock, activity, quarantined, late>>
        /\ pc[p] = "journal_delete" /\ pc[p] \in Informed /\ pc[p] \in Removing
    BY DEF JournalDelete, planeVars, At, Informed, Handling, Removing
  <1>2. PICK j : j = job[p] /\ Careful(p, "journal_delete", j)
    BY <1>1 DEF AInv
  <1>3. PICK g : g = j.history
    OBVIOUS
  <1>4. PICK h : h = [g EXCEPT !.outcome = "deleted"]
    OBVIOUS
  <1>5. Journalled(h) /\ Step(p, "cleanup")
    BY <1>2, <1>3, <1>4 DEF JournalDelete
  <1>6. Recalls(g)
    BY <1>1, <1>2, <1>3, RemovalGiven
  <1>7. /\ DOMAIN h = DOMAIN g
        /\ h.name = g.name /\ h.operation = g.operation /\ h.digest = g.digest /\ h.class = g.class
    BY <1>4, <1>6 DEF Recalls
  <1>8. Recalls(h)
    BY <1>6, <1>7 DEF Recalls
  <1>9. Forward /\ Sound' /\ journal'.torn = journal.torn
    BY <1>1, <1>5, <1>8, JournalGrows
  <1>10. Careful(p, "journal_delete", j)'
    BY <1>1, <1>2, <1>9, CarefulKept
  <1>11. Careful(p, "cleanup", j)'
    BY <1>10 DEF Careful, Running, Informed, Handling, Removing
  <1>12. Moves(p, "cleanup", j) /\ UNCHANGED world
    BY <1>2, <1>5 DEF Step, Goto, Moves, setting
  <1>13. QED
    BY <1>1, <1>9, <1>11, <1>12, StepCareful

LEMMA CleanupCareful ==
  ASSUME AInv, SInv, NEW p \in Procs, Cleanup(p)
  PROVE  AInv'
  <1>1. pc[p] = "cleanup" /\ pc[p] \in Informed /\ pc[p] \in Removing /\ UNCHANGED lifecycleVars
    BY DEF Cleanup, At, Informed, Handling, Removing
  <1>2. PICK j : j = job[p] /\ Careful(p, "cleanup", j)
    BY <1>1 DEF AInv
  <1>3. CASE RemoveOwned(j.key, j.history.operation) /\ Finish(p)
    <2>1. j.key \in Names => Given(custody, j.history.operation, j.key)
      BY <1>1, <1>2, RemovalGiven
    <2>2. Forward /\ Sound' /\ UNCHANGED <<activity, journal, late>>
      BY <1>1, <1>3, <2>1, RemovalForward
    <2>3. QED
      BY <1>1, <1>3, <2>2, FinishCareful
  <1>4. CASE UNCHANGED dockerVars /\ Finish(p)
    BY <1>1, <1>4, QuietForward, FinishCareful DEF dockerVars
  <1>5. CASE UNCHANGED dockerVars /\ Goto(p, "cleanup", [j EXCEPT !.tries = @ + 1])
    <2>1. PICK r : r = [j EXCEPT !.tries = @ + 1]
      OBVIOUS
    <2>2. /\ RunFields \subseteq DOMAIN r /\ r.history = j.history /\ r.key = j.key /\ r.path = j.path
          /\ r.record = j.record /\ r.seen = j.seen /\ r.observed = j.observed /\ r.histories = j.histories
      <3>1. RunFields \subseteq DOMAIN j
        BY <1>2 DEF Careful, Running, Informed, Handling, Removing
      <3>2. QED
        BY <2>1, <3>1 DEF RunFields
    <2>3. Careful(p, "cleanup", r)
      BY <1>2, <2>2 DEF Careful, Running, Informed, Handling, Removing, Choice, Announced
    <2>4. QED
      BY <1>1, <1>5, <2>1, <2>3, QuietStep DEF dockerVars
  <1>6. QED
    BY <1>2, <1>3, <1>4, <1>5 DEF Cleanup

LEMMA LifecycleCareful ==
  ASSUME AInv, SInv, NEW p \in Procs, Lifecycle(p)
  PROVE  AInv'
  BY ReadersCareful, NextKeyCareful, RevalidateCareful, ReconcileCareful, QuarantineCareful, JournalQuarantineCareful,
     RevalidateZombieCareful, DeleteCareful, JournalDeleteCareful, CleanupCareful DEF Lifecycle

-----------------------------------------------------------------------------
(* Calls begin, and the surroundings change.                               *)
LEMMA BeginCareful ==
  ASSUME AInv, NEW p \in Procs, NEW cmd, NEW l, NEW j, Begin(p, cmd, l, j),
         UNCHANGED <<custody, live, lifecycleVars>>, l \notin Informed, Careful(p, l, j)
  PROVE  AInv'
  <1>1. Forward /\ Sound' /\ UNCHANGED <<activity, journal, late>>
    BY QuietForward
  <1>2. Careful(p, l, j)'
    BY <1>1, CarefulKept
  <1>3. Moves(p, l, j) /\ UNCHANGED world
    BY DEF Begin, Moves, setting
  <1>4. QED
    BY <1>1, <1>2, <1>3, StepCareful

LEMMA BeginCallCareful ==
  ASSUME AInv, NEW p \in Procs, BeginCall(p)
  PROVE  AInv'
  <1>1. ASSUME NEW cmd, NEW l, NEW j, Begin(p, cmd, l, j), UNCHANGED <<custody, live, lifecycleVars>>,
               l \notin Running
        PROVE  AInv'
    <2>1. l \notin Informed /\ Careful(p, l, j)
      BY <1>1 DEF Careful, Running, Informed, Handling, Removing
    <2>2. QED
      BY <1>1, <2>1, BeginCareful
  <1>2. \A l \in {"store", "lookup", "existing", "definition", "rows"} : l \notin Running
    BY DEF Running, Informed, Handling, Removing
  <1>3. ASSUME NEW run, BeginLifecycle(p, run) PROVE AInv'
    <2>1. PICK j : /\ j = [cmd |-> "lifecycle", delete |-> run.delete, wait |-> run.wait, approved |-> run.approved,
                           records |-> <<>>, observed |-> <<>>, histories |-> <<>>, keys |-> {},
                           key |-> None, record |-> None, seen |-> None, history |-> None, tries |-> 0,
                           path |-> None]
                   /\ Begin(p, "lifecycle", "list", j) /\ UNCHANGED <<custody, live, lifecycleVars>>
      BY <1>3 DEF BeginLifecycle, planeVars
    <2>2. RunFields \subseteq DOMAIN j
      BY <2>1 DEF RunFields
    <2>3. "list" \notin Informed /\ Careful(p, "list", j)
      BY <2>2 DEF Careful, Informed, Handling, Removing
    <2>4. QED
      BY <2>1, <2>3, BeginCareful
  <1>4. ASSUME NEW i, NEW r, BeginStore(p, i, r), UNCHANGED <<planeVars, lifecycleVars>> PROVE AInv'
    BY <1>1, <1>2, <1>4 DEF BeginStore, planeVars
  <1>5. ASSUME NEW i, NEW n, NEW o, BeginEnrol(p, i, n, o), UNCHANGED <<planeVars, lifecycleVars>> PROVE AInv'
    BY <1>1, <1>2, <1>5 DEF BeginEnrol, planeVars
  <1>6. ASSUME NEW r, BeginRegister(p, r), UNCHANGED lifecycleVars PROVE AInv'
    BY <1>1, <1>2, <1>6 DEF BeginRegister, planeVars
  <1>7. ASSUME NEW i, NEW n, NEW o, NEW given, NEW raw, BeginEnvironment(p, i, n, o, given, raw),
               UNCHANGED lifecycleVars
        PROVE  AInv'
    BY <1>1, <1>2, <1>7 DEF BeginEnvironment, planeVars
  <1>8. ASSUME NEW only, BeginRead(p, only), UNCHANGED lifecycleVars PROVE AInv'
    BY <1>1, <1>2, <1>8 DEF BeginRead, planeVars
  <1>9. QED
    BY <1>3, <1>4, <1>5, <1>6, <1>7, <1>8 DEF BeginCall

(* A change that leaves the calls alone. *)
LEMMA ChangeCareful ==
  ASSUME AInv, Forward, Sound', UNCHANGED <<world, pc, job>>, journal'.torn = journal.torn,
         \A q \in Procs : \A j :
             Careful(q, "delete", j) /\ j.key \in Names => Due(q, j.key, j.history)'
  PROVE  AInv'
  <1>1. ASSUME NEW q \in Procs PROVE Careful(q, pc[q], job[q])'
    <2>1. PICK m, r : m = pc[q] /\ r = job[q] /\ pc'[q] = m /\ job'[q] = r
      OBVIOUS
    <2>2. Careful(q, m, r)
      BY <2>1 DEF AInv
    <2>3. m = "delete" /\ r.key \in Names => Due(q, r.key, r.history)'
      BY <2>2
    <2>4. Careful(q, m, r)'
      BY <2>2, <2>3, CarefulWhenDue
    <2>5. QED
      BY <2>1, <2>4
  <1>2. QED
    BY <1>1 DEF AInv

LEMMA IdleChangeCareful ==
  ASSUME AInv, Forward, Sound', UNCHANGED <<world, pc, job, activity, late>>, journal'.torn = journal.torn
  PROVE  AInv'
  <1>1. ASSUME NEW q \in Procs, NEW j, Careful(q, "delete", j), j.key \in Names
        PROVE  Due(q, j.key, j.history)'
    BY <1>1, DueKept DEF Careful, Removing
  <1>2. QED
    BY <1>1, ChangeCareful

LEMMA ProvisionCareful ==
  ASSUME AInv, SInv, NEW n \in Names, NEW o \in Operations, Provision(n, o), UNCHANGED lifecycleVars
  PROVE  AInv'
  <1>1. PICK c : c = [operation |-> o, dead |-> FALSE]
    OBVIOUS
  <1>2. /\ c \in [operation : Operations, dead : BOOLEAN] /\ c.operation = o
        /\ live' = [live EXCEPT ![n] = c] /\ live[n] = None
        /\ live \in [Names -> [operation : Operations, dead : BOOLEAN] \cup {None}]
    BY <1>1 DEF Provision, AInv, Sound
  <1>3. \A m \in Names : live'[m] = IF m = n THEN c ELSE live[m]
    BY <1>2
  <1>4. \A m \in Names : custody[o][m].state = "none" /\ (live[m] # None => live[m].operation # o)
    BY DEF Provision, Authority!Unclaimed, Authority!Claim
  <1>5. CustodyForward
    <2>1. custody' = custody \/ custody' = [custody EXCEPT ![o][n] = Authority!Claim("active", o)]
      BY DEF Provision
    <2>2. Authority!Claim("active", o).state = "active"
      BY DEF Authority!Claim
    <2>3. Authority!TypeOK
      BY DEF SInv
    <2>4. QED
      BY <1>4, <2>1, <2>2, <2>3, ClaimForward, CustodyStill
  <1>6. UNCHANGED <<clock, activity, journal, quarantined, late, world, pc, job>>
    BY DEF lifecycleVars, Provision, Change, callVars
  <1>7. Forward
    BY <1>2, <1>3, <1>4, <1>5, <1>6 DEF Forward, CustodyForward, AInv, Sound, Given
  <1>8. \A k \in DOMAIN journal.histories : Recalls(journal.histories[k])'
    BY <1>6, <1>7, RecallsKept DEF AInv, Sound
  <1>9. live' \in [Names -> [operation : Operations, dead : BOOLEAN] \cup {None}]
    BY <1>2
  <1>10. \A m, k \in Names :
            live'[m] # None /\ live'[k] # None /\ live'[m].operation = live'[k].operation => m = k
    BY <1>2, <1>3, <1>4 DEF AInv, Sound
  <1>11. Sound'
    BY <1>6, <1>8, <1>9, <1>10 DEF AInv, Sound
  <1>12. QED
    BY <1>6, <1>7, <1>11, IdleChangeCareful

LEMMA PerishCareful ==
  ASSUME AInv, NEW n \in Names, Perish(n), UNCHANGED lifecycleVars
  PROVE  AInv'
  <1>1. UNCHANGED <<custody, clock, activity, journal, quarantined, late, world, pc, job>>
    BY DEF lifecycleVars, Perish, Change, callVars
  <1>2. live \in [Names -> [operation : Operations, dead : BOOLEAN] \cup {None}] /\ live[n] # None
    BY DEF AInv, Sound, Perish
  <1>3. /\ live' \in [Names -> [operation : Operations, dead : BOOLEAN] \cup {None}]
        /\ \A m \in Names : live'[m] # None => live[m] # None /\ live'[m].operation = live[m].operation
    <2>1. CASE live' = [live EXCEPT ![n] = None]
      BY <1>2, <2>1
    <2>2. CASE live' = [live EXCEPT ![n].dead = TRUE]
      <3>1. live[n] \in [operation : Operations, dead : BOOLEAN]
        BY <1>2
      <3>2. PICK c : c = [live[n] EXCEPT !.dead = TRUE]
        OBVIOUS
      <3>3. c \in [operation : Operations, dead : BOOLEAN] /\ c.operation = live[n].operation
        BY <3>1, <3>2
      <3>4. live' = [live EXCEPT ![n] = c]
        BY <2>2, <3>2
      <3>5. QED
        BY <1>2, <3>3, <3>4
    <2>3. QED
      BY <2>1, <2>2 DEF Perish
  <1>4. Forward
    BY <1>1, <1>3 DEF Forward, AInv, Sound, Given
  <1>5. QED
    BY <1>1, <1>3, <1>4, SoundLess, IdleChangeCareful

(* A database is used: a run that was about to remove it is late. *)
LEMMA UseCareful ==
  ASSUME AInv, NEW n \in Names, Use(n)
  PROVE  AInv'
  <1>1. /\ UNCHANGED <<custody, live, clock, journal, quarantined, world, pc, job>>
        /\ live[n] # None /\ activity' = [activity EXCEPT ![live[n].operation] = clock]
        /\ late' = late \cup {p \in Procs : At(p, "delete") /\ job[p].key = n}
    BY DEF Use, Change, callVars, planeVars
  <1>2. Forward
    BY <1>1, CustodyStill, SameForward
  <1>3. Sound'
    <2>1. \A k \in DOMAIN journal.histories : Recalls(journal.histories[k])'
      BY <1>1, <1>2, RecallsKept DEF AInv, Sound
    <2>2. QED
      BY <1>1, <2>1 DEF AInv, Sound
  <1>4. ASSUME NEW q \in Procs PROVE Careful(q, pc[q], job[q])'
    <2>1. PICK m, r : m = pc[q] /\ r = job[q] /\ pc'[q] = m /\ job'[q] = r
      BY <1>1
    <2>2. Careful(q, m, r)
      BY <2>1 DEF AInv
    <2>3. ASSUME m = "delete", r.key \in Names PROVE Due(q, r.key, r.history)'
      <3>1. SUFFICES ASSUME live[r.key] # None, live[r.key].operation = r.history.operation,
                            custody[r.history.operation][r.key].state = "active"
                     PROVE  r.history.digest = activity'[r.history.operation] \/ q \in late'
        BY <1>1 DEF Due
      <3>2. r.history.digest = activity[r.history.operation] \/ q \in late
        BY <2>2, <2>3, <3>1 DEF Careful, Due
      <3>3. CASE r.key = n
        BY <1>1, <2>1, <2>3, <3>3 DEF At
      <3>4. CASE r.key # n
        <4>1. live[n].operation # r.history.operation
          BY <1>1, <2>3, <3>1, <3>4 DEF AInv, Sound
        <4>2. r.history.operation \in Operations /\ activity \in [Operations -> Nat]
          BY <2>3, <3>1 DEF AInv, Sound
        <4>3. activity'[r.history.operation] = activity[r.history.operation]
          BY <1>1, <4>1, <4>2
        <4>4. QED
          BY <1>1, <3>2, <4>3
      <3>5. QED
        BY <3>3, <3>4
    <2>4. Careful(q, m, r)'
      BY <1>2, <2>2, <2>3, CarefulWhenDue
    <2>5. QED
      BY <2>1, <2>4
  <1>5. QED
    BY <1>1, <1>3, <1>4 DEF AInv

LEMMA FluctuateCareful ==
  ASSUME AInv, HInv, NEW i, NEW h, Fluctuate(i, h), UNCHANGED lifecycleVars
  PROVE  AInv'
  <1>1. UNCHANGED <<custody, live, pc, world>>
    BY DEF Fluctuate, dockerVars
  <1>2. Forward /\ Sound' /\ UNCHANGED <<activity, journal, late>>
    BY <1>1, QuietForward
  <1>3. job' = [p \in Procs |-> job'[p]]
    BY DEF Fluctuate
  <1>4. ASSUME NEW q \in Procs PROVE Careful(q, pc[q], job[q])'
    <2>1. PICK m, r : m = pc[q] /\ r = job[q] /\ pc'[q] = m
      BY <1>1
    <2>2. Careful(q, m, r)
      BY <2>1 DEF AInv
    <2>3. CASE m \in Running
      <3>1. m # "idle" /\ m \notin ReadPositions
        BY <2>3 DEF Running, Informed, Handling, Removing, ReadPositions
      <3>2. job[q].cmd # "read"
        BY <2>1, <3>1 DEF HInv, Truthful, Placed
      <3>3. job'[q] = r
        BY <2>1, <3>2 DEF Fluctuate
      <3>4. Careful(q, m, r)'
        BY <1>2, <2>2, CarefulKept
      <3>5. QED
        BY <2>1, <3>3, <3>4
    <2>4. CASE m \notin Running
      BY <2>1, <2>4 DEF Careful, Running, Informed, Handling, Removing
    <2>5. QED
      BY <2>3, <2>4
  <1>5. QED
    BY <1>1, <1>2, <1>3, <1>4 DEF AInv

LEMMA SurroundingsCareful ==
  ASSUME AInv, SInv, HInv, Surroundings
  PROVE  AInv'
  <1>1. ASSUME UNCHANGED <<custody, live, lifecycleVars, world, pc, job>> PROVE AInv'
    BY <1>1, QuietForward, IdleChangeCareful
  <1>2. ASSUME NEW i, Unlist(i), UNCHANGED <<planeVars, lifecycleVars>> PROVE AInv'
    BY <1>1, <1>2 DEF Unlist, Change, callVars, planeVars
  <1>3. ASSUME Govern, UNCHANGED lifecycleVars PROVE AInv'
    BY <1>1, <1>3 DEF Govern, Change, callVars, dockerVars
  <1>4. ASSUME Tick PROVE AInv'
    <2>1. UNCHANGED <<custody, live, activity, journal, quarantined, late, world, pc, job>> /\ clock' = clock + 1
      BY <1>4 DEF Tick, setting, callVars, planeVars
    <2>2. Forward
      BY <2>1 DEF Forward, Given, AInv, Sound
    <2>3. QED
      BY <2>1, <2>2, SoundKept, IdleChangeCareful
  <1>5. QED
    BY <1>2, <1>3, <1>4, ProvisionCareful, PerishCareful, UseCareful, FluctuateCareful DEF Surroundings

-----------------------------------------------------------------------------
LEMMA AInitial == Init => AInv
  <1>1. SUFFICES ASSUME Init PROVE AInv
    OBVIOUS
  <1>2. /\ pc = [p \in Procs |-> "idle"] /\ job = [p \in Procs |-> None]
        /\ clock = 0 /\ activity = [o \in Operations |-> 0]
        /\ journal = [histories |-> <<>>, torn |-> FALSE]
    BY <1>1 DEF Init, CallsInit, LifecycleInit
  <1>3. /\ live \in [Names -> [operation : Operations, dead : BOOLEAN] \cup {None}]
        /\ \A n, m \in Names : live[n] # None /\ live[m] # None => n = m
    <2>1. CASE Settled
      <3> DEFINE n == CHOOSE k \in Names : TRUE
      <3>1. PICK o \in Operations :
                live = [m \in Names |-> IF m = n THEN [operation |-> o, dead |-> FALSE] ELSE None]
        BY <2>1 DEF Settled
      <3> HIDE DEF n
      <3>2. QED
        BY <3>1
    <2>2. CASE Listed \/ Blank
      BY <2>2 DEF Listed, Blank
    <2>3. QED
      BY <1>1, <2>1, <2>2 DEF Init
  <1>4. journal.histories = <<>> /\ journal.torn = FALSE /\ <<>> \in Seq({}) /\ DOMAIN journal.histories = {}
    BY <1>2
  <1>5. Sound
    BY <1>2, <1>3, <1>4 DEF Sound
  <1>6. \A p \in Procs : Careful(p, pc[p], job[p])
    BY <1>2 DEF Careful, Running, Informed, Handling, Removing
  <1>7. QED
    BY <1>2, <1>4, <1>5, <1>6 DEF AInv

LEMMA AInductive == SInv /\ HInv /\ AInv /\ [Next]_serverVars => AInv'
  <1>1. SUFFICES ASSUME SInv, HInv, AInv, [Next]_serverVars PROVE AInv'
    OBVIOUS
  <1>2. ASSUME NEW p \in Procs, Serve(p) PROVE AInv'
    BY <1>1, <1>2, OtherCareful, RegisterCareful, LifecycleCareful, DiesCareful DEF Serve
  <1>3. ASSUME UNCHANGED serverVars PROVE AInv'
    BY <1>1, <1>3, QuietForward, IdleChangeCareful DEF serverVars, setting, callVars, planeVars
  <1>4. QED
    BY <1>1, <1>2, <1>3, BeginCallCareful, SurroundingsCareful DEF Next

(* A process leaves a removal only in it, or because it dies. *)
LEMMA RemovalServed ==
  ASSUME HInv, [Next]_serverVars, NEW p \in Procs, pc[p] \in {"delete", "cleanup"}, pc'[p] # pc[p]
  PROVE  Delete(p) \/ Cleanup(p) \/ Dies(p)
  <1>1. ~UNCHANGED pc
    OBVIOUS
  <1>2. ~Surroundings
    <2>1. ASSUME Surroundings PROVE UNCHANGED pc
      BY <2>1 DEF Surroundings, Provision, Perish, Use, Unlist, Fluctuate, Govern, Tick, Change, callVars
    <2>2. QED
      BY <1>1, <2>1
  <1>3. PICK q \in Procs : BeginCall(q) \/ Serve(q)
    BY <1>1, <1>2 DEF Next, serverVars, callVars
  <1>4. ~BeginCall(q)
    <2>1. ASSUME NEW cmd, NEW l, NEW j, Begin(q, cmd, l, j) PROVE FALSE
      BY <2>1 DEF Begin, At, HInv
    <2>2. QED
      BY <2>1 DEF BeginCall, BeginStore, BeginEnrol, BeginRegister, BeginEnvironment, BeginRead, BeginLifecycle
  <1>5. q = p /\ Serve(p)
    BY <1>3, <1>4, ServeMoves DEF MovesOnly, Moves, HInv
  <1>6. ~StoreCheck(p) /\ ~StoreWrite(p) /\ ~Registration(p) /\ ~Existing(p) /\ ~VerifyLive(p) /\ ~Converge(p)
    BY DEF StoreCheck, StoreWrite, Registration, Lookup, Insert, RegisterInMemory, Existing, VerifyLive, Converge, At
  <1>7. ~Environment(p) /\ ~ReadInstances(p)
    BY DEF Environment, Definition, Grant, AcquirePoint, Mutate, Verified, Restore, VerifyRestore,
           ReadInstances, ReadRows, ReadStatus, At
  <1>8. Lifecycle(p) => Delete(p) \/ Cleanup(p)
    BY DEF Lifecycle, ListRecords, Observe, ReadJournal, NextKey, Revalidate, Reconcile, Quarantine,
           JournalQuarantine, RevalidateZombie, JournalDelete, At
  <1>9. QED
    BY <1>5, <1>6, <1>7, <1>8 DEF Serve, Register, Commit, Enrol

(* A lifecycle run removes a container only after it quarantined it and    *)
(* the journal says so; the container belongs to the operation of that     *)
(* history, is no production database, and is due unless it was used after *)
(* the last look (LifecycleService._recover, provider.delete): for any     *)
(* number of runs, histories and clock ticks.                              *)
THEOREM DeletionsAccounted == Spec => DeletesAccounted
  <1> DEFINE Accounted(p, n) ==
        LET o == live[n].operation IN
        /\ n \in quarantined
        /\ ClassOf(o) # "prod"
        /\ journal.torn => "concurrent" \in world
        /\ \E k \in DOMAIN journal.histories :
              LET h == journal.histories[k]
              IN h.name = n /\ h.operation = o /\ (h.digest = activity[o] \/ p \in late)
        /\ clock - activity[o] >= 1 \/ p \in late
  <1>1. ASSUME SInv, HInv, AInv, [Next]_serverVars, NEW p \in Procs, NEW n \in Names,
               live[n] # None, live'[n] = None, pc[p] \in {"delete", "cleanup"}, pc'[p] # pc[p]
        PROVE  Accounted(p, n)
    <2>1. Delete(p) \/ Cleanup(p) \/ Dies(p)
      BY <1>1, RemovalServed
    <2>2. PICK j, h : j = job[p] /\ h = j.history /\ Careful(p, pc[p], j)
      BY <1>1 DEF AInv
    <2>3. ~Dies(p)
      BY <1>1 DEF Dies, planeVars
    <2>4. ~UNCHANGED live
      BY <1>1
    <2>5. Removable(j.key, h.operation) /\ RemoveOwned(j.key, h.operation) /\ (Delete(p) \/ Cleanup(p))
      BY <2>1, <2>2, <2>3, <2>4 DEF Delete, Cleanup, dockerVars
    <2>6. j.key = n
      BY <1>1, <2>5 DEF RemoveOwned, AInv, Sound
    <2>7. live[n].operation = h.operation /\ custody[h.operation][n].state = "active"
      BY <1>1, <2>5, <2>6 DEF Removable, Authority!Owns, Authority!Claim
    <2>8. pc[p] = "delete"
      BY <1>1, <2>2, <2>6, <2>7 DEF Careful
    <2>9. Announced(j) /\ (h.digest = activity[h.operation] \/ p \in late)
      BY <1>1, <2>2, <2>6, <2>7, <2>8 DEF Careful, Removing, Due
    <2>10. /\ h.name = n /\ Expires(h.operation) /\ h.digest \in Nat /\ clock - h.digest >= 1
      BY <1>1, <2>2, <2>6, <2>9, PastRecalled DEF Announced, Recalls
    <2>11. ClassOf(h.operation) # "prod"
      BY <2>10 DEF Expires
    <2>12. n \in quarantined /\ Past(h)
      BY <2>2, <2>6, <2>9 DEF Announced
    <2>13. journal.torn => "concurrent" \in world
      BY <1>1, <2>8 DEF AInv, Informed, Handling, Removing
    <2>14. QED
      BY <2>7, <2>9, <2>10, <2>11, <2>12, <2>13 DEF Past
  <1>2. SInv /\ HInv /\ AInv /\ [Next]_serverVars =>
          [\A p \in Procs, n \in Names :
              live[n] # None /\ live'[n] = None /\ pc[p] \in {"delete", "cleanup"} /\ pc'[p] # pc[p] =>
                 LET o == live[n].operation IN
                 /\ n \in quarantined
                 /\ ClassOf(o) # "prod"
                 /\ journal.torn => "concurrent" \in world
                 /\ \E k \in DOMAIN journal.histories :
                       LET h == journal.histories[k]
                       IN h.name = n /\ h.operation = o /\ (h.digest = activity[o] \/ p \in late)
                 /\ clock - activity[o] >= 1 \/ p \in late]_<<live, pc, journal>>
    BY <1>1
  <1>3. QED
    BY <1>2, SInitial, SInductive, HInitial, HInductive, AInitial, AInductive, PTL DEF Spec, DeletesAccounted

-----------------------------------------------------------------------------
(* The types.  The locals of a call are arguments of the right kind, and   *)
(* what a run handles is a name: keys are ordered, so one of them comes    *)
(* first.                                                                  *)
KeySet == Kinds \X Names

RecordsTyped(records) ==
    \A i \in DOMAIN records : i \in Pointers /\ KeyOf(records[i]) \in KeySet

JobTyped(l, j) ==
    /\ l \in {"store", "store_write"} => j.resource \in Resources
    /\ l \in Committing \cup Verifying => j.row \in Rows
    /\ l \in EnvironmentPositions => j.operation \in Operations /\ j.before \in Contents
    /\ l \in Running \ {"list"} => RecordsTyped(j.records)
    /\ l \in Informed => j.keys \subseteq KeySet
    /\ l \in {"reconcile"} \cup Handling => j.key \in Names /\ (j.record # None => j.record.pointer \in Pointers)

(* The inductive invariant of TypeOK, on top of the others. *)
TInv == SInv /\ HInv /\ AInv /\ TypeOK /\ \A p \in Procs : JobTyped(pc[p], job[p])

LEMMA SmallestOf ==
  ASSUME NEW T \in SUBSET Nat, T # {}
  PROVE  \E n \in T : \A k \in T : n <= k
  <1> DEFINE R == {ss \in Nat \X Nat : ss[1] < ss[2]}
  <1>1. IsWellFoundedOn(R, Nat)
    BY NatLessThanWellFounded, Zenon DEF OpToRel
  <1>2. PICK x \in T : \A y \in T : ~ (<<y, x>> \in R)
    <2> HIDE DEF R
    <2> QED BY <1>1, WFMin
  <1>3. ASSUME NEW k \in T PROVE x <= k
    <2>1. k \in Nat /\ x \in Nat
      OBVIOUS
    <2>2. <<k, x>> \notin R
      BY <1>2
    <2>3. ~(k < x)
      <3>1. <<k, x>> \in Nat \X Nat /\ <<k, x>>[1] = k /\ <<k, x>>[2] = x
        BY <2>1
      <3> QED BY <3>1, <2>2
    <2> QED BY <2>1, <2>3
  <1> QED BY <1>3

(* One of the keys comes before the others. *)
LEMMA FirstIn ==
  ASSUME NEW keys \in SUBSET KeySet, keys # {}
  PROVE  First(keys) \in keys
  <1>1. \A a \in keys : a[1] \in Kinds /\ a[2] \in Nat /\ Rank(a[1]) \in 1..3
    BY NamesAssumption DEF KeySet, Rank, Kinds
  <1>2. \A k, m \in Kinds : Rank(k) = Rank(m) => k = m
    BY DEF Kinds, Rank
  <1> DEFINE ranks == {Rank(a[1]) : a \in keys}
  <1>3. ranks \in SUBSET Nat /\ ranks # {}
    BY <1>1
  <1>4. PICK r \in ranks : \A k \in ranks : r <= k
    BY <1>3, SmallestOf
  <1> DEFINE names == {a[2] : a \in {b \in keys : Rank(b[1]) = r}}
  <1>5. names \in SUBSET Nat /\ names # {}
    BY <1>1, <1>4
  <1>6. PICK n \in names : \A k \in names : n <= k
    BY <1>5, SmallestOf
  <1>7. PICK a \in keys : Rank(a[1]) = r /\ a[2] = n
    BY <1>6
  <1>8. ASSUME NEW b \in keys PROVE Before(a, b)
    <2>1. r <= Rank(b[1]) /\ Rank(b[1]) \in Nat /\ r \in Nat
      BY <1>1, <1>3, <1>4
    <2>2. CASE Rank(b[1]) = r
      <3>1. b[1] = a[1]
        BY <1>1, <1>2, <1>7, <2>2
      <3>2. a[2] <= b[2]
        BY <1>6, <1>7, <2>2
      <3> QED BY <3>1, <3>2 DEF Before
    <2>3. CASE Rank(b[1]) # r
      BY <1>7, <2>1, <2>3 DEF Before
    <2> QED BY <2>2, <2>3
  <1> QED BY <1>8 DEF First

(* What a step keeps: the types of the state, and the locals of p. *)
StateTyped ==
    /\ RegistryTypeOK' /\ data' \in [Names -> Contents]
    /\ grants' \subseteq Operations /\ defined' \in BOOLEAN
    /\ LifecycleTypeOK'

CountsTyped ==
    /\ UNCHANGED world /\ calls' \in 0..MaxCalls(world) /\ changes' \in 0..MaxChanges(world)

LEMMA ServedTyped ==
  ASSUME TInv, SInv', HInv', AInv', NEW p \in Procs, NEW l, NEW j, Moves(p, l, j), JobTyped(l, j), StateTyped, CountsTyped
  PROVE  TInv'
  <1>1. \A q \in Procs : JobTyped(pc'[q], job'[q])
    BY DEF TInv, SInv, Moves
  <1>2. PlaneTypeOK'
    BY DEF StateTyped, PlaneTypeOK, SInv, HInv, AInv, Sound
  <1>3. CallsTypeOK'
    BY DEF CountsTyped, CallsTypeOK, HInv, Truthful, Placed, TInv, TypeOK
  <1> QED BY <1>1, <1>2, <1>3 DEF TInv, TypeOK, StateTyped

LEMMA AroundTyped ==
  ASSUME TInv, SInv', HInv', AInv', UNCHANGED <<pc, job>>, StateTyped, CountsTyped
  PROVE  TInv'
  <1>1. \A q \in Procs : JobTyped(pc'[q], job'[q])
    BY DEF TInv
  <1>2. PlaneTypeOK'
    BY DEF StateTyped, PlaneTypeOK, SInv, HInv, AInv, Sound
  <1>3. CallsTypeOK'
    BY DEF CountsTyped, CallsTypeOK, HInv, Truthful, Placed, TInv, TypeOK
  <1> QED BY <1>1, <1>2, <1>3 DEF TInv, TypeOK, StateTyped

(* A process goes on with locals of the right kind. *)
GoesOn(p) == CountsTyped /\ \E l, j : Moves(p, l, j) /\ JobTyped(l, j)

LEMMA TypedLocals ==
  ASSUME TInv, NEW p \in Procs
  PROVE  /\ JobTyped(pc[p], job[p]) /\ JobBacked(custody, pc[p], job[p])
         /\ Truthful(data, health, pc[p], job[p]) /\ Careful(p, pc[p], job[p])
         /\ rows \in [Pointers -> Rows \cup {None}] /\ data \in [Names -> Contents]
         /\ LifecycleTypeOK /\ Sound
  BY DEF TInv, SInv, HInv, AInv, TypeOK, RegistryTypeOK, PlaneTypeOK

LEMMA SameState ==
  ASSUME TInv, UNCHANGED <<rows, data, grants, defined, lifecycleVars>>
  PROVE  StateTyped
  BY DEF TInv, TypeOK, RegistryTypeOK, PlaneTypeOK, StateTyped, LifecycleTypeOK, lifecycleVars

LEMMA SameButRows ==
  ASSUME TInv, UNCHANGED <<data, grants, defined, lifecycleVars>>, RegistryTypeOK'
  PROVE  StateTyped
  BY DEF TInv, TypeOK, PlaneTypeOK, StateTyped, LifecycleTypeOK, lifecycleVars

LEMMA GotoGoes ==
  ASSUME TInv, NEW p \in Procs, NEW l, NEW j, Goto(p, l, j), JobTyped(l, j)
  PROVE  GoesOn(p)
  BY DEF TInv, TypeOK, CallsTypeOK, Goto, setting, GoesOn, CountsTyped, Moves

LEMMA IdleTyped == \A j : JobTyped("idle", j)
  BY DEF JobTyped, Committing, Verifying, EnvironmentPositions, Running, Informed, Handling, Removing

LEMMA ReturnGoes ==
  ASSUME TInv, NEW p \in Procs, NEW result, Return(p, result)
  PROVE  GoesOn(p)
  BY GotoGoes, IdleTyped DEF Return

LEMMA StepGoes ==
  ASSUME TInv, NEW p \in Procs, NEW l, Step(p, l), JobTyped(l, job[p])
  PROVE  GoesOn(p)
  BY GotoGoes DEF Step

LEMMA BeginGoes ==
  ASSUME TInv, NEW p \in Procs, NEW cmd, NEW l, NEW j, Begin(p, cmd, l, j), JobTyped(l, j)
  PROVE  GoesOn(p)
  <1>1. world \in Worlds /\ MaxCalls(world) \in Nat /\ calls \in 0..MaxCalls(world) /\ changes \in 0..MaxChanges(world)
    BY WorldsAssumption DEF TInv, TypeOK, CallsTypeOK
  <1>2. CountsTyped
    BY <1>1 DEF Begin, CountsTyped, setting
  <1> QED BY <1>2 DEF Begin, GoesOn, Moves

-----------------------------------------------------------------------------
(* Store and register. *)
LEMMA RowTyped ==
  ASSUME TInv, NEW i, NEW row \in Rows \cup {None}, SetRow(i, row)
  PROVE  RegistryTypeOK'
  BY TypedLocals DEF SetRow, RegistryTypeOK, TInv, TypeOK

(* The positions of other calls are no concern of a registration. *)
LEMMA CommittingTyped ==
  ASSUME NEW l \in Committing \cup Verifying, NEW j, j.row \in Rows
  PROVE  JobTyped(l, j)
  BY DEF JobTyped, Committing, Verifying, EnvironmentPositions, Running, Informed, Handling, Removing

LEMMA StoreTyped ==
  ASSUME TInv, NEW p \in Procs, StoreCheck(p) \/ StoreWrite(p), UNCHANGED <<planeVars, lifecycleVars>>
  PROVE  StateTyped /\ GoesOn(p)
  <1>1. UNCHANGED <<data, grants, defined, lifecycleVars>>
    BY DEF planeVars
  <1>2. job[p].resource \in Resources
    BY TypedLocals DEF StoreCheck, StoreWrite, At, JobTyped
  <1>3. CASE StoreCheck(p)
    <2>1. StateTyped
      BY <1>1, <1>3, SameState DEF StoreCheck
    <2>2. JobTyped("store_write", job[p])
      BY <1>2 DEF JobTyped, Committing, Verifying, EnvironmentPositions, Running, Informed, Handling, Removing
    <2> QED BY <1>3, <2>1, <2>2, ReturnGoes, StepGoes DEF StoreCheck
  <1>4. CASE StoreWrite(p)
    <2> DEFINE i == job[p].pointer
               kept == IF i \in Present THEN rows[i].receipt ELSE None
    <2>1. kept \in Receipts \cup {None}
      BY TypedLocals DEF Present, Rows
    <2>2. [resource |-> job[p].resource, receipt |-> kept] \in Rows
      BY <1>2, <2>1 DEF Rows
    <2>3. UNCHANGED rows \/ SetRow(i, [resource |-> job[p].resource, receipt |-> kept])
      BY <1>4 DEF StoreWrite
    <2> HIDE DEF i, kept
    <2>4. StateTyped
      BY <1>1, <2>2, <2>3, SameState, SameButRows, RowTyped
    <2> QED BY <1>4, <2>4, ReturnGoes DEF StoreWrite
  <1> QED BY <1>3, <1>4

LEMMA RegistrationTyped ==
  ASSUME TInv, NEW p \in Procs, Registration(p), UNCHANGED <<planeVars, lifecycleVars>>
  PROVE  StateTyped /\ GoesOn(p)
  <1>1. UNCHANGED <<data, grants, defined, lifecycleVars>>
    BY DEF planeVars
  <1>2. pc[p] \in Committing
    BY DEF Registration, Lookup, Insert, RegisterInMemory, At, Committing
  <1>3. job[p].row \in Rows /\ "row" \in DOMAIN job[p]
    BY <1>2, TypedLocals DEF JobTyped, JobBacked
  <1>4. UNCHANGED rows \/ \E i : SetRow(i, job[p].row)
    BY DEF Registration, Lookup, Insert, RegisterInMemory
  <1>5. StateTyped
    BY <1>1, <1>3, <1>4, SameState, SameButRows, RowTyped
  <1>6. ASSUME NEW outcome, Done(p, outcome) PROVE GoesOn(p)
    <2>1. ASSUME NEW r, Goto(p, "lookup", [job[p] EXCEPT !.retries = r]) PROVE GoesOn(p)
      <3> DEFINE k == job[p]
                 j == [k EXCEPT !.retries = r]
      <3>1. j.row = k.row
        BY <1>3
      <3>2. "lookup" \in Committing \cup Verifying /\ Goto(p, "lookup", j)
        BY <2>1 DEF Committing
      <3> HIDE DEF j
      <3> QED BY <1>3, <3>1, <3>2, CommittingTyped, GotoGoes
    <2> QED BY <1>6, <2>1, ReturnGoes DEF Done
  <1>7. ASSUME NEW l \in {"insert", "relookup"}, Step(p, l) PROVE GoesOn(p)
    BY <1>3, <1>7, CommittingTyped, StepGoes DEF Committing
  <1>8. GoesOn(p)
    BY <1>6, <1>7 DEF Registration, Lookup, Insert, RegisterInMemory
  <1> QED BY <1>5, <1>8

LEMMA RegisterTyped ==
  ASSUME TInv, NEW p \in Procs, Register(p), UNCHANGED lifecycleVars
  PROVE  StateTyped /\ GoesOn(p)
  <1>1. CASE Commit(p)
    BY <1>1, RegistrationTyped DEF Commit
  <1>2. CASE Existing(p) \/ VerifyLive(p) \/ Converge(p)
    <2>1. StateTyped
      BY <1>2, SameState DEF Existing, VerifyLive, Converge, planeVars, environmentVars
    <2>2. job[p].row \in Rows
      BY <1>2, TypedLocals DEF Existing, VerifyLive, Converge, At, Verifying, JobTyped
    <2>3. ASSUME NEW l \in {"verify_live", "converge", "lookup"}, Step(p, l) PROVE GoesOn(p)
      BY <2>2, <2>3, CommittingTyped, StepGoes DEF Committing, Verifying
    <2>4. GoesOn(p)
      BY <1>2, <2>3, ReturnGoes DEF Existing, VerifyLive, Converge
    <2> QED BY <2>1, <2>4
  <1> QED BY <1>1, <1>2 DEF Register

-----------------------------------------------------------------------------
(* Data environments and reads. *)
LEMMA TargetTyped ==
  ASSUME NEW l \in EnvironmentPositions, NEW j, j.operation \in Operations, j.before \in Contents
  PROVE  JobTyped(l, j)
  BY DEF JobTyped, Committing, Verifying, EnvironmentPositions, Running, Informed, Handling, Removing

LEMMA DataTyped ==
  ASSUME TInv, NEW n, NEW d \in Contents, data' = [data EXCEPT ![n] = d], UNCHANGED <<rows, grants, defined, lifecycleVars>>
  PROVE  StateTyped
  <1>1. data' \in [Names -> Contents]
    BY DEF TInv, TypeOK, PlaneTypeOK
  <1> QED BY <1>1 DEF TInv, TypeOK, RegistryTypeOK, PlaneTypeOK, StateTyped, LifecycleTypeOK, lifecycleVars

LEMMA EnvironmentTyped ==
  ASSUME TInv, NEW p \in Procs, Environment(p), UNCHANGED lifecycleVars
  PROVE  StateTyped /\ GoesOn(p)
  <1> DEFINE k == job[p]
  <1>1. pc[p] \in EnvironmentPositions
    BY DEF Environment, Definition, Grant, AcquirePoint, Mutate, Verified, Restore, VerifyRestore, At, EnvironmentPositions
  <1>2. EnvironmentJob(k) /\ k.operation \in Operations /\ k.before \in Contents /\ k.target \in Names
    BY <1>1, TypedLocals DEF Truthful, JobTyped, EnvironmentJob
  <1>3. {"partial", k.operation, k.before} \subseteq Contents /\ data[k.target] \in Contents
    BY <1>2, TypedLocals DEF Contents
  <1>4. StateTyped
    <2>1. UNCHANGED rows /\ UNCHANGED <<grants, defined>>
      BY DEF Environment, Definition, Grant, AcquirePoint, Mutate, Verified, Restore, VerifyRestore, planeVars
    <2>2. UNCHANGED data \/ \E d \in {"partial", k.operation, k.before} : data' = [data EXCEPT ![k.target] = d]
      <3>1. CASE Mutate(p) \/ Restore(p)
        BY <3>1 DEF Mutate, Restore
      <3>2. CASE Definition(p) \/ Grant(p) \/ AcquirePoint(p) \/ Verified(p) \/ VerifyRestore(p)
        BY <3>2 DEF Definition, Grant, AcquirePoint, Verified, VerifyRestore, planeVars
      <3> QED BY <3>1, <3>2 DEF Environment
    <2> QED BY <1>3, <2>1, <2>2, SameState, DataTyped
  <1>5. ASSUME NEW l \in EnvironmentPositions, NEW j, Goto(p, l, j), j.operation \in Operations, j.before \in Contents
        PROVE  GoesOn(p)
    BY <1>5, TargetTyped, GotoGoes
  <1>6. ASSUME NEW l \in EnvironmentPositions, Step(p, l) PROVE GoesOn(p)
    BY <1>2, <1>5, <1>6 DEF Step
  <1>7. ASSUME NEW a
        PROVE  /\ [k EXCEPT !.granted = a].operation = k.operation /\ [k EXCEPT !.granted = a].before = k.before
               /\ [k EXCEPT !.before = a].operation = k.operation /\ [k EXCEPT !.before = a].before = a
               /\ [k EXCEPT !.failure = a].operation = k.operation /\ [k EXCEPT !.failure = a].before = k.before
    <2> HIDE DEF k
    <2> QED BY <1>2 DEF EnvironmentJob
  <1>8. {"grant", "point", "mutate", "restore", "verify", "verify_restore"} \subseteq EnvironmentPositions
    BY DEF EnvironmentPositions
  <1>9. ASSUME Definition(p) \/ Verified(p) \/ VerifyRestore(p) \/ Restore(p) PROVE GoesOn(p)
    <2>1. ASSUME NEW a, Goto(p, "restore", [k EXCEPT !.failure = a]) PROVE GoesOn(p)
      BY <1>2, <1>5, <1>7, <1>8, <2>1
    <2> QED BY <1>6, <1>8, <1>9, <2>1, ReturnGoes DEF Definition, Verified, VerifyRestore, Restore, Refuse, Ended
  <1>10. ASSUME Grant(p) PROVE GoesOn(p)
    <2>1. ASSUME NEW a, Goto(p, "point", [k EXCEPT !.granted = a]) PROVE GoesOn(p)
      BY <1>2, <1>5, <1>7, <1>8, <2>1
    <2> QED BY <1>10, <2>1, ReturnGoes DEF Grant, Refuse
  <1>11. ASSUME AcquirePoint(p) PROVE GoesOn(p)
    <2>1. ASSUME NEW a \in Contents, Goto(p, "mutate", [k EXCEPT !.before = a]) PROVE GoesOn(p)
      BY <1>2, <1>5, <1>7, <1>8, <2>1
    <2> QED BY <1>3, <1>11, <2>1, ReturnGoes DEF AcquirePoint, Refuse
  <1>12. ASSUME Mutate(p) PROVE GoesOn(p)
    <2>1. ASSUME NEW a, Goto(p, "restore", [k EXCEPT !.failure = a]) PROVE GoesOn(p)
      BY <1>2, <1>5, <1>7, <1>8, <2>1
    <2> QED BY <1>6, <1>8, <1>12, <2>1 DEF Mutate
  <1> QED BY <1>4, <1>9, <1>10, <1>11, <1>12 DEF Environment

LEMMA ReadTyped ==
  ASSUME TInv, NEW p \in Procs, ReadInstances(p), UNCHANGED lifecycleVars
  PROVE  StateTyped /\ GoesOn(p)
  <1>1. StateTyped
    BY SameState DEF ReadInstances, ReadRows, ReadStatus, planeVars
  <1>2. \A j : JobTyped("status", j)
    BY DEF JobTyped, Committing, Verifying, EnvironmentPositions, Running, Informed, Handling, Removing
  <1>3. ASSUME NEW j, Goto(p, "status", j) PROVE GoesOn(p)
    BY <1>2, <1>3, GotoGoes
  <1>4. GoesOn(p)
    BY <1>3, ReturnGoes, Zenon DEF ReadInstances, ReadRows, ReadStatus
  <1> QED BY <1>1, <1>4

(* The calls begin. *)
LEMMA EnrolledTyped ==
  ASSUME NEW i \in Pointers, NEW n \in Names, NEW o \in Operations
  PROVE  Enrolled(i, n, o) \in Rows
  BY DEF Enrolled, Rows, Receipts, Meanings, Resources, Kinds

LEMMA RequestTyped ==
  ASSUME NEW r \in Requests
  PROVE  [resource |-> r.resource, receipt |-> Receipt(r)] \in Rows
  <1>1. r \in [operation : Operations, pointer : Pointers, resource : Resources,
               id : Operations \cup Names, valid : BOOLEAN]
    BY RequestsAssumption
  <1>2. Meaning(r) \in Meanings
    BY <1>1 DEF Meaning, Meanings
  <1>3. Receipt(r) \in Receipts
    BY <1>1, <1>2 DEF Receipt, Receipts
  <1> QED BY <1>1, <1>3 DEF Rows

LEMMA BeginTyped ==
  ASSUME TInv, NEW p \in Procs, BeginCall(p)
  PROVE  StateTyped /\ GoesOn(p)
  <1>1. ASSUME NEW i \in Pointers, NEW r \in Resources, BeginStore(p, i, r), UNCHANGED <<planeVars, lifecycleVars>>
        PROVE  StateTyped /\ GoesOn(p)
    <2>1. PICK j : Begin(p, "store", "store", j) /\ j.resource = r
      BY <1>1 DEF BeginStore
    <2>2. JobTyped("store", j)
      BY <2>1 DEF JobTyped, Committing, Verifying, EnvironmentPositions, Running, Informed, Handling, Removing
    <2> QED BY <1>1, <2>1, <2>2, BeginGoes, SameState DEF BeginStore, planeVars
  <1>2. ASSUME NEW i \in Pointers, NEW n \in Names, NEW o \in Operations, BeginEnrol(p, i, n, o),
               UNCHANGED <<planeVars, lifecycleVars>>
        PROVE  StateTyped /\ GoesOn(p)
    <2>1. PICK j : Begin(p, "enrol", "lookup", j) /\ j.row = Enrolled(i, n, o)
      BY <1>2 DEF BeginEnrol
    <2>2. JobTyped("lookup", j)
      BY <2>1, CommittingTyped, EnrolledTyped DEF Committing
    <2> QED BY <1>2, <2>1, <2>2, BeginGoes, SameState DEF BeginEnrol, planeVars
  <1>3. ASSUME NEW r \in Requests, BeginRegister(p, r), UNCHANGED lifecycleVars PROVE StateTyped /\ GoesOn(p)
    <2>1. PICK j : Begin(p, "register", "existing", j) /\ j.row = [resource |-> r.resource, receipt |-> Receipt(r)]
      BY <1>3 DEF BeginRegister
    <2>2. JobTyped("existing", j)
      BY <2>1, CommittingTyped, RequestTyped DEF Verifying
    <2> QED BY <1>3, <2>1, <2>2, BeginGoes, SameState DEF BeginRegister, planeVars
  <1>4. ASSUME NEW i \in Pointers, NEW n \in Names, NEW o \in Operations, NEW given, NEW raw,
               BeginEnvironment(p, i, n, o, given, raw), UNCHANGED lifecycleVars
        PROVE  StateTyped /\ GoesOn(p)
    <2>1. PICK j : Begin(p, "environment", "definition", j) /\ j.operation = o /\ j.before = data[n]
      BY <1>4 DEF BeginEnvironment
    <2>2. JobTyped("definition", j)
      BY <2>1, TargetTyped, TypedLocals DEF EnvironmentPositions
    <2> QED BY <1>4, <2>1, <2>2, BeginGoes, SameState DEF BeginEnvironment, planeVars
  <1>5. ASSUME NEW only, BeginRead(p, only), UNCHANGED lifecycleVars PROVE StateTyped /\ GoesOn(p)
    <2>1. PICK j : Begin(p, "read", "rows", j)
      BY <1>5 DEF BeginRead
    <2>2. JobTyped("rows", j)
      BY DEF JobTyped, Committing, Verifying, EnvironmentPositions, Running, Informed, Handling, Removing
    <2> QED BY <1>5, <2>1, <2>2, BeginGoes, SameState DEF BeginRead, planeVars
  <1>6. ASSUME NEW run, BeginLifecycle(p, run) PROVE StateTyped /\ GoesOn(p)
    <2>1. PICK j : Begin(p, "lifecycle", "list", j)
      BY <1>6 DEF BeginLifecycle
    <2>2. JobTyped("list", j)
      BY DEF JobTyped, Committing, Verifying, EnvironmentPositions, Running, Informed, Handling, Removing
    <2> QED BY <1>6, <2>1, <2>2, BeginGoes, SameState DEF BeginLifecycle, planeVars
  <1> QED BY <1>1, <1>2, <1>3, <1>4, <1>5, <1>6 DEF BeginCall

-----------------------------------------------------------------------------
(* Lifecycle runs. *)
LEMMA RunTyped ==
  ASSUME NEW l \in Running, NEW j, l # "list" => RecordsTyped(j.records), l \in Informed => j.keys \subseteq KeySet,
         l \in {"reconcile"} \cup Handling => j.key \in Names /\ (j.record # None => j.record.pointer \in Pointers)
  PROVE  JobTyped(l, j)
  BY DEF JobTyped, Committing, Verifying, EnvironmentPositions, Running, Informed, Handling, Removing

(* What is known of the locals of a run, with what it recalls. *)
LEMMA RunLocals ==
  ASSUME TInv, NEW p \in Procs, pc[p] \in Running
  PROVE  /\ RunFields \subseteq DOMAIN job[p]
         /\ pc[p] # "list" => RecordsTyped(job[p].records)
         /\ pc[p] \in Informed => /\ job[p].keys \subseteq KeySet
                                  /\ \A k \in DOMAIN job[p].histories : job[p].histories[k] \in Histories
         /\ pc[p] \in {"reconcile"} \cup Handling =>
               job[p].key \in Names /\ (job[p].record # None => job[p].record.pointer \in Pointers)
  <1>1. JobTyped(pc[p], job[p]) /\ Careful(p, pc[p], job[p]) /\ journal.histories \in Seq(Histories)
    BY TypedLocals DEF LifecycleTypeOK
  <1>2. \A h : Past(h) => h \in Histories
    BY <1>1 DEF Past
  <1>3. pc[p] \in Informed => \A k \in DOMAIN job[p].histories : Past(job[p].histories[k])
    BY <1>1 DEF Careful
  <1> QED BY <1>1, <1>2, <1>3 DEF JobTyped, Careful

LEMMA FinishGoes ==
  ASSUME TInv, NEW p \in Procs, pc[p] \in Informed, Finish(p)
  PROVE  GoesOn(p)
  <1> DEFINE k == job[p]
             keys == k.keys \ {First(k.keys)}
             j == [k EXCEPT !.keys = keys]
  <1>1. pc[p] \in Running /\ pc[p] # "list"
    BY DEF Running, Informed, Handling, Removing
  <1>2. RunFields \subseteq DOMAIN k /\ RecordsTyped(k.records) /\ k.keys \subseteq KeySet
    BY <1>1, RunLocals
  <1>3. keys \subseteq KeySet /\ Goto(p, "key", j)
    BY <1>2 DEF Finish
  <1> HIDE DEF keys
  <1>4. j.keys = keys /\ j.records = k.records
    BY <1>2 DEF RunFields
  <1> HIDE DEF j
  <1>5. "key" \in Running /\ "key" \notin {"reconcile"} \cup Handling
    BY DEF Running, Informed, Handling, Removing
  <1>6. JobTyped("key", j)
    BY <1>2, <1>3, <1>4, <1>5, RunTyped
  <1> QED BY <1>3, <1>6, GotoGoes

(* A run goes on with the resource it has chosen. *)
LEMMA HandlesOn ==
  ASSUME TInv, NEW p \in Procs, pc[p] \in {"reconcile"} \cup Handling, NEW l \in {"reconcile"} \cup Handling, NEW j,
         Goto(p, l, j), j.records = job[p].records, j.keys = job[p].keys, j.key = job[p].key, j.record = job[p].record
  PROVE  GoesOn(p)
  <1>1. pc[p] \in Running /\ pc[p] # "list" /\ pc[p] \in Informed /\ l \in Running
    BY DEF Running, Informed, Handling, Removing
  <1>2. JobTyped(l, j)
    BY <1>1, RunLocals, RunTyped
  <1> QED BY <1>2, GotoGoes

LEMMA HandlesStep ==
  ASSUME TInv, NEW p \in Procs, pc[p] \in {"reconcile"} \cup Handling, NEW l \in {"reconcile"} \cup Handling, Step(p, l)
  PROVE  GoesOn(p)
  BY HandlesOn DEF Step

LEMMA SurveysTyped ==
  ASSUME TInv, NEW p \in Procs, ListRecords(p) \/ Observe(p) \/ ReadJournal(p)
  PROVE  StateTyped /\ GoesOn(p)
  <1> DEFINE k == job[p]
  <1>1. StateTyped
    BY SameState DEF ListRecords, Observe, ReadJournal, planeVars
  <1>2. pc[p] \in Running
    BY DEF ListRecords, Observe, ReadJournal, At, Running
  <1>3. RunFields \subseteq DOMAIN k /\ (pc[p] # "list" => RecordsTyped(k.records))
    BY <1>2, RunLocals
  <1>4. CASE ListRecords(p)
    <2> DEFINE j == [k EXCEPT !.records = List]
    <2>1. RecordsTyped(List)
      <3>1. DOMAIN List = Present
        BY DEF List
      <3>2. ASSUME NEW i \in Present PROVE i \in Pointers /\ List[i].resource \in Resources
        <4>1. i \in Pointers /\ rows[i] \in Rows /\ List[i] = Selected(rows[i])
          BY <3>2, TypedLocals DEF Present, List
        <4>2. Selected(rows[i]).resource = rows[i].resource
          BY <4>1 DEF Selected, Rows
        <4> QED BY <4>1, <4>2 DEF Rows
      <3> QED BY <3>1, <3>2 DEF RecordsTyped, KeyOf, KeySet, Resources
    <2>2. j.records = List
      BY <1>3 DEF RunFields
    <2> HIDE DEF j
    <2>3. JobTyped("observe", j)
      BY <2>1, <2>2, RunTyped DEF Running, Informed, Handling, Removing
    <2>4. Return(p, "raised") \/ Goto(p, "observe", j)
      BY <1>4 DEF ListRecords, j
    <2> QED BY <1>1, <2>3, <2>4, ReturnGoes, GotoGoes
  <1>5. CASE Observe(p)
    <2>1. PICK f : Goto(p, "events", [k EXCEPT !.observed = f])
      BY <1>5 DEF Observe
    <2> DEFINE j == [k EXCEPT !.observed = f]
    <2>2. RecordsTyped(k.records)
      BY <1>3, <1>5 DEF Observe, At
    <2>3. j.records = k.records
      BY <1>3 DEF RunFields
    <2>4. Goto(p, "events", j)
      BY <2>1
    <2> HIDE DEF j
    <2>5. JobTyped("events", j)
      BY <2>2, <2>3, RunTyped DEF Running, Informed, Handling, Removing
    <2> QED BY <1>1, <2>4, <2>5, GotoGoes
  <1>6. CASE ReadJournal(p)
    <2> DEFINE i == [k EXCEPT !.histories = journal.histories]
               j == [i EXCEPT !.keys = Keys(i)]
    <2>1. Return(p, "raised") \/ Goto(p, "key", j)
      BY <1>6 DEF ReadJournal
    <2>2. RecordsTyped(k.records)
      BY <1>3, <1>6 DEF ReadJournal, At
    <2>3. i.records = k.records /\ i.histories = journal.histories /\ RunFields \subseteq DOMAIN i
      BY <1>3 DEF RunFields
    <2> HIDE DEF i
    <2>4. j.records = i.records /\ j.keys = Keys(i)
      BY <2>3 DEF RunFields
    <2>5. Keys(i) \subseteq KeySet
      <3>1. ASSUME NEW n \in DOMAIN i.histories PROVE i.histories[n].name \in Names
        <4>1. journal.histories \in Seq(Histories)
          BY TypedLocals DEF LifecycleTypeOK
        <4>2. i.histories[n] \in Histories
          BY <2>3, <4>1
        <4> QED BY <4>2 DEF Histories
      <3>2. "database" \in Kinds
        BY DEF Kinds
      <3> QED BY <2>2, <2>3, <3>1, <3>2 DEF Keys, RecordsTyped, KeySet
    <2> HIDE DEF j
    <2>6. JobTyped("key", j)
      BY <2>2, <2>3, <2>4, <2>5, RunTyped DEF Running, Informed, Handling, Removing
    <2> QED BY <1>1, <2>1, <2>6, ReturnGoes, GotoGoes
  <1> QED BY <1>4, <1>5, <1>6

LEMMA NextKeyTyped ==
  ASSUME TInv, NEW p \in Procs, NextKey(p)
  PROVE  StateTyped /\ GoesOn(p)
  <1>1. StateTyped /\ pc[p] = "key" /\ pc[p] \in Informed /\ pc[p] \in Running
    BY SameState DEF NextKey, planeVars, At, Informed, Running
  <1>2. /\ RunFields \subseteq DOMAIN job[p] /\ RecordsTyped(job[p].records) /\ job[p].keys \subseteq KeySet
        /\ \A k \in DOMAIN job[p].histories : job[p].histories[k] \in Histories
    BY <1>1, RunLocals
  <1>3. CASE job[p].keys = {}
    <2>1. Return(p, "done")
      BY <1>3 DEF NextKey
    <2> QED BY <1>1, <2>1, ReturnGoes
  <1>4. CASE job[p].keys # {}
    <2> DEFINE j0 == job[p]
               key == First(j0.keys)
               owners == {i \in DOMAIN j0.records : KeyOf(j0.records[i]) = key}
               seen == IF key[1] = "database" THEN j0.observed[key[2]] ELSE {}
               told == {k \in DOMAIN j0.histories : key = <<"database", j0.histories[k].name>>}
               found == IF owners = {} THEN None
                        ELSE [pointer |-> Only(owners), row |-> j0.records[Only(owners)]]
               history == IF told = {} THEN None ELSE j0.histories[Only(told)]
               record == IF history = None THEN found ELSE FromHistory(found, history)
               look == IF seen = {} THEN None ELSE Only(seen)
               path == PathOf(j0, record, look, history)
               j == [j0 EXCEPT !.key = key[2], !.record = record, !.seen = look,
                               !.history = history, !.path = path, !.tries = 0]
    <2>1. Finish(p) \/ Goto(p, IF path = "zombie" THEN "quarantine" ELSE "revalidate", j)
      BY <1>4, Zenon DEF NextKey
    <2>2. key \in KeySet
      BY <1>2, <1>4, FirstIn
    <2>3. found # None => found.pointer \in Pointers
      <3>1. SUFFICES ASSUME owners # {} PROVE Only(owners) \in Pointers
        OBVIOUS
      <3>2. Only(owners) \in owners
        BY <3>1, OnlyIn
      <3> QED BY <1>2, <3>2 DEF RecordsTyped
    <2>4. history # None => history \in Histories
      <3>1. SUFFICES ASSUME told # {} PROVE j0.histories[Only(told)] \in Histories
        OBVIOUS
      <3>2. Only(told) \in told
        BY <3>1, OnlyIn
      <3> QED BY <1>2, <3>2
    <2> HIDE DEF key, owners, seen, told, found, history
    <2>5. record # None => record.pointer \in Pointers
      BY <2>3, <2>4 DEF FromHistory, Histories
    <2> HIDE DEF record, look, path
    <2>6. j.records = j0.records /\ j.keys = j0.keys /\ j.key = key[2] /\ j.record = record
      <3> DEFINE a == key[2]
      <3>1. RunFields \subseteq DOMAIN j0
        BY <1>2
      <3>2. j = [j0 EXCEPT !.key = a, !.record = record, !.seen = look, !.history = history, !.path = path, !.tries = 0]
        OBVIOUS
      <3>3. a = key[2]
        OBVIOUS
      <3> HIDE DEF j, j0, a
      <3>4. j.records = j0.records /\ j.keys = j0.keys /\ j.key = a /\ j.record = record
        BY <3>1, <3>2 DEF RunFields
      <3> QED BY <3>3, <3>4
    <2> HIDE DEF j
    <2>7. j.key \in Names
      BY <2>2, <2>6 DEF KeySet
    <2>8. ASSUME NEW l \in {"quarantine", "revalidate"}, Goto(p, l, j) PROVE GoesOn(p)
      <3>1. l \in Running
        BY DEF Running, Informed, Handling
      <3>2. JobTyped(l, j)
        BY <1>2, <2>5, <2>6, <2>7, <3>1, RunTyped
      <3> QED BY <2>8, <3>2, GotoGoes
    <2> QED BY <1>1, <2>1, <2>8, FinishGoes
  <1> QED BY <1>3, <1>4

LEMMA ChecksTyped ==
  ASSUME TInv, NEW p \in Procs, Revalidate(p) \/ RevalidateZombie(p) \/ Reconcile(p)
  PROVE  StateTyped /\ GoesOn(p)
  <1>1. StateTyped
    BY SameState DEF Revalidate, RevalidateZombie, Reconcile, planeVars
  <1>2. pc[p] \in {"reconcile"} \cup Handling /\ pc[p] \in Informed
    BY DEF Revalidate, RevalidateZombie, Reconcile, At, Informed, Handling
  <1>3. ASSUME NEW l \in {"reconcile", "delete", "quarantine"}, Step(p, l) PROVE GoesOn(p)
    BY <1>2, <1>3, HandlesStep DEF Handling, Removing
  <1>4. Finish(p) \/ Return(p, "raised") \/ \E l \in {"reconcile", "delete", "quarantine"} : Step(p, l)
    <2>1. CASE Revalidate(p)
      BY <2>1 DEF Revalidate
    <2>2. CASE RevalidateZombie(p)
      BY <2>2 DEF RevalidateZombie
    <2>3. CASE Reconcile(p)
      BY <2>3 DEF Reconcile
    <2> QED BY <2>1, <2>2, <2>3
  <1> QED BY <1>1, <1>2, <1>3, <1>4, FinishGoes, ReturnGoes

LEMMA QuarantineTyped ==
  ASSUME TInv, NEW p \in Procs, Quarantine(p)
  PROVE  StateTyped /\ GoesOn(p)
  <1>1. pc[p] \in {"reconcile"} \cup Handling /\ pc[p] \in Informed /\ pc[p] \in Running
    BY DEF Quarantine, At, Running, Informed, Handling
  <1>2. job[p].key \in Names
    BY <1>1, RunLocals
  <1>3. StateTyped
    <2>1. quarantined' \subseteq Names /\ late' \subseteq Procs
      BY <1>2, TypedLocals DEF Quarantine, LifecycleTypeOK
    <2> QED BY <2>1 DEF Quarantine, planeVars, TInv, TypeOK, RegistryTypeOK, PlaneTypeOK, StateTyped, LifecycleTypeOK
  <1>4. "journal" \in {"reconcile"} \cup Handling
    BY DEF Handling
  <1> QED BY <1>1, <1>3, <1>4, HandlesStep, FinishGoes, ReturnGoes DEF Quarantine

LEMMA JournalTyped ==
  ASSUME TInv, NEW h \in Histories, Journalled(h), UNCHANGED <<rows, planeVars, clock, activity, quarantined, late>>
  PROVE  StateTyped
  <1>1. PICK s, t : journal = [histories |-> s, torn |-> t]
    BY DEF TInv, AInv, Sound
  <1>2. s \in Seq(Histories) /\ t \in BOOLEAN
    BY <1>1 DEF TInv, TypeOK, LifecycleTypeOK
  <1>3. journal' = [histories |-> Append(s, h), torn |-> t]
    BY <1>1 DEF Journalled
  <1>4. Append(s, h) \in Seq(Histories)
    BY <1>2
  <1>5. journal'.histories \in Seq(Histories) /\ journal'.torn \in BOOLEAN
    BY <1>2, <1>3, <1>4
  <1> QED BY <1>5 DEF planeVars, TInv, TypeOK, RegistryTypeOK, PlaneTypeOK, StateTyped, LifecycleTypeOK

LEMMA JournalQuarantineTyped ==
  ASSUME TInv, NEW p \in Procs, JournalQuarantine(p)
  PROVE  StateTyped /\ GoesOn(p)
  <1>1. /\ pc[p] = "journal" /\ pc[p] \in {"reconcile"} \cup Handling /\ pc[p] \in Informed /\ pc[p] \in Running
        /\ UNCHANGED <<rows, planeVars, clock, activity, quarantined, late>>
    BY DEF JournalQuarantine, At, Running, Informed, Handling
  <1>2. PICK j : j = job[p]
    OBVIOUS
  <1>3. PICK h : h = QuarantineHistory(j)
    OBVIOUS
  <1>4. /\ Journalled(h)
        /\ \/ Finish(p)
           \/ Goto(p, IF j.path = "zombie" THEN "revalidate_zombie" ELSE "revalidate",
                   [j EXCEPT !.history = h, !.tries = 1])
    BY <1>2, <1>3 DEF JournalQuarantine
  <1>5. Careful(p, "journal", j) /\ journal.histories \in Seq(Histories) /\ clock \in 0..MaxTime
    BY <1>1, <1>2, TypedLocals DEF LifecycleTypeOK
  <1>6. /\ RunFields \subseteq DOMAIN j /\ j.path \in {"both", "zombie"} /\ Choice(j)
        /\ j.path = "both" => j.record # None /\ LineageMatches(j.record, j.seen)
    BY <1>5 DEF Careful, Running, Informed, Handling
  <1>7. j.key \in Names /\ (j.record # None => j.record.pointer \in Pointers)
    BY <1>1, <1>2, RunLocals
  <1>8. h \in Histories
    <2>1. CASE j.path = "zombie"
      <3> DEFINE g == j.history
      <3>1. Past(g)
        BY <1>6, <2>1 DEF Choice
      <3>2. g \in Histories
        BY <1>5, <3>1 DEF Past
      <3>3. h = [g EXCEPT !.outcome = "quarantined"]
        BY <1>3, <2>1 DEF QuarantineHistory
      <3> HIDE DEF g
      <3> QED BY <3>2, <3>3 DEF Histories
    <2>2. CASE j.path = "both"
      <3> DEFINE o == j.record.row.receipt.operation
      <3>1. h = [pointer |-> j.record.pointer, name |-> j.key, operation |-> o,
                 digest |-> j.seen.digest, class |-> j.seen.class, at |-> clock, outcome |-> "quarantined"]
        BY <1>3, <2>2 DEF QuarantineHistory
      <3>2. Saw(j.key, j.seen) /\ Eligible(j.seen)
        BY <1>6, <1>7, <2>2 DEF Choice
      <3>3. o = j.seen.operation /\ o \in Operations
        BY <1>6, <2>2, <3>2 DEF LineageMatches, Saw, Given
      <3>4. j.seen.class \in Classes
        BY <3>2 DEF Eligible, Classes
      <3>5. j.seen.digest \in 0..MaxTime
        BY <1>5, <3>2, MaxTimeAssumption DEF Saw, Eligible
      <3>6. j.record.pointer \in Pointers
        BY <1>6, <1>7, <2>2
      <3> HIDE DEF o
      <3> QED BY <1>5, <1>7, <3>1, <3>3, <3>4, <3>5, <3>6 DEF Histories
    <2> QED BY <1>6, <2>1, <2>2
  <1>9. StateTyped
    BY <1>1, <1>4, <1>8, JournalTyped
  <1>10. CASE Finish(p)
    BY <1>1, <1>9, <1>10, FinishGoes
  <1>11. ASSUME NEW l \in {"revalidate_zombie", "revalidate"}, Goto(p, l, [j EXCEPT !.history = h, !.tries = 1])
         PROVE  GoesOn(p)
    <2>1. PICK r : r = [j EXCEPT !.history = h, !.tries = 1]
      OBVIOUS
    <2>2. r.records = j.records /\ r.keys = j.keys /\ r.key = j.key /\ r.record = j.record
      BY <1>6, <2>1 DEF RunFields
    <2>3. Goto(p, l, r) /\ l \in {"reconcile"} \cup Handling
      BY <1>11, <2>1 DEF Handling
    <2> QED BY <1>1, <1>2, <2>2, <2>3, HandlesOn
  <1> QED BY <1>4, <1>9, <1>10, <1>11

LEMMA RemovalTyped ==
  ASSUME TInv, NEW p \in Procs, Delete(p) \/ Cleanup(p)
  PROVE  StateTyped /\ GoesOn(p)
  <1>1. StateTyped
    BY SameState DEF Delete, Cleanup, environmentVars
  <1>2. /\ pc[p] \in {"reconcile"} \cup Handling /\ pc[p] \in Informed /\ pc[p] \in Running
        /\ {"cleanup", "journal_delete"} \subseteq {"reconcile"} \cup Handling
    BY DEF Delete, Cleanup, At, Running, Informed, Handling, Removing
  <1>3. ASSUME Goto(p, "cleanup", [job[p] EXCEPT !.tries = @ + 1]) PROVE GoesOn(p)
    <2>1. PICK j : j = job[p]
      OBVIOUS
    <2>2. PICK r : r = [j EXCEPT !.tries = @ + 1]
      OBVIOUS
    <2>3. RunFields \subseteq DOMAIN j
      BY <1>2, <2>1, RunLocals
    <2>4. r.records = j.records /\ r.keys = j.keys /\ r.key = j.key /\ r.record = j.record
      BY <2>2, <2>3 DEF RunFields
    <2>5. Goto(p, "cleanup", r)
      BY <1>3, <2>1, <2>2
    <2> QED BY <1>2, <2>1, <2>4, <2>5, HandlesOn
  <1>4. CASE Delete(p)
    BY <1>1, <1>2, <1>4, HandlesStep, ReturnGoes DEF Delete
  <1>5. CASE Cleanup(p)
    BY <1>1, <1>2, <1>3, <1>5, FinishGoes DEF Cleanup
  <1> QED BY <1>4, <1>5

LEMMA JournalDeleteTyped ==
  ASSUME TInv, NEW p \in Procs, JournalDelete(p)
  PROVE  StateTyped /\ GoesOn(p)
  <1>1. /\ pc[p] = "journal_delete" /\ pc[p] \in {"reconcile"} \cup Handling
        /\ "cleanup" \in {"reconcile"} \cup Handling
        /\ UNCHANGED <<rows, planeVars, clock, activity, quarantined, late>>
    BY DEF JournalDelete, At, Handling, Removing
  <1>2. PICK g : g = job[p].history
    OBVIOUS
  <1>3. Past(g) /\ journal.histories \in Seq(Histories)
    BY <1>1, <1>2, TypedLocals DEF Careful, Removing, Announced, LifecycleTypeOK
  <1>4. g \in Histories
    BY <1>3 DEF Past
  <1>5. [g EXCEPT !.outcome = "deleted"] \in Histories
    BY <1>4 DEF Histories
  <1>6. Journalled([g EXCEPT !.outcome = "deleted"]) /\ Step(p, "cleanup")
    BY <1>2 DEF JournalDelete
  <1> QED BY <1>1, <1>5, <1>6, JournalTyped, HandlesStep

LEMMA DiesTyped ==
  ASSUME TInv, NEW p \in Procs, Dies(p)
  PROVE  StateTyped /\ GoesOn(p)
  <1>1. journal'.histories = journal.histories /\ journal'.torn \in BOOLEAN
    <2>1. PICK s, t : journal = [histories |-> s, torn |-> t] /\ t \in BOOLEAN
      BY DEF TInv, AInv, Sound, TypeOK, LifecycleTypeOK
    <2>2. journal' = journal \/ journal' = [journal EXCEPT !.torn = TRUE]
      BY DEF Dies
    <2>3. journal' \in {[histories |-> s, torn |-> t], [histories |-> s, torn |-> TRUE]}
      BY <2>1, <2>2
    <2>4. ASSUME NEW b \in BOOLEAN, journal' = [histories |-> s, torn |-> b]
          PROVE  journal'.histories = s /\ journal'.torn \in BOOLEAN
      <3>1. journal'.histories = s /\ journal'.torn = b
        BY <2>4
      <3> QED BY <3>1, Zenon
    <2>5. journal.histories = s
      BY <2>1
    <2> QED BY <2>1, <2>3, <2>4, <2>5
  <1>2. StateTyped
    BY <1>1 DEF Dies, planeVars, TInv, TypeOK, RegistryTypeOK, PlaneTypeOK, StateTyped, LifecycleTypeOK
  <1> QED BY <1>2, ReturnGoes DEF Dies

-----------------------------------------------------------------------------
(* A call goes on or begins, or the surroundings change. *)
LEMMA ServeTyped ==
  ASSUME TInv, NEW p \in Procs, Serve(p) \/ BeginCall(p)
  PROVE  StateTyped /\ GoesOn(p)
  <1>1. CASE Lifecycle(p)
    BY <1>1, SurveysTyped, NextKeyTyped, ChecksTyped, QuarantineTyped, JournalQuarantineTyped, RemovalTyped,
       JournalDeleteTyped DEF Lifecycle
  <1>2. ASSUME Enrol(p), UNCHANGED <<planeVars, lifecycleVars>> PROVE StateTyped /\ GoesOn(p)
    BY <1>2, RegistrationTyped DEF Enrol
  <1> QED BY <1>1, <1>2, StoreTyped, RegisterTyped, EnvironmentTyped, ReadTyped, DiesTyped, BeginTyped DEF Serve

LEMMA ChangeCounts ==
  ASSUME TInv, UNCHANGED <<world, calls>>, changes < MaxChanges(world), changes' = changes + 1
  PROVE  CountsTyped
  BY WorldsAssumption DEF TInv, TypeOK, CallsTypeOK, CountsTyped

LEMMA UseTyped ==
  ASSUME TInv, NEW n, Use(n)
  PROVE  StateTyped
  <1>1. activity' \in [Operations -> 0..MaxTime] /\ late' \subseteq Procs
    BY DEF Use, TInv, TypeOK, LifecycleTypeOK
  <1> QED BY <1>1 DEF Use, planeVars, TInv, TypeOK, RegistryTypeOK, PlaneTypeOK, StateTyped, LifecycleTypeOK

LEMMA FluctuateTyped ==
  ASSUME TInv, SInv', HInv', AInv', NEW i, NEW h, Fluctuate(i, h), UNCHANGED lifecycleVars
  PROVE  TInv'
  <1>1. StateTyped /\ CountsTyped
    BY SameState, ChangeCounts DEF Fluctuate, environmentVars
  <1>2. ASSUME NEW q \in Procs PROVE JobTyped(pc'[q], job'[q])
    <2>1. pc'[q] = pc[q] /\ JobTyped(pc[q], job[q]) /\ Placed(pc[q], job[q])
      BY TypedLocals DEF Fluctuate, Truthful
    <2>2. CASE pc[q] \in ReadPositions
      BY <2>1, <2>2 DEF JobTyped, ReadPositions, Committing, Verifying, EnvironmentPositions, Running, Informed,
                        Handling, Removing
    <2>3. CASE pc[q] \notin ReadPositions
      <3>1. job'[q] = job[q]
        BY <2>1, <2>3 DEF Fluctuate, At, Placed
      <3> QED BY <2>1, <3>1
    <2> QED BY <2>2, <2>3
  <1>3. PlaneTypeOK'
    BY <1>1 DEF StateTyped, PlaneTypeOK, SInv, HInv, AInv, Sound
  <1>4. CallsTypeOK'
    BY <1>1 DEF CountsTyped, CallsTypeOK, HInv, Truthful, Placed, TInv, TypeOK
  <1> QED BY <1>1, <1>2, <1>3, <1>4 DEF TInv, TypeOK, StateTyped

LEMMA SurroundingsTyped ==
  ASSUME TInv, SInv', HInv', AInv', Surroundings
  PROVE  TInv'
  <1>1. ASSUME Change PROVE CountsTyped /\ UNCHANGED <<pc, job>>
    BY <1>1, ChangeCounts DEF Change, callVars
  <1>2. ASSUME NEW n \in Names, (\E o \in Operations : Provision(n, o)) \/ Perish(n), UNCHANGED lifecycleVars PROVE TInv'
    BY <1>1, <1>2, SameState, AroundTyped DEF Provision, Perish, environmentVars
  <1>3. ASSUME NEW n \in Names, Use(n) PROVE TInv'
    BY <1>1, <1>3, UseTyped, AroundTyped DEF Use
  <1>4. ASSUME NEW i, Unlist(i), UNCHANGED <<planeVars, lifecycleVars>> PROVE TInv'
    <2>1. StateTyped
      BY <1>4, RowTyped, SameButRows DEF Unlist, planeVars
    <2> QED BY <1>1, <1>4, <2>1, AroundTyped DEF Unlist
  <1>5. ASSUME Govern, UNCHANGED lifecycleVars PROVE TInv'
    <2>1. grants' \subseteq Operations /\ defined' \in BOOLEAN
      BY <1>5 DEF Govern, TInv, TypeOK, PlaneTypeOK
    <2>2. StateTyped
      BY <1>5, <2>1 DEF Govern, TInv, TypeOK, RegistryTypeOK, PlaneTypeOK, StateTyped, LifecycleTypeOK, lifecycleVars
    <2> QED BY <1>1, <1>5, <2>2, AroundTyped DEF Govern
  <1>6. ASSUME Tick PROVE TInv'
    <2>1. clock' \in 0..MaxTime
      BY <1>6, MaxTimeAssumption DEF Tick, LifecycleTypeOK, TInv, TypeOK
    <2>2. StateTyped
      BY <1>6, <2>1 DEF Tick, planeVars, TInv, TypeOK, RegistryTypeOK, PlaneTypeOK, StateTyped, LifecycleTypeOK
    <2>3. CountsTyped /\ UNCHANGED <<pc, job>>
      BY <1>6 DEF Tick, setting, callVars, CountsTyped, TInv, TypeOK, CallsTypeOK
    <2> QED BY <2>2, <2>3, AroundTyped
  <1> QED BY <1>2, <1>3, <1>4, <1>5, <1>6, FluctuateTyped DEF Surroundings

LEMMA TInitial == Init => TInv
  <1>1. SUFFICES ASSUME Init PROVE TInv
    OBVIOUS
  <1>2. SInv /\ HInv /\ AInv
    BY <1>1, SInitial, HInitial, AInitial
  <1>3. RegistryTypeOK
    <2>1. CASE Settled
      <3> DEFINE i == CHOOSE k \in Pointers : TRUE
                 n == CHOOSE k \in Names : TRUE
      <3>1. PICK o \in Operations : rows = [k \in Pointers |-> IF k = i THEN Enrolled(i, n, o) ELSE None]
        BY <2>1 DEF Settled
      <3>2. n \in Names
        BY NamesAssumption
      <3> HIDE DEF i, n
      <3>3. i \in Pointers => Enrolled(i, n, o) \in Rows
        BY <3>2, EnrolledTyped
      <3> QED BY <3>1, <3>3 DEF RegistryTypeOK
    <2>2. CASE Listed
      <3>1. [resource : Resources, receipt : {None}] \subseteq Rows
        BY DEF Rows
      <3>2. rows \in [Pointers -> [resource : Resources, receipt : {None}] \cup {None}]
        BY <2>2 DEF Listed
      <3> HIDE DEF Listed
      <3> QED BY <3>1, <3>2 DEF RegistryTypeOK
    <2>3. CASE Blank
      BY <2>3 DEF Blank, RegistryInit, RegistryTypeOK
    <2> QED BY <1>1, <2>1, <2>2, <2>3 DEF Init
  <1>4. PlaneTypeOK
    BY <1>1, <1>2 DEF Init, PlaneInit, PlaneTypeOK, Contents, SInv, HInv, AInv, Sound
  <1>5. LifecycleTypeOK
    <2>1. journal.histories = <<>> /\ journal.torn = FALSE
      BY <1>1 DEF Init, LifecycleInit
    <2> QED BY <1>1, <2>1, MaxTimeAssumption DEF Init, LifecycleInit, LifecycleTypeOK
  <1>6. CallsTypeOK
    BY <1>1, WorldsAssumption DEF Init, CallsInit, CallsTypeOK
  <1>7. \A p \in Procs : JobTyped(pc[p], job[p])
    BY <1>1, IdleTyped DEF Init, CallsInit
  <1> QED BY <1>2, <1>3, <1>4, <1>5, <1>6, <1>7 DEF TInv, TypeOK

LEMMA TInductive == TInv /\ [Next]_serverVars => TInv'
  <1>1. SUFFICES ASSUME TInv, [Next]_serverVars PROVE TInv'
    OBVIOUS
  <1>2. SInv' /\ HInv' /\ AInv'
    BY <1>1, SInductive, HInductive, AInductive DEF TInv
  <1>3. ASSUME NEW p \in Procs, BeginCall(p) \/ Serve(p) PROVE TInv'
    <2>1. StateTyped /\ GoesOn(p)
      BY <1>1, <1>3, ServeTyped
    <2> QED BY <1>1, <1>2, <2>1, ServedTyped DEF GoesOn
  <1>4. ASSUME UNCHANGED serverVars PROVE TInv'
    <2>1. StateTyped
      BY <1>1, <1>4, SameState DEF serverVars, planeVars
    <2>2. CountsTyped /\ UNCHANGED <<pc, job>>
      BY <1>1, <1>4 DEF serverVars, setting, callVars, CountsTyped, TInv, TypeOK, CallsTypeOK
    <2> QED BY <1>1, <1>2, <2>1, <2>2, AroundTyped
  <1> QED BY <1>1, <1>2, <1>3, <1>4, SurroundingsTyped DEF Next

(* Every state the server reaches has its type: whatever is registered,    *)
(* journalled, quarantined and counted is an instance, a name or an        *)
(* operation the server was asked about, at a time that has been.  In      *)
(* particular the receipt of a row names a container or a database, and a  *)
(* history of the journal can be read back (adapter.py 215-257,            *)
(* lifecycle.py 199-245, service.py 113-245).                              *)
THEOREM ServerTypes == Spec => []TypeOK
  <1>1. TInv => TypeOK
    BY DEF TInv
  <1> QED BY <1>1, TInitial, TInductive, PTL DEF Spec
=============================================================================
