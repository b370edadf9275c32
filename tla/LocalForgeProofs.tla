-------------------------- MODULE LocalForgeProofs --------------------------
(***************************************************************************)
(* The local command line never removes a volume it did not make, the      *)
(* rollback of a run takes no data of another, a run that failed has       *)
(* removed or reports all that it made, a destroy that reports success has *)
(* left nothing, project.lock is always the whole lock of a manifest, a    *)
(* checkout that was placed can be recovered, and with it the work seen in *)
(* it, and Odoo starts on what the lock pins: for any number of processes, *)
(* commands, failures and crashes.                                         *)
(***************************************************************************)
EXTENDS LocalForge, TLAPS, WellFoundedInduction

Tokens == (Procs \X Nat) \cup {Absent}

(* What the ledger of a run may hold: pgdata and postgres only as the      *)
(* database, whose cleanup goes by the receipt.                            *)
LedgerEntries == {"network", "filestore", "database", "bootstrap", "odoo"}

ProofOK(proof) ==
    /\ proof = [run |-> proof.run, volume |-> proof.volume, token |-> proof.token, state |-> proof.state]
    /\ proof.run \in Tokens /\ proof.token \in Tokens

JobOK(j) ==
    /\ j = [cmd |-> j.cmd, run |-> j.run, created |-> j.created, volume |-> j.volume,
            found |-> j.found, outcome |-> j.outcome, proof |-> j.proof, left |-> j.left,
            view |-> j.view, ok |-> j.ok]
    /\ j.run \in Tokens
    /\ j.created \in Seq(LedgerEntries)
    /\ ProofOK(j.proof)

(* The inductive invariant: the tokens a command may compare with are the  *)
(* identities of runs, never the mark of data from before.                 *)
IInv ==
    /\ calls \in Nat
    /\ docker \in [Parts -> Tokens \cup {Unlabelled}]
    /\ ProofOK(custody)
    /\ DOMAIN bpc = Procs /\ bpc = [p \in Procs |-> bpc[p]]
    /\ bjob = [p \in Procs |-> bjob[p]]
    /\ \A p \in Procs : JobOK(bjob[p])

LEMMA NoProofOK == ProofOK(NoProof)
  BY DEF ProofOK, NoProof, Tokens

LEMMA NoJobOK == JobOK(NoBackendJob)
  BY NoProofOK DEF JobOK, NoBackendJob, Tokens

(* The updates commands make to their locals. *)
LEMMA JobUpdates ==
  ASSUME NEW j, JobOK(j)
  PROVE  /\ \A c \in Seq(LedgerEntries) : JobOK([j EXCEPT !.created = c])
         /\ \A v : JobOK([j EXCEPT !.volume = v])
         /\ \A v : JobOK([j EXCEPT !.found = v])
         /\ \A v : JobOK([j EXCEPT !.outcome = v])
         /\ \A v : JobOK([j EXCEPT !.left = v])
         /\ \A v : JobOK([j EXCEPT !.cmd = v])
         /\ \A v : JobOK([j EXCEPT !.view = v])
         /\ \A v : JobOK([j EXCEPT !.ok = v])
         /\ \A v \in Tokens : JobOK([j EXCEPT !.run = v])
         /\ \A v : ProofOK(v) => JobOK([j EXCEPT !.proof = v])
  BY DEF JobOK

-----------------------------------------------------------------------------
(* What a step of process p does to the positions and the locals. *)
KeepsLocals(p) ==
    /\ bpc' = bpc \/ \E l : BGoto(p, l)
    /\ bjob' = bjob \/ \E j : JobOK(j) /\ BWith(p, j)

(* What a step does to the parts: they stay labelled, and the volumes from *)
(* before stay.                                                            *)
KeepsVolumes ==
    /\ docker' \in [Parts -> Tokens \cup {Unlabelled}]
    /\ \A v \in Volumes : docker[v] = Unlabelled => docker'[v] = Unlabelled

KeepsCustody == ProofOK(custody)'

LEMMA LocalsInductive ==
  ASSUME IInv, NEW p \in Procs, KeepsLocals(p)
  PROVE  /\ DOMAIN bpc' = Procs /\ bpc' = [q \in Procs |-> bpc'[q]]
         /\ bjob' = [q \in Procs |-> bjob'[q]]
         /\ \A q \in Procs : JobOK(bjob'[q])
  <1>1. DOMAIN bpc' = Procs /\ bpc' = [q \in Procs |-> bpc'[q]]
    BY DEF IInv, KeepsLocals, BGoto
  <1>2. /\ bjob' = [q \in Procs |-> bjob'[q]]
        /\ \A q \in Procs : JobOK(bjob'[q])
    <2>1. CASE bjob' = bjob
      BY <2>1 DEF IInv
    <2>2. ASSUME NEW j, JobOK(j), BWith(p, j)
          PROVE  /\ bjob' = [q \in Procs |-> bjob'[q]]
                 /\ \A q \in Procs : JobOK(bjob'[q])
      <3>1. bjob' = [q \in Procs |-> IF q = p THEN j ELSE bjob[q]]
        BY <2>2 DEF IInv, BWith
      <3>2. QED
        BY <2>2, <3>1 DEF IInv
    <2>3. QED
      BY <2>1, <2>2 DEF KeepsLocals
  <1>3. QED
    BY <1>1, <1>2

LEMMA StepKeeps ==
  ASSUME NEW p, NEW l, Step(p, l)
  PROVE  KeepsLocals(p)
  BY DEF Step, KeepsLocals

LEMMA RaiseKeeps ==
  ASSUME NEW p, Raise(p)
  PROVE  KeepsLocals(p)
  BY StepKeeps DEF Raise

(* The locals a command leaves behind. *)
LEMMA EndJobOK ==
  ASSUME IInv, NEW p \in Procs
  PROVE  \A ok : JobOK([NoBackendJob EXCEPT !.cmd = bjob[p].cmd, !.run = bjob[p].run,
                                            !.left = bjob[p].left, !.ok = ok])
  <1>1. SUFFICES ASSUME NEW ok
                 PROVE  JobOK([NoBackendJob EXCEPT !.cmd = bjob[p].cmd, !.run = bjob[p].run,
                                                   !.left = bjob[p].left, !.ok = ok])
    OBVIOUS
  <1> DEFINE j1 == [NoBackendJob EXCEPT !.cmd = bjob[p].cmd]
             j2 == [j1 EXCEPT !.run = bjob[p].run]
             j3 == [j2 EXCEPT !.left = bjob[p].left]
             j4 == [j3 EXCEPT !.ok = ok]
  <1>2. bjob[p].run \in Tokens
    BY DEF IInv, JobOK
  <1>3. JobOK(j1)
    BY NoJobOK, JobUpdates
  <1>4. JobOK(j2)
    BY <1>2, <1>3, JobUpdates
  <1>5. JobOK(j3)
    BY <1>4, JobUpdates
  <1>6. JobOK(j4)
    BY <1>5, JobUpdates
  <1>7. j4 = [NoBackendJob EXCEPT !.cmd = bjob[p].cmd, !.run = bjob[p].run,
                                  !.left = bjob[p].left, !.ok = ok]
    BY DEF NoBackendJob
  <1>8. QED
    BY <1>6, <1>7

LEMMA EndKeeps ==
  ASSUME IInv, NEW p \in Procs, NEW ok, BEnd(p, ok)
  PROVE  KeepsLocals(p)
  BY EndJobOK DEF BEnd, KeepsLocals

LEMMA EnterKeeps ==
  ASSUME IInv, NEW p \in Procs, NEW e \in LedgerEntries, Enter(p, e)
  PROVE  \E j : JobOK(j) /\ BWith(p, j)
  <1>1. JobOK(bjob[p])
    BY DEF IInv
  <1>2. Append(bjob[p].created, e) \in Seq(LedgerEntries)
    BY <1>1 DEF JobOK
  <1>3. JobOK([bjob[p] EXCEPT !.created = Append(bjob[p].created, e)])
    BY <1>1, <1>2, JobUpdates
  <1>4. QED
    BY <1>3 DEF Enter
-----------------------------------------------------------------------------
(* Docker.                                                                 *)
LEMMA QuietKeeps ==
  ASSUME IInv, UNCHANGED docker
  PROVE  KeepsVolumes
  BY DEF IInv, KeepsVolumes

LEMMA VanishKeeps ==
  ASSUME IInv, NEW gone, Vanish(gone), \A v \in Volumes \cap gone : docker[v] # Unlabelled
  PROVE  KeepsVolumes
  BY DEF IInv, Vanish, KeepsVolumes, Tokens, Parts, Volumes

(* What cleanup takes is labelled with the run of the receipt. *)
LEMMA CleanupOwn ==
  ASSUME NEW run, NEW volume, NEW gone, NEW left, Cleanup(run, volume, gone, left)
  PROVE  \A x \in gone : docker[x] = run
  BY DEF Cleanup, CleanupRemoves

(* The teardown of a ledger entry takes nothing but Odoo and the network   *)
(* without its label.                                                      *)
LEMMA TeardownOwn ==
  ASSUME NEW p, NEW e \in LedgerEntries, NEW gone, NEW left, Teardown(p, e, gone, left)
  PROVE  \A x \in gone \ {"odoo", "network"} : docker[x] = bjob[p].run
  <1>1. CASE e = "database"
    BY <1>1, CleanupOwn DEF Teardown
  <1>2. CASE e # "database"
    BY <1>2 DEF Teardown, RollbackRemoves, LedgerEntries
  <1>3. QED
    BY <1>1, <1>2

LEMMA TokenIsNoMark == Unlabelled \notin Tokens
  BY LabelsAssumption DEF Tokens

-----------------------------------------------------------------------------
(* The steps of run.                                                       *)
LEMMA StartRunKeeps ==
  ASSUME IInv, calls' \in Nat, NEW p \in Procs, NEW STATE view, StartRun(p, view)
  PROVE  KeepsLocals(p) /\ KeepsVolumes /\ KeepsCustody
  <1> DEFINE j1 == [NoBackendJob EXCEPT !.cmd = "run"]
             j2 == [j1 EXCEPT !.run = <<p, calls'>>]
             j3 == [j2 EXCEPT !.view = view]
  <1>1. JobOK(j1)
    BY NoJobOK, JobUpdates
  <1>2. <<p, calls'>> \in Tokens
    BY DEF Tokens
  <1>3. JobOK(j2)
    BY <1>1, <1>2, JobUpdates
  <1>4. JobOK(j3)
    BY <1>3, JobUpdates
  <1>5. BWith(p, j3)
    BY DEF StartRun, BWith, NoBackendJob
  <1>6. KeepsLocals(p)
    BY <1>4, <1>5 DEF StartRun, KeepsLocals
  <1>7. KeepsVolumes /\ KeepsCustody
    BY QuietKeeps DEF StartRun, KeepsCustody, dockerVars, IInv
  <1>8. QED
    BY <1>6, <1>7

LEMMA LookingKeeps ==
  ASSUME IInv, NEW p \in Procs,
         CheckExists(p) \/ EnsureOdooImage(p) \/ EnsureNetwork(p) \/ EnsureVolume(p) \/ WaitOdooHealthy(p)
  PROVE  KeepsLocals(p) /\ KeepsVolumes /\ KeepsCustody
  <1>1. KeepsLocals(p)
    BY StepKeeps, RaiseKeeps, EndKeeps
       DEF CheckExists, EnsureOdooImage, EnsureNetwork, EnsureVolume, WaitOdooHealthy
  <1>2. UNCHANGED <<docker, custody>>
    BY DEF CheckExists, EnsureOdooImage, EnsureNetwork, EnsureVolume, WaitOdooHealthy, dockerVars
  <1>3. KeepsVolumes /\ KeepsCustody
    BY <1>2, QuietKeeps DEF KeepsCustody, IInv
  <1>4. QED
    BY <1>1, <1>3

LEMMA CreateNetworkKeeps ==
  ASSUME IInv, NEW p \in Procs, CreateNetwork(p)
  PROVE  KeepsLocals(p) /\ KeepsVolumes /\ KeepsCustody
  <1>1. KeepsLocals(p)
    BY RaiseKeeps, EnterKeeps DEF CreateNetwork, KeepsLocals, LedgerEntries
  <1>2. KeepsVolumes
    <2>1. CASE UNCHANGED docker
      BY <2>1, QuietKeeps
    <2>2. CASE Put("network", bjob[p].run)
      BY <2>2 DEF Put, IInv, JobOK, KeepsVolumes, Parts, Containers, Volumes
    <2>3. QED
      BY <2>1, <2>2 DEF CreateNetwork
  <1>3. KeepsCustody
    BY DEF CreateNetwork, KeepsCustody, IInv
  <1>4. QED
    BY <1>1, <1>2, <1>3

LEMMA CreateVolumeKeeps ==
  ASSUME IInv, NEW p \in Procs, CreateVolume(p)
  PROVE  KeepsLocals(p) /\ KeepsVolumes /\ KeepsCustody
  <1>1. KeepsLocals(p)
    BY RaiseKeeps, EnterKeeps DEF CreateVolume, KeepsLocals, LedgerEntries
  <1>2. KeepsVolumes
    <2>1. CASE UNCHANGED docker
      BY <2>1, QuietKeeps
    <2>2. CASE Put("filestore", IF Exists("filestore") THEN docker["filestore"] ELSE bjob[p].run)
      BY <2>2, LabelsAssumption DEF Put, Exists, IInv, JobOK, KeepsVolumes, Parts, Volumes, Containers
    <2>3. QED
      BY <2>1, <2>2 DEF CreateVolume
  <1>3. KeepsCustody
    BY DEF CreateVolume, KeepsCustody, IInv
  <1>4. QED
    BY <1>1, <1>2, <1>3

LEMMA ProvisionKeeps ==
  ASSUME IInv, NEW p \in Procs, Provision(p)
  PROVE  KeepsLocals(p) /\ KeepsVolumes /\ KeepsCustody
  <1>1. CASE UNCHANGED dockerVars /\ Raise(p) /\ UNCHANGED custody
    BY <1>1, RaiseKeeps, QuietKeeps DEF dockerVars, KeepsCustody, IInv
  <1>2. CASE /\ docker' = [docker EXCEPT !["postgres"] = bjob[p].run,
                                         !["pgdata"] = IF ~Exists("pgdata") THEN bjob[p].run ELSE @]
             /\ BGoto(p, IF ~Exists("pgdata") THEN "bootstrap" ELSE "odoo")
             /\ BWith(p, [bjob[p] EXCEPT !.created = Append(@, "database"), !.volume = ~Exists("pgdata")])
             /\ UNCHANGED custody
    <2> DEFINE j1 == [bjob[p] EXCEPT !.created = Append(bjob[p].created, "database")]
               j2 == [j1 EXCEPT !.volume = ~Exists("pgdata")]
    <2>1. JobOK(bjob[p])
      BY DEF IInv
    <2>2. Append(bjob[p].created, "database") \in Seq(LedgerEntries)
      BY <2>1 DEF JobOK, LedgerEntries
    <2>3. JobOK(j1)
      BY <2>1, <2>2, JobUpdates
    <2>4. JobOK(j2)
      BY <2>3, JobUpdates
    <2>5. BWith(p, j2)
      BY <1>2, <2>1 DEF BWith, JobOK
    <2>6. KeepsLocals(p)
      BY <1>2, <2>4, <2>5 DEF KeepsLocals
    <2>7. KeepsVolumes
      BY <1>2, LabelsAssumption DEF Exists, IInv, JobOK, KeepsVolumes, Parts, Volumes, Containers
    <2>8. QED
      BY <1>2, <2>6, <2>7 DEF KeepsCustody, IInv
  <1>3. QED
    BY <1>1, <1>2 DEF Provision

LEMMA FrontInLedger ==
  ASSUME NEW s \in Seq(LedgerEntries)
  PROVE  Front(s) \in Seq(LedgerEntries) /\ (s # <<>> => Last(s) \in LedgerEntries)
  BY DEF Front, Last

LEMMA RunBootstrapKeeps ==
  ASSUME IInv, NEW p \in Procs, RunBootstrap(p)
  PROVE  KeepsLocals(p) /\ KeepsVolumes /\ KeepsCustody
  <1>1. KeepsLocals(p)
    BY RaiseKeeps, EnterKeeps DEF RunBootstrap, KeepsLocals, LedgerEntries
  <1>2. KeepsVolumes
    <2>1. CASE UNCHANGED docker
      BY <2>1, QuietKeeps
    <2>2. CASE Put("bootstrap", bjob[p].run)
      BY <2>2 DEF Put, IInv, JobOK, KeepsVolumes, Parts, Containers, Volumes
    <2>3. QED
      BY <2>1, <2>2 DEF RunBootstrap, dockerVars
  <1>3. QED
    BY <1>1, <1>2 DEF RunBootstrap, KeepsCustody, IInv

LEMMA RemoveBootstrapKeeps ==
  ASSUME IInv, NEW p \in Procs, RemoveBootstrap(p)
  PROVE  KeepsLocals(p) /\ KeepsVolumes /\ KeepsCustody
  <1> DEFINE own == IF docker["bootstrap"] = bjob[p].run THEN {"bootstrap"} ELSE {}
  <1>1. JobOK([bjob[p] EXCEPT !.created = Front(bjob[p].created)])
    BY FrontInLedger, JobUpdates DEF IInv, JobOK
  <1>2. KeepsLocals(p)
    BY <1>1, RaiseKeeps DEF RemoveBootstrap, KeepsLocals
  <1>3. KeepsVolumes
    <2>1. CASE UNCHANGED docker
      BY <2>1, QuietKeeps
    <2>2. CASE Vanish(own)
      BY <2>2, VanishKeeps DEF Volumes
    <2>3. QED
      BY <2>1, <2>2 DEF RemoveBootstrap, dockerVars
  <1>4. QED
    BY <1>2, <1>3 DEF RemoveBootstrap, KeepsCustody, IInv
LEMMA RunContainerKeeps ==
  ASSUME IInv, NEW p \in Procs, RunContainer(p)
  PROVE  KeepsLocals(p) /\ KeepsVolumes /\ KeepsCustody
  <1>1. KeepsLocals(p)
    BY RaiseKeeps, EnterKeeps DEF RunContainer, KeepsLocals, LedgerEntries
  <1>2. KeepsVolumes
    <2>1. CASE UNCHANGED docker
      BY <2>1, QuietKeeps
    <2>2. CASE docker' = [docker EXCEPT !["odoo"] = bjob[p].run,
                                        !["filestore"] = IF Exists("filestore") THEN @ ELSE Unlabelled]
      BY <2>2, LabelsAssumption DEF Exists, IInv, JobOK, KeepsVolumes, Parts, Volumes, Containers
    <2>3. QED
      BY <2>1, <2>2 DEF RunContainer, dockerVars
  <1>3. QED
    BY <1>1, <1>2 DEF RunContainer, KeepsCustody, IInv

LEMMA RecordCustodyKeeps ==
  ASSUME IInv, NEW p \in Procs, RecordCustody(p)
  PROVE  KeepsLocals(p) /\ KeepsVolumes /\ KeepsCustody
  <1>1. KeepsLocals(p)
    BY RaiseKeeps, EndKeeps DEF RecordCustody
  <1>2. KeepsVolumes
    BY QuietKeeps DEF RecordCustody, dockerVars
  <1>3. KeepsCustody
    <2>1. bjob[p].run \in Tokens /\ Absent \in Tokens
      BY DEF IInv, JobOK, Tokens
    <2>2. ASSUME NEW r \in Tokens, NEW t \in Tokens, NEW v PROVE ProofOK(Entry(r, v, t))
      BY DEF Entry, ProofOK
    <2>3. CASE UNCHANGED custody
      BY <2>3 DEF KeepsCustody, IInv
    <2>4. ASSUME NEW token \in Tokens, custody' = Entry(bjob[p].run, bjob[p].volume, token)
          PROVE  KeepsCustody
      BY <2>1, <2>2, <2>4 DEF KeepsCustody
    <2>5. QED
      BY <2>1, <2>3, <2>4 DEF RecordCustody
  <1>4. QED
    BY <1>1, <1>2, <1>3

LEMMA RollbackKeeps ==
  ASSUME IInv, NEW p \in Procs, Rollback(p)
  PROVE  /\ KeepsLocals(p) /\ KeepsVolumes /\ KeepsCustody
         /\ \A x \in Parts \ {"odoo", "network"} : docker'[x] # docker[x] => docker[x] = bjob[p].run
  <1> DEFINE ledger == bjob[p].created
  <1>1. JobOK(bjob[p]) /\ ledger \in Seq(LedgerEntries) /\ bjob[p].run \in Tokens
    BY DEF IInv, JobOK
  <1>2. KeepsCustody
    BY DEF Rollback, KeepsCustody, IInv
  <1>3. CASE ledger = <<>> /\ BEnd(p, FALSE) /\ UNCHANGED dockerVars
    BY <1>2, <1>3, EndKeeps, QuietKeeps DEF dockerVars
  <1>4. ASSUME ledger # <<>>, UNCHANGED bpc, NEW gone, NEW left,
               Teardown(p, Last(ledger), gone, left), Vanish(gone),
               BWith(p, [bjob[p] EXCEPT !.created = Front(@), !.left = @ \cup left])
        PROVE  /\ KeepsLocals(p) /\ KeepsVolumes
               /\ \A x \in Parts \ {"odoo", "network"} : docker'[x] # docker[x] => docker[x] = bjob[p].run
    <2> DEFINE j1 == [bjob[p] EXCEPT !.created = Front(ledger)]
               j2 == [j1 EXCEPT !.left = bjob[p].left \cup left]
    <2>1. JobOK(j1)
      BY <1>1, FrontInLedger, JobUpdates
    <2>2. JobOK(j2)
      BY <2>1, JobUpdates
    <2>3. BWith(p, j2)
      BY <1>1, <1>4 DEF BWith, JobOK
    <2>4. KeepsLocals(p)
      BY <1>4, <2>2, <2>3 DEF KeepsLocals
    <2>5. \A x \in gone \ {"odoo", "network"} : docker[x] = bjob[p].run
      BY <1>1, <1>4, FrontInLedger, TeardownOwn
    <2>6. KeepsVolumes
      BY <1>1, <1>4, <2>5, VanishKeeps, TokenIsNoMark DEF Volumes
    <2>7. \A x \in Parts \ {"odoo", "network"} : docker'[x] # docker[x] => docker[x] = bjob[p].run
      BY <1>4, <2>5 DEF Vanish
    <2>8. QED
      BY <2>4, <2>6, <2>7
  <1>5. QED
    BY <1>2, <1>3, <1>4 DEF Rollback

-----------------------------------------------------------------------------
(* The steps of stop and destroy.                                          *)
LEMMA StartsKeep ==
  ASSUME IInv, NEW p \in Procs,
         StartRemoval(p, "stop") \/ StartRemoval(p, "destroy") \/ Status(p) \/ LogsExec(p)
  PROVE  KeepsLocals(p) /\ KeepsVolumes /\ KeepsCustody
  <1>1. \A cmd : JobOK([NoBackendJob EXCEPT !.cmd = cmd])
    BY NoJobOK, JobUpdates
  <1>2. \A cmd, ok : JobOK([NoBackendJob EXCEPT !.cmd = cmd, !.ok = ok])
    <2>1. ASSUME NEW cmd, NEW ok PROVE JobOK([NoBackendJob EXCEPT !.cmd = cmd, !.ok = ok])
      <3> DEFINE j1 == [NoBackendJob EXCEPT !.cmd = cmd]
      <3>1. JobOK([j1 EXCEPT !.ok = ok])
        BY <1>1, JobUpdates
      <3>2. [j1 EXCEPT !.ok = ok] = [NoBackendJob EXCEPT !.cmd = cmd, !.ok = ok]
        BY DEF NoBackendJob
      <3>3. QED
        BY <3>1, <3>2
    <2>2. QED
      BY <2>1
  <1>3. KeepsLocals(p)
    BY <1>1, <1>2 DEF StartRemoval, Status, LogsExec, KeepsLocals
  <1>4. KeepsVolumes /\ KeepsCustody
    BY QuietKeeps DEF StartRemoval, Status, LogsExec, dockerVars, KeepsCustody, IInv
  <1>5. QED
    BY <1>3, <1>4

LEMMA LookKeeps ==
  ASSUME IInv, NEW p \in Procs, LookAtRuntime(p)
  PROVE  KeepsLocals(p) /\ KeepsVolumes /\ KeepsCustody
  <1>1. \A found : JobOK([bjob[p] EXCEPT !.found = found])
    BY JobUpdates DEF IInv
  <1>2. KeepsLocals(p)
    BY <1>1, EndKeeps DEF LookAtRuntime, KeepsLocals
  <1>3. QED
    BY <1>2, QuietKeeps DEF LookAtRuntime, dockerVars, KeepsCustody, IInv

LEMMA AfterRuntimeKeeps ==
  ASSUME IInv, NEW p \in Procs, NEW STATE outcome, AfterRuntime(p, outcome)
  PROVE  KeepsLocals(p)
  <1>1. JobOK([bjob[p] EXCEPT !.outcome = outcome])
    BY JobUpdates DEF IInv
  <1>2. QED
    BY <1>1, EndKeeps DEF AfterRuntime, KeepsLocals

LEMMA RemoveRuntimeKeeps ==
  ASSUME IInv, NEW p \in Procs, NEW i \in 1..3, RemoveRuntime(p, i)
  PROVE  KeepsLocals(p) /\ KeepsVolumes /\ KeepsCustody
  <1> DEFINE Done(o) == LET outcome == Append(bjob[p].outcome, o)
                        IN  IF i = 3 THEN AfterRuntime(p, outcome)
                            ELSE /\ BGoto(p, <<"rm_odoo", "rm_network">>[i])
                                 /\ BWith(p, [bjob[p] EXCEPT !.outcome = outcome])
  <1>1. ASSUME NEW o, Done(o) PROVE KeepsLocals(p)
    <2>1. JobOK([bjob[p] EXCEPT !.outcome = Append(bjob[p].outcome, o)])
      BY JobUpdates DEF IInv
    <2>2. QED
      BY <1>1, <2>1, AfterRuntimeKeeps DEF KeepsLocals
  <1>2. KeepsLocals(p)
    <2>1. (\E o : Done(o)) \/ BEnd(p, FALSE)
      BY DEF RemoveRuntime
    <2>2. QED
      BY <1>1, <2>1, EndKeeps
  <1>3. KeepsVolumes
    <2>1. Runtime[i] \notin Volumes
      BY DEF Runtime, Volumes
    <2>2. UNCHANGED docker \/ Vanish({Runtime[i]})
      BY DEF RemoveRuntime, dockerVars
    <2>3. QED
      BY <2>1, <2>2, QuietKeeps, VanishKeeps
  <1>4. QED
    BY <1>2, <1>3 DEF RemoveRuntime, KeepsCustody, IInv
LEMMA ConsumeKeeps ==
  ASSUME IInv, NEW p \in Procs, Consume(p)
  PROVE  KeepsLocals(p) /\ KeepsVolumes /\ KeepsCustody
  <1>1. JobOK([bjob[p] EXCEPT !.proof = custody])
    BY JobUpdates DEF IInv
  <1>2. KeepsLocals(p)
    BY <1>1, EndKeeps DEF Consume, KeepsLocals
  <1>3. ProofOK(Consumed)
    BY DEF Consumed, ProofOK, IInv
  <1>4. KeepsCustody
    <2>1. CASE UNCHANGED custody
      BY <2>1 DEF KeepsCustody, IInv
    <2>2. CASE custody' = Consumed
      BY <1>3, <2>2 DEF KeepsCustody
    <2>3. QED
      BY <2>1, <2>2 DEF Consume
  <1>5. KeepsVolumes
    BY QuietKeeps DEF Consume, dockerVars
  <1>6. QED
    BY <1>2, <1>4, <1>5

LEMMA ReclaimDatabaseKeeps ==
  ASSUME IInv, NEW p \in Procs, ReclaimDatabase(p)
  PROVE  KeepsLocals(p) /\ KeepsVolumes /\ KeepsCustody
  <1> DEFINE proof == bjob[p].proof
  <1>1. PICK before \in BOOLEAN, gone \in SUBSET {"postgres", "pgdata"}, left \in SUBSET {"postgres", "pgdata"} :
          /\ Cleanup(proof.run, proof.volume, gone, left) /\ Vanish(gone)
          /\ BWith(p, [bjob[p] EXCEPT !.outcome = <<PgdataOutcome(proof, before, left)>>, !.left = left])
    BY DEF ReclaimDatabase
  <1>2. JobOK(bjob[p]) /\ proof.run \in Tokens
    BY DEF IInv, JobOK, ProofOK
  <1> DEFINE j1 == [bjob[p] EXCEPT !.outcome = <<PgdataOutcome(proof, before, left)>>]
             j2 == [j1 EXCEPT !.left = left]
  <1>3. JobOK(j1)
    BY <1>2, JobUpdates
  <1>4. JobOK(j2)
    BY <1>3, JobUpdates
  <1>5. BWith(p, j2)
    BY <1>1, <1>2 DEF BWith, JobOK
  <1>6. KeepsLocals(p)
    BY <1>4, <1>5 DEF ReclaimDatabase, KeepsLocals
  <1>7. \A x \in gone : docker[x] = proof.run
    BY <1>1, CleanupOwn
  <1>8. KeepsVolumes
    BY <1>1, <1>2, <1>7, VanishKeeps, TokenIsNoMark
  <1>9. QED
    BY <1>6, <1>8 DEF ReclaimDatabase, KeepsCustody, IInv

LEMMA ReclaimFilestoreKeeps ==
  ASSUME IInv, NEW p \in Procs, ReclaimFilestore(p)
  PROVE  KeepsLocals(p) /\ KeepsVolumes /\ KeepsCustody
  <1> DEFINE fits == VolumeHasLabel(bjob[p].proof.token)
  <1>1. \A o : JobOK([bjob[p] EXCEPT !.outcome = Append(bjob[p].outcome, o)])
    BY JobUpdates DEF IInv
  <1>2. KeepsLocals(p)
    BY <1>1 DEF ReclaimFilestore, KeepsLocals
  <1>3. fits => docker["filestore"] # Unlabelled
    BY TokenIsNoMark DEF VolumeHasLabel, IInv, JobOK, ProofOK
  <1>4. KeepsVolumes
    <2>1. CASE UNCHANGED docker
      BY <2>1, QuietKeeps
    <2>2. CASE fits /\ Vanish({"filestore"})
      BY <1>3, <2>2, VanishKeeps
    <2>3. CASE Vanish({})
      BY <2>3, VanishKeeps
    <2>4. QED
      BY <2>1, <2>2, <2>3 DEF ReclaimFilestore, dockerVars
  <1>5. QED
    BY <1>2, <1>4 DEF ReclaimFilestore, KeepsCustody, IInv

LEMMA CompleteReclaimKeeps ==
  ASSUME IInv, NEW p \in Procs, CompleteReclaim(p)
  PROVE  KeepsLocals(p) /\ KeepsVolumes /\ KeepsCustody
  <1>1. KeepsLocals(p)
    BY EndJobOK DEF CompleteReclaim, BEnd, KeepsLocals
  <1>2. custody' = custody \/ custody' = NoProof
    BY DEF CompleteReclaim, Completed
  <1>3. KeepsCustody
    BY <1>2, NoProofOK DEF KeepsCustody, IInv
  <1>4. QED
    BY <1>1, <1>3, QuietKeeps DEF CompleteReclaim, dockerVars

LEMMA ReclaimRaisesKeeps ==
  ASSUME IInv, NEW p \in Procs, ReclaimRaises(p)
  PROVE  KeepsLocals(p) /\ KeepsVolumes /\ KeepsCustody
  <1>1. KeepsLocals(p)
    BY EndJobOK DEF ReclaimRaises, BEnd, KeepsLocals
  <1>2. QED
    BY <1>1, QuietKeeps DEF ReclaimRaises, dockerVars, KeepsCustody, IInv

LEMMA CrashKeeps ==
  ASSUME IInv, NEW p \in Procs, BackendCrash(p)
  PROVE  KeepsLocals(p) /\ KeepsVolumes /\ KeepsCustody
  BY NoJobOK, QuietKeeps DEF BackendCrash, KeepsLocals, KeepsCustody, dockerVars, IInv

-----------------------------------------------------------------------------
(* Every step of the command line.                                         *)
LEMMA CallsCounted ==
  ASSUME IInv, Next
  PROVE  calls' \in Nat
  <1>1. calls \in Nat
    BY DEF IInv
  <1>2. Begun \/ Changed \/ Died \/ UNCHANGED cli
    <2>1. ASSUME NEW p \in Procs, WorkspaceStep(p) PROVE Begun \/ Died \/ UNCHANGED cli
      BY <2>1 DEF WorkspaceStep, BeginCommand, OnboardCatalog, Configure, Read, MayBegin, BeginUnlock, Crash
    <2>2. ASSUME NEW p \in Procs, HandOver(p) PROVE UNCHANGED cli
      BY <2>2 DEF HandOver
    <2>3. ASSUME NEW p \in Procs, RunBare(p) PROVE Begun
      BY <2>3 DEF RunBare
    <2>4. ASSUME NEW p \in Procs, BackendStep(p) PROVE Begun \/ Died \/ UNCHANGED cli
      BY <2>4 DEF BackendStep, BackendCrash
    <2>5. WorkspaceEnv => Changed
      BY DEF WorkspaceEnv
    <2>6. QED
      BY <2>1, <2>2, <2>3, <2>4, <2>5 DEF Next
  <1>3. QED
    BY <1>1, <1>2 DEF Begun, Changed, Died, cli

LEMMA CommandKeeps ==
  ASSUME IInv, NEW p \in Procs, BackendCommand(p)
  PROVE  KeepsLocals(p) /\ KeepsVolumes /\ KeepsCustody
  <1>1. CASE CheckExists(p) \/ EnsureOdooImage(p) \/ EnsureNetwork(p) \/ EnsureVolume(p) \/ WaitOdooHealthy(p)
    BY <1>1, LookingKeeps
  <1>2. CASE CreateNetwork(p)
    BY <1>2, CreateNetworkKeeps
  <1>3. CASE CreateVolume(p)
    BY <1>3, CreateVolumeKeeps
  <1>4. CASE Provision(p)
    BY <1>4, ProvisionKeeps
  <1>5. CASE RunBootstrap(p)
    BY <1>5, RunBootstrapKeeps
  <1>6. CASE RemoveBootstrap(p)
    BY <1>6, RemoveBootstrapKeeps
  <1>7. CASE RunContainer(p)
    BY <1>7, RunContainerKeeps
  <1>8. CASE RecordCustody(p)
    BY <1>8, RecordCustodyKeeps
  <1>9. CASE Rollback(p)
    BY <1>9, RollbackKeeps
  <1>10. CASE LookAtRuntime(p)
    BY <1>10, LookKeeps
  <1>11. CASE \E i \in 1..3 : RemoveRuntime(p, i)
    BY <1>11, RemoveRuntimeKeeps
  <1>12. CASE Consume(p)
    BY <1>12, ConsumeKeeps
  <1>13. CASE ReclaimDatabase(p)
    BY <1>13, ReclaimDatabaseKeeps
  <1>14. CASE ReclaimFilestore(p)
    BY <1>14, ReclaimFilestoreKeeps
  <1>15. CASE CompleteReclaim(p)
    BY <1>15, CompleteReclaimKeeps
  <1>16. CASE ReclaimRaises(p)
    BY <1>16, ReclaimRaisesKeeps
  <1>17. QED
    BY <1>1, <1>2, <1>3, <1>4, <1>5, <1>6, <1>7, <1>8, <1>9, <1>10, <1>11, <1>12, <1>13, <1>14, <1>15, <1>16
       DEF BackendCommand

(* A process that rolls back does nothing else. *)
KeepsOthers(p) ==
    bpc[p] = "rollback" =>
        \A x \in Parts \ {"odoo", "network"} : docker'[x] # docker[x] => docker[x] = bjob[p].run

LEMMA RollbackAtRollback ==
  ASSUME NEW p, bpc[p] = "rollback", BackendCommand(p)
  PROVE  Rollback(p)
  <1>1. ~\E i \in 1..3 : RemoveRuntime(p, i)
    BY DEF RemoveRuntime
  <1>2. ~(\/ Consume(p) \/ ReclaimDatabase(p) \/ ReclaimFilestore(p) \/ ReclaimRaises(p)
          \/ CompleteReclaim(p) \/ LookAtRuntime(p))
    BY DEF Consume, ReclaimDatabase, ReclaimFilestore, ReclaimRaises, CompleteReclaim, LookAtRuntime
  <1>3. ~(CheckExists(p) \/ EnsureOdooImage(p) \/ EnsureNetwork(p) \/ CreateNetwork(p) \/ EnsureVolume(p))
    BY DEF CheckExists, EnsureOdooImage, EnsureNetwork, CreateNetwork, EnsureVolume
  <1>4. ~(CreateVolume(p) \/ Provision(p) \/ RunBootstrap(p) \/ RemoveBootstrap(p) \/ RunContainer(p))
    BY DEF CreateVolume, Provision, RunBootstrap, RemoveBootstrap, RunContainer
  <1>5. ~(WaitOdooHealthy(p) \/ RecordCustody(p))
    BY DEF WaitOdooHealthy, RecordCustody
  <1>6. QED
    BY <1>1, <1>2, <1>3, <1>4, <1>5 DEF BackendCommand

(* A step leaves the backend alone, or is a step of one process in it. *)
LEMMA NextKeeps ==
  ASSUME IInv, Next
  PROVE  UNCHANGED backendVars \/ \E p \in Procs : KeepsLocals(p) /\ KeepsVolumes /\ KeepsCustody /\ KeepsOthers(p)
  <1>1. calls' \in Nat
    BY CallsCounted
  <1>2. ASSUME NEW p \in Procs, HandOver(p)
        PROVE  KeepsLocals(p) /\ KeepsVolumes /\ KeepsCustody /\ KeepsOthers(p)
    BY <1>1, <1>2, StartRunKeeps DEF HandOver, StartRun, BMayBegin, KeepsOthers
  <1>3. ASSUME NEW p \in Procs, RunBare(p)
        PROVE  KeepsLocals(p) /\ KeepsVolumes /\ KeepsCustody /\ KeepsOthers(p)
    BY <1>1, <1>3, StartRunKeeps DEF RunBare, StartRun, BMayBegin, KeepsOthers
  <1>4. ASSUME NEW p \in Procs, BackendStep(p)
        PROVE  KeepsLocals(p) /\ KeepsVolumes /\ KeepsCustody /\ KeepsOthers(p)
    <2>1. KeepsLocals(p) /\ KeepsVolumes /\ KeepsCustody
      BY <1>4, CommandKeeps, StartsKeep, CrashKeeps DEF BackendStep
    <2>2. CASE BackendCommand(p)
      BY <2>1, <2>2, RollbackAtRollback, RollbackKeeps DEF KeepsOthers
    <2>3. CASE UNCHANGED docker
      BY <2>1, <2>3 DEF KeepsOthers
    <2>4. QED
      BY <1>4, <2>2, <2>3
         DEF BackendStep, StartRemoval, Status, LogsExec, BackendCrash, dockerVars
  <1>5. QED
    BY <1>2, <1>3, <1>4 DEF Next

LEMMA Initial == Init => IInv
  <1> SUFFICES ASSUME Init PROVE IInv
    OBVIOUS
  <1>1. calls \in Nat
    BY DEF Init, CliInit
  <1>2. docker \in [Parts -> Tokens \cup {Unlabelled}]
    BY DEF Init, BackendInit, Tokens
  <1>3. QED
    BY <1>1, <1>2, NoProofOK, NoJobOK DEF Init, BackendInit, IInv

LEMMA Inductive == IInv /\ [Next]_localVars => IInv'
  <1> SUFFICES ASSUME IInv, [Next]_localVars PROVE IInv'
    OBVIOUS
  <1>1. CASE UNCHANGED localVars
    BY <1>1 DEF localVars, cli, backendVars, IInv
  <1>2. CASE Next /\ UNCHANGED backendVars
    BY <1>2, CallsCounted DEF backendVars, IInv
  <1>3. ASSUME Next, NEW p \in Procs, KeepsLocals(p), KeepsVolumes, KeepsCustody
        PROVE  IInv'
    BY <1>3, CallsCounted, LocalsInductive DEF KeepsVolumes, KeepsCustody, IInv
  <1>4. QED
    BY <1>1, <1>2, <1>3, NextKeeps

LEMMA IInvHolds == Spec => []IInv
  BY Initial, Inductive, PTL DEF Spec

(* Data from before: no command of any process, however they interleave,   *)
(* fail, time out or die, removes a volume that carries no token of a run  *)
(* (DockerBackendProvider._rollback, _reclaim_data and _ensure_volume).    *)
THEOREM PreexistingSurvives == Spec => PreexistingDataSurvives
  <1>1. IInv /\ [Next]_localVars =>
           [\A v \in Volumes : docker[v] = Unlabelled => docker'[v] = Unlabelled]_backendVars
    BY NextKeeps DEF KeepsVolumes, localVars
  <1>2. QED
    BY <1>1, IInvHolds, PTL DEF Spec, PreexistingDataSurvives

(* The rollback of a run takes no volume, no database and no bootstrap     *)
(* container of another run (DockerBackendProvider._rollback).             *)
THEOREM RollbackOnlyOwn == Spec => RollbackTakesOwn
  <1> DEFINE Own == \A p \in Procs : RollsBack(p) =>
                       \A x \in Parts \ {"odoo", "network"} : docker'[x] # docker[x] => docker[x] = bjob[p].run
  <1>1. ASSUME IInv, Next, NEW p \in Procs, RollsBack(p)
        PROVE  \A x \in Parts \ {"odoo", "network"} : docker'[x] # docker[x] => docker[x] = bjob[p].run
    <2>1. bpc[p] = "rollback" /\ bjob'[p] # bjob[p]
      BY <1>1 DEF RollsBack
    <2>2. PICK q \in Procs : KeepsLocals(q) /\ KeepsOthers(q)
      BY <1>1, <2>1, NextKeeps DEF backendVars
    <2>3. q = p
      <3>1. ASSUME NEW j, BWith(q, j), q # p PROVE FALSE
        BY <1>1, <2>1, <3>1 DEF BWith, IInv
      <3>2. QED
        BY <2>1, <2>2, <3>1 DEF KeepsLocals
    <2>4. QED
      BY <2>1, <2>2, <2>3 DEF KeepsOthers
  <1>2. IInv /\ [Next]_localVars => [Own]_backendVars
    BY <1>1 DEF localVars
  <1>3. QED
    BY <1>2, IInvHolds, PTL DEF Spec, RollbackTakesOwn

-----------------------------------------------------------------------------
(* The ledger of a run: what it made and has not removed again.            *)
EarlyPositions == {"exists", "image", "network", "network_create", "filestore", "filestore_create", "provision"}

RemovalPositions == {"look", "rm_postgres", "rm_odoo", "rm_network", "consume", "reclaim", "reclaim_fs", "complete"}

(* The parts an entry of the ledger stands for; pgdata when the receipt    *)
(* owns it.                                                                *)
StandsFor(e, volume, x) ==
    \/ e = x
    \/ e = "database" /\ (x = "postgres" \/ (x = "pgdata" /\ volume))

(* A part the locals j answer for: in the ledger, or reported as left. *)
Answers(j, x) == x \in j.left \/ \E i \in DOMAIN j.created : StandsFor(j.created[i], j.volume, x)

(* A run that has not ended well answers for every part it labelled. *)
Accounts(d, l, j) ==
    j.cmd = "run" /\ ~(l = "idle" /\ j.ok) => \A x \in Parts : d[x] = j.run => Answers(j, x)

(* Position l and locals j of process p, when n commands were begun: the   *)
(* run is p's own, pgdata is not claimed before the database is made, and  *)
(* the bootstrap container is the last entry until it is removed.          *)
LocalsOK(p, l, j, n) ==
    /\ l \in BackendPositions
    /\ j.volume \in BOOLEAN
    /\ j.run \in {Absent} \cup ({p} \X (0..n))
    /\ j.cmd = "run" => j.run # Absent
    /\ l \in RemovalPositions => j.cmd # "run"
    /\ l \in EarlyPositions => j.volume = FALSE /\ j.left = {}
    /\ l \in {"idle", "exists"} => j.created = <<>>
    /\ l = "rm_bootstrap" => j.created # <<>> /\ Last(j.created) = "bootstrap"

(* No label is that of a run to come: a process inside a workspace command *)
(* has begun it after its last run.                                        *)
LabelsPast ==
    \A x \in Parts, p \in Procs : docker[x] \in {p} \X Nat =>
        docker[x][2] <= calls /\ (pc[p] # "idle" => docker[x][2] < calls)

OneCommand == \A p \in Procs : pc[p] = "idle" \/ bpc[p] = "idle"

(* The inductive invariant of RollbackComplete. *)
LInv ==
    /\ IInv
    /\ pc = [p \in Procs |-> pc[p]]
    /\ OneCommand
    /\ LabelsPast
    /\ \A p \in Procs : LocalsOK(p, bpc[p], bjob[p], calls)
    /\ "timeout" \notin world => \A p \in Procs : Accounts(docker, bpc[p], bjob[p])

(* What a step of process p in the backend does: to its own locals, and to *)
(* the labels of the parts.                                                *)
OwnLocals(p) ==
    /\ bpc' = [bpc EXCEPT ![p] = bpc'[p]] /\ bjob' = [bjob EXCEPT ![p] = bjob'[p]]
    /\ LocalsOK(p, bpc'[p], bjob'[p], calls')

OwnLabels(p) == \A x \in Parts : docker'[x] \in {docker[x], Absent, Unlabelled, bjob[p].run}

OwnAccount(p) == "timeout" \notin world => Accounts(docker', bpc'[p], bjob'[p])

LEMMA OwnState ==
  ASSUME LInv, NEW p \in Procs
  PROVE  /\ JobOK(bjob[p]) /\ LocalsOK(p, bpc[p], bjob[p], calls)
         /\ "timeout" \notin world => Accounts(docker, bpc[p], bjob[p])
         /\ DOMAIN bpc = Procs /\ DOMAIN bjob = Procs /\ IInv
         /\ docker \in [Parts -> Tokens \cup {Unlabelled}]
  BY DEF LInv, IInv

(* A label on a part is that of at most one process. *)
LEMMA OthersAccount ==
  ASSUME LInv, NEW p \in Procs, NEW q \in Procs \ {p}, OwnLabels(p),
         "timeout" \notin world
  PROVE  Accounts(docker', bpc[q], bjob[q])
  <1>1. Accounts(docker, bpc[q], bjob[q]) /\ LocalsOK(q, bpc[q], bjob[q], calls) /\ LocalsOK(p, bpc[p], bjob[p], calls)
    BY OwnState
  <1>2. SUFFICES ASSUME bjob[q].cmd = "run", ~(bpc[q] = "idle" /\ bjob[q].ok),
                        NEW x \in Parts, docker'[x] = bjob[q].run
                 PROVE  Answers(bjob[q], x)
    BY DEF Accounts
  <1>3. calls \in Nat
    BY DEF LInv, IInv
  <1>4. bjob[q].run \in {q} \X (0..calls)
    BY <1>1, <1>2 DEF LocalsOK
  <1>5. bjob[q].run # Absent /\ bjob[q].run # Unlabelled
    BY <1>3, <1>4, LabelsAssumption
  <1>6. bjob[q].run # bjob[p].run
    BY <1>1, <1>4, <1>5 DEF LocalsOK
  <1>7. docker[x] = bjob[q].run
    BY <1>2, <1>5, <1>6 DEF OwnLabels
  <1>8. QED
    BY <1>1, <1>2, <1>7 DEF Accounts

LEMMA LabelsPastKept ==
  ASSUME LInv, NEW p \in Procs, OwnLabels(p), calls' \in Nat, calls <= calls',
         pc' = [pc EXCEPT ![p] = "idle"]
  PROVE  LabelsPast'
  <1>1. SUFFICES ASSUME NEW x \in Parts, NEW q \in Procs, docker'[x] \in {q} \X Nat
                 PROVE  docker'[x][2] <= calls' /\ (pc'[q] # "idle" => docker'[x][2] < calls')
    BY DEF LabelsPast
  <1>2. calls \in Nat /\ LocalsOK(p, bpc[p], bjob[p], calls)
    BY OwnState DEF LInv, IInv
  <1>3. pc'[q] # "idle" => q # p /\ pc[q] # "idle"
    BY DEF LInv
  <1>4. CASE docker'[x] = docker[x]
    <2>1. docker[x][2] <= calls /\ (pc[q] # "idle" => docker[x][2] < calls) /\ docker[x][2] \in Nat
      BY <1>1, <1>4 DEF LInv, LabelsPast
    <2>2. QED
      BY <1>2, <1>3, <1>4, <2>1
  <1>5. CASE docker'[x] = bjob[p].run
    <2>1. docker'[x] # Absent
      BY <1>1, LabelsAssumption
    <2>2. docker'[x] \in {p} \X (0..calls)
      BY <1>2, <1>5, <2>1 DEF LocalsOK
    <2>3. q = p /\ docker'[x][2] \in 0..calls
      BY <1>1, <2>2
    <2>4. QED
      BY <1>2, <1>3, <2>3
  <1>6. docker'[x] # Absent /\ docker'[x] # Unlabelled
    BY <1>1, LabelsAssumption
  <1>7. QED
    BY <1>4, <1>5, <1>6 DEF OwnLabels

LEMMA LocalsGrow ==
  ASSUME NEW p, NEW l, NEW j, NEW n \in Nat, NEW m \in Nat, n <= m, LocalsOK(p, l, j, n)
  PROVE  LocalsOK(p, l, j, m)
  <1>1. 0..n \subseteq 0..m
    OBVIOUS
  <1>2. j.run \in {Absent} \cup ({p} \X (0..m))
    BY <1>1 DEF LocalsOK
  <1>3. QED
    BY <1>2 DEF LocalsOK

(* A step of one process in the backend keeps the invariant. *)
LEMMA OwnStepInductive ==
  ASSUME LInv, IInv', NEW p \in Procs, OwnLocals(p), OwnLabels(p), OwnAccount(p),
         calls <= calls', pc' = [pc EXCEPT ![p] = "idle"], UNCHANGED world
  PROVE  LInv'
  <1>1. calls \in Nat /\ calls' \in Nat
    BY DEF LInv, IInv
  <1>2. DOMAIN bpc = Procs /\ DOMAIN bjob = Procs
    BY OwnState
  <1>3. \A q \in Procs \ {p} : bpc'[q] = bpc[q] /\ bjob'[q] = bjob[q]
    BY <1>2 DEF OwnLocals
  <1>4. pc' = [q \in Procs |-> pc'[q]] /\ OneCommand'
    BY <1>3 DEF LInv, OneCommand
  <1>5. LabelsPast'
    BY <1>1, LabelsPastKept
  <1>6. \A q \in Procs : LocalsOK(q, bpc'[q], bjob'[q], calls')
    <2>1. ASSUME NEW q \in Procs \ {p} PROVE LocalsOK(q, bpc[q], bjob[q], calls')
      BY <1>1, OwnState, LocalsGrow
    <2>2. QED
      BY <1>3, <2>1 DEF OwnLocals
  <1>7. ASSUME "timeout" \notin world, NEW q \in Procs PROVE Accounts(docker', bpc'[q], bjob'[q])
    BY <1>3, <1>7, OthersAccount DEF OwnAccount
  <1>8. "timeout" \notin world' => \A q \in Procs : Accounts(docker', bpc'[q], bjob'[q])
    BY <1>7
  <1>9. QED
    BY <1>4, <1>5, <1>6, <1>8 DEF LInv

(* A step of the workspace: a process that was idle begins a command. *)
LEMMA WorkspaceSteps ==
  ASSUME NEW p \in Procs, WorkspaceStep(p)
  PROVE  /\ \E l : Goto(p, l)
         /\ Begun \/ (pc[p] # "idle" /\ calls' = calls)
  <1>1. ASSUME BeginCommand(p) \/ BeginUnlock(p) PROVE (\E l : Goto(p, l)) /\ Begun
    BY <1>1 DEF BeginCommand, OnboardCatalog, Configure, Read, MayBegin, BeginUnlock
  <1>2. ASSUME NextEntry(p) PROVE \E l : Goto(p, l)
    BY <1>2 DEF NextEntry, End
  <1>3. ASSUME CreateManifest(p) \/ Resolve(p) \/ WriteLock(p) \/ PlanProject(p) \/ Survey(p)
        PROVE  pc[p] # "idle" /\ \E l : Goto(p, l)
    BY <1>3 DEF CreateManifest, Resolve, WriteLock, PlanProject, Survey, Fail, End
  <1>4. ASSUME Inspect(p) \/ StartClone(p) \/ Fetch(p) \/ SwapOut(p) \/ SwapIn(p) \/ Reap(p)
        PROVE  pc[p] # "idle" /\ \E l : Goto(p, l)
    BY <1>2, <1>4 DEF Inspect, StartClone, Fetch, SwapOut, SwapIn, Reap, Fail, End
  <1>5. ASSUME Verify(p) \/ Check(p) \/ PlanMounts(p) \/ Promote(p)
        PROVE  pc[p] # "idle" /\ \E l : Goto(p, l)
    BY <1>5 DEF Verify, Check, PlanMounts, Promote, Fail, End
  <1>6. ASSUME Crash(p) PROVE (\E l : Goto(p, l)) /\ pc[p] # "idle" /\ calls' = calls
    BY <1>6 DEF Crash, Died
  <1>7. ASSUME Command(p), UNCHANGED cli
        PROVE  (\E l : Goto(p, l)) /\ pc[p] # "idle" /\ calls' = calls
    <2>1. (\E l : Goto(p, l)) /\ pc[p] # "idle"
      BY <1>3, <1>4, <1>5, <1>7 DEF Command
    <2>2. QED
      BY <1>7, <2>1 DEF cli
  <1>8. QED
    BY <1>1, <1>6, <1>7 DEF WorkspaceStep

LEMMA WorkspaceInductive ==
  ASSUME LInv, IInv', UNCHANGED backendVars, UNCHANGED world,
         \/ \E p \in Procs : Alone(p) /\ WorkspaceStep(p)
         \/ WorkspaceEnv
  PROVE  LInv'
  <1>1. calls \in Nat /\ calls' \in Nat /\ calls <= calls'
    BY WorkspaceSteps DEF LInv, IInv, Begun, WorkspaceEnv, Changed
  <1>2. LabelsPast' /\ OneCommand' /\ pc' = [q \in Procs |-> pc'[q]]
    <2>1. CASE UNCHANGED <<pc, calls>>
      BY <2>1 DEF LInv, LabelsPast, OneCommand, backendVars
    <2>2. ASSUME NEW p \in Procs, Alone(p), WorkspaceStep(p)
          PROVE  LabelsPast' /\ OneCommand' /\ pc' = [q \in Procs |-> pc'[q]]
      <3>1. PICK l : pc' = [pc EXCEPT ![p] = l]
        BY <2>2, WorkspaceSteps DEF Goto
      <3>2. pc' = [q \in Procs |-> pc'[q]] /\ \A q \in Procs \ {p} : pc'[q] = pc[q]
        BY <3>1 DEF LInv
      <3>3. OneCommand'
        BY <2>2, <3>2 DEF LInv, OneCommand, Alone, backendVars
      <3>4. LabelsPast'
        <4>1. SUFFICES ASSUME NEW x \in Parts, NEW q \in Procs, docker[x] \in {q} \X Nat
                       PROVE  docker[x][2] <= calls' /\ (pc'[q] # "idle" => docker[x][2] < calls')
          BY DEF LabelsPast, backendVars
        <4>2. /\ docker[x][2] <= calls /\ (pc[q] # "idle" => docker[x][2] < calls)
              /\ docker[x][2] \in Nat
          BY <4>1 DEF LInv, LabelsPast
        <4>3. CASE pc[q] # "idle" \/ pc'[q] = "idle"
          BY <1>1, <4>2, <4>3
        <4>4. CASE pc[q] = "idle" /\ pc'[q] # "idle"
          <5>1. q = p
            BY <3>2, <4>4
          <5>2. calls' = calls + 1
            BY <2>2, <4>4, <5>1, WorkspaceSteps DEF Begun
          <5>3. QED
            BY <1>1, <4>2, <5>2
        <4>5. QED
          BY <4>3, <4>4
      <3>5. QED
        BY <3>2, <3>3, <3>4
    <2>3. CASE WorkspaceEnv
      BY <2>1, <2>3 DEF WorkspaceEnv, Changed
    <2>4. QED
      BY <2>2, <2>3
  <1>3. \A q \in Procs : LocalsOK(q, bpc[q], bjob[q], calls')
    BY <1>1, OwnState, LocalsGrow
  <1>4. UNCHANGED <<docker, bpc, bjob, world>>
    BY DEF backendVars
  <1>5. \A q \in Procs : LocalsOK(q, bpc'[q], bjob'[q], calls')
    BY <1>3, <1>4
  <1>6. "timeout" \notin world' => \A q \in Procs : Accounts(docker', bpc'[q], bjob'[q])
    BY <1>4, OwnState
  <1>7. QED
    BY <1>2, <1>5, <1>6 DEF LInv

-----------------------------------------------------------------------------
(* The steps of a run keep its account.                                    *)
Keeps(p) == OwnLocals(p) /\ OwnLabels(p) /\ OwnAccount(p)

(* Positions a run goes to without a change of its locals. *)
LEMMA GotoLocals ==
  ASSUME LInv, calls' = calls, NEW p \in Procs, NEW l \in BackendPositions, Step(p, l),
         l \notin RemovalPositions \cup {"idle", "exists", "rm_bootstrap"},
         l \in EarlyPositions => bpc[p] \in EarlyPositions
  PROVE  OwnLocals(p) /\ bpc'[p] = l /\ bjob'[p] = bjob[p]
  <1>1. bpc' = [bpc EXCEPT ![p] = l] /\ bjob' = bjob
    BY DEF Step, BGoto
  <1>2. bpc'[p] = l /\ bjob'[p] = bjob[p]
    BY <1>1, OwnState
  <1>3. LocalsOK(p, l, bjob[p], calls)
    BY OwnState DEF LocalsOK
  <1>4. bjob = [bjob EXCEPT ![p] = bjob[p]]
    BY DEF LInv, IInv
  <1>5. QED
    BY <1>1, <1>2, <1>3, <1>4 DEF OwnLocals

LEMMA StepMoves ==
  ASSUME LInv, calls' = calls, NEW p \in Procs, NEW l \in BackendPositions, Step(p, l),
         l \notin RemovalPositions \cup {"idle", "exists", "rm_bootstrap"},
         l \in EarlyPositions => bpc[p] \in EarlyPositions,
         UNCHANGED docker, bpc[p] # "idle"
  PROVE  Keeps(p)
  <1>1. OwnLocals(p) /\ bpc'[p] = l /\ bjob'[p] = bjob[p]
    BY GotoLocals
  <1>2. OwnLabels(p)
    BY DEF OwnLabels
  <1>3. OwnAccount(p)
    BY <1>1, OwnState DEF OwnAccount, Accounts
  <1>4. QED
    BY <1>1, <1>2, <1>3 DEF Keeps

LEMMA RaiseLocals ==
  ASSUME LInv, calls' = calls, NEW p \in Procs, Raise(p)
  PROVE  OwnLocals(p) /\ bpc'[p] = "rollback" /\ bjob'[p] = bjob[p]
  BY GotoLocals DEF Raise, BackendPositions, RemovalPositions, EarlyPositions

LEMMA RaiseMoves ==
  ASSUME LInv, calls' = calls, NEW p \in Procs, Raise(p), UNCHANGED docker, bpc[p] # "idle"
  PROVE  Keeps(p)
  BY StepMoves DEF Raise, BackendPositions, RemovalPositions, EarlyPositions

(* A command ends: a run that failed has nothing left in its ledger. *)
LEMMA EndMoves ==
  ASSUME LInv, calls' = calls, NEW p \in Procs, NEW ok, BEnd(p, ok), UNCHANGED docker, bpc[p] # "idle",
         bjob[p].cmd # "run" \/ ok \/ bjob[p].created = <<>>
  PROVE  Keeps(p)
  <1>1. bpc' = [bpc EXCEPT ![p] = "idle"] /\ bpc'[p] = "idle"
    BY OwnState DEF BEnd, BGoto
  <1>2. bjob' = [bjob EXCEPT ![p] = bjob'[p]]
    BY OwnState DEF BEnd, BWith
  <1>3. bjob'[p] = [NoBackendJob EXCEPT !.cmd = bjob[p].cmd, !.run = bjob[p].run,
                                        !.left = bjob[p].left, !.ok = ok]
    BY OwnState DEF BEnd, BWith
  <1>4. /\ bjob'[p].cmd = bjob[p].cmd /\ bjob'[p].run = bjob[p].run
        /\ bjob'[p].left = bjob[p].left /\ bjob'[p].created = <<>> /\ bjob'[p].volume = FALSE
    BY <1>3 DEF NoBackendJob
  <1>5. ok => bjob'[p].ok
    BY <1>3 DEF NoBackendJob
  <1>6. LocalsOK(p, "idle", bjob'[p], calls)
    BY <1>4, OwnState DEF LocalsOK, BackendPositions, RemovalPositions, EarlyPositions
  <1>7. OwnLocals(p)
    BY <1>1, <1>2, <1>6 DEF OwnLocals
  <1>8. OwnLabels(p)
    BY DEF OwnLabels
  <1>9. OwnAccount(p)
    <2>1. SUFFICES ASSUME "timeout" \notin world, bjob'[p].cmd = "run", ~bjob'[p].ok,
                          NEW x \in Parts, docker'[x] = bjob'[p].run
                   PROVE  Answers(bjob'[p], x)
      BY <1>1 DEF OwnAccount, Accounts
    <2>2. bjob[p].cmd = "run" /\ bjob[p].created = <<>> /\ docker[x] = bjob[p].run
      BY <1>4, <1>5, <2>1
    <2>3. Answers(bjob[p], x)
      BY <2>1, <2>2, OwnState DEF Accounts
    <2>4. x \in bjob[p].left
      BY <2>2, <2>3 DEF Answers
    <2>5. QED
      BY <1>4, <2>4 DEF Answers
  <1>10. QED
    BY <1>7, <1>8, <1>9 DEF Keeps

(* An entry of the ledger is made with the part it stands for. *)
LEMMA EnterLocals ==
  ASSUME LInv, calls' = calls, NEW p \in Procs, NEW e \in LedgerEntries, NEW l \in BackendPositions,
         Enter(p, e), BGoto(p, l),
         l \notin RemovalPositions \cup {"idle", "exists"},
         l \in EarlyPositions => bpc[p] \in EarlyPositions,
         l = "rm_bootstrap" => e = "bootstrap"
  PROVE  /\ OwnLocals(p) /\ bpc'[p] = l
         /\ bjob'[p].cmd = bjob[p].cmd /\ bjob'[p].run = bjob[p].run
         /\ \A x : Answers(bjob[p], x) \/ x = e => Answers(bjob'[p], x)
  <1> DEFINE ledger == bjob[p].created
  <1>1. JobOK(bjob[p]) /\ ledger \in Seq(LedgerEntries)
    BY OwnState DEF JobOK
  <1>2. bpc' = [bpc EXCEPT ![p] = l] /\ bpc'[p] = l
    BY OwnState DEF BGoto
  <1>3. bjob' = [bjob EXCEPT ![p] = bjob'[p]] /\ bjob'[p] = [bjob[p] EXCEPT !.created = Append(ledger, e)]
    BY OwnState DEF Enter, BWith
  <1>4. /\ bjob'[p].cmd = bjob[p].cmd /\ bjob'[p].run = bjob[p].run
        /\ bjob'[p].left = bjob[p].left /\ bjob'[p].created = Append(ledger, e)
        /\ bjob'[p].volume = bjob[p].volume
    BY <1>1, <1>3 DEF JobOK
  <1>5. Append(ledger, e) # <<>> /\ Last(Append(ledger, e)) = e
    BY <1>1 DEF Last
  <1>6. LocalsOK(p, l, bjob'[p], calls)
    BY <1>4, <1>5, OwnState DEF LocalsOK
  <1>7. ASSUME NEW x, Answers(bjob[p], x) \/ x = e PROVE Answers(bjob'[p], x)
    <2>1. /\ \A i \in DOMAIN ledger : i \in DOMAIN Append(ledger, e) /\ Append(ledger, e)[i] = ledger[i]
          /\ Len(ledger) + 1 \in DOMAIN Append(ledger, e) /\ Append(ledger, e)[Len(ledger) + 1] = e
      BY <1>1
    <2>2. QED
      BY <1>4, <1>7, <2>1 DEF Answers, StandsFor
  <1>8. QED
    BY <1>2, <1>3, <1>4, <1>6, <1>7 DEF OwnLocals

(* A part the run makes and enters stays accounted for. *)
LEMMA EnterMoves ==
  ASSUME LInv, calls' = calls, NEW p \in Procs, NEW e \in LedgerEntries, NEW l \in BackendPositions,
         Enter(p, e), BGoto(p, l), bpc[p] # "idle",
         l \notin RemovalPositions \cup {"idle", "exists"},
         l \in EarlyPositions => bpc[p] \in EarlyPositions,
         l = "rm_bootstrap" => e = "bootstrap",
         \A x \in Parts : docker'[x] \in {docker[x], Unlabelled} \/ (x = e /\ docker'[x] = bjob[p].run)
  PROVE  Keeps(p)
  <1>1. /\ OwnLocals(p) /\ bpc'[p] = l
        /\ bjob'[p].cmd = bjob[p].cmd /\ bjob'[p].run = bjob[p].run
        /\ \A x : Answers(bjob[p], x) \/ x = e => Answers(bjob'[p], x)
    BY EnterLocals
  <1>2. OwnLabels(p)
    BY DEF OwnLabels
  <1>3. ASSUME "timeout" \notin world, bjob'[p].cmd = "run", NEW x \in Parts, docker'[x] = bjob'[p].run
        PROVE  Answers(bjob'[p], x)
    <2>1. bjob[p].cmd = "run" /\ docker'[x] = bjob[p].run
      BY <1>1, <1>3
    <2>2. bjob[p].run # Unlabelled
      BY OwnState, TokenIsNoMark DEF JobOK
    <2>3. docker[x] = bjob[p].run \/ x = e
      BY <2>1, <2>2
    <2>4. docker[x] = bjob[p].run => Answers(bjob[p], x)
      BY <1>3, <2>1, OwnState DEF Accounts
    <2>5. QED
      BY <1>1, <2>3, <2>4
  <1>4. OwnAccount(p)
    BY <1>3 DEF OwnAccount, Accounts
  <1>5. QED
    BY <1>1, <1>2, <1>4 DEF Keeps

(* Where docker commands time out no account is kept. *)
LEMMA LateMoves ==
  ASSUME LInv, NEW p \in Procs, Late, OwnLocals(p), OwnLabels(p)
  PROVE  Keeps(p)
  BY DEF Late, Keeps, OwnAccount

LEMMA LookingMoves ==
  ASSUME LInv, calls' = calls, NEW p \in Procs,
         CheckExists(p) \/ EnsureOdooImage(p) \/ EnsureNetwork(p) \/ EnsureVolume(p) \/ WaitOdooHealthy(p)
  PROVE  Keeps(p)
  <1>1. UNCHANGED docker /\ bpc[p] # "idle"
    BY DEF CheckExists, EnsureOdooImage, EnsureNetwork, EnsureVolume, WaitOdooHealthy, dockerVars
  <1>2. ASSUME CheckExists(p) PROVE Keeps(p)
    <2>1. bjob[p].created = <<>>
      BY <1>2, OwnState DEF CheckExists, LocalsOK
    <2>2. Step(p, "image") \/ BEnd(p, FALSE)
      BY <1>2 DEF CheckExists
    <2>3. bpc[p] = "exists"
      BY <1>2 DEF CheckExists
    <2>4. QED
      BY <1>1, <2>1, <2>2, <2>3, StepMoves, EndMoves
         DEF BackendPositions, RemovalPositions, EarlyPositions
  <1>3. ASSUME Raise(p) PROVE Keeps(p)
    BY <1>1, <1>3, RaiseMoves
  <1>4. ASSUME NEW l \in {"network", "filestore", "network_create", "provision", "filestore_create"},
               Step(p, l), bpc[p] \in EarlyPositions
        PROVE  Keeps(p)
    BY <1>1, <1>4, StepMoves DEF BackendPositions, RemovalPositions, EarlyPositions
  <1>5. ASSUME Step(p, "record") PROVE Keeps(p)
    BY <1>1, <1>5, StepMoves DEF BackendPositions, RemovalPositions, EarlyPositions
  <1>6. QED
    BY <1>2, <1>3, <1>4, <1>5
       DEF EnsureOdooImage, EnsureNetwork, EnsureVolume, WaitOdooHealthy, EarlyPositions

LEMMA CreateNetworkMoves ==
  ASSUME LInv, calls' = calls, NEW p \in Procs, CreateNetwork(p)
  PROVE  Keeps(p)
  <1>1. bpc[p] = "network_create"
    BY DEF CreateNetwork
  <1>2. ASSUME Put("network", bjob[p].run)
        PROVE  \A x \in Parts : docker'[x] = docker[x] \/ (x = "network" /\ docker'[x] = bjob[p].run)
    BY <1>2, OwnState DEF Put
  <1>3. ASSUME Put("network", bjob[p].run), BGoto(p, "filestore"), Enter(p, "network") PROVE Keeps(p)
    BY <1>1, <1>2, <1>3, EnterMoves DEF LedgerEntries, BackendPositions, RemovalPositions, EarlyPositions
  <1>4. ASSUME UNCHANGED docker, Raise(p) PROVE Keeps(p)
    BY <1>1, <1>4, RaiseMoves
  <1>5. ASSUME Late, Put("network", bjob[p].run), Raise(p) PROVE Keeps(p)
    BY <1>2, <1>5, RaiseLocals, LateMoves DEF OwnLabels
  <1>6. QED
    BY <1>3, <1>4, <1>5 DEF CreateNetwork

LEMMA CreateVolumeMoves ==
  ASSUME LInv, calls' = calls, NEW p \in Procs, CreateVolume(p)
  PROVE  Keeps(p)
  <1> DEFINE made == IF Exists("filestore") THEN docker["filestore"] ELSE bjob[p].run
  <1>1. bpc[p] = "filestore_create"
    BY DEF CreateVolume
  <1>2. ASSUME Put("filestore", made)
        PROVE  \A x \in Parts : docker'[x] = docker[x] \/ (x = "filestore" /\ docker'[x] = bjob[p].run)
    BY <1>2, OwnState DEF Put
  <1>3. ASSUME Put("filestore", made), Enter(p, "filestore"), BGoto(p, "provision") \/ BGoto(p, "rollback")
        PROVE  Keeps(p)
    <2>1. PICK l \in {"provision", "rollback"} : BGoto(p, l)
      BY <1>3
    <2>2. QED
      BY <1>1, <1>2, <1>3, <2>1, EnterMoves DEF LedgerEntries, BackendPositions, RemovalPositions, EarlyPositions
  <1>4. ASSUME UNCHANGED docker, Raise(p) PROVE Keeps(p)
    BY <1>1, <1>4, RaiseMoves
  <1>5. ASSUME Late, Put("filestore", made), Raise(p) PROVE Keeps(p)
    BY <1>2, <1>5, RaiseLocals, LateMoves DEF OwnLabels
  <1>6. QED
    BY <1>3, <1>4, <1>5 DEF CreateVolume

(* The receipt claims pgdata exactly when this run made it. *)
LEMMA ProvisionMoves ==
  ASSUME LInv, calls' = calls, NEW p \in Procs, Provision(p)
  PROVE  Keeps(p)
  <1> DEFINE run == bjob[p].run
             fresh == ~Exists("pgdata")
             ledger == bjob[p].created
  <1>1. bpc[p] = "provision"
    BY DEF Provision
  <1>2. ASSUME UNCHANGED docker, Raise(p) PROVE Keeps(p)
    BY <1>1, <1>2, RaiseMoves
  <1>3. ASSUME docker' = [docker EXCEPT !["postgres"] = run, !["pgdata"] = IF fresh THEN run ELSE @],
               BGoto(p, IF fresh THEN "bootstrap" ELSE "odoo"),
               BWith(p, [bjob[p] EXCEPT !.created = Append(@, "database"), !.volume = fresh])
        PROVE  Keeps(p)
    <2>1. JobOK(bjob[p]) /\ ledger \in Seq(LedgerEntries)
      BY OwnState DEF JobOK
    <2>2. bpc' = [bpc EXCEPT ![p] = bpc'[p]] /\ bpc'[p] \in {"bootstrap", "odoo"}
      BY <1>3, OwnState DEF BGoto
    <2>3. /\ bjob' = [bjob EXCEPT ![p] = bjob'[p]]
          /\ bjob'[p] = [bjob[p] EXCEPT !.created = Append(@, "database"), !.volume = fresh]
      BY <1>3, OwnState DEF BWith
    <2>4. /\ bjob'[p].cmd = bjob[p].cmd /\ bjob'[p].run = run
          /\ bjob'[p].left = bjob[p].left /\ bjob'[p].created = Append(ledger, "database")
      BY <2>1, <2>3 DEF JobOK
    <2>5. bjob'[p].volume = fresh
      BY <2>1, <2>3 DEF JobOK
    <2>6. LocalsOK(p, bpc'[p], bjob'[p], calls)
      BY <2>2, <2>4, <2>5, OwnState DEF LocalsOK, BackendPositions, RemovalPositions, EarlyPositions
    <2>7. OwnLocals(p)
      BY <2>2, <2>3, <2>6 DEF OwnLocals
    <2>8. \A x \in Parts : \/ docker'[x] = docker[x]
                           \/ docker'[x] = run /\ (x = "postgres" \/ (x = "pgdata" /\ fresh))
      BY <1>3, OwnState
    <2>9. OwnLabels(p)
      BY <2>8 DEF OwnLabels
    <2>10. ASSUME "timeout" \notin world, bjob'[p].cmd = "run", NEW x \in Parts, docker'[x] = bjob'[p].run
           PROVE  Answers(bjob'[p], x)
      <3>1. /\ \A i \in DOMAIN ledger : /\ i \in DOMAIN Append(ledger, "database")
                                        /\ Append(ledger, "database")[i] = ledger[i]
            /\ Len(ledger) + 1 \in DOMAIN Append(ledger, "database")
            /\ Append(ledger, "database")[Len(ledger) + 1] = "database"
        BY <2>1
      <3>2. CASE x = "postgres" \/ (x = "pgdata" /\ fresh)
        BY <2>4, <2>5, <3>1, <3>2 DEF Answers, StandsFor
      <3>3. CASE docker[x] = run /\ ~(x = "postgres" \/ (x = "pgdata" /\ fresh))
        <4>1. Answers(bjob[p], x)
          BY <2>4, <2>10, <3>3, <1>1, OwnState DEF Accounts
        <4>2. bjob[p].volume = FALSE /\ bjob[p].left = {}
          BY <1>1, OwnState DEF LocalsOK, EarlyPositions
        <4>3. PICK i \in DOMAIN ledger : ledger[i] = x
          BY <3>3, <4>1, <4>2 DEF Answers, StandsFor
        <4>4. QED
          BY <2>4, <3>1, <4>3 DEF Answers, StandsFor
      <3>4. QED
        BY <2>4, <2>8, <2>10, <3>2, <3>3
    <2>11. OwnAccount(p)
      BY <2>10 DEF OwnAccount, Accounts
    <2>12. QED
      BY <2>7, <2>9, <2>11 DEF Keeps
  <1>4. QED
    BY <1>2, <1>3 DEF Provision, dockerVars

LEMMA RunBootstrapMoves ==
  ASSUME LInv, calls' = calls, NEW p \in Procs, RunBootstrap(p)
  PROVE  Keeps(p)
  <1>1. bpc[p] = "bootstrap"
    BY DEF RunBootstrap
  <1>2. ASSUME Put("bootstrap", bjob[p].run)
        PROVE  \A x \in Parts : docker'[x] = docker[x] \/ (x = "bootstrap" /\ docker'[x] = bjob[p].run)
    BY <1>2, OwnState DEF Put
  <1>3. ASSUME Put("bootstrap", bjob[p].run), Enter(p, "bootstrap"),
               NEW l \in {"rm_bootstrap", "rollback"}, BGoto(p, l)
        PROVE  Keeps(p)
    BY <1>1, <1>2, <1>3, EnterMoves DEF LedgerEntries, BackendPositions, RemovalPositions, EarlyPositions
  <1>4. ASSUME UNCHANGED docker, Raise(p) PROVE Keeps(p)
    BY <1>1, <1>4, RaiseMoves
  <1>5. ASSUME Late, Put("bootstrap", bjob[p].run), BGoto(p, "rollback"), UNCHANGED bjob PROVE Keeps(p)
    BY <1>2, <1>5, RaiseLocals, LateMoves DEF OwnLabels, Raise, Step
  <1>6. QED
    BY <1>3, <1>4, <1>5 DEF RunBootstrap, dockerVars

(* The ledger without its last entry. *)
LEMMA FrontAnswers ==
  ASSUME NEW s \in Seq(LedgerEntries), s # <<>>, NEW i \in DOMAIN s, s[i] # Last(s)
  PROVE  i \in DOMAIN Front(s) /\ Front(s)[i] = s[i]
  BY DEF Front, Last

LEMMA RemoveBootstrapMoves ==
  ASSUME LInv, calls' = calls, NEW p \in Procs, RemoveBootstrap(p)
  PROVE  Keeps(p)
  <1> DEFINE run == bjob[p].run
             own == IF docker["bootstrap"] = run THEN {"bootstrap"} ELSE {}
             ledger == bjob[p].created
  <1>1. bpc[p] = "rm_bootstrap"
    BY DEF RemoveBootstrap
  <1>2. ASSUME Vanish(own)
        PROVE  /\ OwnLabels(p)
               /\ \A x \in Parts : docker'[x] = run /\ run # Absent => x # "bootstrap" /\ docker[x] = run
    BY <1>2 DEF Vanish, OwnLabels
  <1>3. ASSUME UNCHANGED docker, Raise(p) PROVE Keeps(p)
    BY <1>1, <1>3, RaiseMoves
  <1>4. ASSUME Late, Vanish(own), Raise(p) PROVE Keeps(p)
    BY <1>2, <1>4, RaiseLocals, LateMoves
  <1>5. ASSUME Vanish(own), BGoto(p, "odoo"), BWith(p, [bjob[p] EXCEPT !.created = Front(@)])
        PROVE  Keeps(p)
    <2>1. JobOK(bjob[p]) /\ ledger \in Seq(LedgerEntries) /\ ledger # <<>> /\ Last(ledger) = "bootstrap"
      BY <1>1, OwnState DEF JobOK, LocalsOK
    <2>2. bpc' = [bpc EXCEPT ![p] = bpc'[p]] /\ bpc'[p] = "odoo"
      BY <1>5, OwnState DEF BGoto
    <2>3. bjob' = [bjob EXCEPT ![p] = bjob'[p]] /\ bjob'[p] = [bjob[p] EXCEPT !.created = Front(ledger)]
      BY <1>5, OwnState DEF BWith
    <2>4. /\ bjob'[p].cmd = bjob[p].cmd /\ bjob'[p].run = run /\ bjob'[p].left = bjob[p].left
          /\ bjob'[p].created = Front(ledger) /\ bjob'[p].volume = bjob[p].volume
      BY <2>1, <2>3 DEF JobOK
    <2>5. LocalsOK(p, "odoo", bjob'[p], calls)
      <3>1. /\ bjob[p].volume \in BOOLEAN /\ run \in {Absent} \cup ({p} \X (0..calls))
            /\ bjob[p].cmd = "run" => run # Absent
        BY OwnState DEF LocalsOK
      <3>2. /\ "odoo" \in BackendPositions
            /\ "odoo" \notin RemovalPositions \cup EarlyPositions \cup {"idle", "exists", "rm_bootstrap"}
        BY DEF BackendPositions, RemovalPositions, EarlyPositions
      <3>3. QED
        BY <2>4, <3>1, <3>2 DEF LocalsOK
    <2>6. OwnLocals(p)
      BY <2>2, <2>3, <2>5 DEF OwnLocals
    <2>7. ASSUME "timeout" \notin world, bjob'[p].cmd = "run", NEW x \in Parts, docker'[x] = bjob'[p].run
          PROVE  Answers(bjob'[p], x)
      <3>1. run # Absent /\ bjob[p].cmd = "run"
        BY <2>4, <2>7, OwnState DEF LocalsOK
      <3>2. x # "bootstrap" /\ docker[x] = run
        BY <1>2, <1>5, <2>4, <2>7, <3>1
      <3>3. Answers(bjob[p], x)
        BY <1>1, <2>7, <3>1, <3>2, OwnState DEF Accounts
      <3>4. CASE x \in bjob[p].left
        BY <2>4, <3>4 DEF Answers
      <3>5. ASSUME NEW i \in DOMAIN ledger, StandsFor(ledger[i], bjob[p].volume, x)
            PROVE  Answers(bjob'[p], x)
        <4>1. ledger[i] # "bootstrap"
          BY <3>2, <3>5 DEF StandsFor
        <4>2. i \in DOMAIN Front(ledger) /\ Front(ledger)[i] = ledger[i]
          BY <2>1, <4>1, FrontAnswers
        <4>3. QED
          BY <2>4, <3>5, <4>2 DEF Answers
      <3>6. QED
        BY <3>3, <3>4, <3>5 DEF Answers
    <2>8. OwnAccount(p)
      BY <2>7 DEF OwnAccount, Accounts
    <2>9. QED
      BY <1>2, <1>5, <2>6, <2>8 DEF Keeps
  <1>6. QED
    BY <1>3, <1>4, <1>5 DEF RemoveBootstrap, dockerVars

LEMMA RunContainerMoves ==
  ASSUME LInv, calls' = calls, NEW p \in Procs, RunContainer(p)
  PROVE  Keeps(p)
  <1> DEFINE with == [docker EXCEPT !["odoo"] = bjob[p].run,
                                    !["filestore"] = IF Exists("filestore") THEN @ ELSE Unlabelled]
  <1>1. bpc[p] = "odoo"
    BY DEF RunContainer
  <1>2. ASSUME docker' = with
        PROVE  \A x \in Parts : docker'[x] \in {docker[x], Unlabelled} \/ (x = "odoo" /\ docker'[x] = bjob[p].run)
    BY <1>2, OwnState
  <1>3. ASSUME docker' = with, Enter(p, "odoo"), BGoto(p, "health") PROVE Keeps(p)
    BY <1>1, <1>2, <1>3, EnterMoves DEF LedgerEntries, BackendPositions, RemovalPositions, EarlyPositions
  <1>4. ASSUME UNCHANGED docker, Raise(p) PROVE Keeps(p)
    BY <1>1, <1>4, RaiseMoves
  <1>5. ASSUME Late, docker' = with, Raise(p) PROVE Keeps(p)
    BY <1>2, <1>5, RaiseLocals, LateMoves DEF OwnLabels
  <1>6. QED
    BY <1>3, <1>4, <1>5 DEF RunContainer, dockerVars

LEMMA RecordCustodyMoves ==
  ASSUME LInv, calls' = calls, NEW p \in Procs, RecordCustody(p)
  PROVE  Keeps(p)
  <1>1. bpc[p] # "idle" /\ UNCHANGED docker
    BY DEF RecordCustody, dockerVars
  <1>2. BEnd(p, TRUE) \/ Raise(p)
    BY DEF RecordCustody
  <1>3. QED
    BY <1>1, <1>2, EndMoves, RaiseMoves

(* A teardown removes the parts its entry stands for, or reports them. *)
LEMMA TeardownAccounts ==
  ASSUME NEW p, NEW e \in LedgerEntries, NEW gone, NEW left, Teardown(p, e, gone, left),
         "timeout" \notin world, bjob[p].volume \in BOOLEAN, bjob[p].run # Absent,
         NEW x \in Parts, docker[x] = bjob[p].run, StandsFor(e, bjob[p].volume, x)
  PROVE  x \in gone \cup left
  <1>1. ~Late
    BY DEF Late
  <1>2. Exists(x)
    BY DEF Exists
  <1>3. CASE e = "database"
    <2>1. x \in {"postgres", "pgdata"} /\ (x = "pgdata" => bjob[p].volume)
      BY <1>3 DEF StandsFor, Parts, Containers, Volumes
    <2>2. left = CleanupLeaves(bjob[p].run, bjob[p].volume) \cup (CleanupRemoves(bjob[p].run, bjob[p].volume) \ gone)
      BY <1>1, <1>3 DEF Teardown, Cleanup
    <2>3. CASE x \in CleanupRemoves(bjob[p].run, bjob[p].volume)
      BY <2>2, <2>3
    <2>4. CASE x \notin CleanupRemoves(bjob[p].run, bjob[p].volume)
      BY <1>2, <2>1, <2>2, <2>4 DEF CleanupLeaves
    <2>5. QED
      BY <2>3, <2>4
  <1>4. CASE e # "database"
    <2>1. x = e
      BY <1>4 DEF StandsFor
    <2>2. left = IF gone = {e} \/ (e \in Containers /\ RollbackRemoves(p, e) = {}) THEN {} ELSE {e}
      BY <1>1, <1>4 DEF Teardown
    <2>3. CASE gone = {e}
      BY <2>1, <2>3
    <2>4. CASE gone # {e} /\ e \notin Containers
      BY <2>1, <2>2, <2>4
    <2>5. CASE gone # {e} /\ e \in Containers
      <3>1. ~Held(e)
        BY <2>5 DEF Held, Containers
      <3>2. RollbackRemoves(p, e) = {e}
        BY <1>2, <1>4, <2>1, <3>1 DEF RollbackRemoves
      <3>3. QED
        BY <2>1, <2>2, <2>5, <3>2
    <2>6. QED
      BY <2>3, <2>4, <2>5
  <1>5. QED
    BY <1>3, <1>4

LEMMA RollbackMoves ==
  ASSUME LInv, calls' = calls, NEW p \in Procs, Rollback(p)
  PROVE  Keeps(p)
  <1> DEFINE run == bjob[p].run
             ledger == bjob[p].created
  <1>1. bpc[p] = "rollback"
    BY DEF Rollback
  <1>2. ASSUME ledger = <<>>, BEnd(p, FALSE), UNCHANGED docker PROVE Keeps(p)
    BY <1>1, <1>2, EndMoves
  <1>3. ASSUME ledger # <<>>, UNCHANGED bpc, NEW gone, NEW left,
               Teardown(p, Last(ledger), gone, left), Vanish(gone),
               BWith(p, [bjob[p] EXCEPT !.created = Front(@), !.left = @ \cup left])
        PROVE  Keeps(p)
    <2>1. /\ JobOK(bjob[p]) /\ ledger \in Seq(LedgerEntries) /\ Last(ledger) \in LedgerEntries
          /\ bjob[p].volume \in BOOLEAN
      BY <1>3, OwnState, FrontInLedger DEF JobOK, LocalsOK
    <2>2. bpc' = [bpc EXCEPT ![p] = bpc'[p]] /\ bpc'[p] = "rollback"
      BY <1>1, <1>3 DEF LInv, IInv
    <2>3. /\ bjob' = [bjob EXCEPT ![p] = bjob'[p]]
          /\ bjob'[p] = [bjob[p] EXCEPT !.created = Front(ledger), !.left = bjob[p].left \cup left]
      BY <1>3, <2>1, OwnState DEF BWith, JobOK
    <2>4. /\ bjob'[p].cmd = bjob[p].cmd /\ bjob'[p].run = run /\ bjob'[p].left = bjob[p].left \cup left
          /\ bjob'[p].created = Front(ledger) /\ bjob'[p].volume = bjob[p].volume
      BY <2>1, <2>3 DEF JobOK
    <2>5. LocalsOK(p, "rollback", bjob'[p], calls)
      <3>1. /\ bjob[p].volume \in BOOLEAN /\ run \in {Absent} \cup ({p} \X (0..calls))
            /\ bjob[p].cmd = "run" => run # Absent
        BY OwnState DEF LocalsOK
      <3>2. /\ "rollback" \in BackendPositions
            /\ "rollback" \notin RemovalPositions \cup EarlyPositions \cup {"idle", "exists", "rm_bootstrap"}
        BY DEF BackendPositions, RemovalPositions, EarlyPositions
      <3>3. QED
        BY <2>4, <3>1, <3>2 DEF LocalsOK
    <2>6. OwnLocals(p)
      BY <2>2, <2>3, <2>5 DEF OwnLocals
    <2>7. OwnLabels(p)
      BY <1>3 DEF Vanish, OwnLabels
    <2>8. ASSUME "timeout" \notin world, bjob'[p].cmd = "run", NEW x \in Parts, docker'[x] = bjob'[p].run
          PROVE  Answers(bjob'[p], x)
      <3>1. run # Absent /\ bjob[p].cmd = "run"
        BY <2>4, <2>8, OwnState DEF LocalsOK
      <3>2. x \notin gone /\ docker[x] = run
        BY <1>3, <2>4, <2>8, <3>1 DEF Vanish
      <3>3. Answers(bjob[p], x)
        BY <1>1, <2>8, <3>1, <3>2, OwnState DEF Accounts
      <3>4. CASE x \in bjob[p].left
        BY <2>4, <3>4 DEF Answers
      <3>5. ASSUME NEW i \in DOMAIN ledger, StandsFor(ledger[i], bjob[p].volume, x)
            PROVE  Answers(bjob'[p], x)
        <4>1. CASE ledger[i] = Last(ledger)
          <5>1. StandsFor(Last(ledger), bjob[p].volume, x)
            BY <3>5, <4>1
          <5>2. x \in gone \cup left
            BY <1>3, <2>1, <2>8, <3>1, <3>2, <5>1, TeardownAccounts
          <5>3. QED
            BY <2>4, <3>2, <5>2 DEF Answers
        <4>2. CASE ledger[i] # Last(ledger)
          <5>1. i \in DOMAIN Front(ledger) /\ Front(ledger)[i] = ledger[i]
            BY <1>3, <2>1, <4>2, FrontAnswers
          <5>2. QED
            BY <2>4, <3>5, <5>1 DEF Answers
        <4>3. QED
          BY <4>1, <4>2
      <3>6. QED
        BY <3>3, <3>4, <3>5 DEF Answers
    <2>9. OwnAccount(p)
      BY <2>8 DEF OwnAccount, Accounts
    <2>10. QED
      BY <2>6, <2>7, <2>9 DEF Keeps
  <1>4. QED
    BY <1>2, <1>3 DEF Rollback, dockerVars

-----------------------------------------------------------------------------
(* The steps of stop and destroy label nothing.                            *)
LEMMA VanishLabels ==
  ASSUME NEW gone, Vanish(gone), NEW p
  PROVE  OwnLabels(p)
  BY DEF Vanish, OwnLabels

LEMMA RemovalGoes ==
  ASSUME LInv, calls' = calls, NEW p \in Procs, bpc[p] \in RemovalPositions, OwnLabels(p),
         NEW l \in RemovalPositions, BGoto(p, l), NEW j, BWith(p, j),
         j.cmd = bjob[p].cmd, j.run = bjob[p].run, j.volume = bjob[p].volume
  PROVE  Keeps(p)
  <1>1. bpc' = [bpc EXCEPT ![p] = bpc'[p]] /\ bpc'[p] = l
    BY OwnState DEF BGoto
  <1>2. bjob' = [bjob EXCEPT ![p] = bjob'[p]] /\ bjob'[p] = j
    BY OwnState DEF BWith
  <1>3. bjob[p].cmd # "run"
    BY OwnState DEF LocalsOK
  <1>4. LocalsOK(p, l, j, calls)
    BY <1>3, OwnState DEF LocalsOK, BackendPositions, RemovalPositions, EarlyPositions
  <1>5. QED
    BY <1>1, <1>2, <1>3, <1>4 DEF Keeps, OwnLocals, OwnAccount, Accounts

LEMMA RemovalEnds ==
  ASSUME LInv, calls' = calls, NEW p \in Procs, bpc[p] \in RemovalPositions, OwnLabels(p),
         NEW ok, BEnd(p, ok)
  PROVE  Keeps(p)
  <1>1. bpc' = [bpc EXCEPT ![p] = bpc'[p]] /\ bpc'[p] = "idle"
    BY OwnState DEF BEnd, BGoto
  <1>2. bjob' = [bjob EXCEPT ![p] = bjob'[p]]
    BY OwnState DEF BEnd, BWith
  <1>3. /\ bjob'[p].cmd = bjob[p].cmd /\ bjob'[p].run = bjob[p].run
        /\ bjob'[p].created = <<>> /\ bjob'[p].volume = FALSE
    BY OwnState DEF BEnd, BWith, NoBackendJob
  <1>4. bjob[p].cmd # "run"
    BY OwnState DEF LocalsOK
  <1>5. LocalsOK(p, "idle", bjob'[p], calls)
    BY <1>3, <1>4, OwnState DEF LocalsOK, BackendPositions, RemovalPositions, EarlyPositions
  <1>6. QED
    BY <1>1, <1>2, <1>3, <1>4, <1>5 DEF Keeps, OwnLocals, OwnAccount, Accounts

LEMMA LookMoves ==
  ASSUME LInv, calls' = calls, NEW p \in Procs, LookAtRuntime(p)
  PROVE  Keeps(p)
  <1>1. bpc[p] \in RemovalPositions /\ OwnLabels(p)
    BY DEF LookAtRuntime, RemovalPositions, dockerVars, OwnLabels
  <1>2. ASSUME BEnd(p, FALSE) PROVE Keeps(p)
    BY <1>1, <1>2, RemovalEnds
  <1>3. ASSUME NEW found, BGoto(p, "rm_postgres"), BWith(p, [bjob[p] EXCEPT !.found = found]) PROVE Keeps(p)
    <2> DEFINE j == [bjob[p] EXCEPT !.found = found]
    <2>1. j.cmd = bjob[p].cmd /\ j.run = bjob[p].run /\ j.volume = bjob[p].volume
      BY OwnState DEF JobOK
    <2>2. "rm_postgres" \in RemovalPositions
      BY DEF RemovalPositions
    <2> HIDE DEF j
    <2>3. BWith(p, j)
      BY <1>3 DEF j
    <2>4. QED
      BY <1>1, <1>3, <2>1, <2>2, <2>3, RemovalGoes
  <1>4. QED
    BY <1>2, <1>3 DEF LookAtRuntime

(* A step of the removal that notes an outcome. *)
LEMMA OutcomeMoves ==
  ASSUME LInv, calls' = calls, NEW p \in Procs, bpc[p] \in RemovalPositions, OwnLabels(p),
         NEW l \in RemovalPositions, BGoto(p, l), NEW outcome, BWith(p, [bjob[p] EXCEPT !.outcome = outcome])
  PROVE  Keeps(p)
  <1> DEFINE j == [bjob[p] EXCEPT !.outcome = outcome]
  <1>1. j.cmd = bjob[p].cmd /\ j.run = bjob[p].run /\ j.volume = bjob[p].volume
    BY OwnState DEF JobOK
  <1>2. BWith(p, j)
    OBVIOUS
  <1> HIDE DEF j
  <1>3. QED
    BY <1>1, <1>2, RemovalGoes

LEMMA RemoveRuntimeMoves ==
  ASSUME LInv, calls' = calls, NEW p \in Procs, NEW i \in 1..3, RemoveRuntime(p, i)
  PROVE  Keeps(p)
  <1> DEFINE Done(o) == LET outcome == Append(bjob[p].outcome, o)
                        IN  IF i = 3 THEN AfterRuntime(p, outcome)
                            ELSE /\ BGoto(p, <<"rm_odoo", "rm_network">>[i])
                                 /\ BWith(p, [bjob[p] EXCEPT !.outcome = outcome])
  <1>1. bpc[p] \in RemovalPositions
    BY DEF RemoveRuntime, RemovalPositions
  <1>2. UNCHANGED docker \/ Vanish({Runtime[i]})
    BY DEF RemoveRuntime, dockerVars
  <1>3. OwnLabels(p)
    BY <1>2, VanishLabels DEF OwnLabels
  <1>4. ASSUME NEW ok, BEnd(p, ok) PROVE Keeps(p)
    BY <1>1, <1>3, <1>4, RemovalEnds
  <1>5. ASSUME NEW l \in RemovalPositions, BGoto(p, l),
               NEW outcome, BWith(p, [bjob[p] EXCEPT !.outcome = outcome])
        PROVE  Keeps(p)
    BY <1>1, <1>3, <1>5, OutcomeMoves
  <1>6. ASSUME NEW outcome, AfterRuntime(p, outcome) PROVE Keeps(p)
    BY <1>4, <1>5, <1>6 DEF AfterRuntime, RemovalPositions
  <1>7. ASSUME NEW o, Done(o) PROVE Keeps(p)
    <2>1. CASE i = 3
      BY <1>6, <1>7, <2>1
    <2>2. CASE i # 3
      <3>1. <<"rm_odoo", "rm_network">>[i] \in RemovalPositions
        BY <2>2 DEF RemovalPositions
      <3>2. QED
        BY <1>5, <1>7, <2>2, <3>1
    <2>3. QED
      BY <2>1, <2>2
  <1>8. (\E o : Done(o)) \/ BEnd(p, FALSE)
    BY DEF RemoveRuntime
  <1>9. QED
    BY <1>4, <1>7, <1>8

LEMMA ReclaimMoves ==
  ASSUME LInv, calls' = calls, NEW p \in Procs,
         \/ Consume(p) \/ ReclaimDatabase(p) \/ ReclaimFilestore(p) \/ ReclaimRaises(p)
         \/ CompleteReclaim(p)
  PROVE  Keeps(p)
  <1>1. bpc[p] \in RemovalPositions
    BY DEF Consume, ReclaimDatabase, ReclaimFilestore, ReclaimRaises, CompleteReclaim, RemovalPositions
  <1>2. OwnLabels(p)
    <2>1. UNCHANGED docker \/ \E gone : Vanish(gone)
      BY DEF Consume, ReclaimDatabase, ReclaimFilestore, ReclaimRaises, CompleteReclaim, dockerVars
    <2>2. QED
      BY <2>1, VanishLabels DEF OwnLabels
  <1>3. ASSUME NEW ok, BEnd(p, ok) PROVE Keeps(p)
    BY <1>1, <1>2, <1>3, RemovalEnds
  <1>4. ASSUME NEW l \in RemovalPositions, BGoto(p, l), NEW j, BWith(p, j),
               j.cmd = bjob[p].cmd, j.run = bjob[p].run, j.volume = bjob[p].volume
        PROVE  Keeps(p)
    BY <1>1, <1>2, <1>4, RemovalGoes
  <1>5. ASSUME Consume(p) PROVE Keeps(p)
    <2>1. CASE \E ok : BEnd(p, ok)
      BY <1>3, <2>1
    <2>2. CASE BGoto(p, "reclaim") /\ BWith(p, [bjob[p] EXCEPT !.proof = custody])
      <3> DEFINE j == [bjob[p] EXCEPT !.proof = custody]
      <3>1. j.cmd = bjob[p].cmd /\ j.run = bjob[p].run /\ j.volume = bjob[p].volume
        BY OwnState DEF JobOK
      <3>2. "reclaim" \in RemovalPositions
        BY DEF RemovalPositions
      <3>3. BWith(p, j) /\ BGoto(p, "reclaim")
        BY <2>2
      <3> HIDE DEF j
      <3>4. QED
        BY <1>4, <3>1, <3>2, <3>3
    <2>3. QED
      BY <1>5, <2>1, <2>2 DEF Consume
  <1>6. ASSUME ReclaimDatabase(p) PROVE Keeps(p)
    <2>1. PICK outcome, left : BWith(p, [bjob[p] EXCEPT !.outcome = outcome, !.left = left])
      BY <1>6 DEF ReclaimDatabase
    <2> DEFINE j == [bjob[p] EXCEPT !.outcome = outcome, !.left = left]
    <2>2. j.cmd = bjob[p].cmd /\ j.run = bjob[p].run /\ j.volume = bjob[p].volume
      BY OwnState DEF JobOK
    <2>3. "reclaim_fs" \in RemovalPositions /\ BGoto(p, "reclaim_fs")
      BY <1>6 DEF RemovalPositions, ReclaimDatabase
    <2>4. BWith(p, j)
      BY <2>1
    <2> HIDE DEF j
    <2>5. QED
      BY <1>4, <2>2, <2>3, <2>4
  <1>7. ASSUME ReclaimFilestore(p) PROVE Keeps(p)
    <2>1. PICK outcome : BGoto(p, "complete") /\ BWith(p, [bjob[p] EXCEPT !.outcome = outcome])
      BY <1>7 DEF ReclaimFilestore
    <2>2. "complete" \in RemovalPositions
      BY DEF RemovalPositions
    <2>3. QED
      BY <1>1, <1>2, <2>1, <2>2, OutcomeMoves
  <1>8. ASSUME CompleteReclaim(p) PROVE Keeps(p)
    BY <1>3, <1>8 DEF CompleteReclaim
  <1>9. ASSUME ReclaimRaises(p) PROVE Keeps(p)
    BY <1>3, <1>9 DEF ReclaimRaises
  <1>10. QED
    BY <1>5, <1>6, <1>7, <1>8, <1>9

-----------------------------------------------------------------------------
(* A command begins, or its process dies.                                  *)
LEMMA StartRunMoves ==
  ASSUME LInv, NEW p \in Procs, NEW STATE view, StartRun(p, view),
         \/ calls' = calls + 1
         \/ calls' = calls /\ pc[p] # "idle"
  PROVE  Keeps(p)
  <1> DEFINE run == <<p, calls'>>
  <1>1. calls \in Nat /\ calls' \in Nat
    BY DEF LInv, IInv
  <1>2. bpc' = [bpc EXCEPT ![p] = bpc'[p]] /\ bpc'[p] = "exists" /\ UNCHANGED docker
    BY OwnState DEF StartRun, BGoto, dockerVars
  <1>3. /\ bjob' = [bjob EXCEPT ![p] = bjob'[p]]
        /\ bjob'[p] = [NoBackendJob EXCEPT !.cmd = "run", !.run = run, !.view = view]
    BY OwnState DEF StartRun, BWith
  <1>4. /\ bjob'[p].cmd = "run" /\ bjob'[p].run = run /\ bjob'[p].left = {}
        /\ bjob'[p].created = <<>> /\ bjob'[p].volume = FALSE
    BY <1>3 DEF NoBackendJob
  <1>5. run \in {p} \X (0..calls') /\ run # Absent
    BY <1>1, LabelsAssumption
  <1>6. LocalsOK(p, "exists", bjob'[p], calls')
    BY <1>4, <1>5 DEF LocalsOK, BackendPositions, RemovalPositions, EarlyPositions
  <1>7. \A x \in Parts : docker[x] # run
    <2>1. SUFFICES ASSUME NEW x \in Parts, docker[x] = run PROVE FALSE
      OBVIOUS
    <2>2. docker[x] \in {p} \X Nat /\ docker[x][2] = calls'
      BY <1>1, <2>1
    <2>3. calls' <= calls /\ (pc[p] # "idle" => calls' < calls)
      BY <2>2 DEF LInv, LabelsPast
    <2>4. QED
      BY <1>1, <2>3
  <1>8. OwnAccount(p)
    BY <1>2, <1>4, <1>7 DEF OwnAccount, Accounts
  <1>9. QED
    BY <1>2, <1>3, <1>6, <1>8 DEF Keeps, OwnLocals, OwnLabels

LEMMA NoRunMoves ==
  ASSUME LInv, NEW p \in Procs, calls <= calls', UNCHANGED docker,
         NEW l \in {"idle", "look"}, bpc' = [bpc EXCEPT ![p] = l], NEW j, BWith(p, j),
         j.cmd # "run", j.run = Absent, j.created = <<>>, j.volume = FALSE
  PROVE  Keeps(p)
  <1>1. bpc' = [bpc EXCEPT ![p] = bpc'[p]] /\ bpc'[p] = l
    BY OwnState
  <1>2. bjob' = [bjob EXCEPT ![p] = bjob'[p]] /\ bjob'[p] = j
    BY OwnState DEF BWith
  <1>3. LocalsOK(p, l, j, calls')
    BY DEF LocalsOK, BackendPositions, RemovalPositions, EarlyPositions
  <1>4. QED
    BY <1>1, <1>2, <1>3 DEF Keeps, OwnLocals, OwnLabels, OwnAccount, Accounts

LEMMA StartsMove ==
  ASSUME LInv, NEW p \in Procs, calls <= calls',
         \/ StartRemoval(p, "stop") \/ StartRemoval(p, "destroy") \/ Status(p) \/ LogsExec(p)
         \/ BackendCrash(p)
  PROVE  Keeps(p)
  <1>1. UNCHANGED docker
    BY DEF StartRemoval, Status, LogsExec, BackendCrash, dockerVars
  <1>2. ASSUME NEW cmd \in {"stop", "destroy"}, StartRemoval(p, cmd) PROVE Keeps(p)
    <2> DEFINE j == [NoBackendJob EXCEPT !.cmd = cmd]
    <2>1. j.cmd # "run" /\ j.run = Absent /\ j.created = <<>> /\ j.volume = FALSE
      BY DEF NoBackendJob
    <2>2. bpc' = [bpc EXCEPT ![p] = "look"] /\ BWith(p, j)
      BY <1>2 DEF StartRemoval, BGoto
    <2> HIDE DEF j
    <2>3. QED
      BY <1>1, <2>1, <2>2, NoRunMoves
  <1>3. ASSUME Status(p) \/ LogsExec(p) PROVE Keeps(p)
    <2>1. PICK cmd \in {"status", "logs", "exec"}, ok \in BOOLEAN : BWith(p, [NoBackendJob EXCEPT !.cmd = cmd, !.ok = ok])
      BY <1>3 DEF Status, LogsExec
    <2> DEFINE j == [NoBackendJob EXCEPT !.cmd = cmd, !.ok = ok]
    <2>2. j.cmd # "run" /\ j.run = Absent /\ j.created = <<>> /\ j.volume = FALSE
      BY DEF NoBackendJob
    <2>3. bpc' = [bpc EXCEPT ![p] = "idle"]
      BY <1>3 DEF Status, LogsExec, BMayBegin, LInv, IInv
    <2>4. BWith(p, j)
      BY <2>1
    <2> HIDE DEF j
    <2>5. QED
      BY <1>1, <2>2, <2>3, <2>4, NoRunMoves
  <1>4. ASSUME BackendCrash(p) PROVE Keeps(p)
    <2>1. /\ NoBackendJob.cmd # "run" /\ NoBackendJob.run = Absent
          /\ NoBackendJob.created = <<>> /\ NoBackendJob.volume = FALSE
      BY DEF NoBackendJob
    <2>2. bpc' = [bpc EXCEPT ![p] = "idle"] /\ BWith(p, NoBackendJob)
      BY <1>4 DEF BackendCrash, BGoto
    <2>3. QED
      BY <1>1, <2>1, <2>2, NoRunMoves
  <1>5. QED
    BY <1>2, <1>3, <1>4

LEMMA CommandMoves ==
  ASSUME LInv, calls' = calls, NEW p \in Procs, BackendCommand(p)
  PROVE  Keeps(p)
  <1>1. CASE CheckExists(p) \/ EnsureOdooImage(p) \/ EnsureNetwork(p) \/ EnsureVolume(p) \/ WaitOdooHealthy(p)
    BY <1>1, LookingMoves
  <1>2. CASE CreateNetwork(p)
    BY <1>2, CreateNetworkMoves
  <1>3. CASE CreateVolume(p)
    BY <1>3, CreateVolumeMoves
  <1>4. CASE Provision(p)
    BY <1>4, ProvisionMoves
  <1>5. CASE RunBootstrap(p)
    BY <1>5, RunBootstrapMoves
  <1>6. CASE RemoveBootstrap(p)
    BY <1>6, RemoveBootstrapMoves
  <1>7. CASE RunContainer(p)
    BY <1>7, RunContainerMoves
  <1>8. CASE RecordCustody(p)
    BY <1>8, RecordCustodyMoves
  <1>9. CASE Rollback(p)
    BY <1>9, RollbackMoves
  <1>10. CASE LookAtRuntime(p)
    BY <1>10, LookMoves
  <1>11. CASE \E i \in 1..3 : RemoveRuntime(p, i)
    BY <1>11, RemoveRuntimeMoves
  <1>12. CASE \/ Consume(p) \/ ReclaimDatabase(p) \/ ReclaimFilestore(p) \/ ReclaimRaises(p)
              \/ CompleteReclaim(p)
    BY <1>12, ReclaimMoves
  <1>13. QED
    BY <1>1, <1>2, <1>3, <1>4, <1>5, <1>6, <1>7, <1>8, <1>9, <1>10, <1>11, <1>12 DEF BackendCommand

-----------------------------------------------------------------------------
LEMMA LInitial == Init => LInv
  <1> SUFFICES ASSUME Init PROVE LInv
    OBVIOUS
  <1>1. IInv
    BY Initial
  <1>2. /\ pc = [p \in Procs |-> "idle"] /\ bpc = [p \in Procs |-> "idle"]
        /\ bjob = [p \in Procs |-> NoBackendJob] /\ calls = 0
    BY DEF Init, CliInit, WorkspaceInit, BackendInit
  <1>3. LabelsPast
    BY LabelsAssumption DEF Init, BackendInit, LabelsPast
  <1>4. \A p \in Procs : LocalsOK(p, bpc[p], bjob[p], calls)
    BY <1>2 DEF LocalsOK, NoBackendJob, BackendPositions, RemovalPositions, EarlyPositions
  <1>5. \A p \in Procs : bjob[p].cmd # "run"
    BY <1>2 DEF NoBackendJob
  <1>6. QED
    BY <1>1, <1>2, <1>3, <1>4, <1>5 DEF LInv, OneCommand, Accounts

LEMMA LInductive == LInv /\ [Next]_localVars => LInv'
  <1> SUFFICES ASSUME LInv, [Next]_localVars PROVE LInv'
    OBVIOUS
  <1>1. IInv' /\ calls \in Nat
    BY Inductive DEF LInv, IInv
  <1>2. CASE UNCHANGED localVars
    BY <1>2, <1>1 DEF localVars, workspaceVars, backendVars, cli, LInv, OneCommand, LabelsPast
  <1>3. CASE Next
    <2>1. UNCHANGED world
      BY <1>3 DEF Next
    <2>2. ASSUME NEW p \in Procs, HandOver(p) PROVE LInv'
      <3>1. pc[p] = "run" /\ calls' = calls /\ pc' = [pc EXCEPT ![p] = "idle"]
        BY <2>2 DEF HandOver, End, Goto, cli
      <3>2. Keeps(p)
        BY <2>2, <3>1, StartRunMoves DEF HandOver
      <3>3. calls <= calls'
        BY <1>1, <3>1
      <3>4. QED
        BY <1>1, <2>1, <3>1, <3>2, <3>3, OwnStepInductive DEF Keeps
    <2>3. ASSUME NEW p \in Procs, Free(p), UNCHANGED pc, calls <= calls', Keeps(p) PROVE LInv'
      <3>1. pc' = [pc EXCEPT ![p] = "idle"]
        BY <2>3 DEF Free, LInv
      <3>2. QED
        BY <1>1, <2>1, <2>3, <3>1, OwnStepInductive DEF Keeps
    <2>4. ASSUME NEW p \in Procs, Free(p), RunBare(p) PROVE LInv'
      <3>1. calls' = calls + 1 /\ UNCHANGED pc
        BY <2>4 DEF RunBare, Begun, workspaceVars
      <3>2. Keeps(p)
        BY <2>4, <3>1, StartRunMoves DEF RunBare
      <3>3. QED
        BY <1>1, <2>3, <2>4, <3>1, <3>2
    <2>5. ASSUME NEW p \in Procs, Free(p), BackendStep(p), UNCHANGED workspaceVars PROVE LInv'
      <3>1. calls <= calls' /\ UNCHANGED pc
        BY <1>1, <2>5 DEF BackendStep, Begun, BackendCrash, Died, cli, workspaceVars
      <3>2. CASE BackendCommand(p) /\ UNCHANGED cli
        BY <2>3, <2>5, <3>1, <3>2, CommandMoves DEF cli
      <3>3. CASE \/ StartRemoval(p, "stop") \/ StartRemoval(p, "destroy") \/ Status(p) \/ LogsExec(p)
                 \/ BackendCrash(p)
        BY <2>3, <2>5, <3>1, <3>3, StartsMove
      <3>4. QED
        BY <2>5, <3>2, <3>3 DEF BackendStep
    <2>6. ASSUME NEW p \in Procs, Alone(p), WorkspaceStep(p), UNCHANGED backendVars PROVE LInv'
      BY <1>1, <2>1, <2>6, WorkspaceInductive
    <2>7. ASSUME WorkspaceEnv, UNCHANGED backendVars PROVE LInv'
      BY <1>1, <2>1, <2>7, WorkspaceInductive
    <2>8. QED
      BY <1>3, <2>2, <2>4, <2>5, <2>6, <2>7 DEF Next
  <1>4. QED
    BY <1>2, <1>3

(* A run that fails has rolled back what it created or reports it, for any *)
(* number of processes whose commands overlap, and whatever fails or dies, *)
(* where a failed docker command has no effect: the ledger, the receipt's  *)
(* claim to pgdata and the residuals together cover every part the run     *)
(* labelled (DockerBackendProvider.run, _rollback and _teardown).          *)
THEOREM FailedRunReported == Spec => []RollbackComplete
  <1>1. LInv => RollbackComplete
    <2>1. SUFFICES ASSUME LInv, {"timeout"} \cap world = {}, NEW p \in Procs, FailedRun(p),
                          NEW x \in Parts, docker[x] = bjob[p].run
                   PROVE  x \in bjob[p].left
      BY DEF RollbackComplete, Reported
    <2>2. bpc[p] = "idle" /\ bjob[p].cmd = "run" /\ ~bjob[p].ok
      BY <2>1 DEF FailedRun
    <2>3. Answers(bjob[p], x)
      BY <2>1, <2>2, OwnState DEF Accounts
    <2>4. bjob[p].created = <<>>
      BY <2>2, OwnState, <2>1 DEF LocalsOK
    <2>5. QED
      BY <2>3, <2>4 DEF Answers
  <1>2. QED
    BY <1>1, LInitial, LInductive, PTL DEF Spec

-----------------------------------------------------------------------------
(* What destroy has seen to.  For commands that do not overlap and docker  *)
(* commands that do not fail outright.                                     *)
Calm == world \cap {"docker", "concurrent"} = {}

Settled == {"removed", "absent"}

Outcomes == Settled \cup {"protected", "failed"}

(* The part x is gone if its removal was noted as settled. *)
SettledGone(d, o, x) == o \in Settled => d[x] = Absent

(* Position l and locals j with the parts d: what was found is what is     *)
(* there, a settled outcome is true of its part, and the data is looked at *)
(* when the runtime has gone.                                              *)
Honest(d, l, j) ==
    /\ l \in RemovalPositions => j.cmd \in {"stop", "destroy"}
    /\ l \notin RemovalPositions \cup {"idle"} => j.cmd = "run"
    /\ l \in {"provision", "bootstrap"} => d["filestore"] # Absent
    /\ l \in {"look", "rm_postgres"} => j.outcome = <<>>
    /\ l = "rm_postgres" => (d["postgres"] # Absent => "postgres" \in j.found)
    /\ l \in {"rm_postgres", "rm_odoo"} => (d["odoo"] # Absent => "odoo" \in j.found)
    /\ l \in {"rm_postgres", "rm_odoo", "rm_network"} => (d["network"] # Absent => "network" \in j.found)
    /\ l = "rm_odoo" => Len(j.outcome) = 1
    /\ l = "rm_network" => Len(j.outcome) = 2 /\ SettledGone(d, j.outcome[2], "odoo")
    /\ l \in {"rm_odoo", "rm_network"} => j.outcome \in Seq(Outcomes) /\ SettledGone(d, j.outcome[1], "postgres")
    /\ l \in {"consume", "reclaim", "reclaim_fs", "complete"} => \A x \in ToSet(Runtime) : d[x] = Absent
    /\ l = "reclaim_fs" => Len(j.outcome) = 1
    /\ l = "complete" => Len(j.outcome) = 2 /\ SettledGone(d, j.outcome[2], "filestore")
    /\ l \in {"reclaim_fs", "complete"} => j.outcome \in Seq(Outcomes) /\ SettledGone(d, j.outcome[1], "pgdata")

(* One process is in the backend at a time. *)
Sole == \A p, q \in Procs : p # q => bpc[p] = "idle" \/ bpc[q] = "idle"

(* A bootstrap container mounts the filestore. *)
BootstrapMounts(d) == d["bootstrap"] # Absent => d["filestore"] # Absent

(* The inductive invariant of DestroyHonest. *)
DInv ==
    /\ IInv
    /\ Calm => /\ Sole /\ BootstrapMounts(docker)
               /\ \A p \in Procs : Honest(docker, bpc[p], bjob[p])

(* What a step of process p does to all this. *)
HonestStep(p) ==
    /\ Honest(docker', bpc'[p], bjob'[p]) /\ BootstrapMounts(docker')
    /\ bpc'[p] = "idle" /\ bjob'[p].cmd = "destroy" /\ bjob'[p].ok => \A x \in Parts : docker'[x] = Absent

LEMMA CalmState ==
  ASSUME DInv, Calm, NEW p \in Procs
  PROVE  /\ JobOK(bjob[p]) /\ Honest(docker, bpc[p], bjob[p]) /\ BootstrapMounts(docker) /\ Sole
         /\ DOMAIN bpc = Procs /\ DOMAIN bjob = Procs /\ IInv
         /\ docker \in [Parts -> Tokens \cup {Unlabelled}]
         /\ ~Fails /\ "concurrent" \notin world
  BY DEF DInv, IInv, Calm, Fails

(* The positions of a run ask little. *)
LEMMA RunHonest ==
  ASSUME NEW d, NEW l, NEW j, l \notin RemovalPositions, l # "idle" => j.cmd = "run",
         l \in {"provision", "bootstrap"} => d["filestore"] # Absent
  PROVE  Honest(d, l, j)
  BY DEF Honest, RemovalPositions

LEMMA RunEnds ==
  ASSUME DInv, Calm, NEW p \in Procs, NEW ok, BEnd(p, ok), UNCHANGED docker,
         bjob[p].cmd # "destroy" \/ ok = FALSE
  PROVE  HonestStep(p)
  <1>1. bpc'[p] = "idle"
    BY CalmState DEF BEnd, BGoto
  <1>2. bjob'[p].cmd = bjob[p].cmd /\ bjob'[p].ok = ok
    BY CalmState DEF BEnd, BWith, NoBackendJob
  <1>3. Honest(docker', bpc'[p], bjob'[p])
    BY <1>1, RunHonest DEF RemovalPositions
  <1>4. QED
    BY <1>1, <1>2, <1>3, CalmState DEF HonestStep

(* A step of a run that goes on. *)
LEMMA RunGoes ==
  ASSUME DInv, Calm, NEW p \in Procs, bpc[p] \notin RemovalPositions \cup {"idle"},
         NEW l, BGoto(p, l), l \notin RemovalPositions \cup {"idle"},
         bjob'[p].cmd = bjob[p].cmd, BootstrapMounts(docker'),
         l \in {"provision", "bootstrap"} => docker'["filestore"] # Absent
  PROVE  HonestStep(p)
  <1>1. bpc'[p] = l
    BY CalmState DEF BGoto
  <1>2. bjob[p].cmd = "run"
    BY CalmState DEF Honest
  <1>3. Honest(docker', l, bjob'[p])
    BY <1>2, RunHonest
  <1>4. QED
    BY <1>1, <1>3 DEF HonestStep

(* The command stays the same in the ledger entries of a run. *)
LEMMA EnterCmd ==
  ASSUME DInv, Calm, NEW p \in Procs, NEW e, Enter(p, e)
  PROVE  bjob'[p].cmd = bjob[p].cmd
  BY CalmState DEF Enter, BWith, JobOK

LEMMA LookingHonest ==
  ASSUME DInv, Calm, NEW p \in Procs,
         CheckExists(p) \/ EnsureOdooImage(p) \/ EnsureNetwork(p) \/ EnsureVolume(p) \/ WaitOdooHealthy(p)
  PROVE  HonestStep(p)
  <1>1. UNCHANGED docker /\ bpc[p] \in {"exists", "image", "network", "filestore", "health"}
    BY DEF CheckExists, EnsureOdooImage, EnsureNetwork, EnsureVolume, WaitOdooHealthy, dockerVars
  <1>2. ASSUME BEnd(p, FALSE) PROVE HonestStep(p)
    BY <1>1, <1>2, RunEnds
  <1>3. ASSUME NEW l \in {"image", "network", "filestore", "network_create", "filestore_create", "record", "rollback"},
               Step(p, l)
        PROVE  HonestStep(p)
    BY <1>1, <1>3, RunGoes, CalmState DEF Step, RemovalPositions
  <1>4. ASSUME Step(p, "provision"), Exists("filestore") PROVE HonestStep(p)
    BY <1>1, <1>4, RunGoes, CalmState DEF Step, Exists, RemovalPositions
  <1>5. Seen("filestore", TRUE) => Exists("filestore")
    BY CalmState DEF Seen
  <1>6. QED
    BY <1>2, <1>3, <1>4, <1>5
       DEF CheckExists, EnsureOdooImage, EnsureNetwork, EnsureVolume, WaitOdooHealthy, Raise

LEMMA CreatesHonest ==
  ASSUME DInv, Calm, NEW p \in Procs, CreateNetwork(p) \/ CreateVolume(p) \/ Provision(p)
  PROVE  HonestStep(p)
  <1>1. bpc[p] \in {"network_create", "filestore_create", "provision"}
    BY DEF CreateNetwork, CreateVolume, Provision
  <1>2. bjob'[p].cmd = bjob[p].cmd
    <2>1. ASSUME NEW created, NEW volume,
                 BWith(p, [bjob[p] EXCEPT !.created = created, !.volume = volume])
          PROVE  bjob'[p].cmd = bjob[p].cmd
      BY <2>1, CalmState DEF BWith, JobOK
    <2>2. QED
      BY <2>1, EnterCmd DEF CreateNetwork, CreateVolume, Provision, Raise, Step
  <1>3. ASSUME CreateNetwork(p) PROVE HonestStep(p)
    <2>1. docker' = docker \/ docker' = [docker EXCEPT !["network"] = bjob[p].run]
      BY <1>3 DEF CreateNetwork, Put
    <2>2. BootstrapMounts(docker')
      BY <2>1, CalmState DEF BootstrapMounts, Parts, Containers, Volumes
    <2>3. BGoto(p, "filestore") \/ BGoto(p, "rollback")
      BY <1>3 DEF CreateNetwork, Raise, Step
    <2>4. QED
      BY <1>1, <1>2, <2>2, <2>3, RunGoes DEF RemovalPositions
  <1>4. ASSUME CreateVolume(p) PROVE HonestStep(p)
    <2>1. docker' = docker \/ docker' = [docker EXCEPT !["filestore"] = IF Exists("filestore") THEN docker["filestore"] ELSE bjob[p].run]
      BY <1>4 DEF CreateVolume, Put
    <2>2. BootstrapMounts(docker')
      BY <2>1, CalmState DEF BootstrapMounts, Exists, Parts, Containers, Volumes
    <2>3. BGoto(p, "rollback") \/ (BGoto(p, "provision") /\ docker'["filestore"] # Absent)
      BY <1>4 DEF CreateVolume, VolumeHasLabel, Raise, Step
    <2>4. QED
      BY <1>1, <1>2, <2>2, <2>3, RunGoes DEF RemovalPositions
  <1>5. ASSUME Provision(p) PROVE HonestStep(p)
    <2>1. /\ docker' = docker \/ docker' = [docker EXCEPT !["postgres"] = bjob[p].run,
                                      !["pgdata"] = IF ~Exists("pgdata") THEN bjob[p].run ELSE @]
      BY <1>5 DEF Provision, dockerVars
    <2>2. docker'["filestore"] = docker["filestore"] /\ docker'["bootstrap"] = docker["bootstrap"]
      BY <2>1, CalmState DEF Parts, Containers, Volumes
    <2>3. docker["filestore"] # Absent
      BY <1>5, CalmState DEF Provision, Honest
    <2>4. PICK l \in {"bootstrap", "odoo", "rollback"} : BGoto(p, l)
      BY <1>5 DEF Provision, Raise, Step
    <2>5. QED
      BY <1>1, <1>2, <2>2, <2>3, <2>4, RunGoes, CalmState DEF RemovalPositions, BootstrapMounts
  <1>6. QED
    BY <1>3, <1>4, <1>5

LEMMA BootstrapHonest ==
  ASSUME DInv, Calm, NEW p \in Procs, RunBootstrap(p) \/ RemoveBootstrap(p) \/ RunContainer(p)
  PROVE  HonestStep(p)
  <1>1. bpc[p] \in {"bootstrap", "rm_bootstrap", "odoo"}
    BY DEF RunBootstrap, RemoveBootstrap, RunContainer
  <1>2. bjob'[p].cmd = bjob[p].cmd
    <2>1. ASSUME NEW created, BWith(p, [bjob[p] EXCEPT !.created = created])
          PROVE  bjob'[p].cmd = bjob[p].cmd
      BY <2>1, CalmState DEF BWith, JobOK
    <2>2. QED
      BY <2>1, EnterCmd DEF RunBootstrap, RemoveBootstrap, RunContainer, Raise, Step
  <1>3. PICK l \in {"rm_bootstrap", "rollback", "odoo", "health"} : BGoto(p, l)
    BY DEF RunBootstrap, RemoveBootstrap, RunContainer, Raise, Step
  <1>4. BootstrapMounts(docker')
    <2>1. CASE UNCHANGED docker
      BY <2>1, CalmState
    <2>2. CASE Put("bootstrap", bjob[p].run) /\ bpc[p] = "bootstrap"
      BY <2>2, CalmState DEF Put, BootstrapMounts, Honest, Parts, Containers, Volumes
    <2>3. CASE \E gone \in {{"bootstrap"}, {}} : Vanish(gone)
      BY <2>3, CalmState DEF Vanish, BootstrapMounts, Parts, Containers, Volumes
    <2>4. CASE docker' = [docker EXCEPT !["odoo"] = bjob[p].run,
                                        !["filestore"] = IF Exists("filestore") THEN @ ELSE Unlabelled]
      BY <2>4, CalmState, LabelsAssumption DEF Exists, BootstrapMounts, Parts, Containers, Volumes
    <2>5. QED
      BY <2>1, <2>2, <2>3, <2>4 DEF RunBootstrap, RemoveBootstrap, RunContainer, dockerVars
  <1>5. QED
    BY <1>1, <1>2, <1>3, <1>4, RunGoes DEF RemovalPositions

LEMMA RecordHonest ==
  ASSUME DInv, Calm, NEW p \in Procs, RecordCustody(p)
  PROVE  HonestStep(p)
  <1>1. bpc[p] = "record" /\ UNCHANGED docker
    BY DEF RecordCustody, dockerVars
  <1>2. bjob[p].cmd = "run"
    BY <1>1, CalmState DEF Honest, RemovalPositions
  <1>3. CASE BEnd(p, TRUE)
    BY <1>1, <1>2, <1>3, RunEnds
  <1>4. CASE Raise(p)
    BY <1>1, <1>4, RunGoes, CalmState DEF Raise, Step, RemovalPositions
  <1>5. QED
    BY <1>3, <1>4 DEF RecordCustody

LEMMA RollbackHonest ==
  ASSUME DInv, Calm, NEW p \in Procs, Rollback(p)
  PROVE  HonestStep(p)
  <1> DEFINE ledger == bjob[p].created
  <1>1. bpc[p] = "rollback"
    BY DEF Rollback
  <1>2. CASE BEnd(p, FALSE) /\ UNCHANGED docker
    BY <1>2, RunEnds
  <1>3. ASSUME ledger # <<>>, UNCHANGED bpc, NEW gone, NEW left,
               Teardown(p, Last(ledger), gone, left), Vanish(gone),
               BWith(p, [bjob[p] EXCEPT !.created = Front(@), !.left = @ \cup left])
        PROVE  HonestStep(p)
    <2>1. bjob'[p].cmd = bjob[p].cmd
      BY <1>3, CalmState DEF BWith, JobOK
    <2>2. BGoto(p, "rollback")
      BY <1>1, <1>3, CalmState DEF BGoto, IInv
    <2>3. "filestore" \in gone => ~Exists("bootstrap")
      <3>1. CASE Last(ledger) = "database"
        BY <1>3, <3>1 DEF Teardown, Cleanup, CleanupRemoves
      <3>2. CASE Last(ledger) # "database"
        BY <1>3, <3>2 DEF Teardown, RollbackRemoves, Held
      <3>3. QED
        BY <3>1, <3>2
    <2>4. BootstrapMounts(docker')
      BY <1>3, <2>3, CalmState DEF Vanish, BootstrapMounts, Exists, Parts, Containers, Volumes
    <2>5. QED
      BY <1>1, <2>1, <2>2, <2>4, RunGoes DEF RemovalPositions
  <1>4. QED
    BY <1>2, <1>3 DEF Rollback, dockerVars

-----------------------------------------------------------------------------
(* stop and destroy.                                                       *)
LEMMA LookHonest ==
  ASSUME DInv, Calm, NEW p \in Procs, LookAtRuntime(p)
  PROVE  HonestStep(p)
  <1>1. UNCHANGED docker /\ bpc[p] = "look"
    BY DEF LookAtRuntime, dockerVars
  <1>2. CASE BEnd(p, FALSE)
    BY <1>1, <1>2, RunEnds
  <1>3. ASSUME NEW found, \A x \in ToSet(Runtime) : Seen(x, x \in found),
               BGoto(p, "rm_postgres"), BWith(p, [bjob[p] EXCEPT !.found = found])
        PROVE  HonestStep(p)
    <2>1. bpc'[p] = "rm_postgres"
      BY <1>3, CalmState DEF BGoto
    <2>2. bjob'[p].cmd = bjob[p].cmd /\ bjob'[p].found = found /\ bjob'[p].outcome = bjob[p].outcome
      <3>1. JobOK(bjob[p]) /\ bjob'[p] = [bjob[p] EXCEPT !.found = found]
        BY <1>3, CalmState DEF BWith
      <3>2. QED
        BY <3>1 DEF JobOK
    <2>3. bjob[p].cmd \in {"stop", "destroy"} /\ bjob[p].outcome = <<>>
      BY <1>1, CalmState DEF Honest, RemovalPositions
    <2>4. \A x \in {"postgres", "odoo", "network"} : docker[x] # Absent => x \in found
      BY <1>3, CalmState DEF Seen, Exists, Runtime, ToSet
    <2>5. Honest(docker', "rm_postgres", bjob'[p])
      BY <1>1, <2>2, <2>3, <2>4 DEF Honest, RemovalPositions
    <2>6. QED
      BY <1>1, <2>1, <2>5, CalmState DEF HonestStep
  <1>4. QED
    BY <1>2, <1>3 DEF LookAtRuntime

(* One resource of the runtime: settled only when it is gone. *)
LEMMA RuntimeSettled ==
  ASSUME DInv, Calm, NEW p \in Procs, NEW i \in 1..3, RemoveRuntime(p, i),
         docker[Runtime[i]] # Absent => Runtime[i] \in bjob[p].found
  PROVE  /\ \A y \in Parts : docker'[y] = docker[y] \/ (docker'[y] = Absent /\ y = Runtime[i])
         /\ \/ BEnd(p, FALSE) /\ UNCHANGED docker
            \/ \E o \in Outcomes :
                 /\ SettledGone(docker', o, Runtime[i])
                 /\ IF i = 3 THEN AfterRuntime(p, Append(bjob[p].outcome, o))
                    ELSE /\ BGoto(p, <<"rm_odoo", "rm_network">>[i])
                         /\ BWith(p, [bjob[p] EXCEPT !.outcome = Append(bjob[p].outcome, o)])
  <1> DEFINE x == Runtime[i]
             Done(o) == IF i = 3 THEN AfterRuntime(p, Append(bjob[p].outcome, o))
                        ELSE /\ BGoto(p, <<"rm_odoo", "rm_network">>[i])
                             /\ BWith(p, [bjob[p] EXCEPT !.outcome = Append(bjob[p].outcome, o)])
  <1>1. x \in Parts
    BY DEF Runtime, Parts, Containers
  <1>2. UNCHANGED docker \/ Vanish({x})
    BY DEF RemoveRuntime, dockerVars
  <1>3. \A y \in Parts : docker'[y] = docker[y] \/ (docker'[y] = Absent /\ y = x)
    BY <1>2 DEF Vanish
  <1>4. \/ BEnd(p, FALSE) /\ UNCHANGED docker
        \/ Done("absent") /\ x \notin bjob[p].found /\ UNCHANGED docker
        \/ Done("removed") /\ Vanish({x})
        \/ Done("protected") \/ Done("failed")
    BY DEF RemoveRuntime, dockerVars
  <1>5. ASSUME x \notin bjob[p].found, UNCHANGED docker PROVE docker'[x] = Absent
    BY <1>5
  <1>6. ASSUME Vanish({x}) PROVE docker'[x] = Absent
    BY <1>1, <1>6 DEF Vanish
  <1> HIDE DEF Done
  <1>7. \/ BEnd(p, FALSE) /\ UNCHANGED docker
        \/ \E o \in Outcomes : SettledGone(docker', o, x) /\ Done(o)
    <2>1. SettledGone(docker', "protected", x) /\ SettledGone(docker', "failed", x)
      BY DEF SettledGone, Settled
    <2>2. docker'[x] = Absent => SettledGone(docker', "absent", x) /\ SettledGone(docker', "removed", x)
      BY DEF SettledGone
    <2> HIDE DEF x
    <2>3. CASE BEnd(p, FALSE) /\ UNCHANGED docker
      BY <2>3
    <2>4. CASE Done("absent") /\ docker'[x] = Absent
      BY <2>2, <2>4 DEF Outcomes, Settled
    <2>5. CASE Done("removed") /\ docker'[x] = Absent
      BY <2>2, <2>5 DEF Outcomes, Settled
    <2>6. CASE Done("protected")
      BY <2>1, <2>6 DEF Outcomes, Settled
    <2>7. CASE Done("failed")
      BY <2>1, <2>7 DEF Outcomes, Settled
    <2>8. QED
      BY <1>4, <1>5, <1>6, <2>3, <2>4, <2>5, <2>6, <2>7
  <1>8. QED
    BY <1>3, <1>7 DEF Done

LEMMA OutcomeNoted ==
  ASSUME DInv, Calm, NEW p \in Procs, NEW l, BGoto(p, l), NEW outcome,
         BWith(p, [bjob[p] EXCEPT !.outcome = outcome])
  PROVE  /\ bpc'[p] = l /\ bjob'[p].cmd = bjob[p].cmd
         /\ bjob'[p].found = bjob[p].found /\ bjob'[p].outcome = outcome
  <1>1. JobOK(bjob[p]) /\ bjob'[p] = [bjob[p] EXCEPT !.outcome = outcome] /\ bpc'[p] = l
    BY CalmState DEF BGoto, BWith
  <1>2. QED
    BY <1>1 DEF JobOK

LEMMA AppendOutcome ==
  ASSUME NEW s \in Seq(Outcomes), NEW o \in Outcomes
  PROVE  /\ Append(s, o) \in Seq(Outcomes) /\ Len(Append(s, o)) = Len(s) + 1
         /\ \A k \in 1..Len(s) : Append(s, o)[k] = s[k]
         /\ Append(s, o)[Len(s) + 1] = o
  OBVIOUS

LEMMA RemoveRuntimeHonest ==
  ASSUME DInv, Calm, NEW p \in Procs, NEW i \in 1..3, RemoveRuntime(p, i)
  PROVE  HonestStep(p)
  <1> DEFINE x == Runtime[i]
             j == bjob[p]
  <1>1. bpc[p] = <<"rm_postgres", "rm_odoo", "rm_network">>[i]
    BY DEF RemoveRuntime
  <1>2. Honest(docker, bpc[p], j)
    BY CalmState
  <1>3. j.cmd \in {"stop", "destroy"}
    BY <1>1, <1>2 DEF Honest, RemovalPositions
  <1>4. docker[x] # Absent => x \in j.found
    BY <1>1, <1>2 DEF Honest, Runtime
  <1>5. \A y \in Parts : docker'[y] = docker[y] \/ (docker'[y] = Absent /\ y = x)
    BY <1>4, RuntimeSettled
  <1>6. BootstrapMounts(docker')
    BY <1>5, CalmState DEF BootstrapMounts, Runtime, Parts, Containers, Volumes
  <1>7. CASE BEnd(p, FALSE) /\ UNCHANGED docker
    BY <1>7, RunEnds
  <1>8. ASSUME NEW o \in Outcomes, SettledGone(docker', o, x),
               IF i = 3 THEN AfterRuntime(p, Append(j.outcome, o))
               ELSE /\ BGoto(p, <<"rm_odoo", "rm_network">>[i])
                    /\ BWith(p, [j EXCEPT !.outcome = Append(j.outcome, o)])
        PROVE  HonestStep(p)
    <2>1. CASE i = 1
      <3>1. /\ bpc'[p] = "rm_odoo" /\ bjob'[p].cmd = j.cmd
            /\ bjob'[p].found = j.found /\ bjob'[p].outcome = Append(j.outcome, o)
        <4> DEFINE outcome == Append(j.outcome, o)
        <4>1. BGoto(p, "rm_odoo") /\ BWith(p, [bjob[p] EXCEPT !.outcome = outcome])
          BY <1>8, <2>1
        <4> HIDE DEF outcome
        <4>2. /\ bpc'[p] = "rm_odoo" /\ bjob'[p].cmd = j.cmd
              /\ bjob'[p].found = j.found /\ bjob'[p].outcome = outcome
          BY <4>1, OutcomeNoted
        <4>3. QED
          BY <4>2 DEF outcome
      <3>2. j.outcome = <<>> /\ x = "postgres"
        BY <1>1, <1>2, <2>1 DEF Honest, Runtime
      <3>3. /\ Append(j.outcome, o) \in Seq(Outcomes) /\ Len(Append(j.outcome, o)) = 1
            /\ Append(j.outcome, o)[1] = o
        BY <3>2
      <3>4. /\ docker["odoo"] # Absent => "odoo" \in j.found
            /\ docker["network"] # Absent => "network" \in j.found
        BY <1>1, <1>2, <2>1 DEF Honest
      <3>5. docker'["odoo"] = docker["odoo"] /\ docker'["network"] = docker["network"]
        BY <1>5, <3>2 DEF Parts, Containers
      <3>6. Honest(docker', "rm_odoo", bjob'[p])
        BY <1>3, <1>8, <3>1, <3>2, <3>3, <3>4, <3>5 DEF Honest, RemovalPositions
      <3>7. QED
        BY <1>6, <3>1, <3>6 DEF HonestStep
    <2>2. CASE i = 2
      <3>1. /\ bpc'[p] = "rm_network" /\ bjob'[p].cmd = j.cmd
            /\ bjob'[p].found = j.found /\ bjob'[p].outcome = Append(j.outcome, o)
        <4> DEFINE outcome == Append(j.outcome, o)
        <4>1. BGoto(p, "rm_network") /\ BWith(p, [bjob[p] EXCEPT !.outcome = outcome])
          BY <1>8, <2>2
        <4> HIDE DEF outcome
        <4>2. /\ bpc'[p] = "rm_network" /\ bjob'[p].cmd = j.cmd
              /\ bjob'[p].found = j.found /\ bjob'[p].outcome = outcome
          BY <4>1, OutcomeNoted
        <4>3. QED
          BY <4>2 DEF outcome
      <3>2. /\ j.outcome \in Seq(Outcomes) /\ Len(j.outcome) = 1 /\ x = "odoo"
            /\ SettledGone(docker, j.outcome[1], "postgres")
            /\ docker["network"] # Absent => "network" \in j.found
        BY <1>1, <1>2, <2>2 DEF Honest, Runtime
      <3>3. /\ Append(j.outcome, o) \in Seq(Outcomes) /\ Len(Append(j.outcome, o)) = 2
            /\ Append(j.outcome, o)[1] = j.outcome[1] /\ Append(j.outcome, o)[2] = o
        <4> DEFINE s == j.outcome
        <4>1. s \in Seq(Outcomes) /\ Len(s) = 1
          BY <3>2
        <4> HIDE DEF s
        <4>2. /\ Append(s, o) \in Seq(Outcomes) /\ Len(Append(s, o)) = 2
              /\ Append(s, o)[1] = s[1] /\ Append(s, o)[2] = o
          <5>1. /\ Append(s, o) \in Seq(Outcomes) /\ Len(Append(s, o)) = Len(s) + 1
                /\ \A k \in 1..Len(s) : Append(s, o)[k] = s[k]
                /\ Append(s, o)[Len(s) + 1] = o
            BY <4>1, AppendOutcome
          <5>2. QED
            BY <4>1, <5>1
        <4>3. QED
          BY <4>2 DEF s
      <3>4. docker'["postgres"] = docker["postgres"] /\ docker'["network"] = docker["network"]
        BY <1>5, <3>2 DEF Parts, Containers
      <3>5. SettledGone(docker', j.outcome[1], "postgres")
        BY <3>2, <3>4 DEF SettledGone
      <3>6. Honest(docker', "rm_network", bjob'[p])
        BY <1>3, <1>8, <3>1, <3>2, <3>3, <3>4, <3>5 DEF Honest, RemovalPositions
      <3>7. QED
        BY <1>6, <3>1, <3>6 DEF HonestStep
    <2>3. CASE i = 3
      <3> DEFINE outcome == Append(j.outcome, o)
      <3>1. AfterRuntime(p, outcome)
        BY <1>8, <2>3
      <3>2. /\ j.outcome \in Seq(Outcomes) /\ Len(j.outcome) = 2 /\ x = "network"
            /\ SettledGone(docker, j.outcome[1], "postgres") /\ SettledGone(docker, j.outcome[2], "odoo")
        BY <1>1, <1>2, <2>3 DEF Honest, Runtime
      <3>3. /\ 1 \in DOMAIN outcome /\ 2 \in DOMAIN outcome /\ 3 \in DOMAIN outcome
            /\ outcome[1] = j.outcome[1] /\ outcome[2] = j.outcome[2] /\ outcome[3] = o
        BY <3>2
      <3> HIDE DEF outcome
      <3>4. CASE BEnd(p, TRUE) /\ j.cmd = "stop"
        <4>1. bpc'[p] = "idle" /\ bjob'[p].cmd = "stop"
          BY <3>4, CalmState DEF BEnd, BGoto, BWith, NoBackendJob
        <4>2. Honest(docker', "idle", bjob'[p])
          BY RunHonest DEF RemovalPositions
        <4>3. QED
          BY <1>6, <4>1, <4>2 DEF HonestStep
      <3>5. CASE BEnd(p, FALSE)
        <4>1. bpc'[p] = "idle" /\ bjob'[p].ok = FALSE
          BY <3>5, CalmState DEF BEnd, BGoto, BWith, NoBackendJob
        <4>2. Honest(docker', "idle", bjob'[p])
          BY RunHonest DEF RemovalPositions
        <4>3. QED
          BY <1>6, <4>1, <4>2 DEF HonestStep
      <3>6. CASE /\ ToSet(outcome) \subseteq {"removed", "absent"}
                 /\ BGoto(p, "consume") /\ BWith(p, [j EXCEPT !.outcome = outcome])
        <4>1. bpc'[p] = "consume" /\ bjob'[p].cmd = j.cmd
          BY <3>6, OutcomeNoted
        <4>2. outcome[1] \in Settled /\ outcome[2] \in Settled /\ outcome[3] \in Settled
          BY <3>3, <3>6 DEF ToSet, Settled
        <4>3. docker["postgres"] = Absent /\ docker["odoo"] = Absent /\ docker'["network"] = Absent
          BY <1>8, <3>2, <3>3, <4>2 DEF SettledGone
        <4>4. docker'["postgres"] = Absent /\ docker'["odoo"] = Absent
          BY <1>5, <4>3 DEF Parts, Containers
        <4>5. \A y \in ToSet(Runtime) : docker'[y] = Absent
          BY <4>3, <4>4 DEF ToSet, Runtime
        <4>6. Honest(docker', "consume", bjob'[p])
          BY <1>3, <4>1, <4>5 DEF Honest, RemovalPositions
        <4>7. QED
          BY <1>6, <4>1, <4>6 DEF HonestStep
      <3>7. QED
        BY <3>1, <3>4, <3>5, <3>6 DEF AfterRuntime
    <2>4. QED
      BY <2>1, <2>2, <2>3
  <1>9. QED
    BY <1>4, <1>7, <1>8, RuntimeSettled

(* Absence is stable under removal. *)
LEMMA VanishAbsent ==
  ASSUME NEW gone, Vanish(gone), NEW x \in Parts
  PROVE  /\ docker[x] = Absent => docker'[x] = Absent
         /\ x \in gone => docker'[x] = Absent
         /\ x \notin gone => docker'[x] = docker[x]
  BY DEF Vanish

(* The whole instance: the runtime, the two volumes, and the bootstrap     *)
(* container, which is nowhere without its filestore.                      *)
LEMMA AllAbsent ==
  ASSUME NEW d, BootstrapMounts(d), \A x \in ToSet(Runtime) : d[x] = Absent,
         d["pgdata"] = Absent, d["filestore"] = Absent
  PROVE  \A x \in Parts : d[x] = Absent
  <1>1. d["postgres"] = Absent /\ d["odoo"] = Absent /\ d["network"] = Absent
    BY DEF ToSet, Runtime
  <1>2. d["bootstrap"] = Absent
    BY DEF BootstrapMounts
  <1>3. QED
    BY <1>1, <1>2 DEF Parts, Containers, Volumes

LEMMA ConsumeHonest ==
  ASSUME DInv, Calm, NEW p \in Procs, Consume(p)
  PROVE  HonestStep(p)
  <1>1. bpc[p] = "consume" /\ UNCHANGED docker
    BY DEF Consume, dockerVars
  <1>2. bjob[p].cmd \in {"stop", "destroy"} /\ \A x \in ToSet(Runtime) : docker[x] = Absent
    BY <1>1, CalmState DEF Honest, RemovalPositions
  <1>3. ASSUME NEW ok \in BOOLEAN, ProtectedData(ok), BEnd(p, ok) PROVE HonestStep(p)
    <2>1. CASE ok = FALSE
      BY <1>1, <1>3, <2>1, RunEnds
    <2>2. CASE ok = TRUE
      <3>1. docker["pgdata"] = Absent /\ docker["filestore"] = Absent
        BY <1>3, <2>2, CalmState DEF ProtectedData, Seen, Exists, Volumes
      <3>2. \A x \in Parts : docker'[x] = Absent
        BY <1>1, <1>2, <3>1, CalmState, AllAbsent
      <3>3. bpc'[p] = "idle"
        BY <1>3, CalmState DEF BEnd, BGoto
      <3>4. Honest(docker', "idle", bjob'[p])
        BY RunHonest DEF RemovalPositions
      <3>5. QED
        BY <1>1, <3>2, <3>3, <3>4, CalmState DEF HonestStep
    <2>3. QED
      BY <2>1, <2>2
  <1>4. ASSUME BGoto(p, "reclaim"), BWith(p, [bjob[p] EXCEPT !.proof = custody]) PROVE HonestStep(p)
    <2>1. bpc'[p] = "reclaim" /\ bjob'[p].cmd = bjob[p].cmd
      <3>1. JobOK(bjob[p]) /\ bjob'[p] = [bjob[p] EXCEPT !.proof = custody] /\ bpc'[p] = "reclaim"
        BY <1>4, CalmState DEF BGoto, BWith
      <3>2. QED
        BY <3>1 DEF JobOK
    <2>2. Honest(docker', "reclaim", bjob'[p])
      BY <1>1, <1>2, <2>1 DEF Honest, RemovalPositions
    <2>3. QED
      BY <1>1, <2>1, <2>2, CalmState DEF HonestStep
  <1>5. CASE BEnd(p, FALSE)
    BY <1>1, <1>5, RunEnds
  <1>6. QED
    BY <1>3, <1>4, <1>5 DEF Consume

(* cleanup: pgdata that the receipt claims is gone, or among what is left. *)
LEMMA CleanupHonest ==
  ASSUME DInv, Calm, NEW run, NEW volume, NEW gone, NEW left, Cleanup(run, volume, gone, left),
         volume, "pgdata" \notin left, Vanish(gone)
  PROVE  docker'["pgdata"] = Absent
  <1>1. "pgdata" \in Parts
    BY DEF Parts, Volumes
  <1>2. CASE docker["pgdata"] = Absent
    BY <1>1, <1>2, VanishAbsent
  <1>3. CASE docker["pgdata"] # Absent
    <2>1. "pgdata" \in CleanupRemoves(run, volume) \cup CleanupLeaves(run, volume)
      BY <1>3 DEF CleanupLeaves, Exists
    <2>2. "pgdata" \in gone
      BY <2>1 DEF Cleanup
    <2>3. QED
      BY <1>1, <2>2, VanishAbsent
  <1>4. QED
    BY <1>2, <1>3

LEMMA ReclaimDatabaseHonest ==
  ASSUME DInv, Calm, NEW p \in Procs, ReclaimDatabase(p)
  PROVE  HonestStep(p)
  <1> DEFINE proof == bjob[p].proof
  <1>1. PICK before \in BOOLEAN, gone \in SUBSET {"postgres", "pgdata"}, left \in SUBSET {"postgres", "pgdata"} :
          /\ Seen("pgdata", before)
          /\ Cleanup(proof.run, proof.volume, gone, left) /\ Vanish(gone)
          /\ BWith(p, [bjob[p] EXCEPT !.outcome = <<PgdataOutcome(proof, before, left)>>, !.left = left])
    BY DEF ReclaimDatabase
  <1> DEFINE o == PgdataOutcome(proof, before, left)
  <1>2. bpc[p] = "reclaim" /\ bpc'[p] = "reclaim_fs"
    BY CalmState DEF ReclaimDatabase, BGoto
  <1>3. bjob[p].cmd \in {"stop", "destroy"} /\ \A x \in ToSet(Runtime) : docker[x] = Absent
    BY <1>2, CalmState DEF Honest, RemovalPositions
  <1>4. bjob'[p].cmd = bjob[p].cmd /\ bjob'[p].outcome = <<o>>
    <2>1. JobOK(bjob[p]) /\ bjob'[p] = [bjob[p] EXCEPT !.outcome = <<o>>, !.left = left]
      BY <1>1, CalmState DEF BWith
    <2> HIDE DEF o
    <2>2. QED
      BY <2>1 DEF JobOK
  <1>5. o \in Outcomes
    BY DEF PgdataOutcome, Outcomes, Settled
  <1>6. SettledGone(docker', o, "pgdata")
    <2>1. before = (docker["pgdata"] # Absent)
      BY <1>1, CalmState DEF Seen, Exists
    <2>2. "pgdata" \in Parts
      BY DEF Parts, Volumes
    <2>3. CASE docker["pgdata"] = Absent
      BY <1>1, <2>2, <2>3, VanishAbsent DEF SettledGone
    <2>4. CASE proof.volume /\ "pgdata" \notin left
      BY <1>1, <2>4, CleanupHonest DEF SettledGone
    <2>5. CASE docker["pgdata"] # Absent /\ ~(proof.volume /\ "pgdata" \notin left)
      <3>1. o \in {"protected", "failed"}
        BY <2>1, <2>5 DEF PgdataOutcome
      <3>2. QED
        BY <3>1 DEF SettledGone, Settled
    <2>6. QED
      BY <2>3, <2>4, <2>5
  <1> HIDE DEF o
  <1>7. \A x \in ToSet(Runtime) : docker'[x] = Absent
    <2>1. ToSet(Runtime) \subseteq Parts
      BY DEF ToSet, Runtime, Parts, Containers
    <2>2. QED
      BY <1>1, <1>3, <2>1, VanishAbsent
  <1>8. BootstrapMounts(docker')
    BY <1>1, CalmState DEF Vanish, BootstrapMounts, Parts, Containers, Volumes
  <1>9. <<o>> \in Seq(Outcomes) /\ Len(<<o>>) = 1 /\ <<o>>[1] = o
    BY <1>5
  <1>10. Honest(docker', "reclaim_fs", bjob'[p])
    BY <1>3, <1>4, <1>6, <1>7, <1>9 DEF Honest, RemovalPositions
  <1>11. QED
    BY <1>2, <1>8, <1>10 DEF HonestStep

LEMMA ReclaimFilestoreHonest ==
  ASSUME DInv, Calm, NEW p \in Procs, ReclaimFilestore(p)
  PROVE  HonestStep(p)
  <1> DEFINE Done(o) == BGoto(p, "complete") /\ BWith(p, [bjob[p] EXCEPT !.outcome = Append(bjob[p].outcome, o)])
             s == bjob[p].outcome
  <1>1. bpc[p] = "reclaim_fs"
    BY DEF ReclaimFilestore
  <1>2. /\ bjob[p].cmd \in {"stop", "destroy"} /\ \A x \in ToSet(Runtime) : docker[x] = Absent
        /\ s \in Seq(Outcomes) /\ Len(s) = 1 /\ SettledGone(docker, s[1], "pgdata")
    BY <1>1, CalmState DEF Honest, RemovalPositions
  <1>3. /\ \/ UNCHANGED docker
           \/ Vanish({})
           \/ Vanish({"filestore"}) /\ ~Held("filestore")
        /\ \/ Done("absent") /\ docker["filestore"] = Absent /\ UNCHANGED docker
           \/ Done("removed") /\ Vanish({"filestore"})
           \/ Done("protected") \/ Done("failed")
    BY CalmState DEF ReclaimFilestore, Seen, Exists, dockerVars
  <1>4. "filestore" \in Parts /\ "pgdata" \in Parts /\ ToSet(Runtime) \subseteq Parts
    BY DEF Parts, Volumes, Containers, ToSet, Runtime
  <1>5. \A x \in Parts \ {"filestore"} : docker'[x] = docker[x]
    BY <1>3 DEF Vanish
  <1>6. BootstrapMounts(docker')
    <2>1. CASE UNCHANGED docker
      BY <2>1, CalmState
    <2>2. CASE Vanish({})
      BY <2>2, CalmState DEF Vanish, BootstrapMounts, Parts, Containers, Volumes
    <2>3. CASE Vanish({"filestore"}) /\ ~Held("filestore")
      BY <2>3, CalmState DEF Vanish, BootstrapMounts, Held, Exists, Parts, Containers, Volumes
    <2>4. QED
      BY <1>3, <2>1, <2>2, <2>3
  <1>7. ASSUME NEW o \in Outcomes, Done(o), SettledGone(docker', o, "filestore") PROVE HonestStep(p)
    <2> DEFINE outcome == Append(s, o)
    <2>1. BGoto(p, "complete") /\ BWith(p, [bjob[p] EXCEPT !.outcome = outcome])
      BY <1>7
    <2>2. /\ outcome \in Seq(Outcomes) /\ Len(outcome) = Len(s) + 1
          /\ \A k \in 1..Len(s) : outcome[k] = s[k]
          /\ outcome[Len(s) + 1] = o
      BY <1>2, AppendOutcome
    <2> HIDE DEF outcome, s
    <2>3. Len(outcome) = 2 /\ outcome[1] = s[1] /\ outcome[2] = o
      BY <1>2, <2>2
    <2>4. bpc'[p] = "complete" /\ bjob'[p].cmd = bjob[p].cmd /\ bjob'[p].outcome = outcome
      BY <2>1, OutcomeNoted
    <2>5. SettledGone(docker', outcome[1], "pgdata") /\ SettledGone(docker', outcome[2], "filestore")
      BY <1>2, <1>4, <1>5, <1>7, <2>3 DEF SettledGone
    <2>6. \A x \in ToSet(Runtime) : docker'[x] = Absent
      BY <1>2, <1>4, <1>5 DEF ToSet, Runtime
    <2>7. Honest(docker', "complete", bjob'[p])
      BY <1>2, <2>2, <2>3, <2>4, <2>5, <2>6 DEF Honest, RemovalPositions
    <2>8. QED
      BY <1>6, <2>4, <2>7 DEF HonestStep
  <1> HIDE DEF Done
  <1>8. CASE Done("absent") /\ docker["filestore"] = Absent /\ UNCHANGED docker
    BY <1>7, <1>8 DEF SettledGone, Outcomes, Settled
  <1>9. CASE Done("removed") /\ Vanish({"filestore"})
    BY <1>4, <1>7, <1>9, VanishAbsent DEF SettledGone, Outcomes, Settled
  <1>10. CASE Done("protected") \/ Done("failed")
    BY <1>7, <1>10 DEF SettledGone, Outcomes, Settled
  <1>11. QED
    BY <1>3, <1>8, <1>9, <1>10

LEMMA CompleteHonest ==
  ASSUME DInv, Calm, NEW p \in Procs, CompleteReclaim(p)
  PROVE  HonestStep(p)
  <1> DEFINE s == bjob[p].outcome
             done == ToSet(s) \subseteq {"removed", "absent"}
  <1>1. bpc[p] = "complete" /\ UNCHANGED docker
    BY DEF CompleteReclaim, dockerVars
  <1>2. /\ \A x \in ToSet(Runtime) : docker[x] = Absent
        /\ s \in Seq(Outcomes) /\ Len(s) = 2
        /\ SettledGone(docker, s[1], "pgdata") /\ SettledGone(docker, s[2], "filestore")
    BY <1>1, CalmState DEF Honest
  <1>3. CASE BEnd(p, FALSE)
    BY <1>1, <1>3, RunEnds
  <1>4. CASE BEnd(p, done)
    <2>1. bpc'[p] = "idle"
      BY <1>4, CalmState DEF BEnd, BGoto
    <2>2. Honest(docker', "idle", bjob'[p])
      BY RunHonest DEF RemovalPositions
    <2>3. CASE done
      <3>1. s[1] \in Settled /\ s[2] \in Settled
        <4>1. s \in Seq(Outcomes) /\ Len(s) = 2 /\ ToSet(s) \subseteq Settled
          BY <1>2, <2>3 DEF Settled
        <4> HIDE DEF s
        <4>2. 1 \in DOMAIN s /\ 2 \in DOMAIN s
          BY <4>1
        <4>3. QED
          BY <4>1, <4>2 DEF ToSet
      <3>2. docker["pgdata"] = Absent /\ docker["filestore"] = Absent
        BY <1>2, <3>1 DEF SettledGone
      <3>3. \A x \in Parts : docker'[x] = Absent
        BY <1>1, <1>2, <3>2, CalmState, AllAbsent
      <3>4. QED
        BY <1>1, <2>1, <2>2, <3>3, CalmState DEF HonestStep
    <2>4. CASE ~done
      <3>1. bjob'[p].ok = done
        <4> HIDE DEF done
        <4>1. QED
          BY <1>4, CalmState DEF BEnd, BWith, NoBackendJob
      <3>2. QED
        BY <1>1, <2>1, <2>2, <2>4, <3>1, CalmState DEF HonestStep
    <2>5. QED
      BY <2>3, <2>4
  <1>5. QED
    BY <1>3, <1>4 DEF CompleteReclaim

LEMMA ReclaimRaisesHonest ==
  ASSUME DInv, Calm, NEW p \in Procs, ReclaimRaises(p)
  PROVE  HonestStep(p)
  <1>1. BEnd(p, FALSE) /\ UNCHANGED docker
    BY DEF ReclaimRaises, dockerVars
  <1>2. bpc'[p] = "idle" /\ bjob'[p].ok = FALSE
    BY <1>1, CalmState DEF BEnd, BGoto, BWith, NoBackendJob
  <1>3. Honest(docker', "idle", bjob'[p])
    BY RunHonest DEF RemovalPositions
  <1>4. QED
    BY <1>1, <1>2, <1>3, CalmState DEF HonestStep

LEMMA BeginsHonest ==
  ASSUME DInv, Calm, NEW p \in Procs,
         \/ \E view : StartRun(p, view)
         \/ StartRemoval(p, "stop") \/ StartRemoval(p, "destroy") \/ Status(p) \/ LogsExec(p)
         \/ BackendCrash(p)
  PROVE  HonestStep(p)
  <1>1. UNCHANGED docker
    BY DEF StartRun, StartRemoval, Status, LogsExec, BackendCrash, dockerVars
  <1>2. ASSUME NEW view, StartRun(p, view) PROVE HonestStep(p)
    <2>1. bpc'[p] = "exists" /\ bjob'[p].cmd = "run"
      BY <1>2, CalmState DEF StartRun, BGoto, BWith, NoBackendJob
    <2>2. QED
      BY <1>1, <2>1, RunHonest, CalmState DEF HonestStep, RemovalPositions
  <1>3. ASSUME NEW cmd \in {"stop", "destroy"}, StartRemoval(p, cmd) PROVE HonestStep(p)
    <2>1. bpc'[p] = "look" /\ bjob'[p].cmd = cmd /\ bjob'[p].outcome = <<>>
      BY <1>3, CalmState DEF StartRemoval, BGoto, BWith, NoBackendJob
    <2>2. Honest(docker', "look", bjob'[p])
      BY <2>1 DEF Honest, RemovalPositions
    <2>3. QED
      BY <1>1, <2>1, <2>2, CalmState DEF HonestStep
  <1>4. ASSUME Status(p) \/ LogsExec(p) PROVE HonestStep(p)
    <2>1. PICK cmd \in {"status", "logs", "exec"}, ok \in BOOLEAN : BWith(p, [NoBackendJob EXCEPT !.cmd = cmd, !.ok = ok])
      BY <1>4 DEF Status, LogsExec
    <2>2. bjob'[p].cmd # "destroy"
      BY <2>1, CalmState DEF BWith, NoBackendJob
    <2>3. bpc'[p] = "idle"
      BY <1>4 DEF Status, LogsExec, BMayBegin
    <2>4. Honest(docker', "idle", bjob'[p])
      BY RunHonest DEF RemovalPositions
    <2>5. QED
      BY <1>1, <2>2, <2>3, <2>4, CalmState DEF HonestStep
  <1>5. ASSUME BackendCrash(p) PROVE HonestStep(p)
    <2>1. bpc'[p] = "idle" /\ bjob'[p].cmd = "none"
      BY <1>5, CalmState DEF BackendCrash, BGoto, BWith, NoBackendJob
    <2>2. Honest(docker', "idle", bjob'[p])
      BY RunHonest DEF RemovalPositions
    <2>3. QED
      BY <1>1, <2>1, <2>2, CalmState DEF HonestStep
  <1>6. QED
    BY <1>2, <1>3, <1>4, <1>5

LEMMA CommandHonest ==
  ASSUME DInv, Calm, NEW p \in Procs, BackendCommand(p)
  PROVE  HonestStep(p)
  <1>1. CASE CheckExists(p) \/ EnsureOdooImage(p) \/ EnsureNetwork(p) \/ EnsureVolume(p) \/ WaitOdooHealthy(p)
    BY <1>1, LookingHonest
  <1>2. CASE CreateNetwork(p) \/ CreateVolume(p) \/ Provision(p)
    BY <1>2, CreatesHonest
  <1>3. CASE RunBootstrap(p) \/ RemoveBootstrap(p) \/ RunContainer(p)
    BY <1>3, BootstrapHonest
  <1>4. CASE RecordCustody(p)
    BY <1>4, RecordHonest
  <1>5. CASE Rollback(p)
    BY <1>5, RollbackHonest
  <1>6. CASE LookAtRuntime(p)
    BY <1>6, LookHonest
  <1>7. CASE \E i \in 1..3 : RemoveRuntime(p, i)
    BY <1>7, RemoveRuntimeHonest
  <1>8. CASE Consume(p)
    BY <1>8, ConsumeHonest
  <1>9. CASE ReclaimDatabase(p)
    BY <1>9, ReclaimDatabaseHonest
  <1>10. CASE ReclaimFilestore(p)
    BY <1>10, ReclaimFilestoreHonest
  <1>11. CASE CompleteReclaim(p)
    BY <1>11, CompleteHonest
  <1>12. CASE ReclaimRaises(p)
    BY <1>12, ReclaimRaisesHonest
  <1>13. QED
    BY <1>1, <1>2, <1>3, <1>4, <1>5, <1>6, <1>7, <1>8, <1>9, <1>10, <1>11, <1>12 DEF BackendCommand

-----------------------------------------------------------------------------
(* The process that steps is in the backend already, or begins a command   *)
(* there when no other is.                                                 *)
LEMMA CommandPositions ==
  ASSUME NEW p, BackendCommand(p)
  PROVE  bpc[p] # "idle"
  <1>1. ASSUME NEW i \in 1..3, RemoveRuntime(p, i) PROVE bpc[p] # "idle"
    <2>1. bpc[p] = <<"rm_postgres", "rm_odoo", "rm_network">>[i]
      BY <1>1 DEF RemoveRuntime
    <2>2. QED
      BY <2>1
  <1>2. CASE \/ Consume(p) \/ ReclaimDatabase(p) \/ ReclaimFilestore(p) \/ ReclaimRaises(p)
             \/ CompleteReclaim(p) \/ LookAtRuntime(p)
    BY <1>2 DEF Consume, ReclaimDatabase, ReclaimFilestore, ReclaimRaises, CompleteReclaim, LookAtRuntime
  <1>3. CASE CheckExists(p) \/ EnsureOdooImage(p) \/ EnsureNetwork(p) \/ CreateNetwork(p) \/ EnsureVolume(p)
    BY <1>3 DEF CheckExists, EnsureOdooImage, EnsureNetwork, CreateNetwork, EnsureVolume
  <1>4. CASE CreateVolume(p) \/ Provision(p) \/ RunBootstrap(p) \/ RemoveBootstrap(p) \/ RunContainer(p)
    BY <1>4 DEF CreateVolume, Provision, RunBootstrap, RemoveBootstrap, RunContainer
  <1>5. CASE WaitOdooHealthy(p) \/ RecordCustody(p) \/ Rollback(p)
    BY <1>5 DEF WaitOdooHealthy, RecordCustody, Rollback
  <1>6. QED
    BY <1>1, <1>2, <1>3, <1>4, <1>5 DEF BackendCommand

LEMMA OthersIdle ==
  ASSUME DInv, Calm, NEW p \in Procs, bpc[p] # "idle" \/ BMayBegin(p)
  PROVE  \A q \in Procs \ {p} : bpc[q] = "idle"
  <1>1. SUFFICES ASSUME NEW q \in Procs \ {p} PROVE bpc[q] = "idle"
    OBVIOUS
  <1>2. CASE bpc[p] # "idle"
    BY <1>2, CalmState DEF Sole
  <1>3. CASE BMayBegin(p)
    <2>1. bjob[q].cmd = "none"
      BY <1>3, CalmState DEF BMayBegin, NoBackendJob
    <2>2. Honest(docker, bpc[q], bjob[q])
      BY CalmState
    <2>3. QED
      BY <2>1, <2>2 DEF Honest
  <1>4. QED
    BY <1>2, <1>3

LEMMA CalmNext ==
  ASSUME DInv, Calm, Next
  PROVE  \/ UNCHANGED backendVars
         \/ \E p \in Procs : KeepsLocals(p) /\ HonestStep(p) /\ (bpc[p] # "idle" \/ BMayBegin(p))
  <1>1. IInv /\ calls' \in Nat
    BY CallsCounted DEF DInv
  <1>2. ASSUME NEW p \in Procs, HandOver(p) \/ RunBare(p)
        PROVE  KeepsLocals(p) /\ HonestStep(p) /\ BMayBegin(p)
    <2>1. CASE HandOver(p)
      BY <1>1, <2>1, StartRunKeeps, BeginsHonest DEF HandOver, StartRun
    <2>2. CASE RunBare(p)
      BY <1>1, <2>2, StartRunKeeps, BeginsHonest DEF RunBare, StartRun
    <2>3. QED
      BY <1>2, <2>1, <2>2
  <1>3. ASSUME NEW p \in Procs, BackendStep(p)
        PROVE  KeepsLocals(p) /\ HonestStep(p) /\ (bpc[p] # "idle" \/ BMayBegin(p))
    <2>1. CASE BackendCommand(p)
      BY <1>1, <2>1, CommandKeeps, CommandHonest, CommandPositions
    <2>2. CASE StartRemoval(p, "stop") \/ StartRemoval(p, "destroy") \/ Status(p) \/ LogsExec(p)
      BY <1>1, <2>2, StartsKeep, BeginsHonest DEF StartRemoval, Status, LogsExec
    <2>3. CASE BackendCrash(p)
      BY <1>1, <2>3, CrashKeeps, BeginsHonest DEF BackendCrash
    <2>4. QED
      BY <1>3, <2>1, <2>2, <2>3 DEF BackendStep
  <1>4. QED
    BY <1>2, <1>3 DEF Next

LEMMA OthersKept ==
  ASSUME IInv, NEW p \in Procs, KeepsLocals(p), NEW q \in Procs \ {p}
  PROVE  bpc'[q] = bpc[q] /\ bjob'[q] = bjob[q]
  BY DEF IInv, KeepsLocals, BGoto, BWith

LEMMA DInitial == Init => DInv
  <1> SUFFICES ASSUME Init PROVE DInv
    OBVIOUS
  <1>1. bpc = [p \in Procs |-> "idle"]
    BY DEF Init, BackendInit
  <1>2. docker["bootstrap"] = Absent
    BY DEF Init, BackendInit, Parts, Containers, Volumes
  <1>3. \A p \in Procs : Honest(docker, bpc[p], bjob[p])
    BY <1>1, RunHonest DEF RemovalPositions
  <1>4. QED
    BY <1>1, <1>2, <1>3, Initial DEF DInv, Sole, BootstrapMounts

LEMMA DInductive == DInv /\ [Next]_localVars => DInv'
  <1> SUFFICES ASSUME DInv, [Next]_localVars PROVE DInv'
    OBVIOUS
  <1>1. IInv'
    BY Inductive DEF DInv
  <1>2. UNCHANGED world
    BY DEF Next, localVars
  <1>3. CASE UNCHANGED backendVars
    <2>1. UNCHANGED <<docker, bpc, bjob, world>>
      BY <1>2, <1>3 DEF backendVars
    <2>2. QED
      BY <1>1, <2>1 DEF DInv, Calm, Sole
  <1>4. CASE ~Calm
    BY <1>1, <1>2, <1>4 DEF DInv, Calm
  <1>5. ASSUME Calm, NEW p \in Procs, KeepsLocals(p), HonestStep(p), bpc[p] # "idle" \/ BMayBegin(p)
        PROVE  DInv'
    <2>1. \A q \in Procs \ {p} : bpc'[q] = "idle"
      BY <1>5, OthersIdle, OthersKept DEF DInv
    <2>2. Sole'
      BY <2>1 DEF Sole
    <2>3. \A q \in Procs : Honest(docker', bpc'[q], bjob'[q])
      BY <1>5, <2>1, RunHonest DEF HonestStep, RemovalPositions
    <2>4. QED
      BY <1>1, <1>5, <2>2, <2>3 DEF DInv, HonestStep
  <1>6. QED
    BY <1>3, <1>4, <1>5, CalmNext DEF localVars

(* A destroy that reports success has removed every part of the instance,  *)
(* after any history of runs, stops, timeouts and crashes that do not      *)
(* overlap: a part is reported removed or absent only when it is gone, the *)
(* data is looked at after the whole runtime has gone, and a bootstrap     *)
(* container keeps its filestore (DockerBackendProvider.destroy and        *)
(* _reclaim_data).                                                         *)
THEOREM DestroyTruthful == Spec => DestroyHonest
  <1> DEFINE Truthful == Calm => \A p \in Procs : Destroyed(p) => \A x \in Parts : docker'[x] = Absent
  <1>1. ASSUME DInv, Calm, Next, NEW p \in Procs, Destroyed(p)
        PROVE  \A x \in Parts : docker'[x] = Absent
    <2>1. bpc[p] # "idle" /\ bpc'[p] = "idle" /\ bjob'[p].cmd = "destroy" /\ bjob'[p].ok
      BY <1>1 DEF Destroyed
    <2>2. PICK q \in Procs : KeepsLocals(q) /\ HonestStep(q)
      BY <1>1, <2>1, CalmNext DEF backendVars
    <2>3. q = p
      BY <1>1, <2>1, <2>2, OthersKept DEF DInv
    <2>4. QED
      BY <2>1, <2>2, <2>3 DEF HonestStep
  <1>2. DInv /\ [Next]_localVars => [Truthful]_backendVars
    BY <1>1 DEF localVars
  <1>3. QED
    BY <1>2, DInitial, DInductive, PTL DEF Spec, DestroyHonest, Calm
-----------------------------------------------------------------------------
(* What parsing leaves of the layers. *)
LEMMA ParsedGit ==
  ASSUME NEW m \in Manifests, Parses(m)
  PROVE  Git(Parse(m)) \in Seq(ToSet(m.layers))
  <1>1. Parse(m).layers = m.layers
    BY ManifestsAssumption DEF Parses, Parse, IsManifest, ManifestFields
  <1>2. Git(Parse(m)) = Git(m)
    BY <1>1 DEF Git
  <1>3. QED
    BY <1>2, ManifestsAssumption DEF IsManifest

LEMMA SingletonsAreList ==
  ASSUME NEW m
  PROVE  \E S : Singletons(m) \in Seq(S)
  <1> DEFINE c == [name |-> "core", repo |-> Defaulted(m, m.core)]
             e == [name |-> "enterprise", repo |-> Defaulted(m, m.enterprise)]
  <1>1. CASE m.enterprise = NoRepo
    <2>1. Singletons(m) = <<c>> \o <<>>
      BY <1>1 DEF Singletons
    <2> HIDE DEF c, e
    <2>2. Singletons(m) \in Seq({c})
      BY <2>1
    <2>3. QED
      BY <2>2
  <1>2. CASE m.enterprise # NoRepo
    <2>1. Singletons(m) = <<c>> \o <<e>>
      BY <1>2 DEF Singletons
    <2> HIDE DEF c, e
    <2>2. Singletons(m) \in Seq({c, e})
      BY <2>1
    <2>3. QED
      BY <2>2
  <1>3. QED
    BY <1>1, <1>2

LEMMA SeqIsFcn ==
  ASSUME NEW S, NEW s \in Seq(S)
  PROVE  s \in [1..Len(s) -> S]
  OBVIOUS

(* A function on 1..n is a list of that length. *)
LEMMA IsList ==
  ASSUME NEW n \in Nat, NEW f, f = [i \in 1..n |-> f[i]], NEW S, \A i \in 1..n : f[i] \in S
  PROVE  f \in Seq(S) /\ Len(f) = n
  <1>1. f \in [1..n -> S]
    OBVIOUS
  <1>2. f \in Seq(S)
    BY <1>1
  <1>3. Len(f) \in Nat /\ 1..Len(f) = 1..n
    BY <1>1, <1>2
  <1>4. Len(f) \in 1..n \/ Len(f) = 0
    BY <1>3
  <1>5. n \in 1..Len(f) \/ n = 0
    BY <1>3
  <1>6. QED
    BY <1>2, <1>3, <1>4, <1>5

(* A list of two parts, element by element. *)
LEMMA TwoParts ==
  ASSUME NEW n \in Nat, NEW k \in Nat,
         NEW a, a = [i \in 1..n |-> a[i]], NEW b, b = [i \in 1..k |-> b[i]]
  PROVE  /\ a \o b = [i \in 1..(n + k) |-> (a \o b)[i]]
         /\ \A i \in 1..n : (a \o b)[i] = a[i]
         /\ \A i \in 1..(n + k) : i > n => (i - n) \in 1..k /\ (a \o b)[i] = b[i - n]
  <1> DEFINE S == {a[i] : i \in 1..n} \cup {b[i] : i \in 1..k}
  <1>1. a \in Seq(S) /\ Len(a) = n
    <2>1. \A i \in 1..n : a[i] \in S
      OBVIOUS
    <2> HIDE DEF S
    <2>2. QED
      BY <2>1, IsList
  <1>2. b \in Seq(S) /\ Len(b) = k
    <2>1. \A i \in 1..k : b[i] \in S
      OBVIOUS
    <2> HIDE DEF S
    <2>2. QED
      BY <2>1, IsList
  <1> HIDE DEF S
  <1>3. a \o b \in Seq(S) /\ Len(a \o b) = n + k
    BY <1>1, <1>2
  <1>4. a \o b \in [1..(n + k) -> S]
    BY <1>3, SeqIsFcn
  <1>5. ASSUME NEW i \in 1..n PROVE (a \o b)[i] = a[i]
    BY <1>1, <1>2
  <1>6. ASSUME NEW i \in 1..(n + k), i > n PROVE (i - n) \in 1..k /\ (a \o b)[i] = b[i - n]
    <2>1. (i - n) \in 1..k
      BY <1>6
    <2>2. QED
      BY <1>1, <1>2, <1>6, <2>1
  <1>7. QED
    BY <1>4, <1>5, <1>6

(* What build_lock names for a repository is what the check expects. *)
LEMMA SourceExpected ==
  ASSUME NEW m, NEW layer, NEW r
  PROVE  <<ResolveRepo(m, layer, r).url, ResolveRepo(m, layer, r).ref>> =
         (IF \E o \in ToSet(m.overrides) : <<o.layer, o.repo>> = <<layer, r.url>>
          THEN LET o == m.overrides[Max(OverridesOf(m, layer, r.url))] IN <<o.fork, o.ref>>
          ELSE <<r.url, r.ref>>)
  <1>1. (\E o \in ToSet(m.overrides) : <<o.layer, o.repo>> = <<layer, r.url>>) <=> OverridesOf(m, layer, r.url) # {}
    BY DEF ToSet, OverridesOf
  <1>2. QED
    BY <1>1 DEF ResolveRepo

(* A lock that build_lock makes has the structure that is expected of it.  *)
LEMMA BuildMatches ==
  ASSUME NEW m, NEW S, Git(m) \in Seq(S), Composes(m), NEW head
  PROVE  LockStructureMatches(m, BuildLock(m, head))
  <1> DEFINE alone == Singletons(m)
             git == Git(m)
             n == Len(alone)
             k == Len(git)
             Pin(repo) == [url |-> repo.url, ref |-> repo.ref, commit |-> head[repo]]
             Names(l) == <<l.name, [j \in DOMAIN l.repos |-> <<l.repos[j].url, l.repos[j].ref>>]>>
             Source(layer, r) ==
                 IF \E o \in ToSet(m.overrides) : <<o.layer, o.repo>> = <<layer, r.url>>
                 THEN LET o == m.overrides[Max(OverridesOf(m, layer, r.url))] IN <<o.fork, o.ref>>
                 ELSE <<r.url, r.ref>>
             a == [i \in DOMAIN alone |-> <<alone[i].name, <<<<alone[i].repo.url, alone[i].repo.ref>>>>>>]
             b == [i \in DOMAIN git |->
                     <<git[i].name, [j \in DOMAIN git[i].repos |-> Source(git[i].name, git[i].repos[j])]>>]
             c == [i \in DOMAIN alone |->
                     [name |-> alone[i].name, repos |-> [j \in DOMAIN <<alone[i].repo>> |-> Pin(<<alone[i].repo>>[j])]]]
             d == [i \in DOMAIN git |->
                     LET repos == [j \in DOMAIN git[i].repos |-> ResolveRepo(m, git[i].name, git[i].repos[j])]
                     IN  [name |-> git[i].name, repos |-> [j \in DOMAIN repos |-> Pin(repos[j])]]]
             lk == BuildLock(m, head)
  <1>1. n \in Nat /\ DOMAIN alone = 1..n /\ k \in Nat /\ DOMAIN git = 1..k
    BY SingletonsAreList
  <1>2. lk.git = c \o d /\ lk.published = [i \in DOMAIN Published(m) |->
            [name |-> Published(m)[i].name, source |-> Published(m)[i].source]]
    BY DEF BuildLock
  <1>3. ExpectedGit(m) = a \o b
    BY DEF ExpectedGit
  <1>4. ASSUME NEW i \in 1..n PROVE Names(c[i]) = a[i]
    <2> DEFINE r == alone[i].repo
    <2>1. c[i] = [name |-> alone[i].name, repos |-> [j \in DOMAIN <<r>> |-> Pin(<<r>>[j])]]
      BY <1>1
    <2>2. a[i] = <<alone[i].name, <<<<r.url, r.ref>>>>>>
      BY <1>1
    <2> HIDE DEF r, a, c
    <2>3. DOMAIN c[i].repos = {1} /\ c[i].repos[1].url = r.url /\ c[i].repos[1].ref = r.ref /\ c[i].name = alone[i].name
      BY <2>1
    <2>4. [j \in DOMAIN c[i].repos |-> <<c[i].repos[j].url, c[i].repos[j].ref>>] = [j \in {1} |-> <<r.url, r.ref>>]
      BY <2>3
    <2>5. [j \in {1} |-> <<r.url, r.ref>>] = <<<<r.url, r.ref>>>>
      OBVIOUS
    <2>6. QED
      BY <2>2, <2>3, <2>4, <2>5
  <1>5. ASSUME NEW i \in 1..k PROVE Names(d[i]) = b[i]
    <2>1. DOMAIN d[i].repos = DOMAIN git[i].repos /\ d[i].name = git[i].name
      BY <1>1
    <2>2. ASSUME NEW j \in DOMAIN git[i].repos
          PROVE  <<d[i].repos[j].url, d[i].repos[j].ref>> = Source(git[i].name, git[i].repos[j])
      <3>1. d[i].repos[j] = Pin(ResolveRepo(m, git[i].name, git[i].repos[j]))
        BY <1>1
      <3> DEFINE r == ResolveRepo(m, git[i].name, git[i].repos[j])
      <3>2. d[i].repos[j].url = r.url /\ d[i].repos[j].ref = r.ref
        <4> HIDE DEF r, d
        <4>1. d[i].repos[j] = Pin(r)
          BY <3>1 DEF r
        <4>2. QED
          BY <4>1
      <3>3. <<r.url, r.ref>> = Source(git[i].name, git[i].repos[j])
        BY SourceExpected
      <3>4. QED
        <4> HIDE DEF r, d, Source
        <4>1. QED
          BY <3>2, <3>3
    <2>3. QED
      BY <1>1, <2>1, <2>2
  <1>6. a = [i \in 1..n |-> a[i]] /\ b = [i \in 1..k |-> b[i]]
    BY <1>1
  <1>7. c = [i \in 1..n |-> c[i]] /\ d = [i \in 1..k |-> d[i]]
    BY <1>1
  <1> HIDE DEF a, b, c, d, n, k
  <1>8. a \o b = [i \in DOMAIN (c \o d) |-> Names((c \o d)[i])]
    <2> DEFINE x == a \o b
               y == c \o d
    <2>1. /\ x = [i \in 1..(n + k) |-> x[i]] /\ \A i \in 1..n : x[i] = a[i]
          /\ \A i \in 1..(n + k) : i > n => (i - n) \in 1..k /\ x[i] = b[i - n]
      <3>1. n \in Nat /\ k \in Nat
        BY <1>1
      <3>2. QED
        BY <1>6, <3>1, TwoParts
    <2>2. /\ y = [i \in 1..(n + k) |-> y[i]] /\ \A i \in 1..n : y[i] = c[i]
          /\ \A i \in 1..(n + k) : i > n => (i - n) \in 1..k /\ y[i] = d[i - n]
      <3>1. n \in Nat /\ k \in Nat
        BY <1>1
      <3>2. QED
        BY <1>7, <3>1, TwoParts
    <2> HIDE DEF x, y
    <2>3. ASSUME NEW i \in 1..(n + k) PROVE x[i] = Names(y[i])
      <3>1. CASE i <= n
        <4>1. i \in 1..n
          BY <1>1, <3>1
        <4>2. QED
          BY <1>4, <2>1, <2>2, <4>1
      <3>2. CASE i > n
        BY <1>5, <2>1, <2>2, <3>2
      <3>3. QED
        BY <1>1, <3>1, <3>2
    <2>4. x = [i \in DOMAIN y |-> Names(y[i])]
      BY <2>1, <2>2, <2>3
    <2>5. QED
      BY <2>4 DEF x, y
  <1>9. ExpectedGit(m) = [i \in DOMAIN lk.git |-> Names(lk.git[i])]
    BY <1>2, <1>3, <1>8
  <1> HIDE DEF lk
  <1>10. LockStructureMatches(m, lk)
    BY <1>2, <1>9 DEF LockStructureMatches
  <1>11. QED
    BY <1>10 DEF lk
(* The inductive invariant of LockCoherent: what a command holds on the    *)
(* way to project.lock is a manifest of the user's, or a lock built from   *)
(* one.                                                                    *)
HoldsWhole(l, j) ==
    /\ l = "create" => j.m \in Manifests
    /\ l = "resolve" => "lock" \in DOMAIN j /\ \E S : Git(j.m) \in Seq(S)
    /\ l = "write" => LockStructureMatches(j.lock.from, j.lock)

CInv ==
    /\ manifest \in Manifests \cup {NoManifest}
    /\ LockCoherent
    /\ pc = [p \in Procs |-> pc[p]] /\ job = [p \in Procs |-> job[p]]
    /\ \A p \in Procs : HoldsWhole(pc[p], job[p])

LEMMA CInitial == Init => CInv
  <1>1. SUFFICES ASSUME Init PROVE CInv
    OBVIOUS
  <1>2. /\ manifest \in Manifests \cup {NoManifest}
        /\ pc = [p \in Procs |-> "idle"] /\ job = [p \in Procs |-> NoJob]
        /\ lock = NoLock \/ (Locks(manifest) /\ lock = BuildLock(Parse(manifest), remote))
    BY <1>1 DEF Init, WorkspaceInit
  <1>3. LockCoherent
    <2>1. ASSUME Locks(manifest), lock = BuildLock(Parse(manifest), remote)
          PROVE  LockStructureMatches(lock.from, lock)
      <3>1. lock.from = Parse(manifest)
        BY <2>1 DEF BuildLock
      <3>2. manifest \in Manifests /\ Parses(manifest) /\ Composes(Parse(manifest))
        BY <1>2, <2>1 DEF Locks
      <3>3. Git(Parse(manifest)) \in Seq(ToSet(manifest.layers))
        BY <3>2, ParsedGit
      <3>4. QED
        BY <2>1, <3>1, <3>2, <3>3, BuildMatches
    <2>2. QED
      BY <1>2, <2>1 DEF LockCoherent
  <1>4. QED
    BY <1>2, <1>3 DEF CInv, HoldsWhole

(* A step of p that writes neither file and does not lead there. *)
Aside(p) ==
    /\ UNCHANGED <<manifest, lock>>
    /\ \E l \in Positions \ {"create", "resolve", "write"} : Goto(p, l)
    /\ UNCHANGED job \/ \E j : With(p, j)

LEMMA LocalsWhole ==
  ASSUME CInv, NEW p \in Procs, NEW l, NEW j, Goto(p, l), With(p, j) \/ (UNCHANGED job /\ j = job[p]),
         HoldsWhole(l, j), LockCoherent', manifest' \in Manifests \cup {NoManifest}
  PROVE  CInv'
  <1>1. pc' = [pc EXCEPT ![p] = l] /\ job' = [job EXCEPT ![p] = j]
    BY DEF CInv, Goto, With
  <1>2. pc' = [q \in Procs |-> pc'[q]] /\ job' = [q \in Procs |-> job'[q]]
    BY <1>1 DEF CInv
  <1>3. ASSUME NEW q \in Procs PROVE HoldsWhole(pc'[q], job'[q])
    BY <1>1 DEF CInv
  <1>4. QED
    BY <1>2, <1>3 DEF CInv

LEMMA AsideKeeps ==
  ASSUME CInv, NEW p \in Procs, Aside(p)
  PROVE  CInv'
  <1>1. PICK l \in Positions \ {"create", "resolve", "write"} : Goto(p, l)
    BY DEF Aside
  <1>2. PICK j : With(p, j) \/ (UNCHANGED job /\ j = job[p])
    BY DEF Aside
  <1>3. HoldsWhole(l, j)
    BY DEF HoldsWhole
  <1>4. LockCoherent' /\ manifest' \in Manifests \cup {NoManifest}
    BY DEF Aside, CInv, LockCoherent
  <1>5. QED
    BY <1>1, <1>2, <1>3, <1>4, LocalsWhole

LEMMA NextEntryAside ==
  ASSUME NEW p \in Procs, NextEntry(p), UNCHANGED <<manifest, lock>>
  PROVE  Aside(p)
  BY DEF NextEntry, Aside, End, Positions

LEMMA FailAside ==
  ASSUME NEW p \in Procs, NEW ok, End(p, ok), UNCHANGED <<manifest, lock>>
  PROVE  Aside(p)
  BY DEF Aside, End, Positions

LEMMA ProjectAside ==
  ASSUME NEW p \in Procs,
         PlanProject(p) \/ Survey(p) \/ Inspect(p) \/ StartClone(p) \/ Fetch(p) \/ SwapOut(p)
  PROVE  Aside(p)
  <1>1. UNCHANGED <<manifest, lock>>
    BY DEF PlanProject, Survey, Inspect, StartClone, Fetch, SwapOut, files
  <1>2. ASSUME NEW l \in {"inspect", "clone", "fetch", "swap_out", "swap_in"}, Goto(p, l),
               UNCHANGED job \/ \E j : With(p, j)
        PROVE  Aside(p)
    BY <1>1, <1>2 DEF Aside, Positions
  <1>3. QED
    BY <1>1, <1>2, NextEntryAside, FailAside
       DEF PlanProject, Survey, Inspect, StartClone, Fetch, SwapOut, Fail

LEMMA RestAside ==
  ASSUME NEW p \in Procs,
         SwapIn(p) \/ Reap(p) \/ Verify(p) \/ Check(p) \/ PlanMounts(p) \/ Promote(p)
  PROVE  Aside(p)
  <1>1. UNCHANGED <<manifest, lock>>
    BY DEF SwapIn, Reap, Verify, Check, PlanMounts, Promote, files
  <1>2. ASSUME NEW l \in {"reap", "run"}, Goto(p, l), UNCHANGED job \/ \E j : With(p, j)
        PROVE  Aside(p)
    BY <1>1, <1>2 DEF Aside, Positions
  <1>3. QED
    BY <1>1, <1>2, NextEntryAside, FailAside
       DEF SwapIn, Reap, Verify, Check, PlanMounts, Promote, Fail
(* The commands that write the two files. *)
LEMMA WritersKeep ==
  ASSUME CInv, NEW p \in Procs, CreateManifest(p) \/ Resolve(p) \/ WriteLock(p)
  PROVE  CInv'
  <1>1. ASSUME NEW ok, End(p, ok), LockCoherent', manifest' \in Manifests \cup {NoManifest} PROVE CInv'
    <2>1. HoldsWhole("idle", [NoJob EXCEPT !.ok = ok])
      BY DEF HoldsWhole
    <2>2. QED
      BY <1>1, <2>1, LocalsWhole DEF End
  <1>2. ASSUME UNCHANGED lock PROVE LockCoherent'
    BY <1>2 DEF CInv, LockCoherent
  <1>3. CASE CreateManifest(p)
    <2>1. manifest' \in Manifests \cup {NoManifest}
      BY <1>3 DEF CreateManifest, CInv, HoldsWhole
    <2>2. QED
      BY <1>1, <1>2, <1>3, <2>1 DEF CreateManifest
  <1>4. CASE Resolve(p)
    <2>1. UNCHANGED <<manifest, lock>> /\ LockCoherent' /\ manifest' \in Manifests \cup {NoManifest}
      BY <1>2, <1>4 DEF Resolve, files, CInv
    <2>2. ASSUME Composes(job[p].m), Goto(p, "write"), NEW head,
                 With(p, [job[p] EXCEPT !.lock = BuildLock(job[p].m, head)])
          PROVE  CInv'
      <3> DEFINE new == BuildLock(job[p].m, head)
                 j == [job[p] EXCEPT !.lock = new]
      <3>1. PICK S : Git(job[p].m) \in Seq(S)
        BY <1>4 DEF Resolve, CInv, HoldsWhole
      <3>2. LockStructureMatches(job[p].m, new)
        BY <2>2, <3>1, BuildMatches
      <3>3. new.from = job[p].m
        BY DEF BuildLock
      <3> HIDE DEF new
      <3>4. j.lock = new
        BY <1>4 DEF Resolve, CInv, HoldsWhole
      <3>5. With(p, j)
        BY <2>2 DEF new
      <3> HIDE DEF j
      <3>6. HoldsWhole("write", j)
        BY <3>2, <3>3, <3>4 DEF HoldsWhole
      <3>7. QED
        BY <2>1, <2>2, <3>5, <3>6, LocalsWhole
    <2>3. QED
      BY <1>1, <1>4, <2>1, <2>2 DEF Resolve, Fail
  <1>5. CASE WriteLock(p)
    <2>1. ASSUME lock' = job[p].lock PROVE LockCoherent'
      BY <1>5, <2>1 DEF WriteLock, CInv, HoldsWhole, LockCoherent
    <2>2. manifest' \in Manifests \cup {NoManifest}
      BY <1>5 DEF WriteLock, CInv
    <2>3. QED
      BY <1>1, <1>2, <1>5, <2>1, <2>2 DEF WriteLock, Fail
  <1>6. QED
    BY <1>3, <1>4, <1>5

LEMMA BeginKeeps ==
  ASSUME CInv, NEW p \in Procs, BeginCommand(p) \/ BeginUnlock(p)
  PROVE  CInv'
  <1>1. UNCHANGED <<manifest, lock>> /\ LockCoherent' /\ manifest' \in Manifests \cup {NoManifest}
    BY DEF BeginCommand, BeginUnlock, Configure, Read, OnboardCatalog, files, CInv, LockCoherent
  <1>2. ASSUME Configure(p) PROVE CInv'
    <2>1. PICK m \in Manifests : Goto(p, "create") /\ With(p, [NoJob EXCEPT !.cmd = "configure", !.m = m])
      BY <1>2 DEF Configure
    <2> DEFINE j == [NoJob EXCEPT !.cmd = "configure", !.m = m]
    <2>2. j.m = m
      BY DEF NoJob
    <2>3. HoldsWhole("create", j)
      BY <2>2 DEF HoldsWhole
    <2> HIDE DEF j
    <2>4. With(p, j)
      BY <2>1 DEF j
    <2>5. QED
      BY <1>1, <2>1, <2>3, <2>4, LocalsWhole
  <1>3. ASSUME Read(p, "lock", "resolve") PROVE CInv'
    <2> DEFINE j == [NoJob EXCEPT !.cmd = "lock", !.m = Parse(manifest)]
    <2>1. manifest \in Manifests /\ Parses(manifest) /\ Goto(p, "resolve") /\ With(p, j)
      BY <1>3 DEF Read, CInv
    <2>2. j.m = Parse(manifest) /\ "lock" \in DOMAIN j
      BY DEF NoJob
    <2>3. Git(Parse(manifest)) \in Seq(ToSet(manifest.layers))
      BY <2>1, ParsedGit
    <2> HIDE DEF j
    <2>4. HoldsWhole("resolve", j)
      BY <2>2, <2>3 DEF HoldsWhole
    <2>5. QED
      BY <1>1, <2>1, <2>4, LocalsWhole
  <1>4. ASSUME NEW l \in {"check", "plan", "survey", "mounts", "promote"}, Goto(p, l), \E j : With(p, j) PROVE CInv'
    <2>1. Aside(p)
      BY <1>1, <1>4 DEF Aside, Positions
    <2>2. QED
      BY <2>1, AsideKeeps
  <1>5. ASSUME BeginUnlock(p) PROVE CInv'
    BY <1>4, <1>5 DEF BeginUnlock
  <1>6. ASSUME NEW cmd, NEW l \in {"check", "plan", "survey", "mounts"}, Read(p, cmd, l) PROVE CInv'
    BY <1>4, <1>6 DEF Read
  <1>7. QED
    BY <1>2, <1>3, <1>5, <1>6 DEF BeginCommand, OnboardCatalog

LEMMA CInductive == CInv /\ [Next]_localVars => CInv'
  <1>1. SUFFICES ASSUME CInv, [Next]_localVars PROVE CInv'
    OBVIOUS
  <1>2. ASSUME UNCHANGED <<manifest, lock, pc, job>> PROVE CInv'
    BY <1>1, <1>2 DEF CInv, LockCoherent
  <1>3. ASSUME NEW p \in Procs, WorkspaceStep(p) PROVE CInv'
    <2>1. ASSUME Command(p) PROVE CInv'
      BY <1>1, <2>1, WritersKeep, ProjectAside, RestAside, AsideKeeps DEF Command
    <2>2. ASSUME Crash(p) PROVE CInv'
      <3>1. Aside(p)
        BY <2>2 DEF Crash, Aside, files, Positions
      <3>2. QED
        BY <1>1, <3>1, AsideKeeps
    <2>3. QED
      BY <1>1, <1>3, <2>1, <2>2, BeginKeeps DEF WorkspaceStep
  <1>4. ASSUME NEW p \in Procs, HandOver(p) PROVE CInv'
    <2>1. Aside(p)
      BY <1>4, FailAside DEF HandOver, files
    <2>2. QED
      BY <1>1, <2>1, AsideKeeps
  <1>5. ASSUME NEW p \in Procs, RunBare(p) \/ UNCHANGED workspaceVars PROVE CInv'
    BY <1>2, <1>5 DEF RunBare, workspaceVars, files
  <1>6. ASSUME WorkspaceEnv PROVE CInv'
    <2>1. UNCHANGED <<lock, pc, job>> /\ manifest' \in Manifests \cup {NoManifest}
      BY <1>1, <1>6 DEF WorkspaceEnv, EditManifest, Push, EditTree, CInv
    <2>2. QED
      BY <1>1, <2>1 DEF CInv, LockCoherent
  <1>7. ASSUME UNCHANGED localVars PROVE CInv'
    BY <1>2, <1>7 DEF localVars, workspaceVars, files
  <1>8. QED
    BY <1>1, <1>3, <1>4, <1>5, <1>6, <1>7 DEF Next

(* project.lock is one whole lock of the manifest whose hash it carries:   *)
(* no interleaving of configure, lock, edits and deaths makes it another   *)
(* (locking.py 24-104, projection.py 435-472).                             *)
THEOREM LockAlwaysCoherent == Spec => []LockCoherent
  <1>1. CInv => LockCoherent
    BY DEF CInv
  <1>2. QED
    BY <1>1, CInitial, CInductive, PTL DEF Spec

-----------------------------------------------------------------------------
(* The shapes of paths: a checkout or a worktree has its place below a     *)
(* mount root, a clone under way lies beside one under a temporary name,   *)
(* and a backup one level deeper.                                          *)
IsPath(x) == x \in Seq(ToSet(x))

Depth(x) == IF x[1] = "custom" THEN 4 ELSE 3

IsPlace(x) == IsPath(x) /\ Len(x) = Depth(x) /\ Last(x) \notin TempNames

IsClone(x) == IsPath(x) /\ Len(x) = Depth(x) /\ Last(x) \in TempNames

IsBackup(x) == IsPath(x) /\ Len(x) = Depth(x) + 1

(* What is known of a lock: lists, the core alone in the first layer, and  *)
(* upstream commits of repositories that some manifest names.              *)
AllUrls == {s.url : s \in AllSources}

PinOK(r) == r.url \in AllUrls /\ r.commit \in Commits

IsLock(k) ==
    /\ k.git \in Seq(ToSet(k.git)) /\ Len(k.git) # 0
    /\ \A i \in DOMAIN k.git : /\ k.git[i].repos \in Seq(ToSet(k.git[i].repos))
                               /\ \A r \in ToSet(k.git[i].repos) : PinOK(r)
    /\ Len(k.git[1].repos) # 0

(* The plan a command follows, and where it is in it. *)
PlanOf(j) == PlanProjection(j.m, j.lock)

StepOK(s) == IsPlace(s.path) /\ s.url \in AllUrls /\ s.commit \in Commits

Planned(j) ==
    /\ PlanOf(j) \in Seq(ToSet(PlanOf(j)))
    /\ Len(PlanOf(j)) # 0
    /\ \A s \in ToSet(PlanOf(j)) : StepOK(s)

DestOf(j) == PlanOf(j)[j.at].path

Looked == {"clone", "fetch", "swap_out"}

Cloning == {"fetch", "swap_out", "swap_in"}

Projecting == {"inspect", "reap"} \cup Looked \cup Cloning

IsJob(j) ==
    j = [cmd |-> j.cmd, m |-> j.m, lock |-> j.lock, at |-> j.at, clone |-> j.clone,
         backup |-> j.backup, target |-> j.target, view |-> j.view, ok |-> j.ok]

(* The locals of a command. *)
Carries(l, j) ==
    /\ l \in Positions
    /\ IsJob(j)
    /\ l = "create" => j.m \in Manifests
    /\ l = "resolve" => \E m \in Manifests : Parses(m) /\ j.m = Parse(m)
    /\ l = "write" => IsLock(j.lock)
    /\ l \in {"plan", "survey"} => j.at = 1
    /\ l \in Projecting => Planned(j) /\ j.at \in DOMAIN PlanOf(j)
    /\ l = "verify" => Planned(j)
    /\ l = "promote" => IsPlace(j.target.dest) /\ IsPlace(j.target.source)
    /\ j.backup # <<>> => l \in {"swap_in", "reap"}
    /\ l = "reap" => j.backup # <<>>

(* What a process knows of the disk: its clone and its backup are there,   *)
(* and a checkout it has looked at is dirty only when it was edited since. *)
SeesDisk(p, d, l, j) ==
    /\ l \in Cloning => j.clone \in DOMAIN d /\ IsClone(j.clone) /\ ~d[j.clone].dirty
    /\ j.backup # <<>> => /\ j.backup \in DOMAIN d /\ j.backup \in Backups(DestOf(j))
                          /\ d[j.backup].dirty => p \in d[j.backup].late
    /\ l \in Looked /\ DestOf(j) \in DOMAIN d /\ d[DestOf(j)].dirty => p \in d[DestOf(j)].late

(* A copy of a placed checkout that no process is about to delete. *)
Kept(d, path) ==
    \E w \in DOMAIN d \cap ({path} \cup Backups(path)) :
        \A p \in Procs : pc[p] = "reap" => job[p].backup # w

(* The inductive invariant of the workspace. *)
WInv ==
    /\ manifest \in Manifests \cup {NoManifest}
    /\ remote \in [AllSources -> Commits]
    /\ lock # NoLock => IsLock(lock)
    /\ pc = [p \in Procs |-> pc[p]] /\ job = [p \in Procs |-> job[p]]
    /\ \A p \in Procs : Carries(pc[p], job[p]) /\ SeesDisk(p, disk, pc[p], job[p])
    /\ \A p \in Procs : job[p].backup # <<>> => DestOf(job[p]) \in placed
    /\ \A p, q \in Procs : p # q => /\ pc[p] \in Cloning /\ pc[q] \in Cloning => job[p].clone # job[q].clone
                                    /\ job[p].backup # <<>> => job[p].backup # job[q].backup
    /\ \A path \in placed : IsPlace(path) /\ Kept(disk, path)
    /\ \A path \in DOMAIN disk : /\ path \in placed \/ IsClone(path) \/ IsBackup(path)
                                 /\ disk[path] \in Trees
-----------------------------------------------------------------------------
(* Shapes of paths. *)
LEMMA ShapesApart ==
  ASSUME NEW x
  PROVE  /\ ~(IsPlace(x) /\ IsClone(x)) /\ ~(IsPlace(x) /\ IsBackup(x)) /\ ~(IsClone(x) /\ IsBackup(x))
         /\ IsPlace(x) \/ IsClone(x) \/ IsBackup(x) => x # <<>>
  BY DEF IsPlace, IsClone, IsBackup, Depth

LEMMA BesidePlace ==
  ASSUME NEW d, IsPlace(d), NEW t \in TempNames
  PROVE  /\ IsClone(Front(d) \o <<t>>)
         /\ IsBackup(Front(d) \o <<t, Last(d)>>)
         /\ IsPrefix(Front(d) \o <<t>>, Front(d) \o <<t>>)
         /\ IsPrefix(Front(d) \o <<t>>, Front(d) \o <<t, Last(d)>>)
  <1> DEFINE S == ToSet(d) \cup TempNames
             n == Len(d)
             f == Front(d)
             c == f \o <<t>>
             b == f \o <<t, Last(d)>>
  <1>1. d \in Seq(S) /\ n \in Nat /\ n >= 3 /\ Last(d) \in S /\ t \in S /\ t \in TempNames
    BY DEF IsPlace, IsPath, Depth, ToSet, Last
  <1> HIDE DEF S
  <1>2. f \in Seq(S) /\ Len(f) = n - 1 /\ \A i \in 1..(n - 1) : f[i] = d[i]
    BY <1>1 DEF Front
  <1>3. c \in Seq(S) /\ Len(c) = n /\ (\A i \in 1..(n - 1) : c[i] = d[i]) /\ c[n] = t
    <2> HIDE DEF f, n
    <2>1. <<t>> \in Seq(S) /\ Len(<<t>>) = 1
      BY <1>1
    <2>2. QED
      BY <1>1, <1>2, <2>1
  <1>4. b \in Seq(S) /\ Len(b) = n + 1 /\ (\A i \in 1..(n - 1) : b[i] = d[i]) /\ b[n] = t /\ b[n + 1] = Last(d)
    <2> DEFINE u == <<t, Last(d)>>
    <2>1. u \in Seq(S) /\ Len(u) = 2 /\ u[1] = t /\ u[2] = Last(d)
      BY <1>1
    <2> HIDE DEF f, n, u
    <2>2. QED
      BY <1>1, <1>2, <2>1 DEF u
  <1>5. n = Depth(d)
    BY DEF IsPlace
  <1> HIDE DEF c, b, f, n
  <1>6. Depth(c) = n /\ Depth(b) = n
    BY <1>1, <1>3, <1>4, <1>5 DEF Depth
  <1>7. IsPath(c) /\ IsPath(b)
    BY <1>3, <1>4 DEF IsPath, ToSet
  <1>8. IsClone(c) /\ IsBackup(b)
    BY <1>1, <1>3, <1>4, <1>6, <1>7 DEF IsClone, IsBackup, Last
  <1>9. IsPrefix(c, c) /\ IsPrefix(c, b)
    BY <1>1, <1>3, <1>4 DEF IsPrefix
  <1>10. QED
    BY <1>8, <1>9 DEF c, b, f

(* A backup tells which checkout it is of. *)
LEMMA BackupOfOne ==
  ASSUME NEW d, IsPlace(d), NEW e, IsPlace(e), NEW b \in Backups(d) \cap Backups(e)
  PROVE  d = e
  <1>1. ASSUME NEW x, IsPlace(x), b \in Backups(x)
        PROVE  /\ Len(b) = Len(x) + 1 /\ Len(x) \in Nat /\ Len(x) >= 3 /\ x = [i \in 1..Len(x) |-> x[i]]
               /\ \A i \in 1..(Len(x) - 1) : b[i] = x[i]
               /\ b[Len(x) + 1] = x[Len(x)]
    <2> DEFINE S == ToSet(x) \cup TempNames
               n == Len(x)
               f == Front(x)
    <2>1. PICK t \in TempNames : b = f \o <<t, Last(x)>>
      BY <1>1 DEF Backups
    <2>2. x \in Seq(S) /\ n \in Nat /\ n >= 3 /\ Last(x) \in S /\ t \in S /\ Last(x) = x[n]
      <3>1. IsPlace(x)
        BY <1>1
      <3>2. x \in Seq(ToSet(x)) /\ n = Depth(x)
        BY <3>1 DEF IsPlace, IsPath
      <3>3. n \in Nat /\ n >= 3
        BY <3>2 DEF Depth
      <3>4. Last(x) = x[n] /\ Last(x) \in ToSet(x)
        BY <3>2, <3>3 DEF Last, ToSet
      <3>5. QED
        BY <3>2, <3>3, <3>4
    <2> HIDE DEF S
    <2>3. f \in Seq(S) /\ Len(f) = n - 1 /\ \A i \in 1..(n - 1) : f[i] = x[i]
      BY <2>2 DEF Front
    <2> DEFINE u == <<t, Last(x)>>
    <2>4. u \in Seq(S) /\ Len(u) = 2 /\ u[1] = t /\ u[2] = Last(x)
      BY <2>2
    <2>5. x = [i \in 1..n |-> x[i]]
      BY <2>2
    <2> HIDE DEF f, n, u
    <2>6. Len(b) = n + 1 /\ (\A i \in 1..(n - 1) : b[i] = x[i]) /\ b[n + 1] = Last(x)
      BY <2>1, <2>2, <2>3, <2>4 DEF u
    <2>7. QED
      BY <2>2, <2>5, <2>6 DEF n
  <1>2. Len(d) = Len(e)
    BY <1>1
  <1>3. ASSUME NEW i \in 1..Len(d) PROVE d[i] = e[i]
    <2>1. CASE i = Len(d)
      <3>1. d[i] = b[Len(d) + 1] /\ e[i] = b[Len(e) + 1]
        BY <1>1, <1>2, <2>1
      <3>2. QED
        BY <1>2, <3>1
    <2>2. CASE i # Len(d)
      <3>1. i \in 1..(Len(d) - 1)
        BY <1>1, <2>2
      <3>2. QED
        BY <1>1, <1>2, <3>1
    <2>3. QED
      BY <2>1, <2>2
  <1>4. d = [i \in 1..Len(d) |-> d[i]] /\ e = [i \in 1..Len(d) |-> e[i]]
    BY <1>1, <1>2
  <1>5. QED
    BY <1>3, <1>4

(* A temporary name that is free: neither the clone nor the backup that    *)
(* will bear it is there.                                                  *)
LEMMA FreshName ==
  ASSUME NEW d, IsPlace(d), Fresh(Front(d)) # {}, NEW t, t = MkDtemp(Front(d))
  PROVE  /\ t \in TempNames
         /\ Front(d) \o <<t>> \notin DOMAIN disk
         /\ Front(d) \o <<t, Last(d)>> \notin DOMAIN disk
         /\ Front(d) \o <<t, Last(d)>> \in Backups(d)
  <1>1. t \in Fresh(Front(d))
    BY DEF MkDtemp
  <1>2. t \in TempNames /\ \A path \in DOMAIN disk : ~IsPrefix(Front(d) \o <<t>>, path)
    BY <1>1 DEF Fresh
  <1>3. QED
    BY <1>2, BesidePlace DEF Backups
-----------------------------------------------------------------------------
(* Induction over data, as a smallest counterexample. *)
LEMMA SmallestOf ==
  ASSUME NEW T \in SUBSET Nat, T # {}
  PROVE  \E n \in T : \A k \in T : n <= k
  <1> DEFINE R == {ss \in Nat \X Nat : ss[1] < ss[2]}
  <1>1. IsWellFoundedOn(R, Nat)
    BY NatLessThanWellFounded, Zenon DEF OpToRel
  <1>2. PICK x \in T : \A y \in T : ~ (<<y, x>> \in R)
    <2> HIDE DEF R
    <2> QED BY <1>1, WFMin
  <1>3. ASSUME NEW k \in T PROVE x <= k
    <2>1. k \in Nat /\ x \in Nat
      OBVIOUS
    <2>2. <<k, x>> \notin R
      BY <1>2
    <2>3. ~(k < x)
      <3>1. <<k, x>> \in Nat \X Nat /\ <<k, x>>[1] = k /\ <<k, x>>[2] = x
        BY <2>1
      <3> QED BY <3>1, <2>2
    <2> QED BY <2>1, <2>3
  <1> QED BY <1>3

(* The prefixes of a list of lists, flattened one after the other. *)
Flattens(f, ss, n) == \A i \in 1..n : f[i] = IF i = 1 THEN ss[i] ELSE f[i - 1] \o ss[i]

LEMMA PrefixesFlatten ==
  ASSUME NEW S, NEW ss \in Seq(Seq(S)), NEW n \in 1..Len(ss)
  PROVE  \E f \in [1..n -> Seq(S)] : Flattens(f, ss, n)
  <1> DEFINE Bad == {k \in 1..Len(ss) : ~\E f \in [1..k -> Seq(S)] : Flattens(f, ss, k)}
  <1>1. Bad = {}
    <2> SUFFICES ASSUME Bad # {} PROVE FALSE
      OBVIOUS
    <2>1. PICK k \in Bad : \A j \in Bad : k <= j
      <3>1. Bad \in SUBSET Nat
        OBVIOUS
      <3> HIDE DEF Bad
      <3> QED BY <3>1, SmallestOf
    <2>2. k \in 1..Len(ss) /\ ~\E f \in [1..k -> Seq(S)] : Flattens(f, ss, k)
      OBVIOUS
    <2>3. ss[k] \in Seq(S)
      BY <2>2
    <2>4. CASE k = 1
      <3> DEFINE f == [i \in 1..k |-> ss[k]]
      <3>1. f \in [1..k -> Seq(S)]
        BY <2>3
      <3>2. Flattens(f, ss, k)
        BY <2>4 DEF Flattens
      <3> QED BY <3>1, <3>2, <2>2
    <2>5. CASE k # 1
      <3>1. k - 1 \in 1..Len(ss) /\ k - 1 \in Nat /\ k \in Nat /\ ~(k <= k - 1)
        BY <2>2, <2>5
      <3>2. k - 1 \notin Bad
        BY <3>1, <2>1
      <3>3. PICK g \in [1..(k - 1) -> Seq(S)] : Flattens(g, ss, k - 1)
        BY <3>1, <3>2
      <3> DEFINE f == [i \in 1..k |-> IF i = k THEN g[k - 1] \o ss[k] ELSE g[i]]
      <3>4. g[k - 1] \o ss[k] \in Seq(S)
        <4>1. g[k - 1] \in Seq(S)
          BY <3>1, <3>3
        <4> QED BY <4>1, <2>3
      <3>5. f \in [1..k -> Seq(S)]
        BY <3>4, <3>1
      <3>6. ASSUME NEW i \in 1..k
            PROVE  f[i] = IF i = 1 THEN ss[i] ELSE f[i - 1] \o ss[i]
        <4>1. CASE i = k
          <5>1. f[k] = g[k - 1] \o ss[k]
            <6>1. k \in 1..k
              BY <3>1
            <6> QED BY <6>1
          <5>2. f[k - 1] = g[k - 1]
            <6>1. k - 1 \in 1..k /\ k - 1 # k
              BY <3>1
            <6> QED BY <6>1
          <5>3. f[i] = f[k] /\ f[i - 1] = f[k - 1] /\ ss[i] = ss[k] /\ i # 1
            BY <4>1, <2>5
          <5> HIDE DEF f
          <5> QED BY <5>1, <5>2, <5>3
        <4>2. CASE i # k
          <5>1. i \in 1..(k - 1) /\ (i # 1 => i - 1 \in 1..(k - 1) /\ i - 1 \in 1..k /\ i - 1 # k)
            BY <4>2, <3>1
          <5>2. g[i] = IF i = 1 THEN ss[i] ELSE g[i - 1] \o ss[i]
            BY <5>1, <3>3 DEF Flattens
          <5> QED BY <5>1, <5>2, <4>2
        <4> QED BY <4>1, <4>2
      <3> HIDE DEF f
      <3> QED BY <3>5, <3>6, <2>2 DEF Flattens
    <2> QED BY <2>4, <2>5
  <1> QED BY <1>1

LEMMA FlattenIs ==
  ASSUME NEW S, NEW ss \in Seq(Seq(S)), Len(ss) # 0
  PROVE  \E f : Flattens(f, ss, Len(ss)) /\ FlattenSeq(ss) = f[Len(ss)]
  <1> DEFINE Def(f) == f = [i \in 1..Len(ss) |-> IF i = 1 THEN ss[i] ELSE f[i - 1] \o ss[i]]
  <1>1. \E f : Def(f)
    <2>1. PICK f \in [1..Len(ss) -> Seq(S)] : Flattens(f, ss, Len(ss))
      BY PrefixesFlatten
    <2> QED BY <2>1 DEF Flattens
  <1> DEFINE F == CHOOSE f : Def(f)
  <1>2. Def(F)
    <2> HIDE DEF Def
    <2> QED BY <1>1
  <1>3. FlattenSeq(ss) = F[Len(ss)]
    BY DEF FlattenSeq
  <1> HIDE DEF F
  <1>4. Flattens(F, ss, Len(ss))
    BY <1>2 DEF Flattens
  <1> QED BY <1>3, <1>4

LEMMA FlattenTyped ==
  ASSUME NEW S, NEW ss \in Seq(Seq(S)), Len(ss) # 0, Len(ss[1]) # 0
  PROVE  FlattenSeq(ss) \in Seq(S) /\ Len(FlattenSeq(ss)) # 0
  <1>1. PICK f : Flattens(f, ss, Len(ss)) /\ FlattenSeq(ss) = f[Len(ss)]
    BY FlattenIs
  <1> DEFINE Good(i) == f[i] \in Seq(S) /\ Len(f[i]) # 0
             Bad == {i \in 1..Len(ss) : ~Good(i)}
  <1>2. ASSUME Bad # {} PROVE FALSE
    <2>1. PICK k \in Bad : \A j \in Bad : k <= j
      <3>1. Bad \in SUBSET Nat
        OBVIOUS
      <3> HIDE DEF Bad
      <3> QED BY <1>2, <3>1, SmallestOf
    <2>2. k \in 1..Len(ss) /\ ~Good(k) /\ k \in Nat
      OBVIOUS
    <2>3. ss[k] \in Seq(S) /\ f[k] = IF k = 1 THEN ss[k] ELSE f[k - 1] \o ss[k]
      BY <1>1, <2>2 DEF Flattens
    <2>4. k # 1
      BY <2>2, <2>3
    <2>5. k - 1 \in 1..Len(ss) /\ ~(k <= k - 1)
      BY <2>2, <2>4
    <2>6. Good(k - 1)
      BY <2>1, <2>5
    <2>7. Good(k)
      <3> DEFINE a == f[k - 1]
                 b == ss[k]
      <3>1. a \in Seq(S) /\ b \in Seq(S) /\ Len(a) # 0 /\ f[k] = a \o b
        BY <2>3, <2>4, <2>6
      <3> HIDE DEF a, b
      <3>2. Len(a) \in Nat /\ Len(b) \in Nat /\ Len(a \o b) = Len(a) + Len(b) /\ a \o b \in Seq(S)
        BY <3>1
      <3> QED BY <3>1, <3>2
    <2> QED BY <2>2, <2>7
  <1>3. Len(ss) \in 1..Len(ss)
    OBVIOUS
  <1> QED BY <1>1, <1>2, <1>3
-----------------------------------------------------------------------------
(* Where a layer of a manifest and its repositories go. *)
LEMMA RootedIsPlace ==
  ASSUME NEW m, NEW layer, NEW name, name \notin TempNames
  PROVE  /\ IsPlace(ClassifyRoot(m, layer) \o <<layer, name>>)
         /\ IsPlace(<<"worktrees", layer, name>>)
  <1>1. ASSUME NEW a, a # "custom" PROVE IsPlace(<<a, layer, name>>)
    <2>1. IsPath(<<a, layer, name>>)
      BY DEF IsPath, ToSet
    <2> QED BY <1>1, <2>1 DEF IsPlace, Depth, Last
  <1>3. ASSUME NEW r, NEW n \in {1, 2}, NEW S, r \in Seq(S), Len(r) = n, n = 2 <=> r[1] = "custom"
        PROVE  IsPlace(r \o <<layer, name>>)
    <2> DEFINE T == S \cup {layer, name}
               u == <<layer, name>>
               x == r \o u
    <2>1. u \in Seq(T) /\ Len(u) = 2 /\ u[2] = name /\ r \in Seq(T)
      BY <1>3
    <2> HIDE DEF T, u
    <2>2. x \in Seq(T) /\ Len(x) = n + 2 /\ x[1] = r[1] /\ x[n + 2] = name
      <3>1. n \in Nat /\ n >= 1 /\ n <= 2 /\ Len(r) = n
        BY <1>3
      <3>2. x \in Seq(T) /\ Len(x) = n + 2
        <4>1. u \in Seq(T) /\ r \in Seq(T)
          BY <2>1
        <4>2. r \o u \in Seq(T)
          BY <4>1
        <4>3. Len(r \o u) = Len(r) + Len(u)
          BY <4>1
        <4> QED BY <2>1, <3>1, <4>2, <4>3
      <3>3. x[1] = r[1]
        BY <2>1, <3>1
      <3>4. x[n + 2] = u[2]
        BY <2>1, <3>1
      <3> QED BY <2>1, <3>2, <3>3, <3>4
    <2> HIDE DEF x
    <2>3. IsPath(x)
      BY <2>2 DEF IsPath, ToSet
    <2>4. IsPlace(x)
      BY <1>3, <2>2, <2>3 DEF IsPlace, Depth, Last
    <2> QED BY <2>4 DEF x, u
  <1>4. ClassifyRoot(m, layer) \in {<<"community">>, <<"enterprise">>} \/ \E f : ClassifyRoot(m, layer) = <<"custom", f>>
    BY DEF ClassifyRoot, CustomRootKey
  <1>5. ASSUME NEW a, a # "custom" PROVE IsPlace(<<a>> \o <<layer, name>>)
    <2>1. <<a>> \in Seq({a}) /\ Len(<<a>>) = 1 /\ <<a>>[1] = a
      OBVIOUS
    <2> DEFINE r == <<a>>
    <2>2. r \in Seq({a}) /\ Len(r) = 1 /\ r[1] # "custom"
      BY <1>5, <2>1
    <2> HIDE DEF r
    <2>3. IsPlace(r \o <<layer, name>>)
      BY <1>3, <2>2
    <2> QED BY <2>3 DEF r
  <1>6. ASSUME NEW f PROVE IsPlace(<<"custom", f>> \o <<layer, name>>)
    <2>1. <<"custom", f>> \in Seq({"custom", f}) /\ Len(<<"custom", f>>) = 2 /\ <<"custom", f>>[1] = "custom"
      OBVIOUS
    <2> QED BY <1>3, <2>1
  <1> QED BY <1>1, <1>4, <1>5, <1>6
-----------------------------------------------------------------------------
(* Locks and the plans they give. *)
LEMMA UrlNames ==
  ASSUME NEW url \in AllUrls
  PROVE  RepoName(url) \notin TempNames
  <1>1. PICK m \in {x \in Manifests : Parses(x)} : \E s \in Sources(Parse(m)) : url = s.url
    BY DEF AllUrls, AllSources
  <1>2. url \in Urls(Parse(m))
    BY <1>1 DEF Urls
  <1> QED BY <1>2, TempNamesAssumption

LEMMA EntryOK ==
  ASSUME NEW m, NEW layer, NEW r, PinOK(r)
  PROVE  StepOK(PlanEntry(m, layer, r))
  <1>1. RepoName(r.url) \notin TempNames
    BY UrlNames DEF PinOK
  <1> DEFINE s == PlanEntry(m, layer, r)
  <1>2. s.path = ClassifyRoot(m, layer) \o <<layer, RepoName(r.url)>> /\ s.url = r.url /\ s.commit = r.commit
    BY DEF PlanEntry
  <1> HIDE DEF s
  <1>3. IsPlace(s.path)
    BY <1>1, <1>2, RootedIsPlace
  <1>4. StepOK(s)
    BY <1>2, <1>3 DEF StepOK, PinOK
  <1> QED BY <1>4 DEF s

LEMMA LockPlanned ==
  ASSUME NEW j, IsLock(j.lock)
  PROVE  Planned(j) /\ 1 \in DOMAIN PlanOf(j)
  <1> DEFINE git == j.lock.git
             row(i) == [n \in DOMAIN git[i].repos |-> PlanEntry(j.m, git[i].name, git[i].repos[n])]
             ss == [i \in DOMAIN git |-> row(i)]
             S == UNION {{PlanEntry(j.m, git[i].name, r) : r \in ToSet(git[i].repos)} : i \in DOMAIN git}
  <1>1. Len(git) \in Nat /\ Len(git) # 0 /\ DOMAIN git = 1..Len(git)
    BY DEF IsLock
  <1>2. ASSUME NEW i \in DOMAIN git PROVE row(i) \in Seq(S) /\ Len(row(i)) = Len(git[i].repos)
    <2> DEFINE n == Len(git[i].repos)
               f == row(i)
    <2>1. n \in Nat /\ DOMAIN git[i].repos = 1..n
      BY <1>2 DEF IsLock
    <2>2. \A x \in 1..n : PlanEntry(j.m, git[i].name, git[i].repos[x]) \in S
      <3> DEFINE E == {PlanEntry(j.m, git[i].name, r) : r \in ToSet(git[i].repos)}
      <3>1. \A x \in 1..n : git[i].repos[x] \in ToSet(git[i].repos)
        BY <2>1 DEF ToSet
      <3>2. \A x \in 1..n : PlanEntry(j.m, git[i].name, git[i].repos[x]) \in E
        BY <3>1
      <3>3. E \subseteq S
        <4> HIDE DEF git
        <4> QED OBVIOUS
      <3> QED BY <3>2, <3>3
    <2>3. f = [x \in 1..n |-> PlanEntry(j.m, git[i].name, git[i].repos[x])]
      BY <2>1
    <2> HIDE DEF n, S, f
    <2>4. f = [x \in 1..n |-> f[x]] /\ \A x \in 1..n : f[x] \in S
      BY <2>2, <2>3
    <2>5. f \in Seq(S) /\ Len(f) = n
      BY <2>1, <2>4, IsList
    <2> QED BY <2>5 DEF f, n
  <1>3. ss = [i \in 1..Len(git) |-> ss[i]] /\ (\A i \in 1..Len(git) : ss[i] \in Seq(S)) /\ ss[1] = row(1)
    <2> HIDE DEF S
    <2>1. 1 \in DOMAIN git
      BY <1>1
    <2>2. ASSUME NEW i \in DOMAIN git PROVE ss[i] = row(i)
      OBVIOUS
    <2>3. ss = [i \in 1..Len(git) |-> ss[i]]
      BY <1>1
    <2> QED BY <1>1, <1>2, <2>1, <2>2, <2>3
  <1>4. Len(ss[1]) # 0
    <2>1. Len(git[1].repos) # 0
      BY DEF IsLock
    <2>2. Len(row(1)) = Len(git[1].repos)
      <3> HIDE DEF row, git, S
      <3>1. 1 \in DOMAIN git
        BY <1>1
      <3> QED BY <1>2, <3>1
    <2> HIDE DEF ss, row, git
    <2> QED BY <1>3, <2>1, <2>2
  <1>5. ss \in Seq(Seq(S)) /\ Len(ss) = Len(git)
    <2> DEFINE T == Seq(S)
    <2>1. \A i \in 1..Len(git) : ss[i] \in T
      BY <1>3
    <2> HIDE DEF S, ss, T
    <2>2. ss \in Seq(T) /\ Len(ss) = Len(git)
      BY <1>1, <1>3, <2>1, IsList
    <2> QED BY <2>2 DEF T
  <1>6. PlanOf(j) = FlattenSeq(ss)
    BY DEF PlanOf, PlanProjection
  <1>7. \A s \in S : StepOK(s)
    BY EntryOK DEF IsLock
  <1> HIDE DEF S, ss
  <1>8. PlanOf(j) \in Seq(S) /\ Len(PlanOf(j)) # 0
    BY <1>1, <1>4, <1>5, <1>6, FlattenTyped
  <1> DEFINE plan == PlanOf(j)
  <1> HIDE DEF plan
  <1>9. plan \in Seq(S) /\ Len(plan) # 0
    BY <1>8 DEF plan
  <1>10. plan \in Seq(ToSet(plan)) /\ (\A s \in ToSet(plan) : s \in S) /\ 1 \in DOMAIN plan
    BY <1>9 DEF ToSet
  <1> QED BY <1>7, <1>9, <1>10 DEF Planned, plan

(* The smallest of some indices is one of them. *)
LEMMA MinOf ==
  ASSUME NEW T \in SUBSET Nat, T # {}
  PROVE  Min(T) \in T
  <1>1. \E x \in T : \A y \in T : x =< y
    BY SmallestOf
  <1> QED BY <1>1 DEF Min

LEMMA UnlockPlaces ==
  ASSUME NEW m \in Manifests, Parses(m), NEW layer \in LayerNames(Parse(m)) \cup {"core"},
         NEW url \in DeclaredUrls(Parse(m), layer)
  PROVE  /\ IsPlace(PlanUnlock(Parse(m), layer, url).source)
         /\ IsPlace(PlanUnlock(Parse(m), layer, url).dest)
  <1> DEFINE y == Parse(m)
             found == OverridesOf(y, layer, url)
             u == IF found = {} THEN url ELSE y.overrides[Min(found)].fork
  <1>1. y.overrides = m.overrides /\ m.overrides \in Seq(ToSet(m.overrides))
    BY ManifestsAssumption DEF Parses, Parse, IsManifest, ManifestFields
  <1>2. found \in SUBSET Nat /\ found \subseteq DOMAIN y.overrides
    BY <1>1 DEF OverridesOf
  <1>3. u \in Urls(y)
    <2>1. CASE found = {}
      BY <2>1 DEF Urls
    <2>2. CASE found # {}
      <3>1. Min(found) \in DOMAIN y.overrides
        BY <1>2, <2>2, MinOf
      <3>2. y.overrides[Min(found)].fork \in {o.fork : o \in ToSet(y.overrides)}
        BY <3>1 DEF ToSet
      <3> QED BY <2>2, <3>2 DEF Urls
    <2> QED BY <2>1, <2>2
  <1>4. RepoName(u) \notin TempNames
    BY <1>3, TempNamesAssumption
  <1> HIDE DEF u, found
  <1>5. PlanUnlock(y, layer, url) = [source |-> ClassifyRoot(y, layer) \o <<layer, RepoName(u)>>,
                                    dest |-> <<"worktrees", layer, RepoName(u)>>]
    BY DEF PlanUnlock, u, found
  <1> HIDE DEF y
  <1>6. IsPlace(ClassifyRoot(y, layer) \o <<layer, RepoName(u)>>) /\ IsPlace(<<"worktrees", layer, RepoName(u)>>)
    BY <1>4, RootedIsPlace
  <1>7. IsPlace(PlanUnlock(y, layer, url).source) /\ IsPlace(PlanUnlock(y, layer, url).dest)
    BY <1>5, <1>6
  <1> QED BY <1>7 DEF y

(* The singletons: the core first, all of them sources of the manifest. *)
LEMMA SingletonsListed ==
  ASSUME NEW m
  PROVE  /\ Len(Singletons(m)) \in Nat /\ Len(Singletons(m)) >= 1
         /\ DOMAIN Singletons(m) = 1..Len(Singletons(m))
  <1> DEFINE c == [name |-> "core", repo |-> Defaulted(m, m.core)]
             e == [name |-> "enterprise", repo |-> Defaulted(m, m.enterprise)]
  <1>1. CASE m.enterprise = NoRepo
    <2>1. Singletons(m) = <<c>> \o <<>>
      BY <1>1 DEF Singletons
    <2> HIDE DEF c, e
    <2> QED BY <2>1
  <1>2. CASE m.enterprise # NoRepo
    <2>1. Singletons(m) = <<c>> \o <<e>>
      BY <1>2 DEF Singletons
    <2> HIDE DEF c, e
    <2> QED BY <2>1
  <1> QED BY <1>1, <1>2

LEMMA BuildIsLock ==
  ASSUME NEW m \in Manifests, Parses(m), NEW head, \A s \in Sources(Parse(m)) : head[s] \in Commits
  PROVE  IsLock(BuildLock(Parse(m), head))
  <1> DEFINE y == Parse(m)
             alone == Singletons(y)
             git == Git(y)
             n == Len(alone)
             k == Len(git)
             Pin(repo) == [url |-> repo.url, ref |-> repo.ref, commit |-> head[repo]]
             c == [i \in DOMAIN alone |->
                     [name |-> alone[i].name, repos |-> [x \in DOMAIN <<alone[i].repo>> |-> Pin(<<alone[i].repo>>[x])]]]
             d == [i \in DOMAIN git |->
                     LET repos == [x \in DOMAIN git[i].repos |-> ResolveRepo(y, git[i].name, git[i].repos[x])]
                     IN  [name |-> git[i].name, repos |-> [x \in DOMAIN repos |-> Pin(repos[x])]]]
             lk == BuildLock(y, head)
             Rows(l) == l.repos \in Seq(ToSet(l.repos)) /\ \A r \in ToSet(l.repos) : PinOK(r)
  <1>1. n \in Nat /\ n >= 1 /\ DOMAIN alone = 1..n
    BY SingletonsListed
  <1>2. git = Git(m) /\ git \in Seq(ToSet(m.layers)) /\ \A l \in ToSet(git) : l.repos \in Seq(ToSet(l.repos))
    <2>1. y.layers = m.layers
      BY ManifestsAssumption DEF Parses, Parse, IsManifest, ManifestFields
    <2>2. Git(y) = Git(m)
      BY <2>1 DEF Git
    <2> QED BY <2>2, ManifestsAssumption DEF IsManifest
  <1>3. k \in Nat /\ DOMAIN git = 1..k
    BY <1>2
  <1>4. lk.git = c \o d
    BY DEF BuildLock
  <1>5. ASSUME NEW r \in Sources(y) PROVE PinOK(Pin(r))
    <2>1. r \in AllSources
      BY <1>5 DEF AllSources
    <2>2. r.url \in AllUrls
      BY <2>1 DEF AllUrls
    <2>3. head[r] \in Commits
      BY <1>5
    <2> QED BY <2>2, <2>3 DEF PinOK
  <1>6. ASSUME NEW i \in 1..n PROVE Rows(c[i]) /\ Len(c[i].repos) # 0
    <2> DEFINE r == alone[i].repo
               z == [x \in DOMAIN <<r>> |-> Pin(<<r>>[x])]
    <2>1. r \in Sources(y)
      BY <1>1 DEF Sources, ToSet
    <2>2. c[i].repos = z
      BY <1>1
    <2>3. PinOK(Pin(r))
      BY <1>5, <2>1
    <2> HIDE DEF r, c
    <2>4. z = [x \in 1..1 |-> Pin(r)]
      OBVIOUS
    <2> DEFINE v == Pin(r)
    <2> HIDE DEF Pin
    <2>5. z = [x \in 1..1 |-> v] /\ PinOK(v)
      BY <2>3, <2>4
    <2> HIDE DEF v, z
    <2>6. z \in Seq({v}) /\ Len(z) = 1
      <3>1. z = [x \in 1..1 |-> z[x]] /\ \A x \in 1..1 : z[x] \in {v}
        BY <2>5
      <3> QED BY <3>1, IsList
    <2>7. z \in Seq(ToSet(z)) /\ \A s \in ToSet(z) : s = v
      BY <2>6 DEF ToSet
    <2> QED BY <2>2, <2>5, <2>6, <2>7
  <1>7. ASSUME NEW i \in 1..k PROVE Rows(d[i])
    <2> DEFINE l == git[i]
               h == Len(l.repos)
               z == d[i].repos
    <2>1. l \in ToSet(git) /\ h \in Nat /\ DOMAIN l.repos = 1..h
      <3>1. l \in ToSet(git)
        BY <1>3 DEF ToSet
      <3>2. l.repos \in Seq(ToSet(l.repos))
        BY <1>2, <3>1
      <3> QED BY <3>1, <3>2
    <2>2. z = [x \in 1..h |-> Pin(ResolveRepo(y, l.name, l.repos[x]))]
      <3>1. d[i].repos = [x \in DOMAIN l.repos |-> Pin(ResolveRepo(y, l.name, l.repos[x]))]
        BY <1>3
      <3> QED BY <2>1, <3>1
    <2>3. ASSUME NEW x \in 1..h PROVE PinOK(Pin(ResolveRepo(y, l.name, l.repos[x])))
      <3>1. l.repos[x] \in ToSet(l.repos)
        BY <2>1 DEF ToSet
      <3>2. ResolveRepo(y, l.name, l.repos[x]) \in {ResolveRepo(y, l.name, r) : r \in ToSet(l.repos)}
        BY <3>1
      <3>3. ResolveRepo(y, l.name, l.repos[x]) \in Sources(y)
        BY <2>1, <3>2 DEF Sources
      <3> QED BY <1>5, <3>3
    <2> HIDE DEF z, h, Pin, l
    <2>4. z = [x \in 1..h |-> z[x]] /\ \A x \in 1..h : PinOK(z[x])
      BY <2>2, <2>3
    <2>5. z \in Seq(ToSet(z)) /\ Len(z) = h
      <3>1. h \in Nat
        BY <2>1
      <3>2. DOMAIN z = 1..h
        BY <2>4
      <3>3. \A x \in 1..h : z[x] \in ToSet(z)
        BY <3>2 DEF ToSet
      <3> QED BY <2>4, <3>1, <3>3, IsList
    <2>6. \A r \in ToSet(z) : PinOK(r)
      BY <2>4 DEF ToSet
    <2> QED BY <2>5, <2>6 DEF z
  <1>8. c = [i \in 1..n |-> c[i]] /\ d = [i \in 1..k |-> d[i]]
    BY <1>1, <1>3
  <1> HIDE DEF c, d, n, k
  <1> DEFINE g == c \o d
  <1>9. /\ g = [i \in 1..(n + k) |-> g[i]] /\ \A i \in 1..n : g[i] = c[i]
        /\ \A i \in 1..(n + k) : i > n => (i - n) \in 1..k /\ g[i] = d[i - n]
    BY <1>1, <1>3, <1>8, TwoParts
  <1> HIDE DEF g
  <1>10. ASSUME NEW i \in 1..(n + k) PROVE Rows(g[i])
    <2> HIDE DEF Rows
    <2>1. CASE i <= n
      <3>1. i \in 1..n
        BY <1>1, <2>1
      <3> QED BY <1>6, <1>9, <3>1
    <2>2. CASE i > n
      BY <1>7, <1>9, <2>2
    <2> QED BY <1>1, <1>3, <2>1, <2>2
  <1>11. Len(g[1].repos) # 0
    <2>1. 1 \in 1..n
      BY <1>1
    <2> QED BY <1>6, <1>9, <2>1
  <1>12. DOMAIN g = 1..(n + k) /\ g \in Seq(ToSet(g)) /\ Len(g) # 0
    <2>1. n + k \in Nat /\ n + k # 0
      BY <1>1, <1>3
    <2>2. DOMAIN g = 1..(n + k)
      BY <1>9
    <2>3. \A x \in 1..(n + k) : g[x] \in ToSet(g)
      BY <2>2 DEF ToSet
    <2>4. g \in Seq(ToSet(g)) /\ Len(g) = n + k
      BY <1>9, <2>1, <2>3, IsList
    <2> QED BY <2>1, <2>2, <2>4
  <1>13. lk.git = g
    BY <1>4 DEF g
  <1> HIDE DEF lk
  <1>14. IsLock(lk)
    BY <1>10, <1>11, <1>12, <1>13 DEF IsLock
  <1> QED BY <1>14 DEF lk
-----------------------------------------------------------------------------
(* A step of one process. *)
Moves(p, l, j) == pc' = [pc EXCEPT ![p] = l] /\ job' = [job EXCEPT ![p] = j]

FilesOK ==
    /\ manifest \in Manifests \cup {NoManifest}
    /\ remote \in [AllSources -> Commits]
    /\ lock # NoLock => IsLock(lock)

(* The clone and the backup a process goes on with are its own. *)
Own(p, l, j) ==
    /\ j.backup # <<>> => DestOf(j) \in placed
    /\ \A q \in Procs \ {p} : /\ l \in Cloning /\ pc[q] \in Cloning => j.clone # job[q].clone
                              /\ j.backup # <<>> => j.backup # job[q].backup

DiskOK ==
    /\ \A path \in placed : IsPlace(path)
    /\ \A path \in DOMAIN disk : /\ path \in placed \/ IsClone(path) \/ IsBackup(path)
                                 /\ disk[path] \in Trees

AllKept == \A path \in placed : Kept(disk, path)

LEMMA WState ==
  ASSUME WInv
  PROVE  /\ FilesOK /\ DiskOK /\ AllKept
         /\ pc = [p \in Procs |-> pc[p]] /\ job = [p \in Procs |-> job[p]]
         /\ \A p \in Procs : Carries(pc[p], job[p]) /\ SeesDisk(p, disk, pc[p], job[p]) /\ Own(p, pc[p], job[p])
  <1>1. FilesOK
    BY DEF WInv, FilesOK
  <1>2. DiskOK /\ AllKept
    BY DEF WInv, DiskOK, AllKept
  <1>3. \A p \in Procs : Carries(pc[p], job[p]) /\ SeesDisk(p, disk, pc[p], job[p]) /\ Own(p, pc[p], job[p])
    BY DEF WInv, Own
  <1>4. pc = [p \in Procs |-> pc[p]] /\ job = [p \in Procs |-> job[p]]
    BY DEF WInv
  <1> QED BY <1>1, <1>2, <1>3, <1>4

LEMMA MovesTo ==
  ASSUME WInv, NEW p \in Procs, NEW l, NEW j, Moves(p, l, j)
  PROVE  /\ pc'[p] = l /\ job'[p] = j
         /\ \A q \in Procs : q # p => pc'[q] = pc[q] /\ job'[q] = job[q]
         /\ pc' = [q \in Procs |-> pc'[q]] /\ job' = [q \in Procs |-> job'[q]]
  <1>1. DOMAIN pc = Procs /\ DOMAIN job = Procs
    BY WState
  <1> QED BY <1>1 DEF Moves

LEMMA StepInductive ==
  ASSUME WInv, NEW p \in Procs, NEW l, NEW j, Moves(p, l, j),
         FilesOK', Carries(l, j), SeesDisk(p, disk', l, j), Own(p, l, j),
         \A q \in Procs \ {p} : SeesDisk(q, disk', pc[q], job[q]),
         AllKept', DiskOK', placed \subseteq placed'
  PROVE  WInv'
  <1>1. \A q \in Procs : Carries(pc'[q], job'[q])
    BY WState, MovesTo
  <1>2. \A q \in Procs : SeesDisk(q, disk', pc'[q], job'[q])
    BY MovesTo
  <1>3. ASSUME NEW q \in Procs, NEW r \in Procs, q # r
        PROVE  /\ pc'[q] \in Cloning /\ pc'[r] \in Cloning => job'[q].clone # job'[r].clone
               /\ job'[q].backup # <<>> => job'[q].backup # job'[r].backup
    <2>1. CASE q = p
      <3>1. pc'[q] = l /\ job'[q] = j /\ pc'[r] = pc[r] /\ job'[r] = job[r]
        BY <1>3, <2>1, MovesTo
      <3> QED BY <1>3, <2>1, <3>1 DEF Own
    <2>2. CASE r = p
      <3>1. pc'[r] = l /\ job'[r] = j /\ pc'[q] = pc[q] /\ job'[q] = job[q]
        BY <1>3, <2>2, MovesTo
      <3>2. Own(p, l, j) /\ q \in Procs \ {p}
        BY <1>3, <2>2
      <3> QED BY <3>1, <3>2 DEF Own
    <2>3. CASE q # p /\ r # p
      <3>1. pc'[r] = pc[r] /\ job'[r] = job[r] /\ pc'[q] = pc[q] /\ job'[q] = job[q]
        BY <2>3, MovesTo
      <3>2. Own(q, pc[q], job[q]) /\ r \in Procs \ {q}
        BY <1>3, WState
      <3> QED BY <3>1, <3>2 DEF Own
    <2> QED BY <2>1, <2>2, <2>3
  <1>4. pc' = [q \in Procs |-> pc'[q]] /\ job' = [q \in Procs |-> job'[q]]
    BY MovesTo
  <1>5. ASSUME NEW q \in Procs, job'[q].backup # <<>> PROVE DestOf(job'[q]) \in placed'
    <2>1. CASE q = p
      BY <1>5, <2>1, MovesTo DEF Own
    <2>2. CASE q # p
      BY <1>5, <2>2, MovesTo, WState DEF Own
    <2> QED BY <2>1, <2>2
  <1> QED BY <1>1, <1>2, <1>3, <1>4, <1>5 DEF WInv, FilesOK, DiskOK, AllKept

(* What the others know of the disk survives a step that leaves their      *)
(* clones and backups alone and puts no work back that they have not seen. *)
Untouched(p) ==
    \A x \in DOMAIN disk :
        \/ IsClone(x) /\ ~(pc[p] \in Cloning /\ x = job[p].clone)
        \/ IsBackup(x) /\ x # job[p].backup
        => x \in DOMAIN disk' /\ disk'[x] = disk[x]

NothingUnseen(p) ==
    \A x \in DOMAIN disk' : IsPlace(x) /\ disk'[x].dirty =>
        \/ x \in DOMAIN disk /\ disk[x].dirty /\ disk[x].late \subseteq disk'[x].late
        \/ Replacing(x) \ {p} \subseteq disk'[x].late

LEMMA PlannedDest ==
  ASSUME WInv, NEW p \in Procs, pc[p] \in Projecting
  PROVE  /\ Dest(p) = DestOf(job[p]) /\ IsPlace(Dest(p)) /\ PlanStep(p).url \in AllUrls /\ PlanStep(p).commit \in Commits
         /\ job[p].at \in DOMAIN PlanOf(job[p]) /\ Planned(job[p])
  <1>1. Planned(job[p]) /\ job[p].at \in DOMAIN PlanOf(job[p])
    BY WState DEF Carries
  <1>2. PlanStep(p) = PlanOf(job[p])[job[p].at]
    BY DEF PlanStep, Plan, PlanOf
  <1>3. PlanStep(p) \in ToSet(PlanOf(job[p]))
    BY <1>1, <1>2 DEF ToSet
  <1>4. StepOK(PlanStep(p))
    BY <1>1, <1>3 DEF Planned
  <1> QED BY <1>1, <1>2, <1>4 DEF StepOK, Dest, DestOf

LEMMA BackupOf ==
  ASSUME WInv, NEW p \in Procs, job[p].backup # <<>>
  PROVE  /\ pc[p] \in {"swap_in", "reap"} /\ job[p].backup \in DOMAIN disk /\ IsBackup(job[p].backup)
         /\ job[p].backup \in Backups(Dest(p))
  <1>1. pc[p] \in {"swap_in", "reap"} /\ job[p].backup \in DOMAIN disk /\ job[p].backup \in Backups(DestOf(job[p]))
    BY WState DEF Carries, SeesDisk
  <1>2. pc[p] \in Projecting
    BY <1>1 DEF Projecting, Cloning
  <1>3. IsPlace(Dest(p)) /\ job[p].backup \in Backups(Dest(p))
    BY <1>1, <1>2, PlannedDest
  <1>4. PICK t \in TempNames : job[p].backup = Front(Dest(p)) \o <<t, Last(Dest(p))>>
    BY <1>3 DEF Backups
  <1> QED BY <1>1, <1>3, <1>4, BesidePlace

LEMMA OthersSee ==
  ASSUME WInv, NEW p \in Procs, Untouched(p), NothingUnseen(p), NEW q \in Procs \ {p}
  PROVE  SeesDisk(q, disk', pc[q], job[q])
  <1>1. SeesDisk(q, disk, pc[q], job[q]) /\ Own(q, pc[q], job[q]) /\ p \in Procs \ {q}
    BY WState
  <1>2. ASSUME pc[q] \in Cloning
        PROVE  job[q].clone \in DOMAIN disk' /\ IsClone(job[q].clone) /\ ~disk'[job[q].clone].dirty
    BY <1>1, <1>2 DEF SeesDisk, Own, Untouched
  <1>3. ASSUME job[q].backup # <<>>
        PROVE  /\ job[q].backup \in DOMAIN disk' /\ job[q].backup \in Backups(DestOf(job[q]))
               /\ disk'[job[q].backup].dirty => q \in disk'[job[q].backup].late
    <2>1. IsBackup(job[q].backup) /\ job[q].backup # job[p].backup
      BY <1>1, <1>3, BackupOf DEF Own
    <2> QED BY <1>1, <1>3, <2>1 DEF SeesDisk, Untouched
  <1>4. ASSUME pc[q] \in Looked, DestOf(job[q]) \in DOMAIN disk', disk'[DestOf(job[q])].dirty
        PROVE  q \in disk'[DestOf(job[q])].late
    <2> DEFINE x == DestOf(job[q])
    <2>1. IsPlace(x) /\ x = Dest(q)
      BY <1>4, PlannedDest DEF Projecting
    <2>2. q \in Replacing(x)
      BY <1>4, <2>1 DEF Replacing, Looked
    <2> HIDE DEF x
    <2>3. x \in DOMAIN disk' /\ disk'[x].dirty
      BY <1>4 DEF x
    <2>4. x \in DOMAIN disk /\ disk[x].dirty => q \in disk[x].late
      BY <1>1, <1>4 DEF SeesDisk, x
    <2>5. q \in disk'[x].late
      BY <2>1, <2>2, <2>3, <2>4 DEF NothingUnseen
    <2> QED BY <2>5 DEF x
  <1> QED BY <1>2, <1>3, <1>4 DEF SeesDisk

(* What keeps a copy of a placed checkout: no copy goes but the one that   *)
(* was given up, the checkout is in its place, or it was just moved aside. *)
LEMMA KeptSame ==
  ASSUME WInv, NEW p \in Procs, NEW l, NEW j, Moves(p, l, j), NEW path, Kept(disk, path),
         \A w \in DOMAIN disk \cap ({path} \cup Backups(path)) :
            w \in DOMAIN disk' \/ (pc[p] = "reap" /\ w = job[p].backup),
         l = "reap" => j.backup \notin {path} \cup Backups(path)
  PROVE  Kept(disk, path)'
  <1>1. PICK w \in DOMAIN disk \cap ({path} \cup Backups(path)) : \A q \in Procs : pc[q] = "reap" => job[q].backup # w
    BY DEF Kept
  <1>2. w \in DOMAIN disk'
    BY <1>1
  <1>3. ASSUME NEW q \in Procs, pc'[q] = "reap" PROVE job'[q].backup # w
    <2>1. CASE q = p
      BY <1>1, <1>3, <2>1, MovesTo
    <2>2. CASE q # p
      BY <1>1, <1>3, <2>2, MovesTo
    <2> QED BY <2>1, <2>2
  <1>4. Backups(path)' = Backups(path)
    BY DEF Backups
  <1> QED BY <1>1, <1>2, <1>3, <1>4 DEF Kept

LEMMA KeptThere ==
  ASSUME WInv, NEW p \in Procs, NEW l, NEW j, Moves(p, l, j), NEW path, IsPlace(path), path \in DOMAIN disk',
         l = "reap" => j.backup # path
  PROVE  Kept(disk, path)'
  <1>1. ASSUME NEW q \in Procs, pc'[q] = "reap" PROVE job'[q].backup # path
    <2>1. CASE q = p
      BY <1>1, <2>1, MovesTo
    <2>2. CASE q # p
      <3>1. pc[q] = "reap" /\ job'[q] = job[q]
        BY <1>1, <2>2, MovesTo
      <3>2. job[q].backup # <<>>
        BY <3>1, WState DEF Carries
      <3> QED BY <3>1, <3>2, BackupOf, ShapesApart
    <2> QED BY <2>1, <2>2
  <1> QED BY <1>1 DEF Kept

LEMMA KeptAside ==
  ASSUME WInv, NEW p \in Procs, NEW l, NEW j, Moves(p, l, j), NEW path, NEW b \in Backups(path),
         b \in DOMAIN disk', b \notin DOMAIN disk, l # "reap"
  PROVE  Kept(disk, path)'
  <1>1. ASSUME NEW q \in Procs, pc'[q] = "reap" PROVE job'[q].backup # b
    <2>1. q # p
      BY <1>1, MovesTo
    <2>2. pc[q] = "reap" /\ job'[q] = job[q]
      BY <1>1, <2>1, MovesTo
    <2>3. job[q].backup # <<>>
      BY <2>2, WState DEF Carries
    <2> QED BY <2>2, <2>3, BackupOf
  <1>2. Backups(path)' = Backups(path)
    BY DEF Backups
  <1> QED BY <1>1, <1>2 DEF Kept

(* A step after which the process has neither a clone nor a backup, nor    *)
(* anything it has looked at.                                              *)
Settles(p) ==
    \E l, j : /\ Moves(p, l, j) /\ Carries(l, j)
              /\ l \notin Looked \cup Cloning \cup {"reap"} /\ j.backup = <<>>

LEMMA SettledStep ==
  ASSUME WInv, NEW p \in Procs, Settles(p), FilesOK', Untouched(p), NothingUnseen(p), DiskOK', AllKept',
         placed \subseteq placed'
  PROVE  WInv'
  <1>1. PICK l, j : Moves(p, l, j) /\ Carries(l, j) /\ l \notin Looked \cup Cloning \cup {"reap"} /\ j.backup = <<>>
    BY DEF Settles
  <1>2. SeesDisk(p, disk', l, j) /\ Own(p, l, j)
    BY <1>1 DEF SeesDisk, Own
  <1> QED BY <1>1, <1>2, OthersSee, StepInductive

(* A step that leaves the disk alone. *)
LEMMA QuietStep ==
  ASSUME WInv, NEW p \in Procs, NEW l, NEW j, Moves(p, l, j), Carries(l, j), SeesDisk(p, disk, l, j), Own(p, l, j),
         FilesOK', UNCHANGED <<disk, placed>>, l = "reap" => pc[p] = "reap" /\ j.backup = job[p].backup
  PROVE  WInv'
  <1>1. ASSUME NEW q \in Procs \ {p} PROVE SeesDisk(q, disk', pc[q], job[q])
    BY WState
  <1>2. DiskOK'
    BY WState DEF DiskOK, Trees
  <1>3. ASSUME NEW path \in placed PROVE Kept(disk, path)'
    <2>1. PICK w \in DOMAIN disk \cap ({path} \cup Backups(path)) : \A q \in Procs : pc[q] = "reap" => job[q].backup # w
      BY WState DEF AllKept, Kept
    <2>2. ASSUME NEW q \in Procs, pc'[q] = "reap" PROVE job'[q].backup # w
      BY <2>1, <2>2, MovesTo
    <2>3. Backups(path)' = Backups(path)
      BY DEF Backups
    <2> QED BY <2>1, <2>2, <2>3 DEF Kept
  <1>4. AllKept'
    BY <1>3 DEF AllKept
  <1> QED BY <1>1, <1>2, <1>4, StepInductive

LEMMA SettledQuiet ==
  ASSUME WInv, NEW p \in Procs, Settles(p), FilesOK', UNCHANGED <<disk, placed>>
  PROVE  WInv'
  <1>1. PICK l, j : Moves(p, l, j) /\ Carries(l, j) /\ l \notin Looked \cup Cloning \cup {"reap"} /\ j.backup = <<>>
    BY DEF Settles
  <1>2. SeesDisk(p, disk, l, j) /\ Own(p, l, j)
    BY <1>1 DEF SeesDisk, Own
  <1> QED BY <1>1, <1>2, QuietStep

LEMMA GoMoves ==
  ASSUME WInv, NEW p \in Procs, NEW l, Goto(p, l)
  PROVE  /\ \A j : With(p, j) => Moves(p, l, j)
         /\ UNCHANGED job => Moves(p, l, job[p])
  BY WState DEF Goto, With, Moves

LEMMA EndSettles ==
  ASSUME WInv, NEW p \in Procs, NEW ok, End(p, ok)
  PROVE  Settles(p)
  <1> DEFINE j == [NoJob EXCEPT !.ok = ok]
  <1>1. Moves(p, "idle", j)
    BY GoMoves DEF End
  <1>2. IsJob(j) /\ j.backup = <<>>
    BY DEF NoJob, IsJob
  <1> HIDE DEF j
  <1>3. Carries("idle", j)
    BY <1>2 DEF Carries, Positions, Projecting, Looked, Cloning
  <1> QED BY <1>1, <1>2, <1>3 DEF Settles, Looked, Cloning

LEMMA NextEntrySettles ==
  ASSUME WInv, NEW p \in Procs, pc[p] \in Projecting, NextEntry(p)
  PROVE  Settles(p)
  <1> DEFINE k == job[p]
  <1>1. IsJob(k) /\ Planned(k) /\ k.at \in DOMAIN PlanOf(k) /\ Plan(p) = PlanOf(k)
    BY WState, PlannedDest DEF Carries, Plan, PlanOf
  <1>2. CASE k.at < Len(Plan(p))
    <2> DEFINE j == [k EXCEPT !.at = @ + 1, !.clone = <<>>, !.backup = <<>>]
    <2>1. Moves(p, "inspect", j)
      BY <1>2, GoMoves DEF NextEntry
    <2> DEFINE n == k.at + 1
    <2>2. IsJob(j) /\ j.m = k.m /\ j.lock = k.lock /\ j.at = n /\ j.backup = <<>>
      <3> DEFINE none == <<>>
      <3>1. j = [k EXCEPT !.at = n, !.clone = none, !.backup = none]
        OBVIOUS
      <3> HIDE DEF n, j, k, none
      <3>2. IsJob(k)
        BY <1>1
      <3>3. IsJob(j) /\ j.m = k.m /\ j.lock = k.lock /\ j.at = n /\ j.backup = none
        BY <3>1, <3>2 DEF IsJob
      <3> QED BY <3>3 DEF none
    <2> HIDE DEF j, k
    <2>3. PlanOf(j) = PlanOf(k)
      BY <2>2 DEF PlanOf
    <2>4. j.at \in DOMAIN PlanOf(j)
      BY <1>1, <1>2, <2>2, <2>3 DEF Planned
    <2>5. Planned(j)
      BY <1>1, <2>3 DEF Planned
    <2>6. Carries("inspect", j)
      BY <2>2, <2>4, <2>5 DEF Carries, Positions
    <2> QED BY <2>1, <2>2, <2>6 DEF Settles, Looked, Cloning
  <1>3. CASE ~(k.at < Len(Plan(p))) /\ k.cmd = "project"
    BY <1>3, EndSettles DEF NextEntry
  <1>4. CASE ~(k.at < Len(Plan(p))) /\ k.cmd # "project"
    <2> DEFINE j == [k EXCEPT !.clone = <<>>, !.backup = <<>>]
    <2>1. Moves(p, "verify", j)
      BY <1>4, GoMoves DEF NextEntry
    <2>2. IsJob(j) /\ j.m = k.m /\ j.lock = k.lock /\ j.backup = <<>>
      <3> DEFINE none == <<>>
      <3>1. j = [k EXCEPT !.clone = none, !.backup = none]
        OBVIOUS
      <3> HIDE DEF j, k, none
      <3>2. IsJob(k)
        BY <1>1
      <3>3. IsJob(j) /\ j.m = k.m /\ j.lock = k.lock /\ j.backup = none
        BY <3>1, <3>2 DEF IsJob
      <3> QED BY <3>3 DEF none
    <2> HIDE DEF j, k
    <2>3. Planned(j)
      BY <1>1, <2>2 DEF Planned, PlanOf
    <2>4. Carries("verify", j)
      BY <2>2, <2>3 DEF Carries, Positions, Projecting, Looked, Cloning
    <2> QED BY <2>1, <2>2, <2>4 DEF Settles, Looked, Cloning
  <1> QED BY <1>2, <1>3, <1>4
-----------------------------------------------------------------------------
(* The actions that leave the disk alone. *)
LEMMA NoJobIs == IsJob(NoJob) /\ NoJob.backup = <<>> /\ NoJob.at = 1
  BY DEF NoJob, IsJob

LEMMA ReadSettles ==
  ASSUME WInv, NEW p \in Procs, NEW c, NEW l \in {"resolve", "check", "plan", "survey", "mounts"}, Read(p, c, l)
  PROVE  Settles(p) /\ UNCHANGED files
  <1> DEFINE j == [NoJob EXCEPT !.cmd = c, !.m = Parse(manifest)]
  <1>1. Moves(p, l, j) /\ manifest \in Manifests /\ Parses(manifest) /\ UNCHANGED files
    BY GoMoves, WState DEF Read, FilesOK
  <1>2. IsJob(j) /\ j.m = Parse(manifest) /\ j.at = 1 /\ j.backup = <<>>
    <2> DEFINE m == Parse(manifest)
    <2>1. j = [NoJob EXCEPT !.cmd = c, !.m = m]
      OBVIOUS
    <2> HIDE DEF m, j
    <2>2. IsJob(j) /\ j.m = m /\ j.at = 1 /\ j.backup = <<>>
      BY <2>1, NoJobIs DEF IsJob
    <2> QED BY <2>2 DEF m
  <1> HIDE DEF j
  <1>3. Carries(l, j)
    BY <1>1, <1>2 DEF Carries, Positions, Projecting, Looked, Cloning
  <1> QED BY <1>1, <1>2, <1>3 DEF Settles, Looked, Cloning

LEMMA BeginsW ==
  ASSUME WInv, NEW p \in Procs, BeginCommand(p) \/ BeginUnlock(p)
  PROVE  WInv'
  <1>1. ASSUME Settles(p), UNCHANGED files PROVE WInv'
    <2>1. FilesOK'
      BY <1>1, WState DEF FilesOK, files
    <2> QED BY <1>1, <2>1, SettledQuiet DEF files
  <1>2. ASSUME Configure(p) PROVE WInv'
    <2>1. PICK m \in Manifests : Goto(p, "create") /\ With(p, [NoJob EXCEPT !.cmd = "configure", !.m = m])
      BY <1>2 DEF Configure
    <2> DEFINE j == [NoJob EXCEPT !.cmd = "configure", !.m = m]
    <2>2. Moves(p, "create", j)
      BY <2>1, GoMoves
    <2>3. IsJob(j) /\ j.m = m /\ j.backup = <<>>
      <3> DEFINE c == "configure"
      <3>1. j = [NoJob EXCEPT !.cmd = c, !.m = m]
        OBVIOUS
      <3> HIDE DEF j, c
      <3> QED BY <3>1, NoJobIs DEF IsJob
    <2> HIDE DEF j
    <2>4. Carries("create", j)
      BY <2>3 DEF Carries, Positions, Projecting, Looked, Cloning
    <2>5. Settles(p)
      BY <2>2, <2>3, <2>4 DEF Settles, Looked, Cloning
    <2> QED BY <1>1, <1>2, <2>5 DEF Configure
  <1>3. ASSUME BeginUnlock(p) PROVE WInv'
    <2> DEFINE m == Parse(manifest)
    <2>1. manifest \in Manifests /\ Parses(manifest) /\ Goto(p, "promote") /\ UNCHANGED files
      BY <1>3, WState DEF BeginUnlock, FilesOK
    <2>2. PICK layer \in LayerNames(m) \cup {"core"} : \E url \in DeclaredUrls(m, layer) :
             With(p, [NoJob EXCEPT !.cmd = "unlock", !.m = m, !.target = PlanUnlock(m, layer, url)])
      BY <1>3 DEF BeginUnlock
    <2>3. PICK url \in DeclaredUrls(m, layer) :
             With(p, [NoJob EXCEPT !.cmd = "unlock", !.m = m, !.target = PlanUnlock(m, layer, url)])
      BY <2>2
    <2> DEFINE t == PlanUnlock(m, layer, url)
               j == [NoJob EXCEPT !.cmd = "unlock", !.m = m, !.target = t]
    <2>4. Moves(p, "promote", j)
      BY <2>1, <2>3, GoMoves
    <2>5. IsPlace(t.dest) /\ IsPlace(t.source)
      BY <2>1, <2>2, <2>3, UnlockPlaces
    <2> HIDE DEF t, m
    <2>6. IsJob(j) /\ j.backup = <<>> /\ j.target = t
      <3> DEFINE c == "unlock"
      <3>1. j = [NoJob EXCEPT !.cmd = c, !.m = m, !.target = t]
        OBVIOUS
      <3> HIDE DEF j, c
      <3> QED BY <3>1, NoJobIs DEF IsJob
    <2> HIDE DEF j
    <2>7. Carries("promote", j)
      BY <2>5, <2>6 DEF Carries, Positions, Projecting, Looked, Cloning
    <2>8. Settles(p)
      BY <2>4, <2>6, <2>7 DEF Settles, Looked, Cloning
    <2> QED BY <1>1, <2>1, <2>8
  <1>4. ASSUME NEW c, NEW l \in {"resolve", "check", "plan", "survey", "mounts"}, Read(p, c, l) PROVE WInv'
    BY <1>1, <1>4, ReadSettles
  <1> QED BY <1>2, <1>3, <1>4 DEF BeginCommand, OnboardCatalog

LEMMA EndQuiet ==
  ASSUME WInv, NEW p \in Procs, NEW ok, End(p, ok), FilesOK', UNCHANGED <<disk, placed>>
  PROVE  WInv'
  BY EndSettles, SettledQuiet

LEMMA WritersW ==
  ASSUME WInv, NEW p \in Procs, CreateManifest(p) \/ Resolve(p) \/ WriteLock(p)
  PROVE  WInv'
  <1>1. CASE CreateManifest(p)
    <2>1. job[p].m \in Manifests
      BY <1>1, WState DEF CreateManifest, Carries
    <2>2. FilesOK'
      BY <1>1, <2>1, WState DEF CreateManifest, FilesOK
    <2> QED BY <1>1, <2>2, EndQuiet DEF CreateManifest
  <1>2. CASE Resolve(p)
    <2>1. FilesOK' /\ UNCHANGED <<disk, placed>>
      BY <1>2, WState DEF Resolve, FilesOK, files
    <2>2. ASSUME Goto(p, "write"), With(p, [job[p] EXCEPT !.lock = BuildLock(job[p].m, ResolveRef(job[p].m))])
          PROVE  WInv'
      <3> DEFINE k == job[p]
                 head == ResolveRef(k.m)
                 new == BuildLock(k.m, head)
                 j == [k EXCEPT !.lock = new]
      <3>1. PICK m \in Manifests : Parses(m) /\ k.m = Parse(m)
        BY <1>2, WState DEF Resolve, Carries
      <3>2. IsJob(k) /\ k.backup = <<>>
        BY <1>2, WState DEF Resolve, Carries
      <3>3. \A s \in Sources(k.m) : head[s] \in Commits
        <4>1. \A s \in Sources(k.m) : s \in AllSources
          BY <3>1 DEF AllSources
        <4> QED BY <4>1, WState DEF FilesOK, ResolveRef
      <3>4. IsLock(new)
        <4> HIDE DEF head
        <4> QED BY <3>1, <3>3, BuildIsLock
      <3>5. Moves(p, "write", j)
        BY <2>2, GoMoves
      <3> HIDE DEF new, k
      <3>6. IsJob(j) /\ j.lock = new /\ j.backup = <<>>
        BY <3>2 DEF IsJob
      <3> HIDE DEF j
      <3>7. Carries("write", j)
        BY <3>4, <3>6 DEF Carries, Positions, Projecting, Looked, Cloning
      <3>8. Settles(p)
        BY <3>5, <3>6, <3>7 DEF Settles, Looked, Cloning
      <3> QED BY <2>1, <3>8, SettledQuiet
    <2> QED BY <1>2, <2>1, <2>2, EndQuiet DEF Resolve, Fail
  <1>3. CASE WriteLock(p)
    <2>1. IsLock(job[p].lock)
      BY <1>3, WState DEF WriteLock, Carries
    <2>2. FilesOK'
      BY <1>3, <2>1, WState DEF WriteLock, FilesOK
    <2> QED BY <1>3, <2>2, EndQuiet DEF WriteLock, Fail
  <1> QED BY <1>1, <1>2, <1>3

LEMMA PlansW ==
  ASSUME WInv, NEW p \in Procs, PlanProject(p) \/ Survey(p)
  PROVE  WInv'
  <1>1. FilesOK' /\ UNCHANGED <<disk, placed>> /\ pc[p] \in {"plan", "survey"}
    BY WState DEF PlanProject, Survey, FilesOK, files
  <1>2. ASSUME LockFits(p), Goto(p, "inspect"), With(p, [job[p] EXCEPT !.lock = lock])
        PROVE  WInv'
    <2> DEFINE k == job[p]
               j == [k EXCEPT !.lock = lock]
    <2>1. IsLock(lock)
      BY <1>2, WState DEF LockFits, FilesOK
    <2>2. IsJob(k) /\ k.backup = <<>> /\ k.at = 1
      BY <1>1, WState DEF Carries
    <2>3. Moves(p, "inspect", j)
      BY <1>2, GoMoves
    <2> HIDE DEF k
    <2>4. IsJob(j) /\ j.lock = lock /\ j.backup = <<>> /\ j.at = 1
      BY <2>2 DEF IsJob
    <2> HIDE DEF j
    <2>5. Planned(j) /\ 1 \in DOMAIN PlanOf(j)
      BY <2>1, <2>4, LockPlanned
    <2>6. Carries("inspect", j)
      BY <2>4, <2>5 DEF Carries, Positions
    <2>7. Settles(p)
      BY <2>3, <2>4, <2>6 DEF Settles, Looked, Cloning
    <2> QED BY <1>1, <2>7, SettledQuiet
  <1> QED BY <1>1, <1>2, EndQuiet DEF PlanProject, Survey, Fail

LEMMA RunsW ==
  ASSUME WInv, NEW p \in Procs, Verify(p) \/ Check(p) \/ PlanMounts(p)
  PROVE  WInv'
  <1>1. FilesOK' /\ UNCHANGED <<disk, placed>> /\ pc[p] \in {"verify", "check", "mounts"}
    BY WState DEF Verify, Check, PlanMounts, FilesOK, files
  <1>2. IsJob(job[p]) /\ job[p].backup = <<>>
    BY <1>1, WState DEF Carries
  <1>3. ASSUME NEW j, IsJob(j), j.backup = <<>>, Goto(p, "run"), With(p, j) PROVE WInv'
    <2>1. Moves(p, "run", j)
      BY <1>3, GoMoves
    <2>2. Carries("run", j)
      BY <1>3 DEF Carries, Positions, Projecting, Looked, Cloning
    <2>3. Settles(p)
      BY <1>3, <2>1, <2>2 DEF Settles, Looked, Cloning
    <2> QED BY <1>1, <2>3, SettledQuiet
  <1>4. ASSUME NEW v, Goto(p, "run"), With(p, [job[p] EXCEPT !.view = v]) PROVE WInv'
    <2> DEFINE j == [job[p] EXCEPT !.view = v]
    <2>1. IsJob(j) /\ j.backup = <<>>
      BY <1>2 DEF IsJob
    <2> HIDE DEF j
    <2> QED BY <1>3, <1>4, <2>1 DEF j
  <1>5. ASSUME NEW v, Goto(p, "run"), With(p, [job[p] EXCEPT !.lock = lock, !.view = v]) PROVE WInv'
    <2> DEFINE k == job[p]
               j == [k EXCEPT !.lock = lock, !.view = v]
    <2>1. IsJob(j) /\ j.backup = <<>>
      <3>1. IsJob(k) /\ k.backup = <<>>
        BY <1>2
      <3>2. j = [k EXCEPT !.lock = lock, !.view = v]
        OBVIOUS
      <3> HIDE DEF k, j
      <3> QED BY <3>1, <3>2 DEF IsJob
    <2> HIDE DEF j
    <2> QED BY <1>3, <1>5, <2>1 DEF j
  <1>6. ASSUME NEW ok, End(p, ok) PROVE WInv'
    BY <1>1, <1>6, EndQuiet
  <1>7. CASE Verify(p)
    BY <1>4, <1>6, <1>7 DEF Verify, Fail
  <1>8. CASE Check(p)
    BY <1>6, <1>8 DEF Check, Fail
  <1>9. CASE PlanMounts(p)
    BY <1>5, <1>6, <1>9 DEF PlanMounts, Fail
  <1> QED BY <1>7, <1>8, <1>9
-----------------------------------------------------------------------------
(* The checkout: a clone beside the destination, and the swap. *)
LEMMA TreesGrow ==
  ASSUME NEW t \in Trees, placed \subseteq placed'
  PROVE  t \in Trees'
  BY DEF Trees

LEMMA CloneIsTree ==
  ASSUME NEW url \in AllUrls, NEW commit \in Commits \cup {Local, Half}
  PROVE  Clone(url, commit) \in Trees /\ Clone(url, commit) \in Trees' /\ ~Clone(url, commit).dirty
  <1>1. ~Clone(url, commit).dirty
    BY DEF Clone
  <1>2. Clone(url, commit) \in Trees
    BY DEF Clone, Trees, AllUrls
  <1>3. Clone(url, commit) \in Trees'
    BY DEF Clone, Trees, AllUrls
  <1> QED BY <1>1, <1>2, <1>3

LEMMA WithoutIs ==
  ASSUME NEW S
  PROVE  /\ DOMAIN Without(S) = DOMAIN disk \ S
         /\ \A y \in DOMAIN disk \ S : Without(S)[y] = disk[y]
  BY DEF Without, Restrict

(* The disk after a step: what was there and stays, and what is new. *)
LEMMA DiskAfter ==
  ASSUME WInv, placed \subseteq placed', \A x \in placed' \ placed : IsPlace(x),
         \A x \in DOMAIN disk' :
            \/ x \in DOMAIN disk /\ disk'[x] = disk[x]
            \/ (x \in placed' \/ IsClone(x) \/ IsBackup(x)) /\ disk'[x] \in Trees'
  PROVE  DiskOK'
  <1>1. \A x \in placed' : IsPlace(x)
    BY WState DEF DiskOK
  <1>2. ASSUME NEW x \in DOMAIN disk'
        PROVE  (x \in placed' \/ IsClone(x) \/ IsBackup(x)) /\ disk'[x] \in Trees'
    <2>1. CASE x \in DOMAIN disk /\ disk'[x] = disk[x]
      <3>1. (x \in placed \/ IsClone(x) \/ IsBackup(x)) /\ disk[x] \in Trees
        BY <2>1, WState DEF DiskOK
      <3> QED BY <2>1, <3>1, TreesGrow
    <2> QED BY <1>2, <2>1
  <1>3. \A x \in placed' : IsPlace(x)'
    BY <1>1 DEF IsPlace, IsPath, Depth
  <1>4. \A x : (IsClone(x) <=> IsClone(x)') /\ (IsBackup(x) <=> IsBackup(x)')
    BY DEF IsClone, IsBackup, IsPath, Depth
  <1> QED BY <1>2, <1>3, <1>4 DEF DiskOK

(* A step that takes nothing off the disk. *)
LEMMA AllStay ==
  ASSUME WInv, NEW p \in Procs, NEW l, NEW j, Moves(p, l, j), l # "reap", UNCHANGED placed,
         DOMAIN disk \subseteq DOMAIN disk'
  PROVE  AllKept'
  <1>1. ASSUME NEW path \in placed PROVE Kept(disk, path)'
    <2>1. Kept(disk, path)
      BY WState DEF AllKept
    <2> QED BY <2>1, KeptSame
  <1> QED BY <1>1 DEF AllKept

LEMMA InspectW ==
  ASSUME WInv, NEW p \in Procs, Inspect(p)
  PROVE  WInv'
  <1>1. FilesOK' /\ UNCHANGED <<disk, placed>> /\ pc[p] = "inspect"
    BY WState DEF Inspect, FilesOK, files
  <1>2. pc[p] \in Projecting /\ Carries(pc[p], job[p]) /\ job[p].backup = <<>> /\ Dest(p) = DestOf(job[p])
    BY <1>1, WState, PlannedDest DEF Projecting, Carries
  <1>3. ASSUME Goto(p, "clone"), UNCHANGED job, ~(Dest(p) \in DOMAIN disk /\ IsDirty(Dest(p))) PROVE WInv'
    <2>1. Moves(p, "clone", job[p])
      BY <1>3, GoMoves
    <2>2. Carries("clone", job[p])
      BY <1>1, <1>2 DEF Carries, Projecting, Looked, Cloning, Positions
    <2>3. SeesDisk(p, disk, "clone", job[p]) /\ Own(p, "clone", job[p])
      BY <1>2, <1>3 DEF SeesDisk, IsDirty, Cloning, Own
    <2> QED BY <1>1, <2>1, <2>2, <2>3, QuietStep
  <1>4. ASSUME NextEntry(p) PROVE WInv'
    BY <1>1, <1>2, <1>4, NextEntrySettles, SettledQuiet
  <1>5. ASSUME Fail(p) PROVE WInv'
    BY <1>1, <1>5, EndQuiet DEF Fail
  <1> QED BY <1>3, <1>4, <1>5 DEF Inspect

LEMMA StartCloneW ==
  ASSUME WInv, NEW p \in Procs, StartClone(p)
  PROVE  WInv'
  <1> DEFINE d == Dest(p)
             t == MkDtemp(Front(d))
             c == Front(d) \o <<t>>
             tree == Clone(PlanStep(p).url, Half)
             k == job[p]
             j == [k EXCEPT !.clone = c]
  <1>1. pc[p] = "clone" /\ Fresh(Front(d)) # {} /\ UNCHANGED <<manifest, lock, remote, placed>>
    BY DEF StartClone
  <1>2. disk' = PutTree(disk, c, tree)
    BY DEF StartClone
  <1>3. Moves(p, "fetch", j)
    BY GoMoves DEF StartClone
  <1>4. pc[p] \in Projecting /\ Carries("clone", k) /\ SeesDisk(p, disk, "clone", k)
    BY <1>1, WState DEF Projecting, Looked
  <1>5. IsPlace(d) /\ d = DestOf(k) /\ PlanStep(p).url \in AllUrls
    BY <1>4, PlannedDest
  <1>6. c \notin DOMAIN disk /\ IsClone(c)
    BY <1>1, <1>5, FreshName, BesidePlace
  <1>7. tree \in Trees' /\ ~tree.dirty
    BY <1>5, CloneIsTree
  <1>8. FilesOK'
    BY <1>1, WState DEF FilesOK
  <1>9. IsJob(k) /\ k.backup = <<>> /\ Planned(k) /\ k.at \in DOMAIN PlanOf(k)
    BY <1>4 DEF Carries, Projecting, Looked
  <1> HIDE DEF t, tree, k, d, c
  <1>10. IsJob(j) /\ j.clone = c /\ j.backup = <<>> /\ j.m = k.m /\ j.lock = k.lock /\ j.at = k.at
    BY <1>9 DEF IsJob
  <1> HIDE DEF j
  <1>11. PlanOf(j) = PlanOf(k) /\ DestOf(j) = DestOf(k)
    BY <1>10 DEF PlanOf, DestOf
  <1>12. Carries("fetch", j)
    BY <1>9, <1>10, <1>11 DEF Carries, Positions, Planned
  <1>13. /\ DOMAIN disk' = DOMAIN disk \cup {c} /\ disk'[c] = tree
         /\ \A x \in DOMAIN disk : disk'[x] = disk[x]
    BY <1>2, <1>6 DEF PutTree
  <1>14. SeesDisk(p, disk', "fetch", j)
    <2>1. d # c
      BY <1>5, <1>6, ShapesApart
    <2>2. d \in DOMAIN disk' /\ disk'[d].dirty => p \in disk'[d].late
      BY <1>4, <1>5, <1>13, <2>1 DEF SeesDisk, Looked
    <2> QED BY <1>5, <1>6, <1>7, <1>10, <1>11, <1>13, <2>2 DEF SeesDisk, Cloning
  <1>15. Own(p, "fetch", j)
    <2>1. \A q \in Procs : pc[q] \in Cloning => job[q].clone \in DOMAIN disk
      BY WState DEF SeesDisk
    <2> QED BY <1>6, <1>10, <2>1 DEF Own
  <1>16. Untouched(p)
    BY <1>13 DEF Untouched
  <1>17. NothingUnseen(p)
    <2>1. ASSUME NEW x \in DOMAIN disk', disk'[x].dirty
          PROVE  x \in DOMAIN disk /\ disk[x].dirty /\ disk[x].late \subseteq disk'[x].late
      <3>1. x # c
        BY <1>7, <1>13, <2>1
      <3>2. x \in DOMAIN disk /\ disk'[x] = disk[x]
        BY <1>13, <3>1
      <3> QED BY <2>1, <3>2
    <2> QED BY <2>1 DEF NothingUnseen
  <1>18. DiskOK'
    BY <1>1, <1>6, <1>7, <1>13, DiskAfter
  <1>19. AllKept'
    BY <1>1, <1>3, <1>13, AllStay
  <1> QED BY <1>1, <1>3, <1>8, <1>12, <1>14, <1>15, <1>16, <1>17, <1>18, <1>19,
         OthersSee, StepInductive

(* The clone is given up. *)
LEMMA DropClone ==
  ASSUME WInv, NEW p \in Procs, pc[p] \in Cloning, disk' = Without({job[p].clone}), Fail(p),
         UNCHANGED <<manifest, lock, remote, placed>>
  PROVE  WInv'
  <1> DEFINE c == job[p].clone
  <1>1. IsClone(c)
    BY WState DEF SeesDisk
  <1>2. DOMAIN disk' = DOMAIN disk \ {c} /\ \A x \in DOMAIN disk' : disk'[x] = disk[x]
    BY WithoutIs
  <1>3. FilesOK'
    BY WState DEF FilesOK
  <1>4. Settles(p)
    BY EndSettles DEF Fail
  <1>5. Untouched(p)
    BY <1>1, <1>2, ShapesApart DEF Untouched
  <1>6. NothingUnseen(p)
    BY <1>2 DEF NothingUnseen
  <1>7. DiskOK'
    BY <1>2, DiskAfter
  <1>8. AllKept'
    <2>1. PICK l, j : Moves(p, l, j) /\ l # "reap"
      BY <1>4 DEF Settles
    <2>2. ASSUME NEW path \in placed PROVE Kept(disk, path)'
      <3>1. IsPlace(path) /\ Kept(disk, path)
        BY WState DEF DiskOK, AllKept
      <3>2. ASSUME NEW w \in {path} \cup Backups(path) PROVE w # c
        <4>1. IsPlace(w) \/ IsBackup(w)
          BY <3>1, <3>2, BesidePlace DEF Backups
        <4> QED BY <1>1, <4>1, ShapesApart
      <3>3. \A w \in DOMAIN disk \cap ({path} \cup Backups(path)) : w \in DOMAIN disk'
        BY <1>2, <3>2
      <3> QED BY <2>1, <3>1, <3>3, KeptSame
    <2> QED BY <2>2 DEF AllKept
  <1> QED BY <1>3, <1>4, <1>5, <1>6, <1>7, <1>8, SettledStep

LEMMA FetchW ==
  ASSUME WInv, NEW p \in Procs, Fetch(p)
  PROVE  WInv'
  <1>1. pc[p] = "fetch" /\ UNCHANGED <<manifest, lock, remote, placed>>
    BY DEF Fetch
  <1>2. pc[p] \in Cloning /\ pc[p] \in Projecting
    BY <1>1 DEF Cloning, Projecting
  <1>3. ASSUME disk' = [disk EXCEPT ![job[p].clone] = Clone(PlanStep(p).url, PlanStep(p).commit)],
               Goto(p, "swap_out"), UNCHANGED job
        PROVE  WInv'
    <2> DEFINE c == job[p].clone
               tree == Clone(PlanStep(p).url, PlanStep(p).commit)
               k == job[p]
    <2>1. Moves(p, "swap_out", k)
      BY <1>3, GoMoves
    <2>2. Carries("fetch", k) /\ SeesDisk(p, disk, "fetch", k) /\ Own(p, "fetch", k)
      BY <1>1, WState
    <2>3. IsPlace(DestOf(k)) /\ tree \in Trees' /\ ~tree.dirty
      BY <1>2, PlannedDest, CloneIsTree
    <2>4. c \in DOMAIN disk /\ IsClone(c)
      BY <2>2 DEF SeesDisk, Cloning
    <2>5. DOMAIN disk' = DOMAIN disk /\ disk'[c] = tree /\ \A x \in DOMAIN disk : x # c => disk'[x] = disk[x]
      BY <1>3, <2>4
    <2>6. FilesOK'
      BY <1>1, WState DEF FilesOK
    <2> HIDE DEF tree
    <2>7. Carries("swap_out", k)
      BY <2>2 DEF Carries, Positions, Projecting, Looked, Cloning
    <2>8. SeesDisk(p, disk', "swap_out", k)
      <3>1. DestOf(k) # c
        BY <2>3, <2>4, ShapesApart
      <3>2. k.backup = <<>>
        BY <2>2 DEF Carries
      <3> QED BY <2>2, <2>3, <2>4, <2>5, <3>1, <3>2 DEF SeesDisk, Cloning, Looked
    <2>9. Own(p, "swap_out", k)
      BY <2>2 DEF Own, Cloning
    <2>10. Untouched(p)
      BY <1>2, <2>4, <2>5, ShapesApart DEF Untouched
    <2>11. NothingUnseen(p)
      BY <2>3, <2>5 DEF NothingUnseen
    <2>12. DiskOK'
      BY <1>1, <2>3, <2>4, <2>5, DiskAfter
    <2>13. AllKept'
      BY <1>1, <2>1, <2>5, AllStay
    <2> QED BY <1>1, <2>1, <2>6, <2>7, <2>8, <2>9, <2>10, <2>11, <2>12, <2>13, OthersSee, StepInductive
  <1> QED BY <1>1, <1>2, <1>3, DropClone DEF Fetch

(* A placed checkout has no copy among the clones. *)
LEMMA CopyShapes ==
  ASSUME NEW path, IsPlace(path), NEW w \in {path} \cup Backups(path)
  PROVE  /\ w = path \/ IsBackup(w)
         /\ ~IsClone(w)
  BY BesidePlace, ShapesApart DEF Backups

LEMMA SwapOutW ==
  ASSUME WInv, NEW p \in Procs, SwapOut(p)
  PROVE  WInv'
  <1>1. pc[p] = "swap_out" /\ UNCHANGED <<manifest, lock, remote, placed>>
    BY DEF SwapOut
  <1>2. pc[p] \in Cloning /\ pc[p] \in Projecting
    BY <1>1 DEF Cloning, Projecting
  <1>3. FilesOK'
    BY <1>1, WState DEF FilesOK
  <1> DEFINE k == job[p]
             d == Dest(p)
             t == MkDtemp(Front(d))
             b == Front(d) \o <<t, Last(d)>>
             c == k.clone
             j == [k EXCEPT !.backup = b]
  <1>4. Carries("swap_out", k) /\ SeesDisk(p, disk, "swap_out", k) /\ Own(p, "swap_out", k)
    BY <1>1, WState
  <1>5. IsPlace(d) /\ d = DestOf(k) /\ c \in DOMAIN disk /\ IsClone(c) /\ ~disk[c].dirty /\ k.backup = <<>>
    BY <1>2, <1>4, PlannedDest DEF Carries, SeesDisk, Cloning
  <1>6. ASSUME d \in DOMAIN disk, Fresh(Front(d)) # {}, disk' = PutTree(Without({d}), b, disk[d]),
               Goto(p, "swap_in"), With(p, j)
        PROVE  WInv'
    <2>1. Moves(p, "swap_in", j)
      BY <1>6, GoMoves
    <2>2. b \notin DOMAIN disk /\ IsBackup(b) /\ b \in Backups(d) /\ b # <<>>
      BY <1>5, <1>6, FreshName, BesidePlace, ShapesApart
    <2>3. IsJob(k) /\ Planned(k) /\ k.at \in DOMAIN PlanOf(k)
      BY <1>4 DEF Carries, Projecting, Looked
    <2>4. disk' = PutTree(Without({d}), b, disk[d])
      BY <1>6
    <2> HIDE DEF k, d, t, b, c
    <2>5. IsJob(j) /\ j.backup = b /\ j.clone = k.clone /\ j.m = k.m /\ j.lock = k.lock /\ j.at = k.at
      BY <2>3 DEF IsJob
    <2> HIDE DEF j
    <2>6. PlanOf(j) = PlanOf(k) /\ DestOf(j) = DestOf(k)
      BY <2>5 DEF PlanOf, DestOf
    <2>7. Carries("swap_in", j)
      BY <2>2, <2>3, <2>5, <2>6 DEF Carries, Positions, Planned
    <2>8. /\ DOMAIN disk' = (DOMAIN disk \ {d}) \cup {b} /\ disk'[b] = disk[d]
          /\ \A x \in DOMAIN disk : x # d => disk'[x] = disk[x]
      BY <2>2, <2>4 DEF PutTree, Without, Restrict
    <2>9. SeesDisk(p, disk', "swap_in", j)
      <3>1. c # d
        BY <1>5, ShapesApart
      <3>2. c \in DOMAIN disk' /\ disk'[c] = disk[c]
        BY <1>5, <2>8, <3>1
      <3>3. disk'[b].dirty => p \in disk'[b].late
        BY <1>4, <1>5, <1>6, <2>8 DEF SeesDisk, Looked
      <3> QED BY <1>5, <2>2, <2>5, <2>6, <2>8, <3>2, <3>3 DEF SeesDisk, Looked, c
    <2>10. Own(p, "swap_in", j)
      <3>1. ASSUME NEW q \in Procs \ {p} PROVE b # job[q].backup
        BY <2>2, BackupOf
      <3>2. ASSUME NEW q \in Procs \ {p}, pc[q] \in Cloning PROVE j.clone # job[q].clone
        BY <1>4, <2>5, <3>2 DEF Own, Cloning
      <3>3. d \in placed
        BY <1>5, <1>6, WState, ShapesApart DEF DiskOK
      <3> QED BY <1>5, <2>5, <2>6, <3>1, <3>2, <3>3 DEF Own
    <2>11. Untouched(p)
      <3>1. \A x : IsClone(x) \/ IsBackup(x) => x # d
        BY <1>5, ShapesApart
      <3> QED BY <2>8, <3>1 DEF Untouched
    <2>12. NothingUnseen(p)
      <3>1. ASSUME NEW x \in DOMAIN disk', IsPlace(x)
            PROVE  x \in DOMAIN disk /\ disk'[x] = disk[x]
        <4>1. x # b
          BY <2>2, <3>1, ShapesApart
        <4> QED BY <2>8, <3>1, <4>1
      <3> QED BY <3>1 DEF NothingUnseen
    <2>13. DiskOK'
      <3>1. disk[d] \in Trees'
        BY <1>1, <1>6, WState, TreesGrow DEF DiskOK
      <3> QED BY <1>1, <2>2, <2>8, <3>1, DiskAfter
    <2>14. AllKept'
      <3>1. ASSUME NEW path \in placed PROVE Kept(disk, path)'
        <4>1. IsPlace(path) /\ Kept(disk, path)
          BY WState DEF DiskOK, AllKept
        <4>2. CASE path = d
          BY <2>1, <2>2, <2>8, <4>2, KeptAside
        <4>3. CASE path # d
          <5>1. \A w \in {path} \cup Backups(path) : w # d
            BY <1>5, <4>1, <4>3, CopyShapes, ShapesApart
          <5>2. \A w \in DOMAIN disk \cap ({path} \cup Backups(path)) : w \in DOMAIN disk'
            BY <2>8, <5>1
          <5> QED BY <2>1, <4>1, <5>2, KeptSame
        <4> QED BY <4>2, <4>3
      <3> QED BY <1>1, <3>1 DEF AllKept
    <2> QED BY <1>1, <1>3, <2>1, <2>7, <2>9, <2>10, <2>11, <2>12, <2>13, <2>14, OthersSee, StepInductive
  <1>7. ASSUME Goto(p, "swap_in"), UNCHANGED <<disk, job>> PROVE WInv'
    <2>1. Moves(p, "swap_in", k)
      BY <1>7, GoMoves
    <2>2. Carries("swap_in", k)
      BY <1>4, <1>5 DEF Carries, Positions, Projecting, Looked, Cloning
    <2>3. SeesDisk(p, disk, "swap_in", k)
      BY <1>4, <1>5 DEF SeesDisk, Looked, Cloning
    <2>4. Own(p, "swap_in", k)
      BY <1>4 DEF Own, Cloning
    <2> QED BY <1>1, <1>3, <1>7, <2>1, <2>2, <2>3, <2>4, QuietStep
  <1> QED BY <1>1, <1>2, <1>6, <1>7, DropClone DEF SwapOut

(* The clone takes the place of the checkout. *)
LEMMA TakesPlace ==
  ASSUME WInv, NEW p \in Procs, pc[p] = "swap_in", ~Occupied(p),
         disk' = PutTree(Without({job[p].clone}), Dest(p), disk[job[p].clone]), placed' = placed \cup {Dest(p)},
         UNCHANGED <<manifest, lock, remote>>
  PROVE  /\ FilesOK' /\ Untouched(p) /\ NothingUnseen(p) /\ DiskOK' /\ placed \subseteq placed'
         /\ \A l, j : Moves(p, l, j) /\ (l = "reap" => j.backup = job[p].backup /\ j.backup # <<>>) => AllKept'
         /\ \A x \in DOMAIN disk : IsBackup(x) => x \in DOMAIN disk' /\ disk'[x] = disk[x]
  <1> DEFINE c == job[p].clone
             d == Dest(p)
  <1>1. pc[p] \in Cloning /\ pc[p] \in Projecting
    BY DEF Cloning, Projecting
  <1>2. c \in DOMAIN disk /\ IsClone(c) /\ ~disk[c].dirty
    BY <1>1, WState DEF SeesDisk
  <1>3. IsPlace(d) /\ d \notin DOMAIN disk
    BY <1>1, PlannedDest DEF Occupied
  <1>4. disk' = PutTree(Without({c}), d, disk[c]) /\ placed' = placed \cup {d}
    OBVIOUS
  <1>5. c = job[p].clone
    OBVIOUS
  <1> HIDE DEF c, d
  <1>6. /\ DOMAIN disk' = (DOMAIN disk \ {c}) \cup {d} /\ disk'[d] = disk[c]
        /\ \A x \in DOMAIN disk \ {c} : x \in DOMAIN disk' /\ disk'[x] = disk[x]
    BY <1>3, <1>4 DEF PutTree, Without, Restrict
  <1>7. FilesOK' /\ placed \subseteq placed'
    BY <1>4, WState DEF FilesOK
  <1>8. \A x \in DOMAIN disk : IsBackup(x) => x \in DOMAIN disk' /\ disk'[x] = disk[x]
    BY <1>2, <1>6, ShapesApart
  <1>9. Untouched(p)
    BY <1>1, <1>5, <1>6, <1>8 DEF Untouched
  <1>10. NothingUnseen(p)
    BY <1>2, <1>6 DEF NothingUnseen
  <1>11. DiskOK'
    <2>1. disk[c] \in Trees'
      BY <1>2, <1>7, WState, TreesGrow DEF DiskOK
    <2> QED BY <1>3, <1>4, <1>6, <1>7, <2>1, DiskAfter
  <1>12. ASSUME NEW l, NEW j, Moves(p, l, j), l = "reap" => j.backup = job[p].backup /\ j.backup # <<>>
         PROVE  AllKept'
    <2>1. l = "reap" => IsBackup(j.backup) /\ j.backup \in Backups(d)
      BY <1>12, BackupOf DEF d
    <2>2. ASSUME NEW path \in placed' PROVE Kept(disk, path)'
      <3>1. CASE path = d
        <4>1. IsPlace(path) /\ path \in DOMAIN disk'
          BY <1>3, <1>6, <3>1
        <4>2. l = "reap" => j.backup # path
          BY <2>1, <4>1, ShapesApart
        <4> QED BY <1>12, <4>1, <4>2, KeptThere
      <3>2. CASE path # d
        <4>1. IsPlace(path) /\ Kept(disk, path)
          BY <1>4, <2>2, <3>2, WState DEF DiskOK, AllKept
        <4>2. \A w \in DOMAIN disk \cap ({path} \cup Backups(path)) : w \in DOMAIN disk'
          BY <1>2, <1>6, <4>1, CopyShapes
        <4>3. l = "reap" => j.backup \notin {path} \cup Backups(path)
          BY <1>3, <2>1, <3>2, <4>1, BackupOfOne, ShapesApart
        <4> QED BY <1>12, <4>1, <4>2, <4>3, KeptSame
      <3> QED BY <3>1, <3>2
    <2> QED BY <2>2 DEF AllKept
  <1> QED BY <1>7, <1>8, <1>9, <1>10, <1>11, <1>12

(* The backup goes back to its place. *)
LEMMA GoesBack ==
  ASSUME WInv, NEW p \in Procs, pc[p] = "swap_in", job[p].backup # <<>>, ~Occupied(p), Fail(p),
         disk' = PutTree(Without({job[p].clone, job[p].backup}), Dest(p),
                         [disk[job[p].backup] EXCEPT !.late = @ \cup Replacing(Dest(p))]),
         UNCHANGED <<manifest, lock, remote, placed>>
  PROVE  WInv'
  <1> DEFINE c == job[p].clone
             b == job[p].backup
             d == Dest(p)
             back == [disk[b] EXCEPT !.late = @ \cup Replacing(d)]
  <1>1. pc[p] \in Cloning /\ pc[p] \in Projecting
    BY DEF Cloning, Projecting
  <1>2. c \in DOMAIN disk /\ IsClone(c)
    BY <1>1, WState DEF SeesDisk
  <1>3. IsPlace(d) /\ d \notin DOMAIN disk
    BY <1>1, PlannedDest DEF Occupied
  <1>4. b \in DOMAIN disk /\ IsBackup(b) /\ b \in Backups(d) /\ d \in placed
    BY <1>1, BackupOf, WState, PlannedDest DEF Own
  <1>5. disk' = PutTree(Without({c, b}), d, back)
    OBVIOUS
  <1>6. back \in Trees' /\ Replacing(d) \subseteq back.late
    <2>1. disk[b] \in Trees
      BY <1>4, WState DEF DiskOK
    <2>2. disk[b] \in Trees'
      BY <2>1, TreesGrow
    <2>3. Replacing(d) \subseteq Procs
      BY DEF Replacing
    <2> DEFINE r == Replacing(d)
               t == disk[b]
    <2> HIDE DEF r, t
    <2>4. back = [t EXCEPT !.late = t.late \cup r]
      BY DEF r, t
    <2>5. t \in Trees' /\ r \subseteq Procs
      BY <2>2, <2>3 DEF r, t
    <2> HIDE DEF back
    <2>6. back \in Trees' /\ r \subseteq back.late
      BY <2>4, <2>5 DEF Trees
    <2> QED BY <2>6 DEF r
  <1>7. c = job[p].clone /\ b = job[p].backup
    OBVIOUS
  <1>8. Settles(p) /\ FilesOK'
    BY EndSettles, WState DEF Fail, FilesOK
  <1> HIDE DEF c, b, d, back
  <1>9. /\ DOMAIN disk' = (DOMAIN disk \ {c, b}) \cup {d} /\ disk'[d] = back
        /\ \A x \in DOMAIN disk \ {c, b} : x \in DOMAIN disk' /\ disk'[x] = disk[x]
    BY <1>3, <1>5 DEF PutTree, Without, Restrict
  <1>10. Untouched(p)
    BY <1>1, <1>2, <1>4, <1>7, <1>9, ShapesApart DEF Untouched
  <1>11. NothingUnseen(p)
    BY <1>6, <1>9 DEF NothingUnseen
  <1>12. DiskOK'
    BY <1>4, <1>6, <1>9, DiskAfter
  <1>13. AllKept'
    <2>1. PICK l, j : Moves(p, l, j) /\ l # "reap"
      BY <1>8 DEF Settles
    <2>2. ASSUME NEW path \in placed PROVE Kept(disk, path)'
      <3>1. IsPlace(path) /\ Kept(disk, path)
        BY WState DEF DiskOK, AllKept
      <3>2. CASE path = d
        BY <1>3, <1>9, <2>1, <3>2, KeptThere
      <3>3. CASE path # d
        <4>1. \A w \in {path} \cup Backups(path) : w # c /\ w # b
          BY <1>2, <1>3, <1>4, <3>1, <3>3, CopyShapes, BackupOfOne, ShapesApart
        <4>2. \A w \in DOMAIN disk \cap ({path} \cup Backups(path)) : w \in DOMAIN disk'
          BY <1>9, <4>1
        <4> QED BY <2>1, <3>1, <4>2, KeptSame
      <3> QED BY <3>2, <3>3
    <2> QED BY <2>2 DEF AllKept
  <1> QED BY <1>8, <1>10, <1>11, <1>12, <1>13, SettledStep

LEMMA SwapInW ==
  ASSUME WInv, NEW p \in Procs, SwapIn(p)
  PROVE  WInv'
  <1>1. pc[p] = "swap_in" /\ UNCHANGED <<manifest, lock, remote>>
    BY DEF SwapIn
  <1>2. pc[p] \in Cloning /\ pc[p] \in Projecting
    BY <1>1 DEF Cloning, Projecting
  <1> DEFINE k == job[p]
             fits == /\ ~Occupied(p) /\ placed' = placed \cup {Dest(p)}
                     /\ disk' = PutTree(Without({k.clone}), Dest(p), disk[k.clone])
  <1>3. ASSUME fits, NextEntry(p) PROVE WInv'
    <2>1. Settles(p)
      BY <1>2, <1>3, NextEntrySettles
    <2>2. PICK l, j : Moves(p, l, j) /\ l # "reap"
      BY <2>1 DEF Settles
    <2>3. FilesOK' /\ Untouched(p) /\ NothingUnseen(p) /\ DiskOK' /\ placed \subseteq placed' /\ AllKept'
      BY <1>1, <1>3, <2>2, TakesPlace
    <2> QED BY <2>1, <2>3, SettledStep
  <1>4. ASSUME fits, k.backup # <<>>, Goto(p, "reap"), UNCHANGED job PROVE WInv'
    <2>1. Moves(p, "reap", k)
      BY <1>4, GoMoves
    <2>2. Carries("swap_in", k) /\ SeesDisk(p, disk, "swap_in", k) /\ Own(p, "swap_in", k)
      BY <1>1, WState
    <2>3. FilesOK' /\ Untouched(p) /\ NothingUnseen(p) /\ DiskOK' /\ placed \subseteq placed'
      BY <1>1, <1>4, TakesPlace
    <2>4. AllKept'
      BY <1>1, <1>4, <2>1, TakesPlace
    <2>5. Carries("reap", k)
      BY <1>4, <2>2 DEF Carries, Positions, Projecting, Looked, Cloning
    <2>6. k.backup \in DOMAIN disk' /\ disk'[k.backup] = disk[k.backup]
      BY <1>1, <1>4, BackupOf, TakesPlace
    <2>7. SeesDisk(p, disk', "reap", k)
      BY <2>2, <2>6 DEF SeesDisk, Looked, Cloning
    <2>8. Own(p, "reap", k)
      BY <2>2 DEF Own, Cloning
    <2> QED BY <2>1, <2>3, <2>4, <2>5, <2>7, <2>8, OthersSee, StepInductive
  <1>5. ASSUME disk' = Without({k.clone}), Fail(p), UNCHANGED placed PROVE WInv'
    BY <1>1, <1>2, <1>5, DropClone
  <1>6. ASSUME k.backup # <<>>, ~Occupied(p), Fail(p), UNCHANGED placed,
               disk' = PutTree(Without({k.clone, k.backup}), Dest(p),
                               [disk[k.backup] EXCEPT !.late = @ \cup Replacing(Dest(p))])
        PROVE  WInv'
    BY <1>1, <1>6, GoesBack
  <1> QED BY <1>3, <1>4, <1>5, <1>6, Zenon DEF SwapIn

LEMMA ReapW ==
  ASSUME WInv, NEW p \in Procs, Reap(p)
  PROVE  WInv'
  <1> DEFINE b == job[p].backup
  <1>1. pc[p] = "reap" /\ UNCHANGED <<manifest, lock, remote, placed>> /\ disk' = Without({b}) /\ NextEntry(p)
    BY DEF Reap
  <1>2. pc[p] \in Projecting /\ b # <<>> /\ b = job[p].backup
    BY <1>1, WState DEF Projecting, Carries
  <1>3. IsBackup(b)
    BY <1>2, BackupOf
  <1>4. Settles(p) /\ FilesOK'
    BY <1>1, <1>2, NextEntrySettles, WState DEF FilesOK
  <1> HIDE DEF b
  <1>5. DOMAIN disk' = DOMAIN disk \ {b} /\ \A x \in DOMAIN disk' : disk'[x] = disk[x]
    BY <1>1, WithoutIs
  <1>6. Untouched(p)
    BY <1>2, <1>3, <1>5, ShapesApart DEF Untouched
  <1>7. NothingUnseen(p)
    BY <1>5 DEF NothingUnseen
  <1>8. DiskOK'
    BY <1>1, <1>5, DiskAfter
  <1>9. AllKept'
    <2>1. PICK l, j : Moves(p, l, j) /\ l # "reap"
      BY <1>4 DEF Settles
    <2>2. ASSUME NEW path \in placed PROVE Kept(disk, path)'
      <3>1. Kept(disk, path)
        BY WState DEF AllKept
      <3>2. \A w \in DOMAIN disk \cap ({path} \cup Backups(path)) :
               w \in DOMAIN disk' \/ (pc[p] = "reap" /\ w = job[p].backup)
        BY <1>1, <1>2, <1>5
      <3> QED BY <2>1, <3>1, <3>2, KeptSame
    <2> QED BY <1>1, <2>2 DEF AllKept
  <1> QED BY <1>1, <1>4, <1>6, <1>7, <1>8, <1>9, SettledStep

LEMMA PromoteW ==
  ASSUME WInv, NEW p \in Procs, Promote(p)
  PROVE  WInv'
  <1> DEFINE s == job[p].target.source
             d == job[p].target.dest
             t == disk[s]
             listed == [t EXCEPT !.linked = @ \cup {d}]
             fresh == Clone(t.url, t.commit)
             tree == [fresh EXCEPT !.source = s]
  <1>1. pc[p] = "promote" /\ UNCHANGED <<manifest, lock, remote>>
    BY DEF Promote
  <1>2. IsPlace(d) /\ IsPlace(s)
    BY <1>1, WState DEF Carries
  <1>3. FilesOK'
    BY <1>1, WState DEF FilesOK
  <1>4. ASSUME d \notin DOMAIN disk, s \in DOMAIN disk, End(p, TRUE), placed' = placed \cup {d},
               disk' = PutTree([disk EXCEPT ![s].linked = @ \cup {d}], d, tree)
        PROVE  WInv'
    <2>1. Settles(p)
      BY <1>4, EndSettles
    <2>2. s \in placed /\ t \in Trees
      BY <1>2, <1>4, WState, ShapesApart DEF DiskOK
    <2>3. disk' = PutTree([disk EXCEPT ![s] = listed], d, tree)
      BY <1>4
    <2> HIDE DEF s, d, t
    <2>4. t.url \in AllUrls /\ t.commit \in Commits \cup {Local, Half} /\ t \in Trees'
      BY <1>4, <2>2, TreesGrow DEF Trees, AllUrls
    <2>5. fresh \in Trees' /\ ~fresh.dirty
      BY <2>4, CloneIsTree
    <2> HIDE DEF fresh
    <2>6. tree \in Trees' /\ ~tree.dirty
      BY <1>4, <2>2, <2>5 DEF Trees
    <2>7. listed \in Trees' /\ listed.dirty = t.dirty /\ listed.late = t.late
      BY <1>4, <2>4 DEF Trees
    <2> HIDE DEF tree, listed
    <2>8. s # d
      BY <1>4
    <2>9. /\ DOMAIN disk' = DOMAIN disk \cup {d} /\ disk'[d] = tree /\ disk'[s] = listed
          /\ \A x \in DOMAIN disk : x # s => disk'[x] = disk[x]
      BY <1>4, <2>3, <2>8 DEF PutTree
    <2>10. Untouched(p)
      BY <1>2, <2>9, ShapesApart DEF Untouched
    <2>11. NothingUnseen(p)
      <3>1. ASSUME NEW x \in DOMAIN disk', disk'[x].dirty
            PROVE  x \in DOMAIN disk /\ disk[x].dirty /\ disk[x].late \subseteq disk'[x].late
        <4>1. x # d
          BY <2>6, <2>9, <3>1
        <4>2. CASE x = s
          BY <1>4, <2>7, <2>9, <3>1, <4>2 DEF t
        <4>3. CASE x # s
          BY <2>9, <3>1, <4>1, <4>3
        <4> QED BY <4>2, <4>3
      <3> QED BY <3>1 DEF NothingUnseen
    <2>12. DiskOK'
      <3>1. ASSUME NEW x \in DOMAIN disk'
            PROVE  \/ x \in DOMAIN disk /\ disk'[x] = disk[x]
                   \/ (x \in placed' \/ IsClone(x) \/ IsBackup(x)) /\ disk'[x] \in Trees'
        BY <1>4, <2>2, <2>6, <2>7, <2>9, <3>1
      <3>2. placed \subseteq placed' /\ \A x \in placed' \ placed : IsPlace(x)
        BY <1>2, <1>4
      <3> QED BY <3>1, <3>2, DiskAfter
    <2>13. AllKept'
      <3>1. PICK l, j : Moves(p, l, j) /\ l # "reap"
        BY <2>1 DEF Settles
      <3>2. ASSUME NEW path \in placed' PROVE Kept(disk, path)'
        <4>1. CASE path = d
          <5>1. IsPlace(path) /\ path \in DOMAIN disk'
            BY <1>2, <2>9, <4>1
          <5> QED BY <3>1, <5>1, KeptThere
        <4>2. CASE path # d
          <5>1. Kept(disk, path)
            BY <1>4, <3>2, <4>2, WState DEF AllKept
          <5>2. \A w \in DOMAIN disk \cap ({path} \cup Backups(path)) : w \in DOMAIN disk'
            BY <2>9
          <5> QED BY <3>1, <5>1, <5>2, KeptSame
        <4> QED BY <4>1, <4>2
      <3> QED BY <3>2 DEF AllKept
    <2> QED BY <1>3, <1>4, <2>1, <2>10, <2>11, <2>12, <2>13, SettledStep
  <1>5. ASSUME UNCHANGED <<disk, placed>>, Fail(p) PROVE WInv'
    BY <1>3, <1>5, EndQuiet DEF Fail
  <1> QED BY <1>4, <1>5, Zenon DEF Promote

(* A process dies, or hands its mounts over. *)
LEMMA CrashW ==
  ASSUME WInv, NEW p \in Procs, Crash(p)
  PROVE  WInv'
  <1>1. Moves(p, "idle", NoJob) /\ UNCHANGED files
    BY GoMoves DEF Crash
  <1>2. Carries("idle", NoJob)
    BY NoJobIs DEF Carries, Positions, Projecting, Looked, Cloning
  <1>3. Settles(p)
    BY <1>1, <1>2, NoJobIs DEF Settles, Looked, Cloning
  <1>4. FilesOK' /\ UNCHANGED <<disk, placed>>
    BY <1>1, WState DEF FilesOK, files
  <1> QED BY <1>3, <1>4, SettledQuiet

LEMMA HandOverW ==
  ASSUME WInv, NEW p \in Procs, HandOver(p)
  PROVE  WInv'
  <1>1. FilesOK' /\ UNCHANGED <<disk, placed>>
    BY WState DEF HandOver, FilesOK, files
  <1> QED BY <1>1, EndQuiet DEF HandOver

(* A step of the user or of upstream: no process moves. *)
LEMMA StillInductive ==
  ASSUME WInv, UNCHANGED <<pc, job, placed>>, FilesOK', DOMAIN disk' = DOMAIN disk, DiskOK',
         \A q \in Procs : SeesDisk(q, disk', pc[q], job[q])
  PROVE  WInv'
  <1>1. AllKept'
    <2>1. ASSUME NEW path \in placed PROVE Kept(disk, path)'
      <3>1. Kept(disk, path)
        BY WState DEF AllKept
      <3> QED BY <3>1 DEF Kept, Backups
    <2> QED BY <2>1 DEF AllKept
  <1>2. \A q \in Procs : Carries(pc'[q], job'[q]) /\ SeesDisk(q, disk', pc'[q], job'[q])
    BY WState
  <1>3. pc' = [q \in Procs |-> pc'[q]] /\ job' = [q \in Procs |-> job'[q]]
    BY WState
  <1>4. \A q \in Procs : job'[q].backup # <<>> => DestOf(job'[q]) \in placed'
    BY WState DEF Own
  <1>5. \A q, r \in Procs : q # r =>
           /\ pc'[q] \in Cloning /\ pc'[r] \in Cloning => job'[q].clone # job'[r].clone
           /\ job'[q].backup # <<>> => job'[q].backup # job'[r].backup
    BY DEF WInv
  <1> QED BY <1>1, <1>2, <1>3, <1>4, <1>5 DEF WInv, FilesOK, DiskOK, AllKept

LEMMA EditTreeW ==
  ASSUME WInv, EditTree, UNCHANGED <<pc, job>>
  PROVE  WInv'
  <1>1. FilesOK' /\ UNCHANGED placed
    BY WState DEF EditTree, FilesOK
  <1>2. PICK path \in placed \cap DOMAIN disk :
           \/ disk' = [disk EXCEPT ![path].dirty = TRUE, ![path].late = Replacing(path)]
           \/ disk' = [disk EXCEPT ![path].dirty = FALSE, ![path].commit = Local]
    BY DEF EditTree
  <1> DEFINE t == disk[path]
  <1>3. t \in Trees /\ IsPlace(path) /\ path \in DOMAIN disk
    BY <1>2, WState DEF DiskOK
  <1>4. Replacing(path) \in SUBSET Procs
    BY DEF Replacing
  <1>5. PICK n \in Trees : /\ DOMAIN disk' = DOMAIN disk /\ disk'[path] = n
                           /\ \A x \in DOMAIN disk : x # path => disk'[x] = disk[x]
                           /\ n.dirty => n.late = Replacing(path)
    <2>1. CASE disk' = [disk EXCEPT ![path].dirty = TRUE, ![path].late = Replacing(path)]
      <3> DEFINE r == Replacing(path)
                 n == [t EXCEPT !.dirty = TRUE, !.late = r]
      <3>1. disk' = [disk EXCEPT ![path] = n]
        BY <2>1
      <3>2. t \in Trees /\ r \in SUBSET Procs
        BY <1>3, <1>4
      <3> HIDE DEF t, r
      <3>3. n \in Trees /\ n.late = r
        BY <3>2 DEF Trees
      <3> HIDE DEF n
      <3>4. /\ DOMAIN disk' = DOMAIN disk /\ disk'[path] = n
            /\ \A x \in DOMAIN disk : x # path => disk'[x] = disk[x]
        BY <1>3, <3>1
      <3> QED BY <3>3, <3>4 DEF r
    <2>2. CASE disk' = [disk EXCEPT ![path].dirty = FALSE, ![path].commit = Local]
      <3> DEFINE n == [t EXCEPT !.dirty = FALSE, !.commit = Local]
      <3>1. disk' = [disk EXCEPT ![path] = n]
        BY <2>2
      <3>2. t \in Trees
        BY <1>3
      <3> HIDE DEF t
      <3>3. n \in Trees /\ ~n.dirty
        BY <3>2 DEF Trees
      <3> HIDE DEF n
      <3>4. /\ DOMAIN disk' = DOMAIN disk /\ disk'[path] = n
            /\ \A x \in DOMAIN disk : x # path => disk'[x] = disk[x]
        BY <1>3, <3>1
      <3> QED BY <3>3, <3>4
    <2> QED BY <1>2, <2>1, <2>2
  <1>6. DiskOK'
    <2>1. n \in Trees'
      BY <1>1, TreesGrow
    <2> QED BY <1>1, <1>2, <1>5, <2>1, DiskAfter
  <1>7. ASSUME NEW q \in Procs PROVE SeesDisk(q, disk', pc[q], job[q])
    <2>1. SeesDisk(q, disk, pc[q], job[q])
      BY WState
    <2>2. ASSUME pc[q] \in Cloning
          PROVE  job[q].clone \in DOMAIN disk' /\ IsClone(job[q].clone) /\ ~disk'[job[q].clone].dirty
      BY <1>3, <1>5, <2>1, <2>2, ShapesApart DEF SeesDisk
    <2>3. ASSUME job[q].backup # <<>>
          PROVE  /\ job[q].backup \in DOMAIN disk' /\ job[q].backup \in Backups(DestOf(job[q]))
                 /\ disk'[job[q].backup].dirty => q \in disk'[job[q].backup].late
      <3>1. job[q].backup # path
        BY <1>3, <2>3, BackupOf, ShapesApart
      <3> QED BY <1>5, <2>1, <2>3, <3>1 DEF SeesDisk
    <2>4. ASSUME pc[q] \in Looked, DestOf(job[q]) \in DOMAIN disk', disk'[DestOf(job[q])].dirty
          PROVE  q \in disk'[DestOf(job[q])].late
      <3> DEFINE x == DestOf(job[q])
      <3>1. x = Dest(q)
        BY <2>4, PlannedDest DEF Projecting
      <3>2. x = path => q \in Replacing(path)
        BY <2>4, <3>1 DEF Replacing, Looked
      <3>3. x \in DOMAIN disk' /\ disk'[x].dirty
        BY <2>4
      <3>4. x \in DOMAIN disk /\ disk[x].dirty => q \in disk[x].late
        BY <2>1, <2>4 DEF SeesDisk
      <3> HIDE DEF x
      <3>5. q \in disk'[x].late
        BY <1>5, <3>2, <3>3, <3>4
      <3> QED BY <3>5 DEF x
    <2> QED BY <2>2, <2>3, <2>4 DEF SeesDisk
  <1> QED BY <1>1, <1>5, <1>6, <1>7, StillInductive

LEMMA WorkspaceEnvW ==
  ASSUME WInv, WorkspaceEnv
  PROVE  WInv'
  <1>1. ASSUME FilesOK', UNCHANGED <<pc, job, disk, placed>> PROVE WInv'
    <2>1. DiskOK'
      BY <1>1, WState DEF DiskOK, Trees
    <2> QED BY <1>1, <2>1, WState, StillInductive
  <1>2. CASE EditManifest
    <2>1. FilesOK'
      BY <1>2, WState DEF EditManifest, FilesOK
    <2> QED BY <1>1, <1>2, <2>1 DEF EditManifest, WorkspaceEnv
  <1>3. CASE Push
    <2>1. FilesOK'
      BY <1>3, WState DEF Push, FilesOK
    <2> QED BY <1>1, <1>3, <2>1 DEF Push, WorkspaceEnv
  <1>4. CASE EditTree
    BY <1>4, EditTreeW DEF WorkspaceEnv
  <1> QED BY <1>2, <1>3, <1>4 DEF WorkspaceEnv

LEMMA WInitial == Init => WInv
  <1> SUFFICES ASSUME Init PROVE WInv
    OBVIOUS
  <1>1. manifest \in {NoManifest} \cup Manifests /\ remote \in [AllSources -> {CHOOSE c \in Commits : TRUE}]
    BY DEF Init, WorkspaceInit
  <1>2. (CHOOSE c \in Commits : TRUE) \in Commits
    BY CommitsAssumption
  <1>3. remote \in [AllSources -> Commits]
    BY <1>1, <1>2
  <1>4. ASSUME lock # NoLock PROVE IsLock(lock)
    <2>1. Locks(manifest) /\ lock = BuildLock(Parse(manifest), remote)
      BY <1>4 DEF Init, WorkspaceInit
    <2>2. manifest \in Manifests /\ Parses(manifest)
      BY <1>1, <2>1 DEF Locks
    <2>3. \A s \in Sources(Parse(manifest)) : remote[s] \in Commits
      BY <1>3, <2>2 DEF AllSources
    <2> QED BY <2>1, <2>2, <2>3, BuildIsLock
  <1>5. disk = <<>> /\ placed = {} /\ pc = [p \in Procs |-> "idle"] /\ job = [p \in Procs |-> NoJob]
    BY DEF Init, WorkspaceInit
  <1>6. \A p \in Procs : pc[p] = "idle" /\ job[p] = NoJob
    BY <1>5
  <1>7. ASSUME NEW p \in Procs PROVE Carries(pc[p], job[p]) /\ SeesDisk(p, disk, pc[p], job[p])
    BY <1>6, NoJobIs DEF Carries, SeesDisk, Positions, Projecting, Looked, Cloning
  <1>8. \A p \in Procs : pc[p] \notin Cloning /\ job[p].backup = <<>>
    BY <1>6, NoJobIs DEF Cloning
  <1>9. pc = [p \in Procs |-> pc[p]] /\ job = [p \in Procs |-> job[p]]
    BY <1>5
  <1>10. DOMAIN disk = {}
    BY <1>5
  <1> QED BY <1>1, <1>3, <1>4, <1>5, <1>7, <1>8, <1>9, <1>10 DEF WInv

LEMMA WorkspaceStepW ==
  ASSUME WInv, NEW p \in Procs, WorkspaceStep(p)
  PROVE  WInv'
  BY BeginsW, WritersW, PlansW, InspectW, StartCloneW, FetchW, SwapOutW, SwapInW, ReapW, RunsW, PromoteW, CrashW
  DEF WorkspaceStep, Command

LEMMA WInductive == WInv /\ [Next]_localVars => WInv'
  <1> SUFFICES ASSUME WInv, [Next]_localVars PROVE WInv'
    OBVIOUS
  <1>1. CASE UNCHANGED workspaceVars
    <2>1. FilesOK' /\ DiskOK' /\ UNCHANGED <<pc, job, disk, placed>>
      BY <1>1, WState DEF workspaceVars, files, FilesOK, DiskOK, Trees
    <2> QED BY <2>1, WState, StillInductive
  <1>2. ASSUME NEW p \in Procs, WorkspaceStep(p) PROVE WInv'
    BY <1>2, WorkspaceStepW
  <1>3. ASSUME NEW p \in Procs, HandOver(p) PROVE WInv'
    BY <1>3, HandOverW
  <1>4. CASE WorkspaceEnv
    BY <1>4, WorkspaceEnvW
  <1>5. CASE Next
    BY <1>1, <1>2, <1>3, <1>4, <1>5 DEF Next, RunBare
  <1>6. CASE UNCHANGED localVars
    BY <1>1, <1>6 DEF localVars
  <1> QED BY <1>5, <1>6

LEMMA WInvHolds == Spec => []WInv
  BY WInitial, WInductive, PTL DEF Spec

(* Whatever process dies or fails in the middle of a swap, a checkout that *)
(* was placed is on disk, in its place or in a backup beside it            *)
(* (GitWorkspaceProvider._atomic_swap).                                    *)
THEOREM CheckoutsRecoverable == Spec => []PriorRecoverable
  <1>1. WInv => PriorRecoverable
    BY DEF WInv, Kept, PriorRecoverable
  <1> QED BY <1>1, WInvHolds, PTL

(* A checkout is moved away with uncommitted work in it only when the work *)
(* came after the look that found none (GitWorkspaceProvider.checkout).    *)
THEOREM EditsSurvive == Spec => []EditsSeenSurvive
  <1>1. ASSUME WInv PROVE EditsSeenSurvive
    <2>1. ASSUME NEW p \in Procs, job[p].backup \in DOMAIN disk, disk[job[p].backup].dirty
          PROVE  p \in disk[job[p].backup].late
      <3>1. job[p].backup # <<>>
        BY <1>1, <2>1, WState, ShapesApart DEF DiskOK
      <3> QED BY <1>1, <2>1, <3>1, WState DEF SeesDisk
    <2> QED BY <2>1 DEF EditsSeenSurvive
  <1> QED BY <1>1, WInvHolds, PTL
-----------------------------------------------------------------------------
(* The mounts of a run.  The view holds when every mount is a checkout at  *)
(* its locked commit, and one that is not in its own place is a worktree.  *)
ViewHolds(v) ==
    \A mount \in v : /\ mount.source \in DOMAIN disk
                     /\ disk[mount.source].commit = mount.commit
                     /\ mount.source = mount.target \/ ~mount.readOnly

(* Of a plan without duplicates, the last step with an identity is the     *)
(* only one.                                                               *)
LEMMA OnlyStep ==
  ASSUME NEW plan, plan \in Seq(ToSet(plan)), NEW n \in DOMAIN plan,
         \A i, j \in DOMAIN plan : i # j => <<plan[i].layer, plan[i].url>> # <<plan[j].layer, plan[j].url>>
  PROVE  StepFor(plan, <<plan[n].layer, plan[n].url>>) = plan[n]
  <1> DEFINE id == <<plan[n].layer, plan[n].url>>
             I == {i \in 1..Len(plan) : <<plan[i].layer, plan[i].url>> = id}
  <1>1. I = {n} /\ n \in Nat
    OBVIOUS
  <1>2. Max({n}) = n
    BY <1>1 DEF Max
  <1>3. SelectLastInSeq(plan, LAMBDA s : <<s.layer, s.url>> = id) = IF I # {} THEN Max(I) ELSE 0
    BY DEF SelectLastInSeq
  <1>4. SelectLastInSeq(plan, LAMBDA s : <<s.layer, s.url>> = id) = n
    BY <1>1, <1>2, <1>3
  <1> QED BY <1>4 DEF StepFor

(* Two checkouts a valid view finds for one identity are one: worktrees    *)
(* have one place, and so have the others.                                 *)
LEMMA ViewOfScan ==
  ASSUME NEW m, NEW k, NEW roots, NEW state, MountViewValid(m, k, Scan(roots), state, roots),
         PlanProjection(m, k) \in Seq(ToSet(PlanProjection(m, k)))
  PROVE  ViewHolds(MountView(m, k, Scan(roots), roots))
  <1> DEFINE plan == PlanProjection(m, k)
             seen == Scan(roots)
  <1>1. /\ \A i, j \in DOMAIN plan : i # j => <<plan[i].layer, plan[i].url>> # <<plan[j].layer, plan[j].url>>
        /\ Coherent(plan, seen, roots)
        /\ \A s \in ToSet(plan) : \E e \in Evidence(seen, roots, <<s.layer, s.url>>) : e.commit = s.commit
    BY DEF MountViewValid
  <1>2. \A e \in seen : /\ e.path \in DOMAIN disk /\ e.commit = disk[e.path].commit
                        /\ e = [path |-> e.path, url |-> disk[e.path].url, commit |-> disk[e.path].commit]
    BY DEF Scan, Below
  <1>3. plan \in Seq(ToSet(plan))
    OBVIOUS
  <1>4. MountView(m, k, seen, roots) =
          {LET e == CHOOSE x \in Evidence(seen, roots, <<s.layer, s.url>>) : TRUE
           IN  [source |-> e.path, target |-> s.path, commit |-> s.commit, readOnly |-> ~IsWorktree(e)]
           : s \in ToSet(plan)}
    BY DEF MountView
  <1> HIDE DEF plan, seen
  <1>5. ASSUME NEW s \in ToSet(plan), NEW e, e = CHOOSE x \in Evidence(seen, roots, <<s.layer, s.url>>) : TRUE
        PROVE  e.path \in DOMAIN disk /\ disk[e.path].commit = s.commit /\ (IsWorktree(e) \/ e.path = s.path)
    <2> DEFINE id == <<s.layer, s.url>>
    <2>1. PICK g \in Evidence(seen, roots, id) : g.commit = s.commit
      BY <1>1
    <2>2. e \in Evidence(seen, roots, id)
      BY <1>5, <2>1
    <2>3. PICK n \in DOMAIN plan : s = plan[n]
      BY <1>3 DEF ToSet
    <2>4. StepFor(plan, id) = s
      BY <1>1, <1>3, <2>3, OnlyStep
    <2> HIDE DEF id
    <2>5. ASSUME NEW x \in Evidence(seen, roots, id)
          PROVE  /\ x \in seen /\ Identity(x, roots) = id
                 /\ (IsWorktree(x) <=> \E y \in seen : Identity(y, roots) = id /\ IsWorktree(y))
      BY <2>5 DEF Evidence
    <2>6. ASSUME NEW x \in Evidence(seen, roots, id)
          PROVE  x.path = IF IsWorktree(x) THEN <<"worktrees", id[1], RepoName(x.url)>> ELSE s.path
      <3>1. x \in seen /\ Identity(x, roots) = id
        BY <2>5, <2>6
      <3> QED BY <1>1, <2>4, <3>1 DEF Coherent
    <2>7. \A x \in Evidence(seen, roots, id) : x.url = id[2]
      BY <2>5 DEF Identity
    <2>8. g.path = e.path
      BY <2>1, <2>2, <2>5, <2>6, <2>7
    <2>9. g \in seen /\ e \in seen
      BY <2>1, <2>2, <2>5
    <2> QED BY <1>2, <2>1, <2>2, <2>6, <2>8, <2>9
  <1>6. ASSUME NEW mount \in MountView(m, k, seen, roots)
        PROVE  /\ mount.source \in DOMAIN disk /\ disk[mount.source].commit = mount.commit
               /\ mount.source = mount.target \/ ~mount.readOnly
    <2>1. PICK s \in ToSet(plan) : mount =
            LET e == CHOOSE x \in Evidence(seen, roots, <<s.layer, s.url>>) : TRUE
            IN  [source |-> e.path, target |-> s.path, commit |-> s.commit, readOnly |-> ~IsWorktree(e)]
      BY <1>4, <1>6
    <2> DEFINE e == CHOOSE x \in Evidence(seen, roots, <<s.layer, s.url>>) : TRUE
    <2>2. mount = [source |-> e.path, target |-> s.path, commit |-> s.commit, readOnly |-> ~IsWorktree(e)]
      BY <2>1
    <2>3. e.path \in DOMAIN disk /\ disk[e.path].commit = s.commit /\ (IsWorktree(e) \/ e.path = s.path)
      BY <1>5
    <2> HIDE DEF e
    <2> QED BY <2>2, <2>3
  <1>7. ViewHolds(MountView(m, k, seen, roots))
    BY <1>6 DEF ViewHolds
  <1> QED BY <1>7 DEF seen

(* Commands that do not overlap, on checkouts that nobody edits: one       *)
(* process is at work, and the view it was given holds until it ends.      *)
Orderly == world \cap {"concurrent", "user"} = {}

Resting(p) == pc[p] = "idle" /\ bpc[p] = "idle"

Running(p) ==
    /\ pc[p] # "idle" => job[p].cmd # "none"
    /\ pc[p] = "run" => ViewHolds(job[p].view)
    /\ bpc[p] # "idle" => bjob[p].cmd # "none" /\ ViewHolds(bjob[p].view)

(* The inductive invariant of RunsWhatIsLocked. *)
VInv ==
    /\ IInv /\ WInv
    /\ Orderly => /\ \A p \in Procs : Running(p)
                  /\ \A p, q \in Procs : p # q => Resting(p) \/ Resting(q)

(* The process that steps is the one at work, or begins when none is. *)
LEMMA NobodyElse ==
  ASSUME VInv, Orderly, NEW p \in Procs,
         ~Resting(p) \/ ((MayBegin(p) \/ Free(p)) /\ (Alone(p) \/ BMayBegin(p)))
  PROVE  \A q \in Procs \ {p} : Resting(q)
  <1> SUFFICES ASSUME NEW q \in Procs \ {p} PROVE Resting(q)
    OBVIOUS
  <1>1. Running(q) /\ (Resting(p) \/ Resting(q)) /\ "concurrent" \notin world
    BY DEF VInv, Orderly
  <1>2. ASSUME MayBegin(p) \/ Free(p), Alone(p) \/ BMayBegin(p) PROVE Resting(q)
    <2>1. job[q] = NoJob /\ bjob[q] = NoBackendJob
      BY <1>1, <1>2 DEF MayBegin, Free, Alone, BMayBegin
    <2>2. job[q].cmd = "none" /\ bjob[q].cmd = "none"
      BY <2>1 DEF NoJob, NoBackendJob
    <2> QED BY <1>1, <2>2 DEF Running, Resting
  <1> QED BY <1>1, <1>2

LEMMA SoleStep ==
  ASSUME VInv, IInv', WInv', UNCHANGED world, NEW p \in Procs,
         Orderly => \A q \in Procs \ {p} : Resting(q) /\ Resting(q)',
         Orderly => Running(p)'
  PROVE  VInv'
  <1>1. ASSUME Orderly PROVE (\A q \in Procs : Running(q)') /\ \A q, r \in Procs : q # r => Resting(q)' \/ Resting(r)'
    <2>1. \A q \in Procs \ {p} : Running(q)'
      BY <1>1 DEF Resting, Running
    <2> QED BY <1>1, <2>1
  <1> QED BY <1>1 DEF VInv, Orderly

(* The steps of a command keep its name, and a step to "run" plans mounts  *)
(* that hold.                                                              *)
Onwards(p) ==
    \E l, j : /\ Moves(p, l, j)
              /\ l = "idle" \/ j.cmd = job[p].cmd
              /\ l = "run" => UNCHANGED disk /\ ViewHolds(j.view)

LEMMA EndsOnwards ==
  ASSUME WInv, NEW p \in Procs, NEW ok, End(p, ok)
  PROVE  Onwards(p)
  <1>1. Moves(p, "idle", [NoJob EXCEPT !.ok = ok])
    BY GoMoves DEF End
  <1> QED BY <1>1 DEF Onwards

LEMMA GoesOnwards ==
  ASSUME WInv, NEW p \in Procs, NEW l, Goto(p, l), l # "run",
         UNCHANGED job \/ \E j : With(p, j) /\ j.cmd = job[p].cmd
  PROVE  Onwards(p)
  <1>1. CASE UNCHANGED job
    BY <1>1, GoMoves DEF Onwards
  <1>2. ASSUME NEW j, With(p, j), j.cmd = job[p].cmd PROVE Onwards(p)
    BY <1>2, GoMoves DEF Onwards
  <1> QED BY <1>1, <1>2

LEMMA NextEntryOnwards ==
  ASSUME WInv, NEW p \in Procs, NextEntry(p)
  PROVE  Onwards(p)
  <1> DEFINE k == job[p]
  <1>1. IsJob(k)
    BY WState DEF Carries
  <1>2. ASSUME NEW n, NEW c, NEW b PROVE [k EXCEPT !.at = n, !.clone = c, !.backup = b].cmd = k.cmd
    <2> HIDE DEF k
    <2> QED BY <1>1 DEF IsJob
  <1>3. ASSUME NEW c, NEW b PROVE [k EXCEPT !.clone = c, !.backup = b].cmd = k.cmd
    <2> HIDE DEF k
    <2> QED BY <1>1 DEF IsJob
  <1>4. CASE k.at < Len(Plan(p))
    <2> DEFINE j == [k EXCEPT !.at = @ + 1, !.clone = <<>>, !.backup = <<>>]
    <2>1. Goto(p, "inspect") /\ With(p, j)
      BY <1>4 DEF NextEntry
    <2>2. j.cmd = k.cmd
      BY <1>2
    <2> HIDE DEF j
    <2> QED BY <2>1, <2>2, GoesOnwards
  <1>5. CASE ~(k.at < Len(Plan(p))) /\ k.cmd = "project"
    BY <1>5, EndsOnwards DEF NextEntry
  <1>6. CASE ~(k.at < Len(Plan(p))) /\ k.cmd # "project"
    <2> DEFINE j == [k EXCEPT !.clone = <<>>, !.backup = <<>>]
    <2>1. Goto(p, "verify") /\ With(p, j)
      BY <1>6 DEF NextEntry
    <2>2. j.cmd = k.cmd
      BY <1>3
    <2> HIDE DEF j
    <2> QED BY <2>1, <2>2, GoesOnwards
  <1> QED BY <1>4, <1>5, <1>6

LEMMA CommandOnwards ==
  ASSUME WInv, NEW p \in Procs, Command(p)
  PROVE  Onwards(p)
  <1> DEFINE k == job[p]
  <1>1. IsJob(k)
    BY WState DEF Carries
  <1>2. ASSUME NEW v PROVE /\ [k EXCEPT !.lock = v].cmd = k.cmd /\ [k EXCEPT !.clone = v].cmd = k.cmd
                           /\ [k EXCEPT !.backup = v].cmd = k.cmd
    <2> HIDE DEF k
    <2> QED BY <1>1 DEF IsJob
  <1>3. ASSUME NEW l \in {"write", "inspect", "fetch", "swap_in"}, Goto(p, l),
               NEW v, \/ With(p, [k EXCEPT !.lock = v]) \/ With(p, [k EXCEPT !.clone = v])
                      \/ With(p, [k EXCEPT !.backup = v])
        PROVE  Onwards(p)
    BY <1>2, <1>3, GoesOnwards
  <1>4. ASSUME NEW l \in {"clone", "swap_out", "swap_in", "reap"}, Goto(p, l), UNCHANGED job PROVE Onwards(p)
    BY <1>4, GoesOnwards
  <1>5. ASSUME Fail(p) PROVE Onwards(p)
    BY <1>5, EndsOnwards DEF Fail
  <1>6. CASE CreateManifest(p) \/ Resolve(p) \/ WriteLock(p)
    BY <1>3, <1>5, <1>6, EndsOnwards DEF CreateManifest, Resolve, WriteLock
  <1>7. CASE PlanProject(p)
    BY <1>3, <1>5, <1>7 DEF PlanProject
  <1>8. CASE Survey(p)
    BY <1>3, <1>5, <1>8 DEF Survey
  <1>9. CASE Inspect(p)
    BY <1>4, <1>5, <1>9, NextEntryOnwards DEF Inspect
  <1>10. CASE StartClone(p)
    BY <1>3, <1>10 DEF StartClone
  <1>11. CASE Fetch(p)
    BY <1>4, <1>5, <1>11 DEF Fetch
  <1>12. CASE SwapOut(p)
    BY <1>3, <1>4, <1>5, <1>12 DEF SwapOut
  <1>13. CASE SwapIn(p)
    BY <1>4, <1>5, <1>13, NextEntryOnwards DEF SwapIn
  <1>14. CASE Reap(p)
    BY <1>14, NextEntryOnwards DEF Reap
  <1>15. CASE Check(p) \/ Promote(p)
    BY <1>5, <1>15, EndsOnwards DEF Check, Promote
  <1>16. CASE Verify(p)
    <2>1. Planned(k) /\ UNCHANGED disk
      BY <1>16, WState DEF Verify, Carries, files
    <2>2. ASSUME NEW state, MountViewValid(k.m, k.lock, Scan(Roots(p)), state, Roots(p)), Goto(p, "run"),
                 With(p, [k EXCEPT !.view = MountView(k.m, k.lock, Scan(Roots(p)), Roots(p))])
          PROVE  Onwards(p)
      <3> DEFINE v == MountView(k.m, k.lock, Scan(Roots(p)), Roots(p))
                 j == [k EXCEPT !.view = v]
      <3>1. ViewHolds(v)
        BY <2>1, <2>2, ViewOfScan DEF Planned, PlanOf
      <3>2. Moves(p, "run", j)
        BY <2>2, GoMoves
      <3> HIDE DEF v
      <3>3. j.cmd = k.cmd /\ j.view = v
        <4> HIDE DEF k
        <4> QED BY <1>1 DEF IsJob
      <3> HIDE DEF j
      <3> QED BY <2>1, <3>1, <3>2, <3>3 DEF Onwards
    <2> QED BY <1>5, <1>16, <2>2, EndsOnwards, Zenon DEF Verify
  <1>17. CASE PlanMounts(p)
    <2>1. UNCHANGED disk
      BY <1>17 DEF PlanMounts, files
    <2>2. ASSUME NEW state, MountViewValid(k.m, lock, Scan(Roots(p)), state, Roots(p)), Goto(p, "run"), LockFits(p),
                 With(p, [k EXCEPT !.lock = lock, !.view = MountView(k.m, lock, Scan(Roots(p)), Roots(p))])
          PROVE  Onwards(p)
      <3> DEFINE v == MountView(k.m, lock, Scan(Roots(p)), Roots(p))
                 j == [k EXCEPT !.lock = lock, !.view = v]
      <3>1. Moves(p, "run", j)
        BY <2>2, GoMoves
      <3>2. IsLock(lock)
        BY <2>2, WState DEF LockFits, FilesOK
      <3> HIDE DEF v
      <3>3. j.cmd = k.cmd /\ j.view = v /\ j.m = k.m /\ j.lock = lock
        <4> HIDE DEF k
        <4> QED BY <1>1 DEF IsJob
      <3> HIDE DEF j
      <3>4. Planned(j)
        BY <3>2, <3>3, LockPlanned
      <3>5. ViewHolds(v)
        BY <2>2, <3>3, <3>4, ViewOfScan DEF Planned, PlanOf, v
      <3> QED BY <2>1, <3>1, <3>3, <3>5 DEF Onwards
    <2> QED BY <1>5, <1>17, <2>2, Zenon DEF PlanMounts
  <1> QED BY <1>6, <1>7, <1>8, <1>9, <1>10, <1>11, <1>12, <1>13, <1>14, <1>15, <1>16, <1>17 DEF Command

(* The steps of the workspace. *)
LEMMA WorkspaceRuns ==
  ASSUME VInv, IInv', WInv', UNCHANGED world, NEW p \in Procs, Alone(p), WorkspaceStep(p), UNCHANGED backendVars
  PROVE  VInv'
  <1>1. WInv /\ calls \in Nat /\ UNCHANGED <<bpc, bjob>>
    BY DEF VInv, IInv, backendVars
  <1>2. ASSUME Orderly, NEW l, NEW j, Moves(p, l, j), ~Resting(p) \/ MayBegin(p), l = "idle" \/ j.cmd # "none",
               l = "run" => UNCHANGED disk /\ ViewHolds(j.view)
        PROVE  VInv'
    <2>1. \A q \in Procs \ {p} : Resting(q)
      BY <1>2, NobodyElse
    <2>2. \A q \in Procs \ {p} : Resting(q)'
      BY <1>1, <1>2, <2>1, MovesTo DEF Resting
    <2>3. pc'[p] = l /\ job'[p] = j /\ bpc[p] = "idle"
      BY <1>1, <1>2, MovesTo DEF Alone
    <2>4. l = "run" => ViewHolds(j.view)'
      BY <1>2 DEF ViewHolds
    <2>5. Running(p)'
      BY <1>1, <1>2, <2>3, <2>4 DEF Running
    <2> QED BY <2>1, <2>2, <2>5, SoleStep
  <1>3. CASE ~Orderly
    BY <1>3, SoleStep
  <1>4. ASSUME Orderly, MayBegin(p), NEW l, l # "run", NEW j, j.cmd # "none", Goto(p, l), With(p, j) PROVE VInv'
    BY <1>1, <1>2, <1>4, GoMoves
  <1>5. ASSUME NEW c, c # "none", NEW l, l # "run", Read(p, c, l), Orderly PROVE VInv'
    <2> DEFINE j == [NoJob EXCEPT !.cmd = c, !.m = Parse(manifest)]
    <2>1. MayBegin(p) /\ Goto(p, l) /\ With(p, j)
      BY <1>5 DEF Read
    <2>2. j.cmd = c
      BY DEF NoJob
    <2> HIDE DEF j
    <2> QED BY <1>4, <1>5, <2>1, <2>2
  <1>6. ASSUME Configure(p), Orderly PROVE VInv'
    <2>1. PICK m : Goto(p, "create") /\ With(p, [NoJob EXCEPT !.cmd = "configure", !.m = m])
      BY <1>6 DEF Configure
    <2> DEFINE j == [NoJob EXCEPT !.cmd = "configure", !.m = m]
    <2>2. j.cmd = "configure"
      BY DEF NoJob
    <2>3. MayBegin(p) /\ Goto(p, "create") /\ With(p, j)
      BY <1>6, <2>1 DEF Configure
    <2> HIDE DEF j
    <2> QED BY <1>4, <1>6, <2>2, <2>3
  <1>7. ASSUME BeginUnlock(p), Orderly PROVE VInv'
    <2>1. PICK m, t : With(p, [NoJob EXCEPT !.cmd = "unlock", !.m = m, !.target = t])
      BY <1>7, Zenon DEF BeginUnlock
    <2> DEFINE j == [NoJob EXCEPT !.cmd = "unlock", !.m = m, !.target = t]
    <2>2. j.cmd = "unlock"
      BY DEF NoJob
    <2>3. MayBegin(p) /\ Goto(p, "promote") /\ With(p, j)
      BY <1>7, <2>1 DEF BeginUnlock
    <2> HIDE DEF j
    <2> QED BY <1>4, <1>7, <2>2, <2>3
  <1>8. CASE Orderly /\ BeginCommand(p)
    BY <1>5, <1>6, <1>8 DEF BeginCommand, OnboardCatalog
  <1>9. CASE Orderly /\ Command(p) /\ UNCHANGED cli
    <2>1. pc[p] # "idle"
      BY <1>1, <1>9, WorkspaceSteps DEF Begun, cli
    <2>2. job[p].cmd # "none" /\ ~Resting(p)
      BY <1>9, <2>1 DEF VInv, Running, Resting
    <2>3. Onwards(p)
      BY <1>1, <1>9, CommandOnwards
    <2> QED BY <1>2, <1>9, <2>2, <2>3 DEF Onwards
  <1>10. CASE Orderly /\ Crash(p)
    <2>1. ~Resting(p) /\ Moves(p, "idle", NoJob)
      BY <1>1, <1>10, GoMoves DEF Crash, Resting
    <2> QED BY <1>2, <1>10, <2>1
  <1> QED BY <1>3, <1>7, <1>8, <1>9, <1>10 DEF WorkspaceStep

(* The steps of the backend keep the command and its view. *)
Carrying(p) == bpc'[p] = "idle" \/ (bjob'[p].cmd = bjob[p].cmd /\ bjob'[p].view = bjob[p].view)

LEMMA EditCarries ==
  ASSUME IInv, NEW p \in Procs
  PROVE  /\ \A ok : BEnd(p, ok) => Carrying(p)
         /\ UNCHANGED bjob => Carrying(p)
         /\ \A j : BWith(p, j) /\ j.cmd = bjob[p].cmd /\ j.view = bjob[p].view => Carrying(p)
  BY DEF IInv, BEnd, BGoto, BWith, Carrying

LEMMA CommandCarries ==
  ASSUME IInv, NEW p \in Procs, BackendCommand(p)
  PROVE  Carrying(p)
  <1> DEFINE k == bjob[p]
  <1>1. JobOK(k)
    BY DEF IInv
  <1>2. ASSUME NEW a, NEW b
        PROVE  /\ [k EXCEPT !.created = a].cmd = k.cmd /\ [k EXCEPT !.created = a].view = k.view
               /\ [k EXCEPT !.found = a].cmd = k.cmd /\ [k EXCEPT !.found = a].view = k.view
               /\ [k EXCEPT !.outcome = a].cmd = k.cmd /\ [k EXCEPT !.outcome = a].view = k.view
               /\ [k EXCEPT !.proof = a].cmd = k.cmd /\ [k EXCEPT !.proof = a].view = k.view
               /\ [k EXCEPT !.created = a, !.volume = b].cmd = k.cmd /\ [k EXCEPT !.created = a, !.volume = b].view = k.view
               /\ [k EXCEPT !.created = a, !.left = b].cmd = k.cmd /\ [k EXCEPT !.created = a, !.left = b].view = k.view
               /\ [k EXCEPT !.outcome = a, !.left = b].cmd = k.cmd /\ [k EXCEPT !.outcome = a, !.left = b].view = k.view
    <2> HIDE DEF k
    <2> QED BY <1>1 DEF JobOK
  <1>3. ASSUME NEW a, NEW b,
               \/ BWith(p, [k EXCEPT !.created = a]) \/ BWith(p, [k EXCEPT !.found = a])
               \/ BWith(p, [k EXCEPT !.outcome = a]) \/ BWith(p, [k EXCEPT !.proof = a])
               \/ BWith(p, [k EXCEPT !.created = a, !.volume = b]) \/ BWith(p, [k EXCEPT !.created = a, !.left = b])
               \/ BWith(p, [k EXCEPT !.outcome = a, !.left = b])
        PROVE  Carrying(p)
    <2>1. PICK j : BWith(p, j) /\ j.cmd = k.cmd /\ j.view = k.view
      <3>1. CASE BWith(p, [k EXCEPT !.created = a])
        BY <1>2, <3>1, Zenon
      <3>2. CASE BWith(p, [k EXCEPT !.found = a])
        BY <1>2, <3>2, Zenon
      <3>3. CASE BWith(p, [k EXCEPT !.outcome = a])
        BY <1>2, <3>3, Zenon
      <3>4. CASE BWith(p, [k EXCEPT !.proof = a])
        BY <1>2, <3>4, Zenon
      <3>5. CASE BWith(p, [k EXCEPT !.created = a, !.volume = b])
        <4> DEFINE j == [k EXCEPT !.created = a, !.volume = b]
        <4>1. j.cmd = k.cmd /\ j.view = k.view
          <5> HIDE DEF k
          <5> QED BY <1>1 DEF JobOK
        <4>2. BWith(p, j)
          BY <3>5
        <4> HIDE DEF j
        <4> QED BY <4>1, <4>2
      <3>6. CASE BWith(p, [k EXCEPT !.created = a, !.left = b])
        <4> DEFINE j == [k EXCEPT !.created = a, !.left = b]
        <4>1. j.cmd = k.cmd /\ j.view = k.view
          <5> HIDE DEF k
          <5> QED BY <1>1 DEF JobOK
        <4>2. BWith(p, j)
          BY <3>6
        <4> HIDE DEF j
        <4> QED BY <4>1, <4>2
      <3>7. CASE BWith(p, [k EXCEPT !.outcome = a, !.left = b])
        <4> DEFINE j == [k EXCEPT !.outcome = a, !.left = b]
        <4>1. j.cmd = k.cmd /\ j.view = k.view
          <5> HIDE DEF k
          <5> QED BY <1>1 DEF JobOK
        <4>2. BWith(p, j)
          BY <3>7
        <4> HIDE DEF j
        <4> QED BY <4>1, <4>2
      <3> QED BY <1>3, <3>1, <3>2, <3>3, <3>4, <3>5, <3>6, <3>7, Zenon
    <2> QED BY <2>1, EditCarries, Zenon
  <1>4. CASE CheckExists(p) \/ EnsureOdooImage(p) \/ EnsureNetwork(p) \/ EnsureVolume(p) \/ WaitOdooHealthy(p)
    BY <1>4, EditCarries
    DEF CheckExists, EnsureOdooImage, EnsureNetwork, EnsureVolume, WaitOdooHealthy, Raise, Step
  <1>5. ASSUME NEW e, Enter(p, e) PROVE Carrying(p)
    BY <1>3, <1>5 DEF Enter
  <1>6. CASE CreateNetwork(p) \/ CreateVolume(p) \/ RunBootstrap(p) \/ RunContainer(p)
    BY <1>5, <1>6, EditCarries DEF CreateNetwork, CreateVolume, RunBootstrap, RunContainer, Raise, Step
  <1>7. CASE Provision(p)
    BY <1>3, <1>7, EditCarries DEF Provision, Raise, Step
  <1>8. CASE RemoveBootstrap(p)
    BY <1>3, <1>8, EditCarries DEF RemoveBootstrap, Raise, Step
  <1>9. CASE RecordCustody(p)
    BY <1>9, EditCarries DEF RecordCustody, Raise, Step
  <1>10. CASE Rollback(p)
    BY <1>3, <1>10, EditCarries DEF Rollback
  <1>11. CASE LookAtRuntime(p)
    BY <1>3, <1>11, EditCarries DEF LookAtRuntime
  <1>12. ASSUME NEW i \in 1..3, RemoveRuntime(p, i) PROVE Carrying(p)
    BY <1>3, <1>12, EditCarries DEF RemoveRuntime, AfterRuntime
  <1>13. CASE Consume(p)
    BY <1>3, <1>13, EditCarries DEF Consume
  <1>14. CASE ReclaimDatabase(p)
    BY <1>3, <1>14, EditCarries DEF ReclaimDatabase
  <1>15. CASE ReclaimFilestore(p)
    BY <1>3, <1>15, EditCarries DEF ReclaimFilestore
  <1>16. CASE CompleteReclaim(p)
    BY <1>16, EditCarries DEF CompleteReclaim
  <1>17. CASE ReclaimRaises(p)
    BY <1>17, EditCarries DEF ReclaimRaises
  <1> QED BY <1>4, <1>6, <1>7, <1>8, <1>9, <1>10, <1>11, <1>12, <1>13, <1>14, <1>15, <1>16, <1>17
          DEF BackendCommand

LEMMA BackendRuns ==
  ASSUME VInv, IInv', WInv', UNCHANGED world, NEW p \in Procs, UNCHANGED disk,
         \A q \in Procs \ {p} : pc'[q] = pc[q], pc'[p] = "idle", KeepsLocals(p),
         ~Resting(p) \/ (Free(p) /\ BMayBegin(p)),
         Orderly => bpc'[p] = "idle" \/ (bjob'[p].cmd # "none" /\ ViewHolds(bjob'[p].view))
  PROVE  VInv'
  <1>1. ASSUME Orderly PROVE \A q \in Procs \ {p} : Resting(q) /\ Resting(q)'
    <2>1. \A q \in Procs \ {p} : Resting(q)
      BY <1>1, NobodyElse
    <2>2. \A q \in Procs \ {p} : bpc'[q] = bpc[q]
      BY OthersKept DEF VInv
    <2> QED BY <2>1, <2>2 DEF Resting
  <1>2. Orderly => Running(p)'
    BY DEF Running, ViewHolds
  <1> QED BY <1>1, <1>2, SoleStep

LEMMA VInitial == Init => VInv
  <1> SUFFICES ASSUME Init PROVE VInv
    OBVIOUS
  <1>1. \A p \in Procs : pc[p] = "idle" /\ bpc[p] = "idle"
    BY DEF Init, WorkspaceInit, BackendInit
  <1> QED BY <1>1, Initial, WInitial DEF VInv, Running, Resting

LEMMA VInductive == VInv /\ [Next]_localVars => VInv'
  <1> SUFFICES ASSUME VInv, [Next]_localVars PROVE VInv'
    OBVIOUS
  <1>1. IInv' /\ WInv' /\ IInv /\ WInv
    BY Inductive, WInductive DEF VInv
  <1>2. CASE UNCHANGED <<world, disk, pc, job, bpc, bjob>>
    BY <1>1, <1>2 DEF VInv, Orderly, Running, Resting, ViewHolds
  <1>3. CASE Next
    <2>1. UNCHANGED world /\ calls' \in Nat
      BY <1>1, <1>3, CallsCounted DEF Next
    <2>2. ASSUME NEW p \in Procs, NEW view, StartRun(p, view)
          PROVE  KeepsLocals(p) /\ BMayBegin(p) /\ bjob'[p].cmd = "run" /\ bjob'[p].view = view
      <3>1. KeepsLocals(p)
        BY <1>1, <2>1, <2>2, StartRunKeeps
      <3> QED BY <1>1, <2>2, <3>1 DEF StartRun, BWith, IInv, NoBackendJob
    <2>3. ASSUME NEW p \in Procs, HandOver(p) PROVE VInv'
      <3>1. pc[p] = "run" /\ UNCHANGED disk /\ StartRun(p, job[p].view) /\ pc' = [pc EXCEPT ![p] = "idle"]
        BY <2>3 DEF HandOver, End, Goto, files
      <3>2. ~Resting(p)
        BY <3>1 DEF Resting
      <3>3. Orderly => ViewHolds(job[p].view)
        BY <3>1 DEF VInv, Running
      <3>4. DOMAIN pc = Procs
        BY <1>1, WState
      <3> QED BY <1>1, <2>1, <2>2, <3>1, <3>2, <3>3, <3>4, BackendRuns
    <2>4. ASSUME NEW p \in Procs, Free(p), RunBare(p) PROVE VInv'
      <3>1. UNCHANGED <<disk, pc>> /\ StartRun(p, {}) /\ pc[p] = "idle"
        BY <2>4 DEF RunBare, workspaceVars, files, Free
      <3>2. ViewHolds({})
        BY DEF ViewHolds
      <3> QED BY <1>1, <2>1, <2>2, <2>4, <3>1, <3>2, BackendRuns
    <2>5. ASSUME NEW p \in Procs, Free(p), BackendStep(p), UNCHANGED workspaceVars PROVE VInv'
      <3>1. UNCHANGED <<disk, pc>> /\ pc[p] = "idle"
        BY <2>5 DEF workspaceVars, files, Free
      <3>2. CASE BackendCommand(p)
        <4>1. bpc[p] # "idle" /\ ~Resting(p)
          BY <3>2, CommandPositions DEF Resting
        <4>2. KeepsLocals(p) /\ Carrying(p)
          BY <1>1, <2>1, <3>2, CommandKeeps, CommandCarries
        <4>3. Orderly => bjob[p].cmd # "none" /\ ViewHolds(bjob[p].view)
          BY <4>1 DEF VInv, Running
        <4>4. Orderly => bpc'[p] = "idle" \/ (bjob'[p].cmd # "none" /\ ViewHolds(bjob'[p].view))
          BY <4>2, <4>3 DEF Carrying
        <4> QED BY <1>1, <2>1, <3>1, <4>1, <4>2, <4>4, BackendRuns
      <3>3. ASSUME NEW c \in {"stop", "destroy"}, StartRemoval(p, c) PROVE VInv'
        <4>1. BMayBegin(p) /\ bjob'[p].cmd = c /\ bjob'[p].view = {}
          BY <1>1, <3>3 DEF StartRemoval, BWith, IInv, NoBackendJob
        <4>2. KeepsLocals(p) /\ ViewHolds({})
          BY <1>1, <2>1, <3>3, StartsKeep DEF ViewHolds
        <4> QED BY <1>1, <2>1, <2>5, <3>1, <3>3, <4>1, <4>2, BackendRuns
      <3>4. CASE Status(p) \/ LogsExec(p)
        <4>1. BMayBegin(p) /\ bpc'[p] = "idle"
          BY <3>4 DEF Status, LogsExec, BMayBegin
        <4>2. KeepsLocals(p)
          BY <1>1, <2>1, <3>4, StartsKeep
        <4> QED BY <1>1, <2>1, <2>5, <3>1, <4>1, <4>2, BackendRuns
      <3>5. CASE BackendCrash(p)
        <4>1. bpc[p] # "idle" /\ bpc'[p] = "idle" /\ ~Resting(p)
          BY <1>1, <3>5 DEF BackendCrash, BGoto, IInv, Resting
        <4>2. KeepsLocals(p)
          BY <1>1, <2>1, <3>5, CrashKeeps
        <4> QED BY <1>1, <2>1, <3>1, <4>1, <4>2, BackendRuns
      <3> QED BY <2>5, <3>2, <3>3, <3>4, <3>5 DEF BackendStep
    <2>6. ASSUME NEW p \in Procs, Alone(p), WorkspaceStep(p), UNCHANGED backendVars PROVE VInv'
      BY <1>1, <2>1, <2>6, WorkspaceRuns
    <2>7. ASSUME WorkspaceEnv, UNCHANGED backendVars PROVE VInv'
      <3>1. UNCHANGED <<world, pc, job, bpc, bjob>>
        BY <2>1, <2>7 DEF WorkspaceEnv, backendVars
      <3>2. CASE "user" \in world
        BY <1>1, <2>1, <3>2 DEF VInv, Orderly
      <3>3. CASE "user" \notin world
        BY <1>2, <2>7, <3>1, <3>3 DEF WorkspaceEnv, EditManifest, Push, EditTree
      <3> QED BY <3>2, <3>3
    <2> QED BY <1>3, <2>3, <2>4, <2>5, <2>6, <2>7 DEF Next
  <1>4. CASE UNCHANGED localVars
    BY <1>2, <1>4 DEF localVars, workspaceVars, files, backendVars
  <1> QED BY <1>3, <1>4

(* When Odoo comes up, every checkout mounted into it is on disk at its    *)
(* locked commit: nothing moves it between the plan of the mounts and the  *)
(* container, whatever crashes left behind and whatever fails on the way   *)
(* (backend.py run, projection.py build_mount_planning_view).              *)
THEOREM OdooRunsWhatIsLocked == Spec => RunsWhatIsLocked
  <1> DEFINE Starts == Orderly => \A p \in Procs : StartsOdoo(p) =>
                          \A mount \in bjob[p].view :
                             /\ mount.source \in DOMAIN disk
                             /\ disk[mount.source].commit = mount.commit
                             /\ mount.source = mount.target \/ ~mount.readOnly
  <1>1. ASSUME VInv PROVE Starts
    BY <1>1 DEF VInv, Running, ViewHolds, StartsOdoo
  <1>2. VInv => [Starts]_localVars
    BY <1>1
  <1> QED BY <1>2, VInitial, VInductive, PTL DEF Spec, RunsWhatIsLocked, Orderly
-----------------------------------------------------------------------------
(* The types.  A label is that of a run begun in this behaviour; a run     *)
(* has its identity from its first step to its last.                       *)
RunOrNone == Runs \cup {Absent}

Proofs == [run : RunOrNone, volume : BOOLEAN, token : RunOrNone,
           state : {"none", "recorded", "in_progress"}]

RunPositions == BackendPositions \ (RemovalPositions \cup {"idle"})

LocalsTyped(l, j) ==
    /\ j.run \in RunOrNone /\ j.proof \in Proofs /\ j.left \subseteq Parts
    /\ l \in RunPositions => j.run # Absent

(* A container that is up is there. *)
UpThere(d, u) == u \subseteq {c \in Containers : d[c] # Absent}

(* The inductive invariant of TypeOK, on top of LInv and WInv. *)
TInv ==
    /\ LInv /\ WInv /\ CliTypeOK
    /\ \A x \in Parts : docker[x] \in RunOrNone \cup {Unlabelled}
    /\ UpThere(docker, up)
    /\ custody \in Proofs
    /\ \A p \in Procs : LocalsTyped(bpc[p], bjob[p]) /\ (pc[p] # "idle" => calls # 0)

TypedStep(p) ==
    /\ UpThere(docker', up')
    /\ custody' \in Proofs
    /\ LocalsTyped(bpc'[p], bjob'[p])

LEMMA TypedState ==
  ASSUME TInv, NEW p \in Procs
  PROVE  /\ JobOK(bjob[p]) /\ LocalsTyped(bpc[p], bjob[p]) /\ bjob[p].volume \in BOOLEAN
         /\ DOMAIN bpc = Procs /\ DOMAIN bjob = Procs /\ IInv /\ LInv /\ WInv
         /\ UpThere(docker, up) /\ custody \in Proofs /\ DOMAIN docker = Parts /\ bpc[p] \in BackendPositions
  BY DEF TInv, LInv, IInv, LocalsOK

LEMMA NoneTyped == NoProof \in Proofs /\ NoBackendJob.proof = NoProof /\ NoBackendJob.left = {}
  <1>1. NoProof \in Proofs
    BY DEF NoProof, Proofs, RunOrNone
  <1> QED BY <1>1 DEF NoBackendJob

(* What a step does to the locals. *)
LEMMA EndTyped ==
  ASSUME TInv, NEW p \in Procs, NEW ok, BEnd(p, ok)
  PROVE  LocalsTyped(bpc'[p], bjob'[p])
  <1> DEFINE k == bjob[p]
             j == [NoBackendJob EXCEPT !.cmd = k.cmd, !.run = k.run, !.left = k.left, !.ok = ok]
  <1>1. bpc'[p] = "idle" /\ bjob'[p] = j
    BY TypedState DEF BEnd, BGoto, BWith
  <1>2. j.run = k.run /\ j.left = k.left /\ j.proof = NoProof
    BY DEF NoBackendJob
  <1> HIDE DEF j
  <1> QED BY <1>1, <1>2, TypedState, NoneTyped DEF LocalsTyped, RunPositions

(* The locals that matter are as they were, and a run goes on as a run. *)
LEMMA GoesTyped ==
  ASSUME TInv, NEW p \in Procs, bpc[p] # "idle", NEW l, l \in RunPositions => bpc[p] \in RunPositions,
         BGoto(p, l) \/ (UNCHANGED bpc /\ l = bpc[p]),
         \/ UNCHANGED bjob
         \/ \E j : /\ BWith(p, j)
                   /\ j.run = bjob[p].run /\ j.proof = bjob[p].proof
                   /\ j.left \subseteq bjob[p].left \cup Parts
         \/ \E j : BWith(p, j) /\ j.run = bjob[p].run /\ j.proof = custody /\ j.left = bjob[p].left
  PROVE  LocalsTyped(bpc'[p], bjob'[p])
  <1>1. bpc'[p] = l
    BY TypedState DEF BGoto
  <1>2. bjob'[p].run = bjob[p].run /\ bjob'[p].proof \in Proofs /\ bjob'[p].left \subseteq Parts
    BY TypedState DEF BWith, LocalsTyped
  <1> QED BY <1>1, <1>2, TypedState DEF LocalsTyped


LEMMA LedgerTyped ==
  ASSUME TInv, NEW p \in Procs, bpc[p] # "idle", NEW l, l \in RunPositions => bpc[p] \in RunPositions, BGoto(p, l),
         NEW a, NEW b,
         \/ UNCHANGED bjob
         \/ BWith(p, [bjob[p] EXCEPT !.created = a]) \/ BWith(p, [bjob[p] EXCEPT !.found = a])
         \/ BWith(p, [bjob[p] EXCEPT !.outcome = a]) \/ BWith(p, [bjob[p] EXCEPT !.created = a, !.volume = b])
  PROVE  LocalsTyped(bpc'[p], bjob'[p])
  <1>1. CASE UNCHANGED bjob
    BY <1>1, GoesTyped
  <1>2. ASSUME NEW j, BWith(p, j), j.run = bjob[p].run, j.proof = bjob[p].proof, j.left = bjob[p].left
        PROVE  LocalsTyped(bpc'[p], bjob'[p])
    BY <1>2, GoesTyped
  <1> DEFINE k == bjob[p]
  <1>3. JobOK(k)
    BY TypedState
  <1>4. /\ [k EXCEPT !.created = a].run = k.run /\ [k EXCEPT !.created = a].proof = k.proof
        /\ [k EXCEPT !.created = a].left = k.left
        /\ [k EXCEPT !.found = a].run = k.run /\ [k EXCEPT !.found = a].proof = k.proof
        /\ [k EXCEPT !.found = a].left = k.left
        /\ [k EXCEPT !.outcome = a].run = k.run /\ [k EXCEPT !.outcome = a].proof = k.proof
        /\ [k EXCEPT !.outcome = a].left = k.left
        /\ [k EXCEPT !.created = a, !.volume = b].run = k.run
        /\ [k EXCEPT !.created = a, !.volume = b].proof = k.proof
        /\ [k EXCEPT !.created = a, !.volume = b].left = k.left
    <2> HIDE DEF k
    <2> QED BY <1>3 DEF JobOK
  <1>5. CASE BWith(p, [k EXCEPT !.created = a]) \/ BWith(p, [k EXCEPT !.found = a]) \/ BWith(p, [k EXCEPT !.outcome = a])
             \/ BWith(p, [k EXCEPT !.created = a, !.volume = b])
    BY <1>2, <1>4, <1>5
  <1> QED BY <1>1, <1>5

LEMMA VanishThere ==
  ASSUME TInv, NEW gone, Vanish(gone)
  PROVE  UpThere(docker', up')
  BY DEF TInv, UpThere, Vanish, Parts

(* A step of a run. *)
LEMMA RunTyped ==
  ASSUME TInv, NEW p \in Procs, bpc[p] \in RunPositions, NEW l \in RunPositions, BGoto(p, l), NEW a, NEW b,
         UNCHANGED bjob \/ BWith(p, [bjob[p] EXCEPT !.created = a]) \/ BWith(p, [bjob[p] EXCEPT !.created = a, !.volume = b]),
         UpThere(docker', up'), UNCHANGED custody
  PROVE  TypedStep(p)
  <1>1. bpc[p] # "idle"
    BY DEF RunPositions
  <1>2. LocalsTyped(bpc'[p], bjob'[p])
    BY <1>1, LedgerTyped
  <1> QED BY <1>2, TypedState DEF TypedStep

LEMMA LookingTyped ==
  ASSUME TInv, NEW p \in Procs,
         CheckExists(p) \/ EnsureOdooImage(p) \/ EnsureNetwork(p) \/ EnsureVolume(p) \/ WaitOdooHealthy(p)
  PROVE  TypedStep(p)
  <1>1. UNCHANGED <<docker, up, custody>> /\ bpc[p] \in RunPositions
    BY DEF CheckExists, EnsureOdooImage, EnsureNetwork, EnsureVolume, WaitOdooHealthy, dockerVars,
           RunPositions, BackendPositions, RemovalPositions
  <1>2. UpThere(docker', up') /\ custody' \in Proofs
    BY <1>1, TypedState
  <1>3. ASSUME NEW l \in RunPositions, Step(p, l) PROVE TypedStep(p)
    BY <1>1, <1>2, <1>3, RunTyped DEF Step
  <1>4. ASSUME NEW ok, BEnd(p, ok) PROVE TypedStep(p)
    BY <1>2, <1>4, EndTyped DEF TypedStep
  <1>5. {"image", "network", "filestore", "network_create", "filestore_create", "provision", "record", "rollback"}
           \subseteq RunPositions
    BY DEF RunPositions, BackendPositions, RemovalPositions
  <1> QED BY <1>3, <1>4, <1>5
         DEF CheckExists, EnsureOdooImage, EnsureNetwork, EnsureVolume, WaitOdooHealthy, Raise

LEMMA CreatesTyped ==
  ASSUME TInv, NEW p \in Procs,
         CreateNetwork(p) \/ CreateVolume(p) \/ Provision(p) \/ RunBootstrap(p) \/ RemoveBootstrap(p) \/ RunContainer(p)
  PROVE  TypedStep(p)
  <1> DEFINE k == bjob[p]
  <1>1. bpc[p] \in RunPositions /\ UNCHANGED custody
    BY DEF CreateNetwork, CreateVolume, Provision, RunBootstrap, RemoveBootstrap, RunContainer,
           RunPositions, BackendPositions, RemovalPositions
  <1>2. k.run # Absent
    BY <1>1, TypedState DEF LocalsTyped
  <1>3. {"filestore", "provision", "bootstrap", "odoo", "rm_bootstrap", "health", "rollback"} \subseteq RunPositions
    BY DEF RunPositions, BackendPositions, RemovalPositions
  <1>4. ASSUME NEW l \in {"filestore", "provision", "bootstrap", "odoo", "rm_bootstrap", "health", "rollback"},
               BGoto(p, l), NEW a, NEW b, UpThere(docker', up'),
               \/ UNCHANGED bjob \/ BWith(p, [k EXCEPT !.created = a])
               \/ BWith(p, [k EXCEPT !.created = a, !.volume = b])
        PROVE  TypedStep(p)
    BY <1>1, <1>3, <1>4, RunTyped
  <1>5. DOMAIN docker = Parts /\ UpThere(docker, up)
    BY TypedState
  <1>6. ASSUME NEW x \in Parts, NEW who, who # Absent \/ x \notin Containers,
               docker' = [docker EXCEPT ![x] = who], up' \subseteq up \cup ({x} \cap Containers)
        PROVE  UpThere(docker', up')
    BY <1>5, <1>6 DEF UpThere, Parts
  <1>7. CASE CreateNetwork(p)
    <2>1. UpThere(docker', up')
      BY <1>5, <1>6, <1>7 DEF CreateNetwork, Put, Parts, Containers
    <2> QED BY <1>4, <1>7, <2>1 DEF CreateNetwork, Enter, Raise, Step
  <1>8. CASE CreateVolume(p)
    <2>1. UpThere(docker', up')
      BY <1>5, <1>6, <1>8 DEF CreateVolume, Put, Parts, Volumes, Containers
    <2> QED BY <1>4, <1>8, <2>1 DEF CreateVolume, Enter, Raise, Step
  <1>9. CASE Provision(p)
    <2>1. CASE UNCHANGED dockerVars
      BY <1>4, <1>5, <1>9, <2>1 DEF Provision, Raise, Step, dockerVars
    <2>2. CASE ~UNCHANGED dockerVars
      <3> DEFINE fresh == ~Exists("pgdata")
      <3>1. /\ docker' = [docker EXCEPT !["postgres"] = k.run, !["pgdata"] = IF fresh THEN k.run ELSE @]
            /\ up' = up \cup {"postgres"} /\ BGoto(p, IF fresh THEN "bootstrap" ELSE "odoo")
            /\ BWith(p, [k EXCEPT !.created = Append(@, "database"), !.volume = fresh])
        BY <1>9, <2>2 DEF Provision
      <3>2. UpThere(docker', up')
        BY <1>2, <1>5, <3>1 DEF UpThere, Parts, Containers, Volumes
      <3> QED BY <1>4, <3>1, <3>2
    <2> QED BY <2>1, <2>2
  <1>10. CASE RunBootstrap(p)
    <2>1. UpThere(docker', up')
      BY <1>2, <1>5, <1>6, <1>10 DEF RunBootstrap, Put, Parts, Containers, dockerVars
    <2> QED BY <1>4, <1>10, <2>1 DEF RunBootstrap, Enter, Raise, Step
  <1>11. CASE RemoveBootstrap(p)
    <2>1. UpThere(docker', up')
      BY <1>5, <1>11, VanishThere DEF RemoveBootstrap, dockerVars
    <2> QED BY <1>4, <1>11, <2>1 DEF RemoveBootstrap, Raise, Step
  <1>12. CASE RunContainer(p)
    <2>1. UpThere(docker', up')
      <3>1. CASE UNCHANGED dockerVars
        BY <1>5, <3>1 DEF dockerVars
      <3>2. CASE ~UNCHANGED dockerVars
        <4>1. /\ docker' = [docker EXCEPT !["odoo"] = k.run,
                                          !["filestore"] = IF Exists("filestore") THEN @ ELSE Unlabelled]
              /\ up' \subseteq up \cup {"odoo"}
          BY <1>12, <3>2 DEF RunContainer
        <4> QED BY <1>2, <1>5, <4>1 DEF UpThere, Parts, Containers, Volumes
      <3> QED BY <3>1, <3>2
    <2> QED BY <1>4, <1>12, <2>1 DEF RunContainer, Enter, Raise, Step
  <1> QED BY <1>7, <1>8, <1>9, <1>10, <1>11, <1>12

LEMMA RecordTyped ==
  ASSUME TInv, NEW p \in Procs, RecordCustody(p)
  PROVE  TypedStep(p)
  <1>1. bpc[p] \in RunPositions /\ UNCHANGED <<docker, up>> /\ "rollback" \in RunPositions
    BY DEF RecordCustody, dockerVars, RunPositions, BackendPositions, RemovalPositions
  <1>2. UpThere(docker', up')
    BY <1>1, TypedState
  <1>3. CASE Raise(p) /\ UNCHANGED custody
    BY <1>1, <1>2, <1>3, RunTyped DEF Raise, Step
  <1>4. ASSUME NEW t \in {bjob[p].run, Absent}, custody' = Entry(bjob[p].run, bjob[p].volume, t), BEnd(p, TRUE)
        PROVE  TypedStep(p)
    <2>1. bjob[p].run \in RunOrNone /\ bjob[p].volume \in BOOLEAN /\ t \in RunOrNone
      BY <1>4, TypedState DEF LocalsTyped, RunOrNone
    <2>2. custody' \in Proofs
      BY <1>4, <2>1 DEF Entry, Proofs
    <2> QED BY <1>2, <1>4, <2>2, EndTyped DEF TypedStep
  <1> QED BY <1>3, <1>4 DEF RecordCustody

LEMMA RollbackTyped ==
  ASSUME TInv, NEW p \in Procs, Rollback(p)
  PROVE  TypedStep(p)
  <1> DEFINE k == bjob[p]
             ledger == k.created
  <1>1. bpc[p] = "rollback" /\ UNCHANGED custody /\ custody' \in Proofs
    BY TypedState DEF Rollback
  <1>2. CASE BEnd(p, FALSE) /\ UNCHANGED dockerVars
    BY <1>1, <1>2, EndTyped, TypedState DEF TypedStep, dockerVars
  <1>3. ASSUME ledger # <<>>, UNCHANGED bpc, NEW gone,
               NEW left \in SUBSET (IF Last(ledger) = "database" THEN {"postgres", "pgdata"} ELSE {Last(ledger)}),
               Vanish(gone), BWith(p, [k EXCEPT !.created = Front(@), !.left = @ \cup left])
        PROVE  TypedStep(p)
    <2>1. Last(ledger) \in LedgerEntries
      BY <1>3, TypedState, FrontInLedger DEF JobOK
    <2>2. left \subseteq Parts
      BY <1>3, <2>1 DEF LedgerEntries, Parts, Containers, Volumes
    <2> DEFINE j == [k EXCEPT !.created = Front(k.created), !.left = k.left \cup left]
    <2>3. j.run = k.run /\ j.proof = k.proof /\ j.left = k.left \cup left
      <3>1. JobOK(k)
        BY TypedState
      <3> HIDE DEF k
      <3> QED BY <3>1 DEF JobOK
    <2>4. BWith(p, j)
      BY <1>3
    <2> HIDE DEF j
    <2>5. LocalsTyped(bpc'[p], bjob'[p])
      BY <1>1, <1>3, <2>2, <2>3, <2>4, GoesTyped
    <2> QED BY <1>1, <1>3, <2>5, VanishThere DEF TypedStep
  <1> QED BY <1>2, <1>3 DEF Rollback

(* A step of a removal. *)
LEMMA RemovesTyped ==
  ASSUME TInv, NEW p \in Procs, bpc[p] \in RemovalPositions, NEW l, l \notin RunPositions, BGoto(p, l), NEW a,
         BWith(p, [bjob[p] EXCEPT !.found = a]) \/ BWith(p, [bjob[p] EXCEPT !.outcome = a]),
         UpThere(docker', up'), UNCHANGED custody
  PROVE  TypedStep(p)
  <1>1. bpc[p] # "idle"
    BY DEF RemovalPositions
  <1>2. LocalsTyped(bpc'[p], bjob'[p])
    BY <1>1, LedgerTyped
  <1> QED BY <1>2, TypedState DEF TypedStep

LEMMA RemovalApart ==
  /\ {"rm_postgres", "rm_odoo", "rm_network", "consume", "reclaim", "reclaim_fs", "complete"} \cap RunPositions = {}
  /\ {"look", "rm_postgres", "rm_odoo", "rm_network", "consume", "reclaim", "reclaim_fs", "complete"} \subseteq RemovalPositions
  BY DEF RunPositions, RemovalPositions

LEMMA EndsTyped ==
  ASSUME TInv, NEW p \in Procs, NEW ok, BEnd(p, ok), UpThere(docker', up'), custody' \in Proofs
  PROVE  TypedStep(p)
  BY EndTyped DEF TypedStep

LEMMA RuntimeTyped ==
  ASSUME TInv, NEW p \in Procs, LookAtRuntime(p) \/ \E i \in 1..3 : RemoveRuntime(p, i)
  PROVE  TypedStep(p)
  <1>1. UpThere(docker, up) /\ custody \in Proofs
    BY TypedState
  <1>2. CASE LookAtRuntime(p)
    <2>1. UpThere(docker', up') /\ UNCHANGED custody /\ custody' \in Proofs /\ bpc[p] \in RemovalPositions
      BY <1>1, <1>2, RemovalApart DEF LookAtRuntime, dockerVars
    <2>2. ASSUME NEW a, BGoto(p, "rm_postgres"), BWith(p, [bjob[p] EXCEPT !.found = a]) PROVE TypedStep(p)
      BY <2>1, <2>2, RemovesTyped, RemovalApart
    <2> QED BY <1>2, <2>1, <2>2, EndsTyped DEF LookAtRuntime
  <1>3. ASSUME NEW i \in 1..3, RemoveRuntime(p, i) PROVE TypedStep(p)
    <2> DEFINE x == Runtime[i]
    <2>1. UNCHANGED custody /\ custody' \in Proofs /\ bpc[p] \in RemovalPositions
      BY <1>1, <1>3, RemovalApart DEF RemoveRuntime
    <2>2. UNCHANGED dockerVars \/ Vanish({x}) \/ (UNCHANGED docker /\ up' \in {up, up \ {x}})
      BY <1>3 DEF RemoveRuntime
    <2>3. UpThere(docker', up')
      <3>1. CASE UNCHANGED dockerVars
        BY <1>1, <3>1 DEF dockerVars
      <3>2. CASE Vanish({x})
        BY <3>2, VanishThere
      <3>3. CASE UNCHANGED docker /\ up' \in {up, up \ {x}}
        BY <1>1, <3>3 DEF UpThere
      <3> QED BY <2>2, <3>1, <3>2, <3>3
    <2>4. ASSUME NEW l \in {"rm_odoo", "rm_network", "consume"}, NEW a,
                 BGoto(p, l), BWith(p, [bjob[p] EXCEPT !.outcome = a])
          PROVE  TypedStep(p)
      BY <2>1, <2>3, <2>4, RemovesTyped, RemovalApart
    <2>5. ASSUME NEW ok, BEnd(p, ok) PROVE TypedStep(p)
      BY <2>1, <2>3, <2>5, EndsTyped
    <2> DEFINE Gone(o) == LET outcome == Append(bjob[p].outcome, o)
                          IN  IF i = 3 THEN AfterRuntime(p, outcome)
                              ELSE /\ BGoto(p, <<"rm_odoo", "rm_network">>[i])
                                   /\ BWith(p, [bjob[p] EXCEPT !.outcome = outcome])
    <2>6. ASSUME NEW o, Gone(o) PROVE TypedStep(p)
      <3>1. CASE i = 3
        BY <2>4, <2>5, <2>6, <3>1 DEF AfterRuntime
      <3>2. CASE i \in {1, 2}
        <4>1. <<"rm_odoo", "rm_network">>[i] \in {"rm_odoo", "rm_network"}
          BY <3>2
        <4>2. BGoto(p, <<"rm_odoo", "rm_network">>[i]) /\ BWith(p, [bjob[p] EXCEPT !.outcome = Append(bjob[p].outcome, o)])
          BY <2>6, <3>2
        <4> QED BY <2>4, <4>1, <4>2
      <3> QED BY <3>1, <3>2
    <2>7. (\E o : Gone(o)) \/ BEnd(p, FALSE)
      BY <1>3 DEF RemoveRuntime
    <2> QED BY <2>5, <2>6, <2>7
  <1> QED BY <1>2, <1>3

LEMMA ConsumeTyped ==
  ASSUME TInv, NEW p \in Procs, Consume(p)
  PROVE  TypedStep(p)
  <1>1. UpThere(docker', up') /\ custody \in Proofs /\ bpc[p] # "idle" /\ JobOK(bjob[p])
    BY TypedState DEF Consume, dockerVars
  <1>2. ASSUME NEW ok, BEnd(p, ok), UNCHANGED custody PROVE TypedStep(p)
    BY <1>1, <1>2, EndsTyped
  <1>3. CASE /\ custody' = Consumed /\ BGoto(p, "reclaim") /\ BWith(p, [bjob[p] EXCEPT !.proof = custody])
    <2>1. custody' \in Proofs
      BY <1>1, <1>3 DEF Consumed, Proofs
    <2> DEFINE k == bjob[p]
               j == [k EXCEPT !.proof = custody]
    <2>2. j.run = k.run /\ j.proof = custody /\ j.left = k.left
      <3> HIDE DEF k
      <3>1. JobOK(k)
        BY <1>1 DEF k
      <3> QED BY <3>1 DEF JobOK
    <2>3. BWith(p, j)
      BY <1>3
    <2> HIDE DEF j
    <2>4. "reclaim" \notin RunPositions
      BY RemovalApart
    <2>5. LocalsTyped(bpc'[p], bjob'[p])
      BY <1>1, <1>3, <2>2, <2>3, <2>4, GoesTyped
    <2> QED BY <1>1, <2>1, <2>5 DEF TypedStep
  <1> QED BY <1>2, <1>3 DEF Consume

LEMMA ReclaimTyped ==
  ASSUME TInv, NEW p \in Procs,
         ReclaimDatabase(p) \/ ReclaimFilestore(p) \/ ReclaimRaises(p) \/ CompleteReclaim(p)
  PROVE  TypedStep(p)
  <1> DEFINE k == bjob[p]
  <1>1. UpThere(docker, up) /\ custody \in Proofs /\ JobOK(k)
    BY TypedState
  <1>2. CASE ReclaimDatabase(p)
    <2>1. PICK gone, left \in SUBSET {"postgres", "pgdata"} :
             Vanish(gone) /\ \E o : BWith(p, [k EXCEPT !.outcome = o, !.left = left])
      BY <1>2 DEF ReclaimDatabase
    <2>2. bpc[p] = "reclaim" /\ BGoto(p, "reclaim_fs") /\ UNCHANGED custody
      BY <1>2 DEF ReclaimDatabase
    <2>3. PICK o : BWith(p, [k EXCEPT !.outcome = o, !.left = left])
      BY <2>1
    <2> DEFINE j == [k EXCEPT !.outcome = o, !.left = left]
    <2>4. j.run = k.run /\ j.proof = k.proof /\ j.left = left
      <3> HIDE DEF k
      <3> QED BY <1>1 DEF JobOK
    <2>5. BWith(p, j) /\ left \subseteq Parts
      BY <2>1, <2>3 DEF Parts, Containers, Volumes
    <2> HIDE DEF j
    <2>6. LocalsTyped(bpc'[p], bjob'[p])
      BY <2>2, <2>4, <2>5, GoesTyped, RemovalApart
    <2> QED BY <1>1, <2>1, <2>2, <2>6, VanishThere DEF TypedStep
  <1>3. CASE ReclaimFilestore(p)
    <2>1. (UNCHANGED dockerVars \/ \E gone : Vanish(gone)) /\ UNCHANGED custody /\ bpc[p] = "reclaim_fs"
      BY <1>3 DEF ReclaimFilestore
    <2>2. UpThere(docker', up')
      BY <1>1, <2>1, VanishThere DEF dockerVars
    <2>3. \E o : BGoto(p, "complete") /\ BWith(p, [k EXCEPT !.outcome = o])
      BY <1>3 DEF ReclaimFilestore
    <2> QED BY <2>1, <2>2, <2>3, RemovesTyped, RemovalApart
  <1>4. CASE CompleteReclaim(p)
    <2>1. UpThere(docker', up')
      BY <1>1, <1>4 DEF CompleteReclaim, dockerVars
    <2>2. custody' \in Proofs
      BY <1>1, <1>4, NoneTyped DEF CompleteReclaim, Completed
    <2> QED BY <1>4, <2>1, <2>2, EndsTyped DEF CompleteReclaim
  <1>5. CASE ReclaimRaises(p)
    <2>1. UpThere(docker', up') /\ custody' \in Proofs
      BY <1>1, <1>5 DEF ReclaimRaises, dockerVars
    <2> QED BY <1>5, <2>1, EndsTyped DEF ReclaimRaises
  <1> QED BY <1>2, <1>3, <1>4, <1>5

LEMMA CommandTyped ==
  ASSUME TInv, NEW p \in Procs, BackendCommand(p)
  PROVE  TypedStep(p)
  BY LookingTyped, CreatesTyped, RecordTyped, RollbackTyped, RuntimeTyped, ConsumeTyped, ReclaimTyped DEF BackendCommand

(* The processes begin and die. *)
LEMMA StartTyped ==
  ASSUME TInv, CliTypeOK', UNCHANGED world, NEW p \in Procs, NEW STATE view, StartRun(p, view), calls' # 0
  PROVE  TypedStep(p) /\ bjob'[p].run \in Runs
  <1> DEFINE run == <<p, calls'>>
             j == [NoBackendJob EXCEPT !.cmd = "run", !.run = run, !.view = view]
  <1>1. bpc'[p] = "exists" /\ bjob'[p] = j /\ UNCHANGED <<docker, up, custody>>
    BY TypedState DEF StartRun, BGoto, BWith, dockerVars
  <1>2. j.run = run /\ j.proof = NoProof /\ j.left = {}
    BY DEF NoBackendJob
  <1>3. run \in Runs /\ run # Absent
    <2>1. calls' \in 1..MaxCalls(world) /\ world \in Worlds
      BY DEF CliTypeOK
    <2>2. MaxCalls(world) \in Nat
      BY <2>1, WorldsAssumption
    <2> QED BY <2>1, <2>2, LabelsAssumption DEF Runs
  <1> HIDE DEF j, run
  <1>4. LocalsTyped(bpc'[p], bjob'[p])
    BY <1>1, <1>2, <1>3, NoneTyped DEF LocalsTyped, RunOrNone
  <1> QED BY <1>1, <1>2, <1>3, <1>4, TypedState DEF TypedStep

LEMMA BeginsTyped ==
  ASSUME TInv, NEW p \in Procs,
         \/ StartRemoval(p, "stop") \/ StartRemoval(p, "destroy") \/ Status(p) \/ LogsExec(p)
         \/ BackendCrash(p)
  PROVE  TypedStep(p)
  <1>1. UpThere(docker', up') /\ custody' \in Proofs
    BY TypedState DEF StartRemoval, Status, LogsExec, BackendCrash, dockerVars
  <1>2. bpc'[p] \in {"idle", "look"}
    BY TypedState DEF StartRemoval, Status, LogsExec, BackendCrash, BMayBegin, BGoto
  <1>3. bjob'[p].run = Absent /\ bjob'[p].proof = NoProof /\ bjob'[p].left = {}
    <2> DEFINE Unset(j) == j.run = Absent /\ j.proof = NoProof /\ j.left = {}
    <2>1. ASSUME NEW c, NEW ok
          PROVE  /\ Unset([NoBackendJob EXCEPT !.cmd = c]) /\ Unset([NoBackendJob EXCEPT !.cmd = c, !.ok = ok])
                 /\ Unset(NoBackendJob)
      BY DEF NoBackendJob
    <2> HIDE DEF Unset
    <2>2. ASSUME NEW c, NEW ok,
                 \/ BWith(p, [NoBackendJob EXCEPT !.cmd = c]) \/ BWith(p, [NoBackendJob EXCEPT !.cmd = c, !.ok = ok])
                 \/ BWith(p, NoBackendJob)
          PROVE  \E j : BWith(p, j) /\ Unset(j)
      BY <2>1, <2>2
    <2>3. PICK j : BWith(p, j) /\ Unset(j)
      BY <2>2 DEF StartRemoval, Status, LogsExec, BackendCrash
    <2> QED BY <2>3, TypedState DEF BWith, Unset
  <1>4. {"idle", "look"} \cap RunPositions = {}
    BY DEF RunPositions, RemovalPositions
  <1>5. LocalsTyped(bpc'[p], bjob'[p])
    BY <1>2, <1>3, <1>4, NoneTyped DEF LocalsTyped, RunOrNone
  <1> QED BY <1>1, <1>5 DEF TypedStep

(* The counters stay within their bounds. *)
LEMMA CountersTyped ==
  ASSUME CliTypeOK, Next
  PROVE  CliTypeOK' /\ calls <= calls'
  <1>1. Begun \/ Changed \/ Died \/ UNCHANGED cli
    <2>1. ASSUME NEW p \in Procs, WorkspaceStep(p) PROVE Begun \/ Died \/ UNCHANGED cli
      BY <2>1 DEF WorkspaceStep, BeginCommand, OnboardCatalog, Configure, Read, MayBegin, BeginUnlock, Crash
    <2>2. ASSUME NEW p \in Procs, HandOver(p) PROVE UNCHANGED cli
      BY <2>2 DEF HandOver
    <2>3. ASSUME NEW p \in Procs, RunBare(p) PROVE Begun
      BY <2>3 DEF RunBare
    <2>4. ASSUME NEW p \in Procs, BackendStep(p) PROVE Begun \/ Died \/ UNCHANGED cli
      BY <2>4 DEF BackendStep, BackendCrash
    <2>5. WorkspaceEnv => Changed
      BY DEF WorkspaceEnv
    <2> QED BY <2>1, <2>2, <2>3, <2>4, <2>5 DEF Next
  <1>2. UNCHANGED world /\ MaxCalls(world) \in Nat /\ MaxEdits(world) \in Nat
    BY WorldsAssumption DEF Next, CliTypeOK
  <1> QED BY <1>1, <1>2 DEF Begun, Changed, Died, cli, CliTypeOK

(* What a step of process p in the backend keeps. *)
LEMMA BackendTyped ==
  ASSUME TInv, LInv', WInv', CliTypeOK', calls <= calls', UNCHANGED world, NEW p \in Procs, Keeps(p), TypedStep(p),
         \A q \in Procs : pc'[q] # "idle" => pc[q] # "idle"
  PROVE  TInv'
  <1>1. RunOrNone' = RunOrNone
    BY DEF RunOrNone, Runs
  <1>2. calls \in Nat /\ calls' \in Nat
    BY DEF TInv, LInv, IInv
  <1>3. \A x \in Parts : docker'[x] \in RunOrNone \cup {Unlabelled}
    BY TypedState DEF TInv, Keeps, OwnLabels, LocalsTyped, RunOrNone
  <1>4. custody' \in Proofs' /\ UpThere(docker, up)'
    BY <1>1 DEF TypedStep, Proofs, UpThere
  <1>5. ASSUME NEW q \in Procs PROVE LocalsTyped(bpc'[q], bjob'[q])
    <2>1. q # p => bpc'[q] = bpc[q] /\ bjob'[q] = bjob[q]
      BY TypedState DEF Keeps, OwnLocals
    <2> QED BY <2>1, TypedState DEF TypedStep
  <1>6. ASSUME NEW q \in Procs PROVE LocalsTyped(bpc[q], bjob[q])' /\ (pc'[q] # "idle" => calls' # 0)
    <2>1. LocalsTyped(bpc[q], bjob[q])'
      BY <1>1, <1>5 DEF LocalsTyped, Proofs
    <2> QED BY <1>2, <2>1 DEF TInv
  <1> QED BY <1>1, <1>3, <1>4, <1>6 DEF TInv

LEMMA WorkspaceTyped ==
  ASSUME TInv, LInv', WInv', CliTypeOK', calls <= calls', UNCHANGED world, UNCHANGED backendVars,
         \A q \in Procs : pc'[q] # "idle" => pc[q] # "idle" \/ calls' = calls + 1
  PROVE  TInv'
  <1>1. RunOrNone' = RunOrNone /\ UNCHANGED <<docker, up, custody, bpc, bjob>>
    BY DEF RunOrNone, Runs, backendVars
  <1>2. calls \in Nat /\ calls' \in Nat
    BY DEF TInv, LInv, IInv
  <1>3. custody' \in Proofs' /\ UpThere(docker, up)'
    BY <1>1 DEF TInv, Proofs, UpThere
  <1>4. ASSUME NEW q \in Procs PROVE LocalsTyped(bpc[q], bjob[q])' /\ (pc'[q] # "idle" => calls' # 0)
    <2>1. LocalsTyped(bpc[q], bjob[q])'
      BY <1>1 DEF TInv, LocalsTyped, Proofs
    <2> QED BY <1>2, <2>1 DEF TInv
  <1> QED BY <1>1, <1>3, <1>4 DEF TInv

LEMMA TInitial == Init => TInv
  <1> SUFFICES ASSUME Init PROVE TInv
    OBVIOUS
  <1>1. LInv /\ WInv
    BY LInitial, WInitial
  <1>2. CliTypeOK
    BY WorldsAssumption DEF Init, CliInit, CliTypeOK
  <1>3. /\ \A x \in Parts : docker[x] \in RunOrNone \cup {Unlabelled}
        /\ UpThere(docker, up) /\ custody \in Proofs
    BY NoneTyped DEF Init, BackendInit, RunOrNone, UpThere
  <1>4. \A p \in Procs : pc[p] = "idle"
    BY DEF Init, WorkspaceInit
  <1>5. \A p \in Procs : LocalsTyped(bpc[p], bjob[p])
    <2>1. NoBackendJob.run = Absent
      BY DEF NoBackendJob
    <2> QED BY <2>1, NoneTyped DEF Init, BackendInit, LocalsTyped, RunPositions, RunOrNone
  <1> QED BY <1>1, <1>2, <1>3, <1>4, <1>5 DEF TInv

LEMMA TInductive == TInv /\ [Next]_localVars => TInv'
  <1> SUFFICES ASSUME TInv, [Next]_localVars PROVE TInv'
    OBVIOUS
  <1>1. LInv /\ LInv' /\ WInv' /\ calls \in Nat
    BY LInductive, WInductive DEF TInv, LInv, IInv
  <1>2. CASE UNCHANGED localVars
    <2>1. UNCHANGED <<world, calls, edits, crashes, pc, backendVars>>
      BY <1>2 DEF localVars, cli, workspaceVars
    <2>2. CliTypeOK' /\ calls <= calls'
      BY <1>1, <2>1 DEF TInv, CliTypeOK
    <2> QED BY <1>1, <2>1, <2>2, WorkspaceTyped
  <1>3. CASE Next
    <2>1. CliTypeOK' /\ calls <= calls' /\ UNCHANGED world
      BY <1>3, CountersTyped DEF TInv, Next
    <2>2. ASSUME NEW p \in Procs, HandOver(p) PROVE TInv'
      <3>1. pc[p] = "run" /\ calls' = calls /\ pc' = [pc EXCEPT ![p] = "idle"] /\ StartRun(p, job[p].view)
        BY <2>2 DEF HandOver, End, Goto, cli
      <3>2. calls' # 0 /\ \A q \in Procs : pc'[q] # "idle" => pc[q] # "idle"
        BY <1>1, <3>1 DEF TInv, LInv
      <3>3. Keeps(p) /\ TypedStep(p)
        BY <1>1, <2>1, <3>1, <3>2, StartRunMoves, StartTyped
      <3> QED BY <1>1, <2>1, <3>2, <3>3, BackendTyped
    <2>3. ASSUME NEW p \in Procs, RunBare(p) PROVE TInv'
      <3>1. calls' = calls + 1 /\ UNCHANGED pc /\ StartRun(p, {}) /\ calls' # 0
        BY <1>1, <2>3 DEF RunBare, Begun, workspaceVars
      <3>2. Keeps(p) /\ TypedStep(p)
        BY <1>1, <2>1, <3>1, StartRunMoves, StartTyped
      <3> QED BY <1>1, <2>1, <3>1, <3>2, BackendTyped
    <2>4. ASSUME NEW p \in Procs, BackendStep(p), UNCHANGED workspaceVars PROVE TInv'
      <3>1. UNCHANGED pc
        BY <2>4 DEF workspaceVars
      <3>2. Keeps(p) /\ TypedStep(p)
        <4>1. CASE BackendCommand(p) /\ UNCHANGED cli
          BY <1>1, <4>1, CommandMoves, CommandTyped DEF cli
        <4>2. CASE \/ StartRemoval(p, "stop") \/ StartRemoval(p, "destroy") \/ Status(p) \/ LogsExec(p)
                   \/ BackendCrash(p)
          BY <1>1, <2>1, <4>2, StartsMove, BeginsTyped
        <4> QED BY <2>4, <4>1, <4>2 DEF BackendStep
      <3> QED BY <1>1, <2>1, <3>1, <3>2, BackendTyped
    <2>5. ASSUME NEW p \in Procs, WorkspaceStep(p), UNCHANGED backendVars PROVE TInv'
      <3>1. PICK l : Goto(p, l)
        BY <2>5, WorkspaceSteps
      <3>2. \A q \in Procs \ {p} : pc'[q] = pc[q]
        BY <1>1, <3>1 DEF Goto, LInv
      <3>3. pc[p] # "idle" \/ calls' = calls + 1
        BY <2>5, WorkspaceSteps DEF Begun
      <3> QED BY <1>1, <2>1, <2>5, <3>2, <3>3, WorkspaceTyped
    <2>6. ASSUME WorkspaceEnv, UNCHANGED backendVars PROVE TInv'
      <3>1. UNCHANGED pc
        BY <2>6 DEF WorkspaceEnv
      <3> QED BY <1>1, <2>1, <2>6, <3>1, WorkspaceTyped
    <2> QED BY <1>3, <2>2, <2>3, <2>4, <2>5, <2>6 DEF Next
  <1> QED BY <1>2, <1>3

(* The command line keeps its types: every label is that of a run begun    *)
(* within the bound, what is up is there, a process is in one command at a *)
(* time, and a clone under way is on disk (cli.py, provider.py).           *)
THEOREM LocalTypes == Spec => []TypeOK
  <1>1. ASSUME TInv PROVE TypeOK
    <2>1. WorkspaceTypeOK
      <3>1. manifest \in {NoManifest} \cup Manifests /\ remote \in [AllSources -> Commits] /\ CliTypeOK
        BY <1>1 DEF TInv, WInv
      <3>2. \A path \in DOMAIN disk : disk[path] \in Trees
        BY <1>1 DEF TInv, WInv
      <3>3. pc = [p \in Procs |-> pc[p]] /\ \A p \in Procs : Carries(pc[p], job[p]) /\ SeesDisk(p, disk, pc[p], job[p])
        BY <1>1, WState DEF TInv
      <3>4. pc \in [Procs -> Positions]
        BY <3>3 DEF Carries
      <3>5. \A p \in Procs : pc[p] \in {"fetch", "swap_out", "swap_in"} => job[p].clone \in DOMAIN disk
        BY <3>3 DEF SeesDisk, Cloning
      <3> QED BY <3>1, <3>2, <3>4, <3>5 DEF WorkspaceTypeOK
    <2>2. BackendTypeOK
      <3>1. /\ docker \in [Parts -> Tokens \cup {Unlabelled}]
            /\ DOMAIN bpc = Procs /\ bpc = [p \in Procs |-> bpc[p]]
            /\ \A p \in Procs : JobOK(bjob[p]) /\ LocalsOK(p, bpc[p], bjob[p], calls) /\ bjob[p].left \subseteq Parts
        BY <1>1 DEF TInv, LInv, IInv, LocalsTyped
      <3>2. docker \in [Parts -> Runs \cup {Absent, Unlabelled}]
        BY <1>1, <3>1 DEF TInv, RunOrNone
      <3>3. up \subseteq {c \in Containers : Exists(c)}
        BY <1>1 DEF TInv, UpThere, Exists
      <3>4. custody \in [run : Runs \cup {Absent}, volume : BOOLEAN, token : Runs \cup {Absent},
                         state : {"none", "recorded", "in_progress"}]
        BY <1>1 DEF TInv, Proofs, RunOrNone
      <3>5. bpc \in [Procs -> BackendPositions]
        BY <3>1 DEF LocalsOK
      <3>6. \A p \in Procs : ToSet(bjob[p].created) \subseteq Parts \cup {"database"}
        <4>1. LedgerEntries \subseteq Parts \cup {"database"}
          BY DEF LedgerEntries, Parts, Containers, Volumes
        <4>2. ASSUME NEW p \in Procs, NEW e \in ToSet(bjob[p].created) PROVE e \in LedgerEntries
          <5> DEFINE s == bjob[p].created
          <5>1. s \in Seq(LedgerEntries)
            BY <3>1 DEF JobOK
          <5>2. PICK i \in DOMAIN s : e = s[i]
            BY <4>2 DEF ToSet
          <5> QED BY <5>1, <5>2
        <4> QED BY <4>1, <4>2
      <3> QED BY <3>1, <3>2, <3>3, <3>4, <3>5, <3>6 DEF BackendTypeOK
    <2>3. \A p \in Procs : pc[p] = "idle" \/ bpc[p] = "idle"
      BY <1>1 DEF TInv, LInv, OneCommand
    <2> QED BY <2>1, <2>2, <2>3 DEF TypeOK
  <1> QED BY <1>1, TInitial, TInductive, PTL DEF Spec
=============================================================================
