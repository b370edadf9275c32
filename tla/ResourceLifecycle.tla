------------------------- MODULE ResourceLifecycle -------------------------
(***************************************************************************)
(* LifecycleService.run (resource_lifecycle/service.py) over the registry, *)
(* with the adapter that observes Docker and the JSONL journal             *)
(* (postgres_docker/lifecycle.py), for one project scope.                  *)
(*                                                                         *)
(* A call of the registry, the gateway or the journal is a step; the two   *)
(* reads of a revalidation are one.  Time is a clock that ticks between    *)
(* steps: an idle database is due (ttl and grace are over) one tick after  *)
(* its last activity, and a quarantine with a wait is over one tick after  *)
(* it was journalled.                                                      *)
(***************************************************************************)
EXTENDS ControlPlane, Sequences

CONSTANTS
    Runs,           \* lifecycle runs operators ask for: [delete, wait, approved]
    ClassOf(_),     \* resource class of the database of an operation
    MaxTime         \* bound of the clock

VARIABLES
    clock,
    activity,       \* activity[o]: last activity of the database of o; its evidence digest
    journal,        \* [histories, torn]: events with a history; torn: a line was cut off
    quarantined,    \* names the gateway has quarantined
    late            \* ghost: processes whose resource was used after their last look

lifecycleVars == <<clock, activity, journal, quarantined, late>>

Classes == {"dev", "qa", "prod"}

Presence == {"absent", "invalid", "present", "unverifiable"}

ASSUME MaxTimeAssumption == MaxTime \in Nat

ASSUME ObservationsAssumption ==
    /\ \A o \in Operations : ClassOf(o) \in Classes
    /\ None \notin [operation : Operations, digest : Nat, class : Classes, presence : Presence]

Histories == [pointer : Pointers, name : Names, operation : Operations, digest : 0..MaxTime,
              class : Classes, at : 0..MaxTime, outcome : {"quarantined", "deleted"}]

LifecycleInit ==
    /\ clock = 0
    /\ activity = [o \in Operations |-> 0]
    /\ journal = [histories |-> <<>>, torn |-> FALSE]
    /\ quarantined = {} /\ late = {}

LifecycleTypeOK ==
    /\ clock \in 0..MaxTime
    /\ activity \in [Operations -> 0..MaxTime]
    /\ journal.histories \in Seq(Histories) /\ journal.torn \in BOOLEAN
    /\ quarantined \subseteq Names /\ late \subseteq Procs

-----------------------------------------------------------------------------
(* observe: the records of the authority that are active, each with what   *)
(* Docker says of its container.                                           *)
Recorded(n) == {o \in Operations : custody[o][n].state = "active"}

Presences(n, o) ==
    (IF DockerFails THEN {"unverifiable"} ELSE {}) \cup
    {CASE Cardinality(Recorded(n)) > 1 -> "unverifiable"
       [] live[n] = None -> "absent"
       [] live[n].operation # o -> "absent"
       [] live[n].dead -> "invalid"
       [] OTHER -> "present"}

Observation(o, presence) ==
    [operation |-> o, digest |-> activity[o], class |-> ClassOf(o), presence |-> presence]

(* The ways the observation of a name may come out. *)
Observations(n) ==
    IF Recorded(n) = {} THEN {{}}
    ELSE {{Observation(o, f[o]) : o \in Recorded(n)} :
             f \in {g \in [Recorded(n) -> Presence] :
                       \A o \in Recorded(n) : g[o] \in Presences(n, o)}}

(* evaluate_expiration: ttl and grace are over, and the class may expire.  *)
Eligible(o) == o.class \in {"dev", "qa"} /\ clock - o.digest >= 1

-----------------------------------------------------------------------------
(* A line appended to the journal.  Behind a torn line it cannot be read:  *)
(* every read of the file raises from then on.                             *)
Journalled(h) == journal' = [journal EXCEPT !.histories = Append(@, h)]

BeginLifecycle(p, run) ==
    /\ Begin(p, "lifecycle", "list",
             [cmd |-> "lifecycle", delete |-> run.delete, wait |-> run.wait, approved |-> run.approved,
              records |-> <<>>, observed |-> <<>>, histories |-> <<>>, keys |-> {},
              key |-> None, record |-> None, seen |-> None, history |-> None, tries |-> 0,
              path |-> None])
    /\ UNCHANGED <<rows, planeVars, lifecycleVars>>

ListRecords(p) ==
    /\ At(p, "list")
    /\ \/ SqlFails /\ Return(p, "raised")
       \/ Goto(p, "observe", [job[p] EXCEPT !.records = List])
    /\ UNCHANGED <<rows, planeVars, lifecycleVars>>

Observe(p) ==
    /\ At(p, "observe")
    /\ \E f \in [Names -> UNION {Observations(n) : n \in Names}] :
          /\ \A n \in Names : f[n] \in Observations(n)
          /\ Goto(p, "events", [job[p] EXCEPT !.observed = f])
    /\ UNCHANGED <<rows, planeVars, lifecycleVars>>

KeyOf(row) == <<row.resource.kind, row.resource.name>>

Keys(j) ==
    {KeyOf(j.records[i]) : i \in DOMAIN j.records}
    \cup {<<"database", n>> : n \in {m \in Names : j.observed[m] # {}}}
    \cup {<<"database", j.histories[k].name>> : k \in DOMAIN j.histories}

(* events, then the entry of the run itself: every line must parse. *)
ReadJournal(p) ==
    /\ At(p, "events")
    /\ \/ journal.torn /\ Return(p, "raised")
       \/ /\ ~journal.torn
          /\ LET j == [job[p] EXCEPT !.histories = journal.histories]
             IN Goto(p, "key", [j EXCEPT !.keys = Keys(j)])
    /\ UNCHANGED <<rows, planeVars, lifecycleVars>>

Rank(kind) == CASE kind = "container" -> 1 [] kind = "database" -> 2 [] OTHER -> 3

Before(a, b) == Rank(a[1]) < Rank(b[1]) \/ (a[1] = b[1] /\ a[2] <= b[2])

First(keys) == CHOOSE a \in keys : \A b \in keys : Before(a, b)

(* The next resource; _finish journals the outcome, without a history. *)
Finish(p) == Goto(p, "key", [job[p] EXCEPT !.keys = @ \ {First(job[p].keys)}])

-----------------------------------------------------------------------------
RecordMatchesHistory(i, row, h) ==
    /\ i = h.pointer
    /\ row.resource.kind = "database" /\ row.resource.name = h.name
    /\ row.receipt # None /\ row.receipt.operation = h.operation

(* _record_from_history, with the registry read it makes. *)
Contradicts(found, h, failed) ==
    \/ failed
    \/ Get(h.pointer) # None /\ ~RecordMatchesHistory(h.pointer, Get(h.pointer), h)
    \/ found # None /\ ~RecordMatchesHistory(found.pointer, found.row, h)

FromHistory(found, h) ==
    IF found # None THEN found
    ELSE IF Get(h.pointer) = None THEN None ELSE [pointer |-> h.pointer, row |-> Get(h.pointer)]

ConfirmedZombie(h, seen) ==
    /\ h.class \in {"dev", "qa"}
    /\ seen # None =>
          /\ seen.class = h.class /\ seen.digest = h.digest
          /\ seen.presence \in {"absent", "invalid"} /\ seen.operation = h.operation

WaitElapsed(h, wait) == clock - h.at >= wait

(* What _recover makes of one resource: the path it takes. *)
PathOf(j, record, seen, h) ==
    IF ~j.approved THEN "human"
    ELSE IF h # None /\ record = None
         THEN IF ConfirmedZombie(h, seen) /\ (j.delete => WaitElapsed(h, j.wait)) THEN "zombie" ELSE "human"
    ELSE IF seen # None /\ ~Eligible(seen) THEN "human"
    ELSE CASE record = None /\ seen = None -> "human"
           [] record = None /\ seen # None -> "adopt"
           [] record # None /\ seen = None -> "registry"
           [] OTHER -> "both"

Only(S) == CHOOSE x \in S : TRUE

NextKey(p) ==
    /\ At(p, "key")
    /\ \/ job[p].keys = {} /\ Return(p, "done")
       \/ \E failed \in (IF SqlFails THEN BOOLEAN ELSE {FALSE}) :
          /\ job[p].keys # {}
          /\ LET j == job[p]
                 key == First(j.keys)
                 owners == {i \in DOMAIN j.records : KeyOf(j.records[i]) = key}
                 seen == IF key[1] = "database" THEN j.observed[key[2]] ELSE {}
                 told == {k \in DOMAIN j.histories : key = <<"database", j.histories[k].name>>}
                 found == IF owners = {} THEN None
                          ELSE [pointer |-> Only(owners), row |-> j.records[Only(owners)]]
                 history == IF told = {} THEN None ELSE j.histories[Only(told)]
             IN IF \/ Cardinality(owners) > 1 \/ Cardinality(seen) > 1 \/ Cardinality(told) > 1
                   \/ history # None /\ Contradicts(found, history, failed)
                THEN Finish(p)
                ELSE LET record == IF history = None THEN found ELSE FromHistory(found, history)
                         look == IF seen = {} THEN None ELSE Only(seen)
                         path == PathOf(j, record, look, history)
                     IN IF path = "human" THEN Finish(p)
                        ELSE Goto(p, IF path = "zombie" THEN "quarantine" ELSE "revalidate",
                                  [j EXCEPT !.key = key[2], !.record = record, !.seen = look,
                                            !.history = history, !.path = path, !.tries = 0])
    /\ UNCHANGED <<rows, planeVars, lifecycleVars>>

-----------------------------------------------------------------------------
LineageMatches(record, o) ==
    LET receipt == record.row.receipt
    IN receipt # None /\ receipt.operation = o.operation /\ receipt.owned = record.row.resource.name

RegistryMatches(record) == record # None => Get(record.pointer) = record.row

(* Mutant: the evidence is not read again. *)
RevalidatedOnce(j, now) == RegistryMatches(j.record)

(* _revalidate: the registry still has the row, and the evidence of the    *)
(* one observation is unchanged, due and of the row's lineage.             *)
Revalidated(j, now) ==
    /\ RegistryMatches(j.record)
    /\ \E o \in now :
          /\ now = {o} /\ Eligible(o) /\ o.digest = j.seen.digest
          /\ IF j.record = None THEN o.operation = j.seen.operation ELSE LineageMatches(j.record, o)

Revalidate(p) ==
    /\ At(p, "revalidate")
    /\ LET j == job[p] IN
       \/ SqlFails /\ Return(p, "raised")
       \/ /\ j.path = "registry"
          /\ RegistryMatches(j.record)
          /\ Step(p, "reconcile")
       \/ /\ j.path # "registry"
          /\ j.path = "both" => LineageMatches(j.record, j.seen)
          /\ \E now \in Observations(j.key) : Revalidated(j, now)
          /\ Step(p, IF j.tries = 1 THEN "delete" ELSE "quarantine")
       \/ /\ \/ ~RegistryMatches(j.record)
             \/ j.path = "both" /\ ~LineageMatches(j.record, j.seen)
             \/ j.path # "registry" /\ \E now \in Observations(j.key) : ~Revalidated(j, now)
          /\ Finish(p)
    /\ UNCHANGED <<rows, planeVars, lifecycleVars>>

(* gateway.reconcile finds the containers of the operation by label. *)
Reconcile(p) ==
    /\ At(p, "reconcile")
    /\ LET row == job[p].record.row
           mine == {n \in Names : /\ live[n] # None /\ row.receipt # None
                                  /\ live[n].operation = row.receipt.operation}
           owned == \A n \in mine : Authority!Owns(live[n].operation, n, live[n].operation)
       IN \/ mine # {} /\ owned /\ Finish(p)
          \/ (mine = {} \/ ~owned \/ DockerFails) /\ Return(p, "raised")
    /\ UNCHANGED <<rows, planeVars, lifecycleVars>>

(* External: gateway.quarantine; the repository has no provider for it. *)
Quarantine(p) ==
    /\ At(p, "quarantine")
    /\ \/ /\ quarantined' = quarantined \cup {job[p].key}
          /\ late' = late \ {p}
          /\ IF job[p].path = "adopt" THEN Finish(p) ELSE Step(p, "journal")
       \/ DockerFails /\ Return(p, "raised") /\ UNCHANGED <<quarantined, late>>
    /\ UNCHANGED <<rows, planeVars, clock, activity, journal>>

QuarantineHistory(j) ==
    IF j.path = "zombie" THEN [j.history EXCEPT !.outcome = "quarantined"]
    ELSE [pointer |-> j.record.pointer, name |-> j.key, operation |-> j.record.row.receipt.operation,
          digest |-> j.seen.digest, class |-> j.seen.class, at |-> clock, outcome |-> "quarantined"]

JournalQuarantine(p) ==
    /\ At(p, "journal")
    /\ LET j == job[p]
           h == QuarantineHistory(j)
           last == ~j.delete \/ (j.path = "both" /\ j.wait > 0)
       IN /\ Journalled(h)
          /\ IF last THEN Finish(p)
             ELSE Goto(p, IF j.path = "zombie" THEN "revalidate_zombie" ELSE "revalidate",
                       [j EXCEPT !.history = h, !.tries = 1])
    /\ UNCHANGED <<rows, planeVars, clock, activity, quarantined, late>>

RevalidateZombie(p) ==
    /\ At(p, "revalidate_zombie")
    /\ LET j == job[p]
           sound(now) == /\ Get(j.history.pointer) = None
                         /\ Cardinality(now) <= 1
                         /\ ConfirmedZombie(j.history, IF now = {} THEN None ELSE Only(now))
       IN \/ SqlFails /\ Return(p, "raised")
          \/ \E now \in Observations(j.key) : IF sound(now) THEN Step(p, "delete") ELSE Finish(p)
    /\ UNCHANGED <<rows, planeVars, lifecycleVars>>

(* provider.delete and provider.cleanup: _remove_owned.  An absent         *)
(* container is a success; one of another operation is refused.            *)
RemoveOwned(n, o) ==
    /\ live' = IF live[n] # None THEN [live EXCEPT ![n] = None] ELSE live
    /\ custody' = IF custody[o][n].state = "active"
                  THEN [custody EXCEPT ![o][n].state = "retired"] ELSE custody

Removable(n, o) ==
    live[n] # None => live[n].operation = o /\ Authority!Owns(o, n, o)

Delete(p) ==
    /\ At(p, "delete")
    /\ LET n == job[p].key
           o == job[p].history.operation
       IN \/ Removable(n, o) /\ RemoveOwned(n, o) /\ Step(p, "journal_delete")
          \/ (~Removable(n, o) \/ DockerFails) /\ Return(p, "raised") /\ UNCHANGED dockerVars
    /\ UNCHANGED <<rows, environmentVars, health, lifecycleVars>>

JournalDelete(p) ==
    /\ At(p, "journal_delete")
    /\ Journalled([job[p].history EXCEPT !.outcome = "deleted"])
    /\ Step(p, "cleanup")
    /\ UNCHANGED <<rows, planeVars, clock, activity, quarantined, late>>

(* _cleanup: a removal again, tried at most three times. *)
Cleanup(p) ==
    /\ At(p, "cleanup")
    /\ LET n == job[p].key
           o == job[p].history.operation
       IN \/ Removable(n, o) /\ RemoveOwned(n, o) /\ Finish(p)
          \/ /\ ~Removable(n, o) \/ DockerFails
             /\ UNCHANGED dockerVars
             /\ IF job[p].tries < 3 THEN Goto(p, "cleanup", [job[p] EXCEPT !.tries = @ + 1]) ELSE Finish(p)
    /\ UNCHANGED <<rows, environmentVars, health, lifecycleVars>>

Lifecycle(p) ==
    \/ ListRecords(p) \/ Observe(p) \/ ReadJournal(p) \/ NextKey(p) \/ Revalidate(p) \/ Reconcile(p)
    \/ Quarantine(p) \/ JournalQuarantine(p) \/ RevalidateZombie(p) \/ Delete(p) \/ JournalDelete(p)
    \/ Cleanup(p)

-----------------------------------------------------------------------------
Tick ==
    /\ "lifecycle" \in world /\ clock < MaxTime /\ clock' = clock + 1
    /\ UNCHANGED <<setting, callVars, rows, planeVars, activity, journal, quarantined, late>>

(* External: the database of an operation is used, and its record says so. *)
Use(n) ==
    /\ "lifecycle" \in world /\ Change /\ live[n] # None /\ ~live[n].dead /\ activity[live[n].operation] < clock
    /\ activity' = [activity EXCEPT ![live[n].operation] = clock]
    /\ late' = late \cup {p \in Procs : At(p, "delete") /\ job[p].key = n}
    /\ UNCHANGED <<rows, planeVars, clock, journal, quarantined>>

(* A process dies; in the middle of an append, with part of the line out. *)
Dies(p) ==
    /\ "crash" \in world /\ ~At(p, "idle") /\ Return(p, None)
    /\ \/ UNCHANGED journal
       \/ /\ job[p].cmd = "lifecycle" /\ pc[p] \notin {"list", "observe"}
          /\ journal' = [journal EXCEPT !.torn = TRUE]
    /\ UNCHANGED <<rows, planeVars, clock, activity, quarantined, late>>

-----------------------------------------------------------------------------
(* A run removes a container only after it quarantined it and the journal  *)
(* has the history that says so, in a line that can be read unless another *)
(* run died meanwhile; the container belongs to the operation of that      *)
(* history, is no production database, and is due, unless it was used      *)
(* after the last look (service.py 113-245, 310-327, lifecycle.py 199-245).*)
DeletesAccounted ==
    [][\A p \in Procs, n \in Names :
          live[n] # None /\ live'[n] = None /\ pc[p] \in {"delete", "cleanup"} /\ pc'[p] # pc[p] =>
             LET o == live[n].operation IN
             /\ n \in quarantined
             /\ ClassOf(o) # "prod"
             /\ journal.torn => "concurrent" \in world
             /\ \E k \in DOMAIN journal.histories :
                   LET h == journal.histories[k]
                   IN h.name = n /\ h.operation = o /\ (h.digest = activity[o] \/ p \in late)
             /\ clock - activity[o] >= 1 \/ p \in late]_<<live, pc, journal>>
=============================================================================
