------------------------- MODULE OwnershipAuthority -------------------------
(***************************************************************************)
(* LocalOwnershipAuthority (odoo_forge_postgres_docker/authority.py): an    *)
(* append-only, signed log of container claims in one JSON file, shared by *)
(* the processes of a host through flock on a second file.                 *)
(*                                                                         *)
(* A call is split where another process, or a crash, can come between:    *)
(*   Begin     the arguments; `initializing = not lock_path.exists()` is   *)
(*             read here, BEFORE the lock is taken                         *)
(*   OpenLock  _open_private_file(create=True) makes the lock file exist   *)
(*   Enter     flock granted, state read, the call decides what to append  *)
(*   Append    one record added in memory, the file atomically replaced    *)
(*   Leave     flock released                                              *)
(* Fail stands for a crash or an OSError at any of these points; the       *)
(* kernel releases the lock.  Signatures are unforgeable (external), so a  *)
(* signed value is one the module itself has put in `disk` or `issued`.    *)
(* `write` appends an unchecked record and has no caller under src/: it is *)
(* not an action.                                                          *)
(***************************************************************************)
EXTENDS Naturals, Sequences

CONSTANTS
    Procs,          \* processes (or threads) sharing the authority's directory
    Operations, Names, DockerIds, NoId,
    Keys, NoKey,    \* signing key ids
    Nonces,         \* nonces of issued evidence
    MaxRecords      \* bound: no call begins once the log holds this many records

ASSUME NoIdAssumption == NoId \notin DockerIds

ASSUME NoKeyAssumption == NoKey \notin Keys

VARIABLES
    lockExists,     \* authority.lock is on disk
    disk,           \* the content of authority.json, NoState when there is none
    pc, call,       \* per process: position in the running call, its arguments
    initializing,   \* per process: the flag read before the lock
    mem,            \* per process: the state dictionary read under the lock
    todo,           \* per process: claims the call still has to append
    minted,         \* operation tokens some caller has used
    issued,         \* evidence handed out, with its signature
    accepted        \* per nonce: how often verify_evidence returned True

vars == <<lockExists, disk, pc, call, initializing, mem, todo, minted, issued, accepted>>

-----------------------------------------------------------------------------
(* The log.                                                                *)
Record == [operation : Operations, name : Names, docker_id : DockerIds \cup {NoId},
           state : {"reserved", "active", "retired"}, generation : Nat, key_id : Keys]

Evidence == [key_id : Keys, operation : Operations, docker_id : DockerIds, nonce : Nonces]

State == [generation : Nat, records : Seq(Record), keys : SUBSET Keys,
          active_key : Keys \cup {NoKey}, used_nonces : SUBSET Nonces]

NoState == [generation |-> 0, records |-> << >>, keys |-> {},
            active_key |-> NoKey, used_nonces |-> {}]

(* The state _read_or_initial_state makes up, with _add_key's fresh key. *)
InitialState(k) == [generation |-> 0, records |-> << >>, keys |-> {k},
                    active_key |-> k, used_nonces |-> {}]

Claim(s, d) == [state |-> s, docker_id |-> d]

Unclaimed == Claim("none", NoId)

MadeClaims == [state : {"reserved", "active", "retired"}, docker_id : DockerIds \cup {NoId}]

Indices(s, o, n) ==
    {i \in 1..Len(s.records) : s.records[i].operation = o /\ s.records[i].name = n}

IsLast(I, i) == \A j \in I : j <= i

(* _latest, as the claim the newest matching record makes. *)
Latest(s, o, n) ==
    LET I == Indices(s, o, n) IN
    IF I = {} THEN Unclaimed
    ELSE LET r == s.records[CHOOSE i \in I : IsLast(I, i)]
         IN  Claim(r.state, r.docker_id)

(* Mutant: only active claims of other operations count. *)
HeldActiveByOther(s, o, n) ==
    \E other \in Operations \ {o} : Latest(s, other, n).state = "active"

(* _held_by_other_operation. *)
HeldByOther(s, o, n) ==
    \E other \in Operations \ {o} : Latest(s, other, n).state \in {"reserved", "active"}

(* Mutant: the record is stored before a key has signed it. *)
AppendedUnsigned(s, o, n, claim) ==
    [s EXCEPT !.generation = @ + 1,
              !.records = Append(@, [operation |-> o, name |-> n,
                                     docker_id |-> claim.docker_id, state |-> claim.state,
                                     generation |-> s.generation + 1, key_id |-> NoKey])]

(* _append: the next generation, signed with the active key. *)
Appended(s, o, n, claim) ==
    [s EXCEPT !.generation = @ + 1,
              !.records = Append(@, [operation |-> o, name |-> n,
                                     docker_id |-> claim.docker_id, state |-> claim.state,
                                     generation |-> s.generation + 1,
                                     key_id |-> s.active_key])]

(* issue_evidence and verify_evidence look for an active record anywhere in *)
(* the log, not for the latest one.                                         *)
EverActive(s, o, d) ==
    \E i \in 1..Len(s.records) : /\ s.records[i].operation = o
                                 /\ s.records[i].docker_id = d
                                 /\ s.records[i].state = "active"

(* What _validate_state demands of a file before any reader may use it. *)
ValidState(s) ==
    /\ s.active_key \in s.keys
    /\ \A i \in 1..Len(s.records) :
          /\ s.records[i].key_id \in s.keys
          /\ s.records[i].generation > (IF i = 1 THEN 0 ELSE s.records[i-1].generation)
          /\ s.records[i].state = "reserved" \/ s.records[i].docker_id # NoId
    /\ s.generation = IF s.records = << >> THEN 0 ELSE s.records[Len(s.records)].generation

-----------------------------------------------------------------------------
(* The calls.                                                              *)
ClaimKinds == {"reserve", "bind", "activate", "retire", "retire_absent", "converge"}

ClaimCalls == [kind : ClaimKinds, operation : Operations, name : Names,
               docker_id : DockerIds \cup {NoId}]

IssueCalls == [kind : {"issue_evidence"}, operation : Operations, docker_id : DockerIds,
               nonce : Nonces]

VerifyCalls == [kind : {"verify_evidence"}, evidence : Evidence]

RotateCall == [kind |-> "rotate_keys"]

NoCall == [kind |-> "none"]

Calls == ClaimCalls \cup IssueCalls \cup VerifyCalls \cup {RotateCall}

(* Mutant: _transition does not compare the docker id. *)
AdmitsAnyId(s, c) ==
    LET now == Latest(s, c.operation, c.name)
    IN  CASE c.kind \in {"bind", "activate"} -> now.state = "reserved"
          [] c.kind \in {"retire", "retire_absent"} -> now.state = "active"
          [] OTHER -> TRUE

(* The guard of a claim call on the state it reads under the lock. *)
Admits(s, c) ==
    LET now == Latest(s, c.operation, c.name)
        same == now.docker_id \in {NoId, c.docker_id}
    IN  CASE c.kind = "reserve" -> TRUE
          [] c.kind \in {"bind", "activate"} -> now.state = "reserved" /\ same
          [] c.kind = "retire" -> now.state = "active" /\ same
          [] c.kind = "retire_absent" ->
                /\ now.state \in {"active", "retired"}
                /\ c.docker_id \in {NoId, now.docker_id}
          [] c.kind = "converge" ->
                /\ ~HeldByOther(s, c.operation, c.name)
                /\ now.state # "retired"
                /\ same

(* The claims an admitted call appends, one atomic write each. *)
Transitions(s, c) ==
    LET now == Latest(s, c.operation, c.name)
        d   == c.docker_id
    IN  CASE c.kind = "reserve"  -> << Claim("reserved", NoId) >>
          [] c.kind = "bind"     -> << Claim("reserved", d) >>
          [] c.kind = "activate" -> << Claim("active", d) >>
          [] c.kind = "retire"   -> << Claim("retired", d) >>
          [] c.kind = "retire_absent" ->
                IF now.state = "retired" THEN << >> ELSE << Claim("retired", now.docker_id) >>
          [] c.kind = "converge" ->
                CASE now = Unclaimed -> << Claim("reserved", NoId), Claim("reserved", d),
                                           Claim("active", d) >>
                  [] now = Claim("reserved", NoId) -> << Claim("reserved", d), Claim("active", d) >>
                  [] now = Claim("reserved", d) -> << Claim("active", d) >>
                  [] OTHER -> << >>

Init ==
    /\ lockExists = FALSE
    /\ disk = NoState
    /\ pc = [p \in Procs |-> "idle"]
    /\ call = [p \in Procs |-> NoCall]
    /\ initializing = [p \in Procs |-> FALSE]
    /\ mem = [p \in Procs |-> NoState]
    /\ todo = [p \in Procs |-> << >>]
    /\ minted = {} /\ issued = {}
    /\ accepted = [x \in Nonces |-> 0]

-----------------------------------------------------------------------------
(* The steps of a call by process p.                                       *)
Quit(p) ==
    /\ pc' = [pc EXCEPT ![p] = "idle"]
    /\ call' = [call EXCEPT ![p] = NoCall]
    /\ initializing' = [initializing EXCEPT ![p] = FALSE]
    /\ mem' = [mem EXCEPT ![p] = NoState]
    /\ todo' = [todo EXCEPT ![p] = << >>]

(* Mutant: a shared instead of an exclusive flock. *)
LockShared == TRUE

LockFree == \A p \in Procs : pc[p] # "locked"

(* Callers use an operation only after the process that minted its random  *)
(* token has reserved it: docker run, and so every id, comes after reserve. *)
Reserving(o) == \E p \in Procs : call[p].kind = "reserve" /\ call[p].operation = o

(* The bound on the log: claim calls begin only below it. *)
Room == Len(disk.records) < MaxRecords

Begin(p, c) ==
    /\ pc[p] = "idle"
    /\ pc' = [pc EXCEPT ![p] = "begun"]
    /\ call' = [call EXCEPT ![p] = c]
    /\ initializing' =
          [initializing EXCEPT ![p] = c.kind \in {"reserve", "converge"} /\ ~lockExists]
    /\ UNCHANGED <<lockExists, disk, mem, todo, issued, accepted>>

Reserve(p, o, n) ==
    /\ Room /\ o \notin minted
    /\ Begin(p, [kind |-> "reserve", operation |-> o, name |-> n, docker_id |-> NoId])
    /\ minted' = minted \cup {o}

Converge(p, o, n, d) ==
    /\ Room /\ ~Reserving(o)
    /\ Begin(p, [kind |-> "converge", operation |-> o, name |-> n, docker_id |-> d])
    /\ minted' = minted \cup {o}

Transition(p, k, o, n, d) ==
    /\ k \in {"bind", "activate", "retire"}
    /\ Room /\ o \in minted /\ ~Reserving(o)
    /\ Begin(p, [kind |-> k, operation |-> o, name |-> n, docker_id |-> d])
    /\ UNCHANGED minted

(* docker_id=None is NoId. *)
RetireAbsent(p, o, n, d) ==
    /\ Room /\ o \in minted /\ ~Reserving(o)
    /\ Begin(p, [kind |-> "retire_absent", operation |-> o, name |-> n, docker_id |-> d])
    /\ UNCHANGED minted

RotateKeys(p) == Begin(p, RotateCall) /\ UNCHANGED minted

IssueEvidence(p, o, d, x) ==
    /\ Begin(p, [kind |-> "issue_evidence", operation |-> o, docker_id |-> d, nonce |-> x])
    /\ UNCHANGED minted

(* Evidence that is expired or was not signed here is turned down before    *)
(* the lock or by _verify, and changes nothing.                             *)
VerifyEvidence(p, e) ==
    /\ e \in issued
    /\ Begin(p, [kind |-> "verify_evidence", evidence |-> e])
    /\ UNCHANGED minted

OpenLock(p) ==
    /\ pc[p] = "begun"
    /\ lockExists' = TRUE
    /\ pc' = [pc EXCEPT ![p] = "opened"]
    /\ UNCHANGED <<disk, call, initializing, mem, todo, minted, issued, accepted>>

(* Mutant: the flag is believed before the file is looked at. *)
ReadableFlagFirst(p) ==
    IF initializing[p] THEN {InitialState(k) : k \in Keys}
    ELSE IF disk # NoState THEN {disk} ELSE {}

(* _read_or_initial_state: an existing file always wins over the flag. *)
Readable(p) ==
    IF disk # NoState THEN {disk}
    ELSE IF initializing[p] THEN {InitialState(k) : k \in Keys} ELSE {}

(* What a call does once it has read s under the lock. *)
Proceeds(s, c) ==
    /\ c.kind \in ClaimKinds => Admits(s, c)
    /\ c.kind = "issue_evidence" => EverActive(s, c.operation, c.docker_id)
    /\ c.kind = "verify_evidence" =>
          /\ c.evidence.key_id \in s.keys
          /\ c.evidence.nonce \notin s.used_nonces
          /\ EverActive(s, c.evidence.operation, c.evidence.docker_id)
    /\ c.kind = "rotate_keys" => Keys \ s.keys # {}    \* Keys bounds the rotations

Enter(p) ==
    /\ pc[p] = "opened" /\ LockFree
    /\ \E s \in Readable(p) :
          /\ Proceeds(s, call[p])
          /\ mem' = [mem EXCEPT ![p] = s]
          /\ todo' = [todo EXCEPT ![p] =
                         IF call[p].kind \in ClaimKinds THEN Transitions(s, call[p]) ELSE << >>]
    /\ pc' = [pc EXCEPT ![p] = "locked"]
    /\ UNCHANGED <<lockExists, disk, call, initializing, minted, issued, accepted>>

(* AuthorityStateError, CustodyTransitionConflictError, or False. *)
Refuse(p) ==
    /\ pc[p] = "opened" /\ LockFree
    /\ \A s \in Readable(p) : ~Proceeds(s, call[p])
    /\ Quit(p)
    /\ UNCHANGED <<lockExists, disk, minted, issued, accepted>>

(* _write_atomic: os.replace is the commit point. *)
WriteAtomic(s) == disk' = s

AppendRecord(p) ==
    /\ pc[p] = "locked" /\ todo[p] # << >>
    /\ LET s == Appended(mem[p], call[p].operation, call[p].name, Head(todo[p]))
       IN  mem' = [mem EXCEPT ![p] = s] /\ WriteAtomic(s)
    /\ todo' = [todo EXCEPT ![p] = Tail(@)]
    /\ UNCHANGED <<lockExists, pc, call, initializing, minted, issued, accepted>>

(* Mutant: the early return of retire_absent keeps the lock. *)
LeaveAfterWrite(p) ==
    /\ pc[p] = "locked" /\ call[p].kind \in ClaimKinds /\ todo[p] = << >>
    /\ call[p].kind = "retire_absent" => Latest(disk, call[p].operation, call[p].name).state = "active"
    /\ Quit(p)
    /\ UNCHANGED <<lockExists, disk, minted, issued, accepted>>

Leave(p) ==
    /\ pc[p] = "locked" /\ call[p].kind \in ClaimKinds /\ todo[p] = << >>
    /\ Quit(p)
    /\ UNCHANGED <<lockExists, disk, minted, issued, accepted>>

(* Mutant: the new key replaces the old verifiers. *)
AddKeyReplacing(p) ==
    /\ pc[p] = "locked" /\ call[p].kind = "rotate_keys"
    /\ \E k \in Keys \ mem[p].keys :
          WriteAtomic([mem[p] EXCEPT !.keys = {k}, !.active_key = k])
    /\ Quit(p)
    /\ UNCHANGED <<lockExists, minted, issued, accepted>>

AddKey(p) ==
    /\ pc[p] = "locked" /\ call[p].kind = "rotate_keys"
    /\ \E k \in Keys \ mem[p].keys :
          WriteAtomic([mem[p] EXCEPT !.keys = @ \cup {k}, !.active_key = k])
    /\ Quit(p)
    /\ UNCHANGED <<lockExists, minted, issued, accepted>>

HandOut(p) ==
    /\ pc[p] = "locked" /\ call[p].kind = "issue_evidence"
    /\ issued' = issued \cup {[key_id |-> mem[p].active_key, operation |-> call[p].operation,
                               docker_id |-> call[p].docker_id, nonce |-> call[p].nonce]}
    /\ Quit(p)
    /\ UNCHANGED <<lockExists, disk, minted, accepted>>

Consume(p) ==
    /\ pc[p] = "locked" /\ call[p].kind = "verify_evidence"
    /\ LET x == call[p].evidence.nonce
       IN  /\ WriteAtomic([mem[p] EXCEPT !.used_nonces = @ \cup {x}])
           /\ accepted' = [accepted EXCEPT ![x] = @ + 1]
    /\ Quit(p)
    /\ UNCHANGED <<lockExists, minted, issued>>

(* A crash, or an OSError turned into AuthorityStateError. *)
Fail(p) ==
    /\ pc[p] # "idle"
    /\ Quit(p)
    /\ UNCHANGED <<lockExists, disk, minted, issued, accepted>>

Request(p) ==
    \/ \E o \in Operations, n \in Names :
          \/ Reserve(p, o, n)
          \/ \E d \in DockerIds :
                \/ Converge(p, o, n, d)
                \/ \E k \in {"bind", "activate", "retire"} : Transition(p, k, o, n, d)
          \/ \E d \in DockerIds \cup {NoId} : RetireAbsent(p, o, n, d)
    \/ RotateKeys(p)
    \/ \E o \in Operations, d \in DockerIds, x \in Nonces : IssueEvidence(p, o, d, x)
    \/ \E e \in issued : VerifyEvidence(p, e)

Work(p) ==
    \/ OpenLock(p) \/ Enter(p) \/ Refuse(p)
    \/ AppendRecord(p) \/ Leave(p) \/ AddKey(p) \/ HandOut(p) \/ Consume(p)

Next == \E p \in Procs : Request(p) \/ Work(p) \/ Fail(p)

Spec == Init /\ [][Next]_vars

(* A process in a call keeps running until it returns or dies.  Nothing is *)
(* assumed of the order in which flock is granted.                         *)
FairSpec == Spec /\ \A p \in Procs : WF_vars(Work(p))

-----------------------------------------------------------------------------
(* Types of the variables: records are signed with a key the file knows of, *)
(* calls are well formed.                                                   *)
TypeOK ==
    /\ lockExists \in BOOLEAN
    /\ disk \in State
    /\ pc \in [Procs -> {"idle", "begun", "opened", "locked"}]
    /\ call \in [Procs -> Calls \cup {NoCall}]
    /\ initializing \in [Procs -> BOOLEAN]
    /\ mem \in [Procs -> State]
    /\ todo \in [Procs -> Seq(MadeClaims)]
    /\ minted \subseteq Operations
    /\ issued \subseteq Evidence
    /\ accepted \in [Nonces -> Nat]

(* No crash, lost race for the lock or late initialisation ever drops or   *)
(* rewrites a record: the file only grows, although `initializing` is read *)
(* before the lock is held (reserve, converge).                            *)
LogPreserved ==
    [][/\ Len(disk.records) <= Len(disk'.records)
       /\ \A i \in 1..Len(disk.records) : disk'.records[i] = disk.records[i]]_vars

(* Whatever was written last, recover and every later read accept it:      *)
(* generations ascend to the stored one and every signing key is kept      *)
(* through rotate_keys.                                                     *)
DiskValid == disk # NoState => ValidState(disk)

(* Evidence is single-use: concurrent verify_evidence calls, and failures  *)
(* between check and write, never return True twice for one nonce.         *)
EvidenceOnce == \A x \in Nonces : accepted[x] <= 1

(* converge never takes, or finishes taking, a name that another operation *)
(* holds reserved or active, also when it resumes after a crash.           *)
ConvergeExclusive ==
    [][\A p \in Procs :
          (call[p].kind = "converge" /\ mem'[p] # mem[p] /\ disk' # disk) =>
              \A other \in Operations \ {call[p].operation} :
                  Latest(disk, other, call[p].name).state \notin {"reserved", "active"}]_vars

(* The lock never stays taken: every path of every call, early returns and *)
(* refusals included, gives flock back, so waiting processes are not stuck *)
(* behind one that has finished.                                           *)
LockReleased == []<>LockFree

(* The claims a reader of the file sees. *)
CustodyOf(s) == [o \in Operations |-> [n \in Names |-> Latest(s, o, n)]]

Abstract == INSTANCE Custody WITH custody <- CustodyOf(disk)

(* The files, the lock and the processes implement the Custody contract:   *)
(* every write is one legal move of one claim, nothing else moves a claim. *)
ImplementsCustody == Abstract!Spec

(* Comment of retire: "Record successful removal so historical active      *)
(* authority cannot be reused."  Evidence is handed out only for a         *)
(* container whose latest record is active.                                *)
EvidenceOnlyForHeld ==
    [][\A e \in issued' \ issued :
          \E n \in Names : Latest(disk, e.operation, n) = Claim("active", e.docker_id)]_vars

-----------------------------------------------------------------------------
(* The inductive invariant behind these properties (OwnershipAuthorityProofs). *)
IsClaimCall(p) == call[p].kind \in ClaimKinds

Mutex == \A p, q \in Procs : pc[p] = "locked" /\ pc[q] = "locked" => p = q

Shape ==
    \A p \in Procs :
        /\ pc[p] = "idle" => call[p] = NoCall
        /\ pc[p] # "idle" => call[p] # NoCall
        /\ pc[p] # "locked" => todo[p] = << >>
        /\ ~IsClaimCall(p) => todo[p] = << >>
        /\ IsClaimCall(p) /\ call[p].kind \notin {"reserve", "retire_absent"} =>
              call[p].docker_id # NoId

(* A holder's dictionary is the file, or the initial state of an absent one. *)
MemCurrent ==
    \A p \in Procs : pc[p] = "locked" =>
        \/ disk # NoState /\ mem[p] = disk
        \/ disk = NoState /\ \E k \in Keys : mem[p] = InitialState(k)

Numbered(s) ==
    /\ s.active_key \in s.keys
    /\ s.generation = Len(s.records)
    /\ \A i \in 1..Len(s.records) :
          /\ s.records[i].generation = i
          /\ s.records[i].key_id \in s.keys
          /\ s.records[i].state = "reserved" \/ s.records[i].docker_id # NoId

DiskNumbered == disk # NoState => Numbered(disk)

LegalMove(now, next) ==
    \/ now = Unclaimed /\ next = Claim("reserved", NoId)
    \/ \E d \in DockerIds :
          /\ now.docker_id \in {NoId, d}
          /\ \/ now.state = "reserved" /\ next \in {Claim("reserved", d), Claim("active", d)}
             \/ now.state = "active" /\ next = Claim("retired", d)

PlansLegal ==
    \A p \in Procs : pc[p] = "locked" /\ IsClaimCall(p) =>
        \A i \in 1..Len(todo[p]) :
            LegalMove(IF i = 1 THEN Latest(mem[p], call[p].operation, call[p].name)
                      ELSE todo[p][i-1], todo[p][i])

ConvergersAlone ==
    \A p \in Procs : pc[p] = "locked" /\ call[p].kind = "converge" =>
        \A other \in Operations \ {call[p].operation} :
            Latest(mem[p], other, call[p].name).state \notin {"reserved", "active"}

(* A token is on the log or in a claim call only once it was minted; while *)
(* its reserve has not appended, it is in that call alone.                 *)
TokensMinted ==
    /\ \A i \in 1..Len(disk.records) : disk.records[i].operation \in minted
    /\ \A p \in Procs : IsClaimCall(p) => call[p].operation \in minted

ReserveFirst ==
    \A p \in Procs : call[p].kind = "reserve" =>
        /\ Len(todo[p]) <= 1
        /\ \A q \in Procs : IsClaimCall(q) /\ call[q].operation = call[p].operation => q = p
        /\ (pc[p] # "locked" \/ todo[p] # << >>) =>
              \A i \in 1..Len(disk.records) : disk.records[i].operation # call[p].operation

NoncesCounted ==
    /\ \A x \in Nonces : accepted[x] <= 1 /\ (x \notin disk.used_nonces => accepted[x] = 0)
    /\ \A p \in Procs : pc[p] = "locked" /\ call[p].kind = "verify_evidence" =>
          call[p].evidence.nonce \notin mem[p].used_nonces

IInv ==
    /\ TypeOK /\ Mutex /\ Shape /\ MemCurrent /\ DiskNumbered /\ PlansLegal
    /\ ConvergersAlone /\ TokensMinted /\ ReserveFirst /\ NoncesCounted
=============================================================================
