---------------------- MODULE OwnershipAuthorityProofs ----------------------
(* Proofs that the ownership log of authority.py is typed, only grows, stays *)
(* readable and implements Custody, for any processes, operations and names. *)
EXTENDS OwnershipAuthority, WellFoundedInduction, TLAPS

-----------------------------------------------------------------------------
(* Facts about the log.                                                     *)

(* A non-empty set of positions of a sequence has a greatest element. *)
LEMMA GreatestExists ==
  ASSUME NEW k \in Nat, NEW S \in SUBSET (1..k), S # {}
  PROVE  \E i \in S : IsLast(S, i)
<1> DEFINE T == {m \in Nat : \E i \in S : m = k - i}
<1>1. T \subseteq Nat /\ T # {}
  <2>1. PICK i \in S : TRUE
    OBVIOUS
  <2>2. k - i \in Nat
    BY <2>1
  <2> QED
    BY <2>1, <2>2
<1>2. PICK m \in T : \A y \in T : ~(<<y, m>> \in OpToRel(<, Nat))
  BY <1>1, NatLessThanWellFounded, WFMin, Zenon
<1>3. \A y \in T : ~(y < m)
  BY <1>2 DEF OpToRel
<1>4. PICK i \in S : m = k - i
  OBVIOUS
<1>5. ASSUME NEW j \in S PROVE j <= i
  <2>1. k - j \in T
    BY <1>5
  <2> QED
    BY <1>3, <1>4, <2>1
<1> QED
  BY <1>5 DEF IsLast

(* A position past all others is the last one. *)
LEMMA LastIsNew ==
  ASSUME NEW k \in Nat, NEW S \in SUBSET (1..k), NEW T, T = S \cup {k + 1}
  PROVE  (CHOOSE i \in T : IsLast(T, i)) = k + 1
<1>1. IsLast(T, k + 1)
  BY DEF IsLast
<1>2. ASSUME NEW i \in T, IsLast(T, i) PROVE i = k + 1
  BY <1>2 DEF IsLast
<1> QED
  BY <1>1, <1>2

(* Latest is the claim of a matching record no other matching one follows. *)
LEMMA LatestIsRecord ==
  ASSUME NEW s \in State, NEW o, NEW n, Indices(s, o, n) # {}
  PROVE  \E i \in Indices(s, o, n) :
            /\ IsLast(Indices(s, o, n), i)
            /\ Latest(s, o, n) = Claim(s.records[i].state, s.records[i].docker_id)
<1> DEFINE I == Indices(s, o, n)
<1>1. Len(s.records) \in Nat /\ I \in SUBSET (1..Len(s.records))
  BY DEF Indices, State
<1>2. \E i \in I : IsLast(I, i)
  BY <1>1, GreatestExists
<1>3. (CHOOSE i \in I : IsLast(I, i)) \in I /\ IsLast(I, CHOOSE i \in I : IsLast(I, i))
  BY <1>2
<1> QED
  BY <1>3 DEF Latest

(* Appending a record changes the latest claim of its own key, no other's. *)
LEMMA LatestAppended ==
  ASSUME NEW s \in State, NEW o \in Operations, NEW n \in Names, NEW c,
         NEW o2, NEW n2
  PROVE  Latest(Appended(s, o, n, c), o2, n2) =
            IF o2 = o /\ n2 = n THEN Claim(c.state, c.docker_id) ELSE Latest(s, o2, n2)
<1> DEFINE r == [operation |-> o, name |-> n, docker_id |-> c.docker_id, state |-> c.state,
                 generation |-> s.generation + 1, key_id |-> s.active_key]
           t == Appended(s, o, n, c)
           L == Len(s.records)
           I == Indices(s, o2, n2)
           J == Indices(t, o2, n2)
<1>1. t.records = Append(s.records, r)
  BY DEF Appended, State
<1>2. L \in Nat /\ s.records \in Seq(Record)
  BY DEF State
<1>3. /\ Len(t.records) = L + 1
      /\ t.records[L + 1] = r
      /\ \A i \in 1..L : t.records[i] = s.records[i]
  <2> HIDE DEF r
  <2> QED
    BY <1>1, <1>2
<1> HIDE DEF t
<1>4. CASE o2 = o /\ n2 = n
  <2>1. J = I \cup {L + 1}
    BY <1>2, <1>3, <1>4 DEF Indices
  <2>2. I \subseteq 1..L
    BY DEF Indices
  <2>3. (CHOOSE i \in J : IsLast(J, i)) = L + 1
    BY <1>2, <2>1, <2>2, LastIsNew
  <2>4. Latest(t, o2, n2) = Claim(r.state, r.docker_id)
    BY <1>3, <2>1, <2>3 DEF Latest
  <2> QED
    BY <1>4, <2>4 DEF t
<1>5. CASE ~(o2 = o /\ n2 = n)
  <2>1. J = I
    BY <1>2, <1>3, <1>5 DEF Indices
  <2>2. CASE I = {}
    BY <1>5, <2>1, <2>2 DEF Latest, t
  <2>3. CASE I # {}
    <3>1. I \in SUBSET (1..L)
      BY DEF Indices
    <3>2. (CHOOSE i \in I : IsLast(I, i)) \in 1..L
      BY <1>2, <2>3, <3>1, GreatestExists
    <3> QED
      BY <1>3, <1>5, <2>1, <2>3, <3>2 DEF Latest, t
  <2> QED
    BY <2>2, <2>3
<1> QED
  BY <1>4, <1>5

(* The latest claim is well formed, and bound unless it is only reserved. *)
LEMMA LatestTyped ==
  ASSUME NEW s \in State, Numbered(s), NEW o, NEW n
  PROVE  \/ Latest(s, o, n) = Unclaimed
         \/ /\ Latest(s, o, n) \in MadeClaims
            /\ Latest(s, o, n).state = "reserved" \/ Latest(s, o, n).docker_id \in DockerIds
<1>1. CASE Indices(s, o, n) = {}
  BY <1>1 DEF Latest
<1>2. CASE Indices(s, o, n) # {}
  <2>1. PICK i \in Indices(s, o, n) :
           Latest(s, o, n) = Claim(s.records[i].state, s.records[i].docker_id)
    BY <1>2, LatestIsRecord
  <2>2. i \in 1..Len(s.records)
    BY DEF Indices
  <2>3. s.records[i] \in Record
    BY <2>2 DEF State
  <2>4. s.records[i].state = "reserved" \/ s.records[i].docker_id # NoId
    BY <2>2 DEF Numbered
  <2> QED
    BY <2>1, <2>3, <2>4 DEF Claim, MadeClaims, Record
<1> QED
  BY <1>1, <1>2

(* One _append: typed, numbered on, and the old records still in place. *)
LEMMA AppendedSound ==
  ASSUME NEW s \in State, Numbered(s), NEW o \in Operations, NEW n \in Names,
         NEW c \in MadeClaims, c.state = "reserved" \/ c.docker_id # NoId
  PROVE  LET t == Appended(s, o, n, c) IN
         /\ t \in State /\ Numbered(t) /\ t # NoState
         /\ Len(t.records) = Len(s.records) + 1
         /\ \A i \in 1..Len(s.records) : t.records[i] = s.records[i]
         /\ t.records[Len(t.records)].operation = o
         /\ t.used_nonces = s.used_nonces
<1> DEFINE r == [operation |-> o, name |-> n, docker_id |-> c.docker_id, state |-> c.state,
                 generation |-> s.generation + 1, key_id |-> s.active_key]
           t == Appended(s, o, n, c)
           L == Len(s.records)
<1>1. t = [s EXCEPT !.generation = s.generation + 1, !.records = Append(s.records, r)]
  BY DEF Appended
<1>2. r \in Record
  BY DEF Record, State, Numbered, MadeClaims
<1>3. /\ r.operation = o /\ r.generation = s.generation + 1 /\ r.key_id = s.active_key
      /\ r.state = "reserved" \/ r.docker_id # NoId
  OBVIOUS
<1> HIDE DEF r
<1>4. L \in Nat /\ s.records \in Seq(Record) /\ s.generation = L
  BY DEF State, Numbered
<1>5. t \in State
  <2>1. Append(s.records, r) \in Seq(Record) /\ s.generation + 1 \in Nat
    BY <1>2, <1>4
  <2> QED
    BY <1>1, <2>1 DEF State
<1>6. /\ Len(t.records) = L + 1 /\ t.records[L + 1] = r
      /\ \A i \in 1..L : t.records[i] = s.records[i]
      /\ t.keys = s.keys /\ t.active_key = s.active_key /\ t.generation = L + 1
      /\ t.used_nonces = s.used_nonces
  BY <1>1, <1>2, <1>4 DEF State
<1>7. t # NoState
  BY <1>4, <1>6 DEF NoState
<1> HIDE DEF t
<1>8. Numbered(t)
  BY <1>3, <1>4, <1>6 DEF Numbered
<1> QED
  BY <1>3, <1>5, <1>6, <1>7, <1>8 DEF t

(* What an admitted call plans to append is a chain of legal moves. *)
LEMMA TransitionsLegal ==
  ASSUME NEW s \in State, Numbered(s), NEW c \in ClaimCalls, Admits(s, c),
         c.kind = "reserve" => Latest(s, c.operation, c.name) = Unclaimed,
         c.kind \notin {"reserve", "retire_absent"} => c.docker_id # NoId
  PROVE  /\ Transitions(s, c) \in Seq(MadeClaims)
         /\ \A i \in 1..Len(Transitions(s, c)) :
               LegalMove(IF i = 1 THEN Latest(s, c.operation, c.name)
                         ELSE Transitions(s, c)[i-1], Transitions(s, c)[i])
<1> DEFINE now == Latest(s, c.operation, c.name)
           d == c.docker_id
           t == Transitions(s, c)
           Chain(q) == /\ q \in Seq(MadeClaims)
                       /\ \A i \in 1..Len(q) : LegalMove(IF i = 1 THEN now ELSE q[i-1], q[i])
<1>0. \/ now = Unclaimed
      \/ /\ now \in MadeClaims
         /\ now.state = "reserved" \/ now.docker_id \in DockerIds
  BY LatestTyped
<1>a. Chain(<< >>)
  OBVIOUS
<1>b. ASSUME NEW x \in MadeClaims, LegalMove(now, x) PROVE Chain(<<x>>)
  BY <1>b
<1>c. ASSUME NEW x \in MadeClaims, NEW y \in MadeClaims, LegalMove(now, x), LegalMove(x, y)
      PROVE  Chain(<<x, y>>)
  BY <1>c
<1>d. ASSUME NEW x \in MadeClaims, NEW y \in MadeClaims, NEW z \in MadeClaims,
             LegalMove(now, x), LegalMove(x, y), LegalMove(y, z)
      PROVE  Chain(<<x, y, z>>)
  BY <1>d
<1>e. Claim("reserved", NoId) \in MadeClaims
  BY DEF Claim, MadeClaims
<1>f. c.kind # "reserve" /\ c.kind # "retire_absent" =>
         /\ d \in DockerIds
         /\ \A st \in {"reserved", "active", "retired"} : Claim(st, d) \in MadeClaims
  BY DEF ClaimCalls, Claim, MadeClaims
<1> HIDE DEF Chain
<1>1. CASE c.kind = "reserve"
  BY <1>1, <1>b, <1>e DEF Transitions, LegalMove
<1>2. CASE c.kind \in {"bind", "activate"}
  <2>1. d \in DockerIds /\ now.state = "reserved" /\ now.docker_id \in {NoId, d}
    BY <1>2, <1>f DEF Admits
  <2>2. LegalMove(now, Claim("reserved", d)) /\ LegalMove(now, Claim("active", d))
    BY <2>1 DEF LegalMove
  <2> QED
    BY <1>2, <1>b, <1>f, <2>2 DEF Transitions
<1>3. CASE c.kind = "retire"
  BY <1>3, <1>b, <1>f DEF Transitions, Admits, LegalMove
<1>4. CASE c.kind = "retire_absent"
  <2>1. CASE now.state = "retired"
    BY <1>4, <1>a, <2>1 DEF Transitions
  <2>2. CASE now.state = "active"
    <3>1. now.docker_id \in DockerIds /\ Claim("retired", now.docker_id) \in MadeClaims
      BY <1>0, <2>2 DEF Unclaimed, Claim, MadeClaims
    <3>2. LegalMove(now, Claim("retired", now.docker_id))
      BY <2>2, <3>1 DEF LegalMove
    <3> QED
      BY <1>4, <1>b, <2>2, <3>1, <3>2 DEF Transitions
  <2> QED
    BY <1>4, <2>1, <2>2 DEF Admits
<1>5. CASE c.kind = "converge"
  <2>1. /\ LegalMove(Unclaimed, Claim("reserved", NoId))
        /\ LegalMove(Claim("reserved", NoId), Claim("reserved", d))
        /\ LegalMove(Claim("reserved", d), Claim("active", d))
    BY <1>5, <1>f DEF LegalMove, Claim
  <2>2. CASE now = Unclaimed
    BY <1>5, <1>d, <1>e, <1>f, <2>1, <2>2 DEF Transitions
  <2>3. CASE now # Unclaimed /\ now = Claim("reserved", NoId)
    BY <1>5, <1>c, <1>f, <2>1, <2>3 DEF Transitions
  <2>4. CASE now # Unclaimed /\ now # Claim("reserved", NoId) /\ now = Claim("reserved", d)
    BY <1>5, <1>b, <1>f, <2>1, <2>4 DEF Transitions
  <2>5. CASE now # Unclaimed /\ now # Claim("reserved", NoId) /\ now # Claim("reserved", d)
    BY <1>5, <1>a, <2>5 DEF Transitions
  <2> QED
    BY <2>2, <2>3, <2>4, <2>5
<1> QED
  BY <1>1, <1>2, <1>3, <1>4, <1>5 DEF ClaimCalls, ClaimKinds, Chain

-----------------------------------------------------------------------------
(* The inductive invariant.                                                 *)

(* The stand-in for a missing file has the type of a file. *)
LEMMA NoStateTyped == NoState \in State
BY DEF NoState, State

(* So does the state made up for one, and its one key is the active one. *)
LEMMA InitialSound ==
  ASSUME NEW k \in Keys
  PROVE  InitialState(k) \in State /\ Numbered(InitialState(k))
BY DEF InitialState, State, Numbered

(* The kind of a call tells which arguments it carries. *)
LEMMA CallKinds ==
  ASSUME NEW c \in Calls \cup {NoCall}
  PROVE  /\ c.kind \in ClaimKinds => c \in ClaimCalls
         /\ c.kind = "issue_evidence" => c \in IssueCalls
         /\ c.kind = "verify_evidence" => c \in VerifyCalls
<1>1. CASE c \in ClaimCalls
  BY <1>1 DEF ClaimCalls, ClaimKinds
<1>2. CASE c \in IssueCalls
  BY <1>2 DEF IssueCalls, ClaimKinds
<1>3. CASE c \in VerifyCalls
  BY <1>3 DEF VerifyCalls, ClaimKinds
<1>4. CASE c = RotateCall \/ c = NoCall
  BY <1>4 DEF RotateCall, NoCall, ClaimKinds
<1> QED
  BY <1>1, <1>2, <1>3, <1>4 DEF Calls

(* The base case of the induction. *)
LEMMA InitInv == Init => IInv
<1> SUFFICES ASSUME Init PROVE IInv
  OBVIOUS
<1> USE DEF Init
<1>1. TypeOK
  <2>1. initializing \in [Procs -> BOOLEAN]
    BY Zenon
  <2>2. mem \in [Procs -> State] /\ disk \in State
    BY NoStateTyped
  <2>3. lockExists \in BOOLEAN
    BY Zenon
  <2>4. pc \in [Procs -> {"idle", "begun", "opened", "locked"}]
    OBVIOUS
  <2>5. call \in [Procs -> Calls \cup {NoCall}]
    OBVIOUS
  <2>6. todo \in [Procs -> Seq(MadeClaims)]
    OBVIOUS
  <2>7. minted \subseteq Operations /\ issued \subseteq Evidence /\ accepted \in [Nonces -> Nat]
    OBVIOUS
  <2> QED
    BY <2>1, <2>2, <2>3, <2>4, <2>5, <2>6, <2>7 DEF TypeOK
<1>2. \A p \in Procs : call[p].kind = "none" /\ ~IsClaimCall(p)
  BY DEF NoCall, IsClaimCall, ClaimKinds
<1>3. Mutex /\ MemCurrent /\ DiskNumbered
  BY DEF Mutex, MemCurrent, DiskNumbered
<1>4. Shape /\ PlansLegal /\ ConvergersAlone
  BY <1>2 DEF Shape, PlansLegal, ConvergersAlone
<1>5. Len(disk.records) = 0 /\ disk.used_nonces = {}
  BY DEF NoState
<1>6. TokensMinted /\ ReserveFirst /\ NoncesCounted
  BY <1>2, <1>5 DEF TokensMinted, ReserveFirst, NoncesCounted
<1> QED
  BY <1>1, <1>3, <1>4, <1>6 DEF IInv

(* Refuse, Leave, HandOut and Fail: a call ends, the files stay. *)
LEMMA QuitStep ==
  ASSUME IInv, NEW p \in Procs, Quit(p), issued' \subseteq Evidence,
         UNCHANGED <<lockExists, disk, minted, accepted>>
  PROVE  IInv'
<1> USE DEF IInv
<1>1. /\ pc'[p] = "idle" /\ call'[p] = NoCall /\ todo'[p] = << >>
      /\ \A q \in Procs \ {p} : /\ pc'[q] = pc[q] /\ call'[q] = call[q]
                                /\ mem'[q] = mem[q] /\ todo'[q] = todo[q]
  BY DEF Quit, TypeOK
<1>2. TypeOK'
  <2>1. initializing' \in [Procs -> BOOLEAN]
    BY Zenon DEF Quit, TypeOK
  <2>2. mem' \in [Procs -> State]
    BY NoStateTyped DEF Quit, TypeOK
  <2>3. pc' \in [Procs -> {"idle", "begun", "opened", "locked"}]
    BY DEF Quit, TypeOK
  <2>4. call' \in [Procs -> Calls \cup {NoCall}]
    BY DEF Quit, TypeOK
  <2>5. todo' \in [Procs -> Seq(MadeClaims)]
    BY DEF Quit, TypeOK
  <2>6. /\ lockExists' \in BOOLEAN /\ disk' \in State /\ minted' \subseteq Operations
        /\ issued' \subseteq Evidence /\ accepted' \in [Nonces -> Nat]
    BY DEF TypeOK
  <2> QED
    BY <2>1, <2>2, <2>3, <2>4, <2>5, <2>6 DEF TypeOK
<1>3. call'[p].kind = "none" /\ ~IsClaimCall(p)'
  BY <1>1 DEF NoCall, IsClaimCall, ClaimKinds
<1>4. \A q \in Procs \ {p} : IsClaimCall(q)' <=> IsClaimCall(q)
  BY <1>1 DEF IsClaimCall
<1>5. Mutex' /\ MemCurrent' /\ DiskNumbered'
  BY <1>1 DEF Mutex, MemCurrent, DiskNumbered
<1>6. Shape'
  BY <1>1, <1>3, <1>4 DEF Shape
<1>7. PlansLegal' /\ ConvergersAlone'
  BY <1>1, <1>3, <1>4 DEF PlansLegal, ConvergersAlone
<1>8. TokensMinted'
  BY <1>1, <1>3, <1>4 DEF TokensMinted
<1>9. ReserveFirst'
  BY <1>1, <1>3, <1>4 DEF ReserveFirst
<1>10. NoncesCounted'
  BY <1>1, <1>3 DEF NoncesCounted
<1> QED
  BY <1>2, <1>5, <1>6, <1>7, <1>8, <1>9, <1>10

(* Begin, for every kind of call: nothing on disk moves, the new call is    *)
(* not in the critical section, and a reserve brings a token nobody has.    *)
LEMMA BeginStep ==
  ASSUME IInv, NEW p \in Procs, NEW c \in Calls, Begin(p, c),
         minted \subseteq minted', minted' \subseteq Operations,
         c.kind \in ClaimKinds => c.operation \in minted',
         c.kind = "reserve" => c.operation \notin minted,
         c.kind \in ClaimKinds \ {"reserve"} => ~Reserving(c.operation),
         c.kind \in ClaimKinds \ {"reserve", "retire_absent"} => c.docker_id # NoId
  PROVE  IInv'
<1> USE DEF IInv
<1>1. /\ pc'[p] = "begun" /\ call'[p] = c /\ todo' = todo /\ mem' = mem /\ disk' = disk
      /\ pc[p] = "idle" /\ todo[p] = << >> /\ issued' = issued /\ accepted' = accepted
      /\ \A q \in Procs \ {p} : pc'[q] = pc[q] /\ call'[q] = call[q]
  BY DEF Begin, TypeOK, Shape
<1>2. TypeOK'
  <2>1. pc' \in [Procs -> {"idle", "begun", "opened", "locked"}]
    BY DEF Begin, TypeOK
  <2>2. call' \in [Procs -> Calls \cup {NoCall}]
    BY DEF Begin, TypeOK
  <2>3. initializing' \in [Procs -> BOOLEAN]
    BY Zenon DEF Begin, TypeOK
  <2> QED
    BY <2>1, <2>2, <2>3 DEF TypeOK, Begin
<1>3. c # NoCall
  BY DEF Calls, ClaimCalls, IssueCalls, VerifyCalls, RotateCall, NoCall, ClaimKinds
<1>4. \A q \in Procs \ {p} : IsClaimCall(q)' <=> IsClaimCall(q)
  BY <1>1 DEF IsClaimCall
<1>5. IsClaimCall(p)' <=> c.kind \in ClaimKinds
  BY <1>1 DEF IsClaimCall
<1>6. Mutex' /\ MemCurrent' /\ DiskNumbered'
  BY <1>1 DEF Mutex, MemCurrent, DiskNumbered
<1>7. Shape'
  BY <1>1, <1>3, <1>4, <1>5 DEF Shape
<1>8. PlansLegal' /\ ConvergersAlone'
  BY <1>1, <1>4 DEF PlansLegal, ConvergersAlone
<1>9. TokensMinted'
  BY <1>1, <1>4, <1>5 DEF TokensMinted
<1>10. ReserveFirst'
  <2> SUFFICES ASSUME NEW q \in Procs, call'[q].kind = "reserve"
               PROVE  /\ Len(todo'[q]) <= 1
                      /\ \A r \in Procs : IsClaimCall(r)' /\ call'[r].operation = call'[q].operation
                                          => r = q
                      /\ (pc'[q] # "locked" \/ todo'[q] # << >>) =>
                            \A i \in 1..Len(disk'.records) :
                               disk'.records[i].operation # call'[q].operation
    BY DEF ReserveFirst
  <2>1. CASE q = p
    <3>1. c.kind = "reserve" /\ c.operation \notin minted
      BY <1>1, <2>1
    <3> QED
      BY <1>1, <1>4, <2>1, <3>1 DEF TokensMinted
  <2>2. CASE q # p
    <3>1. call[q].kind = "reserve" /\ IsClaimCall(q)
      BY <1>1, <2>2 DEF IsClaimCall, ClaimKinds
    <3>2. IsClaimCall(p)' => c.operation # call[q].operation
      BY <1>5, <3>1 DEF Reserving, TokensMinted
    <3> QED
      BY <1>1, <1>4, <2>2, <3>1, <3>2 DEF ReserveFirst
  <2> QED
    BY <2>1, <2>2
<1>11. NoncesCounted'
  BY <1>1 DEF NoncesCounted
<1> QED
  BY <1>2, <1>6, <1>7, <1>8, <1>9, <1>10, <1>11

(* Opening the lock file changes nothing that the invariant is about. *)
LEMMA OpenLockStep ==
  ASSUME IInv, NEW p \in Procs, OpenLock(p)
  PROVE  IInv'
<1> USE DEF IInv
<1>1. /\ pc[p] = "begun" /\ pc'[p] = "opened" /\ call' = call /\ todo' = todo /\ mem' = mem
      /\ disk' = disk /\ accepted' = accepted /\ minted' = minted
      /\ \A q \in Procs \ {p} : pc'[q] = pc[q]
  BY DEF OpenLock, TypeOK
<1>2. TypeOK'
  BY DEF OpenLock, TypeOK
<1>3. \A q \in Procs : IsClaimCall(q)' <=> IsClaimCall(q)
  BY <1>1 DEF IsClaimCall
<1>4. Mutex' /\ MemCurrent' /\ DiskNumbered'
  BY <1>1 DEF Mutex, MemCurrent, DiskNumbered
<1>5. Shape' /\ TokensMinted' /\ ReserveFirst'
  BY <1>1, <1>3 DEF Shape, TokensMinted, ReserveFirst
<1>6. PlansLegal' /\ ConvergersAlone' /\ NoncesCounted'
  BY <1>1, <1>3 DEF PlansLegal, ConvergersAlone, NoncesCounted
<1> QED
  BY <1>2, <1>4, <1>5, <1>6

(* A state with no record of an operation has no claim of it. *)
LEMMA NoRecordNoClaim ==
  ASSUME NEW s \in State, NEW o, NEW n,
         \A i \in 1..Len(s.records) : s.records[i].operation # o
  PROVE  Latest(s, o, n) = Unclaimed
BY DEF Latest, Indices

(* Enter: the lock was free, what is read is the file or a fresh state, and *)
(* the plan is legal for it.                                                *)
LEMMA EnterStep ==
  ASSUME IInv, NEW p \in Procs, Enter(p)
  PROVE  IInv'
<1> USE DEF IInv
<1> DEFINE c == call[p]
<1>1. PICK s \in Readable(p) :
         /\ Proceeds(s, c)
         /\ mem' = [mem EXCEPT ![p] = s]
         /\ todo' = [todo EXCEPT ![p] =
                        IF c.kind \in ClaimKinds THEN Transitions(s, c) ELSE << >>]
  BY DEF Enter
<1>2. \/ disk # NoState /\ s = disk
      \/ disk = NoState /\ \E k \in Keys : s = InitialState(k)
  BY <1>1 DEF Readable
<1>3. s \in State /\ Numbered(s)
  BY <1>2, InitialSound DEF TypeOK, DiskNumbered
<1>4. s.records = disk.records
  BY <1>2 DEF InitialState, NoState
<1>5. /\ pc[p] = "opened" /\ pc'[p] = "locked" /\ mem'[p] = s
      /\ \A q \in Procs : pc[q] # "locked"
      /\ \A q \in Procs \ {p} : pc'[q] = pc[q] /\ mem'[q] = mem[q] /\ todo'[q] = todo[q]
      /\ call' = call /\ disk' = disk /\ minted' = minted /\ accepted' = accepted
      /\ issued' = issued
  BY <1>1 DEF Enter, LockFree, TypeOK
<1>6. \A q \in Procs : IsClaimCall(q)' <=> IsClaimCall(q)
  BY <1>5 DEF IsClaimCall
<1>7. CASE IsClaimCall(p)
  <2>1. c \in ClaimCalls /\ c.kind \in ClaimKinds
    BY <1>7, CallKinds DEF IsClaimCall, TypeOK
  <2>2. Admits(s, c)
    BY <1>1, <2>1 DEF Proceeds
  <2>3. c.kind = "reserve" => Latest(s, c.operation, c.name) = Unclaimed
    BY <1>3, <1>4, <1>5, NoRecordNoClaim DEF ReserveFirst
  <2>4. c.kind \notin {"reserve", "retire_absent"} => c.docker_id # NoId
    BY <1>7 DEF Shape
  <2>5. todo'[p] = Transitions(s, c)
    BY <1>1, <2>1 DEF TypeOK
  <2>6. /\ todo'[p] \in Seq(MadeClaims)
        /\ \A i \in 1..Len(todo'[p]) :
              LegalMove(IF i = 1 THEN Latest(s, c.operation, c.name)
                        ELSE todo'[p][i-1], todo'[p][i])
    BY <1>3, <2>1, <2>2, <2>3, <2>4, <2>5, TransitionsLegal
  <2>7. c.kind = "converge" =>
           \A other \in Operations \ {c.operation} :
               Latest(s, other, c.name).state \notin {"reserved", "active"}
    BY <2>2 DEF Admits, HeldByOther
  <2>8. TypeOK'
    <3>1. mem' \in [Procs -> State]
      BY <1>1, <1>3 DEF TypeOK
    <3>2. todo' \in [Procs -> Seq(MadeClaims)]
      BY <1>1, <2>1, <2>5, <2>6 DEF TypeOK
    <3> QED
      BY <3>1, <3>2 DEF TypeOK, Enter
  <2>9. PlansLegal'
    BY <1>5, <1>6, <2>6 DEF PlansLegal
  <2>10. ConvergersAlone'
    BY <1>5, <2>7 DEF ConvergersAlone
  <2>11. Shape'
    BY <1>5, <1>6, <1>7 DEF Shape
  <2>12. ReserveFirst'
    <3>1. c.kind = "reserve" => todo'[p] = << Claim("reserved", NoId) >>
      BY <2>5 DEF Transitions
    <3>2. \A q \in Procs : q # p => todo'[q] = todo[q]
      BY <1>5
    <3>3. \A q \in Procs : call[q].kind = "reserve" => Len(todo'[q]) <= 1
      <4> SUFFICES ASSUME NEW q \in Procs, call[q].kind = "reserve" PROVE Len(todo'[q]) <= 1
        OBVIOUS
      <4>1. Len(todo[q]) <= 1
        BY DEF ReserveFirst
      <4>2. CASE q = p
        <5>1. todo'[q] = << Claim("reserved", NoId) >>
          BY <3>1, <4>2
        <5> QED
          BY <5>1
      <4>3. CASE q # p
        BY <3>2, <4>1, <4>3
      <4> QED
        BY <4>2, <4>3
    <3>4. \A q \in Procs : pc[q] # "locked" \/ todo[q] # << >>
      BY <1>5
    <3> QED
      BY <1>5, <1>6, <3>3, <3>4 DEF ReserveFirst
  <2>13. NoncesCounted'
    BY <1>5, <2>1 DEF NoncesCounted, ClaimKinds
  <2> QED
    BY <1>2, <1>5, <1>6, <2>8, <2>9, <2>10, <2>11, <2>12, <2>13
       DEF Mutex, MemCurrent, DiskNumbered, TokensMinted
<1>8. CASE ~IsClaimCall(p)
  <2>1. c.kind \notin ClaimKinds
    BY <1>8 DEF IsClaimCall
  <2>2. todo'[p] = << >>
    BY <1>1, <2>1 DEF TypeOK
  <2>3. TypeOK'
    <3>1. mem' \in [Procs -> State]
      BY <1>1, <1>3 DEF TypeOK
    <3>2. todo' \in [Procs -> Seq(MadeClaims)]
      BY <1>1, <2>1 DEF TypeOK
    <3> QED
      BY <3>1, <3>2 DEF TypeOK, Enter
  <2>4. c.kind = "verify_evidence" => c.evidence.nonce \notin s.used_nonces
    BY <1>1 DEF Proceeds, ClaimKinds
  <2>5. NoncesCounted'
    BY <1>5, <2>4 DEF NoncesCounted
  <2>6. PlansLegal' /\ ConvergersAlone'
    BY <1>5, <1>6, <1>8, <2>1 DEF PlansLegal, ConvergersAlone, ClaimKinds
  <2>7. Shape'
    BY <1>5, <1>6, <1>8, <2>2 DEF Shape
  <2>8. ReserveFirst'
    BY <1>5, <1>6, <2>1 DEF ReserveFirst, ClaimKinds
  <2> QED
    BY <1>2, <1>5, <1>6, <2>3, <2>5, <2>6, <2>7, <2>8
       DEF Mutex, MemCurrent, DiskNumbered, TokensMinted
<1> QED
  BY <1>7, <1>8

(* A legal move never makes an unbound claim other than a reservation. *)
LEMMA LegalMoveBound ==
  ASSUME NEW now, NEW c, LegalMove(now, c)
  PROVE  c.state = "reserved" \/ c.docker_id # NoId
BY NoIdAssumption DEF LegalMove, Claim

(* What AppendRecord(p) does, in the terms the invariant speaks of. *)
LEMMA AppendFacts ==
  ASSUME IInv, NEW p \in Procs, AppendRecord(p)
  PROVE  /\ call[p] \in ClaimCalls /\ IsClaimCall(p) /\ pc[p] = "locked"
         /\ mem[p] \in State /\ Numbered(mem[p])
         /\ mem[p].records = disk.records /\ mem[p].used_nonces = disk.used_nonces
         /\ Head(todo[p]) \in MadeClaims
         /\ LegalMove(Latest(disk, call[p].operation, call[p].name), Head(todo[p]))
         /\ disk' = Appended(mem[p], call[p].operation, call[p].name, Head(todo[p]))
         /\ disk' \in State /\ Numbered(disk') /\ disk' # NoState
         /\ Len(disk'.records) = Len(disk.records) + 1
         /\ \A i \in 1..Len(disk.records) : disk'.records[i] = disk.records[i]
         /\ disk'.records[Len(disk'.records)].operation = call[p].operation
         /\ disk'.used_nonces = disk.used_nonces
<1> USE DEF IInv
<1>1. IsClaimCall(p) /\ pc[p] = "locked" /\ todo[p] # << >>
  BY DEF AppendRecord, Shape
<1>2. call[p] \in ClaimCalls
  BY <1>1, CallKinds DEF IsClaimCall, TypeOK
<1>3. \/ disk # NoState /\ mem[p] = disk
      \/ disk = NoState /\ \E k \in Keys : mem[p] = InitialState(k)
  BY <1>1 DEF MemCurrent
<1>4. mem[p] \in State /\ Numbered(mem[p])
  BY <1>3, InitialSound DEF TypeOK, DiskNumbered
<1>5. mem[p].records = disk.records /\ mem[p].used_nonces = disk.used_nonces
  <2>1. CASE mem[p] = disk
    BY <2>1
  <2>2. CASE disk = NoState /\ \E k \in Keys : mem[p] = InitialState(k)
    <3>1. PICK k \in Keys : mem[p] = InitialState(k)
      BY <2>2
    <3> QED
      BY <2>2, <3>1 DEF InitialState, NoState
  <2> QED
    BY <1>3, <2>1, <2>2
<1>6. todo[p] \in Seq(MadeClaims) /\ Len(todo[p]) >= 1 /\ Head(todo[p]) = todo[p][1]
  BY <1>1 DEF TypeOK
<1>7. Head(todo[p]) \in MadeClaims
  BY <1>6
<1>8. LegalMove(Latest(mem[p], call[p].operation, call[p].name), Head(todo[p]))
  BY <1>1, <1>6 DEF PlansLegal
<1>9. Latest(mem[p], call[p].operation, call[p].name) = Latest(disk, call[p].operation, call[p].name)
  BY <1>5 DEF Latest, Indices
<1>10. disk' = Appended(mem[p], call[p].operation, call[p].name, Head(todo[p]))
  BY DEF AppendRecord, WriteAtomic
<1>11. Head(todo[p]).state = "reserved" \/ Head(todo[p]).docker_id # NoId
  BY <1>8, LegalMoveBound
<1>12. call[p].operation \in Operations /\ call[p].name \in Names
  BY <1>2 DEF ClaimCalls
<1>13. /\ disk' \in State /\ Numbered(disk') /\ disk' # NoState
       /\ Len(disk'.records) = Len(mem[p].records) + 1
       /\ \A i \in 1..Len(mem[p].records) : disk'.records[i] = mem[p].records[i]
       /\ disk'.records[Len(disk'.records)].operation = call[p].operation
       /\ disk'.used_nonces = mem[p].used_nonces
  BY <1>4, <1>7, <1>10, <1>11, <1>12, AppendedSound
<1> QED
  BY <1>1, <1>2, <1>4, <1>5, <1>7, <1>8, <1>9, <1>10, <1>13

(* One atomic append by the lock holder. *)
LEMMA AppendStep ==
  ASSUME IInv, NEW p \in Procs, AppendRecord(p)
  PROVE  IInv'
<1> USE DEF IInv
<1> DEFINE c == call[p]
           h == Head(todo[p])
<1>1. /\ c \in ClaimCalls /\ IsClaimCall(p) /\ pc[p] = "locked"
      /\ mem[p] \in State /\ mem[p].records = disk.records
      /\ h \in MadeClaims
      /\ disk' = Appended(mem[p], c.operation, c.name, h)
      /\ disk' \in State /\ Numbered(disk') /\ disk' # NoState
      /\ Len(disk'.records) = Len(disk.records) + 1
      /\ \A i \in 1..Len(disk.records) : disk'.records[i] = disk.records[i]
      /\ disk'.records[Len(disk'.records)].operation = c.operation
      /\ disk'.used_nonces = disk.used_nonces
  BY AppendFacts
<1>2. /\ mem'[p] = disk' /\ todo'[p] = Tail(todo[p]) /\ pc' = pc /\ call' = call
      /\ minted' = minted /\ accepted' = accepted
      /\ \A q \in Procs \ {p} : mem'[q] = mem[q] /\ todo'[q] = todo[q] /\ pc[q] # "locked"
  BY <1>1 DEF AppendRecord, WriteAtomic, TypeOK, Mutex
<1>3. todo[p] \in Seq(MadeClaims) /\ todo[p] # << >> /\ Len(disk.records) \in Nat
  BY DEF TypeOK, AppendRecord, State
<1>4. \A q \in Procs : IsClaimCall(q)' <=> IsClaimCall(q)
  BY <1>2 DEF IsClaimCall
<1>5. c.operation \in Operations /\ c.name \in Names
  BY <1>1 DEF ClaimCalls
<1>6. TypeOK'
  <2>1. mem' \in [Procs -> State]
    BY <1>1 DEF AppendRecord, WriteAtomic, TypeOK
  <2>2. todo' \in [Procs -> Seq(MadeClaims)]
    <3>1. Tail(todo[p]) \in Seq(MadeClaims)
      BY <1>3
    <3> QED
      BY <3>1 DEF AppendRecord, TypeOK
  <2> QED
    BY <1>1, <2>1, <2>2 DEF TypeOK, AppendRecord
<1>7. PlansLegal'
  <2>1. Latest(disk', c.operation, c.name) = h
    <3>1. Latest(disk', c.operation, c.name) = Claim(h.state, h.docker_id)
      BY <1>1, <1>5, LatestAppended
    <3> QED
      BY <1>1, <3>1 DEF Claim, MadeClaims
  <2>2. \A i \in 1..Len(todo[p]) :
           LegalMove(IF i = 1 THEN Latest(mem[p], c.operation, c.name) ELSE todo[p][i-1],
                     todo[p][i])
    BY <1>1 DEF PlansLegal
  <2>3. /\ Len(Tail(todo[p])) = Len(todo[p]) - 1 /\ h = todo[p][1]
        /\ \A i \in 1..Len(Tail(todo[p])) : Tail(todo[p])[i] = todo[p][i+1]
    BY <1>3
  <2>4. ASSUME NEW i \in 1..Len(Tail(todo[p]))
        PROVE  LegalMove(IF i = 1 THEN Latest(disk', c.operation, c.name)
                         ELSE Tail(todo[p])[i-1], Tail(todo[p])[i])
    <3>1. i + 1 \in 1..Len(todo[p]) /\ i + 1 # 1 /\ (i + 1) - 1 = i
      BY <1>3, <2>3
    <3>2. LegalMove(todo[p][i], todo[p][i+1])
      BY <2>2, <3>1
    <3>3. CASE i = 1
      BY <2>1, <2>3, <3>2, <3>3
    <3>4. CASE i # 1
      <4>1. i - 1 \in 1..Len(Tail(todo[p])) /\ (i - 1) + 1 = i
        BY <1>3, <3>4
      <4> QED
        BY <2>3, <3>2, <3>4, <4>1
    <3> QED
      BY <3>3, <3>4
  <2> QED
    BY <1>2, <1>4, <2>4 DEF PlansLegal
<1>8. ConvergersAlone'
  <2>1. ASSUME c.kind = "converge", NEW other \in Operations \ {c.operation}
        PROVE  Latest(disk', other, c.name).state \notin {"reserved", "active"}
    <3>1. Latest(disk', other, c.name) = Latest(mem[p], other, c.name)
      BY <1>1, <1>5, LatestAppended
    <3> QED
      BY <1>1, <2>1, <3>1 DEF ConvergersAlone
  <2> QED
    BY <1>2, <2>1 DEF ConvergersAlone
<1>9. ReserveFirst'
  <2> SUFFICES ASSUME NEW q \in Procs, call[q].kind = "reserve"
               PROVE  /\ Len(todo'[q]) <= 1
                      /\ \A r \in Procs : IsClaimCall(r) /\ call[r].operation = call[q].operation
                                          => r = q
                      /\ (pc[q] # "locked" \/ todo'[q] # << >>) =>
                            \A i \in 1..Len(disk'.records) :
                               disk'.records[i].operation # call[q].operation
    BY <1>2, <1>4 DEF ReserveFirst
  <2>1. \A r \in Procs : IsClaimCall(r) /\ call[r].operation = call[q].operation => r = q
    BY DEF ReserveFirst
  <2>2. CASE q = p
    <3>1. todo'[p] = << >>
      BY <1>2, <1>3, <2>2 DEF ReserveFirst
    <3> QED
      BY <1>1, <2>1, <2>2, <3>1
  <2>3. CASE q # p
    <3>0. Len(todo'[q]) <= 1
      BY <1>2, <2>3 DEF ReserveFirst
    <3>1. call[q].operation # c.operation
      BY <1>1, <2>1, <2>3
    <3>2. \A i \in 1..Len(disk.records) : disk.records[i].operation # call[q].operation
      BY <1>2, <2>3 DEF ReserveFirst
    <3> QED
      BY <1>1, <1>3, <2>1, <3>0, <3>1, <3>2
  <2> QED
    BY <2>2, <2>3
<1>10. TokensMinted'
  BY <1>1, <1>2, <1>3, <1>4 DEF TokensMinted
<1>11. NoncesCounted'
  BY <1>1, <1>2 DEF NoncesCounted, IsClaimCall, ClaimKinds
<1>12. Mutex' /\ MemCurrent' /\ DiskNumbered'
  BY <1>1, <1>2 DEF Mutex, MemCurrent, DiskNumbered
<1>13. Shape'
  BY <1>1, <1>2, <1>4 DEF Shape
<1> QED
  BY <1>6, <1>7, <1>8, <1>9, <1>10, <1>11, <1>12, <1>13

(* rotate_keys and verify_evidence rewrite the file without touching the    *)
(* records; issue_evidence only reads.  All three end their call.           *)
LEMMA RewriteStep ==
  ASSUME IInv, NEW p \in Procs, pc[p] = "locked", Quit(p),
         lockExists' = lockExists, minted' = minted,
         issued' \subseteq Evidence, accepted' \in [Nonces -> Nat],
         disk' \in State, Numbered(disk'), disk'.records = mem[p].records,
         \A x \in Nonces : accepted'[x] <= 1 /\ (x \notin disk'.used_nonces => accepted'[x] = 0)
  PROVE  IInv'
<1> USE DEF IInv
<1>1. /\ pc'[p] = "idle" /\ call'[p] = NoCall /\ todo'[p] = << >>
      /\ \A q \in Procs \ {p} : /\ pc'[q] = pc[q] /\ call'[q] = call[q] /\ pc[q] # "locked"
                                /\ mem'[q] = mem[q] /\ todo'[q] = todo[q]
  BY DEF Quit, TypeOK, Mutex
<1>2. mem[p].records = disk.records
  <2>1. CASE mem[p] = disk
    BY <2>1
  <2>2. CASE disk = NoState /\ \E k \in Keys : mem[p] = InitialState(k)
    BY <2>2 DEF InitialState, NoState
  <2> QED
    BY <2>1, <2>2 DEF MemCurrent
<1>3. TypeOK'
  <2>1. initializing' \in [Procs -> BOOLEAN]
    BY Zenon DEF Quit, TypeOK
  <2>2. mem' \in [Procs -> State]
    BY NoStateTyped DEF Quit, TypeOK
  <2>3. pc' \in [Procs -> {"idle", "begun", "opened", "locked"}]
    BY DEF Quit, TypeOK
  <2>4. call' \in [Procs -> Calls \cup {NoCall}]
    BY DEF Quit, TypeOK
  <2>5. todo' \in [Procs -> Seq(MadeClaims)]
    BY DEF Quit, TypeOK
  <2>6. lockExists' \in BOOLEAN /\ minted' \subseteq Operations
    BY DEF TypeOK
  <2> QED
    BY <2>1, <2>2, <2>3, <2>4, <2>5, <2>6 DEF TypeOK
<1>4. call'[p].kind = "none" /\ ~IsClaimCall(p)'
  BY <1>1 DEF NoCall, IsClaimCall, ClaimKinds
<1>5. \A q \in Procs \ {p} : IsClaimCall(q)' <=> IsClaimCall(q)
  BY <1>1 DEF IsClaimCall
<1>6. Mutex' /\ MemCurrent' /\ DiskNumbered' /\ PlansLegal' /\ ConvergersAlone'
  BY <1>1, <1>4 DEF Mutex, MemCurrent, DiskNumbered, PlansLegal, ConvergersAlone
<1>7. Shape'
  BY <1>1, <1>4, <1>5 DEF Shape
<1>8. TokensMinted'
  BY <1>1, <1>2, <1>4, <1>5 DEF TokensMinted
<1>9. ReserveFirst'
  BY <1>1, <1>2, <1>4, <1>5 DEF ReserveFirst
<1>10. NoncesCounted'
  BY <1>1, <1>4 DEF NoncesCounted
<1> QED
  BY <1>3, <1>6, <1>7, <1>8, <1>9, <1>10

(* A holder's dictionary is typed and numbered. *)
LEMMA HolderSound ==
  ASSUME IInv, NEW p \in Procs, pc[p] = "locked"
  PROVE  mem[p] \in State /\ Numbered(mem[p]) /\ mem[p].used_nonces = disk.used_nonces
<1> USE DEF IInv
<1>1. CASE mem[p] = disk /\ disk # NoState
  BY <1>1 DEF TypeOK, DiskNumbered
<1>2. CASE disk = NoState /\ \E k \in Keys : mem[p] = InitialState(k)
  <2>1. PICK k \in Keys : mem[p] = InitialState(k)
    BY <1>2
  <2>2. mem[p].used_nonces = {} /\ disk.used_nonces = {}
    BY <1>2, <2>1 DEF InitialState, NoState
  <2> QED
    BY <2>1, <2>2, InitialSound
<1> QED
  BY <1>1, <1>2 DEF MemCurrent

(* rotate_keys keeps the old keys, so every signature stays verifiable. *)
LEMMA AddKeyStep ==
  ASSUME IInv, NEW p \in Procs, AddKey(p)
  PROVE  IInv'
<1>1. pc[p] = "locked"
  BY DEF AddKey
<1>2. mem[p] \in State /\ Numbered(mem[p]) /\ mem[p].used_nonces = disk.used_nonces
  BY <1>1, HolderSound
<1>3. PICK k \in Keys \ mem[p].keys :
         disk' = [mem[p] EXCEPT !.keys = mem[p].keys \cup {k}, !.active_key = k]
  BY DEF AddKey, WriteAtomic
<1>4. /\ disk' \in State /\ disk'.records = mem[p].records
      /\ disk'.used_nonces = mem[p].used_nonces
      /\ disk'.keys = mem[p].keys \cup {k} /\ disk'.active_key = k
      /\ disk'.generation = mem[p].generation
  BY <1>2, <1>3 DEF State
<1>5. Numbered(disk')
  BY <1>2, <1>4 DEF Numbered
<1>6. /\ issued' \subseteq Evidence /\ accepted' \in [Nonces -> Nat]
      /\ \A x \in Nonces : accepted'[x] <= 1 /\ (x \notin disk'.used_nonces => accepted'[x] = 0)
  BY <1>2, <1>4 DEF AddKey, IInv, TypeOK, NoncesCounted
<1> QED
  BY <1>1, <1>4, <1>5, <1>6, RewriteStep DEF AddKey

(* issue_evidence writes nothing. *)
LEMMA HandOutStep ==
  ASSUME IInv, NEW p \in Procs, HandOut(p)
  PROVE  IInv'
<1>1. pc[p] = "locked" /\ call[p].kind = "issue_evidence" /\ disk' = disk
  BY DEF HandOut
<1>2. call[p] \in IssueCalls
  BY <1>1, CallKinds DEF IInv, TypeOK
<1>3. mem[p] \in State /\ Numbered(mem[p])
  BY <1>1, HolderSound
<1>4. mem[p].active_key \in Keys
  BY <1>3 DEF Numbered, State
<1>5. issued' \subseteq Evidence
  BY <1>2, <1>4 DEF HandOut, IInv, TypeOK, Evidence, IssueCalls
<1> QED
  BY <1>5, QuitStep DEF HandOut

(* verify_evidence marks the nonce in the same write that accepts it. *)
LEMMA ConsumeStep ==
  ASSUME IInv, NEW p \in Procs, Consume(p)
  PROVE  IInv'
<1> DEFINE x == call[p].evidence.nonce
<1>1. pc[p] = "locked" /\ call[p].kind = "verify_evidence"
  BY DEF Consume
<1>2. call[p] \in VerifyCalls
  BY <1>1, CallKinds DEF IInv, TypeOK
<1>3. x \in Nonces
  BY <1>2 DEF VerifyCalls, Evidence
<1>4. mem[p] \in State /\ Numbered(mem[p]) /\ mem[p].used_nonces = disk.used_nonces
  BY <1>1, HolderSound
<1>5. x \notin disk.used_nonces
  BY <1>1, <1>4 DEF IInv, NoncesCounted
<1>6. disk' = [mem[p] EXCEPT !.used_nonces = mem[p].used_nonces \cup {x}]
  BY DEF Consume, WriteAtomic
<1>7. /\ disk' \in State /\ disk'.records = mem[p].records
      /\ disk'.used_nonces = disk.used_nonces \cup {x}
      /\ disk'.keys = mem[p].keys /\ disk'.active_key = mem[p].active_key
      /\ disk'.generation = mem[p].generation
  BY <1>3, <1>4, <1>6 DEF State
<1>8. Numbered(disk')
  BY <1>4, <1>7 DEF Numbered
<1>9. accepted' = [accepted EXCEPT ![x] = accepted[x] + 1] /\ accepted \in [Nonces -> Nat]
  BY DEF Consume, IInv, TypeOK
<1>10. accepted' \in [Nonces -> Nat]
  BY <1>3, <1>9
<1>11. \A y \in Nonces : accepted'[y] <= 1 /\ (y \notin disk'.used_nonces => accepted'[y] = 0)
  <2>1. accepted[x] = 0 /\ \A y \in Nonces : accepted[y] <= 1 /\ (y \notin disk.used_nonces => accepted[y] = 0)
    BY <1>3, <1>5 DEF IInv, NoncesCounted
  <2>2. accepted'[x] = 1 /\ \A y \in Nonces \ {x} : accepted'[y] = accepted[y]
    BY <1>3, <1>9, <2>1
  <2> QED
    BY <1>7, <2>1, <2>2
<1>12. issued' \subseteq Evidence
  BY DEF Consume, IInv, TypeOK
<1> QED
  BY <1>1, <1>7, <1>8, <1>10, <1>11, <1>12, RewriteStep DEF Consume

(* The calls a caller may make satisfy what BeginStep asks of them. *)
LEMMA RequestStep ==
  ASSUME IInv, NEW p \in Procs, Request(p)
  PROVE  IInv'
<1> USE DEF ClaimKinds
<1>0. minted \subseteq Operations /\ issued \subseteq Evidence
  BY DEF IInv, TypeOK
<1>1. ASSUME NEW o \in Operations, NEW n \in Names, Reserve(p, o, n) PROVE IInv'
  <2> DEFINE c == [kind |-> "reserve", operation |-> o, name |-> n, docker_id |-> NoId]
  <2>1. c \in Calls
    BY DEF Calls, ClaimCalls
  <2>2. Begin(p, c) /\ c.operation \notin minted /\ minted' = minted \cup {o}
    BY <1>1 DEF Reserve
  <2> QED
    BY <1>0, <2>1, <2>2, BeginStep
<1>2. ASSUME NEW o \in Operations, NEW n \in Names, NEW d \in DockerIds, Converge(p, o, n, d)
      PROVE  IInv'
  <2> DEFINE c == [kind |-> "converge", operation |-> o, name |-> n, docker_id |-> d]
  <2>1. c \in Calls /\ d # NoId
    BY NoIdAssumption DEF Calls, ClaimCalls
  <2>2. Begin(p, c) /\ ~Reserving(c.operation) /\ minted' = minted \cup {o}
    BY <1>2 DEF Converge
  <2> QED
    BY <1>0, <2>1, <2>2, BeginStep
<1>3. ASSUME NEW k \in {"bind", "activate", "retire"}, NEW o \in Operations, NEW n \in Names,
             NEW d \in DockerIds, Transition(p, k, o, n, d)
      PROVE  IInv'
  <2> DEFINE c == [kind |-> k, operation |-> o, name |-> n, docker_id |-> d]
  <2>1. c \in Calls /\ d # NoId
    BY NoIdAssumption DEF Calls, ClaimCalls
  <2>2. Begin(p, c) /\ ~Reserving(c.operation) /\ minted' = minted /\ o \in minted
    BY <1>3 DEF Transition
  <2> QED
    BY <1>0, <2>1, <2>2, BeginStep
<1>4. ASSUME NEW o \in Operations, NEW n \in Names, NEW d \in DockerIds \cup {NoId},
             RetireAbsent(p, o, n, d)
      PROVE  IInv'
  <2> DEFINE c == [kind |-> "retire_absent", operation |-> o, name |-> n, docker_id |-> d]
  <2>1. c \in Calls
    BY DEF Calls, ClaimCalls
  <2>2. Begin(p, c) /\ ~Reserving(c.operation) /\ minted' = minted /\ o \in minted
    BY <1>4 DEF RetireAbsent
  <2> QED
    BY <1>0, <2>1, <2>2, BeginStep
<1>5. ASSUME RotateKeys(p) PROVE IInv'
  BY <1>0, <1>5, BeginStep DEF RotateKeys, RotateCall, Calls
<1>6. ASSUME NEW o \in Operations, NEW d \in DockerIds, NEW x \in Nonces,
             IssueEvidence(p, o, d, x)
      PROVE  IInv'
  <2> DEFINE c == [kind |-> "issue_evidence", operation |-> o, docker_id |-> d, nonce |-> x]
  <2>1. c \in Calls
    BY DEF Calls, IssueCalls
  <2>2. Begin(p, c) /\ minted' = minted
    BY <1>6 DEF IssueEvidence
  <2> QED
    BY <1>0, <2>1, <2>2, BeginStep
<1>7. ASSUME NEW e \in issued, VerifyEvidence(p, e) PROVE IInv'
  <2> DEFINE c == [kind |-> "verify_evidence", evidence |-> e]
  <2>1. c \in Calls
    BY <1>0 DEF Calls, VerifyCalls
  <2>2. Begin(p, c) /\ minted' = minted
    BY <1>7 DEF VerifyEvidence
  <2> QED
    BY <1>0, <2>1, <2>2, BeginStep
<1> QED
  BY <1>1, <1>2, <1>3, <1>4, <1>5, <1>6, <1>7 DEF Request

(* The step case of the induction. *)
LEMMA NextInv == IInv /\ [Next]_vars => IInv'
<1>1. ASSUME IInv, UNCHANGED vars PROVE IInv'
  BY <1>1 DEF vars, IInv, TypeOK, Mutex, Shape, MemCurrent, DiskNumbered, PlansLegal,
              ConvergersAlone, TokensMinted, ReserveFirst, NoncesCounted, IsClaimCall
<1>2. ASSUME IInv, NEW p \in Procs, Refuse(p) \/ Leave(p) \/ Fail(p) PROVE IInv'
  BY <1>2, QuitStep DEF Refuse, Leave, Fail, IInv, TypeOK
<1>3. ASSUME IInv, NEW p \in Procs, Work(p) PROVE IInv'
  BY <1>2, <1>3, OpenLockStep, EnterStep, AppendStep, AddKeyStep, HandOutStep, ConsumeStep
     DEF Work
<1> QED
  BY <1>1, <1>2, <1>3, RequestStep DEF Next

(* The strengthening holds: what the lock protects is never interfered with *)
(* (locked, _read_or_initial_state, _append).                               *)
THEOREM Inductive == Spec => []IInv
BY InitInv, NextInv, PTL DEF Spec

-----------------------------------------------------------------------------
(* What follows for the authority.                                          *)

(* Every variable keeps its type: what reaches authority.json is always a   *)
(* state dictionary of the shape _validate_state demands.                   *)
THEOREM TypeCorrect == Spec => []TypeOK
<1>1. IInv => TypeOK
  BY DEF IInv
<1> QED
  BY <1>1, Inductive, PTL

(* Every reader and recover() accept the file in every reachable state.     *)
THEOREM AlwaysReadable == Spec => []DiskValid
<1>1. IInv => DiskValid
  <2> SUFFICES ASSUME IInv, disk # NoState PROVE ValidState(disk)
    BY DEF DiskValid
  <2>1. disk \in State /\ Numbered(disk)
    BY DEF IInv, TypeOK, DiskNumbered
  <2>2. Len(disk.records) \in Nat /\ (disk.records = << >> <=> Len(disk.records) = 0)
    BY <2>1 DEF State
  <2> QED
    BY <2>1, <2>2 DEF Numbered, ValidState
<1> QED
  BY <1>1, Inductive, PTL

(* verify_evidence returns True at most once per nonce, whatever the        *)
(* interleaving of verifiers and failures.                                  *)
THEOREM EvidenceSingleUse == Spec => []EvidenceOnce
<1>1. IInv => EvidenceOnce
  BY DEF IInv, NoncesCounted, EvidenceOnce
<1> QED
  BY <1>1, Inductive, PTL

(* Only AppendRecord changes the records on disk. *)
LEMMA RecordsMove ==
  ASSUME IInv, [Next]_vars
  PROVE  disk'.records = disk.records \/ \E p \in Procs : AppendRecord(p)
<1>1. ASSUME NEW p \in Procs, AddKey(p) \/ Consume(p) PROVE disk'.records = disk.records
  <2>1. pc[p] = "locked" /\ mem[p] \in State
    BY <1>1 DEF AddKey, Consume, IInv, TypeOK
  <2>2. mem[p].records = disk.records
    <3>1. CASE mem[p] = disk
      BY <3>1
    <3>2. CASE disk = NoState /\ \E k \in Keys : mem[p] = InitialState(k)
      BY <3>2 DEF InitialState, NoState
    <3> QED
      BY <2>1, <3>1, <3>2 DEF IInv, MemCurrent
  <2>3. disk'.records = mem[p].records
    BY <1>1, <2>1 DEF AddKey, Consume, WriteAtomic, State
  <2> QED
    BY <2>2, <2>3
<1>2. ASSUME NEW p \in Procs, Request(p) PROVE disk' = disk
  BY <1>2 DEF Request, Reserve, Converge, Transition, RetireAbsent, RotateKeys,
              IssueEvidence, VerifyEvidence, Begin
<1>3. ASSUME NEW p \in Procs,
             OpenLock(p) \/ Enter(p) \/ Refuse(p) \/ Leave(p) \/ HandOut(p) \/ Fail(p)
      PROVE  disk' = disk
  BY <1>3 DEF OpenLock, Enter, Refuse, Leave, HandOut, Fail
<1> QED
  BY <1>1, <1>2, <1>3 DEF Next, Work, vars

(* The log only grows: no race on `initializing` and no crash loses custody. *)
THEOREM LogNeverRewritten == Spec => LogPreserved
<1>1. IInv /\ [Next]_vars =>
        [/\ Len(disk.records) <= Len(disk'.records)
         /\ \A i \in 1..Len(disk.records) : disk'.records[i] = disk.records[i]]_vars
  <2> SUFFICES ASSUME IInv, [Next]_vars
               PROVE  /\ Len(disk.records) <= Len(disk'.records)
                      /\ \A i \in 1..Len(disk.records) : disk'.records[i] = disk.records[i]
    OBVIOUS
  <2>1. Len(disk.records) \in Nat
    BY DEF IInv, TypeOK, State
  <2>2. CASE disk'.records = disk.records
    BY <2>1, <2>2
  <2>3. CASE \E p \in Procs : AppendRecord(p)
    BY <2>1, <2>3, AppendFacts
  <2> QED
    BY <2>2, <2>3, RecordsMove
<1> QED
  BY <1>1, Inductive, PTL DEF Spec, LogPreserved

(* converge appends only while no other operation holds the name.           *)
THEOREM ConvergeNeverSteals == Spec => ConvergeExclusive
<1> DEFINE Alone ==
      \A p \in Procs :
          (call[p].kind = "converge" /\ mem'[p] # mem[p] /\ disk' # disk) =>
              \A other \in Operations \ {call[p].operation} :
                  Latest(disk, other, call[p].name).state \notin {"reserved", "active"}
<1>1. IInv /\ [Next]_vars => [Alone]_vars
  <2> SUFFICES ASSUME IInv, Next, NEW p \in Procs, call[p].kind = "converge",
                      mem'[p] # mem[p], disk' # disk,
                      NEW other \in Operations \ {call[p].operation}
               PROVE  Latest(disk, other, call[p].name).state \notin {"reserved", "active"}
    OBVIOUS
  <2>1. PICK q \in Procs : AppendRecord(q) \/ AddKey(q) \/ Consume(q)
    <3>1. ASSUME NEW q \in Procs, Request(q) PROVE disk' = disk
      BY <3>1 DEF Request, Reserve, Converge, Transition, RetireAbsent, RotateKeys,
                  IssueEvidence, VerifyEvidence, Begin
    <3>2. ASSUME NEW q \in Procs,
                 OpenLock(q) \/ Enter(q) \/ Refuse(q) \/ Leave(q) \/ HandOut(q) \/ Fail(q)
          PROVE  disk' = disk
      BY <3>2 DEF OpenLock, Enter, Refuse, Leave, HandOut, Fail
    <3> QED
      BY <3>1, <3>2 DEF Next, Work
  <2>2. q = p
    BY <2>1 DEF AppendRecord, AddKey, Consume, Quit, IInv, TypeOK
  <2>3. pc[p] = "locked" /\ AppendRecord(p)
    BY <2>1, <2>2 DEF AppendRecord, AddKey, Consume
  <2>4. mem[p].records = disk.records
    BY <2>3, AppendFacts
  <2>5. Latest(mem[p], other, call[p].name) = Latest(disk, other, call[p].name)
    BY <2>4 DEF Latest, Indices
  <2> QED
    BY <2>3, <2>5 DEF IInv, ConvergersAlone
<1> QED
  BY <1>1, Inductive, PTL DEF Spec, ConvergeExclusive

(* The lock, the file and its processes implement the Custody contract.     *)
THEOREM CustodyImplemented == Spec => ImplementsCustody
<1>1. Init => Abstract!Init
  <2> SUFFICES ASSUME Init PROVE CustodyOf(disk) = [o \in Operations |-> [n \in Names |-> Unclaimed]]
    BY DEF Abstract!Init, Abstract!Unclaimed, Abstract!Claim, Unclaimed, Claim
  <2>1. \A o \in Operations, n \in Names : Latest(disk, o, n) = Unclaimed
    BY NoStateTyped, NoRecordNoClaim DEF Init, NoState
  <2> QED
    BY <2>1 DEF CustodyOf
<1>2. IInv /\ [Next]_vars => [Abstract!Next]_(CustodyOf(disk))
  <2> SUFFICES ASSUME IInv, [Next]_vars
               PROVE  Abstract!Next \/ CustodyOf(disk)' = CustodyOf(disk)
    OBVIOUS
  <2>1. CASE disk'.records = disk.records
    BY <2>1 DEF CustodyOf, Latest, Indices
  <2>2. CASE \E p \in Procs : AppendRecord(p)
    <3>1. PICK p \in Procs : AppendRecord(p)
      BY <2>2
    <3> DEFINE o == call[p].operation
               n == call[p].name
               h == Head(todo[p])
    <3>2. /\ o \in Operations /\ n \in Names /\ h \in MadeClaims
          /\ mem[p] \in State /\ mem[p].records = disk.records
          /\ LegalMove(Latest(disk, o, n), h)
          /\ disk' = Appended(mem[p], o, n, h)
      BY <3>1, AppendFacts DEF ClaimCalls
    <3> HIDE DEF o, n, h
    <3>3. \A o2, n2 : Latest(disk', o2, n2) =
             IF o2 = o /\ n2 = n THEN h ELSE Latest(disk, o2, n2)
      <4> SUFFICES ASSUME NEW o2, NEW n2
                   PROVE  Latest(disk', o2, n2) =
                             IF o2 = o /\ n2 = n THEN h ELSE Latest(disk, o2, n2)
        OBVIOUS
      <4>1. Latest(disk', o2, n2) =
               IF o2 = o /\ n2 = n THEN Claim(h.state, h.docker_id) ELSE Latest(mem[p], o2, n2)
        BY <3>2, LatestAppended
      <4>2. Latest(mem[p], o2, n2) = Latest(disk, o2, n2)
        BY <3>2 DEF Latest, Indices
      <4>3. Claim(h.state, h.docker_id) = h
        BY <3>2 DEF Claim, MadeClaims
      <4> QED
        BY <4>1, <4>2, <4>3
    <3>4. CustodyOf(disk)' = [CustodyOf(disk) EXCEPT ![o][n] = h]
      BY <3>2, <3>3 DEF CustodyOf
    <3>5. CustodyOf(disk)[o][n] = Latest(disk, o, n)
      BY <3>2 DEF CustodyOf
    <3>6. CASE Latest(disk, o, n) = Unclaimed /\ h = Claim("reserved", NoId)
      <4>1. Abstract!Reserve(o, n)
        BY <3>4, <3>5, <3>6 DEF Abstract!Reserve, Abstract!Becomes, Abstract!Unclaimed,
                                Abstract!Claim, Unclaimed, Claim
      <4> QED
        BY <3>2, <4>1 DEF Abstract!Next
    <3>7. ASSUME NEW d \in DockerIds, Latest(disk, o, n).docker_id \in {NoId, d},
                 \/ Latest(disk, o, n).state = "reserved" /\ h \in {Claim("reserved", d), Claim("active", d)}
                 \/ Latest(disk, o, n).state = "active" /\ h = Claim("retired", d)
          PROVE  Abstract!Next
      <4>1. Abstract!Bind(o, n, d) \/ Abstract!Activate(o, n, d) \/ Abstract!Retire(o, n, d)
        BY <3>4, <3>5, <3>7 DEF Abstract!Bind, Abstract!Activate, Abstract!Retire,
                                Abstract!Expects, Abstract!Becomes, Abstract!Claim, Claim
      <4> QED
        BY <3>2, <4>1 DEF Abstract!Next
    <3> QED
      BY <3>2, <3>6, <3>7 DEF LegalMove
  <2> QED
    BY <2>1, <2>2, RecordsMove
<1> QED
  BY <1>1, <1>2, Inductive, PTL DEF Spec, ImplementsCustody, Abstract!Spec
=============================================================================
