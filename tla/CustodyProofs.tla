--------------------------- MODULE CustodyProofs ---------------------------
(* The Custody contract keeps its claims well typed, bound to one container *)
(* and final once retired, for any sets of operations, names and ids.       *)
EXTENDS Custody, TLAPS

(* Every claim stays a claim: the contract never leaves its state set. *)
THEOREM CustodyTyped == Spec => []TypeOK
<1>1. Init => TypeOK
  BY DEF Init, TypeOK, Unclaimed, Claim, Claims, ClaimStates
<1>2. ASSUME TypeOK, NEW o \in Operations, NEW n \in Names, NEW c \in Claims,
             Becomes(o, n, c)
      PROVE  TypeOK'
  BY <1>2 DEF TypeOK, Becomes
<1>3. TypeOK /\ [Next]_custody => TypeOK'
  <2> SUFFICES ASSUME TypeOK, [Next]_custody PROVE TypeOK'
    OBVIOUS
  <2>1. CASE UNCHANGED custody
    BY <2>1 DEF TypeOK
  <2>2. CASE Next
    <3>1. PICK o \in Operations, n \in Names :
             \E s \in {"reserved", "active", "retired"}, d \in DockerIds \cup {NoId} :
                Becomes(o, n, Claim(s, d))
      BY <2>2 DEF Next, Reserve, Bind, Activate, Retire
    <3>2. PICK s \in {"reserved", "active", "retired"}, d \in DockerIds \cup {NoId} :
             Becomes(o, n, Claim(s, d))
      BY <3>1
    <3>3. Claim(s, d) \in Claims
      BY DEF Claim, Claims, ClaimStates
    <3> QED
      BY <1>2, <3>2, <3>3
  <2> QED
    BY <2>1, <2>2
<1> QED
  BY <1>1, <1>3, PTL DEF Spec

(* A bound claim keeps its docker id (bind, activate and retire compare it). *)
THEOREM CustodyIdentityFixed == Spec => IdentityFixed
<1>1. TypeOK /\ [Next]_custody =>
        [\A o \in Operations, n \in Names :
            custody[o][n].docker_id # NoId =>
                custody'[o][n].docker_id = custody[o][n].docker_id]_custody
  <2> SUFFICES ASSUME TypeOK, Next,
                      NEW o \in Operations, NEW n \in Names, custody[o][n].docker_id # NoId
               PROVE  custody'[o][n].docker_id = custody[o][n].docker_id
    BY DEF TypeOK
  <2>1. PICK a \in Operations, b \in Names :
           \/ Reserve(a, b)
           \/ \E d \in DockerIds : Bind(a, b, d) \/ Activate(a, b, d) \/ Retire(a, b, d)
    BY DEF Next
  <2>2. CASE Reserve(a, b)
    BY <2>2 DEF Reserve, Becomes, Unclaimed, Claim, TypeOK
  <2>3. CASE \E d \in DockerIds : Bind(a, b, d) \/ Activate(a, b, d) \/ Retire(a, b, d)
    BY <2>3 DEF Bind, Activate, Retire, Expects, Becomes, Claim, TypeOK
  <2> QED
    BY <2>1, <2>2, <2>3
<1> QED
  BY <1>1, CustodyTyped, PTL DEF Spec, IdentityFixed

(* No transition of the contract leaves the retired state (retire). *)
THEOREM CustodyRetiredIsFinal == Spec => RetiredIsFinal
<1>1. TypeOK /\ [Next]_custody =>
        [\A o \in Operations, n \in Names :
            custody[o][n].state = "retired" => custody'[o][n] = custody[o][n]]_custody
  <2> SUFFICES ASSUME TypeOK, Next,
                      NEW o \in Operations, NEW n \in Names, custody[o][n].state = "retired"
               PROVE  custody'[o][n] = custody[o][n]
    BY DEF TypeOK
  <2>1. PICK a \in Operations, b \in Names :
           \/ Reserve(a, b)
           \/ \E d \in DockerIds : Bind(a, b, d) \/ Activate(a, b, d) \/ Retire(a, b, d)
    BY DEF Next
  <2>2. CASE Reserve(a, b)
    BY <2>2 DEF Reserve, Becomes, Unclaimed, Claim, TypeOK
  <2>3. CASE \E d \in DockerIds : Bind(a, b, d) \/ Activate(a, b, d) \/ Retire(a, b, d)
    BY <2>3 DEF Bind, Activate, Retire, Expects, Becomes, Claim, TypeOK
  <2> QED
    BY <2>1, <2>2, <2>3
<1> QED
  BY <1>1, CustodyTyped, PTL DEF Spec, RetiredIsFinal
=============================================================================
