------------------------------ MODULE Custody ------------------------------
(***************************************************************************)
(* What the ownership authority of the PostgreSQL/Docker backend promises  *)
(* its callers, free of files, locks and processes: one claim per          *)
(* operation and resource name, which only moves                           *)
(*     none -> reserved -> (bound) -> active -> retired.                    *)
(* OwnershipAuthority is shown to implement this module; DatabaseProvider  *)
(* uses it as the authority it talks to.                                   *)
(***************************************************************************)
CONSTANTS
    Operations,     \* operation identities ("postgres-docker:<token>")
    Names,          \* container names
    DockerIds,      \* immutable ids Docker gives to containers
    NoId            \* the empty docker_id of a claim that is not bound yet

VARIABLE custody    \* custody[o][n]: the latest record of operation o on name n

ClaimStates == {"none", "reserved", "active", "retired"}

Claims == [state : ClaimStates, docker_id : DockerIds \cup {NoId}]

Claim(s, d) == [state |-> s, docker_id |-> d]

Unclaimed == Claim("none", NoId)

(* Type of the variable. *)
TypeOK == custody \in [Operations -> [Names -> Claims]]

Init == custody = [o \in Operations |-> [n \in Names |-> Unclaimed]]

-----------------------------------------------------------------------------
Becomes(o, n, claim) == custody' = [custody EXCEPT ![o][n] = claim]

(* _transition: the latest record has the expected state and no other id. *)
Expects(o, n, d, s) ==
    custody[o][n].state = s /\ custody[o][n].docker_id \in {NoId, d}

Reserve(o, n) ==
    /\ custody[o][n] = Unclaimed
    /\ Becomes(o, n, Claim("reserved", NoId))

Bind(o, n, d) ==
    /\ Expects(o, n, d, "reserved")
    /\ Becomes(o, n, Claim("reserved", d))

Activate(o, n, d) ==
    /\ Expects(o, n, d, "reserved")
    /\ Becomes(o, n, Claim("active", d))

Retire(o, n, d) ==
    /\ Expects(o, n, d, "active")
    /\ Becomes(o, n, Claim("retired", d))

(* owns: a live record proves this exact resource. *)
Owns(o, n, d) == custody[o][n] = Claim("active", d)

Next ==
    \E o \in Operations, n \in Names :
        \/ Reserve(o, n)
        \/ \E d \in DockerIds : Bind(o, n, d) \/ Activate(o, n, d) \/ Retire(o, n, d)

Spec == Init /\ [][Next]_custody

-----------------------------------------------------------------------------
(* The docker id a claim was bound to is never replaced by another one, so  *)
(* a receipt keeps naming the container it was issued for.                  *)
IdentityFixed ==
    [][\A o \in Operations, n \in Names :
          custody[o][n].docker_id # NoId =>
              custody'[o][n].docker_id = custody[o][n].docker_id]_custody

(* A retired claim is never revived: "historical active authority cannot    *)
(* be reused" (retire, authority.py) read for the claim itself.             *)
RetiredIsFinal ==
    [][\A o \in Operations, n \in Names :
          custody[o][n].state = "retired" => custody'[o][n] = custody[o][n]]_custody
=============================================================================
