------------------------ MODULE MCOwnershipAuthority ------------------------
(* Instances of OwnershipAuthority for TLC. *)
EXTENDS OwnershipAuthority, TLC

CONSTANTS p1, p2

Processes == {p1, p2}

Symmetry == Permutations(Processes)
=============================================================================
