------------------------- MODULE MCDatabaseProvider -------------------------
(* Instances of DatabaseProvider for TLC. *)
EXTENDS DatabaseProvider, TLC

CONSTANTS p1, p2, o1, o2, d1, d2

Processes == {p1, p2}

(* Everything at once, without data volumes; then data volumes with one     *)
(* call at a time and a failing authority, crashes and a meddling operator, *)
(* or every Docker fault; and data volumes with calls that overlap, with    *)
(* timeouts and an operator, and with failing commands.                     *)
AllWorlds ==
    { Features \ {"volumes"},
      {"volumes", "authority", "crash", "operator"},
      {"volumes", "fail", "timeout", "inspect", "authority", "crash"},
      {"volumes", "concurrent"}, {"volumes", "timeout", "operator"}, {"volumes", "fail"} }

FlakyInspection == { {"volumes", "inspect"} }

CrashOnly == { {"crash"} }

Symmetry == Permutations(Processes) \cup Permutations({d1, d2}) \cup Permutations({o1, o2})
=============================================================================
