----------------------------- MODULE MCLocalRace -----------------------------
(* Small instances of LocalRace for TLC. *)
EXTENDS LocalRace, TLC

Symmetry == Permutations(Cars) \cup Permutations(RaceIds)

=============================================================================
