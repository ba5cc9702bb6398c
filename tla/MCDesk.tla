-------------------------------- MODULE MCDesk -------------------------------
(* Small instances of Desk for TLC.                                          *)
EXTENDS Desk, TLC

Symmetric == Permutations(Requests) \cup Permutations(Plans)
             \cup Permutations(Codes) \cup Permutations(Squads)

=============================================================================
