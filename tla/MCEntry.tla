------------------------------- MODULE MCEntry ------------------------------
(* Small instances of Entry for TLC.                                         *)
EXTENDS Entry, TLC

Symmetric == Permutations(Requests) \cup Permutations(Challenges)
             \cup Permutations(States) \cup Permutations(Kids)

=============================================================================
