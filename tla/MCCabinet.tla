------------------------------ MODULE MCCabinet ------------------------------
(* Small instances of Cabinet for TLC.                                       *)
EXTENDS Cabinet, TLC

Symmetric == Permutations(Requests) \cup Permutations(Events)

=============================================================================
