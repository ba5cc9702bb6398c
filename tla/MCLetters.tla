------------------------------ MODULE MCLetters ------------------------------
(* Small instances of Letters for TLC.                                       *)
EXTENDS Letters, TLC

=============================================================================
