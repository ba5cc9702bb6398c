----------------------------- MODULE MCAccounts -----------------------------
(* Small instances of Accounts for TLC.                                      *)
EXTENDS Accounts, TLC

Symmetry == Permutations(Requests) \cup Permutations(Telegrams) \cup Permutations(Keys)
            \cup Permutations(Links)
=============================================================================
