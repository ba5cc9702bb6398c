------------------------------ MODULE MCRefresh ------------------------------
(* Small instances of Refresh for TLC: tabs differ in nothing.               *)
EXTENDS Refresh, TLC

SymTabs == Permutations(Tabs)
=============================================================================
