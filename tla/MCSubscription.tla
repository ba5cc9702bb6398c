--------------------------- MODULE MCSubscription ---------------------------
(* Small instances of Subscription for TLC.                                  *)
EXTENDS Subscription, TLC

NoRates == {}

\* A day of the new plan costs twice as much.
HalfRate == {<<1, 2>>}

\* Requests differ in nothing, and so do the slots of one task.
SymRequests == Permutations(Requests)
=============================================================================
