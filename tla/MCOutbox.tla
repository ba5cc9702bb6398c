------------------------------ MODULE MCOutbox ------------------------------
(* A small queue for TLC: one message of a topic that the old version lacks. *)
EXTENDS Outbox, TLC

CONSTANTS m1, m2

TwoTopics == {"email.send", "panel.provision"}
OneTopic == {"email.send"}
MixedTopics == [m \in {m1, m2} |-> IF m = m1 THEN "email.send" ELSE "panel.provision"]

\* Two attempts stand for the five of RETRY_DELAYS.
TwoDelays == <<1, 2>>
=============================================================================
