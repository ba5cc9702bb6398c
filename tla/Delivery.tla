------------------------------ MODULE Delivery ------------------------------
(* What the outbox promises to the services that write to it: a message that *)
(* was committed stays pending until its handler has done its work or the    *)
(* attempts are given up, and what is settled stays settled. Work that was   *)
(* done may be done again (services/outbox.py, services/dispatcher.py).      *)
CONSTANT Messages

VARIABLES
    status,   \* each message: "none", "pending", "delivered" or "abandoned"
    worked    \* messages whose work has been done at least once

Init ==
    /\ status = [m \in Messages |-> "none"]
    /\ worked = {}

Submit(m) ==
    /\ status[m] = "none"
    /\ status' = [status EXCEPT ![m] = "pending"]
    /\ UNCHANGED worked

Work(m) ==
    /\ status[m] = "pending"
    /\ worked' = worked \cup {m}
    /\ UNCHANGED status

\* One commit settles a batch: some messages as delivered, some as abandoned.
Settle ==
    /\ \A m \in Messages :
          \/ status'[m] = status[m]
          \/ status[m] = "pending" /\ status'[m] = "delivered" /\ m \in worked
          \/ status[m] = "pending" /\ status'[m] = "abandoned"
    /\ status' \in [Messages -> {"none", "pending", "delivered", "abandoned"}]
    /\ UNCHANGED worked

Next == (\E m \in Messages : Submit(m) \/ Work(m)) \/ Settle

Spec == Init /\ [][Next]_<<status, worked>>
=============================================================================
