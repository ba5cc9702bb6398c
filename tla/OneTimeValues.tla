--------------------------- MODULE OneTimeValues ---------------------------
(* What the values that Valkey keeps for one login promise, challenges and   *)
(* states alike (services/challenges.py, routers/auth.py): a value that was  *)
(* given out is taken by one request while it is kept, or is lost; that      *)
(* request may open a session with it, and no other ever does.               *)
EXTENDS Naturals

CONSTANT Values

VARIABLES
    life,      \* each value: "unused", "kept", "taken", "used" or "lost"
    sessions   \* how many sessions were opened with it

Init ==
    /\ life = [v \in Values |-> "unused"]
    /\ sessions = [v \in Values |-> 0]

Moves(v, from, to) == life[v] = from /\ life' = [life EXCEPT ![v] = to]

Give(v) == Moves(v, "unused", "kept") /\ UNCHANGED sessions
Lose(v) == Moves(v, "kept", "lost") /\ UNCHANGED sessions
Take(v) == Moves(v, "kept", "taken") /\ UNCHANGED sessions

Open(v) ==
    /\ Moves(v, "taken", "used")
    /\ sessions' = [sessions EXCEPT ![v] = @ + 1]

Next == \E v \in Values : Give(v) \/ Lose(v) \/ Take(v) \/ Open(v)

Spec == Init /\ [][Next]_<<life, sessions>>
=============================================================================
