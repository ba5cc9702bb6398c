------------------------------- MODULE Limiter ------------------------------
(* The rate limiter (ratelimit.py, api limits.py): a sliding window over a   *)
(* sorted set of Valkey. hit() dates itself, then sends a pipeline that      *)
(* trims, adds, counts and renews the life of the key in one go, and only a  *)
(* refused hit asks, in a second call, when to come back.                    *)
EXTENDS Integers, FiniteSets, Sequences

CONSTANTS
    Limit,      \* hits allowed ...
    Window,     \* ... in this much time
    MaxTime     \* bound of the clock

ASSUME LimitAssumption == Limit \in Nat \ {0}
ASSUME WindowAssumption == Window \in Nat \ {0}
ASSUME MaxTimeAssumption == MaxTime \in Nat

VARIABLES
    now,
    tried,      \* history: all hits, in the order Valkey executed them
    zset,       \* the members of the key: indices into `tried`
    goneAt      \* when the key expires

limiter == <<tried, zset, goneAt>>

\* `at` is when Valkey executed it, `told` is the Retry-After of a refused hit and `heard` the number of hits
\* before the second call; a hit that is allowed, or not yet told, has 0.
Hits == [moment : 0..MaxTime, at : 0..MaxTime, allowed : BOOLEAN, told : Int, heard : Nat]

LimiterTypeOK ==
    /\ now \in 0..MaxTime
    /\ tried \in Seq(Hits)
    /\ zset \subseteq DOMAIN tried
    /\ goneAt \in 0..MaxTime + Window + 1

LimiterInit ==
    /\ now = 0 /\ tried = <<>> /\ zset = {} /\ goneAt = 0

\* What is as old as the window, or older, is thrown away.
Cutoff(moment) == moment - Window

\* What the pipeline leaves in the set, the hit itself included.
Kept(moment) == {i \in zset : tried[i].moment > Cutoff(moment)} \cup {Len(tried) + 1}

Allowed(moment) == Cardinality(Kept(moment)) <= Limit

\* Variant: the key lives exactly as long as the window.
ExpiryExact == now + Window
Expiry == now + Window + 1

Pipeline(moment) ==
    /\ tried' = Append(tried, [moment |-> moment, at |-> now, allowed |-> Allowed(moment),
                               told |-> 0, heard |-> 0])
    /\ zset' = Kept(moment)
    /\ goneAt' = Expiry

\* The second call of a refused hit: the oldest member is the first by score.
Oldest(i) == i \in zset /\ \A k \in zset : tried[i].moment <= tried[k].moment

\* An empty set means that the key has expired between the two calls.
RetryAfter(moment) ==
    IF zset = {} THEN Window
    ELSE LET wait == tried[CHOOSE i \in zset : Oldest(i)].moment + Window - moment
         IN  IF wait < 1 THEN 1 ELSE wait

Tell(i) ==
    /\ tried' = [tried EXCEPT ![i].told = RetryAfter(tried[i].moment), ![i].heard = Len(tried)]
    /\ UNCHANGED <<zset, goneAt>>

LimiterTick ==
    /\ now < MaxTime
    /\ now' = now + 1
    /\ zset' = IF goneAt <= now + 1 THEN {} ELSE zset
    /\ UNCHANGED <<tried, goneAt>>

-----------------------------------------------------------------------------
\* A hit that reached Valkey after one with a later date, or so long after its
\* own that the second the key outlives the window does not help.
Late(i) ==
    \/ \E k \in 1..i - 1 : tried[k].moment > tried[i].moment
    \/ tried[i].at > tried[i].moment + 1

InWindow(i, moment) == tried[i].moment > moment - Window /\ tried[i].moment <= moment

(* In no window of time are more hits allowed than the limit, not even       *)
(* across the edge of a period (the reason ratelimit.py:3-5 gives for the    *)
(* sliding window), except one more for each hit that came late: another has *)
(* trimmed what it should have counted, or the key has expired.              *)
WindowHolds ==
    \A moment \in 0..MaxTime :
        Cardinality({i \in DOMAIN tried : tried[i].allowed /\ InWindow(i, moment)})
            <= Limit + Cardinality({i \in DOMAIN tried : Late(i)})

(* Retry-After is not too long: whoever comes back sooner than told is       *)
(* refused again. Except when hits came between the two calls of the one     *)
(* that was refused, or came late.                                           *)
SoonerIsRefused ==
    \A i, j \in DOMAIN tried :
        /\ i < j /\ tried[i].told > 0 /\ tried[i].heard = i
        /\ tried[j].moment < tried[i].moment + tried[i].told
        => Late(j) \/ ~tried[j].allowed

LimitIsKept == WindowHolds /\ SoonerIsRefused

=============================================================================
