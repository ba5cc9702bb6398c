------------------------------- MODULE Outbox -------------------------------
(* The queue of reliable delivery: the table `outbox` and the runs of        *)
(* process_outbox over it (services/outbox.py, repositories/outbox.py).      *)
(*                                                                           *)
(* A run locks a batch with FOR UPDATE SKIP LOCKED, calls one handler after  *)
(* another, notes every outcome in its own transaction and commits once at   *)
(* the end. Handlers act outside that transaction: they send mail or change  *)
(* the panel, so their work stays when the run dies before its commit.       *)
(* A request that provisions on its own and closes its message is in module  *)
(* Subscription; here only runs of the queue close messages.                 *)
EXTENDS Integers, Sequences, FiniteSets

CONSTANTS
    Messages,    \* rows that services may write, each at most once
    Workers,     \* concurrent runs of process_outbox
    Topics,      \* topics the newest version handles
    OldTopics,   \* topics the version running before a deploy handles
    TopicOf,     \* the topic of each message
    Delays,      \* RETRY_DELAYS
    Limit,       \* the batch size of take_batch
    MaxTime,     \* bound: the clock stops here
    MaxCrashes,  \* bound: runs that die before their commit
    AttemptsCap  \* bound: the column attempts stops counting here

MaxAttempts == Len(Delays)

ASSUME OutboxAssumption ==
    /\ OldTopics \subseteq Topics
    /\ TopicOf \in [Messages -> Topics]
    /\ Delays \in Seq(Nat) /\ Len(Delays) > 0
    /\ Limit \in Nat \ {0}
    /\ MaxTime \in Nat /\ MaxCrashes \in Nat
    /\ AttemptsCap \in Nat /\ AttemptsCap >= Len(Delays)

VARIABLES
    now,
    msg,        \* committed rows: phase, attempts, due (available_at)
    handlers,   \* topics each worker process has handlers for
    todo,       \* locked messages each run has not handled yet
    staged,     \* rows each run will write at its commit (absent: not handled)
    tried,      \* history: handler calls per message
    works,      \* history: handler calls per message that did the work
    excuses,    \* history: reasons per message for doing its work again
    crashes     \* runs that died so far

vars == <<now, msg, handlers, todo, staged, tried, works, excuses, crashes>>
histories == <<tried, works, excuses>>

Phases == {"absent", "ready", "done", "dropped"}
Rows == [phase : Phases, attempts : Nat, due : Nat]
NoRow == [phase |-> "absent", attempts |-> 0, due |-> 0]
Unhandled == [m \in Messages |-> NoRow]

Init ==
    /\ now = 0
    /\ msg = [m \in Messages |-> NoRow]
    /\ handlers \in [Workers -> {OldTopics, Topics}]
    /\ todo = [w \in Workers |-> {}]
    /\ staged = [w \in Workers |-> Unhandled]
    /\ tried = [m \in Messages |-> 0]
    /\ works = [m \in Messages |-> 0]
    /\ excuses = [m \in Messages |-> 0]
    /\ crashes = 0

Handled(w) == {m \in Messages : staged[w][m].phase # "absent"}
HeldBy(w) == todo[w] \cup Handled(w)
IdleRun(w) == HeldBy(w) = {}

-----------------------------------------------------------------------------
\* OutboxRepository.add() in the transaction of a service, once it commits.
Add(m) ==
    /\ msg[m].phase = "absent"
    /\ msg' = [msg EXCEPT ![m] = [phase |-> "ready", attempts |-> 0, due |-> now]]
    /\ UNCHANGED <<now, handlers, todo, staged, histories, crashes>>

\* Variant: a message due this very moment is not due yet.
DueBefore(t) == {m \in Messages : msg[m].phase = "ready" /\ msg[m].due < t}

DueAt(t) == {m \in Messages : msg[m].phase = "ready" /\ msg[m].due <= t}

\* Variant: plain FOR UPDATE reads, rows of other runs are not skipped.
EligibleUnlocked(w) == DueAt(now)

Eligible(w) == {m \in DueAt(now) : \A o \in Workers : m \notin HeldBy(o)}

\* take_batch(): the oldest rows by available_at, Limit of them at most.
Oldest(S, all) ==
    /\ S \subseteq all
    /\ Cardinality(S) = IF Cardinality(all) < Limit THEN Cardinality(all) ELSE Limit
    /\ \A a \in S, b \in all \ S : msg[a].due <= msg[b].due

TakeBatch(w) ==
    /\ IdleRun(w) /\ Eligible(w) # {}
    /\ \E S \in SUBSET Eligible(w) :
          /\ Oldest(S, Eligible(w))
          /\ todo' = [todo EXCEPT ![w] = S]
    /\ UNCHANGED <<now, msg, handlers, staged, histories, crashes>>

Stage(w, m, r) ==
    /\ todo' = [todo EXCEPT ![w] = @ \ {m}]
    /\ staged' = [staged EXCEPT ![w][m] = r]

\* The next message of the batch, in the order of available_at.
Current(w, m) == m \in todo[w] /\ \A o \in todo[w] : msg[m].due <= msg[o].due

Closed(m, phase) == [msg[m] EXCEPT !.phase = phase]

\* Variant: the delay is taken off.
PostponedBackwards(m, delay) ==
    [phase |-> "ready", due |-> now - delay, attempts |-> msg[m].attempts + 1]

\* OutboxRepository.postpone(). Past the last attempt the number is only ever
\* compared with MaxAttempts, so the cap changes nothing.
Postponed(m, delay) ==
    [phase |-> "ready", due |-> now + delay,
     attempts |-> IF msg[m].attempts < AttemptsCap THEN msg[m].attempts + 1
                                                   ELSE msg[m].attempts]

\* What nobody knows here waits for a newer version.
KeepsUnknown(m) == Postponed(m, Delays[1])

\* A topic that this process has no handler for: back into the queue.
SkipUnknown(w, m) ==
    /\ Current(w, m) /\ TopicOf[m] \notin handlers[w]
    /\ Stage(w, m, KeepsUnknown(m))
    /\ UNCHANGED <<now, msg, handlers, histories, crashes>>

HandlerSucceeds(w, m) ==
    /\ Current(w, m) /\ TopicOf[m] \in handlers[w]
    /\ Stage(w, m, Closed(m, "done"))
    /\ tried' = [tried EXCEPT ![m] = @ + 1]
    /\ works' = [works EXCEPT ![m] = @ + 1]
    /\ UNCHANGED <<now, msg, handlers, excuses, crashes>>

\* Variant: an error counts as delivered.
AfterFailureDone(m) == Closed(m, "done")

\* Any exception: postponed, or closed with its error after the last attempt.
AfterFailure(m) ==
    IF msg[m].attempts + 1 >= MaxAttempts
    THEN [Postponed(m, 0) EXCEPT !.phase = "dropped", !.due = msg[m].due]
    ELSE Postponed(m, Delays[msg[m].attempts + 1])

\* The handler raises, before its work or after it (an answer that got lost).
HandlerFails(w, m) ==
    /\ Current(w, m) /\ TopicOf[m] \in handlers[w]
    /\ Stage(w, m, AfterFailure(m))
    /\ tried' = [tried EXCEPT ![m] = @ + 1]
    /\ \E n \in {0, 1} : /\ works' = [works EXCEPT ![m] = @ + n]
                         /\ excuses' = [excuses EXCEPT ![m] = @ + n]
    /\ UNCHANGED <<now, msg, handlers, crashes>>

Committed(w) == [m \in Messages |-> IF m \in Handled(w) THEN staged[w][m] ELSE msg[m]]

\* The one commit of process(), after the whole batch: locks are gone.
Commit(w) ==
    /\ ~IdleRun(w) /\ todo[w] = {}
    /\ msg' = Committed(w)
    /\ staged' = [staged EXCEPT ![w] = Unhandled]
    /\ UNCHANGED <<now, handlers, todo, histories, crashes>>

\* The process or its database connection dies inside a batch: nothing of the
\* batch is written, and messages already handled will be handled again.
Crash(w) ==
    /\ ~IdleRun(w) /\ crashes < MaxCrashes
    /\ crashes' = crashes + 1
    /\ todo' = [todo EXCEPT ![w] = {}]
    /\ staged' = [staged EXCEPT ![w] = Unhandled]
    /\ excuses' = [m \in Messages |-> IF m \in Handled(w) THEN excuses[m] + 1
                                                          ELSE excuses[m]]
    /\ UNCHANGED <<now, msg, handlers, tried, works>>

\* The worker is restarted with the new version between two runs.
Deploy(w) ==
    /\ IdleRun(w) /\ handlers[w] # Topics
    /\ handlers' = [handlers EXCEPT ![w] = Topics]
    /\ UNCHANGED <<now, msg, todo, staged, histories, crashes>>

Tick ==
    /\ now < MaxTime
    /\ now' = now + 1
    /\ UNCHANGED <<msg, handlers, todo, staged, histories, crashes>>

Handle(w) ==
    \E m \in Messages : SkipUnknown(w, m) \/ HandlerSucceeds(w, m) \/ HandlerFails(w, m)

Run(w) == TakeBatch(w) \/ Handle(w) \/ Commit(w)

Next ==
    \/ \E m \in Messages : Add(m)
    \/ \E w \in Workers : Run(w) \/ Crash(w) \/ Deploy(w)
    \/ Tick

Spec == Init /\ [][Next]_vars

\* process_outbox is scheduled every minute (tasks.py:28) and deploys finish;
\* the clock runs on until its bound.
FairSpec ==
    /\ Spec
    /\ \A w \in Workers : WF_vars(Run(w)) /\ SF_vars(Deploy(w))
    /\ WF_vars(Tick)

-----------------------------------------------------------------------------
TypeOK ==
    /\ now \in Nat
    /\ msg \in [Messages -> Rows]
    /\ handlers \in [Workers -> SUBSET Topics]
    /\ todo \in [Workers -> SUBSET Messages]
    /\ staged \in [Workers -> [Messages -> Rows]]
    /\ tried \in [Messages -> Nat]
    /\ works \in [Messages -> Nat]
    /\ excuses \in [Messages -> Nat]
    /\ crashes \in Nat

\* Two runs never hold the same message, and a held message is still open:
\* SKIP LOCKED keeps runs apart (repositories/outbox.py:29-33).
NobodySharesAMessage ==
    /\ \A v, w \in Workers : v # w => HeldBy(v) \cap HeldBy(w) = {}
    /\ \A w \in Workers : \A m \in HeldBy(w) : msg[m].phase = "ready"

\* A message is closed only after a handler was called for it: the order in
\* which services are deployed loses nothing (services/outbox.py:53-54).
ClosedOnlyWhenTried ==
    \A m \in Messages : msg[m].phase \in {"done", "dropped"} => tried[m] > 0

\* "Done" means that the work was done, whichever runs died on the way.
DoneMeansWorked == \A m \in Messages : msg[m].phase = "done" => works[m] > 0

\* A message is sent twice only with a reason: each repetition of its work
\* follows a run that died with it or a handler that raised after it ("not sent
\* twice", services/outbox.py:3-4, is more than the one commit of a batch can
\* keep), and however many runs die, handlers are called no more often than
\* there are attempts and dead runs.
RepeatsAreExcused ==
    \A m \in Messages :
        /\ works[m] <= 1 + excuses[m]
        /\ tried[m] <= MaxAttempts + crashes

\* A message whose topic the running version knows is closed in the end, also
\* when the batch holds one message and others fail or wait for a deploy.
EveryMessageIsClosed ==
    \A m \in Messages :
        (msg[m].phase = "ready" /\ msg[m].due <= MaxTime) ~>
            (msg[m].phase \in {"done", "dropped"} \/ msg[m].due > MaxTime)

-----------------------------------------------------------------------------
(* The queue implements the promise of Delivery.                             *)
StatusOf(m) ==
    CASE msg[m].phase = "absent"  -> "none"
      [] msg[m].phase = "ready"   -> "pending"
      [] msg[m].phase = "done"    -> "delivered"
      [] msg[m].phase = "dropped" -> "abandoned"

Promise == INSTANCE Delivery
    WITH status <- [m \in Messages |-> StatusOf(m)],
         worked <- {m \in Messages : works[m] > 0}

ImplementsDelivery == Promise!Spec
=============================================================================
