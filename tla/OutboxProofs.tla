---------------------------- MODULE OutboxProofs ----------------------------
(* What holds of the queue for any number of messages and workers, any       *)
(* delays, batch size and deploy order: who may hold a message, what a       *)
(* closed message has been through, and that Outbox implements Delivery.     *)
EXTENDS Outbox, TLAPS

\* What a run has noted for a message it handled is a row still to be queued
\* again, or one closed after the handler was called (and, if done, worked).
StagedOK ==
    \A w \in Workers : \A m \in Handled(w) :
        /\ staged[w][m].phase \in {"ready", "done", "dropped"}
        /\ staged[w][m].phase # "ready" => tried[m] > 0
        /\ staged[w][m].phase = "done" => works[m] > 0

Inv == TypeOK /\ StagedOK /\ NobodySharesAMessage /\ ClosedOnlyWhenTried /\ DoneMeansWorked

-----------------------------------------------------------------------------
LEMMA MaxAttemptsType == MaxAttempts \in Nat \ {0}
  BY OutboxAssumption DEF MaxAttempts

\* A run that holds nothing has rows noted as not handled.
LEMMA UnhandledType ==
  /\ NoRow \in Rows /\ Unhandled \in [Messages -> Rows]
  /\ \A m \in Messages : Unhandled[m].phase = "absent"
  BY DEF NoRow, Unhandled, Rows, Phases

\* A postponed row is a row that is queued again.
LEMMA PostponedRow ==
  ASSUME TypeOK, NEW m \in Messages, NEW d \in Nat
  PROVE  /\ Postponed(m, d) \in Rows
         /\ Postponed(m, d).phase = "ready"
  BY DEF TypeOK, Rows, Postponed, Phases

\* A failed handler leaves a row that is queued again or dropped.
LEMMA AfterFailureRow ==
  ASSUME TypeOK, NEW m \in Messages
  PROVE  /\ AfterFailure(m) \in Rows
         /\ AfterFailure(m).phase \in {"ready", "dropped"}
<1>1. CASE msg[m].attempts + 1 >= MaxAttempts
  <2>1. Postponed(m, 0) \in Rows
    BY PostponedRow
  <2> QED
    BY <1>1, <2>1 DEF AfterFailure, TypeOK, Rows, Phases
<1>2. CASE ~(msg[m].attempts + 1 >= MaxAttempts)
  <2>1. msg[m].attempts + 1 \in 1 .. Len(Delays)
    BY <1>2, MaxAttemptsType DEF MaxAttempts, TypeOK, Rows
  <2>2. Delays[msg[m].attempts + 1] \in Nat
    BY <2>1, OutboxAssumption
  <2> QED
    BY <1>2, <2>2, PostponedRow DEF AfterFailure
<1> QED
  BY <1>1, <1>2

\* A row closed as done keeps its other columns.
LEMMA ClosedRow ==
  ASSUME TypeOK, NEW m \in Messages
  PROVE  Closed(m, "done") \in Rows /\ Closed(m, "done").phase = "done"
  BY DEF TypeOK, Rows, Closed, Phases

\* Noting the outcome of one message changes nothing else a run holds.
LEMMA StageEffect ==
  ASSUME TypeOK, NEW w \in Workers, NEW m \in todo[w], NEW r \in Rows, Stage(w, m, r),
         r.phase # "absent"
  PROVE  /\ todo' \in [Workers -> SUBSET Messages]
         /\ staged' \in [Workers -> [Messages -> Rows]]
         /\ staged'[w][m] = r
         /\ \A k \in Messages \ {m} : staged'[w][k] = staged[w][k]
         /\ Handled(w)' = Handled(w) \cup {m}
         /\ \A v \in Workers \ {w} : staged'[v] = staged[v] /\ todo'[v] = todo[v]
         /\ todo'[w] = todo[w] \ {m}
<1>1. m \in Messages
  BY DEF TypeOK
<1>2. todo' = [todo EXCEPT ![w] = @ \ {m}]
  BY DEF Stage
<1>3. staged' = [staged EXCEPT ![w] = [staged[w] EXCEPT ![m] = r]]
  BY DEF Stage
<1>4. /\ todo' \in [Workers -> SUBSET Messages]
      /\ todo'[w] = todo[w] \ {m}
      /\ \A v \in Workers \ {w} : todo'[v] = todo[v]
  BY <1>2 DEF TypeOK
<1>5. [staged[w] EXCEPT ![m] = r] \in [Messages -> Rows]
  BY DEF TypeOK
<1>6. /\ staged' \in [Workers -> [Messages -> Rows]]
      /\ staged'[w] = [staged[w] EXCEPT ![m] = r]
      /\ \A v \in Workers \ {w} : staged'[v] = staged[v]
  BY <1>3, <1>5 DEF TypeOK
<1>7. /\ staged'[w][m] = r
      /\ \A k \in Messages \ {m} : staged'[w][k] = staged[w][k]
  BY <1>1, <1>6 DEF TypeOK
<1>8. Handled(w)' = Handled(w) \cup {m}
  BY <1>1, <1>7 DEF Handled
<1> QED
  BY <1>4, <1>6, <1>7, <1>8

-----------------------------------------------------------------------------
LEMMA InitInv == Init => Inv
<1> SUFFICES ASSUME Init PROVE Inv
  OBVIOUS
<1>1. TypeOK
  BY OutboxAssumption, UnhandledType DEF Init, TypeOK
<1>2. \A w \in Workers : Handled(w) = {} /\ HeldBy(w) = {}
  BY DEF Init, Handled, HeldBy, Unhandled, NoRow
<1>3. StagedOK /\ NobodySharesAMessage
  BY <1>2 DEF StagedOK, NobodySharesAMessage
<1>4. ClosedOnlyWhenTried /\ DoneMeansWorked
  BY DEF Init, NoRow, ClosedOnlyWhenTried, DoneMeansWorked
<1> QED
  BY <1>1, <1>3, <1>4 DEF Inv

\* One handled message, whatever came of it: the run holds what it held, and
\* only that message's outcome is new.
LEMMA HandledKeepsInv ==
  ASSUME Inv, NEW w \in Workers, NEW m \in todo[w], NEW r \in Rows, Stage(w, m, r),
         r.phase \in {"ready", "done", "dropped"},
         r.phase # "ready" => tried'[m] > 0,
         r.phase = "done" => works'[m] > 0,
         UNCHANGED <<now, msg, handlers, crashes>>,
         tried' \in [Messages -> Nat], works' \in [Messages -> Nat],
         excuses' \in [Messages -> Nat],
         \A k \in Messages : tried'[k] >= tried[k] /\ works'[k] >= works[k]
  PROVE  Inv'
<1> USE DEF Handled, HeldBy
<1>0. TypeOK /\ StagedOK /\ NobodySharesAMessage /\ m \in Messages
  BY DEF Inv, TypeOK
<1>1. /\ todo' \in [Workers -> SUBSET Messages]
      /\ staged' \in [Workers -> [Messages -> Rows]]
      /\ staged'[w][m] = r
      /\ \A k \in Messages \ {m} : staged'[w][k] = staged[w][k]
      /\ Handled(w)' = Handled(w) \cup {m}
      /\ \A v \in Workers \ {w} : staged'[v] = staged[v] /\ todo'[v] = todo[v]
      /\ todo'[w] = todo[w] \ {m}
  BY <1>0, StageEffect
<1>2. TypeOK'
  BY <1>0, <1>1 DEF TypeOK
<1>3. StagedOK'
  <2> SUFFICES ASSUME NEW v \in Workers, NEW k \in Handled(v)'
               PROVE  /\ staged'[v][k].phase \in {"ready", "done", "dropped"}
                      /\ staged'[v][k].phase # "ready" => tried'[k] > 0
                      /\ staged'[v][k].phase = "done" => works'[k] > 0
    BY DEF StagedOK
  <2>1. CASE v = w /\ k = m
    BY <1>1, <2>1
  <2>2. CASE ~(v = w /\ k = m)
    <3>1. k \in Handled(v) /\ staged'[v][k] = staged[v][k] /\ k \in Messages
      BY <1>0, <1>1, <2>2 DEF TypeOK
    <3> QED
      BY <1>0, <3>1 DEF StagedOK, TypeOK
  <2> QED
    BY <2>1, <2>2
<1>4. \A v \in Workers : HeldBy(v)' = HeldBy(v)
  BY <1>1
<1>5. NobodySharesAMessage'
  BY <1>0, <1>4 DEF NobodySharesAMessage
<1>6. ClosedOnlyWhenTried' /\ DoneMeansWorked'
  BY <1>0 DEF Inv, ClosedOnlyWhenTried, DoneMeansWorked, TypeOK
<1> QED
  BY <1>2, <1>3, <1>5, <1>6 DEF Inv

LEMMA NextInv == Inv /\ [Next]_vars => Inv'
<1> SUFFICES ASSUME Inv, [Next]_vars PROVE Inv'
  OBVIOUS
<1> USE DEF Handled, HeldBy, histories
<1>0. TypeOK /\ StagedOK /\ NobodySharesAMessage /\ ClosedOnlyWhenTried /\ DoneMeansWorked
  BY DEF Inv
<1>1. ASSUME NEW m \in Messages, Add(m)
      PROVE  Inv'
  <2>1. TypeOK'
    BY <1>0, <1>1 DEF Add, TypeOK, Rows, Phases
  <2>2. \A w \in Workers : m \notin HeldBy(w)
    BY <1>0, <1>1 DEF Add, NobodySharesAMessage
  <2>3. \A k \in Messages \ {m} : msg'[k] = msg[k]
    BY <1>0, <1>1 DEF Add, TypeOK
  <2>4. NobodySharesAMessage'
    BY <1>0, <1>1, <2>2, <2>3 DEF Add, NobodySharesAMessage, TypeOK
  <2>5. msg'[m].phase = "ready"
    BY <1>0, <1>1 DEF Add, TypeOK
  <2>6. StagedOK' /\ ClosedOnlyWhenTried' /\ DoneMeansWorked'
    BY <1>0, <1>1, <2>3, <2>5 DEF Add, StagedOK, ClosedOnlyWhenTried, DoneMeansWorked
  <2> QED
    BY <2>1, <2>4, <2>6 DEF Inv
<1>2. ASSUME NEW w \in Workers, TakeBatch(w)
      PROVE  Inv'
  <2>1. PICK S \in SUBSET Eligible(w) : todo' = [todo EXCEPT ![w] = S]
    BY <1>2 DEF TakeBatch
  <2>2. S \subseteq Messages /\ \A m \in S : msg[m].phase = "ready"
    BY <2>1 DEF Eligible, DueAt
  <2>3. \A m \in S, v \in Workers : m \notin HeldBy(v)
    BY <2>1 DEF Eligible
  <2>4. TypeOK'
    BY <1>0, <1>2, <2>1, <2>2 DEF TakeBatch, TypeOK
  <2>5. /\ HeldBy(w)' = S
        /\ \A v \in Workers \ {w} : HeldBy(v)' = HeldBy(v)
    BY <1>0, <1>2, <2>1 DEF TakeBatch, TypeOK, IdleRun
  <2>6. NobodySharesAMessage'
    <3>1. \A v \in Workers \ {w} : HeldBy(v)' \cap HeldBy(w)' = {}
      BY <2>3, <2>5
    <3>2. \A u, v \in Workers \ {w} : u # v => HeldBy(u)' \cap HeldBy(v)' = {}
      BY <1>0, <2>5 DEF NobodySharesAMessage
    <3>3. \A v \in Workers : \A m \in HeldBy(v)' : msg'[m].phase = "ready"
      BY <1>0, <1>2, <2>2, <2>5 DEF NobodySharesAMessage, TakeBatch
    <3> QED
      BY <3>1, <3>2, <3>3 DEF NobodySharesAMessage
  <2>7. StagedOK' /\ ClosedOnlyWhenTried' /\ DoneMeansWorked'
    BY <1>0, <1>2 DEF TakeBatch, StagedOK, ClosedOnlyWhenTried, DoneMeansWorked
  <2> QED
    BY <2>4, <2>6, <2>7 DEF Inv
<1>3. ASSUME NEW w \in Workers, NEW m \in Messages, SkipUnknown(w, m)
      PROVE  Inv'
  <2>1. Delays[1] \in Nat
    BY OutboxAssumption
  <2>2. KeepsUnknown(m) \in Rows /\ KeepsUnknown(m).phase = "ready"
    BY <1>0, <2>1, PostponedRow DEF KeepsUnknown
  <2> QED
    BY <1>0, <1>3, <2>2, HandledKeepsInv DEF SkipUnknown, Current, TypeOK
<1>4. ASSUME NEW w \in Workers, NEW m \in Messages, HandlerSucceeds(w, m)
      PROVE  Inv'
  <2>1. Closed(m, "done") \in Rows /\ Closed(m, "done").phase = "done"
    BY <1>0, ClosedRow
  <2>2. /\ tried' \in [Messages -> Nat] /\ works' \in [Messages -> Nat]
        /\ excuses' \in [Messages -> Nat]
        /\ tried'[m] > 0 /\ works'[m] > 0
        /\ \A k \in Messages : tried'[k] >= tried[k] /\ works'[k] >= works[k]
    BY <1>0, <1>4 DEF HandlerSucceeds, TypeOK
  <2> QED
    BY <1>4, <2>1, <2>2, HandledKeepsInv DEF HandlerSucceeds, Current
<1>5. ASSUME NEW w \in Workers, NEW m \in Messages, HandlerFails(w, m)
      PROVE  Inv'
  <2>1. AfterFailure(m) \in Rows /\ AfterFailure(m).phase \in {"ready", "dropped"}
    BY <1>0, AfterFailureRow
  <2>2. /\ tried' \in [Messages -> Nat] /\ works' \in [Messages -> Nat]
        /\ excuses' \in [Messages -> Nat]
        /\ tried'[m] > 0
        /\ \A k \in Messages : tried'[k] >= tried[k] /\ works'[k] >= works[k]
    BY <1>0, <1>5 DEF HandlerFails, TypeOK
  <2> QED
    BY <1>5, <2>1, <2>2, HandledKeepsInv DEF HandlerFails, Current
<1>6. ASSUME NEW w \in Workers, Commit(w)
      PROVE  Inv'
  <2>1. \A m \in Messages :
           msg'[m] = IF m \in Handled(w) THEN staged[w][m] ELSE msg[m]
    BY <1>6 DEF Commit, Committed
  <2>2. TypeOK'
    BY <1>0, <1>6, UnhandledType DEF Commit, Committed, TypeOK
  <2>3. /\ HeldBy(w)' = {}
        /\ \A v \in Workers \ {w} : HeldBy(v)' = HeldBy(v) /\ staged'[v] = staged[v]
    BY <1>0, <1>6, UnhandledType DEF Commit, TypeOK
  <2>4. \A v \in Workers \ {w} : \A m \in HeldBy(v) : m \in Messages /\ m \notin Handled(w)
    BY <1>0 DEF NobodySharesAMessage, TypeOK
  <2>5. NobodySharesAMessage'
    BY <1>0, <2>1, <2>3, <2>4 DEF NobodySharesAMessage
  <2>6. StagedOK'
    BY <1>0, <1>6, <2>3 DEF StagedOK, Commit
  <2>7. ClosedOnlyWhenTried' /\ DoneMeansWorked'
    BY <1>0, <1>6, <2>1 DEF StagedOK, ClosedOnlyWhenTried, DoneMeansWorked, Commit
  <2> QED
    BY <2>2, <2>5, <2>6, <2>7 DEF Inv
<1>7. ASSUME NEW w \in Workers, Crash(w)
      PROVE  Inv'
  <2>1. TypeOK'
    BY <1>0, <1>7, UnhandledType DEF Crash, TypeOK
  <2>2. /\ HeldBy(w)' = {}
        /\ \A v \in Workers \ {w} : HeldBy(v)' = HeldBy(v) /\ staged'[v] = staged[v]
    BY <1>0, <1>7, UnhandledType DEF Crash, TypeOK
  <2>3. NobodySharesAMessage'
    BY <1>0, <1>7, <2>2 DEF NobodySharesAMessage, Crash
  <2>4. StagedOK' /\ ClosedOnlyWhenTried' /\ DoneMeansWorked'
    BY <1>0, <1>7, <2>2 DEF StagedOK, ClosedOnlyWhenTried, DoneMeansWorked, Crash
  <2> QED
    BY <2>1, <2>3, <2>4 DEF Inv
<1>8. ASSUME NEW w \in Workers, Deploy(w)
      PROVE  Inv'
  BY <1>0, <1>8 DEF Inv, Deploy, TypeOK, StagedOK, NobodySharesAMessage,
                    ClosedOnlyWhenTried, DoneMeansWorked
<1>9. CASE Tick
  BY <1>0, <1>9 DEF Inv, Tick, TypeOK, StagedOK, NobodySharesAMessage,
                    ClosedOnlyWhenTried, DoneMeansWorked
<1>10. CASE UNCHANGED vars
  BY <1>0, <1>10 DEF Inv, vars, TypeOK, StagedOK, NobodySharesAMessage,
                     ClosedOnlyWhenTried, DoneMeansWorked
<1> QED
  BY <1>1, <1>2, <1>3, <1>4, <1>5, <1>6, <1>7, <1>8, <1>9, <1>10 DEF Next, Run, Handle

\* The invariant that the properties below rest on: what runs hold and what
\* they have noted fits together in every reachable state of the queue.
THEOREM Invariance == Spec => []Inv
<1>1. Init => Inv
  BY InitInv
<1>2. Inv /\ [Next]_vars => Inv'
  BY NextInv
<1> QED
  BY <1>1, <1>2, PTL DEF Spec

\* Every variable keeps its type.
THEOREM TypeCorrect == Spec => []TypeOK
<1>1. Inv => TypeOK
  BY DEF Inv
<1> QED
  BY <1>1, Invariance, PTL

\* SKIP LOCKED keeps runs apart: no message is ever in two batches, and what a
\* batch holds is still open.
THEOREM NobodyShares == Spec => []NobodySharesAMessage
<1>1. Inv => NobodySharesAMessage
  BY DEF Inv
<1> QED
  BY <1>1, Invariance, PTL

\* No message is closed before its handler was called at least once, in
\* whatever order the services are deployed.
THEOREM ClosedAfterTry == Spec => []ClosedOnlyWhenTried
<1>1. Inv => ClosedOnlyWhenTried
  BY DEF Inv
<1> QED
  BY <1>1, Invariance, PTL

\* A message recorded as done has had its work done.
THEOREM DoneAfterWork == Spec => []DoneMeansWorked
<1>1. Inv => DoneMeansWorked
  BY DEF Inv
<1> QED
  BY <1>1, Invariance, PTL

-----------------------------------------------------------------------------
(* How often work is done and how often handlers are called.                 *)

\* What a run has handled it will not handle again.
ApartOK == \A w \in Workers : todo[w] \cap Handled(w) = {}

\* Work without an excuse is noted or committed as done.
IsDone(m) == msg[m].phase = "done" \/ \E w \in Workers : staged[w][m].phase = "done"

WorksOK ==
    \A m \in Messages :
        /\ works[m] <= 1 + excuses[m]
        /\ ~IsDone(m) => works[m] <= excuses[m]

\* The tries a row that is queued again accounts for: skips of an unknown topic
\* count as attempts too, but never allow a try after the last one.
Tries(r) == IF r.attempts < MaxAttempts - 1 THEN r.attempts ELSE MaxAttempts - 1

TriesOK ==
    \A m \in Messages :
        /\ tried[m] <= MaxAttempts + crashes
        /\ msg[m].phase = "absent" => tried[m] = 0
        /\ msg[m].phase = "ready" => tried[m] <= Tries(msg[m]) + crashes + 1
        /\ (msg[m].phase = "ready" /\ \A w \in Workers : m \notin Handled(w))
              => tried[m] <= Tries(msg[m]) + crashes
        /\ \A w \in Workers :
              staged[w][m].phase = "ready" => tried[m] <= Tries(staged[w][m]) + crashes

CountInv == Inv /\ ApartOK /\ WorksOK /\ TriesOK

\* Before the first step nothing is counted.
LEMMA InitCounts == Init => CountInv
<1> SUFFICES ASSUME Init PROVE CountInv
  OBVIOUS
<1>1. Inv
  BY InitInv
<1>2. \A w \in Workers, m \in Messages : staged[w][m].phase = "absent"
  BY UnhandledType DEF Init
<1>3. ApartOK /\ WorksOK
  BY <1>2 DEF Init, ApartOK, WorksOK, Handled
<1>4. TriesOK
  BY <1>2, MaxAttemptsType DEF Init, TriesOK, NoRow
<1> QED
  BY <1>1, <1>3, <1>4 DEF CountInv

\* What a run is about to handle is open, and no run has handled it.
LEMMA CurrentIsOpen ==
  ASSUME CountInv, NEW w \in Workers, NEW m \in todo[w]
  PROVE  /\ m \in Messages /\ msg[m].phase = "ready"
         /\ \A v \in Workers : staged[v][m].phase = "absent"
         /\ ~IsDone(m)
<1>1. m \in Messages
  BY DEF CountInv, Inv, TypeOK
<1>2. m \in HeldBy(w) /\ m \notin Handled(w)
  BY DEF HeldBy, CountInv, ApartOK
<1>3. msg[m].phase = "ready" /\ \A v \in Workers : v # w => m \notin HeldBy(v)
  BY <1>2 DEF CountInv, Inv, NobodySharesAMessage
<1> QED
  BY <1>1, <1>2, <1>3 DEF HeldBy, Handled, IsDone

\* One handled message: what has to be shown of it keeps the counts of all.
LEMMA HandledKeepsCounts ==
  ASSUME CountInv, Inv', NEW w \in Workers, NEW m \in todo[w], NEW r \in Rows, Stage(w, m, r),
         r.phase \in {"ready", "done", "dropped"}, UNCHANGED <<msg, crashes>>,
         \A k \in Messages \ {m} : /\ tried'[k] = tried[k] /\ works'[k] = works[k]
                                   /\ excuses'[k] = excuses[k],
         works'[m] <= excuses'[m] + (IF r.phase = "done" THEN 1 ELSE 0),
         tried'[m] <= tried[m] + 1,
         r.phase = "ready" => tried'[m] <= Tries(r) + crashes
  PROVE  CountInv'
<1> DEFINE Free(k) == \A v \in Workers : staged[v][k].phase = "absent"
<1>0. /\ TypeOK /\ TypeOK' /\ ApartOK /\ WorksOK /\ TriesOK
      /\ m \in Messages /\ msg[m].phase = "ready" /\ Free(m)
  BY CurrentIsOpen DEF CountInv, Inv
<1>1. /\ staged'[w][m] = r
      /\ \A k \in Messages \ {m} : staged'[w][k] = staged[w][k]
      /\ Handled(w)' = Handled(w) \cup {m}
      /\ \A v \in Workers \ {w} : staged'[v] = staged[v] /\ todo'[v] = todo[v]
      /\ todo'[w] = todo[w] \ {m}
  BY <1>0, StageEffect
<1>2. \A v \in Workers \ {w} : Handled(v)' = Handled(v)
  BY <1>1 DEF Handled
<1>3. ApartOK'
  BY <1>0, <1>1, <1>2 DEF ApartOK
<1>4. \A k \in Messages \ {m} : \A v \in Workers : staged'[v][k] = staged[v][k]
  BY <1>1
<1>5. WorksOK'
  <2> SUFFICES ASSUME NEW k \in Messages
               PROVE  /\ works'[k] <= 1 + excuses'[k]
                      /\ ~IsDone(k)' => works'[k] <= excuses'[k]
    BY DEF WorksOK
  <2>1. CASE k = m
    <3>1. r.phase = "done" => IsDone(m)'
      BY <1>1 DEF IsDone
    <3> QED
      BY <1>0, <2>1, <3>1 DEF TypeOK
  <2>2. CASE k # m
    <3>1. IsDone(k)' <=> IsDone(k)
      BY <1>4, <2>2 DEF IsDone
    <3> QED
      BY <1>0, <2>2, <3>1 DEF WorksOK
  <2> QED
    BY <2>1, <2>2
<1>6. TriesOK'
  <2>1. tried[m] <= Tries(msg[m]) + crashes
    BY <1>0 DEF TriesOK, Handled
  <2>2. Tries(msg[m]) \in Nat /\ Tries(msg[m]) <= MaxAttempts - 1
    BY <1>0, MaxAttemptsType DEF Tries, TypeOK, Rows
  <2>3. /\ tried'[m] <= MaxAttempts + crashes
        /\ tried'[m] <= Tries(msg[m]) + crashes + 1
    BY <1>0, <2>1, <2>2, MaxAttemptsType DEF TypeOK
  <2>4. m \in Handled(w)' /\ Tries(msg[m])' = Tries(msg[m])
    BY <1>1 DEF Tries
  <2>5. \A v \in Workers : staged'[v][m].phase = "ready" =>
                              v = w /\ Tries(staged[v][m])' = Tries(r)
    BY <1>0, <1>1 DEF Tries
  <2> SUFFICES ASSUME NEW k \in Messages
               PROVE  /\ tried'[k] <= MaxAttempts + crashes'
                      /\ msg'[k].phase = "absent" => tried'[k] = 0
                      /\ msg'[k].phase = "ready" => tried'[k] <= Tries(msg[k])' + crashes' + 1
                      /\ (msg'[k].phase = "ready" /\ \A v \in Workers : k \notin Handled(v)')
                            => tried'[k] <= Tries(msg[k])' + crashes'
                      /\ \A v \in Workers : staged'[v][k].phase = "ready" =>
                            tried'[k] <= Tries(staged[v][k])' + crashes'
    BY DEF TriesOK
  <2>6. CASE k = m
    BY <1>0, <1>1, <2>3, <2>4, <2>5, <2>6
  <2>7. CASE k # m
    <3>1. \A v \in Workers : k \in Handled(v)' <=> k \in Handled(v)
      BY <1>4, <2>7 DEF Handled
    <3>2. /\ Tries(msg[k])' = Tries(msg[k])
          /\ \A v \in Workers : Tries(staged[v][k])' = Tries(staged[v][k])
      BY <1>4, <2>7 DEF Tries
    <3> QED
      BY <1>0, <1>4, <2>7, <3>1, <3>2 DEF TriesOK
  <2> QED
    BY <2>6, <2>7
<1> QED
  BY <1>3, <1>5, <1>6 DEF CountInv

\* A step that touches neither rows nor notes nor counts.
LEMMA IdleKeepsCounts ==
  ASSUME CountInv, Inv', ApartOK', UNCHANGED <<msg, staged, histories, crashes>>
  PROVE  CountInv'
<1>1. WorksOK'
  BY DEF CountInv, WorksOK, IsDone, histories
<1>2. TriesOK'
  BY DEF CountInv, TriesOK, Tries, Handled, histories
<1> QED
  BY <1>1, <1>2 DEF CountInv

LEMMA NextCounts == CountInv /\ [Next]_vars => CountInv'
<1> SUFFICES ASSUME CountInv, [Next]_vars PROVE CountInv'
  OBVIOUS
<1>0. /\ Inv /\ TypeOK /\ StagedOK /\ NobodySharesAMessage
      /\ ApartOK /\ WorksOK /\ TriesOK /\ Inv' /\ TypeOK'
  BY NextInv DEF CountInv, Inv
<1>1. ASSUME NEW m \in Messages, Add(m)
      PROVE  CountInv'
  <2>1. /\ \A k \in Messages \ {m} : msg'[k] = msg[k]
        /\ msg[m].phase = "absent" /\ msg'[m].phase = "ready" /\ msg'[m].attempts = 0
        /\ UNCHANGED <<todo, staged, tried, works, excuses, crashes>>
    BY <1>0, <1>1 DEF Add, TypeOK, histories
  <2>2. \A w \in Workers : m \notin Handled(w)
    BY <1>0, <2>1 DEF NobodySharesAMessage, HeldBy
  <2>3. ApartOK'
    BY <1>0, <2>1 DEF ApartOK, Handled
  <2>4. WorksOK'
    BY <1>0, <2>1 DEF WorksOK, IsDone
  <2>5. Tries(msg[m])' \in Nat /\ tried[m] = 0
    BY <1>0, <2>1, MaxAttemptsType DEF Tries, TriesOK
  <2>6. \A w \in Workers : staged[w][m].phase # "ready"
    BY <2>2 DEF Handled
  <2>7. TriesOK'
    BY <1>0, <2>1, <2>5, <2>6, MaxAttemptsType DEF TriesOK, Tries, Handled, TypeOK
  <2> QED
    BY <1>0, <2>3, <2>4, <2>7 DEF CountInv
<1>2. ASSUME NEW w \in Workers, TakeBatch(w)
      PROVE  CountInv'
  <2>1. PICK S \in SUBSET Eligible(w) : todo' = [todo EXCEPT ![w] = S]
    BY <1>2 DEF TakeBatch
  <2>2. Handled(w) = {} /\ \A v \in Workers : Handled(v)' = Handled(v)
    BY <1>2 DEF TakeBatch, IdleRun, HeldBy, Handled
  <2>3. ApartOK'
    BY <1>0, <2>1, <2>2 DEF ApartOK, TypeOK
  <2> QED
    BY <1>0, <1>2, <2>3, IdleKeepsCounts DEF TakeBatch
<1>3. ASSUME NEW w \in Workers, NEW m \in Messages, SkipUnknown(w, m)
      PROVE  CountInv'
  <2>1. Delays[1] \in Nat
    BY OutboxAssumption
  <2>2. KeepsUnknown(m) \in Rows /\ KeepsUnknown(m).phase = "ready"
    BY <1>0, <2>1, PostponedRow DEF KeepsUnknown
  <2>3. m \in todo[w] /\ Stage(w, m, KeepsUnknown(m)) /\ UNCHANGED <<msg, histories, crashes>>
    BY <1>3 DEF SkipUnknown, Current
  <2>4. works[m] <= excuses[m] /\ tried[m] <= Tries(msg[m]) + crashes
    BY <1>0, <2>3, CurrentIsOpen DEF WorksOK, TriesOK, Handled
  <2>5. KeepsUnknown(m).attempts >= msg[m].attempts
    BY <1>0 DEF KeepsUnknown, Postponed, TypeOK, Rows
  <2>6. Tries(msg[m]) <= Tries(KeepsUnknown(m))
    BY <1>0, <2>2, <2>5, MaxAttemptsType DEF Tries, TypeOK, Rows
  <2>7. tried[m] <= Tries(KeepsUnknown(m)) + crashes
    BY <1>0, <2>2, <2>4, <2>6, MaxAttemptsType DEF Tries, TypeOK, Rows
  <2>8. works'[m] <= excuses'[m] + 0 /\ tried'[m] <= tried[m] + 1
    BY <1>0, <2>3, <2>4 DEF histories, TypeOK
  <2> HIDE DEF KeepsUnknown
  <2> QED
    BY <1>0, <2>2, <2>3, <2>7, <2>8, HandledKeepsCounts DEF histories
<1>4. ASSUME NEW w \in Workers, NEW m \in Messages, HandlerSucceeds(w, m)
      PROVE  CountInv'
  <2>1. Closed(m, "done") \in Rows /\ Closed(m, "done").phase = "done"
    BY <1>0, ClosedRow
  <2>2. /\ m \in todo[w] /\ Stage(w, m, Closed(m, "done")) /\ UNCHANGED <<msg, crashes>>
        /\ tried'[m] = tried[m] + 1 /\ works'[m] = works[m] + 1 /\ excuses'[m] = excuses[m]
        /\ \A k \in Messages \ {m} : tried'[k] = tried[k] /\ works'[k] = works[k]
                                     /\ excuses'[k] = excuses[k]
    BY <1>0, <1>4 DEF HandlerSucceeds, Current, TypeOK
  <2>3. works[m] <= excuses[m]
    BY <1>0, <2>2, CurrentIsOpen DEF WorksOK
  <2>4. works'[m] <= excuses'[m] + 1 /\ tried'[m] <= tried[m] + 1
    BY <1>0, <2>2, <2>3 DEF TypeOK
  <2> QED
    BY <1>0, <2>1, <2>2, <2>4, HandledKeepsCounts
<1>5. ASSUME NEW w \in Workers, NEW m \in Messages, HandlerFails(w, m)
      PROVE  CountInv'
  <2>1. AfterFailure(m) \in Rows /\ AfterFailure(m).phase \in {"ready", "dropped"}
    BY <1>0, AfterFailureRow
  <2>2. /\ m \in todo[w] /\ Stage(w, m, AfterFailure(m)) /\ UNCHANGED <<msg, crashes>>
        /\ tried'[m] = tried[m] + 1
        /\ \E n \in {0, 1} : works'[m] = works[m] + n /\ excuses'[m] = excuses[m] + n
        /\ \A k \in Messages \ {m} : tried'[k] = tried[k] /\ works'[k] = works[k]
                                     /\ excuses'[k] = excuses[k]
    BY <1>0, <1>5 DEF HandlerFails, Current, TypeOK
  <2>3. works[m] <= excuses[m] /\ tried[m] <= Tries(msg[m]) + crashes
    BY <1>0, <2>2, CurrentIsOpen DEF WorksOK, TriesOK, Handled
  <2>4. works'[m] <= excuses'[m] + 0 /\ tried'[m] <= tried[m] + 1
    BY <1>0, <2>2, <2>3 DEF TypeOK
  <2>5. ASSUME AfterFailure(m).phase = "ready"
        PROVE  tried'[m] <= Tries(AfterFailure(m)) + crashes
    <3>1. msg[m].attempts + 1 < MaxAttempts
      <4>1. CASE msg[m].attempts + 1 >= MaxAttempts
        <5>1. Postponed(m, 0) \in Rows
          BY <1>0, PostponedRow
        <5> QED
          BY <2>5, <4>1, <5>1 DEF AfterFailure, Rows
      <4> QED
        BY <1>0, <4>1, MaxAttemptsType DEF TypeOK, Rows
    <3>2. msg[m].attempts \in Nat /\ msg[m].attempts < AttemptsCap
      BY <1>0, <3>1, MaxAttemptsType, OutboxAssumption DEF TypeOK, Rows, MaxAttempts
    <3>3. AfterFailure(m) = Postponed(m, Delays[msg[m].attempts + 1])
      BY <3>1, <3>2, MaxAttemptsType DEF AfterFailure
    <3>4. AfterFailure(m).attempts = msg[m].attempts + 1
      BY <3>2, <3>3 DEF Postponed
    <3>5. Tries(msg[m]) = msg[m].attempts
      BY <3>1, <3>2, MaxAttemptsType DEF Tries
    <3>6. Tries(AfterFailure(m)) = msg[m].attempts + 1
      BY <3>1, <3>2, <3>4, MaxAttemptsType DEF Tries
    <3> QED
      BY <1>0, <2>2, <2>3, <3>2, <3>5, <3>6 DEF TypeOK
  <2> QED
    BY <1>0, <2>1, <2>2, <2>4, <2>5, HandledKeepsCounts
<1>6. ASSUME NEW w \in Workers, Commit(w)
      PROVE  CountInv'
  <2>1. /\ \A m \in Messages : msg'[m] = IF m \in Handled(w) THEN staged[w][m] ELSE msg[m]
        /\ UNCHANGED <<todo, tried, works, excuses, crashes>>
    BY <1>6 DEF Commit, Committed, histories
  <2>2. /\ \A m \in Messages : staged'[w][m].phase = "absent"
        /\ \A v \in Workers \ {w} : staged'[v] = staged[v]
    BY <1>0, <1>6, UnhandledType DEF Commit, TypeOK
  <2>3. Handled(w)' = {} /\ \A v \in Workers \ {w} : Handled(v)' = Handled(v)
    BY <2>2 DEF Handled
  <2>4. ApartOK'
    BY <1>0, <2>1, <2>3 DEF ApartOK
  <2>5. ASSUME NEW m \in Handled(w)
        PROVE  /\ m \in Messages /\ msg[m].phase = "ready"
               /\ \A v \in Workers \ {w} : staged[v][m].phase = "absent"
    BY <1>0 DEF NobodySharesAMessage, HeldBy, Handled
  <2>6. WorksOK'
    <3> SUFFICES ASSUME NEW m \in Messages, ~IsDone(m)' PROVE works[m] <= excuses[m]
      BY <1>0, <2>1 DEF WorksOK
    <3>1. CASE m \in Handled(w)
      <4>1. staged[w][m].phase # "done"
        BY <2>1, <3>1 DEF IsDone
      <4>2. ~IsDone(m)
        BY <2>5, <3>1, <4>1 DEF IsDone
      <4> QED
        BY <1>0, <4>2 DEF WorksOK
    <3>2. CASE m \notin Handled(w)
      <4>1. ~IsDone(m)
        BY <2>1, <2>2, <3>2 DEF IsDone, Handled
      <4> QED
        BY <1>0, <4>1 DEF WorksOK
    <3> QED
      BY <3>1, <3>2
  <2>7. TriesOK'
    <3> SUFFICES ASSUME NEW m \in Messages
                 PROVE  /\ tried[m] <= MaxAttempts + crashes
                        /\ msg'[m].phase = "absent" => tried[m] = 0
                        /\ msg'[m].phase = "ready" => tried[m] <= Tries(msg[m])' + crashes + 1
                        /\ (msg'[m].phase = "ready" /\ \A v \in Workers : m \notin Handled(v)')
                              => tried[m] <= Tries(msg[m])' + crashes
                        /\ \A v \in Workers : staged'[v][m].phase = "ready" =>
                              tried[m] <= Tries(staged[v][m])' + crashes
      BY <2>1 DEF TriesOK
    <3>1. \A v \in Workers : staged'[v][m].phase = "ready" =>
             tried[m] <= Tries(staged[v][m])' + crashes
      BY <1>0, <2>2 DEF TriesOK, Tries
    <3>2. CASE m \in Handled(w)
      <4>1. msg'[m] = staged[w][m] /\ Tries(msg[m])' = Tries(staged[w][m])
        BY <2>1, <3>2 DEF Tries
      <4>2. msg'[m].phase \in {"ready", "done", "dropped"}
        BY <1>0, <3>2, <4>1 DEF StagedOK
      <4>3. msg'[m].phase = "ready" => tried[m] <= Tries(msg[m])' + crashes
        BY <1>0, <4>1 DEF TriesOK
      <4>4. Tries(msg[m])' \in Nat
        BY <1>0, MaxAttemptsType DEF Tries, TypeOK, Rows
      <4> QED
        BY <1>0, <3>1, <4>2, <4>3, <4>4 DEF TriesOK, TypeOK
    <3>3. CASE m \notin Handled(w)
      <4>1. msg'[m] = msg[m] /\ Tries(msg[m])' = Tries(msg[m])
        BY <2>1, <3>3 DEF Tries
      <4>2. (\A v \in Workers : m \notin Handled(v)') => \A v \in Workers : m \notin Handled(v)
        BY <2>3, <3>3
      <4> QED
        BY <1>0, <3>1, <4>1, <4>2 DEF TriesOK
    <3> QED
      BY <3>2, <3>3
  <2> QED
    BY <1>0, <2>4, <2>6, <2>7 DEF CountInv
<1>7. ASSUME NEW w \in Workers, Crash(w)
      PROVE  CountInv'
  <2>1. /\ UNCHANGED <<msg, tried, works>> /\ crashes' = crashes + 1
        /\ \A m \in Messages : excuses'[m] = IF m \in Handled(w) THEN excuses[m] + 1
                                                                 ELSE excuses[m]
        /\ todo'[w] = {} /\ \A v \in Workers \ {w} : todo'[v] = todo[v]
    BY <1>0, <1>7 DEF Crash, TypeOK
  <2>2. /\ \A m \in Messages : staged'[w][m].phase = "absent"
        /\ \A v \in Workers \ {w} : staged'[v] = staged[v]
    BY <1>0, <1>7, UnhandledType DEF Crash, TypeOK
  <2>3. Handled(w)' = {} /\ \A v \in Workers \ {w} : Handled(v)' = Handled(v)
    BY <2>2 DEF Handled
  <2>4. ApartOK'
    BY <1>0, <2>1, <2>3 DEF ApartOK
  <2>5. WorksOK'
    <3> SUFFICES ASSUME NEW m \in Messages
                 PROVE  /\ works[m] <= 1 + excuses'[m]
                        /\ ~IsDone(m)' => works[m] <= excuses'[m]
      BY <2>1 DEF WorksOK
    <3>1. CASE m \in Handled(w)
      BY <1>0, <2>1, <3>1 DEF WorksOK, TypeOK
    <3>2. CASE m \notin Handled(w)
      <4>1. IsDone(m) => IsDone(m)'
        BY <2>1, <2>2, <3>2 DEF IsDone, Handled
      <4> QED
        BY <1>0, <2>1, <3>2, <4>1 DEF WorksOK
    <3> QED
      BY <3>1, <3>2
  <2>6. TriesOK'
    <3> SUFFICES ASSUME NEW m \in Messages
                 PROVE  /\ tried[m] <= MaxAttempts + crashes + 1
                        /\ msg[m].phase = "absent" => tried[m] = 0
                        /\ msg[m].phase = "ready" => tried[m] <= Tries(msg[m]) + (crashes + 1)
                        /\ \A v \in Workers : staged'[v][m].phase = "ready" =>
                              tried[m] <= Tries(staged[v][m])' + (crashes + 1)
      <4>1. \A m \in Messages : Tries(msg[m])' = Tries(msg[m]) /\ Tries(msg[m]) \in Nat
        BY <1>0, <2>1, MaxAttemptsType DEF Tries, TypeOK, Rows
      <4> QED
        BY <1>0, <2>1, <4>1, MaxAttemptsType DEF TriesOK, TypeOK
    <3>1. Tries(msg[m]) \in Nat
      BY <1>0, MaxAttemptsType DEF Tries, TypeOK, Rows
    <3>2. \A v \in Workers : staged'[v][m].phase = "ready" =>
             tried[m] <= Tries(staged[v][m])' + (crashes + 1)
      <4> SUFFICES ASSUME NEW v \in Workers, staged'[v][m].phase = "ready"
                   PROVE  tried[m] <= Tries(staged[v][m])' + (crashes + 1)
        OBVIOUS
      <4>1. staged'[v] = staged[v]
        BY <2>2
      <4>2. Tries(staged[v][m])' = Tries(staged[v][m]) /\ Tries(staged[v][m]) \in Nat
        BY <1>0, <4>1, MaxAttemptsType DEF Tries, TypeOK, Rows
      <4>3. tried[m] <= Tries(staged[v][m]) + crashes
        BY <1>0, <4>1 DEF TriesOK
      <4> QED
        BY <1>0, <4>2, <4>3 DEF TypeOK
    <3> QED
      BY <1>0, <3>1, <3>2, MaxAttemptsType DEF TriesOK, TypeOK
  <2> QED
    BY <1>0, <2>4, <2>5, <2>6 DEF CountInv
<1>8. ASSUME NEW w \in Workers, Deploy(w)
      PROVE  CountInv'
  <2>1. ApartOK'
    BY <1>0, <1>8 DEF Deploy, ApartOK, Handled
  <2> QED
    BY <1>0, <1>8, <2>1, IdleKeepsCounts DEF Deploy
<1>9. CASE Tick
  <2>1. ApartOK'
    BY <1>0, <1>9 DEF Tick, ApartOK, Handled
  <2> QED
    BY <1>0, <1>9, <2>1, IdleKeepsCounts DEF Tick
<1>10. CASE UNCHANGED vars
  <2>1. ApartOK'
    BY <1>0, <1>10 DEF vars, ApartOK, Handled
  <2> QED
    BY <1>0, <1>10, <2>1, IdleKeepsCounts DEF vars, histories
<1> QED
  BY <1>1, <1>2, <1>3, <1>4, <1>5, <1>6, <1>7, <1>8, <1>9, <1>10 DEF Next, Run, Handle

\* Every repetition of work has its excuse, and handlers are called no more
\* often than there are attempts and dead runs, for any queue and any deploys.
THEOREM RepetitionHasCause == Spec => []RepeatsAreExcused
<1>1. Init => CountInv
  BY InitCounts
<1>2. CountInv /\ [Next]_vars => CountInv'
  BY NextCounts
<1>3. CountInv => RepeatsAreExcused
  BY DEF CountInv, WorksOK, TriesOK, RepeatsAreExcused
<1> QED
  BY <1>1, <1>2, <1>3, PTL DEF Spec

-----------------------------------------------------------------------------
(* The queue implements Delivery: Add submits, a handler that did the work   *)
(* works, a commit settles, everything else changes nothing that is promised.*)

LEMMA InitRefines == Init => Promise!Init
  BY DEF Init, NoRow, StatusOf, Promise!Init

LEMMA NextRefines ==
  Inv /\ [Next]_vars => [Promise!Next]_<<[m \in Messages |-> StatusOf(m)],
                                        {m \in Messages : works[m] > 0}>>
<1> DEFINE S == [m \in Messages |-> StatusOf(m)]
           W == {m \in Messages : works[m] > 0}
<1> SUFFICES ASSUME Inv, [Next]_vars PROVE [Promise!Next]_<<S, W>>
  OBVIOUS
<1> USE DEF histories
<1>0. TypeOK /\ StagedOK /\ NobodySharesAMessage
  BY DEF Inv
<1>1. ASSUME UNCHANGED <<msg, works>>
      PROVE  UNCHANGED <<S, W>>
  BY <1>1 DEF StatusOf
<1>2. ASSUME NEW m \in Messages, Add(m)
      PROVE  Promise!Submit(m)
  <2>1. /\ msg' = [msg EXCEPT ![m] = [phase |-> "ready", attempts |-> 0, due |-> now]]
        /\ msg[m].phase = "absent"
    BY <1>2 DEF Add
  <2>2. S[m] = "none" /\ StatusOf(m)' = "pending"
    BY <1>0, <2>1 DEF StatusOf, TypeOK
  <2>3. \A k \in Messages \ {m} : StatusOf(k)' = StatusOf(k)
    BY <1>0, <2>1 DEF StatusOf, TypeOK
  <2>4. S' = [S EXCEPT ![m] = "pending"]
    BY <2>2, <2>3
  <2>5. W' = W
    BY <1>2 DEF Add
  <2> QED
    BY <2>2, <2>4, <2>5 DEF Promise!Submit
<1>3. ASSUME NEW w \in Workers, NEW m \in Messages, Current(w, m), UNCHANGED msg,
             works' = [works EXCEPT ![m] = @ + 1]
      PROVE  Promise!Work(m)
  <2>1. m \in HeldBy(w)
    BY <1>3 DEF Current, HeldBy
  <2>2. S[m] = "pending"
    BY <1>0, <2>1 DEF NobodySharesAMessage, StatusOf
  <2>3. W' = W \cup {m}
    BY <1>0, <1>3 DEF TypeOK
  <2>4. S' = S
    BY <1>3 DEF StatusOf
  <2> QED
    BY <2>2, <2>3, <2>4 DEF Promise!Work
<1>4. ASSUME NEW w \in Workers, Commit(w)
      PROVE  Promise!Settle
  <2>1. \A m \in Messages :
           msg'[m] = IF m \in Handled(w) THEN staged[w][m] ELSE msg[m]
    BY <1>4 DEF Commit, Committed
  <2>2. W' = W
    BY <1>4 DEF Commit
  <2>3. ASSUME NEW m \in Messages
        PROVE  \/ S'[m] = S[m]
               \/ S[m] = "pending" /\ S'[m] = "delivered" /\ m \in W
               \/ S[m] = "pending" /\ S'[m] = "abandoned"
    <3>1. CASE m \in Handled(w)
      <4>1. msg[m].phase = "ready"
        BY <1>0, <3>1 DEF NobodySharesAMessage, HeldBy
      <4>2. /\ msg'[m].phase \in {"ready", "done", "dropped"}
            /\ msg'[m].phase = "done" => m \in W
        BY <1>0, <2>1, <3>1 DEF StagedOK
      <4> QED
        BY <4>1, <4>2 DEF StatusOf
    <3>2. CASE m \notin Handled(w)
      <4>1. msg'[m] = msg[m]
        BY <2>1, <3>2
      <4>2. StatusOf(m)' = StatusOf(m)
        BY <4>1 DEF StatusOf
      <4> QED
        BY <4>2
    <3> QED
      BY <3>1, <3>2
  <2>4. S' \in [Messages -> {"none", "pending", "delivered", "abandoned"}]
    <3>1. TypeOK'
      BY NextInv DEF Inv
    <3>2. \A m \in Messages : msg'[m].phase \in Phases
      BY <3>1 DEF TypeOK, Rows
    <3>3. \A m \in Messages :
             StatusOf(m)' \in {"none", "pending", "delivered", "abandoned"}
      BY <3>2 DEF Phases, StatusOf
    <3> QED
      BY <3>3
  <2> QED
    BY <2>2, <2>3, <2>4 DEF Promise!Settle
<1>5. ASSUME NEW w \in Workers, NEW m \in Messages, SkipUnknown(w, m)
      PROVE  UNCHANGED <<S, W>>
  BY <1>1, <1>5 DEF SkipUnknown
<1>6. ASSUME NEW w \in Workers, NEW m \in Messages, HandlerSucceeds(w, m)
      PROVE  Promise!Work(m)
  BY <1>3, <1>6 DEF HandlerSucceeds
<1>7. ASSUME NEW w \in Workers, NEW m \in Messages, HandlerFails(w, m)
      PROVE  Promise!Work(m) \/ UNCHANGED <<S, W>>
  <2>1. PICK n \in {0, 1} : works' = [works EXCEPT ![m] = @ + n]
    BY <1>7 DEF HandlerFails
  <2>2. CASE n = 0
    BY <1>0, <1>1, <1>7, <2>1, <2>2 DEF HandlerFails, TypeOK
  <2>3. CASE n = 1
    BY <1>3, <1>7, <2>1, <2>3 DEF HandlerFails
  <2> QED
    BY <2>2, <2>3
<1>8. ASSUME NEW w \in Workers, TakeBatch(w) \/ Crash(w) \/ Deploy(w)
      PROVE  UNCHANGED <<S, W>>
  BY <1>1, <1>8 DEF TakeBatch, Crash, Deploy
<1>9. CASE Tick \/ UNCHANGED vars
  BY <1>1, <1>9 DEF Tick, vars
<1> QED
  BY <1>2, <1>4, <1>5, <1>6, <1>7, <1>8, <1>9 DEF Next, Run, Handle, Promise!Next

\* Every behaviour of the queue is one that Delivery promises: nothing is
\* delivered without its work and nothing that is settled comes back.
THEOREM Refinement == Spec => ImplementsDelivery
<1>1. Init => Promise!Init
  BY InitRefines
<1>2. Inv /\ [Next]_vars => [Promise!Next]_<<[m \in Messages |-> StatusOf(m)],
                                             {m \in Messages : works[m] > 0}>>
  BY NextRefines
<1> QED
  BY <1>1, <1>2, Invariance, PTL DEF Spec, ImplementsDelivery, Promise!Spec
=============================================================================
