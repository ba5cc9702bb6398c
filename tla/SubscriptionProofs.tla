-------------------------- MODULE SubscriptionProofs --------------------------
(* What holds of one subscription for any number of requests, workers,       *)
(* sweeps and webhooks, any grants, rates, attempts and failures.            *)
EXTENDS Subscription, TLAPS

(* The parts of the inductive invariant, beside the type.                    *)

\* A message in a worker's hands is still queued and in no other hands, and a
\* queued message has attempts left.
QueueOK ==
    /\ \A m \in Messages : Queued(m) => outbox[m].attempts < MaxAttempts
    /\ \A w \in Workers : held[w] # None => Queued(held[w])
    /\ \A v, w \in Workers : v # w /\ held[v] # None => held[v] # held[w]

\* Dates on their way were committed before: what a request committed, what a
\* call will write, what is late, and what the panel shows of ours.
DatesOK ==
    /\ row.expires \in dates
    /\ \A r \in Requests : req[r].pc = "granted" => req[r].mem.expires \in dates
    /\ OnlyCommittedDatesTravel

\* A patch is only on its way while the panel user is there and ours: one that
\* is made by hand where ours was, or where nobody was, meets none.
ForeignOK ==
    ~(Exists /\ panel.ours) =>
        /\ \A c \in Callers : call[c].at # "update"
        /\ \A w \in late : w.op # "update"

\* Before the first commit there is no date and nobody who saw a row.
FirstOK ==
    row.status = "absent" =>
        /\ row.expires = 0
        /\ \A r \in Requests : req[r].pc = "loaded" => req[r].was = "absent"

\* Without plan changes the date a request is about to write is covered by the
\* journal entry that comes with it.
JournalOK ==
    Rates = {} =>
        /\ \A d \in dates : d <= owed
        /\ \A r \in Requests :
              req[r].pc = "loaded" =>
                  ~req[r].restart /\ req[r].mem.expires <= OwedAfter(r)

\* Unless grants overlapped, row and journal agree, and they will after the
\* next commit.
SerialOK ==
    ~overlapped =>
        /\ row.expires = owed
        /\ \A r \in Requests :
              req[r].pc = "loaded" => req[r].mem.expires = OwedAfter(r)

\* Unless the last grant overtook somebody, the expiry task holds a row that is
\* due, and a request activates the row from the date that the row has.
ExpiredOK ==
    ~overtaken =>
        /\ row.status = "expired" => row.expires <= now
        /\ cron # None => row.expires <= now
        /\ \A r \in Requests : req[r].pc = "granted" => req[r].mem.expires = row.expires

Inv == TypeOK /\ QueueOK /\ DatesOK /\ ForeignOK /\ FirstOK /\ JournalOK /\ SerialOK
       /\ ExpiredOK

-----------------------------------------------------------------------------
(* The pure rules stay within the types.                                     *)

LEMMA ExtendType ==
  ASSUME NEW r \in Rows, NEW t \in Nat, NEW d \in Nat
  PROVE  Extend(r, t, d) \in Nat
  BY DEF Extend, Rows

LEMMA ProductType == ASSUME NEW a \in Nat, NEW b \in Nat PROVE a * b \in Nat
  OBVIOUS

LEMMA QuotientType == ASSUME NEW a \in Nat, NEW b \in Nat \ {0} PROVE a \div b \in Nat
  OBVIOUS

LEMMA ConvertType ==
  ASSUME NEW e \in Nat, NEW t \in Nat, NEW rate \in Rates
  PROVE  ConvertRemainder(e, t, rate) \in Nat
<1>1. rate[1] \in Nat /\ rate[2] \in Nat \ {0}
  BY NumbersAssumption
<1>2. CASE e <= t
  BY <1>2 DEF ConvertRemainder
<1>3. CASE ~(e <= t)
  <2>1. e - t \in Nat
    BY <1>3
  <2>2. (e - t) * rate[1] \in Nat
    BY <1>1, <2>1, ProductType
  <2>3. ((e - t) * rate[1]) \div rate[2] \in Nat
    BY <1>1, <2>2, QuotientType
  <2> QED
    BY <1>3, <2>3 DEF ConvertRemainder
<1> QED
  BY <1>2, <1>3

LEMMA DesiredType == ASSUME NEW r \in Rows PROVE Desired(r) \in Images
  BY DEF Desired, Rows, Images

LEMMA WrittenType ==
  ASSUME panel \in PanelUsers, NEW op, NEW image \in Images
  PROVE  Written(op, image) \in PanelUsers
  BY DEF Written, PanelUsers, Images

LEMMA ResolveType == ASSUME NEW e, NEW t PROVE ResolveState(e, t) \in {"expired", "active"}
  BY DEF ResolveState

\* The fields a request or a call is made of.
LEMMA PartsType ==
  ASSUME TypeOK
  PROVE  /\ \A r \in Requests :
              /\ req[r].mem \in Rows /\ req[r].at \in Nat /\ req[r].days \in Nat
              /\ req[r].was \in Statuses /\ req[r].mem.expires \in Nat
         /\ \A c \in Callers : call[c] \in PanelCalls /\ call[c].want \in Images
         /\ \A m \in Messages : outbox[m] \in OutboxRows
         /\ row.status \in Statuses /\ row.expires \in Nat
  BY DEF TypeOK, RequestStates, PanelCalls, Rows

LEMMA IdleTypes ==
  /\ \A pc \in {"idle", "loaded", "granted", "provisioning", "done"} : At(pc) \in RequestStates
  /\ IdleCall \in PanelCalls /\ Ended("ok") \in PanelCalls /\ Ended("failed") \in PanelCalls
  /\ IdleRequest \in RequestStates
  /\ NoRow \in Rows /\ NoMessage \in OutboxRows /\ Closed \in OutboxRows
  /\ NoPanelUser \in PanelUsers /\ MadeByHand \in PanelUsers
<1>1. NoRow \in Rows
  BY DEF NoRow, Rows, Statuses
<1>2. IdleRequest \in RequestStates
  BY <1>1 DEF IdleRequest, RequestStates, Statuses
<1>3. \A pc \in {"idle", "loaded", "granted", "provisioning", "done"} : At(pc) \in RequestStates
  BY <1>2 DEF At, RequestStates
<1>4. /\ IdleCall \in PanelCalls
      /\ Ended("ok") \in PanelCalls /\ Ended("failed") \in PanelCalls
  BY DEF IdleCall, Ended, NoImage, PanelCalls, Images
<1>5. NoPanelUser \in PanelUsers /\ MadeByHand \in PanelUsers
  BY DEF NoPanelUser, MadeByHand, PanelUsers
<1>6. NoMessage \in OutboxRows /\ Closed \in OutboxRows
  BY NumbersAssumption DEF NoMessage, Closed, OutboxRows
<1> QED
  BY <1>1, <1>2, <1>3, <1>4, <1>5, <1>6

\* Writing one entry of a function of the right type keeps the type.
LEMMA QueuedType ==
  ASSUME TypeOK, NEW m \in Messages
  PROVE  Enqueued(m) \in [Messages -> OutboxRows]
  BY NumbersAssumption DEF Enqueued, TypeOK, OutboxRows

LEMMA ToType ==
  ASSUME TypeOK, NEW c \in Callers,
         NEW at \in {"idle", "find", "create", "update", "ok", "failed"}, To(c, at)
  PROVE  call' \in [Callers -> PanelCalls]
<1>1. [at |-> at, want |-> call[c].want] \in PanelCalls
  BY PartsType DEF PanelCalls
<1> QED
  BY <1>1, IdleTypes DEF To, TypeOK

LEMMA LoadedType ==
  ASSUME TypeOK, NEW r \in Requests, NEW e \in Nat, NEW d \in Nat,
         NEW restart \in BOOLEAN, Loaded(r, e, d, restart)
  PROVE  req' \in [Requests -> RequestStates]
<1>1. [pc |-> "loaded", insert |-> row.status = "absent", was |-> row.status,
       mem |-> [status |-> "pending", expires |-> e],
       at |-> now, days |-> d, restart |-> restart] \in RequestStates
  BY DEF TypeOK, RequestStates, Rows, Statuses
<1> QED
  BY <1>1 DEF Loaded, TypeOK

LEMMA InitType == Init => TypeOK
<1> SUFFICES ASSUME Init PROVE TypeOK
  OBVIOUS
<1>1. /\ [status |-> "active", expires |-> 1] \in Rows
      /\ [status |-> "ACTIVE", expires |-> 1, ours |-> TRUE] \in PanelUsers
  BY DEF Rows, Statuses, PanelUsers
<1>2. row \in Rows /\ panel \in PanelUsers /\ linked \in BOOLEAN
  BY <1>1, IdleTypes DEF Init
<1>3. row.expires \in Nat
  BY <1>2 DEF Rows
<1>4. /\ outbox \in [Messages -> OutboxRows]
      /\ req \in [Requests -> RequestStates]
      /\ call \in [Callers -> PanelCalls]
  BY IdleTypes DEF Init
<1>5. now \in Nat /\ drift \in 0 .. MaxDrift /\ faults \in 0 .. MaxFaults
  BY NumbersAssumption DEF Init
<1>6. blocked \in BOOLEAN /\ overlapped \in BOOLEAN /\ overtaken \in BOOLEAN
  BY DEF Init
<1> QED
  BY <1>2, <1>3, <1>4, <1>5, <1>6 DEF Init, TypeOK

-----------------------------------------------------------------------------
(* Every step keeps the type.                                                *)

LEMMA RequestKeepsType ==
  ASSUME TypeOK, QueueOK, NEW r \in Requests, RequestStep(r)
  PROVE  TypeOK'
<1> USE DEF outside, external, tasks, history
<1>0. r \in Messages /\ r \in Callers
  BY DEF Messages, Callers
<1>1. CASE LoadForGrant(r)
  <2>1. PICK d \in Days : Loaded(r, Extend(row, now, d), d, FALSE)
    BY <1>1 DEF LoadForGrant
  <2>2. d \in Nat /\ Extend(row, now, d) \in Nat
    BY NumbersAssumption, ExtendType DEF TypeOK
  <2>3. req' \in [Requests -> RequestStates]
    BY <2>1, <2>2, LoadedType
  <2> QED
    BY <1>1, <2>3 DEF LoadForGrant, TypeOK
<1>2. CASE LoadForChange(r)
  <2>1. PICK rate \in Rates :
           LET d == ConvertRemainder(row.expires, now, rate)
           IN  Loaded(r, now + d, d, TRUE)
    BY <1>2 DEF LoadForChange
  <2>2. ConvertRemainder(row.expires, now, rate) \in Nat
    BY PartsType, ConvertType DEF TypeOK
  <2>3. now + ConvertRemainder(row.expires, now, rate) \in Nat
    BY <2>2 DEF TypeOK
  <2>4. req' \in [Requests -> RequestStates]
    BY <2>1, <2>2, <2>3, LoadedType
  <2> QED
    BY <1>2, <2>4 DEF LoadForChange, TypeOK
<1>3. CASE CommitGrant(r)
  <2>1. row' \in Rows
    BY <1>3, PartsType DEF CommitGrant, Rows, Statuses
  <2>2. outbox' \in [Messages -> OutboxRows]
    BY <1>0, <1>3, QueuedType DEF CommitGrant
  <2>3. [At("granted") EXCEPT !.mem = req[r].mem] \in RequestStates
    BY IdleTypes, PartsType DEF RequestStates
  <2>4. req' \in [Requests -> RequestStates]
    BY <1>3, <2>3 DEF CommitGrant, TypeOK
  <2>5. owed' \in Nat
    BY <1>3, PartsType DEF CommitGrant, OwedAfter, Later, TypeOK
  <2>6. dates' \subseteq Nat /\ overlapped' \in BOOLEAN /\ overtaken' \in BOOLEAN
    BY <1>3, PartsType DEF CommitGrant, OvertakenBy, TypeOK
  <2> QED
    BY <1>3, <2>1, <2>2, <2>4, <2>5, <2>6 DEF CommitGrant, TypeOK
<1>4. CASE GrantConflicts(r)
  <2>1. req' \in [Requests -> RequestStates]
    BY <1>4, IdleTypes DEF GrantConflicts, TypeOK
  <2> QED
    BY <1>4, <2>1 DEF GrantConflicts, TypeOK
<1>5. CASE Activate(r)
  <2> DEFINE mem == [req[r].mem EXCEPT !.status = ResolveState(req[r].mem.expires, now)]
  <2>1. mem \in Rows /\ mem.status \in {"expired", "active"}
    BY PartsType, ResolveType DEF Rows, Statuses
  <2>2. row' = [row EXCEPT !.status = mem.status]
    BY <1>5 DEF Activate
  <2>3. row' \in Rows
    BY <2>1, <2>2 DEF TypeOK, Rows, Statuses
  <2>4. [at |-> "find", want |-> Desired(mem)] \in PanelCalls
    BY <2>1, DesiredType DEF PanelCalls
  <2>5. call' \in [Callers -> PanelCalls]
    BY <1>5, <2>4 DEF Activate, TypeOK
  <2>6. req' \in [Requests -> RequestStates]
    BY <1>5, IdleTypes DEF Activate, TypeOK
  <2> QED
    BY <1>5, <2>3, <2>5, <2>6 DEF Activate, TypeOK
<1>6. CASE Succeed(r)
  <2>2. outbox' \in [Messages -> OutboxRows]
    BY <1>6, IdleTypes DEF Succeed, TypeOK
  <2>3. req' \in [Requests -> RequestStates] /\ call' \in [Callers -> PanelCalls]
    BY <1>6, IdleTypes DEF Succeed, TypeOK
  <2> QED
    BY <1>6, <2>2, <2>3 DEF Succeed, TypeOK
<1>7. CASE Fail(r)
  <2>1. row' \in Rows
    BY <1>7 DEF Fail, TypeOK, Rows, Statuses
  <2>2. req' \in [Requests -> RequestStates] /\ call' \in [Callers -> PanelCalls]
    BY <1>7, IdleTypes DEF Fail, TypeOK
  <2> QED
    BY <1>7, <2>1, <2>2 DEF Fail, TypeOK
<1>8. CASE RequestDies(r)
  <2>1. req' \in [Requests -> RequestStates] /\ call' \in [Callers -> PanelCalls]
    BY <1>8, IdleTypes DEF RequestDies, TypeOK
  <2>2. faults' \in 0 .. MaxFaults
    BY <1>8, NumbersAssumption DEF RequestDies, Fault, TypeOK
  <2> QED
    BY <1>8, <2>1, <2>2 DEF RequestDies, TypeOK
<1> QED
  BY <1>1, <1>2, <1>3, <1>4, <1>5, <1>6, <1>7, <1>8 DEF RequestStep

LEMMA CallKeepsType ==
  ASSUME TypeOK, NEW c \in Callers, PanelCall(c)
  PROVE  TypeOK'
<1> USE DEF outside, external, tasks, history
<1>1. CASE Find(c)
  <2>1. PICK at \in {"ok", "update", "create"} : To(c, at)
    BY <1>1 DEF Find
  <2>2. call' \in [Callers -> PanelCalls]
    BY <2>1, ToType
  <2>3. linked' \in BOOLEAN
    BY <1>1 DEF Find, TypeOK
  <2> QED
    BY <1>1, <2>2, <2>3 DEF Find, TypeOK
<1>2. CASE Write(c)
  <2>1. call' \in [Callers -> PanelCalls]
    BY <1>2, ToType DEF Write
  <2>2. panel' \in PanelUsers
    BY <1>2, PartsType, WrittenType DEF Write, TypeOK
  <2> QED
    BY <1>2, <2>1, <2>2 DEF Write, TypeOK
<1>3. CASE WriteRejected(c)
  <2>1. call' \in [Callers -> PanelCalls]
    BY <1>3, ToType DEF WriteRejected
  <2> QED
    BY <1>3, <2>1 DEF WriteRejected, TypeOK
<1>4. CASE PanelSilent(c)
  <2>1. call' \in [Callers -> PanelCalls]
    BY <1>4, ToType DEF PanelSilent
  <2>2. faults' \in 0 .. MaxFaults
    BY <1>4, NumbersAssumption DEF PanelSilent, Fault, TypeOK
  <2> QED
    BY <1>4, <2>1, <2>2 DEF PanelSilent, TypeOK
<1>5. CASE AnswerLost(c)
  <2>1. call' \in [Callers -> PanelCalls]
    BY <1>5, ToType DEF AnswerLost
  <2>2. faults' \in 0 .. MaxFaults
    BY <1>5, NumbersAssumption DEF AnswerLost, Fault, TypeOK
  <2>3. [op |-> call[c].at, want |-> call[c].want] \in LateWrites
    BY <1>5, PartsType DEF AnswerLost, LateWrites
  <2>4. late' \subseteq LateWrites
    BY <1>5, <2>3 DEF AnswerLost, TypeOK
  <2> QED
    BY <1>5, <2>1, <2>2, <2>4 DEF AnswerLost, TypeOK
<1> QED
  BY <1>1, <1>2, <1>3, <1>4, <1>5 DEF PanelCall

LEMMA WorkerKeepsType ==
  ASSUME TypeOK, QueueOK, NEW w \in Workers, WorkerStep(w)
  PROVE  TypeOK'
<1> USE DEF outside, external, tasks, history
<1>0. w \in Callers
  BY DEF Callers
<1>1. ASSUME NEW m \in Messages, Take(w, m)
      PROVE  TypeOK'
  BY <1>1 DEF Take, TypeOK
<1>2. CASE HandlerReads(w)
  <2>1. [at |-> "find", want |-> Desired(row)] \in PanelCalls
    BY DesiredType DEF PanelCalls, TypeOK
  <2>2. call' \in [Callers -> PanelCalls]
    BY <1>2, <2>1, IdleTypes DEF HandlerReads, TypeOK
  <2> QED
    BY <1>2, <2>2 DEF HandlerReads, TypeOK
<1>3. ASSUME Release(w)
      PROVE  /\ held' \in [Workers -> Messages \cup {None}]
             /\ call' \in [Callers -> PanelCalls]
             /\ UNCHANGED <<row, external, req, cron, history>>
  BY <1>3, IdleTypes DEF Release, TypeOK
<1>4. CASE Deliver(w)
  <2>1. held[w] \in Messages
    BY <1>4 DEF Deliver, TypeOK
  <2>3. outbox' \in [Messages -> OutboxRows]
    BY <1>4, <2>1, IdleTypes DEF Deliver, TypeOK
  <2> QED
    BY <1>3, <1>4, <2>3 DEF Deliver, TypeOK
<1>5. CASE GiveBack(w)
  <2> DEFINE a == outbox[held[w]].attempts + 1
             x == [state |-> IF a >= MaxAttempts THEN "dropped" ELSE "queued", attempts |-> a]
  <2>1. held[w] \in Messages /\ Queued(held[w])
    BY <1>5 DEF GiveBack, TypeOK, QueueOK
  <2>2. a \in 0 .. MaxAttempts
    BY <2>1, PartsType, NumbersAssumption DEF QueueOK, OutboxRows
  <2>3. x \in OutboxRows
    BY <2>2 DEF OutboxRows
  <2>4. outbox' \in [Messages -> OutboxRows]
    BY <1>5, <2>3 DEF GiveBack, TypeOK
  <2> QED
    BY <1>3, <1>5, <2>4 DEF GiveBack, TypeOK
<1>6. CASE WorkerDies(w)
  <2>1. faults' \in 0 .. MaxFaults
    BY <1>6, NumbersAssumption DEF WorkerDies, Fault, TypeOK
  <2> QED
    BY <1>3, <1>6, <2>1 DEF WorkerDies, TypeOK
<1> QED
  BY <1>1, <1>2, <1>4, <1>5, <1>6 DEF WorkerStep

LEMMA OtherKeepsType ==
  ASSUME TypeOK, CronStep \/ SweepStep \/ LateStep \/ Outside
  PROVE  TypeOK'
<1> USE DEF outside, external, tasks, history
<1>1. ASSUME NEW p \in Passes, ExpireLoads(p) PROVE TypeOK'
  BY <1>1 DEF ExpireLoads, TypeOK
<1>2. ASSUME NEW p \in Passes, ExpireCommits(p) PROVE TypeOK'
  <2>1. outbox' \in [Messages -> OutboxRows]
    BY <1>2, QueuedType DEF ExpireCommits, Messages
  <2>2. row' \in Rows
    BY <1>2 DEF ExpireCommits, TypeOK, Rows, Statuses
  <2> QED
    BY <1>2, <2>1, <2>2 DEF ExpireCommits, TypeOK
<1>3. ASSUME ExpireDies PROVE TypeOK'
  <2>1. faults' \in 0 .. MaxFaults
    BY <1>3, NumbersAssumption DEF ExpireDies, Fault, TypeOK
  <2> QED
    BY <1>3, <2>1 DEF ExpireDies, TypeOK
<1>4. ASSUME NEW s \in Sweepers, SweepLoads(s) PROVE TypeOK'
  <2>1. [at |-> "find", want |-> Desired(row)] \in PanelCalls
    BY DesiredType DEF PanelCalls, TypeOK
  <2>2. call' \in [Callers -> PanelCalls]
    BY <1>4, <2>1 DEF SweepLoads, TypeOK
  <2> QED
    BY <1>4, <2>2 DEF SweepLoads, TypeOK
<1>5. ASSUME NEW s \in Sweepers, SweepStops(s) \/ SweepEnds(s) PROVE TypeOK'
  BY <1>5, IdleTypes DEF SweepStops, SweepEnds, TypeOK
<1>6. ASSUME NEW w \in late, LateWrite(w) PROVE TypeOK'
  <2>1. w.want \in Images
    BY DEF TypeOK, LateWrites
  <2>2. panel' \in PanelUsers /\ linked' \in BOOLEAN
    BY <1>6, <2>1, WrittenType DEF LateWrite, TypeOK
  <2> QED
    BY <1>6, <2>2 DEF LateWrite, TypeOK
<1>7. ASSUME NEW w \in late, LateLost(w) PROVE TypeOK'
  BY <1>7 DEF LateLost, TypeOK
<1>8. ASSUME NEW h \in Hooks, WebhookArrives(h) PROVE TypeOK'
  <2>1. outbox' \in [Messages -> OutboxRows]
    BY <1>8, QueuedType DEF WebhookArrives, Messages
  <2> QED
    BY <1>8, <2>1 DEF WebhookArrives, TypeOK
<1>9. ASSUME OperatorToggles PROVE TypeOK'
  <2>1. panel' \in PanelUsers
    BY <1>9 DEF OperatorToggles, TypeOK, PanelUsers
  <2>2. drift' \in 0 .. MaxDrift
    BY <1>9, NumbersAssumption DEF OperatorToggles, TypeOK
  <2> QED
    BY <1>9, <2>1, <2>2 DEF OperatorToggles, TypeOK
<1>10. ASSUME OperatorDeletes PROVE TypeOK'
  <2>2. call' \in [Callers -> PanelCalls]
    BY <1>10, PartsType, IdleTypes DEF OperatorDeletes
  <2>3. panel' \in PanelUsers /\ late' \subseteq LateWrites
    BY <1>10, IdleTypes DEF OperatorDeletes, TypeOK
  <2>4. drift' \in 0 .. MaxDrift
    BY <1>10, NumbersAssumption DEF OperatorDeletes, TypeOK
  <2> QED
    BY <1>10, <2>2, <2>3, <2>4 DEF OperatorDeletes, TypeOK
<1>11. ASSUME OperatorCreates PROVE TypeOK'
  <2>1. drift' \in 0 .. MaxDrift
    BY <1>11, NumbersAssumption DEF OperatorCreates, TypeOK
  <2> QED
    BY <1>11, <2>1, IdleTypes DEF OperatorCreates, TypeOK
<1>12. ASSUME EarlierRowBreaks PROVE TypeOK'
  <2>1. faults' \in 0 .. MaxFaults
    BY <1>12, NumbersAssumption DEF EarlierRowBreaks, Fault, TypeOK
  <2> QED
    BY <1>12, <2>1 DEF EarlierRowBreaks, TypeOK
<1>13. ASSUME EarlierRowMends PROVE TypeOK'
  BY <1>13 DEF EarlierRowMends, TypeOK
<1>14. ASSUME Tick PROVE TypeOK'
  BY <1>14 DEF Tick, TypeOK
<1> QED
  BY <1>1, <1>2, <1>3, <1>4, <1>5, <1>6, <1>7, <1>8, <1>9, <1>10, <1>11,
     <1>12, <1>13, <1>14
     DEF CronStep, SweepStep, LateStep, Outside

LEMMA NextKeepsType == TypeOK /\ QueueOK /\ [Next]_vars => TypeOK'
<1> SUFFICES ASSUME TypeOK, QueueOK, [Next]_vars PROVE TypeOK'
  OBVIOUS
<1>1. CASE UNCHANGED vars
  BY <1>1 DEF vars, outside, external, tasks, history, TypeOK
<1>2. CASE Next
  BY <1>2, RequestKeepsType, CallKeepsType, WorkerKeepsType, OtherKeepsType DEF Next
<1> QED
  BY <1>1, <1>2

-----------------------------------------------------------------------------
(* Every step keeps the queue in order.                                      *)

LEMMA QueueSteps ==
  ASSUME [Next]_vars
  PROVE  \/ UNCHANGED <<outbox, held>>
         \/ \E r \in Requests : CommitGrant(r) \/ Succeed(r)
         \/ \E w \in Workers : \/ \E m \in Messages : Take(w, m)
                               \/ Deliver(w) \/ GiveBack(w) \/ WorkerDies(w)
         \/ \E p \in Passes : ExpireCommits(p)
         \/ \E h \in Hooks : WebhookArrives(h)
<1> USE DEF outside, external, tasks, history
<1>1. CASE UNCHANGED vars
  BY <1>1 DEF vars
<1>2. ASSUME NEW r \in Requests, RequestStep(r)
      PROVE  UNCHANGED <<outbox, held>> \/ CommitGrant(r) \/ Succeed(r)
  BY <1>2 DEF RequestStep, LoadForGrant, LoadForChange, GrantConflicts, Activate,
              Fail, RequestDies
<1>3. ASSUME NEW c \in Callers, PanelCall(c)
      PROVE  UNCHANGED <<outbox, held>>
  BY <1>3 DEF PanelCall, Find, Write, WriteRejected, PanelSilent, AnswerLost
<1>4. ASSUME NEW w \in Workers, HandlerReads(w)
      PROVE  UNCHANGED <<outbox, held>>
  BY <1>4 DEF HandlerReads
<1>5. CASE CronStep
  BY <1>5 DEF CronStep, ExpireLoads, ExpireDies
<1>6. CASE SweepStep \/ LateStep
  BY <1>6 DEF SweepStep, SweepLoads, SweepStops, SweepEnds, LateStep, LateWrite, LateLost
<1>7. CASE Outside
  BY <1>7 DEF Outside, OperatorToggles, OperatorDeletes,
                OperatorCreates, EarlierRowBreaks, EarlierRowMends, Tick
<1> QED
  BY <1>1, <1>2, <1>3, <1>4, <1>5, <1>6, <1>7 DEF Next, WorkerStep

LEMMA EnqueueKeepsQueue ==
  ASSUME TypeOK, QueueOK, NEW m \in Messages, outbox' = Enqueued(m), held' = held
  PROVE  QueueOK'
<1>1. \A k \in Messages : Queued(k) => Queued(k)'
  BY DEF Queued, Enqueued, TypeOK, OutboxRows
<1>2. \A k \in Messages : Queued(k)' => outbox'[k].attempts < MaxAttempts
  BY NumbersAssumption DEF QueueOK, Queued, Enqueued, TypeOK
<1>3. \A w \in Workers : held[w] # None => held[w] \in Messages
  BY DEF TypeOK
<1> QED
  BY <1>1, <1>2, <1>3 DEF QueueOK

\* Letting go of a message whose new row, if queued, has attempts left.
LEMMA ReleaseKeepsQueue ==
  ASSUME TypeOK, QueueOK, NEW w \in Workers, held[w] # None,
         held' = [held EXCEPT ![w] = None],
         NEW x, outbox' = [outbox EXCEPT ![held[w]] = x],
         x.state = "queued" => x.attempts < MaxAttempts
  PROVE  QueueOK'
<1>1. held[w] \in Messages
  BY DEF TypeOK
<1>2. \A m \in Messages : Queued(m)' => outbox'[m].attempts < MaxAttempts
  BY <1>1 DEF QueueOK, Queued, TypeOK
<1>3. ASSUME NEW v \in Workers, held'[v] # None
      PROVE  outbox'[held'[v]].state = "queued"
  <2>1. v # w /\ held'[v] = held[v]
    BY <1>3 DEF TypeOK
  <2>2. held[v] # held[w] /\ Queued(held[v]) /\ held[v] \in Messages
    BY <1>3, <2>1 DEF QueueOK, TypeOK
  <2>3. outbox'[held[v]] = outbox[held[v]]
    BY <2>2 DEF TypeOK
  <2> QED
    BY <2>1, <2>2, <2>3 DEF Queued
<1>4. \A u, v \in Workers : u # v /\ held'[u] # None => held'[u] # held'[v]
  BY DEF QueueOK, TypeOK
<1> QED
  BY <1>2, <1>3, <1>4 DEF QueueOK, Queued

LEMMA NextKeepsQueue == TypeOK /\ QueueOK /\ [Next]_vars => QueueOK'
<1> SUFFICES ASSUME TypeOK, QueueOK, [Next]_vars PROVE QueueOK'
  OBVIOUS
<1> USE DEF outside, external, tasks, history
<1>1. CASE UNCHANGED <<outbox, held>>
  BY <1>1 DEF QueueOK, Queued
<1>2. ASSUME NEW r \in Requests, CommitGrant(r) PROVE QueueOK'
  BY <1>2, EnqueueKeepsQueue DEF CommitGrant, Messages
<1>3. ASSUME NEW r \in Requests, Succeed(r) PROVE QueueOK'
  <2>1. r \in Messages /\ held' = held /\ outbox' = [outbox EXCEPT ![r] = Closed]
    BY <1>3 DEF Succeed, Messages
  <2>2. \A m \in Messages \ {r} : outbox'[m] = outbox[m]
    BY <2>1 DEF TypeOK
  <2>3. \A w \in Workers : held[w] # None => held[w] \in Messages \ {r}
    BY <1>3 DEF Succeed, Locked, TypeOK
  <2>4. ~Queued(r)'
    BY <2>1 DEF Queued, Closed, TypeOK
  <2> QED
    BY <2>1, <2>2, <2>3, <2>4 DEF QueueOK, Queued
<1>4. ASSUME NEW w \in Workers, NEW m \in Messages, Take(w, m) PROVE QueueOK'
  <2>1. /\ held' = [held EXCEPT ![w] = m] /\ outbox' = outbox
        /\ Queued(m) /\ \A v \in Workers : held[v] # m
    BY <1>4 DEF Take, Locked
  <2> QED
    BY <2>1 DEF QueueOK, Queued, TypeOK
<1>5. ASSUME NEW w \in Workers, Deliver(w) PROVE QueueOK'
  <2>1. held[w] # None /\ outbox' = [outbox EXCEPT ![held[w]] = Closed]
    BY <1>5 DEF Deliver
  <2>2. Closed.state # "queued"
    BY DEF Closed
  <2>3. held' = [held EXCEPT ![w] = None]
    BY <1>5 DEF Deliver, Release
  <2> QED
    BY <2>1, <2>2, <2>3, ReleaseKeepsQueue
<1>6. ASSUME NEW w \in Workers, GiveBack(w) PROVE QueueOK'
  <2> DEFINE a == outbox[held[w]].attempts + 1
             x == [state |-> IF a >= MaxAttempts THEN "dropped" ELSE "queued", attempts |-> a]
  <2>1. held[w] \in Messages
    BY <1>6 DEF GiveBack, TypeOK
  <2>2. x.state = "queued" => x.attempts < MaxAttempts
    BY <2>1, PartsType, NumbersAssumption DEF OutboxRows
  <2>3. /\ held[w] # None
        /\ outbox' = [outbox EXCEPT ![held[w]] = x]
        /\ held' = [held EXCEPT ![w] = None]
    BY <1>6 DEF GiveBack, Release
  <2> HIDE DEF x
  <2> QED
    BY <2>2, <2>3, ReleaseKeepsQueue
<1>7. ASSUME NEW w \in Workers, WorkerDies(w) PROVE QueueOK'
  BY <1>7 DEF WorkerDies, Release, QueueOK, Queued, TypeOK
<1>8. ASSUME NEW p \in Passes, ExpireCommits(p) PROVE QueueOK'
  BY <1>8, EnqueueKeepsQueue DEF ExpireCommits, Messages
<1>9. ASSUME NEW h \in Hooks, WebhookArrives(h) PROVE QueueOK'
  BY <1>9, EnqueueKeepsQueue DEF WebhookArrives, Messages
<1> QED
  BY <1>1, <1>2, <1>3, <1>4, <1>5, <1>6, <1>7, <1>8, <1>9, QueueSteps

-----------------------------------------------------------------------------
(* Every step keeps the dates and leaves somebody else's panel user alone.   *)

LEMMA RequestKeepsDates ==
  ASSUME TypeOK, DatesOK, NEW r \in Requests, RequestStep(r)
  PROVE  DatesOK'
<1> USE DEF outside, external, tasks, history, DatesOK, OnlyCommittedDatesTravel, Exists
<1>0. r \in Callers
  BY DEF Callers
<1>1. CASE LoadForGrant(r) \/ LoadForChange(r)
  <2>1. \A o \in Requests : req'[o].pc = "granted" => req'[o] = req[o]
    BY <1>1 DEF LoadForGrant, LoadForChange, Loaded, TypeOK
  <2>2. UNCHANGED <<row, external, call, history>>
    BY <1>1 DEF LoadForGrant, LoadForChange
  <2> QED
    BY <2>1, <2>2
<1>2. CASE CommitGrant(r)
  <2>1. /\ dates' = dates \cup {req[r].mem.expires} /\ row'.expires = req[r].mem.expires
        /\ UNCHANGED <<external, call>>
    BY <1>2 DEF CommitGrant
  <2>2. ASSUME NEW o \in Requests, req'[o].pc = "granted"
        PROVE  req'[o].mem.expires \in dates'
    <3>1. [At("granted") EXCEPT !.mem = req[r].mem].mem = req[r].mem
      BY DEF At, IdleRequest
    <3>2. o = r \/ req'[o] = req[o]
      BY <1>2 DEF CommitGrant, TypeOK
    <3>3. req'[r] = [At("granted") EXCEPT !.mem = req[r].mem]
      BY <1>2 DEF CommitGrant, TypeOK
    <3> QED
      BY <2>1, <2>2, <3>1, <3>2, <3>3
  <2> QED
    BY <2>1, <2>2
<1>3. CASE GrantConflicts(r)
  <2>1. \A o \in Requests : req'[o].pc = "granted" => req'[o] = req[o]
    BY <1>3 DEF GrantConflicts, At, IdleRequest, TypeOK
  <2>2. UNCHANGED <<row, external, call, history>>
    BY <1>3 DEF GrantConflicts
  <2> QED
    BY <2>1, <2>2
<1>4. CASE Activate(r)
  <2> DEFINE mem == [req[r].mem EXCEPT !.status = ResolveState(req[r].mem.expires, now)]
  <2>1. mem.expires = req[r].mem.expires /\ mem.expires \in dates
    BY <1>4, PartsType DEF Activate, Rows
  <2>2. \A o \in Requests : req'[o].pc = "granted" => req'[o] = req[o]
    BY <1>4 DEF Activate, At, IdleRequest, TypeOK
  <2>3. row'.expires = row.expires
    BY <1>4 DEF Activate, TypeOK, Rows
  <2>4. \A c \in Callers : \/ call'[c] = call[c]
                          \/ call'[c] = [at |-> "find", want |-> Desired(mem)]
    BY <1>4 DEF Activate, TypeOK
  <2>5. \A c \in Callers : call'[c].at \in {"find", "create", "update"}
                           => call'[c].want.expires \in dates
    BY <2>1, <2>4 DEF Desired
  <2>6. UNCHANGED <<external, history>>
    BY <1>4 DEF Activate
  <2> QED
    BY <2>2, <2>3, <2>5, <2>6
<1>5. CASE Succeed(r) \/ Fail(r) \/ RequestDies(r)
  <2>1. \A o \in Requests : req'[o].pc = "granted" => req'[o] = req[o]
    BY <1>5 DEF Succeed, Fail, RequestDies, At, IdleRequest, TypeOK
  <2>2. \A c \in Callers : call'[c] = call[c] \/ call'[c].at = "idle"
    BY <1>5 DEF Succeed, Fail, RequestDies, IdleCall, TypeOK
  <2>3. row'.expires = row.expires
    BY <1>5 DEF Succeed, Fail, RequestDies, TypeOK, Rows
  <2>4. UNCHANGED <<external, history>>
    BY <1>5 DEF Succeed, Fail, RequestDies
  <2> QED
    BY <2>1, <2>2, <2>3, <2>4
<1> QED
  BY <1>1, <1>2, <1>3, <1>4, <1>5 DEF RequestStep

\* Moving a call on leaves the other calls and what it wants alone.
LEMMA ToEffect ==
  ASSUME TypeOK, NEW c \in Callers, NEW at, To(c, at)
  PROVE  /\ at \notin {"ok", "failed"} => call'[c].want = call[c].want
         /\ \A o \in Callers \ {c} : call'[o] = call[o]
         /\ call'[c].at = at
  BY DEF To, Ended, TypeOK, PanelCalls

\* A write that the panel accepts shows the date it was told.
LEMMA WrittenDate ==
  ASSUME NEW op, NEW image
  PROVE  Written(op, image).expires = image.expires
  BY DEF Written

LEMMA CallKeepsDates ==
  ASSUME TypeOK, DatesOK, NEW c \in Callers, PanelCall(c)
  PROVE  DatesOK'
<1> USE DEF outside, external, tasks, history, DatesOK, OnlyCommittedDatesTravel, Exists
<1>1. CASE Find(c)
  <2>1. PICK at \in {"ok", "update", "create"} : To(c, at) /\ call[c].at = "find"
    BY <1>1 DEF Find
  <2> QED
    BY <1>1, <2>1, ToEffect DEF Find
<1>2. CASE Write(c)
  <2>1. panel'.expires \in dates
    BY <1>2, WrittenDate DEF Write
  <2> QED
    BY <1>2, <2>1, ToEffect DEF Write
<1>3. CASE WriteRejected(c) \/ PanelSilent(c)
  BY <1>3, ToEffect DEF WriteRejected, PanelSilent
<1>4. CASE AnswerLost(c)
  BY <1>4, ToEffect DEF AnswerLost
<1> QED
  BY <1>1, <1>2, <1>3, <1>4 DEF PanelCall

LEMMA WorkerKeepsDates ==
  ASSUME TypeOK, DatesOK, NEW w \in Workers, WorkerStep(w)
  PROVE  DatesOK'
<1> USE DEF outside, external, tasks, history, DatesOK, OnlyCommittedDatesTravel, Exists
<1>0. w \in Callers
  BY DEF Callers
<1>1. ASSUME NEW m \in Messages, Take(w, m) PROVE DatesOK'
  BY <1>1 DEF Take
<1>2. CASE HandlerReads(w)
  <2>1. \A c \in Callers : \/ call'[c] = call[c] \/ call'[c].at = "failed"
                          \/ call'[c].want.expires = row.expires
    BY <1>0, <1>2 DEF HandlerReads, Ended, Desired, TypeOK
  <2> QED
    BY <1>2, <2>1 DEF HandlerReads
<1>3. CASE Deliver(w) \/ GiveBack(w) \/ WorkerDies(w)
  <2>1. \A c \in Callers : call'[c] = call[c] \/ call'[c].at = "idle"
    BY <1>0, <1>3 DEF Deliver, GiveBack, WorkerDies, Release, IdleCall, TypeOK
  <2>2. UNCHANGED <<row, external, req, history>>
    BY <1>3 DEF Deliver, GiveBack, WorkerDies, Release
  <2> QED
    BY <2>1, <2>2
<1> QED
  BY <1>1, <1>2, <1>3 DEF WorkerStep

LEMMA OtherKeepsDates ==
  ASSUME TypeOK, DatesOK, CronStep \/ SweepStep \/ LateStep \/ Outside
  PROVE  DatesOK'
<1> USE DEF outside, external, tasks, history, DatesOK, OnlyCommittedDatesTravel, Exists
<1>1. CASE CronStep
  <2>1. row'.expires = row.expires
    BY <1>1 DEF CronStep, ExpireLoads, ExpireCommits, ExpireDies, TypeOK, Rows
  <2>2. UNCHANGED <<external, req, call, history>>
    BY <1>1 DEF CronStep, ExpireLoads, ExpireCommits, ExpireDies
  <2> QED
    BY <2>1, <2>2
<1>2. CASE SweepStep
  <2>1. PICK s \in Sweepers : SweepLoads(s) \/ SweepStops(s) \/ SweepEnds(s)
    BY <1>2 DEF SweepStep
  <2>2. \A c \in Callers : \/ call'[c] = call[c] \/ call'[c].at = "idle"
                          \/ call'[c].want.expires = row.expires
    BY <2>1 DEF SweepLoads, SweepStops, SweepEnds, IdleCall, Desired, TypeOK, Callers
  <2>3. UNCHANGED <<row, external, req, history>>
    BY <2>1 DEF SweepLoads, SweepStops, SweepEnds
  <2> QED
    BY <2>2, <2>3
<1>3. CASE LateStep
  <2>1. PICK w \in late : LateWrite(w) \/ LateLost(w)
    BY <1>3 DEF LateStep
  <2>2. panel' = panel \/ panel'.expires \in dates
    BY <2>1, WrittenDate DEF LateWrite, LateLost
  <2>3. late' \subseteq late /\ UNCHANGED <<row, req, call, history>>
    BY <2>1 DEF LateWrite, LateLost
  <2> QED
    BY <2>2, <2>3
<1>4. CASE Outside
  <2>1. \A c \in Callers : call'[c] = call[c] \/ call'[c].at = "failed"
    BY <1>4
       DEF Ended, Outside, WebhookArrives, OperatorToggles, OperatorDeletes,
                OperatorCreates, EarlierRowBreaks, EarlierRowMends, Tick
  <2>2. late' \subseteq late /\ UNCHANGED <<row, req, history>>
    BY <1>4 DEF Outside, WebhookArrives, OperatorToggles, OperatorDeletes,
                OperatorCreates, EarlierRowBreaks, EarlierRowMends, Tick
  <2>3. panel'.status = "ABSENT" \/ ~panel'.ours \/ (panel'.expires = panel.expires /\ panel'.ours = panel.ours
                                     /\ panel.status # "ABSENT") \/ panel' = panel
    BY <1>4 DEF Outside, WebhookArrives, OperatorToggles, OperatorDeletes,
                OperatorCreates, EarlierRowBreaks, EarlierRowMends, Tick,
                NoPanelUser, MadeByHand, TypeOK, PanelUsers
  <2> QED
    BY <2>1, <2>2, <2>3
<1> QED
  BY <1>1, <1>2, <1>3, <1>4

LEMMA NextKeepsDates == TypeOK /\ DatesOK /\ [Next]_vars => DatesOK'
<1> SUFFICES ASSUME TypeOK, DatesOK, [Next]_vars PROVE DatesOK'
  OBVIOUS
<1>1. CASE UNCHANGED vars
  BY <1>1 DEF vars, outside, external, tasks, history, DatesOK, OnlyCommittedDatesTravel,
              Exists
<1>2. CASE Next
  BY <1>2, RequestKeepsDates, CallKeepsDates, WorkerKeepsDates, OtherKeepsDates DEF Next
<1> QED
  BY <1>1, <1>2

\* A panel user that is not ours can only have been there before the calls: a
\* create makes one that is ours, and a patch is only sent to one that is ours.
LEMMA NextKeepsForeign == TypeOK /\ ForeignOK /\ [Next]_vars => ForeignOK'
<1> SUFFICES ASSUME TypeOK, ForeignOK, [Next]_vars PROVE ForeignOK'
  OBVIOUS
<1> USE DEF outside, external, tasks, history, ForeignOK, Exists
<1>1. CASE UNCHANGED vars
  BY <1>1 DEF vars
<1>2. ASSUME NEW r \in Requests, RequestStep(r) PROVE ForeignOK'
  <2>1. \/ call' = call \/ call' = [call EXCEPT ![r] = IdleCall]
        \/ \E image : call' = [call EXCEPT ![r] = [at |-> "find", want |-> image]]
    BY <1>2 DEF RequestStep, LoadForGrant, LoadForChange, CommitGrant, GrantConflicts,
                Activate, Succeed, Fail, RequestDies
  <2>2. \A c \in Callers : call'[c] = call[c] \/ call'[c].at \in {"idle", "find"}
    BY <2>1 DEF IdleCall, TypeOK
  <2>3. UNCHANGED <<panel, late>>
    BY <1>2 DEF RequestStep, LoadForGrant, LoadForChange, CommitGrant, GrantConflicts,
                Activate, Succeed, Fail, RequestDies
  <2> QED
    BY <2>2, <2>3
<1>3. ASSUME NEW c \in Callers, PanelCall(c) PROVE ForeignOK'
  <2>1. CASE Find(c)
    <3>1. PICK at \in {"ok", "update", "create"} :
             To(c, at) /\ (at = "update" => panel.ours)
      BY <2>1 DEF Find, NothingToWrite
    <3> QED
      BY <2>1, <3>1, ToEffect DEF Find
  <2>2. CASE Write(c)
    <3>1. call[c].at = "create" => panel'.ours /\ panel'.status # "ABSENT"
      BY <2>2, PartsType DEF Write, Written, Images
    <3>2. call[c].at = "update" => panel'.ours = panel.ours /\ panel'.status # "ABSENT"
      BY <2>2, PartsType DEF Write, Written, Images
    <3>3. call[c].at = "update" => panel.ours
      BY DEF ForeignOK
    <3>4. UNCHANGED late /\ call[c].at \in {"create", "update"}
      BY <2>2 DEF Write
    <3> QED
      BY <3>1, <3>2, <3>3, <3>4
  <2>3. CASE WriteRejected(c) \/ PanelSilent(c)
    BY <2>3, ToEffect DEF WriteRejected, PanelSilent
  <2>4. CASE AnswerLost(c)
    BY <2>4, ToEffect DEF AnswerLost
  <2> QED
    BY <1>3, <2>1, <2>2, <2>3, <2>4 DEF PanelCall
<1>4. ASSUME NEW w \in Workers, WorkerStep(w) PROVE ForeignOK'
  <2>1. \A c \in Callers : call'[c] = call[c] \/ call'[c].at \in {"idle", "failed", "find"}
    BY <1>4 DEF WorkerStep, Take, HandlerReads, Deliver, GiveBack, WorkerDies, Release,
                Ended, IdleCall, TypeOK
  <2>2. UNCHANGED <<panel, late>>
    BY <1>4 DEF WorkerStep, Take, HandlerReads, Deliver, GiveBack, WorkerDies, Release
  <2> QED
    BY <2>1, <2>2
<1>5. CASE CronStep \/ SweepStep
  <2>1. \A c \in Callers : call'[c] = call[c] \/ call'[c].at \in {"idle", "find"}
    BY <1>5 DEF CronStep, ExpireLoads, ExpireCommits, ExpireDies, SweepStep, SweepLoads,
                SweepStops, SweepEnds, IdleCall, TypeOK
  <2>2. UNCHANGED <<panel, late>>
    BY <1>5 DEF CronStep, ExpireLoads, ExpireCommits, ExpireDies, SweepStep, SweepLoads,
                SweepStops, SweepEnds
  <2> QED
    BY <2>1, <2>2
<1>6. CASE LateStep
  <2>1. PICK w \in late : LateWrite(w) \/ LateLost(w)
    BY <1>6 DEF LateStep
  <2>2. w.op \in {"create", "update"} /\ w.want \in Images
    BY DEF TypeOK, LateWrites
  <2>3. panel' = panel \/ (panel'.ours /\ panel'.status # "ABSENT")
    <3>1. w.op = "update" => panel.ours
      BY DEF ForeignOK
    <3>2. CASE LateLost(w) \/ (LateWrite(w) /\ ~Accepted(w.op))
      BY <3>2 DEF LateLost, LateWrite
    <3>3. CASE LateWrite(w) /\ Accepted(w.op)
      <4>1. panel' = Written(w.op, w.want)
        BY <3>3 DEF LateWrite
      <4>2. panel'.status = w.want.status /\ w.want.status # "ABSENT"
        BY <2>2, <4>1 DEF Written, Images
      <4>3. panel'.ours = IF w.op = "create" THEN TRUE ELSE panel.ours
        BY <4>1 DEF Written
      <4> QED
        BY <2>2, <3>1, <4>2, <4>3
    <3> QED
      BY <2>1, <3>2, <3>3
  <2>4. late' \subseteq late /\ UNCHANGED call
    BY <2>1 DEF LateWrite, LateLost
  <2> QED
    BY <2>3, <2>4
<1>7. CASE Outside
  <2>1. CASE OperatorCreates
    BY <2>1 DEF OperatorCreates
  <2>2. CASE OperatorDeletes
    <3>1. \A c \in Callers : call'[c].at # "update"
      BY <2>2 DEF OperatorDeletes, Ended
    <3>2. \A w \in late' : w.op # "update"
      BY <2>2 DEF OperatorDeletes, TypeOK, LateWrites
    <3> QED
      BY <3>1, <3>2
  <2>3. CASE OperatorToggles
    <3>1. panel'.ours = panel.ours /\ panel'.status # "ABSENT" /\ UNCHANGED <<call, late>>
      BY <2>3 DEF OperatorToggles, TypeOK, PanelUsers
    <3> QED
      BY <2>3, <3>1 DEF OperatorToggles
  <2>4. CASE (\E h \in Hooks : WebhookArrives(h)) \/ EarlierRowBreaks \/ EarlierRowMends \/ Tick
    BY <2>4 DEF WebhookArrives, EarlierRowBreaks, EarlierRowMends, Tick
  <2> QED
    BY <1>7, <2>1, <2>2, <2>3, <2>4 DEF Outside
<1> QED
  BY <1>1, <1>2, <1>3, <1>4, <1>5, <1>6, <1>7 DEF Next

-----------------------------------------------------------------------------
(* Row, journal and requests: only loads and commits of grants matter, the   *)
(* rest moves the status alone.                                              *)

\* Steps other than loads and commits leave the date and the journal alone,
\* load no request and never take the row away.
LEMMA BesideGrants ==
  ASSUME TypeOK, [Next]_vars
  PROVE  \/ \E r \in Requests : LoadForGrant(r) \/ LoadForChange(r) \/ CommitGrant(r)
         \/ /\ row'.expires = row.expires
            /\ row'.status = "absent" => row.status = "absent"
            /\ \A r \in Requests : req'[r].pc = "loaded" => req'[r] = req[r]
            /\ UNCHANGED <<owed, overlapped, overtaken, dates>>
<1> USE DEF outside, external, tasks, history
<1>1. CASE UNCHANGED vars
  BY <1>1 DEF vars
<1>2. ASSUME NEW r \in Requests, RequestStep(r)
      PROVE  \/ LoadForGrant(r) \/ LoadForChange(r) \/ CommitGrant(r)
             \/ /\ row'.expires = row.expires
                /\ row'.status = "absent" => row.status = "absent"
                /\ \A o \in Requests : req'[o].pc = "loaded" => req'[o] = req[o]
                /\ UNCHANGED <<owed, overlapped, overtaken, dates>>
  <2>1. CASE GrantConflicts(r)
    BY <2>1 DEF GrantConflicts, At, IdleRequest, TypeOK
  <2>2. CASE Activate(r)
    <3>1. PICK status \in {"expired", "active"} : row' = [row EXCEPT !.status = status]
      BY <2>2, PartsType, ResolveType DEF Activate, Rows
    <3>2. row'.expires = row.expires /\ row'.status # "absent"
      BY <3>1 DEF TypeOK, Rows
    <3> QED
      BY <2>2, <3>2 DEF Activate, At, IdleRequest, TypeOK
  <2>3. CASE Succeed(r) \/ Fail(r) \/ RequestDies(r)
    BY <2>3 DEF Succeed, Fail, RequestDies, At, IdleRequest, TypeOK, Rows
  <2> QED
    BY <1>2, <2>1, <2>2, <2>3 DEF RequestStep
<1>3. ASSUME NEW c \in Callers, PanelCall(c)
      PROVE  UNCHANGED <<row, req, owed, overlapped, overtaken, dates>>
  BY <1>3 DEF PanelCall, Find, Write, WriteRejected, PanelSilent, AnswerLost
<1>4. ASSUME NEW w \in Workers, WorkerStep(w)
      PROVE  UNCHANGED <<row, req, owed, overlapped, overtaken, dates>>
  BY <1>4 DEF WorkerStep, Take, HandlerReads, Deliver, GiveBack, WorkerDies, Release
<1>5. CASE CronStep
  <2>1. row' = row \/ row' = [row EXCEPT !.status = "expired"]
    BY <1>5 DEF CronStep, ExpireLoads, ExpireCommits, ExpireDies
  <2>2. row'.expires = row.expires /\ (row'.status = "absent" => row.status = "absent")
    BY <2>1 DEF TypeOK, Rows
  <2> QED
    BY <1>5, <2>2 DEF CronStep, ExpireLoads, ExpireCommits, ExpireDies
<1>6. CASE SweepStep \/ LateStep \/ Outside
  BY <1>6 DEF SweepStep, SweepLoads, SweepStops, SweepEnds, LateStep, LateWrite, LateLost, Outside,
              WebhookArrives, OperatorToggles, OperatorDeletes,
                OperatorCreates, EarlierRowBreaks, EarlierRowMends, Tick
<1> QED
  BY <1>1, <1>2, <1>3, <1>4, <1>5, <1>6 DEF Next

\* What a load puts into a request; the other requests stay as they were.
LEMMA LoadedEffect ==
  ASSUME TypeOK, NEW r \in Requests, NEW e, NEW d, NEW restart, Loaded(r, e, d, restart)
  PROVE  /\ req'[r].pc = "loaded" /\ req'[r].was = row.status
         /\ req'[r].insert = (row.status = "absent")
         /\ req'[r].mem.expires = e
         /\ req'[r].at = now /\ req'[r].days = d /\ req'[r].restart = restart
         /\ \A o \in Requests \ {r} : req'[o] = req[o]
  BY DEF Loaded, TypeOK

\* What a commit of a grant does to row, journal and requests.
LEMMA CommitEffect ==
  ASSUME TypeOK, NEW r \in Requests, CommitGrant(r)
  PROVE  /\ row'.expires = req[r].mem.expires
         /\ owed' = OwedAfter(r)
         /\ overtaken' = OvertakenBy(r)
         /\ dates' = dates \cup {req[r].mem.expires}
         /\ req'[r].pc = "granted" /\ req'[r].mem = req[r].mem
         /\ \A o \in Requests \ {r} : req'[o] = req[o]
         /\ ~overlapped' => ~overlapped /\ \A o \in Requests \ {r} : req[o].pc # "loaded"
<1>1. LET x == [At("granted") EXCEPT !.mem = req[r].mem]
      IN  x.pc = "granted" /\ x.mem = req[r].mem
  BY DEF At, IdleRequest
<1> QED
  BY <1>1 DEF CommitGrant, TypeOK

LEMMA NextKeepsFirst == TypeOK /\ FirstOK /\ [Next]_vars => FirstOK'
<1> SUFFICES ASSUME TypeOK, FirstOK, [Next]_vars PROVE FirstOK'
  OBVIOUS
<1> USE DEF outside, external, tasks, history, FirstOK
<1>1. ASSUME NEW r \in Requests, LoadForGrant(r) PROVE FirstOK'
  <2>1. PICK d \in Days : Loaded(r, Extend(row, now, d), d, FALSE)
    BY <1>1 DEF LoadForGrant
  <2>2. row' = row
    BY <1>1 DEF LoadForGrant
  <2>3. /\ req'[r].was = row.status
        /\ \A o \in Requests \ {r} : req'[o] = req[o]
    BY <2>1, LoadedEffect
  <2> QED
    BY <2>2, <2>3
<1>2. ASSUME NEW r \in Requests, LoadForChange(r) PROVE FirstOK'
  BY <1>2 DEF LoadForChange
<1>3. ASSUME NEW r \in Requests, CommitGrant(r) PROVE FirstOK'
  <2>1. row'.status # "absent"
    BY <1>3 DEF CommitGrant
  <2> QED
    BY <2>1
<1> QED
  BY <1>1, <1>2, <1>3, BesideGrants

LEMMA NextKeepsJournal ==
  TypeOK /\ DatesOK /\ JournalOK /\ [Next]_vars => JournalOK'
<1> SUFFICES ASSUME TypeOK, DatesOK, JournalOK, [Next]_vars, Rates = {}
             PROVE  JournalOK'
  BY DEF JournalOK
<1> USE DEF outside, external, tasks, history
<1>0. /\ \A d \in dates : d <= owed
      /\ \A r \in Requests :
            req[r].pc = "loaded" => ~req[r].restart /\ req[r].mem.expires <= OwedAfter(r)
      /\ row.expires \in dates /\ row.expires \in Nat /\ now \in Nat /\ owed \in Nat
  BY PartsType DEF JournalOK, DatesOK, TypeOK
<1>1. ASSUME NEW r \in Requests, LoadForGrant(r) PROVE JournalOK'
  <2>1. PICK d \in Days : Loaded(r, Extend(row, now, d), d, FALSE)
    BY <1>1 DEF LoadForGrant
  <2>2. UNCHANGED <<row, owed, dates>>
    BY <1>1 DEF LoadForGrant
  <2>3. d \in Nat /\ Extend(row, now, d) <= Later(owed, now) + d
    <3>1. d \in Nat /\ row.expires <= owed
      BY <1>0, NumbersAssumption
    <3> QED
      BY <1>0, <3>1 DEF Extend, Later
  <2>4. ~req'[r].restart /\ req'[r].mem.expires <= OwedAfter(r)'
    BY <2>1, <2>2, <2>3, LoadedEffect DEF OwedAfter
  <2>5. \A o \in Requests \ {r} : req'[o] = req[o] /\ OwedAfter(o)' = OwedAfter(o)
    BY <2>1, <2>2, LoadedEffect DEF OwedAfter
  <2> QED
    BY <1>0, <2>2, <2>4, <2>5 DEF JournalOK
<1>2. ASSUME NEW r \in Requests, LoadForChange(r) PROVE JournalOK'
  BY <1>2 DEF LoadForChange
<1>3. ASSUME NEW r \in Requests, CommitGrant(r) PROVE JournalOK'
  <2>1. ~req[r].restart /\ req[r].mem.expires <= OwedAfter(r)
    BY <1>0, <1>3 DEF CommitGrant
  <2>2. owed' = OwedAfter(r) /\ owed' \in Nat /\ owed <= owed'
    BY <1>0, <1>3, <2>1, CommitEffect, PartsType DEF OwedAfter, Later
  <2>3. \A d \in dates' : d <= owed'
    <3>1. dates' = dates \cup {req[r].mem.expires} /\ dates \subseteq Nat
      BY <1>3, CommitEffect DEF TypeOK
    <3>2. \A d \in dates : d <= owed'
      BY <1>0, <2>2, <3>1
    <3> QED
      BY <2>1, <2>2, <3>1, <3>2
  <2>4. ASSUME NEW o \in Requests, req'[o].pc = "loaded"
        PROVE  ~req'[o].restart /\ req'[o].mem.expires <= OwedAfter(o)'
    <3>1. o # r /\ req'[o] = req[o]
      BY <1>3, <2>4, CommitEffect
    <3>2. OwedAfter(o) <= OwedAfter(o)'
      BY <1>0, <2>2, <2>4, <3>1, PartsType DEF OwedAfter, Later
    <3>3. OwedAfter(o) \in Nat /\ OwedAfter(o)' \in Nat /\ req[o].mem.expires \in Nat
      BY <1>0, <2>2, <3>1, PartsType DEF OwedAfter, Later
    <3> QED
      BY <1>0, <2>4, <3>1, <3>2, <3>3
  <2> QED
    BY <2>3, <2>4 DEF JournalOK
<1>4. ASSUME \A r \in Requests : req'[r].pc = "loaded" => req'[r] = req[r],
             UNCHANGED <<owed, dates>>
      PROVE  JournalOK'
  BY <1>0, <1>4 DEF JournalOK, OwedAfter
<1> QED
  BY <1>1, <1>2, <1>3, <1>4, BesideGrants

LEMMA NextKeepsSerial ==
  TypeOK /\ FirstOK /\ SerialOK /\ [Next]_vars => SerialOK'
<1> SUFFICES ASSUME TypeOK, FirstOK, SerialOK, [Next]_vars, ~overlapped'
             PROVE  SerialOK'
  BY DEF SerialOK
<1> USE DEF outside, external, tasks, history
<1>1. ASSUME NEW r \in Requests, LoadForGrant(r) PROVE SerialOK'
  <2>1. PICK d \in Days : Loaded(r, Extend(row, now, d), d, FALSE)
    BY <1>1 DEF LoadForGrant
  <2>2. UNCHANGED <<row, owed, overlapped>>
    BY <1>1 DEF LoadForGrant
  <2>3. row.expires = owed
    BY <2>2 DEF SerialOK
  <2>4. row.status = "absent" => row.expires = 0
    BY DEF FirstOK
  <2>5. Extend(row, now, d) = Later(owed, now) + d
    <3>1. now \in Nat /\ row.expires \in Nat /\ d \in Nat
      BY PartsType, NumbersAssumption DEF TypeOK
    <3> QED
      BY <2>3, <2>4, <3>1 DEF Extend, Later
  <2>6. req'[r].mem.expires = OwedAfter(r)'
    BY <2>1, <2>2, <2>5, LoadedEffect DEF OwedAfter
  <2>7. \A o \in Requests \ {r} : req'[o] = req[o] /\ OwedAfter(o)' = OwedAfter(o)
    BY <2>1, <2>2, LoadedEffect DEF OwedAfter
  <2> QED
    BY <2>2, <2>6, <2>7 DEF SerialOK
<1>2. ASSUME NEW r \in Requests, LoadForChange(r) PROVE SerialOK'
  <2>1. PICK rate \in Rates :
           LET d == ConvertRemainder(row.expires, now, rate)
           IN  Loaded(r, now + d, d, TRUE)
    BY <1>2 DEF LoadForChange
  <2>2. UNCHANGED <<row, owed, overlapped>>
    BY <1>2 DEF LoadForChange
  <2>3. req'[r].mem.expires = OwedAfter(r)'
    BY <2>1, <2>2, LoadedEffect DEF OwedAfter
  <2>4. \A o \in Requests \ {r} : req'[o] = req[o] /\ OwedAfter(o)' = OwedAfter(o)
    BY <2>1, <2>2, LoadedEffect DEF OwedAfter
  <2> QED
    BY <2>2, <2>3, <2>4 DEF SerialOK
<1>3. ASSUME NEW r \in Requests, CommitGrant(r) PROVE SerialOK'
  <2>1. /\ ~overlapped /\ req[r].mem.expires = OwedAfter(r)
        /\ \A o \in Requests \ {r} : req[o].pc # "loaded"
    BY <1>3, CommitEffect DEF SerialOK, CommitGrant
  <2> QED
    BY <1>3, <2>1, CommitEffect DEF SerialOK
<1>4. ASSUME \A r \in Requests : req'[r].pc = "loaded" => req'[r] = req[r],
             row'.expires = row.expires, UNCHANGED <<owed, overlapped>>
      PROVE  SerialOK'
  BY <1>4 DEF SerialOK, OwedAfter
<1> QED
  BY <1>1, <1>2, <1>3, <1>4, BesideGrants

-----------------------------------------------------------------------------
(* Marked expired: from the date it has, unless its last grant was overtaken. *)

LEMMA ClockGoesOn == TypeOK /\ [Next]_vars => now' \in Nat /\ now <= now'
<1> SUFFICES ASSUME TypeOK, [Next]_vars PROVE now' = now \/ now' = now + 1
  BY DEF TypeOK
<1> USE DEF outside, external, tasks, history
<1>1. ASSUME NEW r \in Requests, RequestStep(r) PROVE now' = now
  BY <1>1 DEF RequestStep, LoadForGrant, LoadForChange, CommitGrant, GrantConflicts,
              Activate, Succeed, Fail, RequestDies
<1>2. ASSUME NEW c \in Callers, PanelCall(c) PROVE now' = now
  BY <1>2 DEF PanelCall, Find, Write, WriteRejected, PanelSilent, AnswerLost
<1>3. ASSUME NEW w \in Workers, WorkerStep(w) PROVE now' = now
  BY <1>3 DEF WorkerStep, Take, HandlerReads, Deliver, GiveBack, WorkerDies
<1>4. CASE CronStep \/ SweepStep \/ LateStep
  BY <1>4 DEF CronStep, ExpireLoads, ExpireCommits, ExpireDies, SweepStep, SweepLoads,
              SweepStops, SweepEnds, LateStep, LateWrite, LateLost
<1>5. CASE Outside
  BY <1>5 DEF Outside, WebhookArrives, OperatorToggles, OperatorDeletes,
              OperatorCreates, EarlierRowBreaks, EarlierRowMends, Tick
<1> QED
  BY <1>1, <1>2, <1>3, <1>4, <1>5 DEF Next, vars

\* What has passed stays past as long as the date does not move.
LEMMA PastStays ==
  ASSUME TypeOK, [Next]_vars, row.expires <= now, row'.expires = row.expires
  PROVE  row'.expires <= now'
<1>1. now' \in Nat /\ now <= now' /\ now \in Nat /\ row.expires \in Nat
  BY ClockGoesOn, PartsType DEF TypeOK
<1> QED
  BY <1>1

LEMMA NextKeepsExpired == TypeOK /\ ExpiredOK /\ [Next]_vars => ExpiredOK'
<1> SUFFICES ASSUME TypeOK, ExpiredOK, [Next]_vars PROVE ExpiredOK'
  OBVIOUS
<1> USE DEF outside, external, tasks, history
<1>1. ASSUME row'.expires = row.expires, overtaken' = overtaken,
             row'.status = "expired" => row.status = "expired" \/ cron # None,
             cron' # None => cron # None,
             \A r \in Requests : req'[r].pc = "granted" => req'[r] = req[r]
      PROVE  ExpiredOK'
  BY <1>1, PastStays DEF ExpiredOK
<1>2. ASSUME NEW r \in Requests, RequestStep(r) PROVE ExpiredOK'
  <2>1. CASE LoadForGrant(r) \/ LoadForChange(r)
    <3>1. \A o \in Requests : req'[o].pc = "granted" => req'[o] = req[o]
      BY <2>1 DEF LoadForGrant, LoadForChange, Loaded, TypeOK
    <3> QED
      BY <1>1, <2>1, <3>1 DEF LoadForGrant, LoadForChange
  <2>2. CASE CommitGrant(r)
    <3>1. SUFFICES ASSUME ~OvertakenBy(r) PROVE ExpiredOK'
      BY <2>2, CommitEffect DEF ExpiredOK
    <3>2. cron' = None /\ \A o \in Requests \ {r} : req[o].pc # "granted"
      BY <2>2, <3>1 DEF OvertakenBy, CommitGrant
    <3>3. row'.status # "expired"
      BY <2>2, <3>1 DEF OvertakenBy, CommitGrant
    <3>4. \A o \in Requests : req'[o].pc = "granted" => req'[o].mem.expires = row'.expires
      BY <2>2, <3>2, CommitEffect
    <3> QED
      BY <3>2, <3>3, <3>4 DEF ExpiredOK
  <2>3. CASE GrantConflicts(r) \/ Succeed(r) \/ RequestDies(r)
    BY <1>1, <2>3 DEF GrantConflicts, Succeed, RequestDies, At, IdleRequest, TypeOK
  <2>4. CASE Fail(r)
    <3>1. row'.status = "pending" /\ row'.expires = row.expires
      BY <2>4 DEF Fail, TypeOK, Rows
    <3> QED
      BY <1>1, <2>4, <3>1 DEF Fail, At, IdleRequest, TypeOK
  <2>5. CASE Activate(r)
    <3>1. row'.expires = row.expires
      BY <2>5 DEF Activate, TypeOK, Rows
    <3>2. row'.status = ResolveState(req[r].mem.expires, now)
      BY <2>5, PartsType DEF Activate, TypeOK, Rows
    <3>3. ~overtaken /\ row'.status = "expired" => row.expires <= now
      BY <2>5, <3>2 DEF ResolveState, Activate, ExpiredOK
    <3>4. \A o \in Requests : req'[o].pc = "granted" => req'[o] = req[o]
      BY <2>5 DEF Activate, At, IdleRequest, TypeOK
    <3>5. cron' = cron /\ overtaken' = overtaken
      BY <2>5 DEF Activate
    <3> QED
      BY <3>1, <3>3, <3>4, <3>5, PastStays DEF ExpiredOK
  <2> QED
    BY <1>2, <2>1, <2>2, <2>3, <2>4, <2>5 DEF RequestStep
<1>3. ASSUME NEW c \in Callers, PanelCall(c) PROVE ExpiredOK'
  BY <1>1, <1>3 DEF PanelCall, Find, Write, WriteRejected, PanelSilent, AnswerLost
<1>4. ASSUME NEW w \in Workers, WorkerStep(w) PROVE ExpiredOK'
  BY <1>1, <1>4 DEF WorkerStep, Take, HandlerReads, Deliver, GiveBack, WorkerDies, Release
<1>5. CASE CronStep
  <2>1. ASSUME NEW p \in Passes, ExpireLoads(p) PROVE ExpiredOK'
    <3>1. row.expires <= now /\ UNCHANGED <<row, req, now, overtaken>>
      BY <2>1 DEF ExpireLoads, IsDue
    <3> QED
      BY <3>1 DEF ExpiredOK
  <2>2. ASSUME NEW p \in Passes, ExpireCommits(p) PROVE ExpiredOK'
    <3>1. cron # None /\ cron' = None
      BY <2>2, CallersAssumption DEF ExpireCommits
    <3>2. row'.expires = row.expires
      BY <2>2 DEF ExpireCommits, TypeOK, Rows
    <3> QED
      BY <1>1, <2>2, <3>1, <3>2 DEF ExpireCommits
  <2>3. CASE ExpireDies
    BY <1>1, <2>3 DEF ExpireDies
  <2> QED
    BY <1>5, <2>1, <2>2, <2>3 DEF CronStep
<1>6. CASE SweepStep \/ LateStep \/ Outside
  BY <1>1, <1>6 DEF SweepStep, SweepLoads, SweepStops, SweepEnds, LateStep, LateWrite,
                    LateLost, Outside, WebhookArrives, OperatorToggles, OperatorDeletes,
                    OperatorCreates, EarlierRowBreaks, EarlierRowMends, Tick
<1>7. CASE UNCHANGED vars
  BY <1>1, <1>7 DEF vars
<1> QED
  BY <1>2, <1>3, <1>4, <1>5, <1>6, <1>7 DEF Next

-----------------------------------------------------------------------------
LEMMA InitInv == Init => Inv
<1> SUFFICES ASSUME Init PROVE Inv
  OBVIOUS
<1>1. TypeOK
  BY InitType
<1>2. \A r \in Requests : req[r].pc = "idle"
  BY DEF Init, IdleRequest
<1>3. \A c \in Callers : call[c].at = "idle"
  BY DEF Init, IdleCall
<1>4. QueueOK
  BY DEF Init, QueueOK, Queued, NoMessage
<1>5. DatesOK /\ ForeignOK
  BY <1>2, <1>3 DEF Init, DatesOK, ForeignOK, OnlyCommittedDatesTravel, Exists,
                    NoPanelUser, NoRow
<1>6. FirstOK /\ JournalOK /\ SerialOK /\ ExpiredOK
  BY <1>1, <1>2 DEF Init, FirstOK, JournalOK, SerialOK, ExpiredOK, NoRow, TypeOK
<1> QED
  BY <1>1, <1>4, <1>5, <1>6 DEF Inv

\* The inductive invariant holds in every reachable state.
THEOREM Invariance == Spec => []Inv
<1>1. Init => Inv
  BY InitInv
<1>2. Inv /\ [Next]_vars => Inv'
  BY NextKeepsType, NextKeepsQueue, NextKeepsDates, NextKeepsForeign, NextKeepsFirst,
     NextKeepsJournal, NextKeepsSerial, NextKeepsExpired DEF Inv
<1> QED
  BY <1>1, <1>2, PTL DEF Spec

\* Every variable keeps its type; in particular no message is tried more often
\* than there are attempts.
THEOREM TypeCorrect == Spec => []TypeOK
<1>1. Inv => TypeOK
  BY DEF Inv
<1> QED
  BY <1>1, Invariance, PTL

\* Whatever is retried, redelivered or late, the panel only ever receives dates
\* that were committed: delivery computes none (provisioning.py:69-72).
THEOREM CommittedDatesTravel == Spec => []OnlyCommittedDatesTravel
<1>1. Inv => OnlyCommittedDatesTravel
  BY DEF Inv, DatesOK
<1> QED
  BY <1>1, Invariance, PTL

\* Without plan changes nobody ever has more days than the journal explains.
THEOREM JournalCoversDates == Spec => []NothingBeyondJournal
<1>1. Inv => NothingBeyondJournal
  BY DEF Inv, JournalOK, NothingBeyondJournal
<1> QED
  BY <1>1, Invariance, PTL

\* As long as no two grants overlap, the date is what the journal adds up to:
\* the only way to lose days is the one the overlap opens.
THEOREM SerialGrants == Spec => []SerialGrantsAddUp
<1>1. Inv => SerialGrantsAddUp
  BY DEF Inv, SerialOK, SerialGrantsAddUp, NoGrantIsLost
<1> QED
  BY <1>1, Invariance, PTL

\* An expired row has a date that has passed, whatever overlaps, fails or dies;
\* only a last grant that overtook somebody's read of the row is excepted. Beside
\* the task this needs that every request activates the date that the row has.
THEOREM ExpiredAfterDate == Spec => []ExpiredByItsDate
<1>1. Inv => ExpiredByItsDate
  BY DEF Inv, ExpiredOK, ExpiredByItsDate
<1> QED
  BY <1>1, Invariance, PTL

\* No step of the program writes to a panel user without our tag, whether he was
\* there before the look-up or was made between the look-up and the write.
THEOREM ForeignUntouched == Spec => ForeignUserLeftAlone
<1>1. ASSUME TypeOK, ForeignOK, [Next]_vars
      PROVE  [Exists /\ ~panel.ours => panel' = panel \/ drift' # drift]_vars
  <2> SUFFICES ASSUME Next, Exists, ~panel.ours PROVE panel' = panel \/ drift' # drift
    BY <1>1
  <2> USE DEF outside, external, tasks, history
  <2>1. ASSUME NEW r \in Requests, RequestStep(r) PROVE panel' = panel
    BY <2>1 DEF RequestStep, LoadForGrant, LoadForChange, CommitGrant, GrantConflicts,
                Activate, Succeed, Fail, RequestDies
  <2>2. ASSUME NEW c \in Callers, PanelCall(c) PROVE panel' = panel
    <3>1. ~Write(c)
      BY <1>1 DEF Write, Accepted, ForeignOK
    <3> QED
      BY <2>2, <3>1 DEF PanelCall, Find, WriteRejected, PanelSilent, AnswerLost
  <2>3. ASSUME NEW w \in Workers, WorkerStep(w) PROVE panel' = panel
    BY <2>3 DEF WorkerStep, Take, HandlerReads, Deliver, GiveBack, WorkerDies, Release
  <2>4. CASE CronStep \/ SweepStep
    BY <2>4 DEF CronStep, ExpireLoads, ExpireCommits, ExpireDies, SweepStep, SweepLoads,
                SweepStops, SweepEnds
  <2>5. CASE LateStep
    <3>1. PICK w \in late : LateWrite(w) \/ LateLost(w)
      BY <2>5 DEF LateStep
    <3>2. w.op = "create"
      BY <1>1 DEF ForeignOK, TypeOK, LateWrites
    <3> QED
      BY <3>1, <3>2 DEF LateWrite, LateLost, Accepted
  <2>6. CASE Outside
    BY <2>6, <1>1 DEF Outside, WebhookArrives, OperatorToggles, OperatorDeletes,
                OperatorCreates, EarlierRowBreaks, EarlierRowMends, Tick, TypeOK
  <2> QED
    BY <2>1, <2>2, <2>3, <2>4, <2>5, <2>6 DEF Next
<1>2. Inv => TypeOK /\ ForeignOK
  BY DEF Inv
<1> QED
  BY <1>1, <1>2, Invariance, PTL DEF Spec, ForeignUserLeftAlone
=============================================================================
