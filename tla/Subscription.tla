---------------------------- MODULE Subscription ----------------------------
(* The subscription of one user and everything that moves it: API requests   *)
(* that grant days or change the plan (services/subscriptions.py), the       *)
(* outbox worker, the hourly expiry task and the panel reconciliation        *)
(* (tasks.py), the webhook intake, and the Remnawave panel itself, which is  *)
(* outside the repository.                                                   *)
(*                                                                           *)
(* Every service reads rows with a plain SELECT into its own session, awaits *)
(* other things, and writes back the columns it changed, without a version   *)
(* check (READ COMMITTED, expire_on_commit=False). So a read is a step of    *)
(* its own, and a commit writes only the columns its session touched.        *)
(*                                                                           *)
(* Abstractions.  One user: nothing here joins two users' rows.  Time and    *)
(* days are small naturals.  "trial" and "active" are one status, "active":  *)
(* every rule treats the two alike.  Plan limits and squads travel together  *)
(* with the date in one PATCH, so the date stands for all of them.           *)
EXTENDS Integers, FiniteSets

CONSTANTS
    Requests,    \* API calls that grant days, each served once in its session
    Workers,     \* concurrent runs of process_outbox
    Sweepers,    \* concurrent runs of reconcile_panel
    Passes,      \* message slots of the expiry task
    Hooks,       \* message slots of the webhook intake
    Days,        \* day counts a grant may ask for
    Rates,       \* <<num, den>>: price of an old day in new days; {}: no plan changes
    MaxAttempts, \* outbox.MAX_ATTEMPTS
    MaxTime,     \* bound: the clock stops here
    MaxDrift,    \* bound: edits an operator makes in the panel by hand
    MaxFaults,   \* bound: failures of the panel, the network or a process
    MaxLate      \* bound: writes abandoned and still on their way at a time

None == "none"

ASSUME CallersAssumption ==
    /\ Requests \cap Workers = {}
    /\ Sweepers \cap (Requests \cup Workers) = {}
    /\ Requests \cap (Passes \cup Hooks) = {} /\ Passes \cap Hooks = {}
    /\ None \notin Requests \cup Passes \cup Hooks

ASSUME NumbersAssumption ==
    /\ Days \subseteq Nat \ {0}
    /\ Rates \subseteq Nat \X (Nat \ {0})
    /\ MaxAttempts \in Nat \ {0}
    /\ MaxTime \in Nat
    /\ MaxDrift \in Nat /\ MaxFaults \in Nat /\ MaxLate \in Nat

VARIABLES
    now,      \* the clock every process reads
    row,      \* the committed row of `subscriptions`
    outbox,   \* panel.provision messages: state and attempts
    panel,    \* the panel user of this subscription
    linked,   \* users.remnawave_id names the latest panel user of this name
    req,      \* each request: where it is and the row its session holds
    call,     \* each running reconcile(): where it is and what it will write
    held,     \* the message each worker holds locked, or None
    cron,     \* the expiry run that has read the row as due, or None
    late,     \* writes the caller gave up on that may still reach the panel
    drift,    \* edits made in the panel by hand so far
    faults,   \* failures so far: panel silent, answer lost, process dead
    blocked,  \* an earlier row of the sweep's pages is one the panel rejects
    owed,     \* history: the date the journal adds up to, in commit order
    overlapped, \* history: a grant was committed while another held the row read
    overtaken,  \* history: the last grant fell between a read of the row and a
                \* status that was still to be written from that read
    dates     \* history: every date a committed row has had

outside == <<now, drift, faults, blocked>>
history == <<owed, overlapped, overtaken, dates>>
external == <<panel, linked, late>>    \* the panel's side
tasks == <<held, cron>>                \* the worker's side
vars == <<outside, row, outbox, external, req, call, tasks, history>>

Callers == Requests \cup Workers \cup Sweepers
Messages == Requests \cup Passes \cup Hooks

Statuses == {"absent", "pending", "active", "expired"}
Rows == [status : Statuses, expires : Nat]
NoRow == [status |-> "absent", expires |-> 0]

Images == [status : {"ACTIVE", "DISABLED"}, expires : Nat]
NoImage == [status |-> "DISABLED", expires |-> 0]
PanelUsers == [status : {"ABSENT", "ACTIVE", "DISABLED"}, expires : Nat,
               ours : BOOLEAN]
NoPanelUser == [status |-> "ABSENT", expires |-> 0, ours |-> TRUE]
MadeByHand == [status |-> "ACTIVE", expires |-> 1, ours |-> FALSE]

Later(a, b) == IF a > b THEN a ELSE b

-----------------------------------------------------------------------------
(* Pure rules: domain/subscriptions.py and the head of reconcile().          *)

\* Variants for mutation runs: the paid remainder is dropped; today counts too.
ExtendFromNow(r, t, d) == t + d
ExtendInclusive(r, t, d) == Later(r.expires, t) + d + 1

\* extend(): a running date moves from itself, a past or missing one from now.
Extend(r, t, d) ==
    IF r.status # "absent" /\ r.expires > t THEN r.expires + d ELSE t + d

\* convert_remainder() and _remainder_days(): whole days only, none when the
\* date has passed, none between a free plan and any other (a rate of zero).
ConvertRemainder(expires, t, rate) ==
    IF expires <= t THEN 0 ELSE ((expires - t) * rate[1]) \div rate[2]

\* resolve_state(disabled=False, provisioned=True).
ResolveState(expires, t) == IF expires <= t THEN "expired" ELSE "active"

\* What reconcile() wants of the panel for the row its session holds.
Desired(r) == [status |-> IF r.status = "active" THEN "ACTIVE" ELSE "DISABLED",
               expires |-> r.expires]

\* WORKING_STATES of repositories/subscriptions.py.
Working(r) == r.status \in {"active", "pending"}

Exists == panel.status # "ABSENT"
Shows(image) == Exists /\ panel.status = image.status /\ panel.expires = image.expires

-----------------------------------------------------------------------------
IdleRequest == [pc |-> "idle", insert |-> FALSE, was |-> "absent", mem |-> NoRow,
                at |-> 0, days |-> 0, restart |-> FALSE]
At(pc) == [IdleRequest EXCEPT !.pc = pc]
IdleCall == [at |-> "idle", want |-> NoImage]
NoMessage == [state |-> "absent", attempts |-> 0]

\* A user without a subscription, or with one running to day 1 that the panel
\* shows.
Init ==
    /\ now = 0
    /\ \/ /\ row = NoRow
          /\ panel = NoPanelUser
          /\ linked = FALSE
       \/ /\ row = [status |-> "active", expires |-> 1]
          /\ panel = [status |-> "ACTIVE", expires |-> 1, ours |-> TRUE]
          /\ linked = TRUE
    /\ outbox = [m \in Messages |-> NoMessage]
    /\ req = [r \in Requests |-> IdleRequest]
    /\ call = [c \in Callers |-> IdleCall]
    /\ held = [w \in Workers |-> None]
    /\ cron = None
    /\ late = {}
    /\ drift = 0 /\ faults = 0 /\ blocked = FALSE
    /\ owed = row.expires
    /\ overlapped = FALSE /\ overtaken = FALSE
    /\ dates = {row.expires}

\* One of the failures the run has left.
Fault == faults < MaxFaults /\ faults' = faults + 1

-----------------------------------------------------------------------------
(* Outbox rows.                                                              *)

Queued(m) == outbox[m].state = "queued"
Locked(m) == \E w \in Workers : held[w] = m

\* mark_processed(); how often a closed message was tried is not kept.
Closed == [state |-> "processed", attempts |-> 0]
Enqueued(m) == [outbox EXCEPT ![m] = [state |-> "queued", attempts |-> 0]]

\* A slot may carry a new message once the previous one is closed.
Free(m) == outbox[m].state # "queued" /\ ~Locked(m)

-----------------------------------------------------------------------------
(* A request: activate_trial, grant_days, change_plan, then _provision.      *)

Loaded(r, expires, d, restart) ==
    req' = [req EXCEPT ![r] = [pc |-> "loaded",
                               insert |-> row.status = "absent",
                               was |-> row.status,
                               mem |-> [status |-> "pending", expires |-> expires],
                               at |-> now, days |-> d, restart |-> restart]]

\* grant_days() up to its first write: the row is read, the date computed.
LoadForGrant(r) ==
    /\ req[r].pc = "idle"
    /\ \E d \in Days : Loaded(r, Extend(row, now, d), d, FALSE)
    /\ UNCHANGED <<outside, row, outbox, external, call, tasks, history>>

\* Variant: the old date stays, so the paid remainder counts twice.
LoadForChangeKeepingDate(r) ==
    /\ req[r].pc = "idle"
    /\ row.status # "absent"
    /\ \E rate \in Rates :
          LET d == ConvertRemainder(row.expires, now, rate)
          IN  Loaded(r, IF d = 0 THEN row.expires ELSE Extend(row, now, d), d, TRUE)
    /\ UNCHANGED <<outside, row, outbox, external, call, tasks, history>>

\* change_plan() with plan_change_keeps_remainder: the remainder is counted in
\* days of the new plan and the date starts again from now. (With the setting
\* off, a plan change is a grant of the new plan's duration: LoadForGrant.)
LoadForChange(r) ==
    /\ req[r].pc = "idle"
    /\ row.status # "absent"
    /\ \E rate \in Rates :
          LET d == ConvertRemainder(row.expires, now, rate)
          IN  Loaded(r, now + d, d, TRUE)
    /\ UNCHANGED <<outside, row, outbox, external, call, tasks, history>>

\* The date the journal adds up to once the entry of request r is in it.
OwedAfter(r) ==
    IF req[r].restart THEN req[r].at + req[r].days
    ELSE Later(owed, req[r].at) + req[r].days

\* Somebody is about to write a status from an older read of the row: the expiry
\* task, another request's activation, or this commit, which keeps the status
\* of a row that it saw pending and that has expired since.
OvertakenBy(r) ==
    \/ cron # None
    \/ \E o \in Requests \ {r} : req[o].pc = "granted"
    \/ req[r].was = "pending" /\ row.status = "expired"

\* The transaction of grant_days(): row, journal and message in one commit. An
\* UPDATE sets the status only if this session saw another one before.
CommitGrant(r) ==
    /\ req[r].pc = "loaded"
    /\ req[r].insert => row.status = "absent"
    /\ row' = [status |-> IF req[r].was # "pending" THEN "pending" ELSE row.status,
               expires |-> req[r].mem.expires]
    /\ outbox' = Enqueued(r)
    /\ owed' = OwedAfter(r)
    /\ overlapped' = (overlapped \/ \E o \in Requests \ {r} : req[o].pc = "loaded")
    /\ overtaken' = OvertakenBy(r)
    /\ dates' = dates \cup {req[r].mem.expires}
    /\ req' = [req EXCEPT ![r] = [At("granted") EXCEPT !.mem = req[r].mem]]
    /\ UNCHANGED <<outside, external, call, tasks>>

\* subscriptions.user_id is unique: the second of two first grants is refused
\* by the database and its whole transaction is rolled back.
GrantConflicts(r) ==
    /\ req[r].pc = "loaded" /\ req[r].insert /\ row.status # "absent"
    /\ req' = [req EXCEPT ![r] = At("done")]
    /\ UNCHANGED <<outside, row, outbox, external, call, tasks, history>>

\* _provision() up to its first commit: the working status is written from the
\* date this session holds, and reconcile() starts with the same held row.
Activate(r) ==
    /\ req[r].pc = "granted"
    /\ LET mem == [req[r].mem EXCEPT !.status = ResolveState(req[r].mem.expires, now)]
       IN  /\ row' = [row EXCEPT !.status = mem.status]
           /\ req' = [req EXCEPT ![r] = At("provisioning")]
           /\ call' = [call EXCEPT ![r] = [at |-> "find", want |-> Desired(mem)]]
    /\ UNCHANGED <<outside, outbox, external, tasks, history>>

\* The panel answered: the message is closed, unless a worker holds its lock.
\* Closing it waits for that worker.
Succeed(r) ==
    /\ req[r].pc = "provisioning" /\ call[r].at = "ok"
    /\ ~Locked(r)
    /\ outbox' = [outbox EXCEPT ![r] = Closed]
    /\ req' = [req EXCEPT ![r] = At("done")]
    /\ call' = [call EXCEPT ![r] = IdleCall]
    /\ UNCHANGED <<outside, row, external, tasks, history>>

\* The panel refused, failed or took over three seconds: the status goes back.
Fail(r) ==
    /\ req[r].pc = "provisioning" /\ call[r].at = "failed"
    /\ row' = [row EXCEPT !.status = "pending"]
    /\ req' = [req EXCEPT ![r] = At("done")]
    /\ call' = [call EXCEPT ![r] = IdleCall]
    /\ UNCHANGED <<outside, outbox, external, tasks, history>>

\* The API process dies with the request in it; what it committed stays.
RequestDies(r) ==
    /\ Fault
    /\ req[r].pc \in {"loaded", "granted", "provisioning"}
    /\ req' = [req EXCEPT ![r] = At("done")]
    /\ call' = [call EXCEPT ![r] = IdleCall]
    /\ UNCHANGED <<now, drift, blocked, row, outbox, external, tasks, history>>

-----------------------------------------------------------------------------
(* ProvisioningService.reconcile() for any caller: look the panel user up,   *)
(* then create or patch it if it differs. `want` was fixed when the caller's *)
(* session read the row. Reaching "ok" also commits users.remnawave_id.      *)

\* A call that has ended does not need its image any more.
Ended(at) == [at |-> at, want |-> NoImage]
To(c, at) ==
    call' = [call EXCEPT ![c] = IF at \in {"ok", "failed"} THEN Ended(at)
                                ELSE [at |-> at, want |-> call[c].want]]

\* Variant: an existing panel user is never patched.
NothingToWriteOnceThere(c) == Exists

\* A panel user without our tag is left alone, and so is one that already
\* shows what we want: the caller is done in both cases.
NothingToWrite(c) == Exists /\ (~panel.ours \/ Shows(call[c].want))

Find(c) ==
    /\ call[c].at = "find"
    /\ IF NothingToWrite(c)
       THEN To(c, "ok") /\ linked' = TRUE
       ELSE To(c, IF Exists THEN "update" ELSE "create") /\ UNCHANGED linked
    /\ UNCHANGED <<outside, row, outbox, panel, late, req, tasks, history>>

\* Variant: the panel is told to move its own date (actions/extend).
WrittenByExtension(op, image) ==
    [status |-> image.status, expires |-> panel.expires + image.expires,
     ours |-> IF op = "create" THEN TRUE ELSE panel.ours]

Written(op, image) ==
    [status |-> image.status, expires |-> image.expires,
     ours |-> IF op = "create" THEN TRUE ELSE panel.ours]

\* The panel carries the write out: a create if the name is free, a patch if
\* the user is still there.
Accepted(op) == (op = "create") = ~Exists

Write(c) ==
    /\ call[c].at \in {"create", "update"} /\ Accepted(call[c].at)
    /\ panel' = Written(call[c].at, call[c].want)
    /\ linked' = TRUE
    /\ To(c, "ok")
    /\ UNCHANGED <<outside, row, outbox, late, req, tasks, history>>

\* Variant: a create that finds the name taken goes on as a patch.
WriteRejectedThenPatched(c) ==
    /\ call[c].at \in {"create", "update"} /\ ~Accepted(call[c].at)
    /\ To(c, IF call[c].at = "create" THEN "update" ELSE "failed")
    /\ UNCHANGED <<outside, row, outbox, external, req, tasks, history>>

\* RemnawaveRejected: the name is taken by a create that came first.
WriteRejected(c) ==
    /\ call[c].at \in {"create", "update"} /\ ~Accepted(call[c].at)
    /\ To(c, "failed")
    /\ UNCHANGED <<outside, row, outbox, external, req, tasks, history>>

\* RemnawaveUnavailable or the timeout of the caller, with nothing written.
PanelSilent(c) ==
    /\ Fault
    /\ call[c].at \in {"find", "create", "update"}
    /\ To(c, "failed")
    /\ UNCHANGED <<now, drift, blocked, row, outbox, external, req, tasks, history>>

\* The same for the caller, but the request is out and may still be served.
AnswerLost(c) ==
    /\ Fault
    /\ call[c].at \in {"create", "update"} /\ Cardinality(late) < MaxLate
    /\ late' = late \cup {[op |-> call[c].at, want |-> call[c].want]}
    /\ To(c, "failed")
    /\ UNCHANGED <<now, drift, blocked, row, outbox, panel, linked, req, tasks, history>>

\* A write nobody waits for reaches the panel, or turns out to be lost.
LateWrite(w) ==
    /\ w \in late
    /\ late' = late \ {w}
    /\ IF Accepted(w.op)
       THEN /\ panel' = Written(w.op, w.want)
            /\ linked' = (linked /\ w.op = "update")
       ELSE UNCHANGED <<panel, linked>>
    /\ UNCHANGED <<outside, row, outbox, req, call, tasks, history>>

LateLost(w) ==
    /\ w \in late
    /\ late' = late \ {w}
    /\ UNCHANGED <<outside, row, outbox, panel, linked, req, call, tasks, history>>

-----------------------------------------------------------------------------
(* The outbox worker: takes a message with SKIP LOCKED. Retry delays are not *)
(* counted: a postponed message may be taken again at any later step.        *)

Take(w, m) ==
    /\ held[w] = None /\ Queued(m) /\ ~Locked(m)
    /\ held' = [held EXCEPT ![w] = m]
    /\ UNCHANGED <<outside, row, outbox, external, req, call, cron, history>>

\* The handler opens its own session and reads the row anew.
HandlerReads(w) ==
    /\ held[w] # None /\ call[w].at = "idle"
    /\ call' = [call EXCEPT ![w] = IF row.status = "absent"
                                   THEN Ended("failed")
                                   ELSE [at |-> "find", want |-> Desired(row)]]
    /\ UNCHANGED <<outside, row, outbox, external, req, tasks, history>>

Release(w) ==
    /\ held' = [held EXCEPT ![w] = None]
    /\ call' = [call EXCEPT ![w] = IdleCall]
    /\ UNCHANGED <<row, external, req, cron, history>>

Deliver(w) ==
    /\ held[w] # None /\ call[w].at = "ok"
    /\ outbox' = [outbox EXCEPT ![held[w]] = Closed]
    /\ UNCHANGED outside
    /\ Release(w)

\* Variant: a failing message is never given up.
GiveBackForEver(w) ==
    /\ held[w] # None /\ call[w].at = "failed"
    /\ outbox' = [outbox EXCEPT ![held[w]].attempts = @ + 1]
    /\ UNCHANGED outside
    /\ Release(w)

\* Postponed, or closed with its error once the attempts are spent.
GiveBack(w) ==
    /\ held[w] # None /\ call[w].at = "failed"
    /\ LET a == outbox[held[w]].attempts + 1
       IN  outbox' = [outbox EXCEPT ![held[w]] =
                        [state |-> IF a >= MaxAttempts THEN "dropped" ELSE "queued",
                         attempts |-> a]]
    /\ UNCHANGED outside
    /\ Release(w)

\* The worker dies: its transaction is rolled back and the lock is gone.
WorkerDies(w) ==
    /\ held[w] # None
    /\ Fault
    /\ UNCHANGED <<now, drift, blocked, outbox>>
    /\ Release(w)

-----------------------------------------------------------------------------
(* The expiry task: expire_due() reads due rows without a lock, then writes. *)

\* Variants: the date is not looked at; a row that ends now is not due yet.
IsDueAnyDate(t) == row.status = "active"
IsDueStrict(t) == row.status = "active" /\ row.expires < t

\* list_due(): pending rows are not in it.
IsDue(t) == row.status = "active" /\ row.expires <= t

ExpireLoads(p) ==
    /\ cron = None /\ Free(p)
    /\ IsDue(now)
    /\ cron' = p
    /\ UNCHANGED <<outside, row, outbox, external, req, call, held, history>>

ExpireCommits(p) ==
    /\ cron = p
    /\ row' = [row EXCEPT !.status = "expired"]
    /\ outbox' = Enqueued(p)
    /\ cron' = None
    /\ UNCHANGED <<outside, external, req, call, held, history>>

ExpireDies ==
    /\ Fault
    /\ cron # None
    /\ cron' = None
    /\ UNCHANGED <<now, drift, blocked, row, outbox, external, req, call, held, history>>

-----------------------------------------------------------------------------
(* Reconciliation: a page of working rows is read, and each is reconciled    *)
(* from the page's copy, which the session does not refresh.                 *)

SweepLoads(s) ==
    /\ call[s].at = "idle" /\ Working(row)
    /\ call' = [call EXCEPT ![s] = [at |-> "find", want |-> Desired(row)]]
    /\ UNCHANGED <<outside, row, outbox, external, req, tasks, history>>

\* A row before this one on the page raises anything but RemnawaveUnavailable:
\* nobody catches it, and the run ends before it comes to this row.
SweepStops(s) ==
    /\ blocked /\ call[s].at = "find"
    /\ call' = [call EXCEPT ![s] = IdleCall]
    /\ UNCHANGED <<outside, row, outbox, external, req, tasks, history>>

\* Fixed, skipped, unavailable (next row), rejected (the run ends) or dead.
SweepEnds(s) ==
    /\ call[s].at \in {"ok", "failed"}
    /\ call' = [call EXCEPT ![s] = IdleCall]
    /\ UNCHANGED <<outside, row, outbox, external, req, tasks, history>>

-----------------------------------------------------------------------------
(* Outside the repository.                                                   *)

\* The panel reports an event about this user; one that our remnawave_id does
\* not find is stored and nothing else happens.
WebhookArrives(h) ==
    /\ linked /\ Free(h)
    /\ outbox' = Enqueued(h)
    /\ UNCHANGED <<outside, row, external, req, call, tasks, history>>

\* An operator switches the panel user on or off by hand.
OperatorToggles ==
    /\ drift < MaxDrift /\ Exists
    /\ drift' = drift + 1
    /\ panel' = [panel EXCEPT !.status = IF @ = "ACTIVE" THEN "DISABLED" ELSE "ACTIVE"]
    /\ UNCHANGED <<now, faults, blocked, row, outbox, linked, late, req, call, tasks, history>>

\* An operator deletes the panel user: a PATCH on its way meets a 404, and the
\* next user of that name has another number.
OperatorDeletes ==
    /\ drift < MaxDrift /\ Exists
    /\ drift' = drift + 1
    /\ panel' = NoPanelUser
    /\ call' = [c \in Callers |->
                  IF call[c].at = "update" THEN Ended("failed") ELSE call[c]]
    /\ late' = {w \in late : w.op = "create"}
    /\ UNCHANGED <<now, faults, blocked, row, outbox, linked, req, tasks, history>>

\* Somebody makes a panel user of this name by hand: it has no tag of ours and a
\* number that users.remnawave_id does not know.
OperatorCreates ==
    /\ drift < MaxDrift /\ ~Exists
    /\ drift' = drift + 1
    /\ panel' = MadeByHand
    /\ linked' = FALSE
    /\ UNCHANGED <<now, faults, blocked, row, outbox, late, req, call, tasks, history>>

\* A sweep on its way to this row meets one of another user that the panel
\* rejects (its squad was deleted, its name is taken), until that is mended.
EarlierRowBreaks ==
    /\ Fault
    /\ \E s \in Sweepers : call[s].at = "find"
    /\ ~blocked /\ blocked' = TRUE
    /\ UNCHANGED <<now, drift, row, outbox, external, req, call, tasks, history>>

EarlierRowMends ==
    /\ blocked /\ blocked' = FALSE
    /\ UNCHANGED <<now, drift, faults, row, outbox, external, req, call, tasks, history>>

Tick ==
    /\ now < MaxTime
    /\ now' = now + 1
    /\ UNCHANGED <<drift, faults, blocked, row, outbox, external, req, call, tasks, history>>

-----------------------------------------------------------------------------
RequestStep(r) ==
    \/ LoadForGrant(r) \/ LoadForChange(r) \/ CommitGrant(r) \/ GrantConflicts(r)
    \/ Activate(r) \/ Succeed(r) \/ Fail(r) \/ RequestDies(r)

PanelCall(c) ==
    \/ Find(c) \/ Write(c) \/ WriteRejected(c) \/ PanelSilent(c) \/ AnswerLost(c)

WorkerStep(w) ==
    \/ \E m \in Messages : Take(w, m)
    \/ HandlerReads(w) \/ Deliver(w) \/ GiveBack(w) \/ WorkerDies(w)

CronStep == (\E p \in Passes : ExpireLoads(p) \/ ExpireCommits(p)) \/ ExpireDies

SweepStep == \E s \in Sweepers : SweepLoads(s) \/ SweepStops(s) \/ SweepEnds(s)

LateStep == \E w \in late : LateWrite(w) \/ LateLost(w)

Outside ==
    \/ \E h \in Hooks : WebhookArrives(h)
    \/ OperatorToggles \/ OperatorDeletes \/ OperatorCreates
    \/ EarlierRowBreaks \/ EarlierRowMends \/ Tick

Next ==
    \/ \E r \in Requests : RequestStep(r)
    \/ \E c \in Callers : PanelCall(c)
    \/ \E w \in Workers : WorkerStep(w)
    \/ CronStep \/ SweepStep \/ LateStep \/ Outside

Spec == Init /\ [][Next]_vars

\* The task queue runs every task again and again (the cron schedules of
\* tasks.py) and failures end, so each process that can go on does. A request
\* that has begun runs on; nobody has to begin one. The clock, the operator and
\* the panel's events owe nothing. That sweeps are run does not mean that one
\* comes to this row: while an earlier row is rejected each of them may stop
\* there (reconciliation.py:42-49), and nobody has to mend that row.
Fairness ==
    /\ \A r \in Requests :
          WF_vars(CommitGrant(r) \/ GrantConflicts(r) \/ Activate(r)
                  \/ Succeed(r) \/ Fail(r))
    /\ \A c \in Callers : WF_vars(PanelCall(c))
    /\ \A w \in Workers : WF_vars(WorkerStep(w))
    /\ WF_vars(CronStep)
    /\ \A s \in Sweepers : WF_vars(SweepLoads(s) \/ SweepStops(s) \/ SweepEnds(s))
    /\ WF_vars(LateStep)

FairSpec == Spec /\ Fairness

-----------------------------------------------------------------------------
OutboxRows == [state : {"absent", "queued", "processed", "dropped"},
               attempts : 0 .. MaxAttempts]
RequestStates == [pc : {"idle", "loaded", "granted", "provisioning", "done"},
                  insert : BOOLEAN, was : Statuses, mem : Rows,
                  at : Nat, days : Nat, restart : BOOLEAN]
PanelCalls == [at : {"idle", "find", "create", "update", "ok", "failed"}, want : Images]
LateWrites == [op : {"create", "update"}, want : Images]

TypeOK ==
    /\ now \in Nat
    /\ row \in Rows
    /\ outbox \in [Messages -> OutboxRows]
    /\ panel \in PanelUsers
    /\ linked \in BOOLEAN
    /\ req \in [Requests -> RequestStates]
    /\ call \in [Callers -> PanelCalls]
    /\ held \in [Workers -> Messages \cup {None}]
    /\ cron \in Passes \cup {None}
    /\ late \subseteq LateWrites
    /\ drift \in 0 .. MaxDrift /\ faults \in 0 .. MaxFaults /\ blocked \in BOOLEAN
    /\ owed \in Nat
    /\ overlapped \in BOOLEAN /\ overtaken \in BOOLEAN
    /\ dates \subseteq Nat

\* Every date that travels to the panel, or arrived there, is one that a
\* committed row has had: retries, redeliveries and late writes repeat a date
\* and never compute one (provisioning.py:69-72).
OnlyCommittedDatesTravel ==
    /\ Exists /\ panel.ours => panel.expires \in dates
    /\ \A c \in Callers : call[c].at \in {"find", "create", "update"}
                           => call[c].want.expires \in dates
    /\ \A w \in late : w.want.expires \in dates

\* Without plan changes no date exceeds what the journal adds up to, whatever
\* overlaps, is retried or dies (subscriptions.py:3, grant_days).
NothingBeyondJournal == Rates = {} => \A d \in dates : d <= owed

\* "The grant, the journal and the message are one transaction, otherwise a
\* payment may stay without its access" (subscriptions.py:140-142): the date of
\* the row is what the journal adds up to, so no journalled day is lost.
NoGrantIsLost == row.status # "absent" => row.expires = owed

\* The same as long as no two grants overlapped: worker, sweep, expiry task,
\* retries and deaths at any step neither take a granted day nor add one.
SerialGrantsAddUp == ~overlapped => NoGrantIsLost

\* "Expired follows from the date" (tasks.py:51-52): the date of an expired row
\* has passed, however grants, activations, failures and the task interleave,
\* but for one case: the last grant fell between a read of the row and the
\* status then written from it (the task's at subscriptions.py:234-236, an
\* activation's at 272). That grant keeps its date and loses its status.
ExpiredByItsDate ==
    row.status = "expired" => row.expires <= now \/ overtaken

\* A panel user that somebody made without our tag is never written to, also when
\* he makes it after the look-up found nobody, or in place of one of ours that
\* was found: the create is refused and the patch names a number that is gone
\* (provisioning.py:99-105, 192-204).
ForeignUserLeftAlone ==
    [][Exists /\ ~panel.ours => panel' = panel \/ drift' # drift]_vars

\* While the row stays working, the panel comes to show it for good: the sweep
\* repairs stale writes, late writes and edits by hand, provided that rows
\* before this one do not end every sweep (reconciliation.py:42-49).
PanelCatchesUp ==
    <>[]~blocked =>
        <>[](Working(row) => Shows(Desired(row)) \/ (Exists /\ ~panel.ours))

\* A working row whose date has passed does not stay working, and the message
\* that the expiry task leaves for it closes the access in the panel, unless the
\* row is granted again, the attempts run out or an operator still has edits to
\* make by hand (subscriptions.py:247).
DueSubscriptionsEnd ==
    /\ (row.status = "active" /\ row.expires <= now) ~>
           (row.status # "active" \/ row.expires > now)
    /\ \A p \in Passes :
           (row.status = "expired" /\ Queued(p) /\ ~Locked(p) /\ drift = MaxDrift) ~>
               \/ row.status # "expired"
               \/ panel.status # "ACTIVE" \/ ~panel.ours
               \/ outbox[p].state = "dropped"

\* "The worker will finish the provisioning" (subscriptions.py:256-257): a
\* granted row does not wait for its access for ever while its date runs.
GrantReachesPanel ==
    (row.status = "pending" /\ row.expires > now) ~>
        (panel.status = "ACTIVE" \/ row.status # "pending" \/ row.expires <= now)
=============================================================================
