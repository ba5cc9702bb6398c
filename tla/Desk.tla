-------------------------------- MODULE Desk --------------------------------
(* What the staff does: plans are created, edited and archived               *)
(* (services/plans.py), days are granted and plans changed by hand, and the  *)
(* act is written to the audit log (routers/admin.py), beside users who      *)
(* activate their trial and operators who edit the squads of the panel.      *)
(*                                                                           *)
(* Each SELECT is a step and sees what is committed by then. A session       *)
(* writes back the columns that differ from what it has loaded, and an       *)
(* insert or an update that breaks a unique index fails the whole request.   *)
(*                                                                           *)
(* Abstractions.  There is one user. A plan is its code, whether it is a     *)
(* trial, and its squads: the other fields go the way of these. A date is a  *)
(* number of days, every day of every plan is worth the same, and no date    *)
(* passes: Subscription has the dates, and the way of a grant to the panel.  *)
EXTENDS Integers, FiniteSets, Sequences

CONSTANTS
    Requests,   \* requests under way at once
    Plans,      \* rows of `plans`, stored and not
    Codes,
    Squads,
    Mixes,      \* bound: what happens together in one behaviour
    MaxBegun,   \* bound: requests begun
    MaxEdits,   \* bound: squads removed from the panel or put back
    MaxDead     \* bound: requests that die, or fail on an unread answer

Wants == {"create", "update", "archive", "grant", "change", "trial"}
Unasked == {"operator", "death"}
None == "none"

ASSUME NamesAssumption == None \notin Plans
ASSUME MixesAssumption == Mixes \subseteq SUBSET (Wants \cup Unasked)
ASSUME BoundsAssumption == MaxBegun \in Nat /\ MaxEdits \in Nat /\ MaxDead \in Nat

VARIABLES
    plan,       \* `plans`
    squads,     \* the squads of the panel
    sub,        \* the row of `subscriptions`: a plan and a date
    audit,      \* `audit_log`: the acts on the subscription, in commit order
    request,    \* each request: where it is and what it has read
    mix, begun, edits, dead,
    acts,       \* history: what the staff did to the subscription
    sent,       \* history: the payloads each plan was saved from
    mixed,      \* history: plans saved over a change made since they were read
    removed,    \* history: squads taken from the panel
    cut         \* history: acts whose request ended before the audit log

counters == <<mix, begun, edits, dead>>
vars == <<plan, squads, sub, audit, request, counters, acts, sent, mixed, removed, cut>>

Payloads == [code : Codes, trial : BOOLEAN, squads : SUBSET Squads \ {{}}]
NoPayload == [code |-> None, trial |-> FALSE, squads |-> {}]
PlanRows == [state : {"active", "archived"}, data : Payloads]
NoPlan == [state |-> "absent", data |-> NoPayload]

NoSub == [plan |-> None, expires |-> 0]
Subs == [plan : Plans, expires : Nat]

There(p) == plan[p].state # "absent"

\* plans.code is unique, and uq_plans_single_active_trial holds one row.
CodesUnique(rows) ==
    \A p, q \in Plans :
        rows[p].state # "absent" /\ rows[p].data.code = rows[q].data.code => p = q
OneTrial(rows) ==
    \A p, q \in Plans :
        /\ rows[p].state = "active" /\ rows[p].data.trial
        /\ rows[q].state = "active" /\ rows[q].data.trial
        => p = q
Accepted(rows) == CodesUnique(rows) /\ OneTrial(rows)

\* pc of a request that is over; what it wants, with which payload and of
\* which plan; the plan and the subscription as it has loaded them; the
\* subscription as it was before the act, for the audit log; how many acts
\* there were then; and the number of its own.
Idle == [pc |-> "idle", wants |-> None, data |-> NoPayload, plan |-> None,
         mem |-> NoPlan, own |-> NoSub, before |-> NoSub, since |-> 0, act |-> 0]

Init ==
    /\ squads \in SUBSET Squads \ {{}}
    /\ plan \in [Plans -> {NoPlan} \cup {row \in PlanRows : row.state = "active"
                                                      /\ row.data.squads = squads}]
    /\ CodesUnique(plan) /\ OneTrial(plan)
    /\ sub \in {NoSub} \cup [plan : {p \in Plans : There(p)}, expires : {1}]
    /\ audit = <<>>
    /\ request = [r \in Requests |-> Idle]
    /\ mix \in Mixes
    /\ begun = 0 /\ edits = 0 /\ dead = 0
    /\ acts = <<>>
    /\ sent = [p \in Plans |-> IF There(p) THEN {plan[p].data} ELSE {}]
    /\ mixed = {} /\ removed = {} /\ cut = {}

-----------------------------------------------------------------------------
At(r, pc) == request[r].pc = pc
Goes(r, new) == request' = [request EXCEPT ![r] = new]
Over(r) == Goes(r, Idle)

Begin(r, new) ==
    /\ At(r, "idle") /\ new.wants \in mix \cup {None} /\ begun < MaxBegun
    /\ begun' = begun + 1
    /\ Goes(r, new)
    /\ UNCHANGED <<plan, squads, sub, audit, mix, edits, dead, acts, sent, mixed, removed, cut>>

\* A step that only reads.
Reads(r, new) ==
    /\ Goes(r, new)
    /\ UNCHANGED <<plan, squads, sub, audit, counters, acts, sent, mixed, removed, cut>>

(* Plans: PlanService.                                                       *)

Create(r, data) == Begin(r, [Idle EXCEPT !.pc = "squads", !.wants = "create", !.data = data])

\* require(): a plan that is not there is refused.
Update(r, p, data) ==
    Begin(r, IF There(p) THEN [Idle EXCEPT !.pc = "squads", !.wants = "update",
                                   !.data = data, !.plan = p, !.mem = plan[p]]
             ELSE Idle)

Archive(r, p) ==
    Begin(r, IF There(p) THEN [Idle EXCEPT !.pc = "archive", !.wants = "archive",
                                   !.plan = p, !.mem = plan[p]]
             ELSE Idle)

\* Variant: one squad that the panel knows is enough.
SomeKnown(wanted) == wanted \cap squads # {}
Known(wanted) == wanted \subseteq squads

\* _check_squads() asks the panel, which may be silent: PanelSilent.
CheckSquads(r) ==
    /\ At(r, "squads")
    /\ Reads(r, IF Known(request[r].data.squads) THEN [request[r] EXCEPT !.pc = "code"] ELSE Idle)

PanelSilent(r) == At(r, "squads") /\ Reads(r, Idle)

\* get_by_code(): an update may keep the code of its own plan.
CheckCode(r) ==
    /\ At(r, "code")
    /\ LET q == request[r]
           taken == \E p \in Plans \ {q.plan} : There(p) /\ plan[p].data.code = q.data.code
       IN  Reads(r, IF taken THEN Idle ELSE [q EXCEPT !.pc = "save"])

\* An UPDATE sets the columns that differ from those that were loaded.
Merged(row, mem, data) ==
    [code   |-> IF data.code = mem.code THEN row.code ELSE data.code,
     trial  |-> IF data.trial = mem.trial THEN row.trial ELSE data.trial,
     squads |-> IF data.squads = mem.squads THEN row.squads ELSE data.squads]

\* An edit brings no is_active along.
StateSaved(p) == IF There(p) THEN plan[p].state ELSE "active"

\* The commit of create() and of update(), or the IntegrityError of either,
\* which nothing catches: the answer is 500.
Save(r, p) ==
    /\ At(r, "save")
    /\ LET q == request[r]
           data == IF q.wants = "create" THEN q.data
                   ELSE Merged(plan[p].data, q.mem.data, q.data)
           rows == [plan EXCEPT ![p] = [state |-> StateSaved(p), data |-> data]]
       IN  /\ IF q.wants = "create" THEN ~There(p) ELSE p = q.plan
           /\ IF Accepted(rows)
              THEN /\ plan' = rows
                   /\ sent' = [sent EXCEPT ![p] = @ \cup {q.data}]
                   /\ mixed' = IF q.wants = "update" /\ plan[p].data # q.mem.data
                               THEN mixed \cup {p} ELSE mixed
              ELSE UNCHANGED <<plan, sent, mixed>>
    /\ Over(r)
    /\ UNCHANGED <<squads, sub, audit, counters, acts, removed, cut>>

ArchiveCommits(r) ==
    /\ At(r, "archive")
    /\ plan' = [plan EXCEPT ![request[r].plan].state = "archived"]
    /\ Over(r)
    /\ UNCHANGED <<squads, sub, audit, counters, acts, sent, mixed, removed, cut>>

-----------------------------------------------------------------------------
(* POST /api/admin/users/{user_id}/subscription, and the trial of the user.  *)

ByHand == {"grant", "change"}

\* `before`, as the audit log will have it.
Grant(r, p, wants) ==
    /\ wants \in ByHand
    /\ Begin(r, [Idle EXCEPT !.pc = "require", !.wants = wants, !.plan = p,
                             !.before = sub, !.since = Len(acts)])

\* Variant: a change of plan does not look whether the new one is on sale.
MayTakeAny(state, wants) == state # "absent"

\* require(), and of change_plan() also is_active: days may be granted of a
\* plan that is archived.
MayTake(state, wants) == state = "active" \/ (state = "archived" /\ wants = "grant")

Require(r) ==
    /\ At(r, "require")
    /\ LET q == request[r]
       IN  Reads(r, IF MayTake(plan[q.plan].state, q.wants)
                    THEN [q EXCEPT !.pc = "load", !.mem = plan[q.plan]] ELSE Idle)

\* activate_trial() of a user without a subscription, of the one active trial
\* plan. There is one such request: Accounts has two of them at once.
Trial(r, p) ==
    /\ sub = NoSub /\ plan[p].state = "active" /\ plan[p].data.trial
    /\ \A o \in Requests : request[o].wants # "trial"
    /\ Begin(r, [Idle EXCEPT !.pc = "load", !.wants = "trial", !.plan = p, !.mem = plan[p]])

\* The row that grant_days() reads; a change of plan needs one.
Load(r) ==
    /\ At(r, "load")
    /\ Reads(r, IF request[r].wants = "change" /\ sub = NoSub THEN Idle
                ELSE [request[r] EXCEPT !.pc = "grant", !.own = sub])

\* Variant: the days go on a date that was extended already.
GrantedTwice(q) ==
    [plan |-> q.plan, expires |-> q.own.expires + IF q.wants = "change" THEN 0 ELSE 2]

\* grant_days(): a day more, or the same date on another plan.
GrantedOf(q) ==
    [plan |-> q.plan, expires |-> q.own.expires + IF q.wants = "change" THEN 0 ELSE 1]

\* The commit of grant_days(). An insert fails if the user has a row by now;
\* an UPDATE does not write the plan if it is the one that was loaded.
GrantCommits(r) ==
    /\ At(r, "grant")
    /\ LET q == request[r]
           is == GrantedOf(q)
       IN  IF q.own = NoSub /\ sub # NoSub
           THEN Over(r) /\ UNCHANGED <<sub, acts>>
           ELSE /\ sub' = IF q.own.plan = q.plan THEN [is EXCEPT !.plan = sub.plan] ELSE is
                /\ acts' = Append(acts, [by |-> q.wants, was |-> sub, is |-> sub'])
                /\ IF q.wants = "trial" THEN Over(r)
                   ELSE Goes(r, [q EXCEPT !.pc = "audit", !.own = is, !.act = Len(acts) + 1])
    /\ UNCHANGED <<plan, squads, audit, counters, sent, mixed, removed, cut>>

\* Variant: the state before the act is read when the act is written down.
RecordAfterwards(q) ==
    [act |-> q.act, since |-> q.since, before |-> sub, after |-> q.own]

\* `act` and `since` are history.
Record(q) == [act |-> q.act, since |-> q.since, before |-> q.before, after |-> q.own]

\* AuditRepository.record() and a commit of its own, once the panel has
\* answered or was given up.
AuditCommits(r) ==
    /\ At(r, "audit")
    /\ audit' = Append(audit, Record(request[r]))
    /\ Over(r)
    /\ UNCHANGED <<plan, squads, sub, counters, acts, sent, mixed, removed, cut>>

\* A process dies, or reconcile() raises what _provision() does not catch.
Dies(r) ==
    /\ "death" \in mix /\ ~At(r, "idle") /\ dead < MaxDead
    /\ dead' = dead + 1
    /\ cut' = IF At(r, "audit") THEN cut \cup {request[r].act} ELSE cut
    /\ Over(r)
    /\ UNCHANGED <<plan, squads, sub, audit, mix, begun, edits, acts, sent, mixed, removed>>

-----------------------------------------------------------------------------
\* An operator of the panel removes a squad or puts it back.
OperatorEdits(s) ==
    /\ "operator" \in mix /\ edits < MaxEdits
    /\ edits' = edits + 1
    /\ squads' = IF s \in squads THEN squads \ {s} ELSE squads \cup {s}
    /\ removed' = IF s \in squads THEN removed \cup {s} ELSE removed
    /\ UNCHANGED <<plan, sub, audit, request, mix, begun, dead, acts, sent, mixed, cut>>

PlanStep(r) ==
    \/ \E data \in Payloads : Create(r, data) \/ \E p \in Plans : Update(r, p, data)
    \/ \E p \in Plans : Archive(r, p) \/ Save(r, p)
    \/ CheckSquads(r) \/ PanelSilent(r) \/ CheckCode(r) \/ ArchiveCommits(r)

GrantStep(r) ==
    \/ \E p \in Plans : Trial(r, p) \/ \E wants \in ByHand : Grant(r, p, wants)
    \/ Require(r) \/ Load(r) \/ GrantCommits(r) \/ AuditCommits(r)

Next ==
    \/ \E r \in Requests : PlanStep(r) \/ GrantStep(r) \/ Dies(r)
    \/ \E s \in Squads : OperatorEdits(s)

Spec == Init /\ [][Next]_vars

-----------------------------------------------------------------------------
RequestTypes ==
    [pc : {"idle", "squads", "code", "save", "archive", "require", "load", "grant", "audit"},
     wants : Wants \cup {None}, data : Payloads \cup {NoPayload}, plan : Plans \cup {None},
     mem : PlanRows \cup {NoPlan}, own : Subs \cup {NoSub}, before : Subs \cup {NoSub},
     since : Nat, act : Nat]

Acts == [by : Wants, was : Subs \cup {NoSub}, is : Subs]
Records == [act : Nat, since : Nat, before : Subs \cup {NoSub}, after : Subs]

\* Every variable keeps its type, and no act is worth more than its day.
TypeOK ==
    /\ plan \in [Plans -> PlanRows \cup {NoPlan}]
    /\ squads \subseteq Squads
    /\ sub \in Subs \cup {NoSub} /\ sub.expires <= Len(acts) + 1
    /\ audit \in Seq(Records) /\ \A k \in DOMAIN audit : audit[k].act \in DOMAIN acts
    /\ request \in [Requests -> RequestTypes]
    /\ begun \in 0..MaxBegun /\ edits \in 0..MaxEdits /\ dead \in 0..MaxDead
    /\ acts \in Seq(Acts)
    /\ sent \in [Plans -> SUBSET Payloads]
    /\ mixed \subseteq Plans /\ removed \subseteq Squads /\ cut \subseteq DOMAIN acts

Entries(i) == {k \in DOMAIN audit : audit[k].act = i}

(* "Every act of the staff leaves a trace with the state before and after"   *)
(* (admin.py:171): one entry for an act on the subscription, with the states *)
(* the act led from and to. But an act whose request ends between its two    *)
(* commits has none, and an act that another one slipped into, since `before`*)
(* was read, is told with states that may never have followed each other.    *)
AuditTellsTheChange ==
    /\ \A i \in DOMAIN acts :
          /\ Cardinality(Entries(i)) <= 1
          /\ acts[i].by \in ByHand /\ Entries(i) = {} =>
                i \in cut \/ \E r \in Requests : At(r, "audit") /\ request[r].act = i
    /\ \A k \in DOMAIN audit :
          LET act == acts[audit[k].act]
          IN  audit[k].act = audit[k].since + 1 =>
                  audit[k].before = act.was /\ audit[k].after = act.is

(* Whatever is created, edited and archived at once: two plans have no code  *)
(* in common, one trial is on sale, a plan has no squad that the panel never *)
(* had at the time ("sold, paid for, and without access", plans.py:105), and *)
(* it is as a whole what somebody sent, unless two edits of it crossed.      *)
PlansStayInOrder ==
    /\ CodesUnique(plan) /\ OneTrial(plan)
    /\ \A p \in Plans : There(p) =>
          /\ plan[p].data.squads \subseteq squads \cup removed
          /\ plan[p].data \in sent[p] \/ p \in mixed

(* An archived plan stays archived (schemas.py:137), and nobody is put on    *)
(* one, but by a request that read it before, and by days granted by hand.   *)
ArchivedIsOffSale ==
    [][/\ \A p \in Plans : plan[p].state = "archived" => plan'[p].state = "archived"
       /\ sub'.plan # sub.plan /\ plan[sub'.plan].state = "archived" =>
             \E r \in Requests :
                 /\ At(r, "grant") /\ request'[r].pc # "grant" /\ request[r].plan = sub'.plan
                 /\ request[r].mem.state = "active" \/ request[r].wants = "grant"]_vars
=============================================================================
