------------------------------ MODULE DeskProofs ------------------------------
(* What holds of plans, grants by hand and the audit log for any number of   *)
(* requests, plans, squads and edits.                                        *)
EXTENDS Desk, FiniteSetTheorems, SequenceTheorems, TLAPS

Saving == {"squads", "code", "save"}
Granting == {"require", "load", "grant"}

\* A request that saves a plan has a payload; if it edits, a plan that is there;
\* and once it has asked, squads that the panel has or had.
SavingOK(q) ==
    /\ q.pc \in Saving => /\ q.wants \in {"create", "update"} /\ q.data \in Payloads
                          /\ q.wants = "update" => q.plan \in Plans /\ There(q.plan)
    /\ q.pc \in {"code", "save"} => q.data.squads \subseteq squads \cup removed
    /\ q.pc = "archive" => q.plan \in Plans /\ There(q.plan)

\* A request that grants names a plan; once it has read it, one on sale, unless
\* it grants days. What was read of the subscription is what is stored as long
\* as nobody acts on it.
GrantingOK(q) ==
    /\ q.pc \in Granting => q.plan \in Plans /\ q.wants \in ByHand \cup {"trial"}
    /\ q.pc \in {"load", "grant"} => q.mem.state = "active" \/ q.wants = "grant"
    /\ q.pc \in Granting /\ q.wants \in ByHand =>
          /\ q.since <= Len(acts)
          /\ q.since = Len(acts) => q.before = sub
    /\ q.pc = "grant" =>
          /\ q.own.expires <= Len(acts) + 1
          /\ q.own # NoSub => sub # NoSub
          /\ q.wants \in ByHand /\ q.since = Len(acts) => q.own = sub

\* A request whose act has no entry yet knows it, and the states it led from and
\* to, if nobody acted in between.
AuditingOK(q) ==
    q.pc = "audit" =>
        /\ q.act \in DOMAIN acts /\ q.own \in Subs
        /\ \A k \in DOMAIN audit : audit[k].act # q.act
        /\ q.act = q.since + 1 => q.before = acts[q.act].was /\ q.own = acts[q.act].is

LocalOK(q) == SavingOK(q) /\ GrantingOK(q) /\ AuditingOK(q)

RequestsOK == \A r \in Requests : LocalOK(request[r])

\* Every act is one request's.
ApartOK ==
    \A r, o \in Requests :
        At(r, "audit") /\ At(o, "audit") /\ request[r].act = request[o].act => r = o

\* No act has two entries, one by hand has one or will have, if its request
\* lives; and what an entry tells is what happened, if nobody acted in between.
AuditOK ==
    /\ \A j, k \in DOMAIN audit : audit[j].act = audit[k].act => j = k
    /\ \A i \in DOMAIN acts : acts[i].by \in ByHand =>
          \/ \E k \in DOMAIN audit : audit[k].act = i
          \/ i \in cut
          \/ \E r \in Requests : At(r, "audit") /\ request[r].act = i
    /\ \A k \in DOMAIN audit : audit[k].act = audit[k].since + 1 =>
          audit[k].before = acts[audit[k].act].was /\ audit[k].after = acts[audit[k].act].is

Inv == TypeOK /\ RequestsOK /\ ApartOK /\ AuditOK /\ PlansStayInOrder

-----------------------------------------------------------------------------
LEMMA IdleOK == Idle \in RequestTypes /\ Idle.pc = "idle" /\ LocalOK(Idle)
<1>1. Idle.pc = "idle"
  BY DEF Idle
<1>2. Idle \in RequestTypes
  BY DEF Idle, RequestTypes
<1>3. LocalOK(Idle)
  BY <1>1 DEF LocalOK, SavingOK, GrantingOK, AuditingOK, Saving, Granting
<1> QED
  BY <1>1, <1>2, <1>3

\* Plans stay there, and so do squads, be it as removed.
Grows == /\ \A p \in Plans : There(p) => There(p)'
         /\ squads \cup removed \subseteq squads' \cup removed'

LEMMA LocalStays ==
  ASSUME NEW q, LocalOK(q), Grows, UNCHANGED <<sub, acts, audit>>
  PROVE  LocalOK(q)'
<1>1. SavingOK(q)'
  BY DEF LocalOK, SavingOK, Grows
<1>2. GrantingOK(q)'
  BY DEF LocalOK, GrantingOK
<1>3. AuditingOK(q)'
  BY DEF LocalOK, AuditingOK
<1> QED
  BY <1>1, <1>2, <1>3 DEF LocalOK

LEMMA OneStays ==
  ASSUME NEW r \in Requests, NEW new, LocalOK(new)', request'[r] = new
  PROVE  LocalOK(request[r])'
BY DEF LocalOK, SavingOK, GrantingOK, AuditingOK, There

LEMMA OthersStay ==
  ASSUME RequestsOK, Grows, UNCHANGED <<sub, acts, audit>>, NEW o \in Requests,
         request'[o] = request[o]
  PROVE  LocalOK(request[o])'
<1>1. PICK q : q = request[o]
  OBVIOUS
<1>2. LocalOK(q)'
  BY <1>1, LocalStays DEF RequestsOK
<1> QED
  BY <1>1, <1>2, OneStays

\* A request that is not between its commits does not count as the act's.
LEMMA RequestsMove ==
  ASSUME Inv, NEW r \in Requests, NEW new \in RequestTypes,
         request' = [request EXCEPT ![r] = new],
         Grows, UNCHANGED <<sub, acts, audit>>,
         LocalOK(new)', new.pc # "audit",
         cut \subseteq cut', At(r, "audit") => request[r].act \in cut'
  PROVE  RequestsOK' /\ ApartOK' /\ AuditOK'
<1>0. TypeOK /\ RequestsOK /\ ApartOK /\ AuditOK
  BY DEF Inv
<1>1. request'[r] = new /\ \A o \in Requests \ {r} : request'[o] = request[o]
  BY <1>0 DEF TypeOK
<1>2. RequestsOK'
  <2>1. LocalOK(request[r])'
    BY <1>1, OneStays
  <2>2. \A o \in Requests \ {r} : LocalOK(request[o])'
    BY <1>0, <1>1, OthersStay
  <2> QED
    BY <2>1, <2>2 DEF RequestsOK
<1>3. ApartOK'
  BY <1>0, <1>1 DEF ApartOK, At
<1>4. AuditOK'
  <2>1. ASSUME NEW i \in DOMAIN acts, acts[i].by \in ByHand
        PROVE  \/ \E k \in DOMAIN audit : audit[k].act = i
               \/ i \in cut'
               \/ \E o \in Requests : request'[o].pc = "audit" /\ request'[o].act = i
    <3>1. CASE \E o \in Requests : At(o, "audit") /\ request[o].act = i
      BY <1>1, <3>1 DEF At
    <3> QED
      BY <1>0, <2>1, <3>1 DEF AuditOK
  <2> QED
    BY <1>0, <2>1 DEF AuditOK, At
<1> QED
  BY <1>2, <1>3, <1>4

\* Steps that only read, and deaths.
LEMMA ReadsKeep ==
  ASSUME Inv, NEW r \in Requests, NEW new \in RequestTypes,
         request' = [request EXCEPT ![r] = new],
         UNCHANGED <<plan, squads, sub, audit, mix, edits, acts, sent, mixed, removed>>,
         begun' \in 0 .. MaxBegun, dead' \in 0 .. MaxDead,
         LocalOK(new), new.pc # "audit",
         cut \subseteq cut', cut' \subseteq DOMAIN acts, At(r, "audit") => request[r].act \in cut'
  PROVE  Inv'
<1>1. Grows
  BY DEF Grows, There
<1>2. LocalOK(new)'
  BY <1>1, LocalStays
<1>3. TypeOK'
  BY DEF Inv, TypeOK
<1>4. PlansStayInOrder'
  BY DEF Inv, PlansStayInOrder, CodesUnique, OneTrial, There
<1> QED
  BY <1>1, <1>2, <1>3, <1>4, RequestsMove DEF Inv

LEMMA BeginKeeps ==
  ASSUME Inv, NEW r \in Requests, NEW new \in RequestTypes, Begin(r, new), LocalOK(new), new.pc # "audit"
  PROVE  Inv'
<1>1. begun' \in 0 .. MaxBegun
  BY BoundsAssumption DEF Inv, TypeOK, Begin
<1> QED
  BY <1>1, ReadsKeep DEF Inv, TypeOK, Begin, Goes, At

LEMMA ReadKeeps ==
  ASSUME Inv, NEW r \in Requests, NEW new \in RequestTypes, Reads(r, new), LocalOK(new), new.pc # "audit",
         ~At(r, "audit")
  PROVE  Inv'
BY ReadsKeep DEF Inv, TypeOK, Reads, Goes, counters

-----------------------------------------------------------------------------
(* Plans.                                                                    *)

LEMMA PlansBegin ==
  ASSUME Inv, NEW r \in Requests,
         \/ \E data \in Payloads : Create(r, data)
         \/ \E p \in Plans, data \in Payloads : Update(r, p, data)
         \/ \E p \in Plans : Archive(r, p)
  PROVE  Inv'
<1>0. TypeOK
  BY DEF Inv
<1>1. ASSUME NEW data \in Payloads, Create(r, data) PROVE Inv'
  <2>1. PICK new \in RequestTypes :
           new = [Idle EXCEPT !.pc = "squads", !.wants = "create", !.data = data]
    BY IdleOK DEF RequestTypes, Wants
  <2>2. new.pc = "squads" /\ new.wants = "create" /\ new.data = data
    BY <2>1, IdleOK DEF RequestTypes
  <2>3. LocalOK(new)
    BY <2>2 DEF LocalOK, SavingOK, GrantingOK, AuditingOK, Saving, Granting
  <2> QED
    BY <1>1, <2>1, <2>2, <2>3, BeginKeeps DEF Create
<1>2. ASSUME NEW p \in Plans, NEW data \in Payloads, Update(r, p, data), There(p) PROVE Inv'
  <2>1. PICK new \in RequestTypes :
           new = [Idle EXCEPT !.pc = "squads", !.wants = "update", !.data = data,
                              !.plan = p, !.mem = plan[p]]
    BY <1>0, IdleOK DEF RequestTypes, Wants, TypeOK
  <2>2. new.pc = "squads" /\ new.wants = "update" /\ new.data = data /\ new.plan = p
    BY <2>1, IdleOK DEF RequestTypes
  <2>3. LocalOK(new)
    BY <1>2, <2>2 DEF LocalOK, SavingOK, GrantingOK, AuditingOK, Saving, Granting
  <2> QED
    BY <1>2, <2>1, <2>2, <2>3, BeginKeeps DEF Update
<1>3. ASSUME NEW p \in Plans, Archive(r, p), There(p) PROVE Inv'
  <2>1. PICK new \in RequestTypes :
           new = [Idle EXCEPT !.pc = "archive", !.wants = "archive", !.plan = p, !.mem = plan[p]]
    BY <1>0, IdleOK DEF RequestTypes, Wants, TypeOK
  <2>2. new.pc = "archive" /\ new.plan = p
    BY <2>1, IdleOK DEF RequestTypes
  <2>3. LocalOK(new)
    BY <1>3, <2>2 DEF LocalOK, SavingOK, GrantingOK, AuditingOK, Saving, Granting
  <2> QED
    BY <1>3, <2>1, <2>2, <2>3, BeginKeeps DEF Archive
<1>4. CASE Begin(r, Idle)
  BY <1>4, IdleOK, BeginKeeps
<1> QED
  BY <1>1, <1>2, <1>3, <1>4 DEF Update, Archive

LEMMA ChecksKeep ==
  ASSUME Inv, NEW r \in Requests, CheckSquads(r) \/ PanelSilent(r) \/ CheckCode(r)
  PROVE  Inv'
<1>0. TypeOK /\ LocalOK(request[r])
  BY DEF Inv, RequestsOK
<1>1. PICK q \in RequestTypes : q = request[r]
  BY <1>0 DEF TypeOK
<1>2. q.pc \in {"squads", "code"} /\ q.pc \in Saving /\ ~At(r, "audit")
  BY <1>1 DEF CheckSquads, PanelSilent, CheckCode, At, Saving
<1>3. CASE Reads(r, Idle)
  BY <1>2, <1>3, IdleOK, ReadKeeps
<1>4. CASE CheckSquads(r) /\ Known(q.data.squads)
  <2>1. PICK new \in RequestTypes : new = [q EXCEPT !.pc = "code"]
    BY DEF RequestTypes
  <2>2. new.pc = "code" /\ new.wants = q.wants /\ new.data = q.data /\ new.plan = q.plan
    BY <2>1 DEF RequestTypes
  <2>3. LocalOK(new)
    BY <1>0, <1>1, <1>2, <1>4, <2>2
    DEF LocalOK, SavingOK, GrantingOK, AuditingOK, Saving, Granting, Known
  <2> QED
    BY <1>1, <1>2, <1>4, <2>1, <2>2, <2>3, ReadKeeps DEF CheckSquads
<1>5. CASE CheckCode(r) /\ ~Reads(r, Idle)
  <2>1. PICK new \in RequestTypes : new = [q EXCEPT !.pc = "save"]
    BY DEF RequestTypes
  <2>2. new.pc = "save" /\ new.wants = q.wants /\ new.data = q.data /\ new.plan = q.plan
    BY <2>1 DEF RequestTypes
  <2>3. q.pc = "code" /\ Reads(r, new)
    BY <1>1, <1>5, <2>1 DEF CheckCode, At
  <2>4. LocalOK(new)
    BY <1>0, <1>1, <1>2, <2>2, <2>3
    DEF LocalOK, SavingOK, GrantingOK, AuditingOK, Saving, Granting
  <2> QED
    BY <1>2, <2>2, <2>3, <2>4, ReadKeeps
<1> QED
  BY <1>1, <1>3, <1>4, <1>5 DEF CheckSquads, PanelSilent

\* A request that writes plans and is over.
LEMMA PlansMove ==
  ASSUME Inv, NEW r \in Requests, Over(r), ~At(r, "audit"), Grows,
         UNCHANGED <<squads, sub, audit, counters, acts, removed, cut>>,
         plan' \in [Plans -> PlanRows \cup {NoPlan}],
         sent' \in [Plans -> SUBSET Payloads], mixed' \subseteq Plans,
         PlansStayInOrder'
  PROVE  Inv'
<1>1. TypeOK'
  BY IdleOK DEF Inv, TypeOK, Over, Goes, counters
<1>2. LocalOK(Idle)'
  BY IdleOK, LocalStays
<1> QED
  BY <1>1, <1>2, IdleOK, RequestsMove DEF Over, Goes, Inv

\* What an edit leaves is a payload, of squads that somebody has checked, and
\* the one that was sent if nobody edited the plan in between.
LEMMA MergedOK ==
  ASSUME NEW row \in Payloads, NEW mem, NEW data \in Payloads
  PROVE  /\ Merged(row, mem, data) \in Payloads
         /\ Merged(row, mem, data).squads \in {row.squads, data.squads}
         /\ row = mem => Merged(row, mem, data) = data
<1>1. PICK new : new = Merged(row, mem, data)
  OBVIOUS
<1>2. /\ new = [code |-> new.code, trial |-> new.trial, squads |-> new.squads]
      /\ new.code \in {row.code, data.code} /\ new.squads \in {row.squads, data.squads}
      /\ new.trial = row.trial \/ new.trial = data.trial
  BY <1>1 DEF Merged
<1>3. /\ row.code \in Codes /\ row.squads \in SUBSET Squads \ {{}}
      /\ data.code \in Codes /\ data.squads \in SUBSET Squads \ {{}}
      /\ row.trial \in BOOLEAN /\ data.trial \in BOOLEAN
      /\ data = [code |-> data.code, trial |-> data.trial, squads |-> data.squads]
  BY DEF Payloads
<1>4. new.trial \in BOOLEAN
  BY <1>2, <1>3
<1>5. new \in Payloads
  <2>1. new.code \in Codes /\ new.squads \in SUBSET Squads \ {{}}
    BY <1>2, <1>3
  <2> QED
    BY <1>2, <1>4, <2>1 DEF Payloads
<1>6. row = mem => new = data
  <2> SUFFICES ASSUME row = mem PROVE new = data
    OBVIOUS
  <2>1. new.code = data.code /\ new.trial = data.trial /\ new.squads = data.squads
    BY <1>1 DEF Merged
  <2> QED
    BY <1>2, <1>3, <2>1
<1> QED
  BY <1>1, <1>2, <1>5, <1>6

LEMMA SaveKeeps == ASSUME Inv, NEW r \in Requests, NEW p \in Plans, Save(r, p) PROVE Inv'
<1>0. TypeOK /\ LocalOK(request[r]) /\ PlansStayInOrder
  BY DEF Inv, RequestsOK
<1>1. PICK q \in RequestTypes : q = request[r]
  BY <1>0 DEF TypeOK
<1>2. /\ q.pc = "save" /\ ~At(r, "audit") /\ q.wants \in {"create", "update"} /\ q.data \in Payloads
      /\ q.data.squads \subseteq squads \cup removed
      /\ q.wants = "update" => p = q.plan /\ There(p)
      /\ q.wants = "create" => ~There(p)
  BY <1>0, <1>1 DEF Save, At, LocalOK, SavingOK, Saving
<1>3. PICK data : data = IF q.wants = "create" THEN q.data ELSE Merged(plan[p].data, q.mem.data, q.data)
  OBVIOUS
<1>4. PICK rows : rows = [plan EXCEPT ![p] = [state |-> StateSaved(p), data |-> data]]
  OBVIOUS
<1>5. There(p) => plan[p] \in PlanRows /\ plan[p].data \in Payloads /\ plan[p].state \in {"active", "archived"}
  BY <1>0 DEF There, TypeOK, NoPlan, PlanRows
<1>6. /\ data \in Payloads
      /\ data.squads \subseteq squads \cup removed
      /\ data = q.data \/ (q.wants = "update" /\ plan[p].data # q.mem.data)
  <2>1. CASE q.wants = "create"
    BY <1>2, <1>3, <2>1
  <2>2. CASE q.wants = "update"
    <3>1. data = Merged(plan[p].data, q.mem.data, q.data)
      BY <1>3, <2>2
    <3>2. plan[p].data.squads \subseteq squads \cup removed
      BY <1>0, <1>2, <2>2 DEF PlansStayInOrder
    <3> QED
      BY <1>2, <1>5, <2>2, <3>1, <3>2, MergedOK
  <2> QED
    BY <1>2, <2>1, <2>2
<1>7. StateSaved(p) \in {"active", "archived"}
  BY <1>5 DEF StateSaved
<1>8. /\ rows \in [Plans -> PlanRows \cup {NoPlan}]
      /\ rows[p].state # "absent" /\ rows[p].data = data
      /\ \A o \in Plans \ {p} : rows[o] = plan[o]
  BY <1>0, <1>4, <1>6, <1>7 DEF TypeOK, PlanRows
<1>9. Over(r) /\ UNCHANGED <<squads, sub, audit, counters, acts, removed, cut>>
  BY DEF Save
<1>10. CASE Accepted(rows)
  <2>1. /\ plan' = rows /\ sent' = [sent EXCEPT ![p] = @ \cup {q.data}]
        /\ mixed' = IF q.wants = "update" /\ plan[p].data # q.mem.data THEN mixed \cup {p} ELSE mixed
    BY <1>1, <1>3, <1>4, <1>10 DEF Save
  <2>2. Grows
    BY <1>8, <1>9, <2>1 DEF Grows, There
  <2>3. /\ sent' \in [Plans -> SUBSET Payloads] /\ mixed' \subseteq Plans
        /\ q.data \in sent'[p] /\ \A o \in Plans : sent[o] \subseteq sent'[o]
    BY <1>0, <1>2, <2>1 DEF TypeOK
  <2>4. PlansStayInOrder'
    <3>1. CodesUnique(plan) ' /\ OneTrial(plan)'
      BY <1>10, <2>1 DEF Accepted, CodesUnique, OneTrial
    <3>2. plan'[p].data.squads \subseteq squads' \cup removed'
      BY <1>6, <1>8, <1>9, <2>1
    <3>3. plan'[p].data \in sent'[p] \/ p \in mixed'
      BY <1>6, <1>8, <2>1, <2>3
    <3>4. \A o \in Plans \ {p} : There(o)' =>
             /\ plan'[o].data.squads \subseteq squads' \cup removed'
             /\ plan'[o].data \in sent'[o] \/ o \in mixed'
      BY <1>0, <1>8, <1>9, <2>1, <2>3 DEF PlansStayInOrder, There
    <3> QED
      BY <3>1, <3>2, <3>3, <3>4 DEF PlansStayInOrder
  <2> QED
    BY <1>2, <1>8, <1>9, <2>1, <2>2, <2>3, <2>4, PlansMove
<1>11. CASE ~Accepted(rows)
  <2>1. UNCHANGED <<plan, sent, mixed>>
    BY <1>1, <1>3, <1>4, <1>11 DEF Save
  <2>2. PlansStayInOrder' /\ Grows
    BY <1>0, <1>9, <2>1 DEF PlansStayInOrder, CodesUnique, OneTrial, There, Grows
  <2> QED
    BY <1>0, <1>2, <1>9, <2>1, <2>2, PlansMove DEF TypeOK
<1> QED
  BY <1>10, <1>11

LEMMA ArchiveKeeps == ASSUME Inv, NEW r \in Requests, ArchiveCommits(r) PROVE Inv'
<1>0. TypeOK /\ LocalOK(request[r]) /\ PlansStayInOrder
  BY DEF Inv, RequestsOK
<1>1. PICK p \in Plans : p = request[r].plan /\ There(p) /\ ~At(r, "audit")
  BY <1>0 DEF ArchiveCommits, At, LocalOK, SavingOK
<1>2. plan[p] \in PlanRows
  BY <1>0, <1>1 DEF TypeOK, There, NoPlan
<1>3. /\ plan' = [plan EXCEPT ![p].state = "archived"]
      /\ UNCHANGED <<squads, sub, audit, counters, acts, sent, mixed, removed, cut>> /\ Over(r)
  BY <1>1 DEF ArchiveCommits
<1>4. /\ plan' \in [Plans -> PlanRows \cup {NoPlan}]
      /\ plan'[p].state = "archived" /\ plan'[p].data = plan[p].data
      /\ \A o \in Plans \ {p} : plan'[o] = plan[o]
  BY <1>0, <1>2, <1>3 DEF TypeOK, PlanRows
<1>5. \A o \in Plans : plan'[o].data = plan[o].data /\ (There(o)' <=> There(o))
                       /\ (plan'[o].state = "active" => plan[o].state = "active")
  BY <1>1, <1>4 DEF There
<1>6. PlansStayInOrder'
  BY <1>0, <1>3, <1>5 DEF PlansStayInOrder, CodesUnique, OneTrial, There
<1>7. Grows
  BY <1>3, <1>5 DEF Grows
<1> QED
  BY <1>0, <1>1, <1>3, <1>4, <1>6, <1>7, PlansMove DEF TypeOK

LEMMA OperatorKeeps == ASSUME Inv, NEW s \in Squads, OperatorEdits(s) PROVE Inv'
<1>0. TypeOK /\ RequestsOK /\ ApartOK /\ AuditOK /\ PlansStayInOrder
  BY DEF Inv
<1>1. UNCHANGED <<plan, sub, audit, request, mix, begun, dead, acts, sent, mixed, cut>>
  BY DEF OperatorEdits
<1>2. squads \cup removed \subseteq squads' \cup removed'
  BY DEF OperatorEdits
<1>3. Grows
  BY <1>1, <1>2 DEF Grows, There
<1>4. TypeOK'
  BY <1>0, BoundsAssumption DEF TypeOK, OperatorEdits
<1>5. RequestsOK'
  BY <1>0, <1>1, <1>3, OthersStay DEF RequestsOK
<1>6. ApartOK' /\ AuditOK'
  BY <1>0, <1>1 DEF ApartOK, AuditOK, At
<1>7. PlansStayInOrder'
  <2>1. \A p \in Plans : There(p) => plan[p].data.squads \subseteq squads' \cup removed'
    BY <1>0, <1>2 DEF PlansStayInOrder
  <2> QED
    BY <1>0, <1>1, <2>1 DEF PlansStayInOrder, CodesUnique, OneTrial, There
<1> QED
  BY <1>4, <1>5, <1>6, <1>7 DEF Inv

-----------------------------------------------------------------------------
(* Grants.                                                                   *)

LEMMA GrantsBegin ==
  ASSUME Inv, NEW r \in Requests, NEW p \in Plans,
         Trial(r, p) \/ \E wants \in ByHand : Grant(r, p, wants)
  PROVE  Inv'
<1>0. TypeOK
  BY DEF Inv
<1>1. ASSUME NEW wants \in ByHand, Grant(r, p, wants) PROVE Inv'
  <2>1. PICK new \in RequestTypes :
           new = [Idle EXCEPT !.pc = "require", !.wants = wants, !.plan = p,
                              !.before = sub, !.since = Len(acts)]
    BY <1>0, IdleOK, LenProperties DEF RequestTypes, Wants, ByHand, TypeOK
  <2>2. /\ new.pc = "require" /\ new.wants = wants /\ new.plan = p /\ new.before = sub
        /\ new.since = Len(acts)
    BY <2>1, IdleOK DEF RequestTypes
  <2>3. Len(acts) \in Nat
    BY <1>0, LenProperties DEF TypeOK
  <2>4. LocalOK(new)
    BY <2>2, <2>3 DEF LocalOK, SavingOK, GrantingOK, AuditingOK, Saving, Granting
  <2> QED
    BY <1>1, <2>1, <2>2, <2>4, BeginKeeps DEF Grant
<1>2. CASE Trial(r, p)
  <2>1. PICK new \in RequestTypes :
           new = [Idle EXCEPT !.pc = "load", !.wants = "trial", !.plan = p, !.mem = plan[p]]
    BY <1>0, IdleOK DEF RequestTypes, Wants, TypeOK
  <2>2. new.pc = "load" /\ new.wants = "trial" /\ new.plan = p /\ new.mem.state = "active"
    BY <1>2, <2>1, IdleOK DEF RequestTypes, Trial
  <2>3. LocalOK(new)
    BY <2>2 DEF LocalOK, SavingOK, GrantingOK, AuditingOK, Saving, Granting, ByHand
  <2> QED
    BY <1>2, <2>1, <2>2, <2>3, BeginKeeps DEF Trial
<1> QED
  BY <1>1, <1>2

LEMMA GrantReads ==
  ASSUME Inv, NEW r \in Requests, Require(r) \/ Load(r)
  PROVE  Inv'
<1>0. TypeOK /\ LocalOK(request[r])
  BY DEF Inv, RequestsOK
<1>1. PICK q \in RequestTypes : q = request[r]
  BY <1>0 DEF TypeOK
<1>2. q.pc \in {"require", "load"} /\ q.pc \in Granting /\ ~At(r, "audit") /\ q.plan \in Plans
      /\ q.wants \in ByHand \cup {"trial"}
  BY <1>0, <1>1 DEF Require, Load, At, Granting, LocalOK, GrantingOK
<1>3. CASE Reads(r, Idle)
  BY <1>2, <1>3, IdleOK, ReadKeeps
<1>4. CASE Require(r) /\ MayTake(plan[q.plan].state, q.wants)
  <2>1. PICK new \in RequestTypes : new = [q EXCEPT !.pc = "load", !.mem = plan[q.plan]]
    BY <1>0, <1>2 DEF RequestTypes, TypeOK
  <2>2. /\ new.pc = "load" /\ new.wants = q.wants /\ new.plan = q.plan /\ new.mem = plan[q.plan]
        /\ new.since = q.since /\ new.before = q.before
    BY <2>1 DEF RequestTypes
  <2>3. LocalOK(new)
    BY <1>0, <1>1, <1>2, <1>4, <2>2
    DEF LocalOK, SavingOK, GrantingOK, AuditingOK, Saving, Granting, MayTake
  <2> QED
    BY <1>1, <1>2, <1>4, <2>1, <2>2, <2>3, ReadKeeps DEF Require
<1>5. CASE Load(r) /\ ~Reads(r, Idle)
  <2>1. PICK new \in RequestTypes : new = [q EXCEPT !.pc = "grant", !.own = sub]
    BY <1>0 DEF RequestTypes, TypeOK
  <2>2. /\ new.pc = "grant" /\ new.wants = q.wants /\ new.plan = q.plan /\ new.mem = q.mem
        /\ new.since = q.since /\ new.before = q.before /\ new.own = sub
    BY <2>1 DEF RequestTypes
  <2>3. q.pc = "load" /\ Reads(r, new)
    BY <1>1, <1>5, <2>1 DEF Load, At
  <2>4. LocalOK(new)
    BY <1>0, <1>1, <1>2, <2>2, <2>3
    DEF LocalOK, SavingOK, GrantingOK, AuditingOK, Saving, Granting, TypeOK
  <2> QED
    BY <1>2, <2>2, <2>3, <2>4, ReadKeeps
<1> QED
  BY <1>1, <1>3, <1>4, <1>5 DEF Require

LEMMA GrantKeeps == ASSUME Inv, NEW r \in Requests, GrantCommits(r) PROVE Inv'
<1>0. TypeOK /\ RequestsOK /\ ApartOK /\ AuditOK /\ PlansStayInOrder
  BY DEF Inv
<1>1. PICK q \in RequestTypes : q = request[r]
  BY <1>0 DEF TypeOK
<1>2. /\ q.pc = "grant" /\ q.pc \in Granting /\ q.plan \in Plans /\ q.wants \in ByHand \cup {"trial"}
      /\ q.own.expires <= Len(acts) + 1 /\ (q.own # NoSub => sub # NoSub)
      /\ q.own \in Subs \cup {NoSub} /\ ~At(r, "audit")
      /\ q.wants \in ByHand => q.since <= Len(acts)
      /\ q.wants \in ByHand /\ q.since = Len(acts) => q.before = sub /\ q.own = sub
  BY <1>0, <1>1 DEF GrantCommits, At, Granting, RequestsOK, LocalOK, GrantingOK, RequestTypes
<1>3. Len(acts) \in Nat /\ DOMAIN acts = 1 .. Len(acts) /\ acts \in Seq(Acts)
  BY <1>0, LenProperties DEF TypeOK
<1>4. CASE q.own = NoSub /\ sub # NoSub
  <2>1. Over(r) /\ UNCHANGED <<plan, squads, sub, acts, audit, counters, sent, mixed, removed, cut>>
    BY <1>1, <1>4 DEF GrantCommits
  <2> QED
    BY <1>0, <1>2, <2>1, IdleOK, ReadsKeep DEF Over, Goes, counters, TypeOK
<1>5. CASE ~(q.own = NoSub /\ sub # NoSub)
  <2>1. PICK is : is = GrantedOf(q)
    OBVIOUS
  <2>2. q.own.expires \in Nat /\ (q.own # NoSub => q.own \in Subs)
    BY <1>2 DEF Subs, NoSub
  <2>3. is \in Subs /\ is.plan = q.plan /\ is.expires <= Len(acts) + 2
    BY <1>2, <1>3, <2>1, <2>2 DEF GrantedOf, Subs
  <2>4. PICK row : row = IF q.own.plan = q.plan THEN [is EXCEPT !.plan = sub.plan] ELSE is
    OBVIOUS
  <2>5. row \in Subs /\ row # NoSub /\ row.expires = is.expires
        /\ (q.own = sub => row = is)
    <3>1. q.own.plan = q.plan => sub \in Subs
      BY <1>0, <1>2, NamesAssumption DEF TypeOK, NoSub
    <3>2. row \in Subs /\ row.expires = is.expires
      BY <2>3, <2>4, <3>1 DEF Subs
    <3>3. row # NoSub
      BY <3>2, NamesAssumption DEF Subs, NoSub
    <3>4. q.own = sub => row = is
      BY <2>3, <2>4 DEF Subs
    <3> QED
      BY <3>2, <3>3, <3>4
  <2>6. PICK act \in Acts : act = [by |-> q.wants, was |-> sub, is |-> row]
    BY <1>0, <1>2, <2>5 DEF Acts, TypeOK, ByHand, Wants
  <2>7. /\ sub' = row /\ acts' = Append(acts, act)
        /\ UNCHANGED <<plan, squads, audit, counters, sent, mixed, removed, cut>>
        /\ IF q.wants = "trial" THEN Over(r)
           ELSE Goes(r, [q EXCEPT !.pc = "audit", !.own = is, !.act = Len(acts) + 1])
    BY <1>1, <1>5, <2>1, <2>4, <2>6 DEF GrantCommits
  <2>8. /\ acts' \in Seq(Acts) /\ Len(acts') = Len(acts) + 1 /\ DOMAIN acts' = 1 .. Len(acts) + 1
        /\ acts'[Len(acts) + 1] = act /\ \A i \in DOMAIN acts : acts'[i] = acts[i]
    BY <1>3, <2>7, AppendProperties, LenProperties
  <2>9. PICK new \in RequestTypes :
           new = IF q.wants = "trial" THEN Idle
                 ELSE [q EXCEPT !.pc = "audit", !.own = is, !.act = Len(acts) + 1]
    <3>1. [q EXCEPT !.pc = "audit", !.own = is, !.act = Len(acts) + 1] \in RequestTypes
      <4>1. is \in Subs \cup {NoSub} /\ Len(acts) + 1 \in Nat
        BY <1>3, <2>3
      <4> HIDE DEF Subs, NoSub
      <4>2. \A n \in Nat, own \in Subs \cup {NoSub} :
               [q EXCEPT !.pc = "audit", !.own = own, !.act = n] \in RequestTypes
        BY DEF RequestTypes
      <4> QED
        BY <4>1, <4>2
    <3> QED
      BY <3>1, IdleOK
  <2>10. request' = [request EXCEPT ![r] = new]
    BY <2>7, <2>9 DEF Over, Goes
  <2>11. request'[r] = new /\ \A o \in Requests \ {r} : request'[o] = request[o]
    BY <1>0, <2>10 DEF TypeOK
  <2>12. \/ q.wants = "trial" /\ new = Idle
         \/ /\ q.wants \in ByHand /\ new.pc = "audit" /\ new.own = is /\ new.act = Len(acts) + 1
            /\ new.since = q.since /\ new.before = q.before
    BY <1>2, <2>9 DEF RequestTypes
  <2>13. TypeOK'
    <3>1. sub' \in Subs \cup {NoSub} /\ sub'.expires <= Len(acts') + 1
      BY <1>3, <2>3, <2>5, <2>7, <2>8 DEF Subs
    <3>2. \A k \in DOMAIN audit : audit[k].act \in DOMAIN acts'
      BY <1>0, <1>3, <2>8 DEF TypeOK
    <3>3. cut \subseteq DOMAIN acts'
      BY <1>0, <1>3, <2>8 DEF TypeOK
    <3> QED
      BY <1>0, <2>7, <2>8, <2>10, <3>1, <3>2, <3>3 DEF TypeOK, counters
  <2>14. RequestsOK'
    <3>1. LocalOK(new)'
      <4>1. CASE new = Idle
        BY <4>1, IdleOK DEF LocalOK, SavingOK, GrantingOK, AuditingOK, Saving, Granting
      <4>2. CASE new # Idle
        <5>1. /\ q.wants \in ByHand /\ new.pc = "audit" /\ new.own = is /\ new.act = Len(acts) + 1
              /\ new.since = q.since /\ new.before = q.before
          BY <2>12, <4>2
        <5>2. \A k \in DOMAIN audit : audit[k].act # new.act
          BY <1>0, <1>3, <5>1 DEF TypeOK
        <5>3. new.act = new.since + 1 => new.before = acts'[new.act].was /\ new.own = acts'[new.act].is
          <6> SUFFICES ASSUME new.act = new.since + 1
                       PROVE  new.before = sub /\ is = row
            BY <2>6, <2>8, <5>1 DEF Acts
          <6>1. q.since \in Nat /\ q.since = Len(acts)
            BY <1>3, <5>1 DEF RequestTypes
          <6> QED
            BY <1>2, <2>5, <5>1, <6>1
        <5>4. AuditingOK(new)'
          BY <1>3, <2>3, <2>7, <2>8, <5>1, <5>2, <5>3 DEF AuditingOK
        <5> QED
          BY <5>1, <5>4 DEF LocalOK, SavingOK, GrantingOK, Saving, Granting
      <4> QED
        BY <4>1, <4>2
    <3>2. ASSUME NEW o \in Requests \ {r} PROVE LocalOK(request[o])'
      <4>1. PICK p \in RequestTypes : p = request[o]
        BY <1>0 DEF TypeOK
      <4>2. LocalOK(p)
        BY <1>0, <4>1 DEF RequestsOK
      <4>3. SavingOK(p)'
        BY <2>7, <4>2 DEF LocalOK, SavingOK, There
      <4>4. GrantingOK(p)'
        <5>1. p.own.expires \in Nat /\ p.since \in Nat
          <6>1. p.own \in Subs \cup {NoSub} /\ p.since \in Nat
            BY DEF RequestTypes
          <6> QED
            BY <6>1 DEF Subs, NoSub
        <5> QED
          BY <1>3, <2>5, <2>7, <2>8, <4>2, <5>1 DEF LocalOK, GrantingOK, Granting
      <4>5. AuditingOK(p)'
        BY <1>3, <2>7, <2>8, <4>2 DEF LocalOK, AuditingOK
      <4>6. LocalOK(p)'
        BY <4>3, <4>4, <4>5 DEF LocalOK
      <4> QED
        BY <2>11, <4>1, <4>6, OneStays
    <3> QED
      BY <2>11, <3>1, <3>2, OneStays DEF RequestsOK
  <2>15. ApartOK'
    <3>1. \A o \in Requests : At(o, "audit") => request[o].act \in DOMAIN acts
      BY <1>0 DEF At, RequestsOK, LocalOK, AuditingOK
    <3>2. new.pc = "audit" => new.act \notin DOMAIN acts
      BY <1>3, <2>12, IdleOK
    <3> QED
      BY <1>0, <2>11, <3>1, <3>2 DEF ApartOK, At
  <2>16. AuditOK'
    <3>1. ASSUME NEW i \in DOMAIN acts', acts'[i].by \in ByHand
          PROVE  \/ \E k \in DOMAIN audit : audit[k].act = i
                 \/ i \in cut
                 \/ \E o \in Requests : request'[o].pc = "audit" /\ request'[o].act = i
      <4>1. CASE i = Len(acts) + 1
        <5>1. q.wants \in ByHand /\ "trial" \notin ByHand
          BY <2>6, <2>8, <3>1, <4>1 DEF ByHand
        <5> QED
          BY <2>11, <2>12, <4>1, <5>1
      <4>2. CASE i \in DOMAIN acts
        <5>1. acts[i].by \in ByHand
          BY <2>8, <3>1, <4>2
        <5>2. ~(request[r].pc = "audit")
          BY <1>2 DEF At
        <5> QED
          BY <1>0, <2>11, <4>2, <5>1, <5>2 DEF AuditOK, At
      <4> QED
        BY <1>3, <2>8, <3>1, <4>1, <4>2
    <3>2. \A k \in DOMAIN audit : audit[k].act \in DOMAIN acts
      BY <1>0 DEF TypeOK
    <3> QED
      BY <1>0, <2>7, <2>8, <3>1, <3>2 DEF AuditOK, At
  <2>17. PlansStayInOrder'
    BY <1>0, <2>7 DEF PlansStayInOrder, CodesUnique, OneTrial, There
  <2> QED
    BY <2>13, <2>14, <2>15, <2>16, <2>17 DEF Inv
<1> QED
  BY <1>4, <1>5

LEMMA AuditKeeps == ASSUME Inv, NEW r \in Requests, AuditCommits(r) PROVE Inv'
<1>0. TypeOK /\ RequestsOK /\ ApartOK /\ AuditOK /\ PlansStayInOrder
  BY DEF Inv
<1>1. PICK q \in RequestTypes : q = request[r]
  BY <1>0 DEF TypeOK
<1>2. /\ q.pc = "audit" /\ q.act \in DOMAIN acts /\ q.own \in Subs
      /\ \A k \in DOMAIN audit : audit[k].act # q.act
      /\ q.act = q.since + 1 => q.before = acts[q.act].was /\ q.own = acts[q.act].is
  BY <1>0, <1>1 DEF AuditCommits, At, RequestsOK, LocalOK, AuditingOK
<1>3. PICK record \in Records :
         record = [act |-> q.act, since |-> q.since, before |-> q.before, after |-> q.own]
  BY <1>2 DEF Records, RequestTypes
<1>4. /\ audit' = Append(audit, record) /\ request' = [request EXCEPT ![r] = Idle]
      /\ UNCHANGED <<plan, squads, sub, counters, acts, sent, mixed, removed, cut>>
  BY <1>1, <1>3 DEF AuditCommits, Record, Over, Goes
<1>5. /\ audit \in Seq(Records) /\ Len(audit) \in Nat /\ DOMAIN audit = 1 .. Len(audit)
      /\ audit' \in Seq(Records) /\ DOMAIN audit' = 1 .. Len(audit) + 1
      /\ audit'[Len(audit) + 1] = record /\ \A k \in DOMAIN audit : audit'[k] = audit[k]
  BY <1>0, <1>4, AppendProperties, LenProperties DEF TypeOK
<1>6. request'[r] = Idle /\ \A o \in Requests \ {r} : request'[o] = request[o]
  BY <1>0, <1>4 DEF TypeOK
<1>7. TypeOK'
  BY <1>0, <1>2, <1>3, <1>4, <1>5, IdleOK DEF TypeOK, counters
<1>8. RequestsOK'
  <2>1. LocalOK(Idle)'
    BY IdleOK DEF LocalOK, SavingOK, GrantingOK, AuditingOK, Saving, Granting
  <2>2. ASSUME NEW o \in Requests \ {r} PROVE LocalOK(request[o])'
    <3>1. PICK p : p = request[o]
      OBVIOUS
    <3>2. LocalOK(p) /\ (p.pc = "audit" => p.act # q.act)
      BY <1>0, <1>1, <1>2, <3>1 DEF RequestsOK, ApartOK, At
    <3>3. SavingOK(p)' /\ GrantingOK(p)'
      BY <1>4, <3>2 DEF LocalOK, SavingOK, GrantingOK, There
    <3>4. AuditingOK(p)'
      BY <1>3, <1>4, <1>5, <3>2 DEF LocalOK, AuditingOK
    <3>5. LocalOK(p)'
      BY <3>3, <3>4 DEF LocalOK
    <3> QED
      BY <1>6, <3>1, <3>5, OneStays
  <2> QED
    BY <1>6, <2>1, <2>2, OneStays DEF RequestsOK
<1>9. ApartOK'
  BY <1>0, <1>6, IdleOK DEF ApartOK, At
<1>10. AuditOK'
  <2>1. \A j, k \in DOMAIN audit' : audit'[j].act = audit'[k].act => j = k
    BY <1>0, <1>2, <1>3, <1>5 DEF AuditOK
  <2>2. ASSUME NEW i \in DOMAIN acts, acts[i].by \in ByHand
        PROVE  \/ \E k \in DOMAIN audit' : audit'[k].act = i
               \/ i \in cut
               \/ \E o \in Requests : request'[o].pc = "audit" /\ request'[o].act = i
    <3>1. CASE i = q.act
      BY <1>3, <1>5, <3>1
    <3>2. CASE i # q.act
      <4>1. \/ \E k \in DOMAIN audit : audit[k].act = i
            \/ i \in cut
            \/ \E o \in Requests : request[o].pc = "audit" /\ request[o].act = i
        BY <1>0, <2>2 DEF AuditOK, At
      <4>2. ASSUME NEW o \in Requests, request[o].pc = "audit", request[o].act = i
            PROVE  request'[o] = request[o]
        BY <1>1, <1>6, <3>2, <4>2
      <4> QED
        BY <1>5, <4>1, <4>2
    <3> QED
      BY <3>1, <3>2
  <2>3. \A k \in DOMAIN audit' : audit'[k].act = audit'[k].since + 1 =>
           audit'[k].before = acts[audit'[k].act].was /\ audit'[k].after = acts[audit'[k].act].is
    BY <1>0, <1>2, <1>3, <1>5 DEF AuditOK
  <2> QED
    BY <1>4, <2>1, <2>2, <2>3 DEF AuditOK, At
<1>11. PlansStayInOrder'
  BY <1>0, <1>4 DEF PlansStayInOrder, CodesUnique, OneTrial, There
<1> QED
  BY <1>7, <1>8, <1>9, <1>10, <1>11 DEF Inv

LEMMA DiesKeeps == ASSUME Inv, NEW r \in Requests, Dies(r) PROVE Inv'
<1>1. dead' \in 0 .. MaxDead
  BY BoundsAssumption DEF Inv, TypeOK, Dies
<1>2. cut \subseteq cut' /\ cut' \subseteq DOMAIN acts /\ (At(r, "audit") => request[r].act \in cut')
  BY DEF Inv, TypeOK, RequestsOK, LocalOK, AuditingOK, Dies, At
<1> QED
  BY <1>1, <1>2, IdleOK, ReadsKeep DEF Inv, TypeOK, Dies, Over, Goes

LEMMA NextInv == Inv /\ [Next]_vars => Inv'
<1> SUFFICES ASSUME Inv, [Next]_vars PROVE Inv'
  OBVIOUS
<1>1. ASSUME NEW r \in Requests, PlanStep(r) PROVE Inv'
  BY <1>1, PlansBegin, SaveKeeps, ChecksKeep, ArchiveKeeps DEF PlanStep
<1>2. ASSUME NEW r \in Requests, GrantStep(r) \/ Dies(r) PROVE Inv'
  BY <1>2, GrantsBegin, GrantReads, GrantKeeps, AuditKeeps, DiesKeeps DEF GrantStep
<1>3. CASE UNCHANGED vars
  <2> USE <1>3 DEF vars, counters
  <2>1. TypeOK' /\ ApartOK' /\ AuditOK'
    BY DEF Inv, TypeOK, ApartOK, AuditOK, At
  <2>2. PlansStayInOrder' /\ Grows
    BY DEF Inv, PlansStayInOrder, CodesUnique, OneTrial, There, Grows
  <2>3. RequestsOK'
    BY <2>2, OthersStay DEF Inv, RequestsOK
  <2> QED
    BY <2>1, <2>2, <2>3 DEF Inv
<1> QED
  BY <1>1, <1>2, <1>3, OperatorKeeps DEF Next

LEMMA InitInv == Init => Inv
<1> SUFFICES ASSUME Init PROVE Inv
  OBVIOUS
<1>1. /\ plan \in [Plans -> PlanRows \cup {NoPlan}]
      /\ \A p \in Plans : There(p) => plan[p] \in PlanRows /\ plan[p].data \in Payloads
                                      /\ plan[p].data.squads = squads
  BY DEF Init, There, NoPlan, PlanRows
<1>2. squads \subseteq Squads /\ CodesUnique(plan) /\ OneTrial(plan)
  BY DEF Init
<1>3. sub \in Subs \cup {NoSub} /\ sub.expires <= 1
  <2>1. sub = NoSub \/ sub \in [plan : {p \in Plans : There(p)}, expires : {1}]
    BY DEF Init
  <2>2. ASSUME sub \in [plan : {p \in Plans : There(p)}, expires : {1}]
        PROVE  sub \in Subs /\ sub.expires = 1
    BY <2>2 DEF Subs
  <2> QED
    BY <2>1, <2>2 DEF Subs, NoSub
<1>4. audit = <<>> /\ acts = <<>> /\ Len(acts) = 0
  BY DEF Init
<1>5. sent \in [Plans -> SUBSET Payloads] /\ \A p \in Plans : There(p) => plan[p].data \in sent[p]
  BY <1>1 DEF Init
<1>6. TypeOK
  BY <1>1, <1>2, <1>3, <1>4, <1>5, IdleOK, BoundsAssumption DEF Init, TypeOK
<1>7. \A r \in Requests : request[r] = Idle
  BY DEF Init
<1>8. RequestsOK /\ ApartOK /\ AuditOK
  BY <1>4, <1>7, IdleOK DEF RequestsOK, ApartOK, AuditOK, At
<1>9. PlansStayInOrder
  BY <1>1, <1>2, <1>5 DEF PlansStayInOrder
<1> QED
  BY <1>6, <1>8, <1>9 DEF Inv

-----------------------------------------------------------------------------
\* What requests carry, what was done and what was written down fits together
\* in every reachable state.
THEOREM Invariance == Spec => []Inv
<1>1. Init => Inv
  BY InitInv
<1>2. Inv /\ [Next]_vars => Inv'
  BY NextInv
<1> QED
  BY <1>1, <1>2, PTL DEF Spec

\* Every variable keeps its type, and a date is worth the acts that led to it.
THEOREM TypeCorrect == Spec => []TypeOK
<1>1. Inv => TypeOK
  BY DEF Inv
<1> QED
  BY <1>1, Invariance, PTL

\* Codes and the trial on sale stay unique, squads known, and plans whole unless
\* edits cross.
THEOREM PlansInOrder == Spec => []PlansStayInOrder
<1>1. Inv => PlansStayInOrder
  BY DEF Inv
<1> QED
  BY <1>1, Invariance, PTL

\* No act has two entries, one by hand lacks one only if its request died, and
\* an entry nobody slipped into tells the change.
THEOREM AuditIsTrue == Spec => []AuditTellsTheChange
<1>1. ASSUME Inv PROVE AuditTellsTheChange
  <2>1. ASSUME NEW i \in DOMAIN acts PROVE Cardinality(Entries(i)) <= 1
    <3>1. CASE Entries(i) = {}
      BY <3>1, FS_EmptySet
    <3>2. CASE Entries(i) # {}
      <4>1. PICK k \in DOMAIN audit : k \in Entries(i)
        BY <3>2 DEF Entries
      <4>2. Entries(i) = {k}
        BY <1>1, <4>1 DEF Inv, AuditOK, Entries
      <4>3. Cardinality({k}) = 1
        BY FS_Singleton
      <4> QED
        BY <4>2, <4>3
    <3> QED
      BY <3>1, <3>2
  <2>2. \A i \in DOMAIN acts : acts[i].by \in ByHand /\ Entries(i) = {} =>
           i \in cut \/ \E r \in Requests : At(r, "audit") /\ request[r].act = i
    BY <1>1 DEF Inv, AuditOK, Entries
  <2>3. \A k \in DOMAIN audit : audit[k].act = audit[k].since + 1 =>
           audit[k].before = acts[audit[k].act].was /\ audit[k].after = acts[audit[k].act].is
    BY <1>1 DEF Inv, AuditOK
  <2> QED
    BY <2>1, <2>2, <2>3 DEF AuditTellsTheChange
<1> QED
  BY <1>1, Invariance, PTL

\* An archived plan stays so, and only who read it before, or grants days by
\* hand, puts the user on it.
THEOREM ArchivedPlansEnd == Spec => ArchivedIsOffSale
<1>1. ASSUME Inv, [Next]_vars
      PROVE  [/\ \A p \in Plans : plan[p].state = "archived" => plan'[p].state = "archived"
              /\ sub'.plan # sub.plan /\ plan[sub'.plan].state = "archived" =>
                    \E r \in Requests :
                        /\ At(r, "grant") /\ request'[r].pc # "grant" /\ request[r].plan = sub'.plan
                        /\ request[r].mem.state = "active" \/ request[r].wants = "grant"]_vars
  <2>0. TypeOK /\ RequestsOK
    BY <1>1 DEF Inv
  <2> SUFFICES ASSUME Next
               PROVE  /\ \A p \in Plans : plan[p].state = "archived" => plan'[p].state = "archived"
                      /\ sub'.plan # sub.plan =>
                            \E r \in Requests :
                                /\ At(r, "grant") /\ request'[r].pc # "grant" /\ request[r].plan = sub'.plan
                                /\ request[r].mem.state = "active" \/ request[r].wants = "grant"
    BY <1>1
  <2>1. \/ UNCHANGED plan
        \/ \E r \in Requests, p \in Plans : Save(r, p)
        \/ \E r \in Requests : ArchiveCommits(r)
    BY DEF Next, PlanStep, GrantStep, Create, Update, Archive, Begin, CheckSquads, PanelSilent,
           CheckCode, Reads, Grant, Trial, Require, Load, GrantCommits, AuditCommits, Dies, OperatorEdits
  <2>2. ASSUME NEW r \in Requests, NEW p \in Plans, Save(r, p),
               NEW o \in Plans, plan[o].state = "archived"
        PROVE  plan'[o].state = "archived"
    BY <2>0, <2>2 DEF Save, StateSaved, There, TypeOK
  <2>3. ASSUME NEW r \in Requests, ArchiveCommits(r), NEW o \in Plans, plan[o].state = "archived"
        PROVE  plan'[o].state = "archived"
    BY <2>0, <2>3 DEF ArchiveCommits, TypeOK
  <2>4. \/ UNCHANGED sub
        \/ \E r \in Requests : GrantCommits(r)
    BY DEF Next, PlanStep, GrantStep, Create, Update, Archive, Begin, CheckSquads, PanelSilent, Save,
           CheckCode, ArchiveCommits, Reads, Grant, Trial, Require, Load, AuditCommits, Dies, OperatorEdits
  <2>5. ASSUME NEW r \in Requests, GrantCommits(r), sub'.plan # sub.plan
        PROVE  /\ At(r, "grant") /\ request'[r].pc # "grant" /\ request[r].plan = sub'.plan
               /\ request[r].mem.state = "active" \/ request[r].wants = "grant"
    <3>1. PICK q \in RequestTypes : q = request[r]
      BY <2>0 DEF TypeOK
    <3>2. q.pc = "grant" /\ (q.mem.state = "active" \/ q.wants = "grant")
      BY <2>0, <2>5, <3>1 DEF GrantCommits, At, RequestsOK, LocalOK, GrantingOK
    <3>3. sub' = IF q.own.plan = q.plan THEN [GrantedOf(q) EXCEPT !.plan = sub.plan] ELSE GrantedOf(q)
      BY <2>5, <3>1 DEF GrantCommits
    <3>4. sub'.plan = q.plan
      BY <2>5, <3>3 DEF GrantedOf
    <3>5. request'[r].pc # "grant"
      <4>1. sub' # sub
        BY <2>5
      <4>2. \/ request' = [request EXCEPT ![r] = Idle]
            \/ request' = [request EXCEPT ![r] = [q EXCEPT !.pc = "audit", !.own = GrantedOf(q),
                                                          !.act = Len(acts) + 1]]
        BY <2>5, <3>1, <4>1 DEF GrantCommits, Over, Goes
      <4>3. /\ Idle.pc = "idle"
            /\ [q EXCEPT !.pc = "audit", !.own = GrantedOf(q), !.act = Len(acts) + 1].pc = "audit"
        BY IdleOK DEF RequestTypes
      <4> QED
        BY <2>0, <4>2, <4>3 DEF TypeOK
    <3> QED
      BY <3>1, <3>2, <3>4, <3>5 DEF At
  <2> QED
    BY <2>1, <2>2, <2>3, <2>4, <2>5
<1> QED
  BY <1>1, Invariance, PTL DEF Spec, ArchivedIsOffSale

=============================================================================
