----------------------------- MODULE LettersProofs ----------------------------
(* What holds of links, passwords and sessions for any number of requests    *)
(* and addresses: one working link of a kind, good for one use, a reset that *)
(* ends the sessions before it, and accounts nobody writes over.             *)
EXTENDS Letters, TLAPS

Asking == {"asked", "invalidating"}
Opening == {"found", "ready"}
Entering == {"revoking", "revoked", "issuing"}

\* What a request carries at each step, and that there is an account for it.
CarriesOK(q) ==
    /\ q.pc \in Asking => q.kind \in Kinds /\ q.item = 0
    /\ q.pc \in Opening => q.kind \in Kinds /\ q.item \in Tokens
    /\ q.pc \notin Asking \cup Opening => q.kind = None /\ q.item = 0
    /\ q.write \in {"create", "overwrite"} => q.pc \in Asking
    /\ q.write = "user" => q.pc = "ready"
    /\ q.pc \in Asking /\ q.write # "create" => account.born

\* A letter about to be committed has listed every link it must end.
ListOK(q) ==
    q.pc = "invalidating" /\ q.kind \notin crowded =>
        \A k \in Tokens : token[k].kind = q.kind /\ ~token[k].used => k \in q.list

\* A link that is open in one request was good for nothing yet.
FirstUseOK(q) ==
    q.pc \in Opening /\ "opened" \notin crowded => served[q.item] = 0

\* Who writes over an account found nobody in it, unless it was entered since.
OverwriteOK(q) ==
    q.write = "overwrite" => ~account.verified \/ q.overtaken \/ entered

LocalOK(q) == CarriesOK(q) /\ ListOK(q) /\ FirstUseOK(q) /\ OverwriteOK(q)

RequestsOK == \A r \in Requests : LocalOK(request[r])

\* Two requests that ask for a kind, or open a link, have marked it, and one
\* at a time has the lock of the user.
ApartOK ==
    \A r, o \in Requests : r # o =>
        LET q == request[r]  p == request[o]
        IN  /\ q.pc \in Asking /\ p.pc \in Asking /\ q.kind = p.kind => q.kind \in crowded
            /\ q.pc \in Opening /\ p.pc \in Opening /\ q.item = p.item => "opened" \in crowded
            /\ ~(HoldsUser(r) /\ HoldsUser(o))

\* Links belong to an account, and so does what is confirmed.
BornOK == Tokens # {} \/ account.verified => account.born

\* Nobody is in an account that was neither confirmed nor entered by a reset.
AloneOK ==
    ~account.verified /\ ~entered =>
        /\ \A s \in Sessions : session[s].state # "live"
        /\ \A r \in Requests : request[r].pc \notin Entering

\* A session older than the last reset is one that this reset is about to end.
Covered(s) ==
    \/ session[s].state # "live"
    \/ session[s].version >= resetAt
    \/ s \in slipped
    \/ cutShort
    \/ \E r \in Requests : Revoking(r) /\ (request[r].pc = "revoked" => s \in request[r].list)

CoveredOK == \A s \in Sessions : Covered(s)

Inv == /\ TypeOK /\ RequestsOK /\ ApartOK /\ BornOK /\ AloneOK /\ CoveredOK
       /\ OneWorkingLink

-----------------------------------------------------------------------------
LEMMA IdleOK == Idle \in RequestTypes /\ Idle.pc = "idle" /\ LocalOK(Idle)
<1>1. Idle.pc = "idle" /\ Idle.kind = None /\ Idle.item = 0 /\ Idle.write = None
  BY DEF Idle
<1>2. Idle \in RequestTypes
  BY AddressesAssumption DEF Idle, RequestTypes
<1>3. LocalOK(Idle)
  BY <1>1 DEF LocalOK, CarriesOK, ListOK, FirstUseOK, OverwriteOK, Asking, Opening, None
<1> QED
  BY <1>1, <1>2, <1>3

LEMMA RowTypes ==
  ASSUME TypeOK
  PROVE  /\ Tokens = 1 .. Len(token) /\ Len(token) \in Nat
         /\ Sessions = 1 .. Len(session) /\ Len(session) \in Nat
         /\ \A k \in Tokens : token[k] \in TokenRows /\ served[k] \in Nat
         /\ \A s \in Sessions : session[s] \in SessionRows
BY DEF TypeOK, Tokens, Sessions

LEMMA InitInv == Init => Inv
<1> SUFFICES ASSUME Init PROVE Inv
  OBVIOUS
<1>1. \A r \in Requests : request[r] = Idle
  BY DEF Init
<1>2. /\ account \in [born : BOOLEAN, verified : BOOLEAN, password : Nat, address : Addresses]
      /\ account.verified => account.born
  <2>1. CASE account = Absent
    BY <2>1, AddressesAssumption DEF Absent
  <2>2. CASE account = Registered
    BY <2>2, AddressesAssumption DEF Absent, Registered
  <2>3. CASE account = [Registered EXCEPT !.verified = TRUE]
    BY <2>3, AddressesAssumption DEF Absent, Registered
  <2> QED
    BY <2>1, <2>2, <2>3 DEF Init
<1>3. /\ token \in Seq(TokenRows) /\ Len(token) \in 0 .. 1 /\ (Tokens # {} => account.born)
      /\ Tokens \subseteq {1}
  <2>1. TokenOf("verify", First) \in TokenRows
    BY AddressesAssumption DEF TokenOf, TokenRows, Kinds
  <2>2. CASE token = <<>>
    BY <2>2 DEF Tokens
  <2>3. CASE account = Registered /\ token = <<TokenOf("verify", First)>>
    BY <2>1, <2>3 DEF Tokens, Registered, Absent
  <2> QED
    BY <2>2, <2>3 DEF Init
<1>4. session \in Seq(SessionRows) /\ (~account.verified => Sessions = {})
  <2>1. SessionOf(1) \in SessionRows
    BY DEF SessionOf, SessionRows
  <2>2. CASE session = <<>>
    BY <2>2 DEF Sessions
  <2>3. CASE account = [Registered EXCEPT !.verified = TRUE] /\ session = <<SessionOf(1)>>
    BY <2>1, <2>3 DEF Registered, Absent
  <2> QED
    BY <2>2, <2>3 DEF Init
<1>5. served \in Seq(Nat) /\ Len(served) = Len(token) /\ \A k \in Tokens : served[k] = 0
  BY <1>3 DEF Init, Tokens
<1>6. TypeOK
  <2>1. /\ taken = {} /\ versions = account.password /\ begun = 0 /\ dead = 0
        /\ crowded = {} /\ resetAt = 0 /\ slipped = {} /\ cutShort = FALSE /\ entered = FALSE
        /\ request = [r \in Requests |-> Idle]
    BY DEF Init
  <2>2. request \in [Requests -> RequestTypes]
    BY <2>1, IdleOK
  <2>3. account.password \in Nat
    BY <1>2
  <2> QED
    <3>1. /\ taken \subseteq Addresses /\ begun \in 0 .. MaxBegun /\ dead \in 0 .. MaxDead
          /\ crowded \subseteq Kinds \cup {"opened"} /\ resetAt \in Nat /\ slipped \subseteq Sessions
      BY <2>1, BoundsAssumption
    <3>2. cutShort \in BOOLEAN /\ entered \in BOOLEAN
      BY <2>1
    <3>3. versions \in Nat
      BY <2>1, <2>3
    <3> QED
      BY <1>2, <1>3, <1>4, <1>5, <2>2, <3>1, <3>2, <3>3 DEF TypeOK
<1>7. RequestsOK /\ ApartOK
  BY <1>1, IdleOK DEF RequestsOK, ApartOK, Asking, Opening, HoldsUser, At
<1>8. BornOK /\ AloneOK
  BY <1>1, <1>2, <1>3, <1>4, IdleOK DEF BornOK, AloneOK, Entering
<1>9. CoveredOK
  <2>1. ASSUME NEW s \in Sessions PROVE session[s].version \in Nat
    BY <1>6, <2>1, RowTypes DEF SessionRows
  <2>2. resetAt = 0
    BY DEF Init
  <2> QED
    BY <2>1, <2>2 DEF CoveredOK, Covered, Revoking
<1>10. OneWorkingLink
  BY <1>3, <1>5 DEF OneWorkingLink
<1> QED
  BY <1>6, <1>7, <1>8, <1>9, <1>10 DEF Inv

-----------------------------------------------------------------------------
(* Steps of one request that change no row.                                  *)

\* What others have read of the tables stays true.
Grows ==
    /\ crowded \subseteq crowded' /\ (entered => entered')
    /\ account.born => account'.born
    /\ account'.verified => account.verified
    /\ Tokens' = Tokens
    /\ \A k \in Tokens : /\ token'[k].kind = token[k].kind
                         /\ token[k].used => token'[k].used
                         /\ served'[k] = served[k]

LEMMA LocalStays ==
  ASSUME NEW q, LocalOK(q), Grows
  PROVE  LocalOK(q)'
<1>1. CarriesOK(q)'
  BY DEF LocalOK, CarriesOK, Grows
<1>2. ListOK(q)'
  BY DEF LocalOK, ListOK, Grows
<1>3. FirstUseOK(q)'
  BY DEF LocalOK, FirstUseOK, CarriesOK, Grows
<1>4. OverwriteOK(q)'
  BY DEF LocalOK, OverwriteOK, Grows
<1> QED
  BY <1>1, <1>2, <1>3, <1>4 DEF LocalOK

LEMMA OneStays ==
  ASSUME NEW r \in Requests, NEW new, LocalOK(new)', request'[r] = new
  PROVE  LocalOK(request[r])'
BY DEF LocalOK, CarriesOK, ListOK, FirstUseOK, OverwriteOK

LEMMA OthersStay ==
  ASSUME RequestsOK, Grows, NEW o \in Requests, request'[o] = request[o]
  PROVE  LocalOK(request[o])'
<1>1. PICK q : q = request[o]
  OBVIOUS
<1>2. LocalOK(q)'
  BY <1>1, LocalStays DEF RequestsOK
<1> QED
  BY <1>1, <1>2, OneStays

LEMMA RequestsMove ==
  ASSUME Inv, NEW r \in Requests, NEW new, request' = [request EXCEPT ![r] = new],
         Grows, LocalOK(new)'
  PROVE  RequestsOK'
<1>1. TypeOK /\ RequestsOK
  BY DEF Inv
<1>2. request'[r] = new /\ \A o \in Requests \ {r} : request'[o] = request[o]
  BY <1>1 DEF TypeOK
<1>3. LocalOK(request[r])'
  BY <1>2, OneStays
<1>4. \A o \in Requests \ {r} : LocalOK(request[o])'
  BY <1>1, <1>2, OthersStay
<1> QED
  BY <1>3, <1>4 DEF RequestsOK

\* A request that has something in common with no other, or is marked.
Apart(r, new, marks) ==
    \A o \in Requests \ {r} :
        LET p == request[o]
        IN  /\ new.pc \in Asking /\ p.pc \in Asking /\ new.kind = p.kind => new.kind \in marks
            /\ new.pc \in Opening /\ p.pc \in Opening /\ new.item = p.item => "opened" \in marks
            /\ new.pc = "invalidating" /\ new.write = "overwrite" => ~HoldsUser(o)

LEMMA ApartStays ==
  ASSUME Inv, NEW r \in Requests, NEW new, request' = [request EXCEPT ![r] = new],
         crowded \subseteq crowded', Apart(r, new, crowded')
  PROVE  ApartOK'
<1>1. TypeOK /\ ApartOK
  BY DEF Inv
<1>2. request'[r] = new /\ \A o \in Requests \ {r} : request'[o] = request[o]
  BY <1>1 DEF TypeOK
<1>3. ASSUME NEW o \in Requests, NEW u \in Requests, o # u, o # r, u # r
      PROVE  LET q == request'[o]  p == request'[u]
             IN  /\ q.pc \in Asking /\ p.pc \in Asking /\ q.kind = p.kind => q.kind \in crowded'
                 /\ q.pc \in Opening /\ p.pc \in Opening /\ q.item = p.item
                       => "opened" \in crowded'
                 /\ ~(HoldsUser(o)' /\ HoldsUser(u)')
  <2>1. request'[o] = request[o] /\ request'[u] = request[u]
    BY <1>2, <1>3
  <2> QED
    BY <1>1, <1>3, <2>1 DEF ApartOK, HoldsUser, At
<1>4. ASSUME NEW o \in Requests, o # r
      PROVE  LET p == request'[o]
             IN  /\ new.pc \in Asking /\ p.pc \in Asking /\ new.kind = p.kind
                       => new.kind \in crowded'
                 /\ new.pc \in Opening /\ p.pc \in Opening /\ new.item = p.item
                       => "opened" \in crowded'
                 /\ ~(HoldsUser(o)' /\ HoldsUser(r)')
  BY <1>2, <1>4 DEF Apart, HoldsUser, At
<1> QED
  BY <1>2, <1>3, <1>4 DEF ApartOK

LEMMA QuietKeeps ==
  ASSUME Inv, NEW r \in Requests, NEW new \in RequestTypes,
         request' = [request EXCEPT ![r] = new],
         UNCHANGED <<rows, served, resetAt, slipped, entered>>,
         begun' \in 0 .. MaxBegun, dead' \in 0 .. MaxDead,
         crowded \subseteq crowded', crowded' \subseteq Kinds \cup {"opened"},
         cutShort' \in BOOLEAN, cutShort => cutShort',
         LocalOK(new)', Apart(r, new, crowded'),
         new.pc \in Entering => account.verified \/ entered \/ request[r].pc \in Entering,
         Revoking(r) =>
             \/ cutShort'
             \/ new.pc = "revoked" /\ new.version = resetAt /\ Live \subseteq new.list
  PROVE  Inv'
<1>0. TypeOK /\ RequestsOK /\ ApartOK /\ BornOK /\ AloneOK /\ CoveredOK /\ OneWorkingLink
  BY DEF Inv
<1>1. UNCHANGED <<account, token, session, taken, versions, Tokens, Sessions>>
  BY DEF rows, Tokens, Sessions
<1>2. request'[r] = new /\ \A o \in Requests \ {r} : request'[o] = request[o]
  BY <1>0 DEF TypeOK
<1>3. TypeOK'
  BY <1>0, <1>1 DEF TypeOK, RequestTypes
<1>4. RequestsOK'
  <2>1. Grows
    BY <1>1 DEF Grows
  <2> QED
    BY <2>1, RequestsMove
<1>5. ApartOK'
  BY ApartStays
<1>6. BornOK' /\ AloneOK'
  BY <1>0, <1>1, <1>2 DEF BornOK, AloneOK
<1>7. CoveredOK'
  <2> SUFFICES ASSUME NEW s \in Sessions PROVE Covered(s)'
    BY <1>1 DEF CoveredOK
  <2>1. CASE \E o \in Requests \ {r} :
               Revoking(o) /\ (request[o].pc = "revoked" => s \in request[o].list)
    BY <1>2, <2>1 DEF Covered, Revoking
  <2>2. CASE Revoking(r) /\ session[s].state = "live"
    BY <1>1, <1>2, <2>2 DEF Covered, Revoking, Live
  <2> QED
    BY <1>0, <1>1, <2>1, <2>2 DEF CoveredOK, Covered, Revoking
<1>8. OneWorkingLink'
  BY <1>0, <1>1 DEF OneWorkingLink, Usable
<1> QED
  BY <1>3, <1>4, <1>5, <1>6, <1>7, <1>8 DEF Inv

LEMMA EndKeeps ==
  ASSUME Inv, NEW r \in Requests, Over(r),
         UNCHANGED <<rows, begun, served, crowded, resetAt, slipped, entered>>,
         dead' \in 0 .. MaxDead, cutShort' \in BOOLEAN, cutShort => cutShort',
         Revoking(r) => cutShort'
  PROVE  Inv'
<1>1. Grows
  BY DEF Grows, rows, Tokens
<1>2. LocalOK(Idle)'
  BY <1>1, IdleOK, LocalStays
<1>3. Apart(r, Idle, crowded')
  BY IdleOK DEF Apart, Asking, Opening
<1>4. begun' \in 0 .. MaxBegun /\ crowded' \subseteq Kinds \cup {"opened"}
  BY DEF Inv, TypeOK
<1> QED
  BY <1>2, <1>3, <1>4, IdleOK, QuietKeeps DEF Over, Entering

LEMMA BeginKeeps ==
  ASSUME Inv, NEW r \in Requests, NEW new \in RequestTypes, Begin(r, new),
         UNCHANGED <<rows, dead, served, resetAt, slipped, cutShort, entered>>,
         crowded \subseteq crowded', crowded' \subseteq Kinds \cup {"opened"},
         LocalOK(new)', Apart(r, new, crowded'),
         new.pc \in Entering => account.verified \/ entered
  PROVE  Inv'
<1>1. begun' \in 0 .. MaxBegun /\ request[r].pc = "idle"
  BY BoundsAssumption DEF Inv, TypeOK, Begin
<1>2. dead' \in 0 .. MaxDead /\ cutShort' \in BOOLEAN /\ (cutShort => cutShort')
  BY DEF Inv, TypeOK
<1> QED
  BY <1>1, <1>2, QuietKeeps DEF Begin, Revoking

-----------------------------------------------------------------------------
(* Requests begin.                                                           *)

LEMMA AsksKeep ==
  ASSUME Inv, NEW r \in Requests, NEW kind \in Kinds, NEW to \in Addresses,
         NEW write \in {None, "create", "overwrite"}, Asks(r, kind, to, write),
         write # "create" => account.born,
         write = "overwrite" => ~account.verified
  PROVE  Inv'
<1>0. TypeOK /\ RequestsOK
  BY DEF Inv
<1>1. PICK new \in RequestTypes :
         new = [Idle EXCEPT !.pc = "asked", !.kind = kind, !.to = to, !.write = write]
  BY IdleOK DEF RequestTypes
<1>2. new.pc = "asked" /\ new.kind = kind /\ new.write = write /\ new.item = 0
  BY <1>1, IdleOK DEF RequestTypes, Idle
<1>3. /\ UNCHANGED <<rows, dead, served, resetAt, slipped, cutShort, entered>> /\ Begin(r, new)
      /\ crowded' = IF \E o \in Requests : request[o].kind = kind /\ request[o].item = 0
                    THEN crowded \cup {kind} ELSE crowded
  BY <1>1 DEF Asks
<1>4. crowded \subseteq crowded' /\ crowded' \subseteq Kinds \cup {"opened"}
  BY <1>0, <1>3 DEF TypeOK
<1>5. LocalOK(new)'
  BY <1>2, <1>3
  DEF LocalOK, CarriesOK, ListOK, FirstUseOK, OverwriteOK, Asking, Opening, rows, None
<1>6. Apart(r, new, crowded')
  <2>1. ASSUME NEW o \in Requests, request[o].pc \in Asking, request[o].kind = kind
        PROVE  kind \in crowded'
    BY <1>0, <1>3, <2>1 DEF RequestsOK, LocalOK, CarriesOK
  <2> QED
    BY <1>2, <2>1 DEF Apart, Opening
<1> QED
  BY <1>2, <1>3, <1>4, <1>5, <1>6, BeginKeeps DEF Entering

LEMMA LettersBegin ==
  ASSUME Inv, NEW r \in Requests,
         \/ Register(r) \/ Resend(r) \/ RequestReset(r)
         \/ \E a \in Addresses : RequestChange(r, a)
  PROVE  Inv'
<1>1. account.address \in Addresses /\ {"verify", "reset", "change"} \subseteq Kinds
  BY DEF Inv, TypeOK, Kinds
<1>2. CASE Register(r)
  <2>1. CASE account.born
    BY <1>1, <1>2, <2>1, AsksKeep, AddressesAssumption DEF Register, MayRegister, None
  <2>2. CASE ~account.born
    BY <1>1, <1>2, <2>2, AsksKeep, AddressesAssumption DEF Register, MayRegister, None
  <2> QED
    BY <2>1, <2>2
<1>3. CASE Resend(r)
  BY <1>1, <1>3, AsksKeep DEF Resend, None
<1>4. CASE RequestReset(r)
  BY <1>1, <1>4, AsksKeep DEF RequestReset, None
<1>5. ASSUME NEW a \in Addresses, RequestChange(r, a) PROVE Inv'
  BY <1>1, <1>5, AsksKeep DEF RequestChange, None
<1> QED
  BY <1>2, <1>3, <1>4, <1>5

LEMMA OpenLinkKeeps ==
  ASSUME Inv, NEW r \in Requests, NEW k \in Tokens, OpenLink(r, k)
  PROVE  Inv'
<1>0. TypeOK /\ RequestsOK /\ OneWorkingLink
  BY DEF Inv
<1>1. token[k] \in TokenRows /\ k \in Nat \ {0}
  BY <1>0, RowTypes
<1>2. PICK new \in RequestTypes :
         new = [Idle EXCEPT !.pc = "found", !.kind = token[k].kind, !.item = k,
                            !.to = token[k].to]
  BY <1>1, IdleOK DEF RequestTypes, TokenRows
<1>3. new.pc = "found" /\ new.kind \in Kinds /\ new.item = k /\ new.write = None
  BY <1>1, <1>2, IdleOK DEF RequestTypes, Idle, TokenRows
<1>4. /\ UNCHANGED <<rows, dead, served, resetAt, slipped, cutShort, entered>> /\ Begin(r, new)
      /\ crowded' = IF \E o \in Requests : request[o].item = k
                    THEN crowded \cup {"opened"} ELSE crowded
      /\ Usable(k)
  BY <1>2 DEF OpenLink
<1>5. crowded \subseteq crowded' /\ crowded' \subseteq Kinds \cup {"opened"}
  BY <1>0, <1>4 DEF TypeOK
<1>6. LocalOK(new)'
  <2>1. served[k] = 0
    BY <1>0, <1>4, RowTypes DEF OneWorkingLink, Usable
  <2> QED
    BY <1>3, <1>4, <2>1
    DEF LocalOK, CarriesOK, ListOK, FirstUseOK, OverwriteOK, Asking, Opening, rows, Tokens, None
<1>7. Apart(r, new, crowded')
  BY <1>3, <1>4 DEF Apart, Asking
<1> QED
  BY <1>3, <1>4, <1>5, <1>6, <1>7, BeginKeeps DEF Entering

LEMMA LoginKeeps ==
  ASSUME Inv, NEW r \in Requests, Login(r) \/ SetPassword(r)
  PROVE  Inv'
<1>1. PICK new \in RequestTypes :
         /\ Begin(r, new) /\ new.pc \in {"issuing", "setting"}
         /\ new.kind = None /\ new.item = 0 /\ new.write = None
         /\ new.pc = "issuing" => account.verified
  <2>1. CASE Login(r)
    <3>1. PICK new : new = [Idle EXCEPT !.pc = "issuing", !.version = account.password]
      OBVIOUS
    <3>2. account.password \in Nat
      BY DEF Inv, TypeOK
    <3>3. new \in RequestTypes
      BY <3>1, <3>2, IdleOK DEF RequestTypes
    <3> QED
      BY <2>1, <3>1, <3>3 DEF Login, Idle
  <2>2. CASE SetPassword(r)
    <3>1. PICK new : new = [Idle EXCEPT !.pc = "setting"]
      OBVIOUS
    <3>2. new \in RequestTypes
      BY <3>1, IdleOK DEF RequestTypes
    <3> QED
      BY <2>2, <3>1, <3>2 DEF SetPassword, Idle
  <2> QED
    BY <2>1, <2>2
<1>2. UNCHANGED <<rows, dead, history>>
  BY DEF Login, SetPassword
<1>3. LocalOK(new)'
  BY <1>1 DEF LocalOK, CarriesOK, ListOK, FirstUseOK, OverwriteOK, Asking, Opening, None
<1>4. Apart(r, new, crowded')
  BY <1>1 DEF Apart, Asking, Opening
<1>5. crowded' \subseteq Kinds \cup {"opened"}
  BY <1>2 DEF Inv, TypeOK, history
<1> QED
  BY <1>1, <1>2, <1>3, <1>4, <1>5, BeginKeeps DEF history, Entering

-----------------------------------------------------------------------------
(* Requests read, wait and give up.                                          *)

LEMMA InvalidateKeeps ==
  ASSUME Inv, NEW r \in Requests, InvalidateStarts(r)
  PROVE  Inv'
<1>0. TypeOK /\ RequestsOK /\ ApartOK
  BY DEF Inv
<1>1. PICK q \in RequestTypes : q = request[r]
  BY <1>0 DEF TypeOK
<1>2. q.pc = "asked" /\ q.kind \in Kinds /\ q.item = 0 /\ LocalOK(q)
  BY <1>0, <1>1 DEF InvalidateStarts, At, RequestsOK, LocalOK, CarriesOK, Asking
<1>3. PICK new \in RequestTypes :
         new = [q EXCEPT !.pc = "invalidating", !.list = ToInvalidate(q.kind)]
  BY DEF RequestTypes, ToInvalidate
<1>4. /\ new.pc = "invalidating" /\ new.kind = q.kind /\ new.item = q.item
      /\ new.write = q.write /\ new.overtaken = q.overtaken
      /\ new.list = ToInvalidate(q.kind)
  BY <1>3 DEF RequestTypes
<1>5. request' = [request EXCEPT ![r] = new] /\ UNCHANGED <<rows, begun, dead, history>>
  BY <1>1, <1>3 DEF InvalidateStarts
<1>6. LocalOK(new)'
  BY <1>2, <1>4, <1>5
  DEF LocalOK, CarriesOK, ListOK, FirstUseOK, OverwriteOK, Asking, Opening, ToInvalidate,
      rows, history, Tokens
<1>7. Apart(r, new, crowded')
  <2>1. ASSUME NEW o \in Requests \ {r}, request[o].pc \in Asking, request[o].kind = new.kind
        PROVE  new.kind \in crowded'
    BY <1>0, <1>1, <1>2, <1>4, <1>5, <2>1 DEF ApartOK, Asking, history
  <2>2. new.write = "overwrite" => \A o \in Requests : ~HoldsUser(o)
    BY <1>1, <1>4 DEF InvalidateStarts, UserFree
  <2> QED
    BY <1>4, <2>1, <2>2 DEF Apart, Opening
<1>8. /\ begun' \in 0 .. MaxBegun /\ dead' \in 0 .. MaxDead /\ cutShort' \in BOOLEAN
      /\ crowded' \subseteq Kinds \cup {"opened"}
  BY <1>0, <1>5 DEF TypeOK, history
<1> QED
  BY <1>1, <1>2, <1>4, <1>5, <1>6, <1>7, <1>8, QuietKeeps DEF history, Entering, Revoking

LEMMA MarkUsedKeeps ==
  ASSUME Inv, NEW r \in Requests, MarkUsed(r)
  PROVE  Inv'
<1>0. TypeOK /\ RequestsOK /\ ApartOK
  BY DEF Inv
<1>1. PICK q \in RequestTypes : q = request[r]
  BY <1>0 DEF TypeOK
<1>2. q.pc = "found" /\ LocalOK(q)
  BY <1>0, <1>1 DEF MarkUsed, At, RequestsOK
<1>3. PICK new \in RequestTypes :
          new = [q EXCEPT !.pc = "ready", !.version = account.password,
                          !.write = IF WritesUser(q.kind) THEN "user" ELSE None]
  BY <1>0 DEF RequestTypes, TypeOK
<1>4. /\ new.pc = "ready" /\ new.kind = q.kind /\ new.item = q.item
      /\ new.write \in {"user", None} /\ new.overtaken = q.overtaken
  BY <1>3 DEF RequestTypes
<1>5. request' = [request EXCEPT ![r] = new] /\ UNCHANGED <<rows, begun, dead, history>>
  BY <1>1, <1>3 DEF MarkUsed
<1>6. LocalOK(new)'
  BY <1>2, <1>4, <1>5
  DEF LocalOK, CarriesOK, ListOK, FirstUseOK, OverwriteOK, Asking, Opening, rows, history, Tokens,
      None
<1>7. Apart(r, new, crowded')
  <2>1. ASSUME NEW o \in Requests \ {r}, request[o].pc \in Opening, request[o].item = new.item
        PROVE  "opened" \in crowded'
    BY <1>0, <1>1, <1>2, <1>4, <1>5, <2>1 DEF ApartOK, Opening, history
  <2> QED
    BY <1>4, <2>1 DEF Apart, Asking
<1>8. /\ begun' \in 0 .. MaxBegun /\ dead' \in 0 .. MaxDead /\ cutShort' \in BOOLEAN
      /\ crowded' \subseteq Kinds \cup {"opened"}
  BY <1>0, <1>5 DEF TypeOK, history
<1> QED
  BY <1>1, <1>2, <1>4, <1>5, <1>6, <1>7, <1>8, QuietKeeps DEF history, Entering, Revoking

LEMMA GivingUpKeeps ==
  ASSUME Inv, NEW r \in Requests, RefuseUse(r) \/ DeadlockAborts(r) \/ Dies(r)
  PROVE  Inv'
<1>0. dead \in 0 .. MaxDead /\ cutShort \in BOOLEAN
  BY DEF Inv, TypeOK
<1>1. CASE RefuseUse(r)
  BY <1>0, <1>1, EndKeeps DEF RefuseUse, At, history, Revoking
<1>2. CASE DeadlockAborts(r)
  <2>1. ~Revoking(r)
    BY <1>2 DEF DeadlockAborts, Breaks, WaitsFor, Revoking
  <2> QED
    BY <1>0, <1>2, <2>1, EndKeeps DEF DeadlockAborts, history
<1>3. CASE Dies(r)
  <2>1. dead' \in 0 .. MaxDead
    BY <1>0, <1>3, BoundsAssumption DEF Dies
  <2>2. cutShort' \in BOOLEAN
    BY <1>3 DEF Dies
  <2>3. (cutShort => cutShort') /\ (Revoking(r) => cutShort')
    BY <1>3 DEF Dies
  <2> QED
    BY <1>3, <2>1, <2>2, <2>3, EndKeeps DEF Dies
<1> QED
  BY <1>1, <1>2, <1>3

LEMMA RevokeReadsKeeps ==
  ASSUME Inv, NEW r \in Requests, RevokeReads(r)
  PROVE  Inv'
<1>0. TypeOK /\ RequestsOK
  BY DEF Inv
<1>1. PICK q \in RequestTypes : q = request[r]
  BY <1>0 DEF TypeOK
<1>2. q.pc = "revoking" /\ LocalOK(q)
  BY <1>0, <1>1 DEF RevokeReads, At, RequestsOK
<1>3. PICK new \in RequestTypes : new = [q EXCEPT !.pc = "revoked", !.list = ToRevoke]
  BY DEF RequestTypes, ToRevoke, Live
<1>4. /\ new.pc = "revoked" /\ new.kind = q.kind /\ new.item = q.item
      /\ new.write = q.write /\ new.list = Live /\ new.version = q.version
  BY <1>3 DEF RequestTypes, ToRevoke
<1>5. request' = [request EXCEPT ![r] = new] /\ UNCHANGED <<rows, begun, dead, history>>
  BY <1>1, <1>3 DEF RevokeReads
<1>6. LocalOK(new)'
  BY <1>2, <1>4, <1>5
  DEF LocalOK, CarriesOK, ListOK, FirstUseOK, OverwriteOK, Asking, Opening, rows, history, None
<1>7. Apart(r, new, crowded')
  BY <1>4 DEF Apart, Asking, Opening
<1>8. /\ begun' \in 0 .. MaxBegun /\ dead' \in 0 .. MaxDead /\ cutShort' \in BOOLEAN
      /\ crowded' \subseteq Kinds \cup {"opened"}
  BY <1>0, <1>5 DEF TypeOK, history
<1> QED
  BY <1>1, <1>2, <1>4, <1>5, <1>6, <1>7, <1>8, QuietKeeps DEF history, Entering, Revoking

-----------------------------------------------------------------------------
(* Steps that write rows.                                                    *)

LEMMA CommitLetterKeeps ==
  ASSUME Inv, NEW r \in Requests, CommitLetter(r)
  PROVE  Inv'
<1>0. /\ TypeOK /\ RequestsOK /\ ApartOK /\ BornOK /\ AloneOK /\ CoveredOK /\ OneWorkingLink
      /\ LocalOK(request[r])
  BY DEF Inv, RequestsOK
<1>1. PICK q \in RequestTypes : q = request[r]
  BY <1>0 DEF TypeOK
<1>2. /\ q.pc = "invalidating" /\ q.kind \in Kinds /\ q.to \in Addresses /\ q.item = 0
      /\ q.write # "create" => account.born
      /\ q.write \in {None, "create", "overwrite"}
  BY <1>0, <1>1 DEF CommitLetter, At, LocalOK, CarriesOK, Asking, RequestTypes
<1>3. CASE q.write = "create" /\ account.born
  BY <1>0, <1>1, <1>2, <1>3, EndKeeps DEF CommitLetter, rows, TypeOK, Revoking
<1>4. CASE ~(q.write = "create" /\ account.born)
  <2>0. PICK new : new = TokenOf(q.kind, q.to)
    OBVIOUS
  <2>1. new \in TokenRows /\ new.kind = q.kind /\ ~new.used
    BY <1>2, <2>0 DEF TokenOf, TokenRows
  <2>2. PICK old : old = Invalidated(q.list)
    OBVIOUS
  <2>3. /\ old \in Seq(TokenRows) /\ Len(old) = Len(token)
        /\ \A k \in Tokens : /\ old[k] \in TokenRows
                             /\ old[k].kind = token[k].kind
                             /\ old[k].expired = token[k].expired
                             /\ token[k].used => old[k].used
                             /\ k \in q.list => old[k].used
                             /\ k \notin q.list => old[k] = token[k]
    <3>1. ASSUME NEW k \in Tokens, NEW row, row = old[k]
          PROVE  /\ row \in TokenRows
                 /\ row.kind = token[k].kind
                 /\ row.expired = token[k].expired
                 /\ token[k].used => row.used
                 /\ k \in q.list => row.used
                 /\ k \notin q.list => row = token[k]
      <4>1. token[k] \in TokenRows
        BY <1>0, RowTypes
      <4>2. CASE k \in q.list
        <5>1. row = [token[k] EXCEPT !.used = TRUE]
          BY <2>2, <3>1, <4>2 DEF Invalidated
        <5> QED
          BY <4>1, <4>2, <5>1 DEF TokenRows
      <4>3. CASE k \notin q.list
        BY <2>2, <3>1, <4>1, <4>3 DEF Invalidated
      <4> QED
        BY <4>2, <4>3
    <3>2. old = [k \in 1 .. Len(token) |-> old[k]] /\ Len(token) \in Nat
      BY <1>0, <2>2, RowTypes DEF Invalidated
    <3>3. old \in Seq(TokenRows) /\ Len(old) = Len(token)
      BY <1>0, <3>1, <3>2, RowTypes
    <3> QED
      BY <3>1, <3>3
  <2>4. /\ token' = Append(old, new) /\ served' = Append(served, 0)
        /\ account' = CASE q.write = "create" -> [Registered EXCEPT !.password = versions + 1]
                        [] q.write = "overwrite" -> [account EXCEPT !.password = versions + 1]
                        [] OTHER -> account
        /\ versions' = IF q.write = None THEN versions ELSE versions + 1
        /\ UNCHANGED <<session, taken, begun, dead, crowded, resetAt, slipped, cutShort, entered>>
        /\ Over(r)
    BY <1>1, <1>4, <2>0, <2>2 DEF CommitLetter
  <2>5. PICK n \in Nat : n = Len(token) + 1
    BY <1>0, RowTypes
  <2>6. /\ token' \in Seq(TokenRows) /\ Len(token') = n
        /\ Tokens' = Tokens \cup {n} /\ n \notin Tokens
        /\ token'[n] = new /\ \A k \in Tokens : token'[k] = old[k]
    BY <1>0, <2>1, <2>3, <2>4, <2>5, RowTypes DEF Tokens
  <2>7. /\ served' \in Seq(Nat) /\ Len(served') = n
        /\ served'[n] = 0 /\ \A k \in Tokens : served'[k] = served[k]
    BY <1>0, <2>4, <2>5, RowTypes DEF TypeOK
  <2>8. Sessions' = Sessions
    BY <2>4 DEF Sessions
  <2>9. /\ request'[r] = Idle /\ \A o \in Requests \ {r} : request'[o] = request[o]
        /\ request' \in [Requests -> RequestTypes']
    <3>1. RequestTypes \subseteq RequestTypes'
      BY <2>6, <2>8 DEF RequestTypes
    <3> QED
      BY <1>0, <2>4, <3>1, IdleOK DEF TypeOK, Over
  <2>10. /\ account' \in [born : BOOLEAN, verified : BOOLEAN, password : Nat, address : Addresses]
         /\ account'.born /\ (account'.verified => account.verified)
         /\ (account.born => account'.verified = account.verified)
         /\ ~account.born => ~account.verified
    <3>1. CASE q.write = "create"
      <4>1. account' = [Registered EXCEPT !.password = versions + 1] /\ ~account.born
        BY <1>4, <2>4, <3>1
      <4>2. account' = [born |-> TRUE, verified |-> FALSE, password |-> versions + 1, address |-> First]
        BY <4>1 DEF Registered, Absent
      <4>3. account.verified \in BOOLEAN /\ ~account.verified /\ versions + 1 \in Nat
        BY <1>0, <4>1 DEF TypeOK, BornOK
      <4>4. account' \in [born : BOOLEAN, verified : BOOLEAN, password : Nat, address : Addresses]
        BY <4>2, <4>3, AddressesAssumption
      <4>5. account'.born /\ ~account'.verified
        BY <4>2
      <4> QED
        BY <4>1, <4>3, <4>4, <4>5
    <3>2. CASE q.write = "overwrite"
      BY <1>0, <1>2, <2>4, <3>2 DEF TypeOK
    <3>3. CASE q.write = None
      BY <1>0, <1>2, <2>4, <3>3 DEF TypeOK, None
    <3> QED
      BY <1>2, <3>1, <3>2, <3>3
  <2>11. TypeOK'
    <3>1. versions' \in Nat
      BY <1>0, <2>4 DEF TypeOK
    <3> QED
      BY <1>0, <2>4, <2>6, <2>7, <2>8, <2>9, <2>10, <3>1 DEF TypeOK
  <2>12. RequestsOK'
    <3>1. LocalOK(request[r])'
      BY <2>9, IdleOK DEF LocalOK, CarriesOK, ListOK, FirstUseOK, OverwriteOK, Asking, Opening, Idle, None
    <3>2. ASSUME NEW o \in Requests \ {r} PROVE LocalOK(request[o])'
      <4>1. PICK p \in RequestTypes : p = request[o] /\ p = request'[o] /\ LocalOK(p)
        BY <1>0, <2>9, <3>2 DEF RequestsOK, TypeOK
      <4>2. CarriesOK(p)'
        BY <2>6, <2>10, <4>1 DEF LocalOK, CarriesOK
      <4>3. ListOK(p)'
        <5> SUFFICES ASSUME p.pc = "invalidating", p.kind \notin crowded,
                            NEW k \in Tokens \cup {n}, token'[k].kind = p.kind, ~token'[k].used
                     PROVE  k \in p.list
          BY <2>4, <2>6 DEF ListOK
        <5>1. p.kind # q.kind
          BY <1>0, <1>1, <1>2, <3>2, <4>1 DEF ApartOK, Asking
        <5> QED
          BY <2>1, <2>3, <2>6, <4>1, <5>1 DEF LocalOK, ListOK
      <4>4. FirstUseOK(p)'
        BY <2>4, <2>7, <4>1 DEF LocalOK, FirstUseOK, CarriesOK
      <4>5. OverwriteOK(p)'
        BY <2>4, <2>10, <4>1 DEF LocalOK, OverwriteOK
      <4> QED
        BY <4>1, <4>2, <4>3, <4>4, <4>5, OneStays DEF LocalOK
    <3> QED
      BY <3>1, <3>2 DEF RequestsOK
  <2>13. ApartOK'
    <3>1. Apart(r, Idle, crowded')
      BY IdleOK DEF Apart, Asking, Opening
    <3> QED
      BY <2>4, <3>1, ApartStays DEF Over
  <2>14. BornOK' /\ AloneOK'
    BY <1>0, <2>4, <2>8, <2>9, <2>10, IdleOK DEF BornOK, AloneOK, Entering
  <2>15. CoveredOK'
    BY <1>0, <1>1, <1>2, <2>4, <2>8, <2>9 DEF CoveredOK, Covered, Revoking
  <2>16. OneWorkingLink'
    <3>1. ASSUME NEW i \in Tokens', NEW j \in Tokens', Usable(i)', Usable(j)',
                 token'[i].kind = token'[j].kind, token'[i].kind \notin crowded'
          PROVE  i = j
      <4>1. ASSUME NEW k \in Tokens, Usable(k)'
            PROVE  /\ Usable(k) /\ token'[k] = token[k]
                   /\ token[k].kind = q.kind => q.kind \in crowded
        <5>1. token'[k] = old[k] /\ ~old[k].used
          BY <2>6, <4>1 DEF Usable
        <5>2. k \notin q.list /\ old[k] = token[k]
          BY <2>3, <5>1
        <5> QED
          BY <1>0, <1>1, <1>2, <4>1, <5>1, <5>2 DEF Usable, LocalOK, ListOK
      <4>2. CASE i \in Tokens /\ j \in Tokens
        BY <1>0, <2>4, <3>1, <4>1, <4>2 DEF OneWorkingLink
      <4>3. CASE i = n /\ j \in Tokens
        BY <2>1, <2>4, <2>6, <3>1, <4>1, <4>3
      <4>4. CASE i \in Tokens /\ j = n
        BY <2>1, <2>4, <2>6, <3>1, <4>1, <4>4
      <4> QED
        BY <2>6, <3>1, <4>2, <4>3, <4>4
    <3>2. ASSUME NEW k \in Tokens'
          PROVE  /\ served'[k] <= 1 \/ "opened" \in crowded'
                 /\ served'[k] > 0 => token'[k].used
      <4>1. CASE k = n
        BY <2>7, <4>1
      <4>2. CASE k \in Tokens
        BY <1>0, <2>3, <2>4, <2>6, <2>7, <4>2 DEF OneWorkingLink
      <4> QED
        BY <2>6, <3>2, <4>1, <4>2
    <3> QED
      BY <3>1, <3>2 DEF OneWorkingLink
  <2> QED
    BY <2>11, <2>12, <2>13, <2>14, <2>15, <2>16 DEF Inv
<1> QED
  BY <1>3, <1>4

\* A link is spent, and whoever is about to write over the account is overtaken.
LEMMA UsesKeep ==
  ASSUME Inv, NEW r \in Requests, NEW kind \in Kinds, NEW row, NEW new \in RequestTypes,
         Uses(r, kind, row), Overtake(r, new),
         row \in [born : BOOLEAN, verified : BOOLEAN, password : Nat, address : Addresses],
         row.born = account.born,
         versions' \in Nat, resetAt' \in Nat, entered' \in BOOLEAN,
         entered => entered', row.verified \/ entered',
         new.pc \in {"idle", "issuing", "revoking"},
         new.kind = None /\ new.item = 0 /\ new.write = None,
         cutShort' \in BOOLEAN,
         \/ resetAt' = resetAt /\ (cutShort => cutShort')
         \/ new.pc = "revoking" /\ new.version = resetAt'
  PROVE  Inv'
<1>0. /\ TypeOK /\ RequestsOK /\ ApartOK /\ BornOK /\ CoveredOK /\ OneWorkingLink
  BY DEF Inv
<1>1. PICK q \in RequestTypes : q = request[r] /\ LocalOK(q)
  BY <1>0 DEF TypeOK, RequestsOK
<1>2. PICK i : i = q.item
  OBVIOUS
<1>3. q.pc = "ready" /\ i \in Tokens /\ token[i] \in TokenRows /\ served[i] \in Nat
  BY <1>0, <1>1, <1>2, RowTypes DEF Uses, At, LocalOK, CarriesOK, Opening
<1>4. /\ account' = row /\ token' = Marked(i) /\ served' = [served EXCEPT ![i] = @ + 1]
      /\ UNCHANGED <<session, taken, begun, dead, crowded, slipped>>
  BY <1>1, <1>2 DEF Uses
<1>5. account.born /\ account'.born
  BY <1>0, <1>3, <1>4 DEF BornOK
<1>6. /\ token' \in Seq(TokenRows) /\ Len(token') = Len(token) /\ Tokens' = Tokens
      /\ \A k \in Tokens : /\ token'[k].kind = token[k].kind
                           /\ token'[k].expired = token[k].expired
                           /\ token[k].used => token'[k].used
                           /\ k # i => token'[k] = token[k]
      /\ token'[i].used
  <2>1. PICK t \in TokenRows : t = [token[i] EXCEPT !.used = TRUE]
    BY <1>3 DEF TokenRows
  <2>2. token' = [token EXCEPT ![i] = t]
    BY <1>4, <2>1 DEF Marked
  <2>3. t.used /\ t.kind = token[i].kind /\ t.expired = token[i].expired
    BY <1>3, <2>1 DEF TokenRows
  <2>4. token' \in Seq(TokenRows) /\ Len(token') = Len(token) /\ Tokens' = Tokens
    BY <1>0, <1>3, <2>2, RowTypes DEF TypeOK, Tokens
  <2>5. token'[i] = t /\ \A k \in Tokens : k # i => token'[k] = token[k]
    BY <1>0, <1>3, <2>2, RowTypes DEF Tokens
  <2> QED
    BY <2>3, <2>4, <2>5
<1>7. /\ served' \in Seq(Nat) /\ Len(served') = Len(token')
      /\ served'[i] = served[i] + 1 /\ \A k \in Tokens : k # i => served'[k] = served[k]
  BY <1>0, <1>3, <1>4, <1>6, RowTypes DEF TypeOK
<1>8. Sessions' = Sessions
  BY <1>4 DEF Sessions
<1>9. /\ request'[r] = new
      /\ \A o \in Requests \ {r} :
            /\ request'[o] \in RequestTypes
            /\ request'[o].pc = request[o].pc /\ request'[o].kind = request[o].kind
            /\ request'[o].item = request[o].item /\ request'[o].write = request[o].write
            /\ request'[o].list = request[o].list /\ request'[o].version = request[o].version
            /\ request[o].write = "overwrite" => request'[o].overtaken
      /\ request' \in [Requests -> RequestTypes']
  <2>1. request'[r] = new /\ DOMAIN request' = Requests
    BY DEF Overtake
  <2>2. ASSUME NEW o \in Requests \ {r}
        PROVE  /\ request'[o] \in RequestTypes
               /\ request'[o].pc = request[o].pc /\ request'[o].kind = request[o].kind
               /\ request'[o].item = request[o].item /\ request'[o].write = request[o].write
               /\ request'[o].list = request[o].list /\ request'[o].version = request[o].version
               /\ request[o].write = "overwrite" => request'[o].overtaken
    <3>1. PICK p \in RequestTypes : p = request[o]
      BY <1>0 DEF TypeOK
    <3>2. PICK b \in BOOLEAN : b = (p.overtaken \/ p.write = "overwrite")
      OBVIOUS
    <3>3. request'[o] = [p EXCEPT !.overtaken = b]
      BY <2>2, <3>1, <3>2 DEF Overtake
    <3> QED
      BY <3>1, <3>2, <3>3 DEF RequestTypes
  <2>3. RequestTypes' = RequestTypes
    BY <1>6, <1>8 DEF RequestTypes
  <2>4. request' = [o \in Requests |-> request'[o]]
    BY DEF Overtake
  <2> QED
    BY <2>1, <2>2, <2>3, <2>4
<1>10. TypeOK'
  BY <1>0, <1>4, <1>6, <1>7, <1>8, <1>9 DEF TypeOK
<1>11. RequestsOK'
  <2>1. LocalOK(request[r])'
    BY <1>9 DEF LocalOK, CarriesOK, ListOK, FirstUseOK, OverwriteOK, Asking, Opening, None
  <2>2. ASSUME NEW o \in Requests \ {r} PROVE LocalOK(request[o])'
    <3>1. PICK p : p = request[o] /\ LocalOK(p)
      BY <1>0 DEF RequestsOK
    <3>2. PICK n : /\ n = request'[o] /\ n.pc = p.pc /\ n.kind = p.kind /\ n.item = p.item
                   /\ n.write = p.write /\ n.list = p.list
                   /\ p.write = "overwrite" => n.overtaken
      BY <1>9, <3>1
    <3>3. CarriesOK(n)'
      BY <1>5, <1>6, <3>1, <3>2 DEF LocalOK, CarriesOK
    <3>4. ListOK(n)'
      BY <1>4, <1>6, <3>1, <3>2 DEF LocalOK, ListOK
    <3>5. FirstUseOK(n)'
      <4>1. n.pc \in Opening /\ n.item = i => "opened" \in crowded
        BY <1>0, <1>1, <1>2, <1>3, <3>1, <3>2 DEF ApartOK, Opening
      <4> QED
        BY <1>4, <1>7, <3>1, <3>2, <4>1 DEF LocalOK, FirstUseOK, CarriesOK
    <3>6. OverwriteOK(n)'
      BY <3>2 DEF OverwriteOK
    <3> QED
      BY <3>2, <3>3, <3>4, <3>5, <3>6, OneStays DEF LocalOK
  <2> QED
    BY <2>1, <2>2 DEF RequestsOK
<1>12. ApartOK'
  <2>1. new.pc \notin Asking \cup Opening
    BY DEF Asking, Opening
  <2>2. ASSUME NEW o \in Requests \ {r} PROVE ~(HoldsUser(o)' /\ HoldsUser(r)')
    BY <1>9, <2>1 DEF HoldsUser, At, Asking
  <2>3. ASSUME NEW o \in Requests \ {r}, NEW u \in Requests \ {r}, o # u
        PROVE  ~(HoldsUser(o)' /\ HoldsUser(u)')
    BY <1>0, <1>9, <2>3 DEF HoldsUser, At, ApartOK
  <2> QED
    BY <1>0, <1>4, <1>9, <2>1, <2>2, <2>3 DEF ApartOK
<1>13. BornOK' /\ AloneOK'
  BY <1>4, <1>5 DEF BornOK, AloneOK
<1>14. CoveredOK'
  <2> SUFFICES ASSUME NEW s \in Sessions PROVE Covered(s)'
    BY <1>8 DEF CoveredOK
  <2>1. CASE new.pc = "revoking" /\ new.version = resetAt'
    BY <1>9, <2>1 DEF Covered, Revoking
  <2>2. CASE resetAt' = resetAt /\ (cutShort => cutShort')
    <3>1. \A o \in Requests : Revoking(o) => o # r
      BY <1>1, <1>3 DEF Revoking
    <3> QED
      BY <1>0, <1>4, <1>9, <2>2, <3>1 DEF CoveredOK, Covered, Revoking
  <2> QED
    BY <2>1, <2>2
<1>15. OneWorkingLink'
  <2>1. ASSUME NEW k \in Tokens, Usable(k)' PROVE k # i /\ Usable(k) /\ token'[k] = token[k]
    BY <1>6, <2>1 DEF Usable
  <2>2. ASSUME NEW k \in Tokens
        PROVE  /\ served'[k] <= 1 \/ "opened" \in crowded'
               /\ served'[k] > 0 => token'[k].used
    <3>1. CASE k = i
      <4>1. served[i] = 0 \/ "opened" \in crowded
        BY <1>1, <1>2, <1>3 DEF LocalOK, FirstUseOK, Opening
      <4> QED
        BY <1>4, <1>6, <1>7, <3>1, <4>1
    <3>2. CASE k # i
      BY <1>0, <1>4, <1>6, <1>7, <3>2 DEF OneWorkingLink
    <3> QED
      BY <3>1, <3>2
  <2> QED
    BY <1>0, <1>4, <1>6, <2>1, <2>2 DEF OneWorkingLink
<1> QED
  BY <1>10, <1>11, <1>12, <1>13, <1>14, <1>15 DEF Inv

LEMMA LinksKeep ==
  ASSUME Inv, NEW r \in Requests, Verify(r) \/ Reset(r) \/ Change(r)
  PROVE  Inv'
<1>0. TypeOK
  BY DEF Inv
<1>1. PICK q \in RequestTypes : q = request[r]
  BY <1>0 DEF TypeOK
<1>2. {"verify", "reset", "change"} \subseteq Kinds
  BY DEF Kinds
<1>3. /\ account \in [born : BOOLEAN, verified : BOOLEAN, password : Nat, address : Addresses]
      /\ versions \in Nat /\ versions + 1 \in Nat /\ resetAt \in Nat /\ entered \in BOOLEAN /\ cutShort \in BOOLEAN
      /\ account.verified \in BOOLEAN
      /\ q.version \in Nat /\ q.to \in Addresses
  BY <1>0 DEF TypeOK, RequestTypes
<1>4. CASE Verify(r)
  <2>1. PICK row : row = [account EXCEPT !.verified = TRUE]
    OBVIOUS
  <2>2. /\ row \in [born : BOOLEAN, verified : BOOLEAN, password : Nat, address : Addresses]
        /\ row.born = account.born /\ row.verified
    BY <1>3, <2>1
  <2>3. PICK new : new = [Idle EXCEPT !.pc = "issuing", !.version = q.version]
    OBVIOUS
  <2>4. new \in RequestTypes
    BY <1>3, <2>3, IdleOK DEF RequestTypes
  <2>5. new.pc = "issuing" /\ new.kind = None /\ new.item = 0 /\ new.write = None
    BY <2>3 DEF Idle
  <2>6. Uses(r, "verify", row) /\ Overtake(r, new) /\ UNCHANGED <<versions, resetAt, cutShort, entered>>
    BY <1>1, <1>4, <2>1, <2>3 DEF Verify
  <2> QED
    BY <1>2, <1>3, <2>2, <2>4, <2>5, <2>6, UsesKeep
<1>5. CASE Reset(r)
  <2>1. PICK row : row = [account EXCEPT !.password = versions + 1]
    OBVIOUS
  <2>2. /\ row \in [born : BOOLEAN, verified : BOOLEAN, password : Nat, address : Addresses]
        /\ row.born = account.born /\ row.verified = account.verified
    BY <1>3, <2>1
  <2>3. PICK new : new = [Idle EXCEPT !.pc = "revoking", !.version = versions + 1]
    OBVIOUS
  <2>4. new \in RequestTypes
    BY <1>3, <2>3, IdleOK DEF RequestTypes
  <2>5. new.pc = "revoking" /\ new.version = versions + 1 /\ new.kind = None /\ new.item = 0 /\ new.write = None
    BY <2>3 DEF Idle
  <2>6. /\ Uses(r, "reset", row) /\ Overtake(r, new)
        /\ versions' = versions + 1 /\ resetAt' = versions + 1 /\ cutShort' = FALSE
    BY <1>5, <2>1, <2>3 DEF Reset
  <2>7. entered' \in BOOLEAN /\ (entered => entered') /\ (~account.verified => entered')
    BY <1>5 DEF Reset
  <2> QED
    BY <1>2, <1>3, <2>2, <2>4, <2>5, <2>6, <2>7, UsesKeep
<1>6. CASE Change(r)
  <2>1. PICK row : row = [account EXCEPT !.verified = TRUE, !.address = q.to]
    OBVIOUS
  <2>2. /\ row \in [born : BOOLEAN, verified : BOOLEAN, password : Nat, address : Addresses]
        /\ row.born = account.born /\ row.verified
    BY <1>3, <2>1
  <2>3. Idle.pc = "idle" /\ Idle.kind = None /\ Idle.item = 0 /\ Idle.write = None
    BY DEF Idle
  <2>4. Uses(r, "change", row) /\ Overtake(r, Idle) /\ UNCHANGED <<versions, resetAt, cutShort, entered>>
    BY <1>1, <1>6, <2>1 DEF Change
  <2> QED
    BY <1>2, <1>3, <2>2, <2>3, <2>4, IdleOK, UsesKeep
<1> QED
  BY <1>4, <1>5, <1>6

-----------------------------------------------------------------------------
(* Sessions, passwords, and what happens by itself.                          *)

LEMMA RevokeCommitsKeeps ==
  ASSUME Inv, NEW r \in Requests, RevokeCommits(r)
  PROVE  Inv'
<1>0. /\ TypeOK /\ RequestsOK /\ ApartOK /\ BornOK /\ AloneOK /\ CoveredOK /\ OneWorkingLink
  BY DEF Inv
<1>1. PICK q \in RequestTypes : q = request[r] /\ LocalOK(q)
  BY <1>0 DEF TypeOK, RequestsOK
<1>2. q.pc = "revoked" /\ q.kind = None /\ q.item = 0 /\ q.write = None
  BY <1>1 DEF RevokeCommits, At, LocalOK, CarriesOK, Asking, Opening, RequestTypes
<1>3. PICK new \in RequestTypes : new = [q EXCEPT !.pc = "issuing", !.list = {}]
  BY DEF RequestTypes
<1>4. new.pc = "issuing" /\ new.kind = None /\ new.item = 0 /\ new.write = None
  BY <1>2, <1>3 DEF RequestTypes
<1>5. /\ request' = [request EXCEPT ![r] = new]
      /\ UNCHANGED <<account, token, taken, versions, begun, dead, history, Tokens>>
  BY <1>1, <1>3 DEF RevokeCommits, Tokens
<1>6. /\ session' \in Seq(SessionRows) /\ Sessions' = Sessions
      /\ \A s \in Sessions : /\ session'[s].version = session[s].version
                             /\ session'[s].state = "live" =>
                                   session[s].state = "live" /\ s \notin q.list
  <2>1. session' = [s \in Sessions |-> IF s \in q.list THEN [session[s] EXCEPT !.state = "ended"]
                                       ELSE session[s]]
    BY <1>1 DEF RevokeCommits
  <2>2. ASSUME NEW s \in Sessions
        PROVE  /\ session'[s] \in SessionRows
               /\ session'[s].version = session[s].version
               /\ session'[s].state = "live" => session[s].state = "live" /\ s \notin q.list
    <3>1. session[s] \in SessionRows
      BY <1>0, RowTypes
    <3>2. CASE s \in q.list
      <4>1. session'[s] = [session[s] EXCEPT !.state = "ended"]
        BY <2>1, <3>2
      <4> QED
        BY <3>1, <4>1 DEF SessionRows
    <3> QED
      BY <2>1, <3>1, <3>2
  <2>3. session' = [s \in 1 .. Len(session) |-> session'[s]] /\ Len(session) \in Nat
    BY <1>0, <2>1, RowTypes
  <2>4. session' \in Seq(SessionRows) /\ Sessions' = Sessions
    BY <1>0, <2>2, <2>3, RowTypes DEF Sessions
  <2> QED
    BY <2>2, <2>4
<1>7. request'[r] = new /\ \A o \in Requests \ {r} : request'[o] = request[o]
  BY <1>0, <1>5 DEF TypeOK
<1>8. TypeOK'
  BY <1>0, <1>5, <1>6 DEF TypeOK, RequestTypes, history
<1>9. RequestsOK'
  <2>1. Grows
    BY <1>5 DEF Grows, history
  <2>2. LocalOK(new)'
    BY <1>4 DEF LocalOK, CarriesOK, ListOK, FirstUseOK, OverwriteOK, Asking, Opening, None
  <2> QED
    BY <1>5, <2>1, <2>2, RequestsMove
<1>10. ApartOK'
  <2>1. Apart(r, new, crowded')
    BY <1>4 DEF Apart, Asking, Opening
  <2> QED
    BY <1>5, <2>1, ApartStays DEF history
<1>11. BornOK' /\ AloneOK'
  BY <1>0, <1>1, <1>2, <1>5, <1>6 DEF BornOK, AloneOK, Entering, history
<1>12. CoveredOK'
  <2> SUFFICES ASSUME NEW s \in Sessions PROVE Covered(s)'
    BY <1>6 DEF CoveredOK
  <2>1. CASE \E o \in Requests \ {r} :
               Revoking(o) /\ (request[o].pc = "revoked" => s \in request[o].list)
    BY <1>5, <1>7, <2>1 DEF Covered, Revoking, history
  <2>2. CASE s \in q.list
    BY <1>6, <2>2 DEF Covered
  <2> QED
    BY <1>0, <1>1, <1>2, <1>5, <1>6, <2>1, <2>2 DEF CoveredOK, Covered, Revoking, history
<1>13. OneWorkingLink'
  BY <1>0, <1>5 DEF OneWorkingLink, Usable, history
<1> QED
  BY <1>8, <1>9, <1>10, <1>11, <1>12, <1>13 DEF Inv

LEMMA IssueKeeps ==
  ASSUME Inv, NEW r \in Requests, Issue(r)
  PROVE  Inv'
<1>0. /\ TypeOK /\ RequestsOK /\ ApartOK /\ BornOK /\ AloneOK /\ CoveredOK /\ OneWorkingLink
  BY DEF Inv
<1>1. PICK q \in RequestTypes : q = request[r]
  BY <1>0 DEF TypeOK
<1>2. q.pc = "issuing" /\ q.version \in Nat
  BY <1>1 DEF Issue, At, RequestTypes
<1>3. PICK new \in SessionRows : new = SessionOf(q.version) /\ new.version = q.version
  <2>1. SessionOf(q.version) \in SessionRows
    BY <1>2 DEF SessionOf, SessionRows
  <2>2. SessionOf(q.version).version = q.version
    BY DEF SessionOf
  <2> QED
    BY <2>1, <2>2
<1>4. PICK n \in Nat : n = Len(session) + 1
  BY <1>0, RowTypes
<1>5. /\ session' = Append(session, new) /\ Over(r)
      /\ slipped' = IF q.version < resetAt THEN slipped \cup {n} ELSE slipped
      /\ UNCHANGED <<account, token, taken, versions, begun, dead, served, crowded, resetAt,
                     cutShort, entered, Tokens>>
  BY <1>1, <1>3, <1>4 DEF Issue, Tokens
<1>6. /\ session' \in Seq(SessionRows) /\ Sessions' = Sessions \cup {n} /\ n \notin Sessions
      /\ session'[n] = new /\ \A s \in Sessions : session'[s] = session[s]
  BY <1>0, <1>3, <1>4, <1>5, RowTypes DEF Sessions, TypeOK
<1>7. request'[r] = Idle /\ \A o \in Requests \ {r} : request'[o] = request[o]
  BY <1>0, <1>5 DEF TypeOK, Over
<1>8. TypeOK'
  <2>1. request' \in [Requests -> RequestTypes']
    <3>1. RequestTypes \subseteq RequestTypes'
      BY <1>5, <1>6 DEF RequestTypes
    <3> QED
      BY <1>0, <1>5, <3>1, IdleOK DEF TypeOK, Over
  <2> QED
    BY <1>0, <1>5, <1>6, <2>1 DEF TypeOK
<1>9. RequestsOK'
  <2>1. Grows
    BY <1>5 DEF Grows
  <2>2. LocalOK(Idle)'
    BY <2>1, IdleOK, LocalStays
  <2> QED
    BY <1>5, <2>1, <2>2, RequestsMove DEF Over
<1>10. ApartOK'
  <2>1. Apart(r, Idle, crowded')
    BY IdleOK DEF Apart, Asking, Opening
  <2> QED
    BY <1>5, <2>1, ApartStays DEF Over
<1>11. BornOK' /\ AloneOK'
  BY <1>0, <1>1, <1>2, <1>5 DEF BornOK, AloneOK, Entering
<1>12. CoveredOK'
  <2>1. Covered(n)'
    BY <1>0, <1>2, <1>3, <1>5, <1>6 DEF Covered, TypeOK
  <2>2. ASSUME NEW s \in Sessions PROVE Covered(s)'
    BY <1>0, <1>1, <1>2, <1>5, <1>6, <1>7 DEF CoveredOK, Covered, Revoking
  <2> QED
    BY <1>6, <2>1, <2>2 DEF CoveredOK
<1>13. OneWorkingLink'
  BY <1>0, <1>5 DEF OneWorkingLink, Usable
<1> QED
  BY <1>8, <1>9, <1>10, <1>11, <1>12, <1>13 DEF Inv

LEMMA SetPasswordKeeps ==
  ASSUME Inv, NEW r \in Requests, SetPasswordCommits(r)
  PROVE  Inv'
<1>0. /\ TypeOK /\ RequestsOK /\ ApartOK /\ BornOK /\ AloneOK /\ CoveredOK /\ OneWorkingLink
  BY DEF Inv
<1>1. request[r].pc = "setting"
  BY DEF SetPasswordCommits, At
<1>2. /\ account' = [account EXCEPT !.password = versions + 1] /\ versions' = versions + 1 /\ Over(r)
      /\ UNCHANGED <<token, session, taken, begun, dead, history, Tokens, Sessions>>
  BY DEF SetPasswordCommits, Tokens, Sessions
<1>3. /\ account' \in [born : BOOLEAN, verified : BOOLEAN, password : Nat, address : Addresses]
      /\ account'.born = account.born /\ account'.verified = account.verified
      /\ versions' \in Nat
  <2>1. PICK v \in Nat : v = versions + 1
    BY <1>0 DEF TypeOK
  <2>2. account' = [account EXCEPT !.password = v] /\ versions' = v
    BY <1>2, <2>1
  <2> QED
    BY <1>0, <2>1, <2>2 DEF TypeOK
<1>4. request'[r] = Idle /\ \A o \in Requests \ {r} : request'[o] = request[o]
  BY <1>0, <1>2 DEF TypeOK, Over
<1>5. TypeOK'
  <2>1. request' \in [Requests -> RequestTypes']
    BY <1>0, <1>2, IdleOK DEF TypeOK, Over, RequestTypes
  <2> QED
    BY <1>0, <1>2, <1>3, <2>1 DEF TypeOK, history
<1>6. RequestsOK'
  <2>1. Grows
    BY <1>2, <1>3 DEF Grows, history
  <2>2. LocalOK(Idle)'
    BY <2>1, IdleOK, LocalStays
  <2> QED
    BY <1>2, <2>1, <2>2, RequestsMove DEF Over
<1>7. ApartOK'
  <2>1. Apart(r, Idle, crowded')
    BY IdleOK DEF Apart, Asking, Opening
  <2> QED
    BY <1>2, <2>1, ApartStays DEF Over, history
<1>8. BornOK' /\ AloneOK'
  BY <1>0, <1>2, <1>3, <1>4, IdleOK DEF BornOK, AloneOK, Entering, history
<1>9. CoveredOK'
  BY <1>0, <1>1, <1>2, <1>4 DEF CoveredOK, Covered, Revoking, history
<1>10. OneWorkingLink'
  BY <1>0, <1>2 DEF OneWorkingLink, Usable, history
<1> QED
  BY <1>5, <1>6, <1>7, <1>8, <1>9, <1>10 DEF Inv

LEMMA WorldKeeps ==
  ASSUME Inv,
         \/ \E k \in Tokens : Expires(k)
         \/ \E a \in Addresses : TakenByOther(a)
         \/ UNCHANGED vars
  PROVE  Inv'
<1>0. /\ TypeOK /\ RequestsOK /\ ApartOK /\ BornOK /\ AloneOK /\ CoveredOK /\ OneWorkingLink
  BY DEF Inv
<1>1. UNCHANGED <<account, session, versions, request, begun, dead, history, Sessions>>
  BY DEF Expires, TakenByOther, vars, rows, Sessions
<1>2. taken' \subseteq Addresses
  BY <1>0 DEF TypeOK, Expires, TakenByOther, vars, rows
<1>3. /\ token' \in Seq(TokenRows) /\ Len(token') = Len(token) /\ Tokens' = Tokens
      /\ \A k \in Tokens : /\ token'[k].kind = token[k].kind
                           /\ token'[k].used = token[k].used
                           /\ token[k].expired => token'[k].expired
  <2>1. ASSUME NEW i \in Tokens, Expires(i)
        PROVE  /\ token' \in Seq(TokenRows) /\ Len(token') = Len(token) /\ Tokens' = Tokens
               /\ \A k \in Tokens : /\ token'[k].kind = token[k].kind
                                    /\ token'[k].used = token[k].used
                                    /\ token[k].expired => token'[k].expired
    <3>1. token[i] \in TokenRows
      BY <1>0, RowTypes
    <3>2. PICK t \in TokenRows : t = [token[i] EXCEPT !.expired = TRUE]
      BY <3>1 DEF TokenRows
    <3>3. token' = [token EXCEPT ![i] = t]
      BY <2>1, <3>2 DEF Expires
    <3>4. t.expired /\ t.kind = token[i].kind /\ t.used = token[i].used
      BY <3>1, <3>2 DEF TokenRows
    <3>5. token' \in Seq(TokenRows) /\ Len(token') = Len(token) /\ Tokens' = Tokens
      BY <1>0, <3>3, RowTypes DEF TypeOK, Tokens
    <3>6. token'[i] = t /\ \A k \in Tokens : k # i => token'[k] = token[k]
      BY <1>0, <3>3, RowTypes DEF Tokens
    <3> QED
      BY <3>4, <3>5, <3>6
  <2>2. CASE UNCHANGED token
    BY <1>0, <2>2 DEF TypeOK, Tokens
  <2> QED
    BY <2>1, <2>2 DEF TakenByOther, vars, rows
<1>4. TypeOK'
  BY <1>0, <1>1, <1>2, <1>3 DEF TypeOK, RequestTypes, history
<1>5. RequestsOK'
  <2>1. Grows
    BY <1>1, <1>3 DEF Grows, history
  <2> QED
    BY <1>0, <1>1, <2>1, OthersStay DEF RequestsOK
<1>6. ApartOK'
  BY <1>0, <1>1 DEF ApartOK, HoldsUser, At, history
<1>7. BornOK' /\ AloneOK' /\ CoveredOK'
  BY <1>0, <1>1, <1>3 DEF BornOK, AloneOK, CoveredOK, Covered, Revoking, history
<1>8. OneWorkingLink'
  BY <1>0, <1>1, <1>3 DEF OneWorkingLink, Usable, history
<1> QED
  BY <1>4, <1>5, <1>6, <1>7, <1>8 DEF Inv

LEMMA NextInv == Inv /\ [Next]_vars => Inv'
<1> SUFFICES ASSUME Inv, [Next]_vars PROVE Inv'
  OBVIOUS
<1>1. ASSUME NEW r \in Requests, Starts(r) PROVE Inv'
  BY <1>1, LettersBegin, OpenLinkKeeps, LoginKeeps DEF Starts
<1>2. ASSUME NEW r \in Requests, Proceeds(r) PROVE Inv'
  BY <1>2, InvalidateKeeps, CommitLetterKeeps, MarkUsedKeeps, GivingUpKeeps, LinksKeep,
     RevokeReadsKeeps, RevokeCommitsKeeps, IssueKeeps, SetPasswordKeeps DEF Proceeds
<1>3. ASSUME NEW r \in Requests, Dies(r) PROVE Inv'
  BY <1>3, GivingUpKeeps
<1> QED
  BY <1>1, <1>2, <1>3, WorldKeeps DEF Next

-----------------------------------------------------------------------------
(* The inductive invariant: what requests have read of links, sessions and   *)
(* the account is true of them, or the crossing is marked.                   *)
THEOREM Invariance == Spec => []Inv
<1>1. Init => Inv
  BY InitInv
<1>2. Inv /\ [Next]_vars => Inv'
  BY NextInv
<1> QED
  BY <1>1, <1>2, PTL DEF Spec

\* Every variable of the letters keeps its type.
THEOREM TypeCorrect == Spec => []TypeOK
<1>1. Inv => TypeOK
  BY DEF Inv
<1> QED
  BY <1>1, Invariance, PTL

\* One link of a kind works, and for one use (tokens.py, password.py), unless
\* two letters were asked for, or one link opened twice, at once.
THEOREM LinksWorkOnce == Spec => []OneWorkingLink
<1>1. Inv => OneWorkingLink
  BY DEF Inv
<1> QED
  BY <1>1, Invariance, PTL

\* After a reset (password.py) the sessions of older passwords are over, but
\* for the moment between its commits, a death in it, and logins under way.
THEOREM ResetShutsOut == Spec => []ResetEndsSessions
<1>1. Inv => ResetEndsSessions
  BY DEF Inv, CoveredOK, Covered, Revoking, ResetEndsSessions, Live
<1> QED
  BY <1>1, Invariance, PTL

\* register() (password.py) replaces no password of an account somebody is in,
\* unless it was entered by a reset or while register() ran.
THEOREM NobodyIsOverwritten == Spec => OverwritesNobody
<1>1. ASSUME Inv, [Next]_vars
      PROVE  [\A r \in Requests :
                /\ At(r, "invalidating") /\ request[r].write = "overwrite"
                /\ account'.password # account.password
                => (~account.verified /\ Live = {}) \/ request[r].overtaken \/ entered]_vars
  <2> SUFFICES ASSUME Next, NEW r \in Requests, At(r, "invalidating"),
                      request[r].write = "overwrite", account'.password # account.password
               PROVE  (~account.verified /\ Live = {}) \/ request[r].overtaken \/ entered
    BY <1>1
  <2>1. ~account.verified \/ request[r].overtaken \/ entered
    BY <1>1 DEF Inv, RequestsOK, LocalOK, OverwriteOK
  <2>2. ~account.verified /\ ~entered => Live = {}
    BY <1>1 DEF Inv, AloneOK, Live
  <2> QED
    BY <2>1, <2>2
<1> QED
  BY <1>1, Invariance, PTL DEF Spec, OverwritesNobody

=============================================================================
