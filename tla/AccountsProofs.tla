---------------------------- MODULE AccountsProofs ----------------------------
(* What holds of accounts for any number of users, Telegrams, passkeys,      *)
(* codes and concurrent requests: who a Telegram opens, that a trial is      *)
(* given once, that accounts stay open, and what linking may take.           *)
EXTENDS Accounts, FiniteSetTheorems, TLAPS

\* What a request carries at each step.
Carries(q) ==
    /\ q.pc \in {"returned", "unknown", "known", "entitled", "granting"} \cup Redeeming
          => q.tg \in Telegrams
    /\ q.pc \in {"registering", "password", "address", "entitled", "granting"}
                \cup Redeeming \cup Removing => q.user \in Users
    /\ q.pc = "known" => q.item \in Links
    /\ q.pc \in {"known", "taken", "free", "found"} => q.dup \in Users
    /\ q.pc \in {"deleting", "deletable", "registering"} => q.item \in Keys

Lost(u) == user[u].status = "gone"

\* A request that removes a method: what it read of the account is still true
\* of it, and what it counted is still there, unless another one removes too.
RemovalOK(q) ==
    /\ q.pc \in {"deleting", "deletable"} => keyOf[q.item] \in {q.user, "gone"}
    /\ q.pc \in Removing /\ q.own.password /\ ~Lost(q.user) => user[q.user].password
    /\ q.pc \in Removing /\ q.user \notin removals /\ ~Lost(q.user) =>
          /\ q.pc = "deleting" /\ q.own.tg # None => user[q.user].tg # None
          /\ q.pc = "unlinkable" => user[q.user].password \/ KeysOf(q.user) # {}
          /\ q.pc = "deletable" => \/ user[q.user].password
                                   \/ user[q.user].tg # None
                                   \/ \E k \in Keys \ {q.item} : keyOf[k] = q.user

\* A request that redeems a code: the account it found free is still free,
\* unless another code of the account is redeemed too.
RedeemOK(q) ==
    q.pc \in {"free", "found", "linking"} =>
        /\ user[q.user].status # "unborn"
        /\ q.user \notin redeems /\ ~Lost(q.user) => user[q.user].tg = None

\* The duplicate a request has read has gained nothing since, or is marked.
SeenOK(q) ==
    q.dup \in Users /\ ~Lost(q.dup) =>
        /\ q.pc \in {"known", "taken", "free"} /\ q.dup \notin hurried =>
              (q.seen.password <=> user[q.dup].password) /\ (q.seen.address <=> user[q.dup].address)
        /\ q.pc = "found" /\ q.dup \notin hurried \cup redeems =>
              (q.seen.password <=> user[q.dup].password) /\ (q.seen.address <=> user[q.dup].address)
        /\ q.pc = "linking" /\ q.dup \notin hurried \cup redeems =>
              ~user[q.dup].password /\ ~user[q.dup].address /\ KeysOf(q.dup) = {}

LocalOK(q) == Carries(q) /\ RemovalOK(q) /\ RedeemOK(q) /\ SeenOK(q)

RequestsOK == \A r \in Requests : LocalOK(request[r])

\* Two requests that work on one account at once have marked it.
Marked(pcs, marks) ==
    \A r, o \in Requests :
        r # o /\ request[r].pc \in pcs /\ request[o].pc \in pcs
            /\ request[r].user = request[o].user => request[r].user \in marks

MarksOK == Marked(Removing, removals) /\ Marked(Redeeming, redeems)

\* A trial is given when its mark is written, and marks are not taken back.
TrialOK ==
    \A t \in Telegrams :
        /\ granted[t] = IF trial[t] = "unused" THEN 0 ELSE 1
        /\ trial[t] \in Users => Alive(trial[t]) /\ user[trial[t]].sub

Inv == /\ TypeOK /\ RequestsOK /\ MarksOK
       /\ OneAccountPerTelegram /\ TrialOK /\ AccountsStayOpen

-----------------------------------------------------------------------------
(* Types of rows and requests.                                               *)

LEMMA RowTypes ==
  /\ Unborn \in Rows /\ ByLetter \in Rows /\ Gone \in Rows
  /\ \A t \in Telegrams : ByTelegram(t) \in Rows
  /\ Unborn.status = "unborn" /\ Gone.status = "gone" /\ ByLetter.status = "alive"
  /\ ~Unborn.password /\ ~Unborn.address /\ Unborn.tg = None /\ Gone.tg = None
  /\ ~Gone.password /\ ~Gone.address
  /\ ByLetter.password /\ ByLetter.address /\ ByLetter.tg = None
  /\ \A t \in Telegrams : /\ ByTelegram(t).status = "alive" /\ ByTelegram(t).tg = t
                          /\ ~ByTelegram(t).password /\ ~ByTelegram(t).address
                          /\ ~ByTelegram(t).sub
  BY DEF Unborn, ByLetter, Gone, ByTelegram, Rows

\* A request that is over owes nothing.
LEMMA IdleOK == Idle \in RequestTypes /\ Idle.pc = "idle" /\ Idle.user = None /\ LocalOK(Idle)
<1>1. Idle \in RequestTypes
  BY RowTypes DEF Idle, RequestTypes
<1>2. Idle.pc = "idle" /\ Idle.user = None /\ Idle.dup = None
  BY DEF Idle
<1>3. Idle.dup \notin Users
  BY <1>2, NamesAssumption
<1>4. Carries(Idle)
  BY <1>2 DEF Carries, Redeeming, Removing
<1>5. RemovalOK(Idle) /\ RedeemOK(Idle)
  BY <1>2 DEF RemovalOK, RedeemOK, Removing
<1>6. SeenOK(Idle)
  BY <1>3 DEF SeenOK
<1> QED
  BY <1>1, <1>2, <1>4, <1>5, <1>6 DEF LocalOK

LEMMA EntryTypes ==
  ASSUME TypeOK
  PROVE  /\ \A u \in Users : user[u] \in Rows /\ user[u].tg \in Telegrams \cup {None}
                             /\ user[u].status \in {"unborn", "alive", "gone"}
                             /\ user[u].password \in BOOLEAN /\ user[u].address \in BOOLEAN
         /\ \A r \in Requests : request[r] \in RequestTypes
         /\ \A r \in Requests : request[r].own \in Rows /\ request[r].seen \in Rows
         /\ \A t \in Telegrams : Holders(t) \subseteq Users
  BY DEF TypeOK, Rows, RequestTypes, Holders

-----------------------------------------------------------------------------
(* A step of one request that leaves the tables alone: what has to be shown  *)
(* of the request is what it carries from here on.                           *)

\* The marks a request must have made when it begins to work on an account.
Announces(r, new, pcs, marks) ==
    new.pc \in pcs => \/ request[r].pc \in pcs /\ request[r].user = new.user
                      \/ new.user \in marks
                      \/ ~Others(r, new.user, pcs)

LEMMA RequestMoves ==
  ASSUME Inv, NEW r \in Requests, NEW new \in RequestTypes,
         request' = [request EXCEPT ![r] = new],
         UNCHANGED tables,
         code' \in [Codes -> Users \cup {None, "browser", "spent"}],
         begun' \in 0 .. MaxBegun, dead' \in 0 .. MaxDead,
         removals \subseteq removals', removals' \subseteq Users,
         redeems \subseteq redeems', redeems' \subseteq Users,
         UNCHANGED hurried,
         LocalOK(new),
         Announces(r, new, Removing, removals'), Announces(r, new, Redeeming, redeems')
  PROVE  Inv'
<1> USE DEF tables
<1>0. TypeOK /\ RequestsOK /\ MarksOK /\ OneAccountPerTelegram /\ TrialOK /\ AccountsStayOpen
  BY DEF Inv
<1>1. TypeOK'
  BY <1>0 DEF TypeOK
<1>2. request'[r] = new /\ \A o \in Requests \ {r} : request'[o] = request[o]
  BY <1>0 DEF TypeOK
<1>3. ASSUME NEW q, LocalOK(q)
      PROVE  /\ Carries(q) /\ RemovalOK(q)' /\ RedeemOK(q)' /\ SeenOK(q)'
  <2>1. RemovalOK(q)'
    BY <1>3 DEF LocalOK, RemovalOK, Lost, KeysOf
  <2>2. RedeemOK(q)'
    BY <1>3 DEF LocalOK, RedeemOK, Lost
  <2>3. SeenOK(q)'
    BY <1>3 DEF LocalOK, SeenOK, Lost, KeysOf
  <2> QED
    BY <1>3, <2>1, <2>2, <2>3 DEF LocalOK
<1>4. RequestsOK'
  <2> SUFFICES ASSUME NEW o \in Requests PROVE LocalOK(request[o])'
    BY DEF RequestsOK
  <2>1. LocalOK(request'[o])
    BY <1>0, <1>2 DEF RequestsOK
  <2> QED
    BY <1>3, <2>1 DEF LocalOK, Carries, RemovalOK, RedeemOK, SeenOK, Lost, KeysOf
<1>5. ASSUME NEW pcs, NEW marks, NEW more, marks \subseteq more, Marked(pcs, marks),
             Announces(r, new, pcs, more)
      PROVE  \A v, o \in Requests :
                v # o /\ request'[v].pc \in pcs /\ request'[o].pc \in pcs
                    /\ request'[v].user = request'[o].user => request'[v].user \in more
  BY <1>2, <1>5 DEF Marked, Announces, Others
<1>6. MarksOK'
  <2>1. Marked(Removing, removals)'
    BY <1>0, <1>5 DEF MarksOK, Marked
  <2>2. Marked(Redeeming, redeems)'
    BY <1>0, <1>5 DEF MarksOK, Marked
  <2> QED
    BY <2>1, <2>2 DEF MarksOK
<1>7. OneAccountPerTelegram' /\ TrialOK' 
  BY <1>0 DEF OneAccountPerTelegram, TrialOK, Holders, Alive
<1>8. AccountsStayOpen'
  BY <1>0 DEF AccountsStayOpen, Open, Alive, KeysOf
<1> QED
  BY <1>1, <1>4, <1>6, <1>7, <1>8 DEF Inv

\* The same for a request that ends.
LEMMA RequestEnds ==
  ASSUME Inv, NEW r \in Requests, request' = [request EXCEPT ![r] = Idle], UNCHANGED tables,
         code' \in [Codes -> Users \cup {None, "browser", "spent"}],
         begun' \in 0 .. MaxBegun, dead' \in 0 .. MaxDead, UNCHANGED history
  PROVE  Inv'
<1>1. Announces(r, Idle, Removing, removals) /\ Announces(r, Idle, Redeeming, redeems)
  BY IdleOK DEF Announces, Removing, Redeeming
<1>2. removals \subseteq Users /\ redeems \subseteq Users
  BY DEF Inv, TypeOK
<1> QED
  BY <1>1, <1>2, IdleOK, RequestMoves DEF history

\* Codes that come and go are nobody's row.
LEMMA CodesMove ==
  ASSUME Inv, UNCHANGED <<tables, request, dead, history>>,
         code' \in [Codes -> Users \cup {None, "browser", "spent"}],
         begun' \in 0 .. MaxBegun
  PROVE  Inv'
<1> USE DEF tables, history
<1>1. TypeOK'
  BY DEF Inv, TypeOK
<1>2. RequestsOK'
  BY DEF Inv, RequestsOK, LocalOK, Carries, RemovalOK, RedeemOK, SeenOK, Lost, KeysOf
<1>3. MarksOK'
  BY DEF Inv, MarksOK, Marked
<1>4. OneAccountPerTelegram' /\ TrialOK' /\ AccountsStayOpen'
  BY DEF Inv, OneAccountPerTelegram, TrialOK, AccountsStayOpen, Holders, Alive, Open, KeysOf
<1> QED
  BY <1>1, <1>2, <1>3, <1>4 DEF Inv

-----------------------------------------------------------------------------
(* Steps that write the tables and end their request, or leave it with the   *)
(* account it has made.                                                      *)

LEMMA MarksAfter ==
  ASSUME Inv, NEW r \in Requests, NEW new, request' = [request EXCEPT ![r] = new],
         new.pc \in {"idle", "known"}, UNCHANGED <<removals, redeems>>
  PROVE  MarksOK'
<1>1. request'[r] = new /\ \A o \in Requests \ {r} : request'[o] = request[o]
  BY DEF Inv, TypeOK
<1>2. new.pc \notin Removing /\ new.pc \notin Redeeming
  BY DEF Removing, Redeeming
<1> QED
  BY <1>1, <1>2 DEF Inv, MarksOK, Marked

\* What a step has to show of the others and of the tables.
LEMMA TablesMove ==
  ASSUME Inv, TypeOK', NEW r \in Requests, NEW new, request' = [request EXCEPT ![r] = new],
         new.pc \in {"idle", "known"}, UNCHANGED <<removals, redeems>>,
         \A o \in Requests \ {r} : \A p \in RequestTypes :
            p = request[o] /\ LocalOK(p) => RemovalOK(p)' /\ RedeemOK(p)' /\ SeenOK(p)',
         LocalOK(new)', OneAccountPerTelegram', TrialOK', AccountsStayOpen'
  PROVE  Inv'
<1>1. request'[r] = new /\ \A o \in Requests \ {r} : request'[o] = request[o]
  BY DEF Inv, TypeOK
<1>2. ASSUME NEW o \in Requests PROVE LocalOK(request[o])'
  <2>1. CASE o = r
    BY <1>1, <2>1 DEF LocalOK, Carries, RemovalOK, RedeemOK, SeenOK, Lost, KeysOf
  <2>2. CASE o # r
    <3>1. PICK p \in RequestTypes : p = request[o]
      BY DEF Inv, TypeOK
    <3>2. LocalOK(p)
      BY <3>1 DEF Inv, RequestsOK
    <3>3. RemovalOK(p)' /\ RedeemOK(p)' /\ SeenOK(p)' /\ request'[o] = p
      BY <1>1, <2>2, <3>1, <3>2
    <3> QED
      BY <3>2, <3>3 DEF LocalOK, Carries, RemovalOK, RedeemOK, SeenOK, Lost, KeysOf
  <2> QED
    BY <2>1, <2>2
<1>3. MarksOK'
  BY MarksAfter
<1> QED
  BY <1>2, <1>3 DEF Inv, RequestsOK

LEMMA IdleStays == LocalOK(Idle)'
<1>1. Idle.pc = "idle" /\ Idle.dup \notin Users
  BY NamesAssumption DEF Idle
<1> QED
  BY <1>1 DEF LocalOK, Carries, RemovalOK, RedeemOK, SeenOK, Redeeming, Removing

LEMMA CreateKeeps == ASSUME Inv, NEW r \in Requests, Create(r) PROVE Inv'
<1>0. /\ TypeOK /\ RequestsOK /\ OneAccountPerTelegram /\ TrialOK /\ AccountsStayOpen
      /\ LocalOK(request[r])
  BY DEF Inv, RequestsOK
<1>1. PICK q \in RequestTypes : q = request[r]
  BY <1>0 DEF TypeOK
<1>2. q.tg \in Telegrams /\ q.pc = "unknown"
  BY <1>0, <1>1 DEF LocalOK, Carries, Create, At
<1>3. CASE ~IsFree(q.tg)
  BY <1>0, <1>1, <1>3, RequestEnds DEF Create, End, Becomes, tables, history, TypeOK
<1>4. CASE IsFree(q.tg)
  <2>1. PICK u \in Users :
           /\ user[u] = Unborn
           /\ user' = [user EXCEPT ![u] = ByTelegram(q.tg)]
           /\ IF q.item \in Links
              THEN Becomes(r, [q EXCEPT !.pc = "known", !.dup = u, !.seen = ByTelegram(q.tg)])
              ELSE End(r)
    BY <1>1, <1>4 DEF Create
  <2> DEFINE next == IF q.item \in Links
                     THEN [q EXCEPT !.pc = "known", !.dup = u, !.seen = ByTelegram(q.tg)]
                     ELSE Idle
  <2>2. next \in RequestTypes /\ next.pc \in {"idle", "known"}
    BY <1>2, IdleOK, RowTypes DEF RequestTypes
  <2>3. PICK new \in RequestTypes : new = next
    BY <2>2
  <2>4. request' = [request EXCEPT ![r] = new]
    BY <2>1, <2>3 DEF Becomes, End
  <2>5. /\ user'[u] = ByTelegram(q.tg) /\ \A v \in Users \ {u} : user'[v] = user[v]
        /\ UNCHANGED <<keyOf, trial, granted, code, begun, dead, removals, redeems, hurried>>
    BY <1>0, <2>1 DEF Create, TypeOK, history
  <2>6. TypeOK'
    BY <1>0, <1>2, <2>1, <2>4, <2>5, RowTypes DEF TypeOK
  <2>7. \A v \in Users : /\ user'[v].password <=> user[v].password
                         /\ user'[v].address <=> user[v].address
                         /\ user'[v].status = "gone" <=> user[v].status = "gone"
                         /\ user[v].tg # None => user'[v].tg # None
                         /\ user[v].status # "unborn" => user'[v] = user[v]
    BY <1>2, <2>1, <2>5, RowTypes, NamesAssumption
  <2>8. ASSUME NEW o \in Requests \ {r}, NEW p \in RequestTypes, LocalOK(p)
        PROVE  RemovalOK(p)' /\ RedeemOK(p)' /\ SeenOK(p)'
    <3>1. p.pc \in Removing \cup Redeeming => p.user \in Users
      BY <2>8 DEF LocalOK, Carries
    <3>2. RemovalOK(p)'
      BY <2>5, <2>7, <2>8, <3>1 DEF LocalOK, RemovalOK, Lost, KeysOf, Removing
    <3>3. RedeemOK(p)'
      BY <2>5, <2>7, <2>8, <3>1 DEF LocalOK, RedeemOK, Lost, Redeeming
    <3>4. SeenOK(p)'
      BY <2>5, <2>7, <2>8 DEF LocalOK, SeenOK, Lost, KeysOf
    <3> QED
      BY <3>2, <3>3, <3>4
  <2>9. LocalOK(new)'
    <3>1. CASE q.item \notin Links
      BY <2>3, <3>1, IdleStays
    <3>2. CASE q.item \in Links
      <4>1. /\ new.pc = "known" /\ new.dup = u /\ new.seen = ByTelegram(q.tg)
            /\ new.tg = q.tg /\ new.item = q.item
        BY <2>3, <3>2 DEF RequestTypes
      <4>2. Carries(new)
        BY <1>2, <3>2, <4>1 DEF Carries, Redeeming, Removing
      <4>3. RemovalOK(new)' /\ RedeemOK(new)'
        BY <4>1 DEF RemovalOK, RedeemOK, Removing
      <4>4. SeenOK(new)'
        BY <2>5, <4>1 DEF SeenOK
      <4> QED
        BY <4>2, <4>3, <4>4 DEF LocalOK, Carries
    <3> QED
      BY <3>1, <3>2
  <2>10. OneAccountPerTelegram'
    BY <1>0, <1>2, <1>4, <2>5, RowTypes DEF OneAccountPerTelegram, Holders, Alive, IsFree
  <2>11. TrialOK'
    BY <1>0, <2>1, <2>5, <2>7, RowTypes DEF TrialOK, Alive
  <2>12. AccountsStayOpen'
    <3> SUFFICES ASSUME NEW v \in Users, Alive(v)'
                 PROVE  Open(v)' \/ v \in removals' \/ (user'[v].password /\ ~user'[v].address)
      BY DEF AccountsStayOpen
    <3>1. CASE v = u
      BY <1>2, <2>5, <3>1, RowTypes, NamesAssumption DEF Open
    <3>2. CASE v # u
      BY <1>0, <2>5, <3>2 DEF AccountsStayOpen, Open, Alive, KeysOf
    <3> QED
      BY <3>1, <3>2
  <2>13. new.pc \in {"idle", "known"}
    BY <2>2, <2>3
  <2> HIDE DEF next
  <2> QED
    BY <2>4, <2>5, <2>6, <2>8, <2>9, <2>10, <2>11, <2>12, <2>13, TablesMove
<1> QED
  BY <1>3, <1>4

\* The same for a request that ends with its commit.
LEMMA CommitMoves ==
  ASSUME Inv, TypeOK', NEW r \in Requests, End(r), UNCHANGED <<removals, redeems>>,
         \A o \in Requests \ {r} : \A p \in RequestTypes :
            p = request[o] /\ LocalOK(p) => RemovalOK(p)' /\ RedeemOK(p)' /\ SeenOK(p)',
         OneAccountPerTelegram', TrialOK', AccountsStayOpen'
  PROVE  Inv'
  BY IdleOK, IdleStays, TablesMove DEF End, Becomes

LEMMA UnlinkKeeps == ASSUME Inv, NEW r \in Requests, UnlinkCommits(r) PROVE Inv'
<1>0. /\ TypeOK /\ MarksOK /\ OneAccountPerTelegram /\ TrialOK /\ AccountsStayOpen
      /\ LocalOK(request[r])
  BY DEF Inv, RequestsOK
<1>1. PICK q \in RequestTypes : q = request[r]
  BY <1>0 DEF TypeOK
<1>2. q.user \in Users /\ q.pc = "unlinkable" /\ q.pc \in Removing
  BY <1>0, <1>1 DEF LocalOK, Carries, UnlinkCommits, At, Removing
<1>3. /\ user' = IF Alive(q.user) THEN [user EXCEPT ![q.user].tg = None] ELSE user
      /\ UNCHANGED <<keyOf, trial, granted, code, begun, dead, removals, redeems, hurried>>
      /\ End(r) /\ request' = [request EXCEPT ![r] = Idle]
  BY <1>1 DEF UnlinkCommits, history, End, Becomes
<1>4. \A v \in Users : /\ user'[v].password = user[v].password
                       /\ user'[v].address = user[v].address
                       /\ user'[v].sub = user[v].sub
                       /\ user'[v].status = user[v].status
                       /\ user'[v].tg = user[v].tg \/ (v = q.user /\ user'[v].tg = None)
  BY <1>0, <1>2, <1>3 DEF TypeOK, Rows
<1>5. TypeOK'
  <2>1. user' \in [Users -> Rows]
    BY <1>0, <1>2, <1>3 DEF TypeOK, Rows
  <2> QED
    BY <1>0, <1>3, <2>1, IdleOK DEF TypeOK
<1>6. ASSUME NEW o \in Requests \ {r}, NEW p \in RequestTypes, p = request[o], LocalOK(p)
      PROVE  RemovalOK(p)' /\ RedeemOK(p)' /\ SeenOK(p)'
  <2>1. p.pc \in Removing \cup Redeeming => p.user \in Users
    BY <1>6 DEF LocalOK, Carries
  <2>2. p.pc \in Removing /\ p.user \notin removals => p.user # q.user
    BY <1>0, <1>1, <1>2, <1>6 DEF MarksOK, Marked
  <2>3. RemovalOK(p)'
    BY <1>3, <1>4, <1>6, <2>1, <2>2 DEF LocalOK, RemovalOK, Lost, KeysOf, Removing
  <2>4. RedeemOK(p)'
    BY <1>3, <1>4, <1>6, <2>1 DEF LocalOK, RedeemOK, Lost, Redeeming
  <2>5. SeenOK(p)'
    BY <1>3, <1>4, <1>6 DEF LocalOK, SeenOK, Lost, KeysOf
  <2> QED
    BY <2>3, <2>4, <2>5
<1>7. OneAccountPerTelegram'
  BY <1>0, <1>4, NamesAssumption DEF OneAccountPerTelegram, Holders, Alive
<1>8. TrialOK'
  BY <1>0, <1>3, <1>4 DEF TrialOK, Alive
<1>9. AccountsStayOpen'
  <2> SUFFICES ASSUME NEW v \in Users, Alive(v)'
               PROVE  Open(v)' \/ v \in removals' \/ (user'[v].password /\ ~user'[v].address)
    BY DEF AccountsStayOpen
  <2>1. CASE v = q.user
    <3>1. RemovalOK(q) /\ Alive(v)
      BY <1>0, <1>1, <1>4 DEF LocalOK, Alive
    <3>2. v \notin removals => user[v].password \/ KeysOf(v) # {}
      BY <1>2, <2>1, <3>1 DEF RemovalOK, Lost, Alive
    <3> QED
      BY <1>3, <1>4, <3>2 DEF Open, KeysOf
  <2>2. CASE v # q.user
    BY <1>0, <1>3, <1>4, <2>2 DEF AccountsStayOpen, Open, Alive, KeysOf
  <2> QED
    BY <2>1, <2>2
<1> QED
  BY <1>3, <1>5, <1>6, <1>7, <1>8, <1>9, CommitMoves

LEMMA DeleteKeyKeeps == ASSUME Inv, NEW r \in Requests, DeleteKeyCommits(r) PROVE Inv'
<1>0. /\ TypeOK /\ MarksOK /\ OneAccountPerTelegram /\ TrialOK /\ AccountsStayOpen
      /\ LocalOK(request[r])
  BY DEF Inv, RequestsOK
<1>1. PICK q \in RequestTypes : q = request[r]
  BY <1>0 DEF TypeOK
<1>2. /\ q.user \in Users /\ q.pc = "deletable" /\ q.pc \in Removing
      /\ q.item \in Keys /\ keyOf[q.item] \in {q.user, "gone"}
  BY <1>0, <1>1 DEF LocalOK, Carries, RemovalOK, DeleteKeyCommits, At, Removing
<1>3. /\ keyOf' = [keyOf EXCEPT ![q.item] = "gone"]
      /\ UNCHANGED <<user, trial, granted, code, begun, dead, removals, redeems, hurried>>
      /\ End(r) /\ request' = [request EXCEPT ![r] = Idle]
  BY <1>1 DEF DeleteKeyCommits, history, End, Becomes
<1>4. /\ \A k \in Keys : keyOf'[k] = IF k = q.item THEN "gone" ELSE keyOf[k]
      /\ \A v \in Users \ {q.user} : KeysOf(v)' = KeysOf(v)
      /\ \A v \in Users : KeysOf(v)' = KeysOf(v) \ {q.item}
  <2>1. \A k \in Keys : keyOf'[k] = IF k = q.item THEN "gone" ELSE keyOf[k]
    BY <1>0, <1>2, <1>3 DEF TypeOK
  <2>2. "gone" \notin Users
    BY NamesAssumption DEF NoUser
  <2> QED
    BY <1>2, <2>1, <2>2 DEF KeysOf
<1>5. TypeOK'
  BY <1>0, <1>2, <1>3, IdleOK DEF TypeOK
<1>6. ASSUME NEW o \in Requests \ {r}, NEW p \in RequestTypes, p = request[o], LocalOK(p)
      PROVE  RemovalOK(p)' /\ RedeemOK(p)' /\ SeenOK(p)'
  <2>1. /\ p.pc \in Removing \cup Redeeming => p.user \in Users
        /\ p.pc \in {"deleting", "deletable"} => p.item \in Keys
    BY <1>6 DEF LocalOK, Carries
  <2>2. p.pc \in Removing /\ p.user \notin removals => p.user # q.user
    BY <1>0, <1>1, <1>2, <1>6 DEF MarksOK, Marked
  <2>3. RemovalOK(p)'
    <3>1. p.pc \in {"deleting", "deletable"} => keyOf'[p.item] \in {p.user, "gone"}
      BY <1>4, <1>6, <2>1 DEF LocalOK, RemovalOK
    <3>2. ASSUME p.pc = "deletable", p.user \notin removals,
                 NEW k \in Keys \ {p.item}, keyOf[k] = p.user
          PROVE  keyOf'[k] = p.user
      <4>1. p.user \in Users /\ p.user # q.user /\ p.user # "gone"
        BY <2>1, <2>2, <3>2, NamesAssumption DEF Removing, NoUser
      <4> QED
        BY <1>2, <1>4, <3>2, <4>1
    <3> QED
      BY <1>3, <1>4, <1>6, <2>1, <2>2, <3>1, <3>2 DEF LocalOK, RemovalOK, Lost, Removing
  <2>4. RedeemOK(p)'
    BY <1>3, <1>6 DEF LocalOK, RedeemOK, Lost
  <2>5. SeenOK(p)'
    BY <1>3, <1>4, <1>6 DEF LocalOK, SeenOK, Lost
  <2> QED
    BY <2>3, <2>4, <2>5
<1>7. OneAccountPerTelegram' /\ TrialOK'
  BY <1>0, <1>3 DEF OneAccountPerTelegram, TrialOK, Holders, Alive
<1>8. AccountsStayOpen'
  <2> SUFFICES ASSUME NEW v \in Users, Alive(v)
               PROVE  Open(v)' \/ v \in removals \/ (user[v].password /\ ~user[v].address)
    BY <1>3 DEF AccountsStayOpen, Alive
  <2>1. CASE v = q.user
    <3>1. RemovalOK(q)
      BY <1>0, <1>1 DEF LocalOK
    <3>2. v \notin removals => \/ user[v].password \/ user[v].tg # None
                               \/ \E k \in Keys \ {q.item} : keyOf[k] = v
      BY <1>2, <2>1, <3>1 DEF RemovalOK, Lost, Alive
    <3> QED
      BY <1>3, <1>4, <3>2 DEF Open, KeysOf
  <2>2. CASE v # q.user
    BY <1>0, <1>3, <1>4, <2>2 DEF AccountsStayOpen, Open
  <2> QED
    BY <2>1, <2>2
<1> QED
  BY <1>3, <1>5, <1>6, <1>7, <1>8, CommitMoves

\* A method gained by an account that another request will absorb is marked.
LEMMA GainIsMarked ==
  ASSUME Inv, NEW u \in Users, Gained(u)
  PROVE  /\ hurried \subseteq hurried' /\ hurried' \subseteq Users
         /\ \A o \in Requests : request[o].dup = u /\ request[o].pc \in Absorbing
                                  => u \in hurried'
  BY DEF Gained, IsDuplicate, Inv, TypeOK

LEMMA RegisterKeyKeeps == ASSUME Inv, NEW r \in Requests, RegisterKeyCommits(r) PROVE Inv'
<1>0. /\ TypeOK /\ OneAccountPerTelegram /\ TrialOK /\ AccountsStayOpen /\ LocalOK(request[r])
  BY DEF Inv, RequestsOK
<1>1. PICK q \in RequestTypes : q = request[r]
  BY <1>0 DEF TypeOK
<1>2. q.user \in Users /\ q.item \in Keys
  BY <1>0, <1>1 DEF LocalOK, Carries, RegisterKeyCommits, At
<1>3. CASE ~(Alive(q.user) /\ keyOf[q.item] = "absent")
  BY <1>0, <1>1, <1>3, RequestEnds
  DEF RegisterKeyCommits, End, Becomes, tables, history, TypeOK
<1>4. CASE Alive(q.user) /\ keyOf[q.item] = "absent"
  <2>1. /\ keyOf' = [keyOf EXCEPT ![q.item] = q.user] /\ Gained(q.user)
        /\ UNCHANGED <<user, trial, granted, code, begun, dead, removals, redeems>>
        /\ End(r) /\ request' = [request EXCEPT ![r] = Idle]
    BY <1>1, <1>4 DEF RegisterKeyCommits, End, Becomes
  <2>2. \A k \in Keys : keyOf'[k] = IF k = q.item THEN q.user ELSE keyOf[k]
    BY <1>0, <1>2, <2>1 DEF TypeOK
  <2>3. /\ "absent" \notin Users
        /\ \A v \in Users : KeysOf(v) \subseteq KeysOf(v)'
        /\ \A v \in Users \ {q.user} : KeysOf(v)' = KeysOf(v)
    BY <1>4, <2>2, NamesAssumption DEF KeysOf, NoUser
  <2>4. TypeOK'
    BY <1>0, <1>2, <2>1, IdleOK, GainIsMarked DEF TypeOK
  <2>5. ASSUME NEW o \in Requests \ {r}, NEW p \in RequestTypes, p = request[o], LocalOK(p)
        PROVE  RemovalOK(p)' /\ RedeemOK(p)' /\ SeenOK(p)'
    <3>1. /\ p.pc \in Removing \cup Redeeming => p.user \in Users
          /\ p.pc \in {"deleting", "deletable"} => p.item \in Keys
      BY <2>5 DEF LocalOK, Carries
    <3>2. RemovalOK(p)'
      <4>1. p.pc \in {"deleting", "deletable"} => p.item # q.item /\ p.user \in Users
        BY <1>4, <2>3, <2>5, <3>1 DEF LocalOK, RemovalOK, Removing
      <4>2. p.pc \in {"deleting", "deletable"} => keyOf'[p.item] \in {p.user, "gone"}
        BY <2>2, <2>5, <3>1, <4>1 DEF LocalOK, RemovalOK
      <4>3. ASSUME p.pc = "deletable", NEW k \in Keys \ {p.item}, keyOf[k] = p.user
            PROVE  keyOf'[k] = p.user
        BY <1>4, <2>2, <2>3, <4>1, <4>3
      <4>4. p.pc = "unlinkable" /\ KeysOf(p.user) # {} => KeysOf(p.user)' # {}
        BY <2>3, <3>1 DEF Removing
      <4> QED
        BY <2>1, <2>5, <4>2, <4>3, <4>4 DEF LocalOK, RemovalOK, Lost
    <3>3. RedeemOK(p)'
      BY <2>1, <2>5 DEF LocalOK, RedeemOK, Lost
    <3>4. SeenOK(p)'
      <4>1. p.pc \in Absorbing /\ p.dup = q.user => p.dup \in hurried'
        BY <1>2, <2>1, <2>5, GainIsMarked
      <4>2. hurried \subseteq hurried'
        BY <1>2, <2>1, GainIsMarked
      <4>3. {"known", "taken", "free", "found", "linking"} = Absorbing
        BY DEF Absorbing
      <4> QED
        BY <2>1, <2>3, <2>5, <4>1, <4>2, <4>3 DEF LocalOK, SeenOK, Lost
    <3> QED
      BY <3>2, <3>3, <3>4
  <2>6. OneAccountPerTelegram' /\ TrialOK'
    BY <1>0, <2>1 DEF OneAccountPerTelegram, TrialOK, Holders, Alive
  <2>7. AccountsStayOpen'
    BY <1>0, <2>1, <2>3 DEF AccountsStayOpen, Open, Alive
  <2> QED
    BY <2>1, <2>4, <2>5, <2>6, <2>7, CommitMoves
<1> QED
  BY <1>3, <1>4

\* A password or an address is written into the row as it is now.
LEMMA ChangeKeeps ==
  ASSUME Inv, NEW r \in Requests, NEW u \in Users, NEW row \in Rows, Commits(r, u, row),
         row.status = user[u].status, row.tg = user[u].tg, row.sub = user[u].sub,
         user[u].password => row.password, user[u].address => row.address
  PROVE  Inv'
<1>0. /\ TypeOK /\ OneAccountPerTelegram /\ TrialOK /\ AccountsStayOpen
  BY DEF Inv
<1>1. CASE ~Alive(u)
  BY <1>0, <1>1, RequestEnds DEF Commits, End, Becomes, tables, history, TypeOK
<1>2. CASE Alive(u)
  <2>1. /\ user' = [user EXCEPT ![u] = row] /\ Gained(u)
        /\ UNCHANGED <<keyOf, trial, granted, code, begun, dead, removals, redeems>>
        /\ End(r) /\ request' = [request EXCEPT ![r] = Idle]
    BY <1>2 DEF Commits, End, Becomes
  <2>2. /\ user'[u] = row /\ \A v \in Users \ {u} : user'[v] = user[v]
        /\ \A v \in Users : /\ user'[v].status = user[v].status
                            /\ user'[v].tg = user[v].tg
                            /\ user'[v].sub = user[v].sub
                            /\ user[v].password => user'[v].password
                            /\ user[v].address => user'[v].address
    BY <1>0, <2>1 DEF TypeOK
  <2>3. TypeOK'
    BY <1>0, <2>1, IdleOK, GainIsMarked DEF TypeOK
  <2>4. ASSUME NEW o \in Requests \ {r}, NEW p \in RequestTypes, p = request[o], LocalOK(p)
        PROVE  RemovalOK(p)' /\ RedeemOK(p)' /\ SeenOK(p)'
    <3>1. p.pc \in Removing \cup Redeeming => p.user \in Users
      BY <2>4 DEF LocalOK, Carries
    <3>2. RemovalOK(p)'
      BY <2>1, <2>2, <2>4, <3>1 DEF LocalOK, RemovalOK, Lost, KeysOf, Removing
    <3>3. RedeemOK(p)'
      BY <2>1, <2>2, <2>4, <3>1 DEF LocalOK, RedeemOK, Lost, Redeeming
    <3>4. SeenOK(p)'
      <4>1. p.pc \in Absorbing /\ p.dup = u => p.dup \in hurried'
        BY <2>1, <2>4, GainIsMarked
      <4>2. hurried \subseteq hurried'
        BY <2>1, GainIsMarked
      <4>3. {"known", "taken", "free", "found", "linking"} = Absorbing
        BY DEF Absorbing
      <4> QED
        BY <2>1, <2>2, <2>4, <4>1, <4>2, <4>3 DEF LocalOK, SeenOK, Lost, KeysOf
    <3> QED
      BY <3>2, <3>3, <3>4
  <2>5. OneAccountPerTelegram'
    BY <1>0, <2>2 DEF OneAccountPerTelegram, Holders, Alive
  <2>6. TrialOK'
    BY <1>0, <2>1, <2>2 DEF TrialOK, Alive
  <2>7. AccountsStayOpen'
    <3> SUFFICES ASSUME NEW v \in Users, Alive(v)'
                 PROVE  Open(v)' \/ v \in removals' \/ (user'[v].password /\ ~user'[v].address)
      BY DEF AccountsStayOpen
    <3>1. Alive(v) /\ (Open(v) \/ v \in removals \/ (user[v].password /\ ~user[v].address))
      BY <1>0, <2>2 DEF AccountsStayOpen, Alive
    <3> QED
      BY <2>1, <2>2, <3>1 DEF Open, KeysOf
  <2> QED
    BY <2>1, <2>3, <2>4, <2>5, <2>6, <2>7, CommitMoves
<1> QED
  BY <1>1, <1>2

LEMMA SetPasswordKeeps == ASSUME Inv, NEW r \in Requests, SetPasswordCommits(r) PROVE Inv'
<1>1. request[r].user \in Users
  BY DEF Inv, RequestsOK, LocalOK, Carries, SetPasswordCommits, At
<1>2. PICK u \in Users : u = request[r].user
  BY <1>1
<1>3. PICK row \in Rows : row = [user[u] EXCEPT !.password = TRUE]
  BY EntryTypes DEF Inv, Rows
<1>4. /\ row.status = user[u].status /\ row.tg = user[u].tg /\ row.sub = user[u].sub
      /\ row.password /\ row.address = user[u].address
  BY <1>3, EntryTypes DEF Inv, Rows
<1> QED
  BY <1>2, <1>3, <1>4, ChangeKeeps DEF SetPasswordCommits

LEMMA ConfirmAddressKeeps ==
  ASSUME Inv, NEW r \in Requests, ConfirmAddressCommits(r) PROVE Inv'
<1>1. request[r].user \in Users
  BY DEF Inv, RequestsOK, LocalOK, Carries, ConfirmAddressCommits, At
<1>2. PICK u \in Users : u = request[r].user
  BY <1>1
<1>3. PICK row \in Rows : row = [user[u] EXCEPT !.address = TRUE]
  BY EntryTypes DEF Inv, Rows
<1>4. /\ row.status = user[u].status /\ row.tg = user[u].tg /\ row.sub = user[u].sub
      /\ row.password = user[u].password /\ row.address
  BY <1>3, EntryTypes DEF Inv, Rows
<1> QED
  BY <1>2, <1>3, <1>4, ChangeKeeps DEF ConfirmAddressCommits

LEMMA TrialKeeps == ASSUME Inv, NEW r \in Requests, TrialCommits(r) PROVE Inv'
<1>0. /\ TypeOK /\ OneAccountPerTelegram /\ TrialOK /\ AccountsStayOpen /\ LocalOK(request[r])
  BY DEF Inv, RequestsOK
<1>1. PICK q \in RequestTypes : q = request[r]
  BY <1>0 DEF TypeOK
<1>2. q.user \in Users /\ q.tg \in Telegrams
  BY <1>0, <1>1 DEF LocalOK, Carries, TrialCommits, At
<1>3. CASE ~(Alive(q.user) /\ MarkFree(q.tg))
  BY <1>0, <1>1, <1>3, RequestEnds DEF TrialCommits, End, Becomes, tables, TypeOK
<1>4. CASE Alive(q.user) /\ MarkFree(q.tg)
  <2>1. /\ trial' = [trial EXCEPT ![q.tg] = q.user]
        /\ user' = [user EXCEPT ![q.user].sub = TRUE]
        /\ granted' = [granted EXCEPT ![q.tg] = @ + 1]
        /\ UNCHANGED <<keyOf, code, begun, dead, removals, redeems, hurried>>
        /\ End(r) /\ request' = [request EXCEPT ![r] = Idle]
    BY <1>1, <1>4 DEF TrialCommits, End, Becomes, history
  <2>2. /\ user' \in [Users -> Rows] /\ user'[q.user].sub
        /\ \A v \in Users : /\ user'[v].status = user[v].status
                            /\ user'[v].tg = user[v].tg
                            /\ user'[v].password = user[v].password
                            /\ user'[v].address = user[v].address
                            /\ user[v].sub => user'[v].sub
    BY <1>0, <1>2, <2>1 DEF TypeOK, Rows
  <2>3. TypeOK'
    BY <1>0, <1>2, <2>1, <2>2, IdleOK DEF TypeOK
  <2>4. ASSUME NEW o \in Requests \ {r}, NEW p \in RequestTypes, p = request[o], LocalOK(p)
        PROVE  RemovalOK(p)' /\ RedeemOK(p)' /\ SeenOK(p)'
    <3>1. p.pc \in Removing \cup Redeeming => p.user \in Users
      BY <2>4 DEF LocalOK, Carries
    <3>2. RemovalOK(p)'
      BY <2>1, <2>2, <2>4, <3>1 DEF LocalOK, RemovalOK, Lost, KeysOf, Removing
    <3>3. RedeemOK(p)'
      BY <2>1, <2>2, <2>4, <3>1 DEF LocalOK, RedeemOK, Lost, Redeeming
    <3>4. SeenOK(p)'
      BY <2>1, <2>2, <2>4 DEF LocalOK, SeenOK, Lost, KeysOf
    <3> QED
      BY <3>2, <3>3, <3>4
  <2>5. OneAccountPerTelegram'
    BY <1>0, <2>2 DEF OneAccountPerTelegram, Holders, Alive
  <2>6. TrialOK'
    <3> SUFFICES ASSUME NEW t \in Telegrams
                 PROVE  /\ granted'[t] = IF trial'[t] = "unused" THEN 0 ELSE 1
                        /\ trial'[t] \in Users => /\ user'[trial'[t]].status = "alive"
                                                  /\ user'[trial'[t]].sub
      BY DEF TrialOK, Alive
    <3>1. CASE t = q.tg
      <4>1. granted[t] = 0 /\ trial'[t] = q.user /\ granted'[t] = granted[t] + 1
        BY <1>0, <1>2, <1>4, <2>1, <3>1 DEF TrialOK, MarkFree, TypeOK
      <4>2. q.user # "unused"
        BY <1>2, NamesAssumption DEF NoUser
      <4> QED
        BY <1>4, <2>2, <4>1, <4>2 DEF Alive
    <3>2. CASE t # q.tg
      <4>1. trial'[t] = trial[t] /\ granted'[t] = granted[t]
        BY <1>0, <2>1, <3>2 DEF TypeOK
      <4> QED
        BY <1>0, <2>2, <4>1 DEF TrialOK, Alive
    <3> QED
      BY <3>1, <3>2
  <2>7. AccountsStayOpen'
    BY <1>0, <2>1, <2>2 DEF AccountsStayOpen, Open, Alive, KeysOf
  <2> QED
    BY <2>1, <2>3, <2>4, <2>5, <2>6, <2>7, CommitMoves
<1> QED
  BY <1>3, <1>4

\* The end of redeem(): the duplicate goes with its passkeys and its trial loses
\* its user; the account gets the Telegram nobody else has.
LEMMA LinkKeeps == ASSUME Inv, NEW r \in Requests, Link(r) PROVE Inv'
<1>0. /\ TypeOK /\ OneAccountPerTelegram /\ TrialOK /\ AccountsStayOpen /\ LocalOK(request[r])
  BY DEF Inv, RequestsOK
<1>1. PICK q \in RequestTypes : q = request[r]
  BY <1>0 DEF TypeOK
<1>2. q.user \in Users /\ q.tg \in Telegrams /\ q.dup \in Users \cup {None}
  BY <1>0, <1>1 DEF LocalOK, Carries, Link, At, Redeeming, RequestTypes
<1> DEFINE free == /\ q.dup # q.user /\ Alive(q.user)
                   /\ Holders(q.tg) \subseteq {q.dup, q.user}
<1>3. CASE ~free
  BY <1>0, <1>1, <1>3, RequestEnds DEF Link, End, Becomes, tables, history, TypeOK
<1>4. CASE free
  <2>1. /\ user' = [Without(q.dup) EXCEPT ![q.user].tg = q.tg]
        /\ keyOf' = KeysWithout(q.dup) /\ trial' = TrialsWithout(q.dup)
        /\ UNCHANGED <<granted, code, begun, dead, removals, redeems, hurried>>
        /\ End(r) /\ request' = [request EXCEPT ![r] = Idle]
    BY <1>1, <1>4 DEF Link, End, Becomes, history
  <2>2. None \notin Users /\ "absent" \notin Users /\ "gone" \notin Users /\ "unused" \notin Users
        /\ "nobody" \notin Users
    BY NamesAssumption DEF NoUser
  <2>3. /\ Without(q.dup) \in [Users -> Rows]
        /\ q.dup \in Users => Without(q.dup)[q.dup] = Gone
        /\ \A v \in Users \ {q.dup} : Without(q.dup)[v] = user[v]
    BY <1>0, <1>2, <2>2, RowTypes DEF Without, TypeOK
  <2>4. /\ user' \in [Users -> Rows]
        /\ q.dup \in Users => user'[q.dup] = Gone
        /\ \A v \in Users \ {q.dup, q.user} : user'[v] = user[v]
        /\ user'[q.user] = [user[q.user] EXCEPT !.tg = q.tg]
    BY <1>2, <1>4, <2>1, <2>3, <2>2 DEF Rows
  <2>5. /\ Alive(q.user) /\ user'[q.user].status = "alive"
        /\ user'[q.user].tg = q.tg /\ q.tg # None
        /\ user'[q.user].password = user[q.user].password
        /\ user'[q.user].address = user[q.user].address
        /\ user'[q.user].sub = user[q.user].sub
    BY <1>0, <1>2, <1>4, <2>4, NamesAssumption DEF Alive, TypeOK, Rows
  <2>6. ASSUME NEW v \in Users
        PROVE  \/ v = q.dup /\ user'[v] = Gone
               \/ v # q.dup /\ v # q.user /\ user'[v] = user[v]
               \/ /\ v # q.dup /\ v = q.user
                  /\ Alive(v) /\ user'[v].status = "alive" /\ user'[v].tg = q.tg
                  /\ user'[v].password = user[v].password
                  /\ user'[v].address = user[v].address /\ user'[v].sub = user[v].sub
    BY <2>4, <2>5
  <2>7. /\ \A k \in Keys : keyOf'[k] = IF keyOf[k] = q.dup THEN "gone" ELSE keyOf[k]
        /\ \A v \in Users \ {q.dup} : KeysOf(v)' = KeysOf(v)
    BY <2>1, <2>2 DEF KeysWithout, KeysOf
  <2>8. TypeOK'
    <3>1. keyOf' \in [Keys -> Users \cup {"absent", "gone"}]
      BY <1>0, <2>1 DEF KeysWithout, TypeOK
    <3>2. trial' \in [Telegrams -> Users \cup {"unused", "nobody"}]
      BY <1>0, <2>1 DEF TrialsWithout, TypeOK
    <3> QED
      BY <1>0, <2>1, <2>4, <3>1, <3>2, IdleOK DEF TypeOK
  <2> HIDE DEF free
  <2>9. ASSUME NEW o \in Requests \ {r}, NEW p \in RequestTypes, p = request[o], LocalOK(p)
        PROVE  RemovalOK(p)' /\ RedeemOK(p)' /\ SeenOK(p)'
    <3>1. /\ p.pc \in Removing \cup Redeeming => p.user \in Users
          /\ p.pc \in {"deleting", "deletable"} => p.item \in Keys
      BY <2>9 DEF LocalOK, Carries
    <3>2. RemovalOK(p)'
      <4>1. p.pc \in {"deleting", "deletable"} => keyOf'[p.item] \in {p.user, "gone"}
        BY <2>7, <2>9, <3>1 DEF LocalOK, RemovalOK
      <4>2. CASE p.user = q.dup
        <5>1. p.pc \in Removing => Lost(p.user)'
          BY <2>4, <3>1, <4>2, RowTypes DEF Lost
        <5> QED
          BY <4>1, <5>1 DEF RemovalOK
      <4>3. CASE p.user # q.dup
        <5>1. p.pc \in Removing => /\ Lost(p.user)' => Lost(p.user)
                                   /\ Lost(p.user) => Lost(p.user)'
                                   /\ user'[p.user].password = user[p.user].password
                                   /\ user[p.user].tg # None => user'[p.user].tg # None
          BY <1>2, <2>6, <3>1, <4>3, NamesAssumption DEF Lost, Alive
        <5>2. ASSUME p.pc = "deletable", NEW k \in Keys \ {p.item}, keyOf[k] = p.user
              PROVE  keyOf'[k] = p.user
          BY <2>7, <4>3, <5>2
        <5>3. p.pc = "unlinkable" => KeysOf(p.user)' = KeysOf(p.user)
          BY <2>7, <3>1, <4>3 DEF Removing
        <5> QED
          BY <2>1, <2>9, <4>1, <5>1, <5>2, <5>3 DEF LocalOK, RemovalOK, Removing
      <4> QED
        BY <4>2, <4>3
    <3>3. RedeemOK(p)'
      <4> SUFFICES ASSUME p.pc \in {"free", "found", "linking"}
                   PROVE  /\ user'[p.user].status # "unborn"
                          /\ p.user \notin redeems /\ ~Lost(p.user)' => user'[p.user].tg = None
        BY <2>1 DEF RedeemOK, Lost
      <4>1. p.user \in Users /\ p.pc \in Redeeming /\ q.pc \in Redeeming /\ q.pc = "linking"
        BY <1>1, <3>1 DEF Redeeming, Link, At
      <4>2. p.user \notin redeems => p.user # q.user
        BY <1>1, <2>9, <4>1 DEF Inv, MarksOK, Marked
      <4>3. RedeemOK(p)
        BY <2>9 DEF LocalOK
      <4>4. CASE p.user = q.dup
        BY <2>4, <4>1, <4>4, RowTypes DEF Lost
      <4>5. CASE p.user # q.dup /\ p.user = q.user
        BY <2>6, <4>1, <4>2, <4>5
      <4>6. CASE p.user # q.dup /\ p.user # q.user
        BY <2>6, <4>1, <4>3, <4>6 DEF RedeemOK, Lost
      <4> QED
        BY <4>4, <4>5, <4>6
    <3>4. SeenOK(p)'
      <4>1. CASE p.dup = q.dup
        BY <2>4, <4>1, RowTypes DEF SeenOK, Lost
      <4>2. CASE p.dup # q.dup
        <5>1. p.dup \in Users => /\ Lost(p.dup) => Lost(p.dup)'
                                 /\ user'[p.dup].password = user[p.dup].password
                                 /\ user'[p.dup].address = user[p.dup].address
                                 /\ KeysOf(p.dup)' = KeysOf(p.dup)
          BY <2>6, <2>7, <4>2 DEF Lost, Alive
        <5> QED
          BY <2>1, <2>9, <5>1 DEF LocalOK, SeenOK
      <4> QED
        BY <4>1, <4>2
    <3> QED
      BY <3>2, <3>3, <3>4
  <2>10. OneAccountPerTelegram'
    <3> SUFFICES ASSUME NEW t \in Telegrams, NEW u \in Users, NEW v \in Users,
                        Alive(u)', Alive(v)', user'[u].tg = t, user'[v].tg = t
                 PROVE  u = v
      BY DEF OneAccountPerTelegram, Holders
    <3>1. u # q.dup /\ v # q.dup
      BY <2>4, RowTypes DEF Alive
    <3>2. \A w \in {u, v} : w # q.user => Alive(w) /\ user[w].tg = t
      BY <2>6, <3>1 DEF Alive
    <3>3. \A w \in {u, v} : w = q.user => t = q.tg
      BY <2>6, <3>1
    <3>4. Holders(q.tg) \subseteq {q.dup, q.user}
      BY <1>4 DEF free
    <3>5. CASE u # q.user /\ v # q.user
      BY <1>0, <3>2, <3>5 DEF OneAccountPerTelegram, Holders
    <3>6. CASE u = q.user \/ v = q.user
      BY <3>1, <3>2, <3>3, <3>4, <3>6 DEF Holders
    <3> QED
      BY <3>5, <3>6
  <2>11. TrialOK'
    <3> SUFFICES ASSUME NEW t \in Telegrams
                 PROVE  /\ granted'[t] = IF trial'[t] = "unused" THEN 0 ELSE 1
                        /\ trial'[t] \in Users => /\ user'[trial'[t]].status = "alive"
                                                  /\ user'[trial'[t]].sub
      BY DEF TrialOK, Alive
    <3>1. trial'[t] = IF trial[t] = q.dup THEN "nobody" ELSE trial[t]
      BY <2>1 DEF TrialsWithout
    <3>2. q.dup # "unused"
      BY <1>2, <2>2 DEF None
    <3>3. /\ granted[t] = IF trial[t] = "unused" THEN 0 ELSE 1
          /\ trial[t] \in Users => Alive(trial[t]) /\ user[trial[t]].sub
      BY <1>0 DEF TrialOK
    <3>4. granted'[t] = IF trial'[t] = "unused" THEN 0 ELSE 1
      BY <2>1, <3>1, <3>2, <3>3
    <3>5. ASSUME trial'[t] \in Users
          PROVE  user'[trial'[t]].status = "alive" /\ user'[trial'[t]].sub
      <4>1. trial'[t] = trial[t] /\ trial[t] # q.dup
        BY <2>2, <3>1, <3>5
      <4> QED
        BY <2>6, <3>3, <3>5, <4>1 DEF Alive
    <3> QED
      BY <3>4, <3>5
  <2>12. AccountsStayOpen'
    <3> SUFFICES ASSUME NEW v \in Users, Alive(v)'
                 PROVE  Open(v)' \/ v \in removals' \/ (user'[v].password /\ ~user'[v].address)
      BY DEF AccountsStayOpen
    <3>1. v # q.dup
      BY <2>4, RowTypes DEF Alive
    <3>2. CASE v = q.user
      BY <1>2, <2>6, <3>1, <3>2, NamesAssumption DEF Open
    <3>3. CASE v # q.user
      <4>1. user'[v] = user[v] /\ KeysOf(v)' = KeysOf(v)
        BY <2>6, <2>7, <3>1, <3>3
      <4> QED
        BY <1>0, <2>1, <4>1 DEF AccountsStayOpen, Open, Alive
    <3> QED
      BY <3>2, <3>3
  <2> QED
    BY <2>1, <2>8, <2>9, <2>10, <2>11, <2>12, CommitMoves
<1> QED
  BY <1>3, <1>4

-----------------------------------------------------------------------------
(* Requests that begin or go on without a commit.                            *)

\* A request in a step that neither removes a method nor redeems a code, and
\* has no duplicate, has only its account, Telegram and key to carry.
LEMMA PlainOK ==
  ASSUME NEW q, q.pc \notin Removing, q.pc \notin Redeeming, q.dup \notin Users, Carries(q)
  PROVE  LocalOK(q)
  BY DEF LocalOK, RemovalOK, RedeemOK, SeenOK, Removing, Redeeming

LEMMA PlainMoves ==
  ASSUME Inv, NEW r \in Requests, NEW new \in RequestTypes, LocalOK(new),
         new.pc \notin Removing, new.pc \notin Redeeming,
         request' = [request EXCEPT ![r] = new], UNCHANGED <<tables, history>>,
         code' \in [Codes -> Users \cup {None, "browser", "spent"}],
         begun' \in 0 .. MaxBegun, dead' \in 0 .. MaxDead
  PROVE  Inv'
<1>1. Announces(r, new, Removing, removals) /\ Announces(r, new, Redeeming, redeems)
  BY DEF Announces
<1>2. removals \subseteq Users /\ redeems \subseteq Users
  BY DEF Inv, TypeOK
<1> QED
  BY <1>1, <1>2, RequestMoves DEF history

\* A visit that finds or misses the account of its Telegram.
LEMMA VisitedOK ==
  ASSUME Inv, NEW r, NEW t \in Telegrams, NEW c \in Links \cup {None},
         NEW new \in Visited(r, t, c)
  PROVE  /\ new \in RequestTypes /\ LocalOK(new)
         /\ new.pc \notin Removing /\ new.pc \notin Redeeming
<1> USE DEF Removing, Redeeming
<1>0. None \notin Users /\ None \notin Links
  BY NamesAssumption DEF Codes
<1>1. CASE new = Idle
  BY <1>1, IdleOK
<1>2. CASE new = [Idle EXCEPT !.pc = "unknown", !.tg = t, !.item = c]
  <2>1. new.pc = "unknown" /\ new.tg = t /\ new.dup = None /\ new \in RequestTypes
    BY <1>2, IdleOK DEF Idle, RequestTypes, Codes
  <2>2. Carries(new)
    BY <2>1 DEF Carries
  <2> QED
    BY <1>0, <2>1, <2>2, PlainOK
<1>3. ASSUME NEW u \in Holders(t), c \in Links,
             new = [Idle EXCEPT !.pc = "known", !.tg = t, !.item = c, !.dup = u,
                                !.seen = user[u]]
      PROVE  /\ new \in RequestTypes /\ LocalOK(new)
             /\ new.pc \notin Removing /\ new.pc \notin Redeeming
  <2>1. u \in Users /\ user[u] \in Rows
    BY EntryTypes DEF Inv, Holders
  <2>2. /\ new.pc = "known" /\ new.tg = t /\ new.item = c /\ new.dup = u
        /\ new.seen = user[u] /\ new \in RequestTypes
    BY <1>3, <2>1, IdleOK DEF Idle, RequestTypes, Codes
  <2>3. Carries(new)
    BY <1>3, <2>1, <2>2 DEF Carries
  <2>4. RemovalOK(new) /\ RedeemOK(new) /\ SeenOK(new)
    BY <2>2 DEF RemovalOK, RedeemOK, SeenOK
  <2> QED
    BY <2>2, <2>3, <2>4 DEF LocalOK
<1> QED
  BY <1>1, <1>2, <1>3 DEF Visited

\* The counters of a step that begins a request.
LEMMA BeginType ==
  ASSUME TypeOK, begun < MaxBegun, begun' = begun + 1
  PROVE  begun' \in 0 .. MaxBegun
  BY BoundsAssumption DEF TypeOK

LEMMA VisitKeeps == ASSUME Inv, NEW r \in Requests, Visit(r) PROVE Inv'
<1>0. TypeOK
  BY DEF Inv
<1>1. ASSUME NEW t \in Telegrams, NEW c \in Links \cup {None}, NEW new \in Visited(r, t, c),
             Begin(r, new), UNCHANGED <<tables, code, dead, history>>
      PROVE  Inv'
  BY <1>0, <1>1, VisitedOK, PlainMoves, BeginType DEF Begin, TypeOK
<1>2. CASE \E t \in Telegrams, c \in Links \cup {None} : Message(r, t, c)
  BY <1>1, <1>2 DEF Message
<1>3. CASE \E t \in Telegrams : MiniApp(r, t)
  BY <1>1, <1>3 DEF MiniApp
<1>4. ASSUME NEW t \in Telegrams, NEW s \in States, OidcCallback(r, t, s) PROVE Inv'
  <2> DEFINE new == [Idle EXCEPT !.pc = "returned", !.tg = t]
  <2>1. new.pc = "returned" /\ new.tg = t /\ new.dup = None /\ new \in RequestTypes
    BY IdleOK DEF Idle, RequestTypes
  <2>2. /\ new.pc \notin Removing /\ new.pc \notin Redeeming /\ new.dup \notin Users
        /\ Carries(new)
    BY <2>1, NamesAssumption DEF Carries, Removing, Redeeming
  <2>3. LocalOK(new)
    BY <2>2, PlainOK
  <2>4. code' \in [Codes -> Users \cup {None, "browser", "spent"}]
    BY <1>0, <1>4 DEF OidcCallback, TypeOK, Codes
  <2>5. /\ request' = [request EXCEPT ![r] = new] /\ UNCHANGED <<tables, dead, history>>
        /\ begun' \in 0 .. MaxBegun
    BY <1>0, <1>4, BeginType DEF OidcCallback, Begin
  <2> QED
    BY <1>0, <2>1, <2>2, <2>3, <2>4, <2>5, PlainMoves DEF TypeOK
<1>5. CASE OidcRefused(r)
  BY <1>0, <1>5, RequestEnds DEF OidcRefused, End, Becomes, TypeOK
<1>6. CASE OidcLogin(r)
  <2>1. request[r].tg \in Telegrams
    BY <1>6 DEF Inv, RequestsOK, LocalOK, Carries, OidcLogin, At
  <2>2. PICK t \in Telegrams : t = request[r].tg
    BY <2>1
  <2>3. PICK new \in Visited(r, t, None) : Becomes(r, new)
    BY <1>6, <2>2 DEF OidcLogin
  <2> QED
    BY <1>0, <1>6, <2>3, VisitedOK, PlainMoves DEF OidcLogin, Becomes, TypeOK
<1>7. CASE Create(r)
  BY <1>7, CreateKeeps
<1> QED
  BY <1>2, <1>3, <1>4, <1>5, <1>6, <1>7 DEF Visit

LEMMA RedeemKeeps == ASSUME Inv, NEW r \in Requests, Redeem(r) PROVE Inv'
<1>0. TypeOK /\ LocalOK(request[r]) /\ removals \subseteq Users /\ redeems \subseteq Users
  BY DEF Inv, RequestsOK, TypeOK
<1>1. PICK q \in RequestTypes : q = request[r]
  BY <1>0 DEF TypeOK
<1>2. LocalOK(q)
  BY <1>0, <1>1
<1>3. ASSUME NEW new \in RequestTypes, Becomes(r, new), LocalOK(new), UNCHANGED <<tables, history>>,
             code' \in [Codes -> Users \cup {None, "browser", "spent"}], UNCHANGED <<begun, dead>>,
             q.pc \in Redeeming, new.pc \in Redeeming, new.user = q.user
      PROVE  Inv'
  <2>1. Announces(r, new, Removing, removals) /\ Announces(r, new, Redeeming, redeems)
    BY <1>1, <1>3 DEF Announces, Removing, Redeeming
  <2> QED
    BY <1>0, <1>3, <2>1, RequestMoves DEF Becomes, history, TypeOK
<1>4. CASE End(r) /\ UNCHANGED <<tables, code, begun, dead, history>>
  BY <1>0, <1>4, RequestEnds DEF End, Becomes, TypeOK
<1>5. CASE TakeCode(r)
  <2>1. q.pc = "known" /\ q.item \in Links /\ q.dup \in Users /\ q.tg \in Telegrams
    BY <1>1, <1>2, <1>5 DEF TakeCode, At, LocalOK, Carries
  <2>2. PICK u : u = code[q.item]
    OBVIOUS
  <2>3. CASE u \notin Users
    <3>1. End(r) /\ UNCHANGED <<tables, code, begun, dead, history>>
      BY <1>1, <1>5, <2>2, <2>3 DEF TakeCode, history
    <3> QED
      BY <1>4, <3>1
  <2>4. CASE u \in Users
    <3>1. PICK new \in RequestTypes : new = [q EXCEPT !.pc = "taken", !.user = u]
      BY <2>4 DEF RequestTypes, Redeeming
    <3>2. /\ Becomes(r, new) /\ code' = [code EXCEPT ![q.item] = "spent"]
          /\ redeems' = IF Others(r, u, Redeeming) THEN redeems \cup {u} ELSE redeems
          /\ UNCHANGED <<tables, begun, dead, removals, hurried>>
      BY <1>1, <1>5, <2>2, <2>4, <3>1 DEF TakeCode
    <3>3. /\ new.pc = "taken" /\ new.user = u /\ new.tg = q.tg /\ new.item = q.item
          /\ new.dup = q.dup /\ new.own = q.own /\ new.seen = q.seen
      BY <3>1 DEF RequestTypes
    <3>4. Carries(new)
      BY <2>1, <2>4, <3>3 DEF Carries, Redeeming, Removing
    <3>5. RemovalOK(new) /\ RedeemOK(new)
      BY <3>3 DEF RemovalOK, RedeemOK, Removing
    <3>6. SeenOK(new)
      BY <1>2, <2>1, <3>3 DEF SeenOK, LocalOK
    <3>7. Announces(r, new, Removing, removals) /\ Announces(r, new, Redeeming, redeems')
      BY <3>2, <3>3 DEF Announces, Removing
    <3>8. code' \in [Codes -> Users \cup {None, "browser", "spent"}]
      BY <1>0, <3>2 DEF TypeOK
    <3>9. LocalOK(new) /\ redeems \subseteq redeems' /\ redeems' \subseteq Users
      BY <1>0, <2>4, <3>2, <3>4, <3>5, <3>6 DEF LocalOK
    <3> QED
      BY <1>0, <3>2, <3>7, <3>8, <3>9, RequestMoves DEF Becomes, TypeOK
  <2> QED
    BY <2>3, <2>4
<1>6. CASE LoadTarget(r)
  <2>1. q.pc = "taken" /\ q.user \in Users /\ q.dup \in Users /\ q.tg \in Telegrams
    BY <1>1, <1>2, <1>6 DEF LoadTarget, At, LocalOK, Carries, Redeeming
  <2>2. CASE ~(q.user # q.dup /\ Alive(q.user) /\ user[q.user].tg # q.tg /\ MayTake(user[q.user]))
    BY <1>1, <1>4, <1>6, <2>2 DEF LoadTarget
  <2>3. CASE q.user # q.dup /\ Alive(q.user) /\ user[q.user].tg # q.tg /\ MayTake(user[q.user])
    <3>1. PICK new \in RequestTypes : new = [q EXCEPT !.pc = "free", !.own = user[q.user]]
      BY <1>0, <2>1, EntryTypes DEF RequestTypes, Redeeming
    <3>2. Becomes(r, new) /\ UNCHANGED <<tables, code, begun, dead, history>>
      BY <1>1, <1>6, <2>3, <3>1 DEF LoadTarget
    <3>3. /\ new.pc = "free" /\ new.user = q.user /\ new.tg = q.tg /\ new.item = q.item
          /\ new.dup = q.dup /\ new.seen = q.seen
      BY <3>1 DEF RequestTypes
    <3>4. Carries(new)
      BY <2>1, <3>3 DEF Carries, Redeeming, Removing
    <3>5. RemovalOK(new) /\ RedeemOK(new)
      BY <2>3, <3>3 DEF RemovalOK, RedeemOK, Removing, MayTake, Alive
    <3>6. SeenOK(new)
      BY <1>2, <2>1, <3>3 DEF SeenOK, LocalOK
    <3> QED
      BY <1>0, <1>3, <2>1, <3>2, <3>3, <3>4, <3>5, <3>6 DEF LocalOK, TypeOK, Redeeming
  <2> QED
    BY <2>2, <2>3
<1>7. CASE FindDuplicate(r)
  <2>1. q.pc = "free" /\ q.user \in Users /\ q.dup \in Users /\ q.tg \in Telegrams
    BY <1>1, <1>2, <1>7 DEF FindDuplicate, At, LocalOK, Carries, Redeeming
  <2>2. UNCHANGED <<tables, code, begun, dead, history>> /\ None \notin Users
    BY <1>7, NamesAssumption DEF FindDuplicate
  <2>3. CASE Becomes(r, [q EXCEPT !.pc = "linking", !.dup = None])
    <3>1. PICK new \in RequestTypes : new = [q EXCEPT !.pc = "linking", !.dup = None]
      BY DEF RequestTypes, Redeeming
    <3>2. new.pc = "linking" /\ new.user = q.user /\ new.tg = q.tg /\ new.dup = None
      BY <3>1 DEF RequestTypes
    <3>3. Carries(new)
      BY <2>1, <3>2 DEF Carries, Redeeming, Removing
    <3>4. RemovalOK(new) /\ RedeemOK(new) /\ SeenOK(new)
      BY <1>2, <2>1, <2>2, <3>2 DEF RemovalOK, RedeemOK, SeenOK, LocalOK, Removing
    <3> QED
      BY <1>0, <1>3, <2>1, <2>2, <2>3, <3>1, <3>2, <3>3, <3>4 DEF LocalOK, TypeOK, Redeeming
  <2>4. ASSUME NEW u \in Holders(q.tg), NEW seen,
               seen = CASE u = q.dup  -> q.seen
                        [] u = q.user -> q.own
                        [] OTHER      -> user[u],
               Becomes(r, [q EXCEPT !.pc = "found", !.dup = u, !.seen = seen])
        PROVE  Inv'
    <3>1. u \in Users /\ Alive(u) /\ user[u].tg = q.tg /\ q.tg # None /\ user[u] \in Rows
      BY <1>0, <2>1, NamesAssumption, EntryTypes DEF Holders
    <3>2. seen \in Rows /\ (u # q.user => seen = IF u = q.dup THEN q.seen ELSE user[u])
      BY <2>4, <3>1 DEF RequestTypes
    <3>3. PICK new \in RequestTypes : new = [q EXCEPT !.pc = "found", !.dup = u, !.seen = seen]
      BY <3>1, <3>2 DEF RequestTypes, Redeeming
    <3>4. /\ new.pc = "found" /\ new.user = q.user /\ new.tg = q.tg /\ new.dup = u
          /\ new.seen = seen
      BY <3>3 DEF RequestTypes
    <3>5. Carries(new)
      BY <2>1, <3>1, <3>4 DEF Carries, Redeeming, Removing
    <3>6. RemovalOK(new) /\ RedeemOK(new)
      BY <1>2, <2>1, <3>4 DEF RemovalOK, RedeemOK, LocalOK, Removing
    <3>7. u = q.user => u \in redeems
      BY <1>2, <2>1, <3>1 DEF LocalOK, RedeemOK, Lost, Alive
    <3>8. SeenOK(new)
      BY <1>2, <2>1, <3>2, <3>4, <3>7 DEF SeenOK, LocalOK
    <3> QED
      BY <1>0, <1>3, <2>1, <2>2, <2>4, <3>3, <3>4, <3>5, <3>6, <3>8
      DEF LocalOK, TypeOK, Redeeming
  <2> QED
    BY <1>1, <1>7, <2>3, <2>4 DEF FindDuplicate
<1>8. CASE CheckDuplicate(r)
  <2>1. q.pc = "found" /\ q.user \in Users /\ q.dup \in Users /\ q.tg \in Telegrams
    BY <1>1, <1>2, <1>8 DEF CheckDuplicate, At, LocalOK, Carries, Redeeming
  <2>2. CASE HasOwnDoor(q.seen, KeysOf(q.dup))
    BY <1>1, <1>4, <1>8, <2>2 DEF CheckDuplicate
  <2>3. CASE ~HasOwnDoor(q.seen, KeysOf(q.dup))
    <3>1. PICK new \in RequestTypes : new = [q EXCEPT !.pc = "linking"]
      BY DEF RequestTypes, Redeeming
    <3>2. Becomes(r, new) /\ UNCHANGED <<tables, code, begun, dead, history>>
      BY <1>1, <1>8, <2>3, <3>1 DEF CheckDuplicate
    <3>3. new.pc = "linking" /\ new.user = q.user /\ new.tg = q.tg /\ new.dup = q.dup
      BY <3>1 DEF RequestTypes
    <3>4. Carries(new)
      BY <2>1, <3>3 DEF Carries, Redeeming, Removing
    <3>5. RemovalOK(new) /\ RedeemOK(new)
      BY <1>2, <2>1, <3>3 DEF RemovalOK, RedeemOK, LocalOK, Removing
    <3>6. SeenOK(new)
      BY <1>2, <2>1, <2>3, <3>3 DEF SeenOK, LocalOK, HasOwnDoor
    <3> QED
      BY <1>0, <1>3, <2>1, <3>2, <3>3, <3>4, <3>5, <3>6 DEF LocalOK, TypeOK, Redeeming
  <2> QED
    BY <2>2, <2>3
<1>9. CASE Link(r)
  BY <1>9, LinkKeeps
<1> QED
  BY <1>5, <1>6, <1>7, <1>8, <1>9 DEF Redeem

\* A set with more than one member has one beside any given one.
LEMMA AnotherKey ==
  ASSUME NEW S \in SUBSET Keys, NEW k \in Keys, Cardinality(S) > 1
  PROVE  \E o \in Keys \ {k} : o \in S
<1> SUFFICES ASSUME S \subseteq {k} PROVE FALSE
  OBVIOUS
<1>1. IsFiniteSet({k}) /\ Cardinality({k}) = 1
  BY FS_Singleton
<1>2. IsFiniteSet(S) /\ Cardinality(S) <= 1
  BY <1>1, FS_Subset
<1>3. Cardinality(S) \in Nat
  BY <1>2, FS_CardinalityType
<1> QED
  BY <1>2, <1>3

LEMMA RemoveKeeps == ASSUME Inv, NEW r \in Requests, Remove(r) PROVE Inv'
<1>0. TypeOK /\ LocalOK(request[r]) /\ removals \subseteq Users /\ redeems \subseteq Users
  BY DEF Inv, RequestsOK, TypeOK
<1>1. PICK q \in RequestTypes : q = request[r]
  BY <1>0 DEF TypeOK
<1>2. LocalOK(q)
  BY <1>0, <1>1
<1>3. CASE End(r) /\ UNCHANGED <<tables, code, begun, dead, history>>
  BY <1>0, <1>3, RequestEnds DEF End, Becomes, TypeOK
<1>4. ASSUME NEW u \in Users, NEW new \in RequestTypes, Removes(r, u, new), LocalOK(new),
             new.pc \in Removing, new.user = u
      PROVE  Inv'
  <2>1. /\ request' = [request EXCEPT ![r] = new] /\ begun' \in 0 .. MaxBegun
        /\ removals' = IF Others(r, u, Removing) THEN removals \cup {u} ELSE removals
        /\ UNCHANGED <<tables, code, dead, redeems, hurried>>
    BY <1>0, <1>4, BeginType DEF Removes, Begin
  <2>2. Announces(r, new, Removing, removals') /\ Announces(r, new, Redeeming, redeems)
    BY <1>4, <2>1 DEF Announces, Removing, Redeeming
  <2> QED
    BY <1>0, <1>4, <2>1, <2>2, RequestMoves DEF TypeOK
<1>5. ASSUME NEW new \in RequestTypes, Becomes(r, new), LocalOK(new), q.pc \in Removing,
             new.pc \in Removing, new.user = q.user, UNCHANGED <<tables, code, begun, dead, history>>
      PROVE  Inv'
  <2>1. Announces(r, new, Removing, removals) /\ Announces(r, new, Redeeming, redeems)
    BY <1>1, <1>5 DEF Announces, Removing, Redeeming
  <2> QED
    BY <1>0, <1>5, <2>1, RequestMoves DEF Becomes, history, TypeOK
<1>6. ASSUME NEW u \in Users, Unlink(r, u) PROVE Inv'
  <2>1. PICK new \in RequestTypes :
           new = [Idle EXCEPT !.pc = "unlinking", !.user = u, !.own = user[u]]
    BY <1>0, EntryTypes, IdleOK DEF Idle, RequestTypes, Removing
  <2>2. new.pc = "unlinking" /\ new.user = u /\ new.own = user[u] /\ new.dup = None
    BY <2>1 DEF Idle
  <2>3. Carries(new)
    BY <2>2 DEF Carries, Removing, Redeeming
  <2>4. RemovalOK(new) /\ RedeemOK(new) /\ SeenOK(new)
    BY <2>2, NamesAssumption DEF RemovalOK, RedeemOK, SeenOK, Removing
  <2> QED
    BY <1>4, <1>6, <2>1, <2>2, <2>3, <2>4 DEF Unlink, LocalOK, Removing
<1>7. CASE UnlinkCounts(r)
  <2>1. q.pc = "unlinking" /\ q.user \in Users
    BY <1>1, <1>2, <1>7 DEF UnlinkCounts, At, LocalOK, Carries, Removing
  <2>2. CASE ~CanUnlink(q.own, KeysOf(q.user), "telegram")
    BY <1>1, <1>3, <1>7, <2>2 DEF UnlinkCounts
  <2>3. CASE CanUnlink(q.own, KeysOf(q.user), "telegram")
    <3>1. PICK new \in RequestTypes : new = [q EXCEPT !.pc = "unlinkable"]
      BY DEF RequestTypes, Removing
    <3>2. Becomes(r, new) /\ UNCHANGED <<tables, code, begun, dead, history>>
      BY <1>1, <1>7, <2>3, <3>1 DEF UnlinkCounts
    <3>3. new.pc = "unlinkable" /\ new.user = q.user /\ new.own = q.own /\ new.dup = q.dup
      BY <3>1 DEF RequestTypes
    <3>4. q.own.password \/ KeysOf(q.user) # {}
      <4>1. Cardinality({}) = 0
        BY FS_EmptySet
      <4> QED
        BY <2>3, <4>1 DEF CanUnlink, Remains
    <3>5. Carries(new)
      BY <2>1, <3>3 DEF Carries, Removing, Redeeming
    <3>6. RemovalOK(new)
      BY <1>2, <2>1, <3>3, <3>4 DEF RemovalOK, LocalOK, Removing
    <3>7. RedeemOK(new) /\ SeenOK(new)
      BY <3>3 DEF RedeemOK, SeenOK
    <3> QED
      BY <1>5, <2>1, <3>2, <3>3, <3>5, <3>6, <3>7 DEF LocalOK, Removing
  <2> QED
    BY <2>2, <2>3
<1>8. CASE UnlinkCommits(r)
  BY <1>8, UnlinkKeeps
<1>9. ASSUME NEW k \in Keys, DeleteKey(r, k) PROVE Inv'
  <2>1. PICK u \in Users : u = keyOf[k]
    BY <1>9 DEF DeleteKey
  <2>2. PICK new \in RequestTypes :
           new = [Idle EXCEPT !.pc = "deleting", !.user = u, !.item = k, !.own = user[u]]
    BY <1>0, EntryTypes, IdleOK DEF Idle, RequestTypes, Removing
  <2>3. /\ new.pc = "deleting" /\ new.user = u /\ new.item = k /\ new.own = user[u]
        /\ new.dup = None
    BY <2>2 DEF Idle
  <2>4. Carries(new)
    BY <2>3 DEF Carries, Removing, Redeeming
  <2>5. RemovalOK(new) /\ RedeemOK(new) /\ SeenOK(new)
    BY <2>1, <2>3, NamesAssumption DEF RemovalOK, RedeemOK, SeenOK, Removing
  <2> QED
    BY <1>4, <1>9, <2>1, <2>2, <2>3, <2>4, <2>5 DEF DeleteKey, LocalOK, Removing
<1>10. CASE DeleteKeyCounts(r)
  <2>1. q.pc = "deleting" /\ q.user \in Users /\ q.item \in Keys
    BY <1>1, <1>2, <1>10 DEF DeleteKeyCounts, At, LocalOK, Carries, Removing
  <2>2. CASE ~CanUnlink(q.own, KeysOf(q.user), "passkey")
    BY <1>1, <1>3, <1>10, <2>2 DEF DeleteKeyCounts
  <2>3. CASE CanUnlink(q.own, KeysOf(q.user), "passkey")
    <3>1. PICK new \in RequestTypes : new = [q EXCEPT !.pc = "deletable"]
      BY DEF RequestTypes, Removing
    <3>2. Becomes(r, new) /\ UNCHANGED <<tables, code, begun, dead, history>>
      BY <1>1, <1>10, <2>3, <3>1 DEF DeleteKeyCounts
    <3>3. /\ new.pc = "deletable" /\ new.user = q.user /\ new.item = q.item
          /\ new.own = q.own /\ new.dup = q.dup
      BY <3>1 DEF RequestTypes
    <3>4. \/ q.own.password \/ q.own.tg # None
          \/ \E k \in Keys \ {q.item} : keyOf[k] = q.user
      <4>1. Cardinality(KeysOf(q.user)) > 1 => \E k \in Keys \ {q.item} : k \in KeysOf(q.user)
        BY <2>1, AnotherKey DEF KeysOf
      <4> QED
        BY <2>3, <4>1 DEF CanUnlink, Remains, KeysOf
    <3>5. Carries(new)
      BY <2>1, <3>3 DEF Carries, Removing, Redeeming
    <3>6. RemovalOK(new)
      BY <1>2, <2>1, <3>3, <3>4 DEF RemovalOK, LocalOK, Removing
    <3>7. RedeemOK(new) /\ SeenOK(new)
      BY <3>3 DEF RedeemOK, SeenOK
    <3> QED
      BY <1>5, <2>1, <3>2, <3>3, <3>5, <3>6, <3>7 DEF LocalOK, Removing
  <2> QED
    BY <2>2, <2>3
<1>11. CASE DeleteKeyCommits(r)
  BY <1>11, DeleteKeyKeeps
<1> QED
  BY <1>6, <1>7, <1>8, <1>9, <1>10, <1>11 DEF Remove

LEMMA GainKeeps == ASSUME Inv, NEW r \in Requests, Gain(r) PROVE Inv'
<1>0. TypeOK /\ LocalOK(request[r])
  BY DEF Inv, RequestsOK
<1>1. CASE End(r) /\ UNCHANGED <<tables, code, begun, dead, history>>
  BY <1>0, <1>1, RequestEnds DEF End, Becomes, TypeOK
<1>2. ASSUME NEW new \in RequestTypes, Begin(r, new), UNCHANGED <<tables, dead, history>>,
             code' \in [Codes -> Users \cup {None, "browser", "spent"}],
             new.pc \in {"registering", "password", "address", "entitled"},
             new.dup = None, Carries(new)
      PROVE  Inv'
  <2>1. new.pc \notin Removing /\ new.pc \notin Redeeming /\ new.dup \notin Users
    BY <1>2, NamesAssumption DEF Removing, Redeeming
  <2> QED
    BY <1>0, <1>2, <2>1, PlainOK, PlainMoves, BeginType DEF Begin, TypeOK
<1>3. ASSUME NEW u \in Users, NEW c \in Challenges, NEW k \in Keys, RegisterKey(r, u, c, k)
      PROVE  Inv'
  <2>1. code' \in [Codes -> Users \cup {None, "browser", "spent"}]
    BY <1>0, <1>3 DEF RegisterKey, TypeOK, Codes
  <2>2. CASE code[c] = u /\ keyOf[k] = "absent"
    <3>1. PICK new \in RequestTypes :
             new = [Idle EXCEPT !.pc = "registering", !.user = u, !.item = k]
      BY IdleOK DEF Idle, RequestTypes
    <3>2. new.pc = "registering" /\ new.user = u /\ new.item = k /\ new.dup = None
      BY <3>1 DEF Idle
    <3>3. Carries(new)
      BY <3>2 DEF Carries, Removing, Redeeming
    <3> QED
      BY <1>2, <1>3, <2>1, <2>2, <3>1, <3>2, <3>3 DEF RegisterKey
  <2>3. CASE ~(code[c] = u /\ keyOf[k] = "absent")
    BY <1>0, <1>3, <2>1, <2>3, RequestEnds, BeginType DEF RegisterKey, Begin, TypeOK
  <2> QED
    BY <2>2, <2>3
<1>4. ASSUME NEW u \in Users, NEW pc \in {"password", "address"}, ChangeRow(r, u, pc)
      PROVE  Inv'
  <2>1. PICK new \in RequestTypes : new = [Idle EXCEPT !.pc = pc, !.user = u]
    BY IdleOK DEF Idle, RequestTypes
  <2>2. new.pc = pc /\ new.user = u /\ new.dup = None
    BY <2>1 DEF Idle
  <2>3. Carries(new)
    BY <2>2 DEF Carries, Removing, Redeeming
  <2> QED
    BY <1>0, <1>2, <1>4, <2>1, <2>2, <2>3 DEF ChangeRow, TypeOK
<1>5. ASSUME NEW u \in Users, Trial(r, u) PROVE Inv'
  <2>1. user[u].tg \in Telegrams
    BY <1>0, <1>5, EntryTypes DEF Trial
  <2>2. PICK new \in RequestTypes :
           new = [Idle EXCEPT !.pc = "entitled", !.user = u, !.tg = user[u].tg]
    BY <2>1, IdleOK DEF Idle, RequestTypes
  <2>3. new.pc = "entitled" /\ new.user = u /\ new.tg = user[u].tg /\ new.dup = None
    BY <2>2 DEF Idle
  <2>4. Carries(new)
    BY <2>1, <2>3 DEF Carries, Removing, Redeeming
  <2> QED
    BY <1>0, <1>2, <1>5, <2>2, <2>3, <2>4 DEF Trial, TypeOK
<1>6. CASE TrialChecks(r)
  <2>1. PICK q \in RequestTypes : q = request[r]
    BY <1>0 DEF TypeOK
  <2>2. q.pc = "entitled" /\ q.user \in Users /\ q.tg \in Telegrams
    BY <1>0, <1>6, <2>1 DEF TrialChecks, At, LocalOK, Carries
  <2>3. CASE user[q.user].sub \/ trial[q.tg] # "unused"
    BY <1>1, <1>6, <2>1, <2>3 DEF TrialChecks
  <2>4. CASE ~(user[q.user].sub \/ trial[q.tg] # "unused")
    <3>1. PICK new \in RequestTypes : new = [q EXCEPT !.pc = "granting"]
      BY DEF RequestTypes
    <3>2. /\ request' = [request EXCEPT ![r] = new]
          /\ UNCHANGED <<tables, code, begun, dead, history>>
      BY <1>6, <2>1, <2>4, <3>1 DEF TrialChecks, Becomes
    <3>3. new.pc = "granting" /\ new.user = q.user /\ new.tg = q.tg /\ new.dup = q.dup
      BY <3>1 DEF RequestTypes
    <3>4. new.pc \notin Removing /\ new.pc \notin Redeeming
      BY <3>3 DEF Removing, Redeeming
    <3>5. LocalOK(new)
      BY <2>2, <3>3 DEF LocalOK, Carries, RemovalOK, RedeemOK, SeenOK, Removing, Redeeming
    <3> QED
      BY <1>0, <3>2, <3>4, <3>5, PlainMoves DEF TypeOK
  <2> QED
    BY <2>3, <2>4
<1> QED
  BY <1>3, <1>4, <1>5, <1>6, RegisterKeyKeeps, SetPasswordKeeps, ConfirmAddressKeeps, TrialKeeps
  DEF Gain, SetPassword, ConfirmAddress

LEMMA NextInv == Inv /\ [Next]_vars => Inv'
<1> SUFFICES ASSUME Inv, [Next]_vars PROVE Inv'
  OBVIOUS
<1>0. TypeOK
  BY DEF Inv
<1>1. ASSUME NEW r \in Requests, Dies(r) PROVE Inv'
  <2>1. dead' \in 0 .. MaxDead /\ begun' \in 0 .. MaxBegun
    BY <1>0, <1>1, BoundsAssumption DEF Dies, TypeOK
  <2>2. /\ request' = [request EXCEPT ![r] = Idle] /\ UNCHANGED <<tables, history>>
        /\ code' \in [Codes -> Users \cup {None, "browser", "spent"}]
    BY <1>0, <1>1 DEF Dies, End, Becomes, TypeOK
  <2> QED
    BY <2>1, <2>2, RequestEnds
<1>2. ASSUME NEW c \in Links, NEW u \in Users, IssueCode(c, u) PROVE Inv'
  BY <1>0, <1>2, CodesMove, BeginType DEF IssueCode, TypeOK, Codes
<1>3. ASSUME NEW c \in Challenges, NEW u \in Users, KeyOptions(c, u) PROVE Inv'
  BY <1>0, <1>3, CodesMove, BeginType DEF KeyOptions, TypeOK, Codes
<1>4. ASSUME NEW s \in States, OidcStart(s) PROVE Inv'
  BY <1>0, <1>4, CodesMove DEF OidcStart, TypeOK, Codes
<1>5. ASSUME NEW c \in Codes, CodeExpires(c) PROVE Inv'
  BY <1>0, <1>5, CodesMove DEF CodeExpires, TypeOK, Codes
<1>6. CASE UNCHANGED vars
  BY <1>0, <1>6, CodesMove DEF vars, TypeOK
<1> QED
  BY <1>1, <1>2, <1>3, <1>4, <1>5, <1>6, VisitKeeps, RedeemKeeps, RemoveKeeps, GainKeeps DEF Next

LEMMA InitInv == Init => Inv
<1> SUFFICES ASSUME Init PROVE Inv
  OBVIOUS
<1>1. PICK came \in [Visitors -> Telegrams], trials \in SUBSET Visitors :
         /\ \A u, v \in Visitors : came[u] = came[v] => u = v
         /\ user = [u \in Users |->
                IF u \in Registered THEN ByLetter
                ELSE IF u \in Visitors
                THEN [ByTelegram(came[u]) EXCEPT !.sub = u \in trials]
                ELSE Unborn]
         /\ trial = [t \in Telegrams |->
                IF \E u \in trials : came[u] = t THEN CHOOSE u \in trials : came[u] = t
                ELSE "unused"]
         /\ granted = [t \in Telegrams |-> IF trial[t] = "unused" THEN 0 ELSE 1]
         /\ keyOf \in [Keys -> Registered \cup Visitors \cup {"absent"}]
         /\ code = [c \in Codes |-> None]
         /\ request = [r \in Requests |-> Idle]
         /\ begun = 0 /\ dead = 0
         /\ removals = {} /\ redeems = {} /\ hurried = {}
  BY DEF Init
<1>2. \A u \in Visitors : /\ u \in Users /\ u \notin Registered /\ came[u] \in Telegrams
                          /\ user[u] = [ByTelegram(came[u]) EXCEPT !.sub = u \in trials]
  BY <1>1, PopulationAssumption
<1>3. \A u \in Visitors : /\ user[u] \in Rows /\ user[u].status = "alive"
                          /\ user[u].tg = came[u] /\ came[u] # None
                          /\ (u \in trials => user[u].sub)
  <2> SUFFICES ASSUME NEW u \in Visitors
               PROVE  /\ user[u] \in Rows /\ user[u].status = "alive"
                      /\ user[u].tg = came[u] /\ came[u] # None
                      /\ (u \in trials => user[u].sub)
    OBVIOUS
  <2>1. PICK row \in Rows : row = ByTelegram(came[u])
    BY RowTypes
  <2>2. row.status = "alive" /\ row.tg = came[u] /\ came[u] # None
    BY <2>1, RowTypes, NamesAssumption
  <2>3. user[u] = [row EXCEPT !.sub = u \in trials]
    BY <1>2, <2>1
  <2>4. CASE u \in trials
    <3>0. (u \in trials) = TRUE
      BY <2>4
    <3>1. user[u] = [row EXCEPT !.sub = TRUE]
      BY <2>3, <3>0
    <3> QED
      BY <2>2, <3>1 DEF Rows
  <2>5. CASE u \notin trials
    <3>0. (u \in trials) = FALSE
      BY <2>5
    <3>1. user[u] = [row EXCEPT !.sub = FALSE]
      BY <2>3, <3>0
    <3> QED
      BY <2>2, <2>5, <3>1 DEF Rows
  <2> QED
    BY <2>4, <2>5
<1>4. \A u \in Users : u \notin Visitors => user[u] = IF u \in Registered THEN ByLetter ELSE Unborn
  BY <1>1
<1>5. \A t \in Telegrams :
         \/ trial[t] = "unused" /\ ~\E u \in trials : came[u] = t
         \/ trial[t] \in trials /\ came[trial[t]] = t
  BY <1>1
<1>6. TypeOK
  <2>1. user \in [Users -> Rows]
    BY <1>1, <1>3, <1>4, RowTypes
  <2>2. trial \in [Telegrams -> Users \cup {"unused", "nobody"}]
    BY <1>1, <1>2, <1>5
  <2>3. keyOf \in [Keys -> Users \cup {"absent", "gone"}]
    BY <1>1, PopulationAssumption
  <2>4. granted \in [Telegrams -> Nat] /\ code \in [Codes -> Users \cup {None, "browser", "spent"}]
    BY <1>1
  <2> QED
    BY <1>1, <2>1, <2>2, <2>3, <2>4, IdleOK, BoundsAssumption DEF TypeOK
<1>7. RequestsOK /\ MarksOK
  <2>1. \A r \in Requests : request[r] = Idle
    BY <1>1
  <2> QED
    BY <2>1, IdleOK DEF RequestsOK, MarksOK, Marked, Removing, Redeeming
<1>8. OneAccountPerTelegram
  <2>1. \A u \in Users : user[u].tg # None => u \in Visitors /\ user[u].tg = came[u]
    BY <1>3, <1>4, RowTypes
  <2> QED
    BY <1>1, <2>1, NamesAssumption DEF OneAccountPerTelegram, Holders
<1>9. TrialOK
  <2>1. \A t \in Telegrams : granted[t] = IF trial[t] = "unused" THEN 0 ELSE 1
    BY <1>1
  <2>2. \A t \in Telegrams : trial[t] \in Users => trial[t] \in trials
    BY <1>5, NamesAssumption DEF NoUser
  <2>3. \A u \in trials : user[u].status = "alive" /\ user[u].sub
    BY <1>3
  <2> QED
    BY <2>1, <2>2, <2>3 DEF TrialOK, Alive
<1>10. AccountsStayOpen
  BY <1>3, <1>4, RowTypes DEF AccountsStayOpen, Open, Alive
<1> QED
  BY <1>6, <1>7, <1>8, <1>9, <1>10 DEF Inv

-----------------------------------------------------------------------------
\* Requests carry what they have read, marks are made, and the tables fit
\* together in every reachable state.
THEOREM Invariance == Spec => []Inv
<1>1. Init => Inv
  BY InitInv
<1>2. Inv /\ [Next]_vars => Inv'
  BY NextInv
<1> QED
  BY <1>1, <1>2, PTL DEF Spec

\* Every variable keeps its type.
THEOREM TypeCorrect == Spec => []TypeOK
<1>1. Inv => TypeOK
  BY DEF Inv
<1> QED
  BY <1>1, Invariance, PTL

\* One Telegram opens one account, whatever visits, links and absorptions cross.
THEOREM TelegramOpensOne == Spec => []OneAccountPerTelegram
<1>1. Inv => OneAccountPerTelegram
  BY DEF Inv
<1> QED
  BY <1>1, Invariance, PTL

\* A Telegram gets one trial, also when its account is absorbed and made anew.
THEOREM OneTrialEach == Spec => []TrialOnce
<1>1. Inv => TrialOnce
  BY DEF Inv, TrialOK, TrialOnce
<1> QED
  BY <1>1, Invariance, PTL

\* Nobody is locked out by what is removed, linked or absorbed, but for the two
\* ways the code has: two removals of one account that cross, and a password
\* without an address, which is counted although it opens nothing.
THEOREM NobodyIsLockedOut == Spec => []AccountsStayOpen
<1>1. Inv => AccountsStayOpen
  BY DEF Inv
<1> QED
  BY <1>1, Invariance, PTL

\* What a step may take from an account: nothing in a link but a duplicate that
\* had no method of its own, and no Telegram for another.
LEMMA StepTakesNothing ==
  ASSUME Inv, [Next]_vars, NEW u \in Users, Alive(u)
  PROVE  /\ user'[u] = Gone =>
               \/ ~user[u].password /\ ~user[u].address /\ KeysOf(u) = {}
               \/ u \in hurried \cup redeems
         /\ user[u].tg # None => user'[u].tg \in {user[u].tg, None} \/ u \in redeems
<1>0. TypeOK /\ user[u] \in Rows /\ user[u].status = "alive" /\ Gone.status = "gone"
  BY EntryTypes, RowTypes DEF Inv, Alive
<1>1. ASSUME user'[u].status = user[u].status, user'[u].tg \in {user[u].tg, None}
      PROVE  /\ user'[u] # Gone /\ user'[u].tg \in {user[u].tg, None}
  BY <1>0, <1>1
<1>2. ASSUME NEW v \in Users, NEW row \in Rows, user' = [user EXCEPT ![v] = row],
             row.status = user[v].status \/ v # u, row.tg \in {user[v].tg, None} \/ v # u
      PROVE  user'[u].status = user[u].status /\ user'[u].tg \in {user[u].tg, None}
  BY <1>0, <1>2 DEF TypeOK
<1>3. CASE UNCHANGED user
  BY <1>0, <1>3
<1>4. ASSUME NEW r \in Requests, Visit(r), user' # user
      PROVE  user'[u] # Gone /\ user'[u].tg \in {user[u].tg, None}
  <2>1. Create(r)
    BY <1>4 DEF Visit, Message, MiniApp, OidcCallback, OidcRefused, OidcLogin, tables
  <2>2. PICK v \in Users : user[v] = Unborn /\ user' = [user EXCEPT ![v] = ByTelegram(request[r].tg)]
    BY <1>4, <2>1 DEF Create
  <2>3. u # v
    BY <1>0, <2>2, RowTypes
  <2> QED
    BY <1>0, <2>2, <2>3 DEF TypeOK
<1>5. ASSUME NEW r \in Requests, Link(r)
      PROVE  /\ user'[u] = Gone =>
                   \/ ~user[u].password /\ ~user[u].address /\ KeysOf(u) = {}
                   \/ u \in hurried \cup redeems
             /\ user[u].tg # None => user'[u].tg \in {user[u].tg, None} \/ u \in redeems
  <2>1. PICK q \in RequestTypes : q = request[r]
    BY <1>0 DEF TypeOK
  <2>2. LocalOK(q) /\ q.pc = "linking" /\ q.user \in Users
    BY <1>5, <2>1 DEF Inv, RequestsOK, LocalOK, Carries, Link, At, Redeeming
  <2>3. \/ user' = user
        \/ q.dup # q.user /\ user' = [Without(q.dup) EXCEPT ![q.user].tg = q.tg]
    BY <1>5, <2>1 DEF Link
  <2>4. \A v \in Users : v # q.dup => Without(q.dup)[v] = user[v]
    BY <1>0 DEF Without, TypeOK
  <2>5. Without(q.dup) \in [Users -> Rows]
    BY <1>0, RowTypes DEF Without, TypeOK
  <2>6. CASE u = q.dup
    <3>1. \/ ~user[u].password /\ ~user[u].address /\ KeysOf(u) = {}
          \/ u \in hurried \cup redeems
      BY <1>0, <2>2, <2>6 DEF LocalOK, SeenOK, Lost
    <3>2. Without(q.dup)[u] = Gone /\ q.dup # None
      BY <1>0, <2>6, NamesAssumption DEF Without, TypeOK
    <3>3. user'[u].tg \in {user[u].tg, None}
      BY <2>3, <2>5, <2>6, <3>2, RowTypes
    <3> QED
      BY <3>1, <3>3
  <2>7. CASE u # q.dup /\ u # q.user
    BY <1>0, <2>3, <2>4, <2>5, <2>7
  <2>8. CASE u # q.dup /\ u = q.user
    <3>1. user[u].tg # None => u \in redeems
      BY <1>0, <2>2, <2>8 DEF LocalOK, RedeemOK, Lost
    <3>2. user'[u].status = user[u].status
      BY <1>0, <2>3, <2>4, <2>5, <2>8 DEF Rows
    <3> QED
      BY <1>0, <3>1, <3>2
  <2> QED
    BY <2>6, <2>7, <2>8
<1>6. ASSUME NEW r \in Requests, UnlinkCommits(r) \/ SetPasswordCommits(r)
                                 \/ ConfirmAddressCommits(r) \/ TrialCommits(r)
      PROVE  user'[u].status = user[u].status /\ user'[u].tg \in {user[u].tg, None}
  <2>1. request[r].user \in Users
    BY <1>6 DEF Inv, RequestsOK, LocalOK, Carries, UnlinkCommits, SetPasswordCommits,
                ConfirmAddressCommits, TrialCommits, At, Removing
  <2>2. PICK v \in Users : v = request[r].user
    BY <2>1
  <2>3. user[v] \in Rows
    BY EntryTypes DEF Inv
  <2>4. CASE UnlinkCommits(r)
    BY <1>0, <2>2, <2>3, <2>4 DEF UnlinkCommits, TypeOK, Rows
  <2>5. CASE SetPasswordCommits(r)
    BY <1>0, <2>2, <2>3, <2>5 DEF SetPasswordCommits, Commits, TypeOK, Rows
  <2>6. CASE ConfirmAddressCommits(r)
    BY <1>0, <2>2, <2>3, <2>6 DEF ConfirmAddressCommits, Commits, TypeOK, Rows
  <2>7. CASE TrialCommits(r)
    BY <1>0, <2>2, <2>3, <2>7 DEF TrialCommits, TypeOK, Rows
  <2> QED
    BY <1>6, <2>4, <2>5, <2>6, <2>7
<1>7. ASSUME NEW r \in Requests, Redeem(r), ~Link(r) PROVE user' = user
  BY <1>7 DEF Redeem, TakeCode, LoadTarget, FindDuplicate, CheckDuplicate, tables
<1>8. ASSUME NEW r \in Requests, Remove(r), ~UnlinkCommits(r) PROVE user' = user
  BY <1>8 DEF Remove, Unlink, DeleteKey, Removes, UnlinkCounts, DeleteKeyCounts,
              DeleteKeyCommits, tables
<1>9. ASSUME NEW r \in Requests, Gain(r), ~SetPasswordCommits(r), ~ConfirmAddressCommits(r),
             ~TrialCommits(r)
      PROVE  user' = user
  BY <1>9 DEF Gain, RegisterKey, SetPassword, ConfirmAddress, ChangeRow, Trial,
              RegisterKeyCommits, TrialChecks, tables
<1>10. CASE \/ \E r \in Requests : Dies(r)
            \/ \E c \in Links, v \in Users : IssueCode(c, v)
            \/ \E c \in Challenges, v \in Users : KeyOptions(c, v)
            \/ \E s \in States : OidcStart(s)
            \/ \E c \in Codes : CodeExpires(c)
            \/ UNCHANGED vars
  <2>1. UNCHANGED user
    BY <1>10 DEF Dies, IssueCode, KeyOptions, OidcStart, CodeExpires, vars, tables
  <2> QED
    BY <1>3, <2>1
<1>11. ASSUME NEW r \in Requests, Visit(r) \/ Redeem(r) \/ Remove(r) \/ Gain(r)
       PROVE  /\ user'[u] = Gone =>
                    \/ ~user[u].password /\ ~user[u].address /\ KeysOf(u) = {}
                    \/ u \in hurried \cup redeems
              /\ user[u].tg # None => user'[u].tg \in {user[u].tg, None} \/ u \in redeems
  BY <1>1, <1>3, <1>4, <1>5, <1>6, <1>7, <1>8, <1>9, <1>11
<1> QED
  BY <1>10, <1>11 DEF Next

\* Linking takes nothing from anybody, unless redeeming requests cross.
THEOREM LinksTakeNothing == Spec => LinkingTakesNothing
<1>1. Inv /\ [Next]_vars =>
         [\A u \in Users : Alive(u) =>
             /\ user'[u] = Gone =>
                   \/ ~user[u].password /\ ~user[u].address /\ KeysOf(u) = {}
                   \/ u \in hurried \cup redeems
             /\ user[u].tg # None => user'[u].tg \in {user[u].tg, None} \/ u \in redeems]_vars
  BY StepTakesNothing
<1> QED
  BY <1>1, Invariance, PTL DEF Spec, LinkingTakesNothing

=============================================================================
