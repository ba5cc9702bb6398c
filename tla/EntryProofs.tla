----------------------------- MODULE EntryProofs -----------------------------
(* What holds of passkeys and of returns from Telegram for any number of     *)
(* requests, keys, challenges, states and signing keys.                      *)
EXTENDS Entry, FiniteSetTheorems, TLAPS

Working == {"find", "count", "exchange", "cached", "first", "put", "again", "put again", "issue"}
Counting == {"find", "count"}
Holding == {"cached", "first", "put", "again", "put again"}

Signed(c) == signed[c] # NotSigned

\* A request has sent the one-time value it came with, if it came with one. One
\* that works has, and until it answers nothing was opened with it.
SpentOK(q) ==
    /\ q.once # None => q.once \in sent
    /\ q.pc \in Working => q.once \in sent /\ opened[q.once] = 0

\* A login carries what was signed with its challenge, and what it has
\* read allows the count it is going to write.
SignatureOK(q) ==
    /\ q.pc \in Counting => /\ q.once \in Challenges /\ Signed(q.once)
                            /\ q.key = signed[q.once].key /\ q.count = signed[q.once].count
    /\ q.pc = "count" => (q.count = 0 /\ q.stored = 0) \/ q.count > q.stored

\* Telegram serves the key of a token, and did when it was asked again, unless
\* it has withdrawn it.
TokenOK(q) ==
    q.served => /\ q.pc \in Holding => q.key \in served
                /\ q.pc = "put again" => q.key \in q.keys

\* What is refused is refused for a reason.
VerdictOK(q) ==
    q.pc = "answer" =>
        /\ q.verdict = "once" => q.again \/ q.once \in expired
        /\ q.verdict = "gone" => q.key \in Keys /\ ~key[q.key].there
        /\ q.verdict = "count" =>
              \E c \in Challenges \ {q.once} :
                  Signed(c) /\ signed[c].key = q.key /\ signed[c].count > q.count /\ c \in sent
        /\ q.verdict = "cookie" => q.once \in crossed
        /\ q.verdict = "key" => ~q.served

LocalOK(q) == SpentOK(q) /\ SignatureOK(q) /\ TokenOK(q) /\ VerdictOK(q)

RequestsOK == \A r \in Requests : LocalOK(request[r])

\* No two requests work on one value.
ApartOK ==
    \A r, o \in Requests :
        request[r].pc \in Working /\ request[o].pc \in Working
            /\ request[r].once = request[o].once => r = o

OnceOK ==
    \A x \in OneTime :
        /\ opened[x] \in {0, 1}
        /\ opened[x] = 1 => x \in sent
        /\ x \in sent => once[x] = "spent"
        /\ once[x] = "spent" => x \in sent \cup expired

CookieOK == \A s \in States : once[s] = "kept" => cookie = s \/ s \in crossed

\* The stored count of a key is older than all that was signed with it here, or
\* was brought by a login that is through with it.
Origin(k) ==
    \/ \A c \in Challenges : Signed(c) /\ signed[c].key = k => signed[c].count > key[k].count
    \/ \E c \in sent \cap Challenges :
          /\ Signed(c) /\ signed[c].key = k /\ signed[c].count = key[k].count
          /\ \A r \in Requests : request[r].pc \in Counting => request[r].once # c

KeysOK == \A k \in Keys : /\ key[k].count <= device[k]
                          /\ k \in Silent => device[k] = 0
                          /\ k \notin Silent => Origin(k)

\* A challenge that is signed was given out, by a key that has counted no
\* further back since, and no key signs two with one count.
SignaturesOK ==
    \A c \in Challenges : Signed(c) =>
        /\ once[c] # "unused"
        /\ signed[c].key \in Keys /\ signed[c].count <= device[signed[c].key]
        /\ \A d \in Challenges : Signed(d) /\ signed[d].key = signed[c].key
              /\ signed[d].count = signed[c].count => c = d \/ signed[c].key \in Silent

Inv == /\ TypeOK /\ RequestsOK /\ ApartOK /\ OnceOK /\ CookieOK
       /\ KeysOK /\ SignaturesOK

-----------------------------------------------------------------------------
LEMMA IdleOK ==
  Idle \in RequestTypes /\ Idle.pc = "idle" /\ Idle.once = None /\ LocalOK(Idle)
<1>1. Idle.pc = "idle" /\ Idle.once = None
  BY DEF Idle
<1>2. Idle \in RequestTypes
  BY DEF Idle, RequestTypes
<1>3. LocalOK(Idle)
  BY <1>1 DEF LocalOK, SpentOK, SignatureOK, TokenOK, VerdictOK, Working, Counting, Holding
<1> QED
  BY <1>1, <1>2, <1>3

\* What only grows from one state to the next.
Grows == /\ sent \subseteq sent' /\ expired \subseteq expired' /\ crossed \subseteq crossed'
         /\ \A k \in Keys : ~key[k].there => ~key'[k].there
         /\ \A c \in Challenges : Signed(c) => signed'[c] = signed[c]
         /\ served' = served

\* What holds of a request goes on to hold of it as long as it waits.
LEMMA LocalStays ==
  ASSUME NEW q, LocalOK(q), Grows, q.pc \in Working => opened'[q.once] = opened[q.once]
  PROVE  LocalOK(q)'
<1>1. SpentOK(q)'
  BY DEF LocalOK, SpentOK, Grows
<1>2. SignatureOK(q)'
  BY DEF LocalOK, SignatureOK, Grows, Signed
<1>3. TokenOK(q)'
  BY DEF LocalOK, TokenOK, Grows
<1>4. VerdictOK(q)'
  BY DEF LocalOK, VerdictOK, Grows, Signed
<1> QED
  BY <1>1, <1>2, <1>3, <1>4 DEF LocalOK

LEMMA OthersStay ==
  ASSUME RequestsOK, Grows, NEW o \in Requests, request'[o] = request[o],
         request[o].pc \in Working => opened'[request[o].once] = opened[request[o].once]
  PROVE  LocalOK(request[o])'
<1>1. PICK q : q = request[o]
  OBVIOUS
<1>2. LocalOK(q)'
  BY <1>1, LocalStays DEF RequestsOK
<1> QED
  BY <1>1, <1>2 DEF LocalOK, SpentOK, SignatureOK, TokenOK, VerdictOK, Signed

LEMMA OneStays ==
  ASSUME NEW r \in Requests, NEW new, LocalOK(new)', request'[r] = new
  PROVE  LocalOK(request[r])'
BY DEF LocalOK, SpentOK, SignatureOK, TokenOK, VerdictOK, Signed

-----------------------------------------------------------------------------
(* Steps of one request that write none of the tables.                       *)

LEMMA RequestMoves ==
  ASSUME Inv, NEW r \in Requests, NEW new \in RequestTypes,
         request' = [request EXCEPT ![r] = new],
         UNCHANGED <<passkeys, once, cookie, served, signer, mix, history>>,
         begun' \in 0 .. MaxBegun,
         jwks' \subseteq SUBSET Kids, Cardinality(jwks') <= 1, dead' \in 0 .. MaxDead,
         LocalOK(new),
         new.pc \in Working => request[r].pc \in Working /\ new.once = request[r].once,
         new.pc \in Counting => request[r].pc \in Counting
  PROVE  Inv'
<1> USE DEF passkeys, history
<1>0. TypeOK /\ RequestsOK /\ ApartOK /\ OnceOK /\ CookieOK /\ KeysOK /\ SignaturesOK
  BY DEF Inv
<1>1. TypeOK'
  BY <1>0 DEF TypeOK
<1>2. request'[r] = new /\ \A o \in Requests \ {r} : request'[o] = request[o]
  BY <1>0 DEF TypeOK
<1>3. Grows
  BY DEF Grows, Signed
<1>4. RequestsOK'
  <2>1. LocalOK(request[r])'
    BY <1>2, <1>3, LocalStays, OneStays
  <2>2. \A o \in Requests \ {r} : LocalOK(request[o])'
    BY <1>0, <1>2, <1>3, OthersStay
  <2> QED
    BY <2>1, <2>2 DEF RequestsOK
<1>5. ApartOK'
  BY <1>0, <1>2 DEF ApartOK
<1>6. OnceOK' /\ CookieOK'
  BY <1>0 DEF OnceOK, CookieOK
<1>7. SignaturesOK'
  BY <1>0 DEF SignaturesOK, Signed
<1>8. KeysOK'
  <2>1. ASSUME NEW k \in Keys, Origin(k) PROVE Origin(k)'
    <3>1. CASE \A c \in Challenges : Signed(c) /\ signed[c].key = k => signed[c].count > key[k].count
      BY <3>1 DEF Origin, Signed
    <3>2. ASSUME NEW c \in sent \cap Challenges, Signed(c), signed[c].key = k,
                 signed[c].count = key[k].count,
                 \A o \in Requests : request[o].pc \in Counting => request[o].once # c
          PROVE  Origin(k)'
      <4>1. \A o \in Requests : request'[o].pc \in Counting => request'[o].once # c
        BY <1>2, <3>2 DEF Counting, Working
      <4> QED
        BY <3>2, <4>1 DEF Origin, Signed
    <3> QED
      BY <2>1, <3>1, <3>2 DEF Origin
  <2> QED
    BY <1>0, <2>1 DEF KeysOK
<1> QED
  BY <1>1, <1>4, <1>5, <1>6, <1>7, <1>8 DEF Inv

\* A request that says why it lets nobody in.
LEMMA Refuses ==
  ASSUME Inv, NEW r \in Requests, NEW verdict \in Verdicts, Says(r, verdict),
         request[r].pc # "idle", verdict \in {"telegram", "gone"},
         verdict = "gone" => request[r].key \in Keys /\ ~key[request[r].key].there,
         UNCHANGED <<passkeys, once, cookie, telegram, counters, history>>
  PROVE  Inv'
<1>0. TypeOK /\ LocalOK(request[r])
  BY DEF Inv, RequestsOK
<1>1. PICK q \in RequestTypes : q = request[r]
  BY <1>0 DEF TypeOK
<1>2. PICK new \in RequestTypes : new = [q EXCEPT !.pc = "answer", !.verdict = verdict]
  BY DEF RequestTypes
<1>3. /\ new.pc = "answer" /\ new.once = q.once /\ new.verdict = verdict /\ new.key = q.key
      /\ new.pc \notin Working /\ new.pc \notin Counting /\ new.pc \notin Holding
  BY <1>2 DEF RequestTypes, Working, Counting, Holding
<1>4. LocalOK(new)
  BY <1>0, <1>1, <1>3 DEF LocalOK, SpentOK, SignatureOK, TokenOK, VerdictOK
<1>5. request' = [request EXCEPT ![r] = new]
  BY <1>1, <1>2 DEF Says, Becomes
<1> QED
  BY <1>0, <1>3, <1>4, <1>5, RequestMoves DEF telegram, counters, TypeOK

LEMMA FindKeyKeeps == ASSUME Inv, NEW r \in Requests, FindKey(r) PROVE Inv'
<1>0. TypeOK /\ LocalOK(request[r]) /\ KeysOK /\ SignaturesOK
  BY DEF Inv, RequestsOK
<1>1. PICK q \in RequestTypes : q = request[r]
  BY <1>0 DEF TypeOK
<1>2. /\ q.pc = "find" /\ q.pc \in Counting /\ q.pc \in Working
      /\ q.once \in Challenges /\ Signed(q.once) /\ q.once \in sent /\ opened[q.once] = 0
      /\ q.key = signed[q.once].key /\ q.count = signed[q.once].count
  BY <1>0, <1>1 DEF FindKey, At, LocalOK, SpentOK, SignatureOK, Counting, Working
<1>3. q.key \in Keys /\ q.count <= device[q.key] /\ key[q.key].count <= device[q.key]
  BY <1>0, <1>2 DEF KeysOK, SignaturesOK
<1>4. /\ key[q.key].count \in Nat /\ q.count \in Nat /\ device[q.key] \in Nat
      /\ \A c \in Challenges : signed[c].count \in Nat
  BY <1>0, <1>3 DEF TypeOK, RequestTypes
<1>5. CASE ~key[q.key].there
  <2>1. Says(r, "gone") /\ "gone" \in Verdicts
    BY <1>1, <1>5 DEF FindKey, Verdicts
  <2> QED
    BY <1>1, <1>2, <1>3, <1>5, <2>1, Refuses DEF FindKey
<1>6. CASE key[q.key].there /\ ~CountsOn(q.count, key[q.key].count)
  <2>1. PICK new \in RequestTypes : new = [q EXCEPT !.pc = "answer", !.verdict = "count"]
    BY DEF RequestTypes, Verdicts
  <2>2. /\ new.pc = "answer" /\ new.once = q.once /\ new.verdict = "count" /\ new.key = q.key
        /\ new.count = q.count
        /\ new.pc \notin Working /\ new.pc \notin Counting /\ new.pc \notin Holding
    BY <2>1 DEF RequestTypes, Working, Counting, Holding
  <2>3. key[q.key].count >= q.count /\ key[q.key].count # 0
    BY <1>4, <1>6 DEF CountsOn
  <2>4. q.key \notin Silent
    BY <1>0, <1>3, <1>4, <2>3 DEF KeysOK
  <2>5. PICK c \in sent \cap Challenges :
          /\ Signed(c) /\ signed[c].key = q.key /\ signed[c].count = key[q.key].count
          /\ \A o \in Requests : request[o].pc \in Counting => request[o].once # c
    BY <1>0, <1>2, <1>3, <1>4, <2>3, <2>4 DEF KeysOK, Origin
  <2>6. c # q.once
    BY <1>1, <1>2, <2>5
  <2>7. signed[c].count # q.count
    BY <1>0, <1>2, <2>4, <2>5, <2>6 DEF SignaturesOK
  <2>8. signed[c].count > q.count
    BY <1>4, <2>3, <2>5, <2>7
  <2>9. LocalOK(new)
    BY <1>2, <2>2, <2>5, <2>6, <2>8 DEF LocalOK, SpentOK, SignatureOK, TokenOK, VerdictOK
  <2>10. request' = [request EXCEPT ![r] = new]
    BY <1>1, <1>6, <2>1 DEF FindKey, Says, Becomes
  <2> QED
    BY <1>0, <2>2, <2>9, <2>10, RequestMoves DEF FindKey, telegram, counters, TypeOK
<1>7. CASE key[q.key].there /\ CountsOn(q.count, key[q.key].count)
  <2>1. PICK new \in RequestTypes : new = [q EXCEPT !.pc = "count", !.stored = key[q.key].count]
    BY <1>4 DEF RequestTypes
  <2>2. /\ new.pc = "count" /\ new.once = q.once /\ new.key = q.key
        /\ new.count = q.count /\ new.stored = key[q.key].count
        /\ new.pc \in Working /\ new.pc \in Counting /\ new.pc \notin Holding
    BY <2>1 DEF RequestTypes, Working, Counting, Holding
  <2>3. LocalOK(new)
    BY <1>2, <1>7, <2>2 DEF LocalOK, SpentOK, SignatureOK, TokenOK, VerdictOK, CountsOn
  <2>4. request' = [request EXCEPT ![r] = new]
    BY <1>1, <1>7, <2>1 DEF FindKey, Becomes
  <2> QED
    BY <1>0, <1>1, <1>2, <2>2, <2>3, <2>4, RequestMoves DEF FindKey, telegram, counters, TypeOK
<1> QED
  BY <1>5, <1>6, <1>7

\* Where looking up a key leads is all that has to be known of it.
LEMMA LookedOK ==
  ASSUME Inv, NEW r \in Requests, NEW q \in RequestTypes, q = request[r], NEW keys \in SUBSET Kids,
         q.pc \in {"cached", "put", "put again"}, q.pc = "put again" => keys = q.keys,
         request' = [request EXCEPT ![r] = Looked(q, keys)],
         UNCHANGED <<passkeys, once, cookie, served, signer, counters, history>>,
         jwks' \subseteq SUBSET Kids, Cardinality(jwks') <= 1
  PROVE  Inv'
<1>0. TypeOK /\ LocalOK(q)
  BY DEF Inv, RequestsOK
<1>1. PICK new \in RequestTypes : new = Looked(q, keys)
  BY DEF Looked, RequestTypes, Verdicts
<1>2. /\ new.once = q.once /\ new.key = q.key /\ new.served = q.served
      /\ \/ new.pc = "issue"
         \/ new.pc = "again" /\ q.pc # "put again"
         \/ new.pc = "answer" /\ q.pc = "put again" /\ q.key \notin keys /\ new.verdict = "key"
  BY <1>1 DEF Looked, Unknown, RequestTypes
<1>3. q.pc \in Working /\ q.pc \in Holding
  BY DEF Working, Holding
<1>4. SpentOK(new)
  BY <1>0, <1>2, <1>3 DEF LocalOK, SpentOK, Working
<1>5. TokenOK(new)
  BY <1>0, <1>2, <1>3 DEF LocalOK, TokenOK, Holding
<1>6. SignatureOK(new) /\ VerdictOK(new)
  BY <1>0, <1>2, <1>3 DEF LocalOK, SignatureOK, TokenOK, VerdictOK, Counting
<1>7. LocalOK(new)
  BY <1>4, <1>5, <1>6 DEF LocalOK
<1>8. new.pc \notin Counting
  BY <1>2 DEF Counting
<1> QED
  BY <1>0, <1>1, <1>2, <1>3, <1>7, <1>8, RequestMoves DEF counters, TypeOK

\* The set of keys that a request asks Telegram for.
LEMMA FetchKeeps ==
  ASSUME Inv, NEW r \in Requests, NEW pc, NEW next, Fetch(r, pc, next),
         <<pc, next>> \in {<<"first", "put">>, <<"again", "put again">>}
  PROVE  Inv'
<1>0. TypeOK /\ LocalOK(request[r])
  BY DEF Inv, RequestsOK
<1>1. PICK q \in RequestTypes : q = request[r]
  BY <1>0 DEF TypeOK
<1>2. PICK new \in RequestTypes : new = [q EXCEPT !.pc = next, !.keys = served]
  BY <1>0 DEF RequestTypes, TypeOK
<1>3. /\ new.pc = next /\ new.once = q.once /\ new.key = q.key /\ new.served = q.served
      /\ new.keys = served /\ q.pc = pc
  BY <1>1, <1>2 DEF RequestTypes, Fetch, At
<1>4. /\ q.pc \in Working /\ q.pc \in Holding /\ new.pc \in Working /\ new.pc \in Holding
      /\ new.pc \notin Counting /\ new.pc # "answer"
  BY <1>3 DEF Working, Holding, Counting
<1>5. LocalOK(new)
  BY <1>0, <1>1, <1>3, <1>4 DEF LocalOK, SpentOK, SignatureOK, TokenOK, VerdictOK
<1>6. request' = [request EXCEPT ![r] = new]
  BY <1>1, <1>2 DEF Fetch, Becomes
<1> QED
  BY <1>0, <1>1, <1>3, <1>4, <1>5, <1>6, RequestMoves DEF Fetch, telegram, counters, TypeOK

\* The steps on the way that only the request takes note of.
LEMMA WaysKeep ==
  ASSUME Inv, NEW r \in Requests,
         \/ Exchange(r) \/ Cached(r) \/ FetchFirst(r) \/ FetchAgain(r) \/ Put(r)
         \/ TelegramSilent(r) \/ Dies(r)
  PROVE  Inv'
<1>0. TypeOK /\ LocalOK(request[r])
  BY DEF Inv, RequestsOK
<1>1. PICK q \in RequestTypes : q = request[r]
  BY <1>0 DEF TypeOK
<1>2. CASE Exchange(r)
  <2>1. PICK new \in RequestTypes : new = [q EXCEPT !.pc = "cached", !.key = signer]
    BY <1>0 DEF RequestTypes, TypeOK
  <2>2. /\ new.pc = "cached" /\ new.once = q.once /\ new.key = signer /\ q.pc = "exchange"
    BY <1>1, <1>2, <2>1 DEF RequestTypes, Exchange, At
  <2>3. q.pc \in Working /\ new.pc \in Working /\ new.pc \notin Counting /\ q.pc # "idle"
    BY <2>2 DEF Working, Counting
  <2>4. LocalOK(new)
    BY <1>0, <1>1, <2>2, <2>3 DEF LocalOK, SpentOK, SignatureOK, TokenOK, VerdictOK, TypeOK
  <2>5. request' = [request EXCEPT ![r] = new]
    BY <1>1, <1>2, <2>1 DEF Exchange, Becomes
  <2> QED
    BY <1>0, <1>1, <1>2, <2>2, <2>3, <2>4, <2>5, RequestMoves DEF Exchange, telegram, counters, TypeOK
<1>3. CASE Cached(r)
  <2>1. q.pc = "cached"
    BY <1>1, <1>3 DEF Cached, At
  <2>2. CASE jwks = {}
    <3>1. PICK new \in RequestTypes : new = [q EXCEPT !.pc = "first"]
      BY DEF RequestTypes
    <3>2. /\ new.pc = "first" /\ new.once = q.once /\ new.key = q.key /\ new.served = q.served
      BY <3>1 DEF RequestTypes
    <3>3. /\ q.pc \in Working /\ q.pc \in Holding /\ new.pc \in Working /\ new.pc \in Holding
          /\ new.pc \notin Counting
      BY <2>1, <3>2 DEF Working, Counting, Holding
    <3>4. LocalOK(new)
      BY <1>0, <1>1, <2>1, <3>2, <3>3 DEF LocalOK, SpentOK, SignatureOK, TokenOK, VerdictOK
    <3>5. request' = [request EXCEPT ![r] = new]
      BY <1>1, <1>3, <2>2, <3>1 DEF Cached, Becomes
    <3> QED
      BY <1>0, <1>1, <1>3, <3>2, <3>3, <3>4, <3>5, RequestMoves DEF Cached, telegram, counters, TypeOK
  <2>3. CASE jwks # {}
    <3>1. PICK keys \in jwks : request' = [request EXCEPT ![r] = Looked(q, keys)]
      BY <1>1, <1>3, <2>3 DEF Cached, Becomes
    <3>2. keys \in SUBSET Kids
      BY <1>0 DEF TypeOK
    <3> QED
      BY <1>0, <1>1, <1>3, <2>1, <3>1, <3>2, LookedOK DEF Cached, telegram, TypeOK
  <2> QED
    BY <2>2, <2>3
<1>4. CASE FetchFirst(r) \/ FetchAgain(r)
  BY <1>4, FetchKeeps DEF FetchFirst, FetchAgain
<1>5. CASE Put(r)
  <2>1. q.pc \in {"put", "put again"} /\ q.keys \in SUBSET Kids
    BY <1>1, <1>5 DEF Put, At, RequestTypes
  <2>2. jwks' \subseteq SUBSET Kids /\ Cardinality(jwks') <= 1
    <3>1. jwks' = {q.keys}
      BY <1>1, <1>5 DEF Put, CachedNow
    <3>2. Cardinality({q.keys}) = 1
      BY FS_Singleton
    <3>3. Cardinality(jwks') = 1
      BY <3>1, <3>2
    <3>4. jwks' \subseteq SUBSET Kids
      BY <2>1, <3>1
    <3> QED
      BY <3>3, <3>4
  <2>3. request' = [request EXCEPT ![r] = Looked(q, q.keys)]
    BY <1>1, <1>5 DEF Put, Becomes
  <2> QED
    BY <1>1, <1>5, <2>1, <2>2, <2>3, LookedOK DEF Put
<1>6. CASE TelegramSilent(r)
  BY <1>6, Refuses DEF TelegramSilent, Verdicts
<1>7. CASE Dies(r)
  <2>1. dead' \in 0 .. MaxDead
    BY <1>0, <1>7, BoundsAssumption DEF Dies, TypeOK
  <2>2. request' = [request EXCEPT ![r] = Idle]
    BY <1>7 DEF Dies, Becomes
  <2>3. Idle.pc \notin Working /\ Idle.pc \notin Counting
    BY IdleOK DEF Working, Counting
  <2> QED
    BY <1>0, <1>7, <2>1, <2>2, <2>3, IdleOK, RequestMoves DEF Dies, telegram, TypeOK
<1> QED
  BY <1>2, <1>3, <1>4, <1>5, <1>6, <1>7

-----------------------------------------------------------------------------
(* Steps that write the tables.                                              *)

\* No new request, none that was through, signs or counts in these steps.
LEMMA OriginStays ==
  ASSUME NEW k \in Keys, Origin(k), UNCHANGED signed, sent \subseteq sent', key'[k].count = key[k].count,
         \A o \in Requests : request'[o].pc \in Counting =>
            \/ request[o].pc \in Counting /\ request'[o].once = request[o].once
            \/ request'[o].once \notin sent
  PROVE  Origin(k)'
<1>1. CASE \A c \in Challenges : Signed(c) /\ signed[c].key = k => signed[c].count > key[k].count
  BY <1>1 DEF Origin, Signed
<1>2. ASSUME NEW c \in sent \cap Challenges, Signed(c), signed[c].key = k,
             signed[c].count = key[k].count,
             \A o \in Requests : request[o].pc \in Counting => request[o].once # c
      PROVE  Origin(k)'
  <2>1. \A o \in Requests : request'[o].pc \in Counting => request'[o].once # c
    BY <1>2
  <2> QED
    BY <1>2, <2>1 DEF Origin, Signed
<1> QED
  BY <1>1, <1>2 DEF Origin

LEMMA IssueKeeps == ASSUME Inv, NEW r \in Requests, Issue(r) PROVE Inv'
<1> USE DEF passkeys, counters, telegram
<1>0. TypeOK /\ RequestsOK /\ ApartOK /\ OnceOK /\ CookieOK /\ KeysOK /\ SignaturesOK
  BY DEF Inv
<1>1. PICK q \in RequestTypes : q = request[r]
  BY <1>0 DEF TypeOK
<1>2. /\ q.pc = "issue" /\ q.pc \in Working /\ q.pc # "idle" /\ q.once \in sent /\ opened[q.once] = 0
      /\ q.once \in OneTime
  BY <1>0, <1>1 DEF Issue, At, Working, RequestsOK, LocalOK, SpentOK, TypeOK
<1>3. PICK new \in RequestTypes : new = [q EXCEPT !.pc = "answer", !.verdict = "in"]
  BY DEF RequestTypes, Verdicts
<1>4. /\ new.pc = "answer" /\ new.once = q.once /\ new.verdict = "in"
      /\ new.pc \notin Working /\ new.pc \notin Counting /\ new.pc \notin Holding
  BY <1>3 DEF RequestTypes, Working, Counting, Holding
<1>5. /\ request' = [request EXCEPT ![r] = new] /\ opened' = [opened EXCEPT ![q.once] = 1]
      /\ UNCHANGED <<passkeys, once, cookie, telegram, counters, sent, expired, crossed>>
  BY <1>0, <1>1, <1>2, <1>3 DEF Issue, Says, Becomes, TypeOK
<1>6. request'[r] = new /\ \A o \in Requests \ {r} : request'[o] = request[o]
  BY <1>0, <1>5 DEF TypeOK
<1>7. Grows
  BY <1>5 DEF Grows
<1>8. TypeOK'
  BY <1>0, <1>5 DEF TypeOK
<1>9. RequestsOK'
  <2>1. LocalOK(new)'
    BY <1>2, <1>4, <1>5 DEF LocalOK, SpentOK, SignatureOK, TokenOK, VerdictOK
  <2>2. ASSUME NEW o \in Requests \ {r} PROVE LocalOK(request[o])'
    <3>1. request[o].pc \in Working => opened'[request[o].once] = opened[request[o].once]
      BY <1>0, <1>1, <1>2, <1>5 DEF ApartOK, RequestsOK, LocalOK, SpentOK, TypeOK, Working
    <3> QED
      BY <1>0, <1>6, <1>7, <3>1, OthersStay
  <2> QED
    BY <1>6, <2>1, <2>2, OneStays DEF RequestsOK
<1>10. ApartOK'
  BY <1>0, <1>4, <1>6 DEF ApartOK
<1>11. OnceOK' /\ CookieOK'
  BY <1>0, <1>2, <1>5 DEF OnceOK, CookieOK, TypeOK
<1>12. SignaturesOK'
  BY <1>0, <1>5 DEF SignaturesOK, Signed
<1>13. KeysOK'
  <2>1. \A o \in Requests : request'[o].pc \in Counting =>
           request[o].pc \in Counting /\ request'[o].once = request[o].once
    BY <1>4, <1>6
  <2> QED
    BY <1>0, <1>5, <2>1, OriginStays DEF KeysOK
<1> QED
  BY <1>8, <1>9, <1>10, <1>11, <1>12, <1>13 DEF Inv

LEMMA CountKeeps == ASSUME Inv, NEW r \in Requests, CountCommits(r) PROVE Inv'
<1> USE DEF counters, telegram, history
<1>0. TypeOK /\ RequestsOK /\ ApartOK /\ OnceOK /\ CookieOK /\ KeysOK /\ SignaturesOK
  BY DEF Inv
<1>1. PICK q \in RequestTypes : q = request[r]
  BY <1>0 DEF TypeOK
<1>2. /\ q.pc = "count" /\ q.pc \in Counting /\ q.pc \in Working /\ q.pc # "idle"
      /\ q.once \in Challenges /\ Signed(q.once) /\ q.once \in sent /\ opened[q.once] = 0
      /\ q.key = signed[q.once].key /\ q.count = signed[q.once].count
  BY <1>0, <1>1 DEF CountCommits, At, RequestsOK, LocalOK, SpentOK, SignatureOK, Counting, Working
<1>3. q.key \in Keys /\ q.count <= device[q.key] /\ q.count \in Nat
  BY <1>0, <1>2 DEF SignaturesOK, RequestTypes
<1>4. CASE ~key[q.key].there
  <2>1. Says(r, "gone") /\ "gone" \in Verdicts
    BY <1>1, <1>4 DEF CountCommits, Verdicts
  <2> QED
    BY <1>1, <1>2, <1>3, <1>4, <2>1, Refuses DEF CountCommits, passkeys
<1>5. CASE key[q.key].there
  <2>1. PICK new \in RequestTypes : new = [q EXCEPT !.pc = "issue"]
    BY DEF RequestTypes
  <2>2. /\ new.pc = "issue" /\ new.once = q.once
        /\ new.pc \in Working /\ new.pc \notin Counting /\ new.pc \notin Holding
    BY <2>1 DEF RequestTypes, Working, Counting, Holding
  <2>3. /\ request' = [request EXCEPT ![r] = new]
        /\ key' = [key EXCEPT ![q.key].count = q.count]
        /\ UNCHANGED <<device, signed, once, cookie, telegram, counters, history>>
    BY <1>1, <1>5, <2>1 DEF CountCommits, Becomes
  <2>4. request'[r] = new /\ \A o \in Requests \ {r} : request'[o] = request[o]
    BY <1>0, <2>3 DEF TypeOK
  <2>5. /\ key' \in [Keys -> [there : BOOLEAN, count : Nat]] /\ key'[q.key].count = q.count
        /\ \A k \in Keys : key'[k].there <=> key[k].there
        /\ \A k \in Keys \ {q.key} : key'[k] = key[k]
    BY <1>0, <1>3, <2>3 DEF TypeOK
  <2>6. TypeOK'
    BY <1>0, <2>3, <2>5 DEF TypeOK
  <2>7. Grows
    BY <2>3, <2>5 DEF Grows
  <2>8. RequestsOK'
    <3>1. LocalOK(new)'
      BY <1>2, <2>2, <2>3 DEF LocalOK, SpentOK, SignatureOK, TokenOK, VerdictOK
    <3>2. \A o \in Requests \ {r} : LocalOK(request[o])'
      BY <1>0, <2>3, <2>4, <2>7, OthersStay
    <3> QED
      BY <2>4, <3>1, <3>2, OneStays DEF RequestsOK
  <2>9. ApartOK'
    BY <1>0, <1>1, <1>2, <2>2, <2>4 DEF ApartOK
  <2>10. OnceOK' /\ CookieOK' /\ SignaturesOK'
    BY <1>0, <2>3 DEF OnceOK, CookieOK, SignaturesOK, Signed
  <2>11. KeysOK'
    <3>1. \A o \in Requests : request'[o].pc \in Counting =>
             request[o].pc \in Counting /\ request'[o].once = request[o].once
      BY <2>2, <2>4
    <3>2. ASSUME NEW k \in Keys \ {q.key}, Origin(k) PROVE Origin(k)'
      BY <2>3, <2>5, <3>1, <3>2, OriginStays
    <3>3. Origin(q.key)'
      <4>1. \A o \in Requests : request'[o].pc \in Counting => request'[o].once # q.once
        BY <1>0, <1>1, <1>2, <2>2, <2>4 DEF ApartOK, Counting, Working
      <4> QED
        BY <1>2, <2>3, <2>5, <4>1 DEF Origin, Signed
    <3> QED
      BY <1>0, <1>3, <2>3, <2>5, <3>2, <3>3 DEF KeysOK
  <2> QED
    BY <2>6, <2>8, <2>9, <2>10, <2>11 DEF Inv
<1> QED
  BY <1>4, <1>5

\* A value that comes is spent, and whoever comes with it and is let through
\* is the only one at work on it.
LEMMA BeginKeeps ==
  ASSUME Inv, NEW r \in Requests, NEW x \in OneTime, NEW new \in RequestTypes, NEW refusal,
         Begin(r, x, new, refusal),
         refusal \in {None, "once", "cookie"},
         new.pc \in {"find", "exchange"},
         refusal = None => once[x] = "kept",
         refusal = "once" => once[x] = "spent",
         refusal = "cookie" => x \in crossed,
         new.pc = "find" => /\ x \in Challenges /\ Signed(x)
                            /\ new.key = signed[x].key /\ new.count = signed[x].count
  PROVE  Inv'
<1> USE DEF passkeys, telegram
<1>0. TypeOK /\ RequestsOK /\ ApartOK /\ OnceOK /\ CookieOK /\ KeysOK /\ SignaturesOK
  BY DEF Inv
<1>1. /\ [new EXCEPT !.once = x, !.again = x \in sent] \in RequestTypes
      /\ refusal # None => [new EXCEPT !.once = x, !.again = x \in sent,
                                       !.pc = "answer", !.verdict = refusal] \in RequestTypes
  <2>1. CASE x \in sent
    <3>1. (x \in sent) = TRUE
      BY <2>1
    <3> QED
      BY <3>1 DEF RequestTypes, Verdicts
  <2>2. CASE x \notin sent
    <3>1. (x \in sent) = FALSE
      BY <2>2
    <3> QED
      BY <3>1 DEF RequestTypes, Verdicts
  <2> QED
    BY <2>1, <2>2
<1>2. PICK came \in RequestTypes :
         came = IF refusal = None THEN [new EXCEPT !.once = x, !.again = x \in sent]
                ELSE [new EXCEPT !.once = x, !.again = x \in sent,
                                 !.pc = "answer", !.verdict = refusal]
  BY <1>1
<1>3. /\ came.once = x /\ came.key = new.key /\ came.count = new.count
      /\ refusal = None => came.pc = new.pc
      /\ refusal # None => came.pc = "answer" /\ came.verdict = refusal
      /\ came.again <=> x \in sent
  BY <1>2 DEF RequestTypes
<1>4. /\ request' = [request EXCEPT ![r] = came]
      /\ once' = [once EXCEPT ![x] = "spent"] /\ sent' = sent \cup {x} /\ begun' \in 0 .. MaxBegun
      /\ UNCHANGED <<passkeys, cookie, telegram, mix, dead, opened, expired, crossed>>
      /\ request[r].pc = "idle"
  BY <1>0, <1>2, BoundsAssumption DEF Begin, Becomes, Taken, At, TypeOK
<1>5. request'[r] = came /\ \A o \in Requests \ {r} : request'[o] = request[o]
  BY <1>0, <1>4 DEF TypeOK
<1>6. TypeOK'
  BY <1>0, <1>4 DEF TypeOK
<1>7. Grows
  BY <1>4 DEF Grows
<1>8. refusal = None => x \notin sent /\ opened[x] = 0
  BY <1>0 DEF OnceOK
<1>9. LocalOK(came)'
  <2>1. came.pc \notin Holding /\ came.pc # "count" /\ came.pc # "again"
    BY <1>3 DEF Holding
  <2>2. SpentOK(came)'
    BY <1>3, <1>4, <1>8 DEF SpentOK, Working
  <2>3. SignatureOK(came)'
    BY <1>3, <1>4, <2>1 DEF SignatureOK, Counting, Signed
  <2>4. TokenOK(came)'
    BY <1>3, <2>1 DEF TokenOK
  <2>5. VerdictOK(came)'
    BY <1>0, <1>3, <1>4 DEF VerdictOK, OnceOK
  <2> QED
    BY <2>2, <2>3, <2>4, <2>5 DEF LocalOK
<1>10. RequestsOK'
  <2>1. \A o \in Requests \ {r} : LocalOK(request[o])'
    BY <1>0, <1>4, <1>5, <1>7, OthersStay
  <2> QED
    BY <1>5, <1>9, <2>1, OneStays DEF RequestsOK
<1>11. ApartOK'
  <2>1. \A o \in Requests : request[o].pc \in Working => request[o].once \in sent
    BY <1>0 DEF RequestsOK, LocalOK, SpentOK, Working
  <2>2. came.pc \in Working => x \notin sent
    BY <1>3, <1>8 DEF Working
  <2> QED
    BY <1>0, <1>3, <1>5, <2>1, <2>2 DEF ApartOK
<1>12. OnceOK' /\ CookieOK'
  BY <1>0, <1>4 DEF OnceOK, CookieOK, TypeOK
<1>13. SignaturesOK'
  BY <1>0, <1>4 DEF SignaturesOK, Signed, OneTime, TypeOK
<1>14. KeysOK'
  <2>1. \A o \in Requests : request'[o].pc \in Counting =>
           \/ request[o].pc \in Counting /\ request'[o].once = request[o].once
           \/ request'[o].once \notin sent
    BY <1>3, <1>5, <1>8 DEF Counting
  <2> QED
    BY <1>0, <1>4, <2>1, OriginStays DEF KeysOK
<1> QED
  BY <1>6, <1>10, <1>11, <1>12, <1>13, <1>14 DEF Inv

LEMMA LoginKeeps == ASSUME Inv, NEW r \in Requests, NEW c \in Challenges, Login(r, c) PROVE Inv'
<1>0. TypeOK /\ OnceOK /\ SignaturesOK
  BY DEF Inv
<1>1. c \in OneTime /\ once[c] \in {"kept", "spent"} /\ signed[c].key \in Keys
  BY <1>0 DEF Login, Signed, SignaturesOK, OneTime, TypeOK
<1>2. PICK new \in RequestTypes :
         new = [Idle EXCEPT !.pc = "find", !.key = signed[c].key, !.count = signed[c].count]
  BY <1>0, <1>1, IdleOK DEF RequestTypes, TypeOK
<1>3. new.pc = "find" /\ new.key = signed[c].key /\ new.count = signed[c].count
  BY <1>2, IdleOK DEF RequestTypes
<1>4. PICK refusal : refusal = IF once[c] = "kept" THEN None ELSE "once"
  OBVIOUS
<1>5. Begin(r, c, new, refusal)
  BY <1>2, <1>4 DEF Login
<1>6. /\ refusal \in {None, "once", "cookie"} /\ refusal # "cookie"
      /\ refusal = None => once[c] = "kept"
      /\ refusal = "once" => once[c] = "spent"
  BY <1>1, <1>4 DEF None
<1> QED
  BY <1>1, <1>3, <1>5, <1>6, BeginKeeps DEF Login, Signed

LEMMA ReturnKeeps == ASSUME Inv, NEW r \in Requests, NEW s \in States, Return(r, s) PROVE Inv'
<1>0. TypeOK /\ CookieOK
  BY DEF Inv
<1>1. s \in OneTime /\ once[s] \in {"kept", "spent"}
  BY <1>0 DEF Return, OneTime, TypeOK
<1>2. PICK new \in RequestTypes : new = [Idle EXCEPT !.pc = "exchange", !.cookie = cookie]
  BY <1>0, IdleOK DEF RequestTypes, TypeOK
<1>3. new.pc = "exchange"
  BY <1>2, IdleOK DEF RequestTypes
<1>4. PICK refusal : refusal = CASE once[s] # "kept" -> "once"
                                 [] once[s] = "kept" /\ cookie # s -> "cookie"
                                 [] OTHER -> None
  OBVIOUS
<1>5. Begin(r, s, new, refusal)
  BY <1>2, <1>4 DEF Return
<1>6. /\ refusal \in {None, "once", "cookie"}
      /\ refusal = None => once[s] = "kept"
      /\ refusal = "once" => once[s] = "spent"
      /\ refusal = "cookie" => s \in crossed
  BY <1>0, <1>1, <1>4 DEF None, CookieOK
<1> QED
  BY <1>1, <1>3, <1>5, <1>6, BeginKeeps

\* A return with nothing that was given out is turned away with nothing.
LEMMA ReturnEmptyKeeps == ASSUME Inv, NEW r \in Requests, ReturnEmpty(r) PROVE Inv'
<1>0. TypeOK
  BY DEF Inv
<1>1. PICK new \in RequestTypes : new = [Idle EXCEPT !.pc = "answer", !.verdict = "invalid"]
  BY IdleOK DEF RequestTypes, Verdicts
<1>2. new.pc = "answer" /\ new.once = None /\ new.verdict = "invalid"
  BY <1>1, IdleOK DEF RequestTypes
<1>3. new.pc \notin Working /\ new.pc \notin Counting /\ new.pc \notin Holding
  BY <1>2 DEF Working, Counting, Holding
<1>4. LocalOK(new)
  BY <1>2, <1>3 DEF LocalOK, SpentOK, SignatureOK, TokenOK, VerdictOK
<1>5. request' = [request EXCEPT ![r] = new]
  BY <1>1 DEF ReturnEmpty, Becomes
<1>6. begun' \in 0 .. MaxBegun
  BY <1>0, BoundsAssumption DEF ReturnEmpty, TypeOK
<1> QED
  BY <1>0, <1>3, <1>4, <1>5, <1>6, RequestMoves DEF ReturnEmpty, telegram, TypeOK

LEMMA AnswerKeeps == ASSUME Inv, NEW r \in Requests, Answer(r) PROVE Inv'
<1> USE DEF passkeys, telegram, counters
<1>0. TypeOK /\ RequestsOK /\ ApartOK /\ OnceOK /\ CookieOK /\ KeysOK /\ SignaturesOK
  BY DEF Inv
<1>1. /\ request' = [request EXCEPT ![r] = Idle]
      /\ UNCHANGED <<passkeys, once, telegram, counters, opened, sent, expired>>
      /\ request[r].once # None => request[r].once \in sent
  BY <1>0 DEF Answer, Becomes, RequestsOK, LocalOK, SpentOK
<1>2. request'[r] = Idle /\ \A o \in Requests \ {r} : request'[o] = request[o]
  BY <1>0, <1>1 DEF TypeOK
<1>3. cookie' \in States \cup {None} /\ crossed \subseteq crossed' /\ crossed' \subseteq States
  BY <1>0 DEF Answer, Unbinds, Pending, TypeOK
<1>4. TypeOK'
  BY <1>0, <1>1, <1>3, IdleOK DEF TypeOK
<1>5. Grows
  BY <1>1, <1>3 DEF Grows
<1>6. RequestsOK'
  <2>1. LocalOK(Idle)'
    BY <1>1, <1>5, IdleOK, LocalStays
  <2>2. \A o \in Requests \ {r} : LocalOK(request[o])'
    BY <1>0, <1>1, <1>2, <1>5, OthersStay
  <2> QED
    BY <1>2, <2>1, <2>2, OneStays DEF RequestsOK
<1>7. Idle.pc \notin Working /\ Idle.pc \notin Counting
  BY IdleOK DEF Working, Counting
<1>8. ApartOK'
  BY <1>0, <1>2, <1>7 DEF ApartOK
<1>9. CookieOK'
  <2>1. CASE request[r].once \notin Challenges
    <3>1. request[r].once = None \/ once[request[r].once] = "spent"
      BY <1>0, <1>1, <2>1 DEF OnceOK, TypeOK
    <3>2. request[r].once = None => request[r].once \notin States
      BY NamesAssumption
    <3>3. Unbinds(request[r].once)
      BY <2>1 DEF Answer
    <3> QED
      BY <1>1, <3>1, <3>2, <3>3 DEF CookieOK, Unbinds, Pending
  <2>2. CASE request[r].once \in Challenges
    BY <1>0, <1>1, <2>2 DEF Answer, CookieOK
  <2> QED
    BY <2>1, <2>2
<1>10. OnceOK' /\ SignaturesOK'
  BY <1>0, <1>1 DEF OnceOK, SignaturesOK, Signed
<1>11. KeysOK'
  BY <1>0, <1>1, <1>2, <1>7, OriginStays DEF KeysOK
<1> QED
  BY <1>4, <1>6, <1>8, <1>9, <1>10, <1>11 DEF Inv

\* Telegram signs with another key: who holds one that is withdrawn is told.
LEMMA RotateKeeps ==
  ASSUME Inv, NEW kid \in Kids, NEW keys \in SUBSET Kids, Rotate(kid, keys)
  PROVE  Inv'
<1> USE DEF passkeys, counters, history
<1>0. TypeOK /\ RequestsOK /\ ApartOK /\ OnceOK /\ CookieOK /\ KeysOK /\ SignaturesOK
  BY DEF Inv
<1>1. UNCHANGED <<passkeys, once, cookie, jwks, counters, history>> /\ served' = keys
  BY DEF Rotate
<1>2. ASSUME NEW o \in Requests
      PROVE  /\ request'[o] \in RequestTypes /\ LocalOK(request[o])'
             /\ request'[o].pc = request[o].pc /\ request'[o].once = request[o].once
  <2>1. PICK q \in RequestTypes : q = request[o]
    BY <1>0 DEF TypeOK
  <2>2. PICK new : new = request'[o]
    OBVIOUS
  <2>3. new = IF q.key \in served \ keys THEN [q EXCEPT !.served = FALSE] ELSE q
    BY <2>1, <2>2 DEF Rotate
  <2>4. /\ new \in RequestTypes /\ new.pc = q.pc /\ new.once = q.once /\ new.key = q.key
        /\ new.count = q.count /\ new.stored = q.stored /\ new.keys = q.keys
        /\ new.again = q.again /\ new.verdict = q.verdict
        /\ new.served => q.served /\ q.key \notin served \ keys
    BY <2>3 DEF RequestTypes
  <2>5. LocalOK(q)
    BY <1>0, <2>1 DEF RequestsOK
  <2>6. SpentOK(new)' /\ SignatureOK(new)'
    BY <1>1, <2>4, <2>5 DEF LocalOK, SpentOK, SignatureOK, Signed
  <2>7. TokenOK(new)'
    BY <1>1, <2>4, <2>5 DEF LocalOK, TokenOK
  <2>8. VerdictOK(new)'
    BY <1>1, <2>4, <2>5 DEF LocalOK, VerdictOK, Signed
  <2>9. LocalOK(new)'
    BY <2>6, <2>7, <2>8 DEF LocalOK
  <2> QED
    BY <2>1, <2>2, <2>4, <2>9, OneStays
<1>3. TypeOK'
  <2>1. signer' \in served' /\ served' \subseteq Kids
    BY DEF Rotate
  <2>2. request' \in [Requests -> RequestTypes]
    BY <1>2 DEF Rotate
  <2> QED
    BY <1>0, <1>1, <2>1, <2>2 DEF TypeOK
<1>4. RequestsOK'
  BY <1>2 DEF RequestsOK
<1>5. ApartOK'
  BY <1>0, <1>2 DEF ApartOK
<1>6. OnceOK' /\ CookieOK' /\ SignaturesOK'
  BY <1>0, <1>1 DEF OnceOK, CookieOK, SignaturesOK, Signed
<1>7. KeysOK'
  BY <1>0, <1>1, <1>2, OriginStays DEF KeysOK
<1> QED
  BY <1>3, <1>4, <1>5, <1>6, <1>7 DEF Inv

\* Steps that no request takes.
LEMMA TablesMove ==
  ASSUME Inv, UNCHANGED <<request, opened>>, Grows, TypeOK', OnceOK', CookieOK', KeysOK', SignaturesOK'
  PROVE  Inv'
<1>1. \A o \in Requests : LocalOK(request[o])'
  BY OthersStay DEF Inv
<1> QED
  BY <1>1 DEF Inv, RequestsOK, ApartOK

LEMMA SignKeeps == ASSUME Inv, NEW c \in Challenges, NEW k \in Keys, Sign(c, k) PROVE Inv'
<1> USE DEF counters, telegram, history
<1>0. TypeOK /\ KeysOK /\ SignaturesOK /\ OnceOK /\ CookieOK
  BY DEF Inv
<1>1. PICK n \in Nat : n = IF k \in Silent THEN 0 ELSE device[k] + 1
  BY <1>0 DEF TypeOK
<1>2. /\ device' = [device EXCEPT ![k] = n]
      /\ signed' = [signed EXCEPT ![c] = [key |-> k, count |-> n]]
      /\ once[c] # "unused" /\ ~Signed(c)
      /\ UNCHANGED <<key, once, cookie, telegram, request, counters, history>>
  BY <1>0, <1>1 DEF Sign, Signed, TypeOK
<1>3. /\ \A j \in Keys : device[j] \in Nat /\ device'[j] \in Nat /\ device[j] <= device'[j]
                         /\ key[j].count \in Nat
      /\ device'[k] = n /\ (k \in Silent => n = 0) /\ (k \notin Silent => n = device[k] + 1)
  BY <1>0, <1>1, <1>2 DEF TypeOK, KeysOK
<1>4. /\ \A d \in Challenges \ {c} : signed'[d] = signed[d]
      /\ signed'[c].key = k /\ signed'[c].count = n /\ signed'[c] # NotSigned
      /\ \A d \in Challenges : signed[d].count \in Nat
  BY <1>0, <1>2, NamesAssumption DEF TypeOK, NotSigned
<1>5. TypeOK'
  BY <1>0, <1>1, <1>2 DEF TypeOK
<1>6. Grows
  BY <1>2, <1>4 DEF Grows
<1>7. OnceOK' /\ CookieOK'
  BY <1>0, <1>2 DEF OnceOK, CookieOK
<1>8. SignaturesOK'
  <2>1. \A d \in Challenges \ {c} : Signed(d) =>
           /\ signed[d].key \in Keys /\ signed[d].count <= device[signed[d].key]
           /\ signed[d].count <= device'[signed[d].key]
    BY <1>0, <1>3, <1>4 DEF SignaturesOK
  <2>2. \A d \in Challenges \ {c} : Signed(d) /\ signed[d].key = k /\ k \notin Silent => signed[d].count < n
    BY <1>3, <1>4, <2>1
  <2> QED
    BY <1>0, <1>2, <1>3, <1>4, <2>1, <2>2 DEF SignaturesOK, Signed
<1>9. KeysOK'
  <2>1. ASSUME NEW j \in Keys, j \notin Silent, Origin(j) PROVE Origin(j)'
    <3>1. CASE \A d \in Challenges : Signed(d) /\ signed[d].key = j => signed[d].count > key[j].count
      <4>1. k = j => n > key[j].count
        BY <1>0, <1>3, <2>1 DEF KeysOK
      <4> QED
        BY <1>2, <1>4, <3>1, <4>1 DEF Origin, Signed
    <3>2. ASSUME NEW d \in sent \cap Challenges, Signed(d), signed[d].key = j,
                 signed[d].count = key[j].count,
                 \A o \in Requests : request[o].pc \in Counting => request[o].once # d
          PROVE  Origin(j)'
      <4>1. signed'[d] = signed[d]
        BY <1>2, <1>4, <3>2
      <4> QED
        BY <1>2, <3>2, <4>1 DEF Origin, Signed
    <3> QED
      BY <2>1, <3>1, <3>2 DEF Origin
  <2>2. \A j \in Keys : key[j].count <= device'[j] /\ (j \in Silent => device'[j] = 0)
    BY <1>0, <1>1, <1>2, <1>3 DEF KeysOK, TypeOK
  <2> QED
    BY <1>0, <1>2, <2>1, <2>2 DEF KeysOK
<1> QED
  BY <1>2, <1>5, <1>6, <1>7, <1>8, <1>9, TablesMove

LEMMA OutsideKeeps ==
  ASSUME Inv, \/ \E c \in Challenges : Options(c)
              \/ \E s \in States : Start(s)
              \/ \E x \in OneTime : Expires(x)
              \/ \E k \in Keys : Remove(k)
              \/ CacheExpires
  PROVE  Inv'
<1> USE DEF counters, telegram, history
<1>0. TypeOK /\ KeysOK /\ SignaturesOK /\ OnceOK /\ CookieOK
  BY DEF Inv
<1>1. ASSUME NEW x \in OneTime, UNCHANGED <<passkeys, telegram, request, opened, sent>>,
             NEW value \in {"kept", "spent"}, once' = [once EXCEPT ![x] = value],
             once[x] \in {"unused", "kept"}, expired \subseteq expired', crossed \subseteq crossed',
             value = "spent" => x \in expired', TypeOK', CookieOK'
      PROVE  Inv'
  <2>1. OnceOK'
    BY <1>0, <1>1 DEF OnceOK, TypeOK
  <2>2. SignaturesOK'
    BY <1>0, <1>1 DEF SignaturesOK, Signed, passkeys, OneTime, TypeOK
  <2>3. KeysOK'
    BY <1>0, <1>1, OriginStays DEF KeysOK, passkeys
  <2>4. Grows
    BY <1>1 DEF Grows, passkeys
  <2> QED
    BY <1>1, <2>1, <2>2, <2>3, <2>4, TablesMove
<1>2. ASSUME NEW c \in Challenges, Options(c) PROVE Inv'
  <2>1. TypeOK'
    BY <1>0, <1>2 DEF Options, TypeOK, passkeys, OneTime
  <2>2. CookieOK'
    BY <1>0, <1>2, NamesAssumption DEF Options, TypeOK, CookieOK, OneTime
  <2> QED
    BY <1>1, <1>2, <2>1, <2>2 DEF Options, OneTime
<1>3. ASSUME NEW s \in States, Start(s) PROVE Inv'
  <2>1. TypeOK'
    BY <1>0, <1>3 DEF Start, Unbinds, Pending, TypeOK, passkeys, OneTime
  <2>2. CookieOK'
    BY <1>0, <1>3 DEF Start, Unbinds, Pending, TypeOK, CookieOK, OneTime
  <2> QED
    BY <1>1, <1>3, <2>1, <2>2 DEF Start, Unbinds, OneTime
<1>4. ASSUME NEW x \in OneTime, Expires(x) PROVE Inv'
  <2>1. TypeOK'
    BY <1>0, <1>4 DEF Expires, TypeOK, passkeys
  <2>2. CookieOK'
    BY <1>0, <1>4 DEF Expires, TypeOK, CookieOK, OneTime
  <2> QED
    BY <1>1, <1>4, <2>1, <2>2 DEF Expires
<1>5. ASSUME NEW k \in Keys, Remove(k) PROVE Inv'
  <2>1. /\ key' \in [Keys -> [there : BOOLEAN, count : Nat]]
        /\ \A j \in Keys : key'[j].count = key[j].count /\ (~key[j].there => ~key'[j].there)
    BY <1>0, <1>5 DEF Remove, TypeOK
  <2>2. UNCHANGED <<device, signed, once, cookie, telegram, request, counters, history>>
    BY <1>5 DEF Remove
  <2>3. TypeOK'
    BY <1>0, <2>1, <2>2 DEF TypeOK
  <2>4. OnceOK' /\ CookieOK' /\ SignaturesOK'
    BY <1>0, <2>2 DEF OnceOK, CookieOK, SignaturesOK, Signed
  <2>5. KeysOK'
    BY <1>0, <2>1, <2>2, OriginStays DEF KeysOK
  <2>6. Grows
    BY <2>1, <2>2 DEF Grows
  <2> QED
    BY <2>2, <2>3, <2>4, <2>5, <2>6, TablesMove
<1>6. CASE CacheExpires
  <2>1. UNCHANGED <<passkeys, once, cookie, served, signer, request, counters, history>>
    BY <1>6 DEF CacheExpires
  <2>2. TypeOK'
    <3>1. jwks' = {} /\ Cardinality({}) = 0
      BY <1>6, FS_EmptySet DEF CacheExpires
    <3> QED
      BY <1>0, <2>1, <3>1 DEF TypeOK, passkeys
  <2>3. OnceOK' /\ CookieOK' /\ SignaturesOK'
    BY <1>0, <2>1 DEF OnceOK, CookieOK, SignaturesOK, Signed, passkeys
  <2>4. KeysOK'
    BY <1>0, <2>1, OriginStays DEF KeysOK, passkeys
  <2>5. Grows
    BY <2>1 DEF Grows, passkeys
  <2> QED
    BY <2>1, <2>2, <2>3, <2>4, <2>5, TablesMove
<1> QED
  BY <1>2, <1>3, <1>4, <1>5, <1>6

LEMMA NextInv == Inv /\ [Next]_vars => Inv'
<1> SUFFICES ASSUME Inv, [Next]_vars PROVE Inv'
  OBVIOUS
<1>1. ASSUME NEW r \in Requests, PasskeyStep(r) \/ TelegramStep(r) PROVE Inv'
  BY <1>1, LoginKeeps, FindKeyKeeps, CountKeeps, ReturnKeeps, ReturnEmptyKeeps,
           WaysKeep DEF PasskeyStep, TelegramStep
<1>2. ASSUME NEW r \in Requests, Issue(r) \/ Answer(r) \/ Dies(r) PROVE Inv'
  BY <1>2, IssueKeeps, AnswerKeeps, WaysKeep
<1>3. ASSUME NEW kid \in Kids, NEW keys \in SUBSET Kids, Rotate(kid, keys) PROVE Inv'
  BY <1>3, RotateKeeps
<1>4. ASSUME NEW c \in Challenges, NEW k \in Keys, Sign(c, k) PROVE Inv'
  BY <1>4, SignKeeps
<1>5. CASE UNCHANGED vars
  <2> USE <1>5 DEF vars, passkeys, telegram, counters, history
  <2>1. Grows
    BY DEF Grows
  <2>2. TypeOK' /\ OnceOK' /\ CookieOK' /\ SignaturesOK'
    BY DEF Inv, TypeOK, OnceOK, CookieOK, SignaturesOK, Signed
  <2>3. KeysOK'
    BY OriginStays DEF Inv, KeysOK
  <2> QED
    BY <2>1, <2>2, <2>3, TablesMove
<1> QED
  BY <1>1, <1>2, <1>3, <1>4, <1>5, OutsideKeeps DEF Next

LEMMA InitInv == Init => Inv
<1> SUFFICES ASSUME Init PROVE Inv
  OBVIOUS
<1>1. jwks \subseteq SUBSET Kids /\ Cardinality(jwks) <= 1 /\ signer \in served /\ served \subseteq Kids
  <2>1. jwks = {} \/ jwks = {served}
    BY DEF Init
  <2>2. Cardinality({}) = 0 /\ Cardinality({served}) = 1
    BY FS_EmptySet, FS_Singleton
  <2>3. Cardinality(jwks) \in {0, 1}
    BY <2>1, <2>2
  <2>4. signer \in served /\ served \subseteq Kids
    BY DEF Init
  <2> QED
    BY <2>1, <2>3, <2>4
<1>2. \A k \in Keys : /\ key[k] \in [there : BOOLEAN, count : Nat] /\ device[k] = key[k].count
                      /\ key[k].count \in Nat /\ (k \in Silent => key[k].count = 0)
  <2> SUFFICES ASSUME NEW k \in Keys
               PROVE  /\ key[k] \in [there : BOOLEAN, count : Nat] /\ device[k] = key[k].count
                      /\ key[k].count \in Nat /\ (k \in Silent => key[k].count = 0)
    OBVIOUS
  <2>1. PICK counts \in [Keys -> {0, 1}] :
           key = [j \in Keys |-> [there |-> TRUE, count |-> counts[j]]]
    BY DEF Init
  <2>2. key[k] = [there |-> TRUE, count |-> counts[k]] /\ counts[k] \in Nat
    BY <2>1
  <2>3. key[k] \in [there : BOOLEAN, count : Nat] /\ key[k].count \in Nat
    BY <2>2
  <2>4. device[k] = key[k].count /\ (k \in Silent => key[k].count = 0)
    BY DEF Init
  <2> QED
    BY <2>3, <2>4
<1>3. TypeOK
  <2>1. key \in [Keys -> [there : BOOLEAN, count : Nat]] /\ device \in [Keys -> Nat]
    BY <1>2 DEF Init
  <2>2. signed \in [Challenges -> [key : Keys \cup {None}, count : Nat]]
    BY DEF Init, NotSigned
  <2>3. request \in [Requests -> RequestTypes]
    BY IdleOK DEF Init
  <2> QED
    BY <1>1, <2>1, <2>2, <2>3, BoundsAssumption DEF Init, TypeOK
<1>4. \A r \in Requests : request[r] = Idle
  BY DEF Init
<1>5. RequestsOK /\ ApartOK
  BY <1>4, IdleOK DEF RequestsOK, ApartOK, Working
<1>6. OnceOK /\ CookieOK /\ SignaturesOK
  BY DEF Init, OnceOK, CookieOK, SignaturesOK, Signed, OneTime
<1>7. KeysOK
  BY <1>2 DEF Init, KeysOK, Origin, Signed
<1> QED
  BY <1>3, <1>5, <1>6, <1>7 DEF Inv

-----------------------------------------------------------------------------
\* What requests carry, what is spent and what is stored fits together in every
\* reachable state.
THEOREM Invariance == Spec => []Inv
<1>1. Init => Inv
  BY InitInv
<1>2. Inv /\ [Next]_vars => Inv'
  BY NextInv
<1> QED
  BY <1>1, <1>2, PTL DEF Spec

\* Every variable keeps its type.
THEOREM TypeCorrect == Spec => []TypeOK
<1>1. Inv => TypeOK
  BY DEF Inv
<1> QED
  BY <1>1, Invariance, PTL

\* A signed challenge and a return from Telegram open one session, however many
\* requests present them at once.
THEOREM OneSessionEach == Spec => []OneEntryEach
<1>1. Inv => OneEntryEach
  BY DEF Inv, OnceOK, OneEntryEach
<1> QED
  BY <1>1, Invariance, PTL

\* Whoever comes with what was given out is refused only for what happened to it
\* since; for the cookie, only when another start or the answer to some other
\* return, declined ones included, fell between.
THEOREM RefusalsHaveCause == Spec => []NobodyTurnedAway
<1>1. Inv => NobodyTurnedAway
  BY DEF Inv, RequestsOK, LocalOK, VerdictOK, NobodyTurnedAway, At
<1> QED
  BY <1>1, Invariance, PTL

\* The stored count of a passkey stays behind its authenticator, and falls back
\* only over another login that has read the same count.
THEOREM CountsFallOnlyBetweenLogins == Spec => CountsHold
<1>1. ASSUME Inv, [Next]_vars
      PROVE  [\A k \in Keys :
                /\ key[k].count <= device[k]
                /\ key'[k].count < key[k].count =>
                      \E r \in Requests : At(r, "count") /\ request[r].key = k
                                          /\ request[r].stored # key[k].count]_vars
  <2>0. TypeOK /\ RequestsOK /\ KeysOK /\ SignaturesOK
    BY <1>1 DEF Inv
  <2> SUFFICES ASSUME Next, NEW k \in Keys, key'[k].count < key[k].count
               PROVE  \E r \in Requests : At(r, "count") /\ request[r].key = k
                                          /\ request[r].stored # key[k].count
    BY <1>1, <2>0 DEF KeysOK
  <2> USE DEF passkeys, history
  <2>1. key[k].count \in Nat /\ key'[k].count # key[k].count
    BY <2>0 DEF TypeOK
  <2>2. PICK r \in Requests : CountCommits(r) /\ request[r].key = k
    <3>1. ASSUME NEW j \in Keys, Remove(j) PROVE FALSE
      BY <2>0, <2>1, <3>1 DEF Remove, TypeOK
    <3>2. ASSUME NEW r \in Requests, CountCommits(r) PROVE request[r].key = k
      BY <2>0, <2>1, <3>2 DEF CountCommits, TypeOK
    <3>3. \/ \E r \in Requests : CountCommits(r)
          \/ \E j \in Keys : Remove(j)
          \/ UNCHANGED key
      BY DEF Next, PasskeyStep, TelegramStep, Login, FindKey, Return, ReturnEmpty, Begin, Exchange, Cached,
             FetchFirst, FetchAgain, Fetch, Put, TelegramSilent, Issue, Answer, Dies, Options,
             Sign, Start, Expires, Rotate, CacheExpires
    <3> QED
      BY <2>1, <3>1, <3>2, <3>3
  <2>3. PICK q \in RequestTypes : q = request[r]
    BY <2>0 DEF TypeOK
  <2>4. q.pc = "count" /\ q.key = k /\ key'[k].count = q.count /\ q.count \in Nat /\ q.stored \in Nat
    BY <2>0, <2>1, <2>2, <2>3 DEF CountCommits, At, TypeOK, RequestTypes
  <2>5. (q.count = 0 /\ q.stored = 0) \/ q.count > q.stored
    BY <2>0, <2>3, <2>4 DEF RequestsOK, LocalOK, SignatureOK
  <2>6. q.stored # key[k].count
    BY <2>1, <2>4, <2>5
  <2> QED
    BY <2>2, <2>3, <2>4, <2>6 DEF At
<1> QED
  BY <1>1, Invariance, PTL DEF Spec, CountsHold

-----------------------------------------------------------------------------
(* The two ways in implement OneTimeValues. A value that has expired stays   *)
(* out of every request that could still open a session.                     *)

LostOK ==
    \A x \in expired :
        /\ once[x] = "spent"
        /\ \A r \in Requests : request[r].pc \in Working => request[r].once # x

\* A request that goes on keeps its value, and none begins to work on another.
LEMMA WorkGoesOn ==
  ASSUME Inv, NEW r \in Requests,
         \/ FindKey(r) \/ CountCommits(r) \/ Exchange(r) \/ Cached(r) \/ FetchFirst(r)
         \/ FetchAgain(r) \/ Put(r) \/ TelegramSilent(r) \/ Issue(r) \/ Answer(r) \/ Dies(r)
  PROVE  /\ UNCHANGED <<once, expired>>
         /\ \A o \in Requests : request'[o].pc \in Working =>
               request[o].pc \in Working /\ request'[o].once = request[o].once
<1> USE DEF passkeys, telegram, counters, history
<1>0. TypeOK
  BY DEF Inv
<1>1. PICK q \in RequestTypes : q = request[r]
  BY <1>0 DEF TypeOK
<1>2. UNCHANGED <<once, expired>>
  BY DEF FindKey, CountCommits, Exchange, Cached, FetchFirst, FetchAgain, Fetch, Put,
         TelegramSilent, Issue, Answer, Dies
<1>3. ASSUME NEW new, request' = [request EXCEPT ![r] = new],
             new.pc \in Working => q.pc \in Working /\ new.once = q.once
      PROVE  \A o \in Requests : request'[o].pc \in Working =>
                request[o].pc \in Working /\ request'[o].once = request[o].once
  BY <1>0, <1>1, <1>3 DEF TypeOK
<1>4. ASSUME NEW verdict, Says(r, verdict)
      PROVE  \A o \in Requests : request'[o].pc \in Working =>
                request[o].pc \in Working /\ request'[o].once = request[o].once
  <2>1. [q EXCEPT !.pc = "answer", !.verdict = verdict].pc \notin Working
    BY DEF RequestTypes, Working
  <2> QED
    BY <1>1, <1>3, <1>4, <2>1 DEF Says, Becomes
<1>5. ASSUME Becomes(r, Idle)
      PROVE  \A o \in Requests : request'[o].pc \in Working =>
                request[o].pc \in Working /\ request'[o].once = request[o].once
  BY <1>3, <1>5, IdleOK DEF Becomes, Working
<1>6. ASSUME q.pc \in Working, NEW keys, Becomes(r, Looked(q, keys))
      PROVE  \A o \in Requests : request'[o].pc \in Working =>
                request[o].pc \in Working /\ request'[o].once = request[o].once
  <2>1. Looked(q, keys).once = q.once
    BY DEF Looked, RequestTypes
  <2> QED
    BY <1>3, <1>6, <2>1 DEF Becomes
<1>7. CASE FindKey(r)
  <2>1. [q EXCEPT !.pc = "count", !.stored = key[q.key].count].once = q.once
    BY DEF RequestTypes
  <2>2. q.pc \in Working
    BY <1>1, <1>7 DEF FindKey, At, Working
  <2>3. \/ \E verdict \in Verdicts : Says(r, verdict)
        \/ Becomes(r, [q EXCEPT !.pc = "count", !.stored = key[q.key].count])
    BY <1>1, <1>7 DEF FindKey, Verdicts
  <2> QED
    BY <1>2, <1>3, <1>4, <2>1, <2>2, <2>3 DEF Becomes
<1>8. CASE CountCommits(r)
  <2>1. [q EXCEPT !.pc = "issue"].once = q.once
    BY DEF RequestTypes
  <2>2. q.pc \in Working
    BY <1>1, <1>8 DEF CountCommits, At, Working
  <2>3. Says(r, "gone") \/ Becomes(r, [q EXCEPT !.pc = "issue"])
    BY <1>1, <1>8 DEF CountCommits
  <2> QED
    BY <1>2, <1>3, <1>4, <2>1, <2>2, <2>3 DEF Becomes
<1>9. CASE Exchange(r)
  <2>1. [q EXCEPT !.pc = "cached", !.key = signer].once = q.once
    BY DEF RequestTypes
  <2>2. q.pc \in Working
    BY <1>1, <1>9 DEF Exchange, At, Working
  <2> QED
    BY <1>1, <1>2, <1>3, <1>9, <2>1, <2>2 DEF Exchange, Becomes
<1>10. CASE Cached(r) \/ Put(r)
  <2>1. q.pc \in Working
    BY <1>1, <1>10 DEF Cached, Put, At, Working
  <2>2. [q EXCEPT !.pc = "first"].once = q.once
    BY DEF RequestTypes
  <2>3. \/ Becomes(r, [q EXCEPT !.pc = "first"])
        \/ \E keys : Becomes(r, Looked(q, keys))
    BY <1>1, <1>10 DEF Cached, Put
  <2> QED
    BY <1>2, <1>3, <1>6, <2>1, <2>2, <2>3 DEF Becomes
<1>11. ASSUME NEW pc \in {"first", "again"}, NEW next, Fetch(r, pc, next)
       PROVE  \A o \in Requests : request'[o].pc \in Working =>
                 request[o].pc \in Working /\ request'[o].once = request[o].once
  <2>1. [q EXCEPT !.pc = next, !.keys = served].once = q.once
    BY DEF RequestTypes
  <2>2. q.pc \in Working
    BY <1>1, <1>11 DEF Fetch, At, Working
  <2> QED
    BY <1>1, <1>3, <1>11, <2>1, <2>2 DEF Fetch, Becomes
<1>12. CASE FetchFirst(r) \/ FetchAgain(r)
  BY <1>2, <1>11, <1>12 DEF FetchFirst, FetchAgain
<1>13. CASE TelegramSilent(r) \/ Issue(r)
  BY <1>2, <1>4, <1>13 DEF TelegramSilent, Issue
<1>14. CASE Answer(r) \/ Dies(r)
  BY <1>2, <1>5, <1>14 DEF Answer, Dies
<1> QED
  BY <1>7, <1>8, <1>9, <1>10, <1>12, <1>13, <1>14

\* A return with nothing begins no work.
LEMMA EmptyDoesNothing ==
  ASSUME TypeOK, NEW r \in Requests, ReturnEmpty(r)
  PROVE  /\ UNCHANGED <<once, opened, expired>>
         /\ \A o \in Requests : request'[o].pc \in Working => request'[o] = request[o]
<1>1. PICK new : new = [Idle EXCEPT !.pc = "answer", !.verdict = "invalid"]
  OBVIOUS
<1>2. new.pc \notin Working
  BY <1>1 DEF Idle, Working
<1>3. request' = [request EXCEPT ![r] = new]
  BY <1>1 DEF ReturnEmpty, Becomes
<1> QED
  BY <1>2, <1>3 DEF ReturnEmpty, history, TypeOK

\* A request begins to work only on a value that was kept.
LEMMA WorkBegins ==
  ASSUME Inv, NEW r \in Requests, NEW x \in OneTime,
         \/ x \in Challenges /\ Login(r, x)
         \/ x \in States /\ Return(r, x)
  PROVE  /\ once' = [once EXCEPT ![x] = "spent"] /\ once[x] # "unused"
         /\ UNCHANGED <<opened, expired>>
         /\ \A o \in Requests : request'[o].pc \in Working =>
               \/ request[o].pc \in Working /\ request'[o].once = request[o].once
               \/ once[x] = "kept" /\ request'[o].once = x
<1>0. TypeOK /\ SignaturesOK
  BY DEF Inv
<1>1. PICK new \in RequestTypes, refusal \in {None, "once", "cookie"} :
         /\ Begin(r, x, new, refusal)
         /\ refusal = None => once[x] = "kept"
         /\ once[x] # "unused"
  <2>1. CASE x \in Challenges /\ Login(r, x)
    <3>1. once[x] # "unused"
      BY <1>0, <2>1 DEF SignaturesOK, Signed, Login
    <3>2. signed[x].key \in Keys \cup {None} /\ signed[x].count \in Nat
      BY <1>0, <2>1 DEF TypeOK
    <3>3. PICK new \in RequestTypes :
             new = [Idle EXCEPT !.pc = "find", !.key = signed[x].key, !.count = signed[x].count]
      BY <3>2, IdleOK DEF RequestTypes
    <3>4. PICK refusal : refusal = IF once[x] = "kept" THEN None ELSE "once"
      OBVIOUS
    <3>5. Begin(r, x, new, refusal)
      BY <2>1, <3>3, <3>4 DEF Login
    <3>6. refusal \in {None, "once", "cookie"} /\ (refusal = None => once[x] = "kept")
      BY <3>4 DEF None
    <3> QED
      BY <3>1, <3>5, <3>6
  <2>2. CASE x \in States /\ Return(r, x)
    <3>1. PICK new \in RequestTypes : new = [Idle EXCEPT !.pc = "exchange", !.cookie = cookie]
      BY <1>0, IdleOK DEF RequestTypes, TypeOK
    <3>2. PICK refusal : refusal = CASE once[x] # "kept" -> "once"
                                     [] once[x] = "kept" /\ cookie # x -> "cookie"
                                     [] OTHER -> None
      OBVIOUS
    <3>3. Begin(r, x, new, refusal) /\ once[x] # "unused"
      BY <2>2, <3>1, <3>2 DEF Return
    <3>4. refusal \in {None, "once", "cookie"} /\ (refusal = None => once[x] = "kept")
      BY <3>2 DEF None
    <3> QED
      BY <3>3, <3>4
  <2> QED
    BY <2>1, <2>2
<1>2. PICK came : came = [new EXCEPT !.once = x, !.again = x \in sent]
  OBVIOUS
<1>3. came.once = x /\ [came EXCEPT !.pc = "answer", !.verdict = refusal].pc = "answer"
  BY <1>2 DEF RequestTypes
<1>4. /\ once' = [once EXCEPT ![x] = "spent"]
      /\ UNCHANGED <<opened, expired>>
      /\ request' = [request EXCEPT ![r] = IF refusal = None THEN came
                       ELSE [came EXCEPT !.pc = "answer", !.verdict = refusal]]
  BY <1>1, <1>2 DEF Begin, Becomes, Taken
<1>5. \A o \in Requests \ {r} : request'[o] = request[o]
  BY <1>0, <1>4 DEF TypeOK
<1>6. request'[r].pc \in Working => once[x] = "kept" /\ request'[r].once = x
  <2>1. CASE refusal = None
    BY <1>0, <1>1, <1>3, <1>4, <2>1 DEF TypeOK
  <2>2. CASE refusal # None
    BY <1>0, <1>3, <1>4, <2>2 DEF TypeOK, Working
  <2> QED
    BY <2>1, <2>2
<1> QED
  BY <1>1, <1>4, <1>5, <1>6

LEMMA LostStays == Inv /\ LostOK /\ [Next]_vars => LostOK'
<1> SUFFICES ASSUME Inv, LostOK, [Next]_vars PROVE LostOK'
  OBVIOUS
<1> USE DEF counters, telegram, history
<1>0. TypeOK /\ RequestsOK /\ OnceOK
  BY DEF Inv
<1>1. ASSUME NEW r \in Requests,
             \/ FindKey(r) \/ CountCommits(r) \/ Exchange(r) \/ Cached(r) \/ FetchFirst(r)
             \/ FetchAgain(r) \/ Put(r) \/ TelegramSilent(r) \/ Issue(r) \/ Answer(r) \/ Dies(r)
      PROVE  LostOK'
  BY <1>1, WorkGoesOn DEF LostOK
<1>2. ASSUME NEW r \in Requests, NEW x \in OneTime,
             \/ x \in Challenges /\ Login(r, x)
             \/ x \in States /\ Return(r, x)
      PROVE  LostOK'
  BY <1>0, <1>2, WorkBegins DEF LostOK, TypeOK
<1>3. ASSUME NEW x \in OneTime, Expires(x) PROVE LostOK'
  <2>1. \A o \in Requests : request[o].pc \in Working => once[request[o].once] = "spent"
    BY <1>0 DEF RequestsOK, LocalOK, SpentOK, OnceOK, Working, TypeOK, RequestTypes
  <2>2. \A o \in Requests : request[o].pc \in Working => request[o].once # x
    BY <1>3, <2>1 DEF Expires
  <2> QED
    BY <1>0, <1>3, <2>2 DEF Expires, LostOK, TypeOK
<1>4. ASSUME NEW x \in OneTime, once[x] = "unused", once' = [once EXCEPT ![x] = "kept"],
             UNCHANGED <<request, expired>>
      PROVE  LostOK'
  BY <1>0, <1>4 DEF LostOK, TypeOK
<1>5. ASSUME \/ \E c \in Challenges : Options(c)
             \/ \E s \in States : Start(s)
      PROVE  LostOK'
  BY <1>4, <1>5 DEF Options, Start, OneTime
<1>6. ASSUME NEW kid \in Kids, NEW keys \in SUBSET Kids, Rotate(kid, keys) PROVE LostOK'
  <2>1. \A o \in Requests : request'[o].pc = request[o].pc /\ request'[o].once = request[o].once
    <3> SUFFICES ASSUME NEW o \in Requests
                 PROVE  request'[o].pc = request[o].pc /\ request'[o].once = request[o].once
      OBVIOUS
    <3>1. PICK q \in RequestTypes : q = request[o]
      BY <1>0 DEF TypeOK
    <3>2. request'[o] = IF q.key \in served \ keys THEN [q EXCEPT !.served = FALSE] ELSE q
      BY <1>6, <3>1 DEF Rotate
    <3>3. [q EXCEPT !.served = FALSE].pc = q.pc /\ [q EXCEPT !.served = FALSE].once = q.once
      BY DEF RequestTypes
    <3> QED
      BY <3>1, <3>2, <3>3
  <2>2. UNCHANGED <<once, expired>>
    BY <1>6 DEF Rotate
  <2> QED
    BY <2>1, <2>2 DEF LostOK
<1>7. ASSUME UNCHANGED <<once, expired, request>> PROVE LostOK'
  BY <1>7 DEF LostOK
<1>8. ASSUME \/ \E c \in Challenges, k \in Keys : Sign(c, k)
             \/ \E k \in Keys : Remove(k)
             \/ CacheExpires
             \/ UNCHANGED vars
      PROVE  UNCHANGED <<once, expired, request>>
  BY <1>8 DEF Sign, Remove, CacheExpires, vars
<1>9. ASSUME NEW r \in Requests, ReturnEmpty(r) PROVE LostOK'
  BY <1>0, <1>9, EmptyDoesNothing DEF LostOK
<1>10. ASSUME NEW r \in Requests, PasskeyStep(r) \/ TelegramStep(r) PROVE LostOK'
  BY <1>1, <1>2, <1>9, <1>10 DEF PasskeyStep, TelegramStep, OneTime
<1> QED
  BY <1>1, <1>3, <1>5, <1>6, <1>7, <1>8, <1>10 DEF Next

-----------------------------------------------------------------------------
\* What the state of two values tells of their lives.
LEMMA LifeStays ==
  ASSUME NEW x \in OneTime, once'[x] = once[x], opened'[x] = opened[x],
         x \in expired' <=> x \in expired
  PROVE  LifeOf(x)' = LifeOf(x)
BY DEF LifeOf

Lives == [x \in OneTime |-> LifeOf(x)]

\* One value moves on in its life, the others stay where they are.
LEMMA LifeMoves ==
  ASSUME NEW x \in OneTime, NEW from, NEW to, LifeOf(x) = from, LifeOf(x)' = to,
         \A y \in OneTime \ {x} : LifeOf(y)' = LifeOf(y)
  PROVE  Promise!Moves(x, from, to)
<1>1. Lives' = [Lives EXCEPT ![x] = to]
  BY DEF Lives
<1> QED
  BY <1>1 DEF Lives, Promise!Moves

LEMMA StepRefines == Inv /\ LostOK /\ [Next]_vars => [Promise!Next]_<<Lives, opened>>
<1> SUFFICES ASSUME Inv, LostOK, [Next]_vars PROVE [Promise!Next]_<<Lives, opened>>
  OBVIOUS
<1> USE DEF passkeys, counters, telegram, history
<1>0. TypeOK /\ RequestsOK /\ OnceOK
  BY DEF Inv
<1>1. \A x \in OneTime : opened[x] \in {0, 1} /\ once[x] \in {"unused", "kept", "spent"}
  BY <1>0 DEF OnceOK, TypeOK
<1>2. ASSUME UNCHANGED <<once, opened, expired>> PROVE UNCHANGED <<Lives, opened>>
  <2>1. \A x \in OneTime : LifeOf(x)' = LifeOf(x)
    BY <1>2, LifeStays
  <2> QED
    BY <1>2, <2>1 DEF Lives
<1>3. ASSUME NEW r \in Requests, NEW x \in OneTime,
             \/ x \in Challenges /\ Login(r, x)
             \/ x \in States /\ Return(r, x)
      PROVE  Promise!Take(x) \/ UNCHANGED <<Lives, opened>>
  <2>1. /\ once' = [once EXCEPT ![x] = "spent"] /\ once[x] # "unused"
        /\ UNCHANGED <<opened, expired>>
    BY <1>3, WorkBegins
  <2>2. CASE once[x] = "kept"
    <3>1. LifeOf(x) = "kept"
      BY <2>2 DEF LifeOf
    <3>2. opened[x] = 0 /\ x \notin expired
      BY <1>0, <2>2 DEF OnceOK, LostOK
    <3>3. LifeOf(x)' = "taken"
      BY <1>0, <2>1, <3>2 DEF LifeOf, TypeOK
    <3>4. \A y \in OneTime \ {x} : LifeOf(y)' = LifeOf(y)
      BY <1>0, <2>1, LifeStays DEF TypeOK
    <3> QED
      BY <2>1, <3>1, <3>3, <3>4, LifeMoves DEF Promise!Take
  <2>3. CASE once[x] = "spent"
    BY <1>0, <1>2, <2>1, <2>3 DEF TypeOK
  <2> QED
    BY <1>1, <2>1, <2>2, <2>3
<1>4. ASSUME NEW r \in Requests, Issue(r)
      PROVE  \E x \in OneTime : Promise!Open(x)
  <2>1. PICK q \in RequestTypes : q = request[r]
    BY <1>0 DEF TypeOK
  <2>2. q.pc = "issue" /\ q.pc \in Working /\ q.once \in sent /\ opened[q.once] = 0
    BY <1>0, <1>4, <2>1 DEF Issue, At, RequestsOK, LocalOK, SpentOK, Working
  <2>3. PICK x \in OneTime : x = q.once
    BY <1>0, <2>2 DEF TypeOK
  <2>4. once[x] = "spent" /\ x \notin expired
    BY <1>0, <2>1, <2>2, <2>3 DEF OnceOK, LostOK
  <2>5. /\ opened' = [opened EXCEPT ![x] = @ + 1]
        /\ UNCHANGED <<once, expired>>
    BY <1>4, <2>1, <2>3 DEF Issue
  <2>6. opened'[x] = 1
    BY <1>0, <2>2, <2>3, <2>5 DEF TypeOK
  <2>7. LifeOf(x) = "taken"
    BY <2>2, <2>3, <2>4 DEF LifeOf
  <2>8. LifeOf(x)' = "used"
    BY <2>4, <2>5, <2>6 DEF LifeOf
  <2>9. \A y \in OneTime \ {x} : LifeOf(y)' = LifeOf(y)
    BY <1>0, <2>5, LifeStays DEF TypeOK
  <2> QED
    BY <2>5, <2>7, <2>8, <2>9, LifeMoves DEF Promise!Open
<1>5. ASSUME NEW x \in OneTime, Expires(x) PROVE Promise!Lose(x)
  <2>1. /\ once[x] = "kept" /\ once' = [once EXCEPT ![x] = "spent"]
        /\ expired' = expired \cup {x} /\ UNCHANGED opened
    BY <1>5 DEF Expires
  <2>2. opened[x] = 0
    BY <1>0, <2>1 DEF OnceOK
  <2>3. LifeOf(x) = "kept"
    BY <2>1 DEF LifeOf
  <2>4. LifeOf(x)' = "lost"
    BY <1>0, <2>1, <2>2 DEF LifeOf, TypeOK
  <2>5. \A y \in OneTime \ {x} : LifeOf(y)' = LifeOf(y)
    BY <1>0, <2>1, LifeStays DEF TypeOK
  <2> QED
    BY <2>1, <2>3, <2>4, <2>5, LifeMoves DEF Promise!Lose
<1>6. ASSUME NEW x \in OneTime, once[x] = "unused", once' = [once EXCEPT ![x] = "kept"],
             UNCHANGED <<opened, expired>>
      PROVE  Promise!Give(x)
  <2>1. LifeOf(x) = "unused"
    BY <1>6 DEF LifeOf
  <2>2. LifeOf(x)' = "kept"
    BY <1>0, <1>6 DEF LifeOf, TypeOK
  <2>3. \A y \in OneTime \ {x} : LifeOf(y)' = LifeOf(y)
    BY <1>0, <1>6, LifeStays DEF TypeOK
  <2> QED
    BY <1>6, <2>1, <2>2, <2>3, LifeMoves DEF Promise!Give
<1>7. ASSUME \/ \E c \in Challenges : Options(c)
             \/ \E s \in States : Start(s)
      PROVE  \E x \in OneTime : Promise!Give(x)
  BY <1>6, <1>7 DEF Options, Start, OneTime
<1>8. ASSUME NEW r \in Requests,
             \/ FindKey(r) \/ CountCommits(r) \/ Exchange(r) \/ Cached(r) \/ FetchFirst(r)
             \/ FetchAgain(r) \/ Put(r) \/ TelegramSilent(r) \/ Answer(r) \/ Dies(r)
      PROVE  UNCHANGED <<once, opened, expired>>
  BY <1>8 DEF FindKey, CountCommits, Exchange, Cached, FetchFirst, FetchAgain, Fetch, Put,
              TelegramSilent, Answer, Dies
<1>9. ASSUME \/ \E c \in Challenges, k \in Keys : Sign(c, k)
             \/ \E k \in Keys : Remove(k)
             \/ \E kid \in Kids, keys \in SUBSET Kids : Rotate(kid, keys)
             \/ CacheExpires
             \/ UNCHANGED vars
      PROVE  UNCHANGED <<once, opened, expired>>
  BY <1>9 DEF Sign, Remove, Rotate, CacheExpires, vars
<1>10. ASSUME NEW r \in Requests, PasskeyStep(r) \/ TelegramStep(r)
       PROVE  [Promise!Next]_<<Lives, opened>>
  <2>1. CASE \/ \E c \in Challenges : Login(r, c)
             \/ \E s \in States : Return(r, s)
    BY <1>3, <2>1 DEF OneTime, Promise!Next
  <2>2. CASE \/ FindKey(r) \/ CountCommits(r) \/ Exchange(r) \/ Cached(r) \/ FetchFirst(r)
             \/ FetchAgain(r) \/ Put(r) \/ TelegramSilent(r)
    BY <1>2, <1>8, <2>2
  <2>3. CASE ReturnEmpty(r)
    BY <1>0, <1>2, <2>3, EmptyDoesNothing
  <2> QED
    BY <1>10, <2>1, <2>2, <2>3 DEF PasskeyStep, TelegramStep
<1>11. ASSUME NEW r \in Requests, Issue(r) \/ Answer(r) \/ Dies(r)
       PROVE  [Promise!Next]_<<Lives, opened>>
  BY <1>2, <1>4, <1>8, <1>11 DEF Promise!Next
<1> QED
  BY <1>2, <1>5, <1>7, <1>9, <1>10, <1>11 DEF Next, Promise!Next

\* Every behaviour of the two ways in is one that OneTimeValues allows: a value
\* that was given out opens a session at most once, by a request that came with
\* it before it had expired.
THEOREM ValuesKeepTheirPromise == Spec => ImplementsOneTimeValues
<1>1. Init => LostOK
  BY DEF Init, LostOK
<1>2. Init => Promise!Init
  BY DEF Init, Promise!Init, LifeOf
<1>3. Spec => []LostOK
  BY <1>1, LostStays, Invariance, PTL DEF Spec
<1>4. Inv /\ LostOK /\ [Next]_vars => [Promise!Next]_<<[x \in OneTime |-> LifeOf(x)], opened>>
  BY StepRefines DEF Lives
<1> QED
  BY <1>2, <1>3, <1>4, Invariance, PTL DEF Spec, ImplementsOneTimeValues, Promise!Spec


=============================================================================
