-------------------------------- MODULE Entry -------------------------------
(* The two ways in that go through a one-time value in Valkey: a passkey,    *)
(* which signs a challenge and counts its signatures (auth/passkey.py,       *)
(* challenges.py), and oauth.telegram.org, which sends the browser back with *)
(* a state and signs an ID token with keys that it rotates (routers/auth.py, *)
(* cookies.py, telegram/oidc.py). What account is found or made then is in   *)
(* Accounts, and what becomes of the session in Refresh.                     *)
(*                                                                           *)
(* Every call to Valkey, the database or Telegram is a step. An answer may   *)
(* arrive late, and a browser may send what it has sent before.              *)
(*                                                                           *)
(* Abstractions.  Signatures hold: what a key has signed is known by its     *)
(* challenge. One browser goes to Telegram, in as many tabs as there are     *)
(* states; a code and its verifier go with the state. Keys of passkeys are   *)
(* rows whose owners exist and are active; who may delete one is in          *)
(* Accounts.                                                                 *)
EXTENDS Integers, FiniteSets

CONSTANTS
    Requests,   \* requests under way at once
    Keys,       \* passkeys
    Silent,     \* those whose authenticator does not count, but says zero
    Challenges,
    States,
    Kids,       \* signing keys of Telegram
    Mixes,      \* bound: what happens together in one behaviour
    MaxBegun,   \* bound: requests begun
    MaxDead     \* bound: requests that die, or whose answer is lost

None == "none"

ASSUME SilentAssumption == Silent \subseteq Keys
ASSUME NamesAssumption ==
    Challenges \cap States = {} /\ None \notin Keys \cup Challenges \cup States
ASSUME KidsAssumption == Kids # {}
ASSUME MixesAssumption ==
    Mixes \subseteq SUBSET {"passkey", "telegram", "expiry", "removal", "rotation", "death"}
ASSUME BoundsAssumption == MaxBegun \in Nat /\ MaxDead \in Nat

VARIABLES
    key,        \* `passkey_credentials`: there or gone, and its sign_count
    device,     \* the counter in the authenticator of each key
    signed,     \* what was signed with each challenge: a key and its counter
    once,       \* the one-time values in Valkey
    cookie,     \* repibot_oidc of the browser: the state it is bound to
    served,     \* the keys Telegram serves
    signer,     \* the key that it signs with
    jwks,       \* the cached set of keys, if there is one: a set of one
    request,    \* each request: where it is and what it has read
    mix, begun, dead,
    opened,     \* history: sessions that each one-time value has opened
    sent,       \* history: one-time values a request came with
    expired,    \* history: those that expired in Valkey
    crossed     \* history: states whose bond to the browser another start, or the
                \* answer to another return, has ended

passkeys == <<key, device, signed>>
telegram == <<served, signer, jwks>>
counters == <<mix, begun, dead>>
history == <<opened, sent, expired, crossed>>
vars == <<passkeys, once, cookie, telegram, request, counters, history>>

OneTime == Challenges \cup States

NotSigned == [key |-> None, count |-> 0]

\* pc of a request that is over; its one-time value; whether that was sent
\* before; the cookie that came along; the key and the count that were signed,
\* or the key that signed the token and whether Telegram serves it since; the
\* stored count, or the set of keys, that it has read; and what it will say.
Idle == [pc |-> "idle", once |-> None, again |-> FALSE, cookie |-> None,
         key |-> None, count |-> 0, served |-> TRUE,
         stored |-> 0, keys |-> {}, verdict |-> None]

Init ==
    /\ \E counts \in [Keys -> {0, 1}] :
           key = [k \in Keys |-> [there |-> TRUE, count |-> counts[k]]]
    /\ \A k \in Silent : key[k].count = 0
    /\ device = [k \in Keys |-> key[k].count]
    /\ signed = [c \in Challenges |-> NotSigned]
    /\ once = [x \in OneTime |-> "unused"]
    /\ cookie = None
    /\ \E kid \in Kids : signer = kid /\ served = {kid}
    /\ jwks \in {{}, {served}}
    /\ request = [r \in Requests |-> Idle]
    /\ mix \in Mixes
    /\ begun = 0 /\ dead = 0
    /\ opened = [x \in OneTime |-> 0]
    /\ sent = {} /\ expired = {} /\ crossed = {}

-----------------------------------------------------------------------------
At(r, pc) == request[r].pc = pc
Becomes(r, new) == request' = [request EXCEPT ![r] = new]
Says(r, verdict) == Becomes(r, [request[r] EXCEPT !.pc = "answer", !.verdict = verdict])

\* Variant: GET instead of GETDEL.
LeftThere(x) == once

\* GETDEL.
Taken(x) == [once EXCEPT ![x] = "spent"]

\* A request that comes with the one-time value x, taken on the way, and goes
\* on to pc or is refused at once.
Begin(r, x, new, refusal) ==
    /\ At(r, "idle") /\ begun < MaxBegun
    /\ begun' = begun + 1
    /\ LET came == [new EXCEPT !.once = x, !.again = x \in sent]
       IN  Becomes(r, IF refusal = None THEN came
                      ELSE [came EXCEPT !.pc = "answer", !.verdict = refusal])
    /\ once' = Taken(x)
    /\ sent' = sent \cup {x}
    /\ UNCHANGED <<passkeys, cookie, telegram, mix, dead, opened, expired, crossed>>

\* CHALLENGE_TTL_SECONDS, STATE_TTL_SECONDS: by then the browser has given up
\* the cookie as well.
Expires(x) ==
    /\ "expiry" \in mix /\ once[x] = "kept"
    /\ once' = [once EXCEPT ![x] = "spent"]
    /\ cookie' = IF cookie = x THEN None ELSE cookie
    /\ expired' = expired \cup {x}
    /\ UNCHANGED <<passkeys, telegram, request, counters, opened, sent, crossed>>

\* AuthService.issue(): the session and its commit.
Issue(r) ==
    /\ At(r, "issue")
    /\ Says(r, "in")
    /\ opened' = [opened EXCEPT ![request[r].once] = @ + 1]
    /\ UNCHANGED <<passkeys, once, cookie, telegram, counters, sent, expired, crossed>>

-----------------------------------------------------------------------------
(* A passkey.                                                                *)

\* login_options().
Options(c) ==
    /\ "passkey" \in mix /\ once[c] = "unused"
    /\ once' = [once EXCEPT ![c] = "kept"]
    /\ UNCHANGED <<passkeys, cookie, telegram, request, counters, history>>

\* The authenticator signs a challenge and counts on.
Sign(c, k) ==
    /\ once[c] # "unused" /\ signed[c] = NotSigned
    /\ device' = [device EXCEPT ![k] = IF k \in Silent THEN 0 ELSE @ + 1]
    /\ signed' = [signed EXCEPT ![c] = [key |-> k, count |-> device'[k]]]
    /\ UNCHANGED <<key, once, cookie, telegram, request, counters, history>>

\* login(): the challenge is taken before anything else.
Login(r, c) ==
    /\ signed[c] # NotSigned
    /\ Begin(r, c, [Idle EXCEPT !.pc = "find", !.key = signed[c].key, !.count = signed[c].count],
             IF once[c] = "kept" THEN None ELSE "once")

\* Variant: the count is not looked at.
CountsOnAlways(count, stored) == TRUE

\* verify_authentication_response(): a key that counts has counted on.
CountsOn(count, stored) == (count = 0 /\ stored = 0) \/ count > stored

FindKey(r) ==
    /\ At(r, "find")
    /\ LET q == request[r]
       IN  CASE ~key[q.key].there -> Says(r, "gone")
             [] key[q.key].there /\ ~CountsOn(q.count, key[q.key].count) -> Says(r, "count")
             [] OTHER -> Becomes(r, [q EXCEPT !.pc = "count", !.stored = key[q.key].count])
    /\ UNCHANGED <<passkeys, once, cookie, telegram, counters, history>>

\* The count is written, whatever is stored by now; a row that is gone fails
\* the request.
CountCommits(r) ==
    /\ At(r, "count")
    /\ LET q == request[r]
       IN  IF key[q.key].there
           THEN /\ key' = [key EXCEPT ![q.key].count = q.count]
                /\ Becomes(r, [q EXCEPT !.pc = "issue"])
           ELSE Says(r, "gone") /\ UNCHANGED key
    /\ UNCHANGED <<device, signed, once, cookie, telegram, counters, history>>

Remove(k) ==
    /\ "removal" \in mix /\ key[k].there
    /\ key' = [key EXCEPT ![k].there = FALSE]
    /\ UNCHANGED <<device, signed, once, cookie, telegram, request, counters, history>>

-----------------------------------------------------------------------------
(* oauth.telegram.org.                                                       *)

Pending == {s \in States : once[s] = "kept"}

\* There is one cookie for all attempts: to be bound to s, or to have ended it,
\* ends the bond to any other that is pending.
Unbinds(s) == crossed' = crossed \cup (Pending \ {s})

\* telegram_start(): the state is kept and the browser bound to it.
Start(s) ==
    /\ "telegram" \in mix /\ once[s] = "unused"
    /\ once' = [once EXCEPT ![s] = "kept"]
    /\ cookie' = s
    /\ Unbinds(s)
    /\ UNCHANGED <<passkeys, telegram, request, counters, opened, sent, expired>>

\* telegram_callback(): the state is taken, then the cookie compared.
Return(r, s) ==
    /\ once[s] # "unused"
    /\ Begin(r, s, [Idle EXCEPT !.pc = "exchange", !.cookie = cookie],
             CASE once[s] # "kept" -> "once"
               [] once[s] = "kept" /\ cookie # s -> "cookie"
               [] OTHER -> None)

\* A return without a code or a state, as when the user declines at Telegram, or
\* with a state that was never given out: it is refused at once, and no state
\* is taken for it, not even that of its own attempt.
ReturnEmpty(r) ==
    /\ "telegram" \in mix /\ At(r, "idle") /\ begun < MaxBegun
    /\ begun' = begun + 1
    /\ Becomes(r, [Idle EXCEPT !.pc = "answer", !.verdict = "invalid"])
    /\ UNCHANGED <<passkeys, once, cookie, telegram, mix, dead, history>>

\* exchange(): an ID token, signed with the key of the day.
Exchange(r) ==
    /\ At(r, "exchange")
    /\ Becomes(r, [request[r] EXCEPT !.pc = "cached", !.key = signer])
    /\ UNCHANGED <<passkeys, once, cookie, telegram, counters, history>>

\* Variant: an unknown key is refused although the set may be old.
UnknownAtOnce(pc) == "answer"

\* _signing_key(): an unknown key is a reason to ask Telegram, but once.
Unknown(pc) == IF pc = "put again" THEN "answer" ELSE "again"

\* Where _find_key() leads with the keys of a set.
Looked(q, keys) ==
    CASE q.key \in keys -> [q EXCEPT !.pc = "issue"]
      [] q.key \notin keys /\ Unknown(q.pc) = "again" -> [q EXCEPT !.pc = "again"]
      [] OTHER -> [q EXCEPT !.pc = "answer", !.verdict = "key"]

\* _jwks() of the cache.
Cached(r) ==
    /\ At(r, "cached")
    /\ IF jwks = {} THEN Becomes(r, [request[r] EXCEPT !.pc = "first"])
       ELSE \E keys \in jwks : Becomes(r, Looked(request[r], keys))
    /\ UNCHANGED <<passkeys, once, cookie, telegram, counters, history>>

\* _jwks() of Telegram: once for want of a cached set, once for want of a key.
Fetch(r, pc, next) ==
    /\ At(r, pc)
    /\ Becomes(r, [request[r] EXCEPT !.pc = next, !.keys = served])
    /\ UNCHANGED <<passkeys, once, cookie, telegram, counters, history>>

FetchFirst(r) == Fetch(r, "first", "put")
FetchAgain(r) == Fetch(r, "again", "put again")

\* Variant: a set that was cached before is kept beside the new one.
CachedBeside(keys) == jwks \cup {keys}
CachedNow(keys) == {keys}

\* The set is cached, and the key looked up in it.
Put(r) ==
    /\ At(r, "put") \/ At(r, "put again")
    /\ jwks' = CachedNow(request[r].keys)
    /\ Becomes(r, Looked(request[r], request[r].keys))
    /\ UNCHANGED <<passkeys, once, cookie, served, signer, counters, history>>

\* Telegram does not answer, or refuses the code.
TelegramSilent(r) ==
    /\ request[r].pc \in {"exchange", "first", "again"}
    /\ Says(r, "telegram")
    /\ UNCHANGED <<passkeys, once, cookie, telegram, counters, history>>

\* JWKS_CACHE_TTL_SECONDS.
CacheExpires ==
    /\ jwks # {}
    /\ jwks' = {}
    /\ UNCHANGED <<passkeys, once, cookie, served, signer, request, counters, history>>

\* Telegram signs with another key, and serves those before as long as it
\* likes.
Rotate(kid, keys) ==
    /\ "rotation" \in mix /\ kid \notin served /\ kid \in keys /\ keys \subseteq served \cup {kid}
    /\ signer' = kid /\ served' = keys
    /\ request' = [r \in Requests |->
           IF request[r].key \in served \ keys THEN [request[r] EXCEPT !.served = FALSE]
           ELSE request[r]]
    /\ UNCHANGED <<passkeys, once, cookie, jwks, counters, history>>
-----------------------------------------------------------------------------
\* The answer reaches the browser. Whatever it says to a return from Telegram, it
\* ends the browser's bond to the state that came with it, and to any other.
Answer(r) ==
    /\ At(r, "answer")
    /\ Becomes(r, Idle)
    /\ IF request[r].once \notin Challenges
       THEN /\ cookie' = None
            /\ Unbinds(request[r].once)
       ELSE UNCHANGED <<cookie, crossed>>
    /\ UNCHANGED <<passkeys, once, telegram, counters, opened, sent, expired>>

\* The process dies, or its answer is lost.
Dies(r) ==
    /\ "death" \in mix /\ ~At(r, "idle") /\ dead < MaxDead
    /\ dead' = dead + 1
    /\ Becomes(r, Idle)
    /\ UNCHANGED <<passkeys, once, cookie, telegram, mix, begun, history>>

PasskeyStep(r) ==
    \/ \E c \in Challenges : Login(r, c)
    \/ FindKey(r) \/ CountCommits(r)

TelegramStep(r) ==
    \/ ReturnEmpty(r) \/ \E s \in States : Return(r, s)
    \/ Exchange(r) \/ Cached(r) \/ FetchFirst(r) \/ FetchAgain(r) \/ Put(r) \/ TelegramSilent(r)

Next ==
    \/ \E r \in Requests : PasskeyStep(r) \/ TelegramStep(r) \/ Issue(r) \/ Answer(r) \/ Dies(r)
    \/ \E c \in Challenges : Options(c) \/ \E k \in Keys : Sign(c, k)
    \/ \E s \in States : Start(s)
    \/ \E x \in OneTime : Expires(x)
    \/ \E k \in Keys : Remove(k)
    \/ \E kid \in Kids, keys \in SUBSET Kids : Rotate(kid, keys)
    \/ CacheExpires

Spec == Init /\ [][Next]_vars

-----------------------------------------------------------------------------
Verdicts == {"in", "once", "gone", "count", "cookie", "telegram", "key", "invalid"}
RequestTypes ==
    [pc : {"idle", "find", "count", "exchange", "cached", "first", "put", "again", "put again",
           "issue", "answer"},
     once : OneTime \cup {None}, again : BOOLEAN, cookie : States \cup {None},
     key : Keys \cup Kids \cup {None}, count : Nat, served : BOOLEAN, stored : Nat,
     keys : SUBSET Kids, verdict : Verdicts \cup {None}]

\* Every variable keeps its type.
TypeOK ==
    /\ key \in [Keys -> [there : BOOLEAN, count : Nat]]
    /\ device \in [Keys -> Nat]
    /\ signed \in [Challenges -> [key : Keys \cup {None}, count : Nat]]
    /\ once \in [OneTime -> {"unused", "kept", "spent"}]
    /\ cookie \in States \cup {None}
    /\ signer \in served /\ served \subseteq Kids
    /\ jwks \subseteq SUBSET Kids /\ Cardinality(jwks) <= 1
    /\ request \in [Requests -> RequestTypes]
    /\ begun \in 0..MaxBegun /\ dead \in 0..MaxDead
    /\ opened \in [OneTime -> Nat]
    /\ sent \subseteq OneTime /\ expired \subseteq OneTime /\ crossed \subseteq States

(* A signature and a return from Telegram open one session each              *)
(* (challenges.py:3, auth.py:420), however often and by whatever requests at *)
(* once they are presented.                                                  *)
OneEntryEach == \A x \in OneTime : opened[x] <= 1

\* Where a one-time value is in its life.
LifeOf(x) ==
    CASE once[x] # "spent" -> once[x]
      [] once[x] = "spent" /\ opened[x] > 0 -> "used"
      [] once[x] = "spent" /\ opened[x] = 0 /\ x \in expired -> "lost"
      [] OTHER -> "taken"

Promise == INSTANCE OneTimeValues
    WITH Values <- OneTime, life <- [x \in OneTime |-> LifeOf(x)], sessions <- opened

(* Both ways in keep what OneTimeValues promises: a session is opened only   *)
(* with a value that was given out, that had not expired when a request came *)
(* with it, and that no other session was opened with (challenges.py:33).    *)
ImplementsOneTimeValues == Promise!Spec

(* The stored count of a key is never ahead of its authenticator, and never  *)
(* falls back ("a count that lags means a clone", passkey.py:178), unless    *)
(* another login with the key was committed since this one read it.          *)
CountsHold ==
    [][\A k \in Keys :
          /\ key[k].count <= device[k]
          /\ key'[k].count < key[k].count =>
                \E r \in Requests : At(r, "count") /\ request[r].key = k
                                    /\ request[r].stored # key[k].count]_vars

(* Nobody is turned away who comes with what was given out for it. A value   *)
(* is refused when it was sent before or expired; a passkey when it was      *)
(* removed, or a later signature of it came first; a token when Telegram     *)
(* withdrew its key, never because the cached keys are old (oidc.py:166). A  *)
(* browser is refused for its cookie only when, since its state was given    *)
(* out, another attempt was started or some other return was answered: each  *)
(* unbinds it from all states that are pending, although auth.py:355 says    *)
(* that one attempt is over. An answer to a return that was declined, of     *)
(* this tab or of another, is among them (auth.py:415-418).                  *)
NobodyTurnedAway ==
    \A r \in Requests :
        LET q == request[r]
        IN  At(r, "answer") =>
              CASE q.verdict = "once" -> q.again \/ q.once \in expired
                [] q.verdict = "gone" -> ~key[q.key].there
                [] q.verdict = "count" ->
                      \E c \in Challenges \ {q.once} :
                          signed[c].key = q.key /\ signed[c].count > q.count /\ c \in sent
                [] q.verdict = "cookie" -> q.once \in crossed
                [] q.verdict = "key" -> ~q.served
                [] OTHER -> TRUE
=============================================================================
