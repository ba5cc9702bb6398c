------------------------------ MODULE Accounts ------------------------------
(* Who an account belongs to and what opens it: Telegram visits, link codes, *)
(* passkeys, passwords and addresses, unlinking, and the one trial of a      *)
(* Telegram (services/telegram_users.py, telegram_link.py, login_methods.py, *)
(* profile.py, challenges.py, auth/telegram.py, auth/passkey.py and          *)
(* SubscriptionService.activate_trial), as concurrent requests.              *)
(*                                                                           *)
(* The database is read committed: every SELECT is a step that reads what is *)
(* committed then, and what a request decides on may be old by its commit.   *)
(* An UPDATE of a row that is gone raises, an insert that breaks a unique    *)
(* index raises, a DELETE that finds no row does not; a request that raises  *)
(* leaves nothing. A session keeps the rows it has loaded and does not read  *)
(* them again (expire_on_commit is off).                                     *)
(*                                                                           *)
(* Abstractions.  Names, languages, roles and signatures are left out. An    *)
(* address is a confirmed one. A passkey is a row; the same authenticator    *)
(* registered again is another one. Audit rows go with their transaction.    *)
EXTENDS Integers, FiniteSets

CONSTANTS
    Users,      \* rows of `users`, born and unborn
    Telegrams,  \* Telegram ids
    Keys,       \* rows of `passkey_credentials`
    Links,      \* link codes, each drawn once
    Challenges, \* challenges of a passkey registration
    States,     \* states of a login through oauth.telegram.org
    Requests,   \* requests and messages under way at once
    Registered, \* users who signed up with an address and a password
    Visitors,   \* users who came through Telegram, some of them for a trial
    MaxBegun,   \* bound: requests begun
    MaxDead     \* bound: requests whose process dies

None == "none"
NoUser == {"absent", "gone", "unused", "nobody"} \* of a passkey, of a trial
Codes == Links \cup Challenges \cup States

ASSUME NamesAssumption == 
    /\ None \notin Users \cup Telegrams \cup Keys \cup Codes
    /\ Users \cap (NoUser \cup {"browser", "spent"}) = {}
ASSUME PopulationAssumption ==
    /\ Registered \subseteq Users /\ Visitors \subseteq Users
    /\ Registered \cap Visitors = {}
ASSUME BoundsAssumption == MaxBegun \in Nat /\ MaxDead \in Nat
ASSUME KeysAssumption == IsFiniteSet(Keys)

VARIABLES
    user,       \* `users`: status, Telegram, password, address, subscription
    keyOf,      \* the owner of each passkey row; rows are absent, then gone
    code,       \* the one-time keys in Valkey and what they stand for
    trial,      \* `trial_grants`: the user who got the trial of a Telegram
    request,    \* each request: where it is and what it has read
    begun, dead,
    granted,    \* history: trials given on each Telegram
    removals,   \* history: users with two removals of a method at once
    redeems,    \* history: users with two link codes redeemed at once
    hurried     \* history: users who gained a method during their redeem

tables == <<user, keyOf, trial, granted>>
history == <<removals, redeems, hurried>>
vars == <<tables, code, request, begun, dead, history>>

Unborn == [status |-> "unborn", tg |-> None, password |-> FALSE, address |-> FALSE,
           sub |-> FALSE]
ByLetter == [Unborn EXCEPT !.status = "alive", !.password = TRUE, !.address = TRUE]
ByTelegram(t) == [Unborn EXCEPT !.status = "alive", !.tg = t]
Gone == [Unborn EXCEPT !.status = "gone"]

Alive(u) == user[u].status = "alive"
Holders(t) == {u \in Users : Alive(u) /\ user[u].tg = t}
KeysOf(u) == {k \in Keys : keyOf[k] = u}

Rows == [status : {"unborn", "alive", "gone"}, tg : Telegrams \cup {None},
         password : BOOLEAN, address : BOOLEAN, sub : BOOLEAN]

\* pc of a request that is over; the other fields are what it carries:
\* its account, Telegram, code or key, the account of the sender or the
\* duplicate, and the rows of the two as this session has loaded them.
Idle == [pc |-> "idle", user |-> None, tg |-> None, item |-> None,
         dup |-> None, own |-> Unborn, seen |-> Unborn]

Removing == {"unlinking", "unlinkable", "deleting", "deletable"}
Redeeming == {"taken", "free", "found", "linking"}

\* Accounts as their first requests left them, with keys added since.
Init ==
    \E came \in [Visitors -> Telegrams], trials \in SUBSET Visitors :
        /\ \A u, v \in Visitors : came[u] = came[v] => u = v
        /\ user = [u \in Users |->
               IF u \in Registered THEN ByLetter
               ELSE IF u \in Visitors
               THEN [ByTelegram(came[u]) EXCEPT !.sub = u \in trials]
               ELSE Unborn]
        /\ trial = [t \in Telegrams |->
               IF \E u \in trials : came[u] = t THEN CHOOSE u \in trials : came[u] = t
               ELSE "unused"]
        /\ granted = [t \in Telegrams |-> IF trial[t] = "unused" THEN 0 ELSE 1]
        /\ keyOf \in [Keys -> Registered \cup Visitors \cup {"absent"}]
        /\ code = [c \in Codes |-> None]
        /\ request = [r \in Requests |-> Idle]
        /\ begun = 0 /\ dead = 0
        /\ removals = {} /\ redeems = {} /\ hurried = {}

-----------------------------------------------------------------------------
Begin(r, new) ==
    /\ request[r].pc = "idle" /\ begun < MaxBegun
    /\ begun' = begun + 1
    /\ request' = [request EXCEPT ![r] = new]

Becomes(r, new) == request' = [request EXCEPT ![r] = new]
End(r) == Becomes(r, Idle)
At(r, pc) == request[r].pc = pc
Others(r, u, pcs) == \E o \in Requests \ {r} : request[o].user = u /\ request[o].pc \in pcs

(* A message to the bot, the mini app, and the way back from                 *)
(* oauth.telegram.org: the account of a Telegram is found or made.           *)

\* get_by_telegram_id(). A message may carry a link code; all others end here
\* when the account is known.
Visited(r, t, c) ==
    LET found == {[Idle EXCEPT !.pc = "known", !.tg = t, !.item = c, !.dup = u,
                               !.seen = user[u]] : u \in Holders(t)}
    IN  IF found = {} THEN {[Idle EXCEPT !.pc = "unknown", !.tg = t, !.item = c]}
        ELSE IF c \in Links THEN found ELSE {Idle}

Message(r, t, c) ==
    /\ \E new \in Visited(r, t, c) : Begin(r, new)
    /\ UNCHANGED <<tables, code, dead, history>>

\* login_from_miniapp(): initData names the Telegram.
MiniApp(r, t) ==
    /\ \E new \in Visited(r, t, None) : Begin(r, new)
    /\ UNCHANGED <<tables, code, dead, history>>

\* Keys of Valkey are drawn until one is free (_free_code), or random.
Fresh(c) == code[c] = None

\* telegram_start(): a state for this browser.
OidcStart(s) ==
    /\ Fresh(s)
    /\ code' = [code EXCEPT ![s] = "browser"]
    /\ UNCHANGED <<tables, request, begun, dead, history>>

\* telegram_callback(): GETDEL of the state, then the code is exchanged and
\* the ID token tells the Telegram.
OidcCallback(r, t, s) ==
    /\ code[s] = "browser"
    /\ Begin(r, [Idle EXCEPT !.pc = "returned", !.tg = t])
    /\ code' = [code EXCEPT ![s] = "spent"]
    /\ UNCHANGED <<tables, dead, history>>

\* exchange() or verify_id_token() refuses, or Telegram does not answer: the
\* state is spent.
OidcRefused(r) ==
    /\ At(r, "returned")
    /\ End(r)
    /\ UNCHANGED <<tables, code, begun, dead, history>>

OidcLogin(r) ==
    /\ At(r, "returned")
    /\ \E new \in Visited(r, request[r].tg, None) : Becomes(r, new)
    /\ UNCHANGED <<tables, code, begun, dead, history>>

\* Variant: telegram_id without its unique index.
IsFreeAlways(t) == TRUE
IsFree(t) == Holders(t) = {}

\* UserRepository.create() and the commit. Of two first messages one fails.
Create(r) ==
    /\ At(r, "unknown")
    /\ LET q == request[r] IN
       IF IsFree(q.tg)
       THEN \E u \in Users :
              /\ user[u] = Unborn
              /\ user' = [user EXCEPT ![u] = ByTelegram(q.tg)]
              /\ IF q.item \in Links
                 THEN Becomes(r, [q EXCEPT !.pc = "known", !.dup = u, !.seen = ByTelegram(q.tg)])
                 ELSE End(r)
       ELSE End(r) /\ UNCHANGED user
    /\ UNCHANGED <<keyOf, trial, granted, code, begun, dead, history>>

-----------------------------------------------------------------------------
(* Link codes: POST /api/me/telegram/link-code, then the code is sent to the *)
(* bot, which has found or made the account of the sender before.            *)

IssueCode(c, u) ==
    /\ Fresh(c) /\ begun < MaxBegun
    /\ Alive(u) /\ user[u].tg = None
    /\ code' = [code EXCEPT ![c] = u]
    /\ begun' = begun + 1
    /\ UNCHANGED <<tables, request, dead, history>>

\* LINK_CODE_TTL, CHALLENGE_TTL_SECONDS, STATE_TTL_SECONDS.
CodeExpires(c) ==
    /\ code[c] \notin {None, "spent"}
    /\ code' = [code EXCEPT ![c] = "spent"]
    /\ UNCHANGED <<tables, request, begun, dead, history>>

\* _take_code(): refused or not, the code is spent.
TakeCode(r) ==
    /\ At(r, "known")
    /\ LET q == request[r]
           u == code[q.item]
       IN  IF u \in Users
           THEN /\ Becomes(r, [q EXCEPT !.pc = "taken", !.user = u])
                /\ code' = [code EXCEPT ![q.item] = "spent"]
                /\ redeems' = IF Others(r, u, Redeeming) THEN redeems \cup {u} ELSE redeems
           ELSE End(r) /\ UNCHANGED <<code, redeems>>
    /\ UNCHANGED <<tables, begun, dead, removals, hurried>>

MayTake(row) == row.tg = None

\* _require_user(). The account of the sender itself is in the session's
\* identity map and needs no link; a linked account takes no other Telegram.
LoadTarget(r) ==
    /\ At(r, "taken")
    /\ LET q == request[r] IN
       IF q.user # q.dup /\ Alive(q.user) /\ user[q.user].tg # q.tg /\ MayTake(user[q.user])
       THEN Becomes(r, [q EXCEPT !.pc = "free", !.own = user[q.user]])
       ELSE End(r)
    /\ UNCHANGED <<tables, code, begun, dead, history>>

\* redeem(): the holder of this Telegram by now. A row that this session has
\* loaded before is not read again.
FindDuplicate(r) ==
    /\ At(r, "free")
    /\ LET q == request[r] IN
       \/ /\ Holders(q.tg) = {}
          /\ Becomes(r, [q EXCEPT !.pc = "linking", !.dup = None])
       \/ \E u \in Holders(q.tg) :
            Becomes(r, [q EXCEPT !.pc = "found", !.dup = u,
                             !.seen = CASE u = q.dup  -> q.seen
                                        [] u = q.user -> q.own
                                        [] OTHER      -> user[u]])
    /\ UNCHANGED <<tables, code, begun, dead, history>>

\* Variant: the passkeys of the duplicate are not counted.
HasOwnDoorNoKeys(row, keys) == row.password \/ row.address
HasOwnDoor(row, keys) == row.password \/ row.address \/ keys # {}

\* _absorb(): a duplicate somebody can enter without Telegram is left alone.
CheckDuplicate(r) ==
    /\ At(r, "found")
    /\ LET q == request[r] IN
       IF HasOwnDoor(q.seen, KeysOf(q.dup)) THEN End(r)
       ELSE Becomes(r, [q EXCEPT !.pc = "linking"])
    /\ UNCHANGED <<tables, code, begun, dead, history>>

\* Variant: passkeys lose their user as trials do.
KeysSetNull(u) == [k \in Keys |-> IF keyOf[k] = u THEN "nobody" ELSE keyOf[k]]

\* What the foreign keys do when a user row goes: passkeys and subscription
\* cascade, the mark of the trial stays without its user.
KeysWithout(u) == [k \in Keys |-> IF keyOf[k] = u THEN "gone" ELSE keyOf[k]]
TrialsWithout(u) == [t \in Telegrams |-> IF trial[t] = u THEN "nobody" ELSE trial[t]]

Without(d) == IF d = None THEN user ELSE [user EXCEPT ![d] = Gone]

\* The end of redeem(): the duplicate is deleted, the Telegram moves and the
\* transaction commits. It fails whole when the account is gone or another
\* one holds this Telegram, and when the account met itself as the duplicate:
\* the audit entry of the link then names a user who is gone.
Link(r) ==
    /\ At(r, "linking")
    /\ LET q == request[r] IN
       IF q.dup # q.user /\ Alive(q.user) /\ Holders(q.tg) \subseteq {q.dup, q.user}
       THEN /\ user' = [Without(q.dup) EXCEPT ![q.user].tg = q.tg]
            /\ keyOf' = KeysWithout(q.dup)
            /\ trial' = TrialsWithout(q.dup)
       ELSE UNCHANGED <<user, keyOf, trial>>
    /\ End(r)
    /\ UNCHANGED <<granted, code, begun, dead, history>>

-----------------------------------------------------------------------------
(* Removing a method: DELETE /api/me/telegram, DELETE /api/me/passkeys/{id}. *)

\* A request that will remove a method of u and has read its row.
Removes(r, u, new) ==
    /\ Begin(r, new)
    /\ removals' = IF Others(r, u, Removing) THEN removals \cup {u} ELSE removals
    /\ UNCHANGED <<tables, code, dead, redeems, hurried>>

Unlink(r, u) ==
    /\ Alive(u) /\ user[u].tg # None
    /\ Removes(r, u, [Idle EXCEPT !.pc = "unlinking", !.user = u, !.own = user[u]])

\* LoginMethods.count() without the method that goes: the password, Telegram
\* and the passkeys, one by one. An address is none.
Remains(row, keys, method) ==
    \/ row.password
    \/ row.tg # None /\ method # "telegram"
    \/ Cardinality(keys) > IF method = "passkey" THEN 1 ELSE 0

\* Variant: methods are counted with the one that goes.
CountsItself(row, keys, method) == row.password \/ row.tg # None \/ keys # {}

\* login_methods() and can_unlink(): is there a method left without this one?
CanUnlink(row, keys, method) == Remains(row, keys, method)

\* The keys are counted by a SELECT of their own.
UnlinkCounts(r) ==
    /\ At(r, "unlinking")
    /\ LET q == request[r] IN
       IF CanUnlink(q.own, KeysOf(q.user), "telegram")
       THEN Becomes(r, [q EXCEPT !.pc = "unlinkable"]) ELSE End(r)
    /\ UNCHANGED <<tables, code, begun, dead, history>>

\* telegram_id = NULL, whichever Telegram it is by now.
UnlinkCommits(r) ==
    /\ At(r, "unlinkable")
    /\ LET u == request[r].user IN
       user' = IF Alive(u) THEN [user EXCEPT ![u].tg = None] ELSE user
    /\ End(r)
    /\ UNCHANGED <<keyOf, trial, granted, code, begun, dead, history>>

DeleteKey(r, k) ==
    /\ keyOf[k] \in Users
    /\ LET u == keyOf[k] IN
       Removes(r, u, [Idle EXCEPT !.pc = "deleting", !.user = u, !.item = k, !.own = user[u]])

DeleteKeyCounts(r) ==
    /\ At(r, "deleting")
    /\ LET q == request[r] IN
       IF CanUnlink(q.own, KeysOf(q.user), "passkey")
       THEN Becomes(r, [q EXCEPT !.pc = "deletable"]) ELSE End(r)
    /\ UNCHANGED <<tables, code, begun, dead, history>>

DeleteKeyCommits(r) ==
    /\ At(r, "deletable")
    /\ keyOf' = [keyOf EXCEPT ![request[r].item] = "gone"]
    /\ End(r)
    /\ UNCHANGED <<user, trial, granted, code, begun, dead, history>>

-----------------------------------------------------------------------------
(* Gaining a method: a passkey, a password, an address. An account under     *)
(* redemption as the duplicate is marked when it gains one.                  *)

Absorbing == {"known", "taken", "free", "found", "linking"}
IsDuplicate(u) == \E o \in Requests : request[o].dup = u /\ request[o].pc \in Absorbing
Gained(u) == hurried' = IF IsDuplicate(u) THEN hurried \cup {u} ELSE hurried

\* registration_options() for a signed-in user.
KeyOptions(c, u) ==
    /\ Fresh(c) /\ begun < MaxBegun
    /\ Alive(u)
    /\ code' = [code EXCEPT ![c] = u]
    /\ begun' = begun + 1
    /\ UNCHANGED <<tables, request, dead, history>>

\* register(): the challenge is taken, whoever asks; the key must be new.
RegisterKey(r, u, c, k) ==
    /\ code[c] \notin {None, "spent"}
    /\ Begin(r, IF code[c] = u /\ keyOf[k] = "absent"
                THEN [Idle EXCEPT !.pc = "registering", !.user = u, !.item = k] ELSE Idle)
    /\ code' = [code EXCEPT ![c] = "spent"]
    /\ UNCHANGED <<tables, dead, history>>

\* The insert fails when the user is gone or the key was inserted meanwhile.
RegisterKeyCommits(r) ==
    /\ At(r, "registering")
    /\ LET q == request[r] IN
       IF Alive(q.user) /\ keyOf[q.item] = "absent"
       THEN /\ keyOf' = [keyOf EXCEPT ![q.item] = q.user]
            /\ Gained(q.user)
       ELSE UNCHANGED <<keyOf, hurried>>
    /\ End(r)
    /\ UNCHANGED <<user, trial, granted, code, begun, dead, removals, redeems>>

\* set_password() of the profile and apply_email_change(): the row is read,
\* then one column of it is written.
ChangeRow(r, u, pc) ==
    /\ Alive(u)
    /\ Begin(r, [Idle EXCEPT !.pc = pc, !.user = u])
    /\ UNCHANGED <<tables, code, dead, history>>

SetPassword(r, u) == ChangeRow(r, u, "password")
ConfirmAddress(r, u) == ChangeRow(r, u, "address")

Commits(r, u, row) ==
    /\ IF Alive(u)
       THEN user' = [user EXCEPT ![u] = row] /\ Gained(u)
       ELSE UNCHANGED <<user, hurried>>
    /\ End(r)
    /\ UNCHANGED <<keyOf, trial, granted, code, begun, dead, removals, redeems>>

SetPasswordCommits(r) ==
    /\ At(r, "password")
    /\ LET u == request[r].user IN Commits(r, u, [user[u] EXCEPT !.password = TRUE])

ConfirmAddressCommits(r) ==
    /\ At(r, "address")
    /\ LET u == request[r].user IN Commits(r, u, [user[u] EXCEPT !.address = TRUE])

-----------------------------------------------------------------------------
(* The trial: POST /api/me/subscription/trial.                               *)

\* activate_trial() reads the user ...
Trial(r, u) ==
    /\ Alive(u) /\ user[u].tg # None
    /\ Begin(r, [Idle EXCEPT !.pc = "entitled", !.user = u, !.tg = user[u].tg])
    /\ UNCHANGED <<tables, code, dead, history>>

\* ... then the subscription and the mark of this Telegram ...
TrialChecks(r) ==
    /\ At(r, "entitled")
    /\ LET q == request[r] IN
       IF user[q.user].sub \/ trial[q.tg] # "unused" THEN End(r)
       ELSE Becomes(r, [q EXCEPT !.pc = "granting"])
    /\ UNCHANGED <<tables, code, begun, dead, history>>

\* Variant: a mark is written over.
MarkFreeAlways(t) == TRUE
MarkFree(t) == trial[t] = "unused"

\* ... and writes the mark and the subscription in one transaction, which
\* fails when the Telegram is marked by now or the user is gone.
TrialCommits(r) ==
    /\ At(r, "granting")
    /\ LET q == request[r] IN
       IF Alive(q.user) /\ MarkFree(q.tg)
       THEN /\ trial' = [trial EXCEPT ![q.tg] = q.user]
            /\ user' = [user EXCEPT ![q.user].sub = TRUE]
            /\ granted' = [granted EXCEPT ![q.tg] = @ + 1]
       ELSE UNCHANGED <<user, trial, granted>>
    /\ End(r)
    /\ UNCHANGED <<keyOf, code, begun, dead, history>>

-----------------------------------------------------------------------------
\* A process dies or a connection breaks: what is not committed never was.
Dies(r) ==
    /\ ~At(r, "idle") /\ dead < MaxDead
    /\ dead' = dead + 1
    /\ End(r)
    /\ UNCHANGED <<tables, code, begun, history>>

Visit(r) ==
    \/ \E t \in Telegrams, c \in Links \cup {None} : Message(r, t, c)
    \/ \E t \in Telegrams, s \in States : OidcCallback(r, t, s)
    \/ \E t \in Telegrams : MiniApp(r, t)
    \/ OidcRefused(r) \/ OidcLogin(r) \/ Create(r)

Redeem(r) ==
    TakeCode(r) \/ LoadTarget(r) \/ FindDuplicate(r) \/ CheckDuplicate(r) \/ Link(r)

Remove(r) ==
    \/ \E u \in Users : Unlink(r, u)
    \/ \E k \in Keys : DeleteKey(r, k)
    \/ UnlinkCounts(r) \/ UnlinkCommits(r) \/ DeleteKeyCounts(r) \/ DeleteKeyCommits(r)

Gain(r) ==
    \/ \E u \in Users, c \in Challenges, k \in Keys : RegisterKey(r, u, c, k)
    \/ \E u \in Users : SetPassword(r, u) \/ ConfirmAddress(r, u) \/ Trial(r, u)
    \/ RegisterKeyCommits(r) \/ SetPasswordCommits(r) \/ ConfirmAddressCommits(r)
    \/ TrialChecks(r) \/ TrialCommits(r)

Next ==
    \/ \E r \in Requests : Visit(r) \/ Redeem(r) \/ Remove(r) \/ Gain(r) \/ Dies(r)
    \/ \E c \in Links, u \in Users : IssueCode(c, u)
    \/ \E c \in Challenges, u \in Users : KeyOptions(c, u)
    \/ \E s \in States : OidcStart(s)
    \/ \E c \in Codes : CodeExpires(c)

Spec == Init /\ [][Next]_vars

-----------------------------------------------------------------------------
RequestTypes ==
    [pc : {"idle", "returned", "unknown", "known", "registering", "password", "address",
           "entitled", "granting"} \cup Redeeming \cup Removing,
     user : Users \cup {None}, tg : Telegrams \cup {None},
     item : Codes \cup Keys \cup {None}, dup : Users \cup {None}, own : Rows, seen : Rows]

\* Every variable keeps its type.
TypeOK ==
    /\ user \in [Users -> Rows]
    /\ keyOf \in [Keys -> Users \cup {"absent", "gone"}]
    /\ code \in [Codes -> Users \cup {None, "browser", "spent"}]
    /\ trial \in [Telegrams -> Users \cup {"unused", "nobody"}]
    /\ request \in [Requests -> RequestTypes]
    /\ begun \in 0..MaxBegun /\ dead \in 0..MaxDead
    /\ granted \in [Telegrams -> Nat]
    /\ removals \subseteq Users /\ redeems \subseteq Users /\ hurried \subseteq Users

Open(u) ==
    \/ user[u].tg # None
    \/ KeysOf(u) # {}
    \/ user[u].password /\ user[u].address

\* An account can be entered as long as it exists (db/models/user.py:30): what
\* is removed never was the last method, whatever was linked, absorbed or
\* registered meanwhile. Two removals of one account at once and a password
\* without an address, which counts as a method, are the exceptions.
AccountsStayOpen ==
    \A u \in Users : Alive(u) =>
        Open(u) \/ u \in removals \/ (user[u].password /\ ~user[u].address)

\* One Telegram opens one account, through first messages that cross, links,
\* absorptions and unlinking (telegram_users.py:35, telegram_link.py:142).
OneAccountPerTelegram ==
    \A t \in Telegrams : \A u, v \in Holders(t) : u = v

\* A Telegram gets one trial, whichever accounts it opens in turn
\* (models/trial.py:15), and a mark names an account that has its
\* subscription, or nobody once that account was absorbed.
TrialOnce ==
    \A t \in Telegrams :
        /\ granted[t] <= 1
        /\ trial[t] \in Users => Alive(trial[t]) /\ user[trial[t]].sub

\* Linking takes nothing from anybody, unless redeeming requests cross: no
\* account that has a method besides Telegram is absorbed (telegram_link.py:118),
\* unless it gained it while the code was redeemed; and a Telegram of an account
\* is not replaced by another but unlinked first (telegram_link.py:78). Two codes
\* of one account redeemed at once are the exception to both.
LinkingTakesNothing ==
    [][\A u \in Users : Alive(u) =>
          /\ user'[u] = Gone =>
                \/ ~user[u].password /\ ~user[u].address /\ KeysOf(u) = {}
                \/ u \in hurried \cup redeems
          /\ user[u].tg # None =>
                user'[u].tg \in {user[u].tg, None} \/ u \in redeems]_vars
=============================================================================
