------------------------------- MODULE Letters ------------------------------
(* One address and its account: registration, the letters with one-time      *)
(* links, and what the links and the password do to the account and to its   *)
(* sessions (services/auth/password.py, repositories/tokens.py, profile.py,  *)
(* AuthService.issue and revoke_all_sessions), as concurrent requests.       *)
(*                                                                           *)
(* A SELECT reads what is committed; an UPDATE takes the lock of its row to  *)
(* the end of the transaction and waits for whoever holds it. The database   *)
(* aborts one of two transactions that wait for each other. A request that   *)
(* is refused or dies before its commit leaves nothing.                      *)
(*                                                                           *)
(* Abstractions.  Passwords are numbered in the order they are made. A link  *)
(* can be opened as soon as its letter is in the queue. invalidate_all()     *)
(* gets its row locks at once. Who asks is entitled to: passwords given are  *)
(* right and whoever opens a link got the letter.                            *)
EXTENDS Integers, Sequences

CONSTANTS
    Requests,   \* requests under way at once
    Addresses,  \* addresses the account may have
    First,      \* the one it is registered with
    MaxBegun,   \* bound: requests begun
    MaxDead     \* bound: requests whose process dies

None == "none"
ASSUME AddressesAssumption == First \in Addresses
ASSUME BoundsAssumption == MaxBegun \in Nat /\ MaxDead \in Nat

VARIABLES
    account,    \* the row of `users`
    token,      \* the rows of `one_time_tokens`, in the order of their commits
    session,    \* the rows of `sessions`, in the order of their commits
    taken,      \* addresses other accounts have
    versions,   \* passwords made so far
    request,    \* each request: where it is and what it has read
    begun, dead,
    served,     \* history: requests each link was good for
    crowded,    \* history: kinds with two letters asked for at once, links
                \* opened twice at once
    resetAt,    \* history: the password of the last reset
    slipped,    \* history: sessions issued on a password older than the reset
    cutShort,   \* history: the last reset died between its two commits
    entered     \* history: a reset let in an account never confirmed

rows == <<account, token, session, taken, versions>>
history == <<served, crowded, resetAt, slipped, cutShort, entered>>
vars == <<rows, request, begun, dead, history>>

Kinds == {"verify", "reset", "change"}
Tokens == DOMAIN token
Sessions == DOMAIN session

\* Variant: kind and address change places.
TokenSwapped(kind, to) == [kind |-> to, used |-> FALSE, expired |-> FALSE, to |-> kind]
TokenOf(kind, to) == [kind |-> kind, used |-> FALSE, expired |-> FALSE, to |-> to]
SessionOf(version) == [state |-> "live", version |-> version]
Absent == [born |-> FALSE, verified |-> FALSE, password |-> 0, address |-> First]
Registered == [Absent EXCEPT !.born = TRUE, !.password = 1]

\* pc of a request that is over; the kind of its letter or link, the link,
\* the address it goes to, what it writes, the rows it has listed, the
\* password it knows, and whether the account was entered meanwhile.
Idle == [pc |-> "idle", kind |-> None, item |-> 0, to |-> First, write |-> None,
         list |-> {}, version |-> 0, overtaken |-> FALSE]

Usable(k) == ~token[k].used /\ ~token[k].expired
Live == {s \in Sessions : session[s].state = "live"}

\* Nobody has the address, it waits for its letter, or somebody is signed in.
Init ==
    /\ \/ account = Absent /\ token = <<>> /\ session = <<>>
       \/ account = Registered /\ token = <<TokenOf("verify", First)>> /\ session = <<>>
       \/ account = [Registered EXCEPT !.verified = TRUE]
          /\ token = <<>> /\ session = <<SessionOf(1)>>
    /\ taken = {}
    /\ versions = account.password
    /\ request = [r \in Requests |-> Idle]
    /\ begun = 0 /\ dead = 0
    /\ served = [k \in Tokens |-> 0]
    /\ crowded = {} /\ resetAt = 0 /\ slipped = {}
    /\ cutShort = FALSE /\ entered = FALSE

-----------------------------------------------------------------------------
Begin(r, new) ==
    /\ request[r].pc = "idle" /\ begun < MaxBegun
    /\ begun' = begun + 1
    /\ request' = [request EXCEPT ![r] = new]

At(r, pc) == request[r].pc = pc
Over(r) == request' = [request EXCEPT ![r] = Idle]

\* The row locks a transaction has by now; they go with its commit or rollback.
HoldsLink(o, k) == At(o, "ready") /\ request[o].item = k
HoldsUser(o) == At(o, "invalidating") /\ request[o].write = "overwrite"
LinkFree(k) == \A o \in Requests : ~HoldsLink(o, k)
UserFree == \A o \in Requests : ~HoldsUser(o)

(* Asking for a letter. A request that is refused at once leaves nothing and *)
(* is left out.                                                              *)

Asks(r, kind, to, write) ==
    /\ Begin(r, [Idle EXCEPT !.pc = "asked", !.kind = kind, !.to = to, !.write = write])
    /\ crowded' = IF \E o \in Requests : request[o].kind = kind /\ request[o].item = 0
                  THEN crowded \cup {kind} ELSE crowded
    /\ UNCHANGED <<rows, dead, served, resetAt, slipped, cutShort, entered>>

\* Variant: a confirmed account is registered over, too.
MayRegisterAlways(row) == TRUE
MayRegister(row) == ~row.verified

\* register() has found nobody, or an account without a confirmed address.
Register(r) ==
    /\ MayRegister(account) /\ account.address = First
    /\ Asks(r, "verify", First, IF account.born THEN "overwrite" ELSE "create")

\* resend_verification().
Resend(r) ==
    /\ account.born /\ ~account.verified
    /\ Asks(r, "verify", account.address, None)

\* request_reset(): confirmed or not, the address gets its letter.
RequestReset(r) ==
    /\ account.born
    /\ Asks(r, "reset", account.address, None)

\* request_email_change() of somebody signed in.
RequestChange(r, a) ==
    /\ account.born /\ Live # {} /\ a \notin taken
    /\ Asks(r, "change", a, None)

\* Variant: nothing is invalidated.
ToInvalidateNone(kind) == {}
ToInvalidate(kind) == {k \in Tokens : token[k].kind = kind /\ ~token[k].used}

\* invalidate_all() lists the unused links of the kind. What register() has
\* written is flushed before it, with the lock of the user row.
InvalidateStarts(r) ==
    /\ At(r, "asked")
    /\ request[r].write = "overwrite" => UserFree
    /\ request' = [request EXCEPT ![r].pc = "invalidating",
                                  ![r].list = ToInvalidate(request[r].kind)]
    /\ UNCHANGED <<rows, begun, dead, history>>

\* The UPDATE of invalidate_all(): not its which it waits for.
Invalidated(list) == [k \in Tokens |->
    IF k \in list THEN [token[k] EXCEPT !.used = TRUE] ELSE token[k]]

\* Once it has the lock of each that is still unused: the new link, the letter
\* in the queue and what register() writes, in one transaction. It fails when
\* somebody has the address by now.
CommitLetter(r) ==
    /\ At(r, "invalidating")
    /\ \A k \in request[r].list : LinkFree(k)
    /\ LET q == request[r] IN
       IF q.write = "create" /\ account.born
       THEN UNCHANGED <<account, token, versions, served>>
       ELSE /\ token' = Append(Invalidated(q.list), TokenOf(q.kind, q.to))
            /\ served' = Append(served, 0)
            /\ account' = CASE q.write = "create" -> [Registered EXCEPT !.password = versions + 1]
                            [] q.write = "overwrite" -> [account EXCEPT !.password = versions + 1]
                            [] OTHER -> account
            /\ versions' = IF q.write = None THEN versions ELSE versions + 1
    /\ Over(r)
    /\ UNCHANGED <<session, taken, begun, dead, crowded, resetAt, slipped, cutShort, entered>>

-----------------------------------------------------------------------------
(* Opening a link: _consume() and what follows it, one transaction.          *)

\* find_usable().
OpenLink(r, k) ==
    /\ Usable(k)
    /\ Begin(r, [Idle EXCEPT !.pc = "found", !.kind = token[k].kind, !.item = k,
                             !.to = token[k].to])
    /\ crowded' = IF \E o \in Requests : request[o].item = k THEN crowded \cup {"opened"}
                  ELSE crowded
    /\ UNCHANGED <<rows, dead, served, resetAt, slipped, cutShort, entered>>

\* verify_email() leaves the user row alone when it is confirmed already.
WritesUser(kind) == kind # "verify" \/ ~account.verified

\* mark_used() writes used_at whatever it is by now, and _require_user()
\* reads the row the rest decides on: once the link is locked, the moment of
\* that read makes no difference.
MarkUsed(r) ==
    /\ At(r, "found") /\ LinkFree(request[r].item)
    /\ request' = [request EXCEPT ![r].pc = "ready", ![r].version = account.password,
                       ![r].write = IF WritesUser(request[r].kind) THEN "user" ELSE None]
    /\ UNCHANGED <<rows, begun, dead, history>>

\* A weak password, an address somebody else has: the link stays usable.
RefuseUse(r) ==
    /\ At(r, "ready")
    /\ request[r].kind = "reset" \/ (request[r].kind = "change" /\ request[r].to \in taken)
    /\ Over(r)
    /\ UNCHANGED <<rows, begun, dead, history>>

\* mark_used() within the transaction.
Marked(k) == [token EXCEPT ![k].used = TRUE]

\* The commit of a use: the link is spent, and whoever is about to write over
\* an account read it before it was entered.
Uses(r, kind, row) ==
    /\ At(r, "ready") /\ request[r].kind = kind
    /\ request[r].write = "user" => UserFree
    /\ account' = row
    /\ token' = Marked(request[r].item)
    /\ served' = [served EXCEPT ![request[r].item] = @ + 1]
    /\ UNCHANGED <<session, taken, begun, dead, crowded, slipped>>

Overtake(r, new) ==
    request' = [o \in Requests |->
        IF o = r THEN new
        ELSE [request[o] EXCEPT !.overtaken = @ \/ request[o].write = "overwrite"]]

\* verify_email(), up to its commit.
Verify(r) ==
    /\ Uses(r, "verify", [account EXCEPT !.verified = TRUE])
    /\ Overtake(r, [Idle EXCEPT !.pc = "issuing", !.version = request[r].version])
    /\ UNCHANGED <<versions, resetAt, cutShort, entered>>

\* reset(), up to its first commit: the password is new, sessions still live.
Reset(r) ==
    /\ Uses(r, "reset", [account EXCEPT !.password = versions + 1])
    /\ versions' = versions + 1
    /\ resetAt' = versions + 1 /\ cutShort' = FALSE
    /\ entered' = (entered \/ ~account.verified)
    /\ Overtake(r, [Idle EXCEPT !.pc = "revoking", !.version = versions + 1])

\* apply_email_change(): the unique index has the last word on the address.
Change(r) ==
    /\ request[r].to \notin taken
    /\ Uses(r, "change", [account EXCEPT !.verified = TRUE, !.address = request[r].to])
    /\ Overtake(r, Idle)
    /\ UNCHANGED <<versions, resetAt, cutShort, entered>>

\* Variant: the newest session is spared.
ToRevokeButOne == {s \in Live : \E o \in Live : o > s}
ToRevoke == Live

\* revoke_all(): the sessions are listed ...
RevokeReads(r) ==
    /\ At(r, "revoking")
    /\ request' = [request EXCEPT ![r].pc = "revoked", ![r].list = ToRevoke]
    /\ UNCHANGED <<rows, begun, dead, history>>

\* ... and end with the second commit.
RevokeCommits(r) ==
    /\ At(r, "revoked")
    /\ session' = [s \in Sessions |->
           IF s \in request[r].list THEN [session[s] EXCEPT !.state = "ended"] ELSE session[s]]
    /\ request' = [request EXCEPT ![r].pc = "issuing", ![r].list = {}]
    /\ UNCHANGED <<account, token, taken, versions, begun, dead, history>>

\* AuthService.issue(): a session, whatever became of the password meanwhile.
Issue(r) ==
    /\ At(r, "issuing")
    /\ session' = Append(session, SessionOf(request[r].version))
    /\ slipped' = IF request[r].version < resetAt THEN slipped \cup {Len(session) + 1}
                  ELSE slipped
    /\ Over(r)
    /\ UNCHANGED <<account, token, taken, versions, begun, dead,
                   served, crowded, resetAt, cutShort, entered>>

-----------------------------------------------------------------------------
(* The password: login() and set_password() of the profile.                  *)

Login(r) ==
    /\ account.verified
    /\ Begin(r, [Idle EXCEPT !.pc = "issuing", !.version = account.password])
    /\ UNCHANGED <<rows, dead, history>>

SetPassword(r) ==
    /\ account.born /\ Live # {}
    /\ Begin(r, [Idle EXCEPT !.pc = "setting"])
    /\ UNCHANGED <<rows, dead, history>>

\* Sessions go on: only a reset ends them.
SetPasswordCommits(r) ==
    /\ At(r, "setting") /\ UserFree
    /\ account' = [account EXCEPT !.password = versions + 1]
    /\ versions' = versions + 1
    /\ Over(r)
    /\ UNCHANGED <<token, session, taken, begun, dead, history>>

-----------------------------------------------------------------------------
\* TOKEN_LIFETIMES.
Expires(k) ==
    /\ Usable(k)
    /\ token' = [token EXCEPT ![k].expired = TRUE]
    /\ UNCHANGED <<account, session, taken, versions, request, begun, dead, history>>

\* Another account gets an address this one has not.
TakenByOther(a) ==
    /\ a \notin taken /\ a # account.address
    /\ taken' = taken \cup {a}
    /\ UNCHANGED <<account, token, session, versions, request, begun, dead, history>>

\* Between the commits of the last reset.
Revoking(r) == request[r].pc \in {"revoking", "revoked"} /\ request[r].version = resetAt

\* A process dies: locks go, what is committed stays.
Dies(r) ==
    /\ ~At(r, "idle") /\ dead < MaxDead
    /\ dead' = dead + 1
    /\ cutShort' = (cutShort \/ Revoking(r))
    /\ Over(r)
    /\ UNCHANGED <<rows, begun, served, crowded, resetAt, slipped, entered>>

WaitsFor(r, o) ==
    LET q == request[r] IN
    \/ q.pc = "found" /\ HoldsLink(o, q.item)
    \/ q.pc = "invalidating" /\ \E k \in q.list : HoldsLink(o, k)
    \/ (q.pc = "setting" \/ (q.pc = "ready" /\ q.write = "user")) /\ HoldsUser(o)

\* Variant: nobody breaks a circle of waiting transactions.
BreaksNever(r, o) == FALSE
Breaks(r, o) == WaitsFor(r, o) /\ WaitsFor(o, r)

\* The database aborts one of two that wait for each other.
DeadlockAborts(r) ==
    /\ \E o \in Requests \ {r} : Breaks(r, o)
    /\ Over(r)
    /\ UNCHANGED <<rows, begun, dead, history>>

Starts(r) ==
    \/ Register(r) \/ Resend(r) \/ RequestReset(r) \/ Login(r) \/ SetPassword(r)
    \/ \E a \in Addresses : RequestChange(r, a)
    \/ \E k \in Tokens : OpenLink(r, k)

Proceeds(r) ==
    \/ InvalidateStarts(r) \/ CommitLetter(r)
    \/ MarkUsed(r) \/ RefuseUse(r) \/ Verify(r) \/ Reset(r) \/ Change(r)
    \/ RevokeReads(r) \/ RevokeCommits(r) \/ Issue(r) \/ SetPasswordCommits(r)
    \/ DeadlockAborts(r)

Next ==
    \/ \E r \in Requests : Starts(r) \/ Proceeds(r) \/ Dies(r)
    \/ \E k \in Tokens : Expires(k)
    \/ \E a \in Addresses : TakenByOther(a)

Spec == Init /\ [][Next]_vars

\* A request runs on until it answers, and the database looks for deadlocks.
FairSpec == Spec /\ \A r \in Requests : WF_vars(Proceeds(r))

-----------------------------------------------------------------------------
TokenRows == [kind : Kinds, used : BOOLEAN, expired : BOOLEAN, to : Addresses]
SessionRows == [state : {"live", "ended"}, version : Nat]
RequestTypes ==
    [pc : {"idle", "asked", "invalidating", "found", "ready",
           "revoking", "revoked", "issuing", "setting"},
     kind : Kinds \cup {None}, item : Tokens \cup {0}, to : Addresses,
     write : {None, "create", "overwrite", "user"}, list : SUBSET (Tokens \cup Sessions),
     version : Nat, overtaken : BOOLEAN]

\* Every variable keeps its type.
TypeOK ==
    /\ account \in [born : BOOLEAN, verified : BOOLEAN, password : Nat, address : Addresses]
    /\ token \in Seq(TokenRows)
    /\ session \in Seq(SessionRows)
    /\ taken \subseteq Addresses /\ versions \in Nat
    /\ request \in [Requests -> RequestTypes]
    /\ begun \in 0..MaxBegun /\ dead \in 0..MaxDead
    /\ served \in Seq(Nat) /\ Len(served) = Len(token) /\ crowded \subseteq Kinds \cup {"opened"}
    /\ resetAt \in Nat /\ slipped \subseteq Sessions
    /\ cutShort \in BOOLEAN /\ entered \in BOOLEAN

\* Of the links of a kind one works (tokens.py:42, password.py:186), through
\* registrations, repeated letters and uses that are refused, unless two
\* letters of the kind were asked for at once; and it is good for one use,
\* unless it was opened twice at once. A use that is refused or dies does not
\* count.
OneWorkingLink ==
    /\ \A i, j \in Tokens :
           Usable(i) /\ Usable(j) /\ token[i].kind = token[j].kind
           => i = j \/ token[i].kind \in crowded
    /\ \A k \in Tokens :
           /\ served[k] <= 1 \/ "opened" \in crowded
           /\ served[k] > 0 => token[k].used

\* The last reset has ended the sessions of all passwords before it
\* (password.py:148), whatever resets before it, crossing it or cut short left,
\* but for its own moment between two commits, its death in that moment, and
\* logins that had checked the old password before.
ResetEndsSessions ==
    \A s \in Live :
        \/ session[s].version >= resetAt
        \/ s \in slipped \/ cutShort
        \/ \E r \in Requests : Revoking(r)

\* register() writes over an account only while nobody is in it
\* (password.py:73): it has no confirmed address and no session, unless it was
\* entered while register() ran, or by a reset, which confirms nothing.
OverwritesNobody ==
    [][\A r \in Requests :
          /\ At(r, "invalidating") /\ request[r].write = "overwrite"
          /\ account'.password # account.password
          => (~account.verified /\ Live = {}) \/ request[r].overtaken \/ entered]_vars

\* Every request ends, also those that wait for each other's rows: register()
\* holds the user and wants the links, verify_email() the other way round.
RequestsEnd ==
    \A r \in Requests : request[r].pc # "idle" ~> request[r].pc = "idle"
=============================================================================
