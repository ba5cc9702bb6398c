------------------------------- MODULE Refresh -------------------------------
(* One browser session: the exchange of its refresh token by several tabs,   *)
(* its revocation, and the access tokens it hands out                        *)
(* (services/auth/service.py, repositories/sessions.py, services/principal.py*)
(* api/deps.py, and the tab's side in auth/client.ts).                       *)
(*                                                                           *)
(* The row of `sessions` is read by a plain SELECT; its UPDATE takes the row *)
(* lock until the commit and writes the changed columns only. The mark that  *)
(* refuses access tokens lies in Valkey and is set before the commit.        *)
(*                                                                           *)
(* Abstractions.  Tokens are numbered in the order of their commits. The     *)
(* user exists and is active. An access token is the time it is valid until. *)
EXTENDS Integers

CONSTANTS
    Tabs,       \* tabs of the browser: one exchange under way in each
    Logouts,    \* sign-outs of this browser
    Revokers,   \* revocations from elsewhere: another device, password reset
    Window,     \* ROTATION_RACE_WINDOW
    AccessTTL,  \* settings.access_token_ttl_minutes
    Lifetime,   \* sessions.expires_at; an exchange does not move it
    MaxTime,    \* bound: the clock stops here
    MaxTokens,  \* bound: tokens handed out
    MaxLost     \* bound: answers that never arrive, processes that die

ASSUME PartiesAssumption ==
    /\ Tabs \cap (Logouts \cup Revokers) = {} /\ Logouts \cap Revokers = {}
    /\ "none" \notin Tabs \cup Logouts \cup Revokers

ASSUME TimesAssumption ==
    /\ Window \in Nat /\ AccessTTL \in Nat /\ Lifetime \in Nat
    /\ MaxTime \in Nat /\ MaxTokens \in Nat /\ MaxLost \in Nat

VARIABLES
    now,
    row,        \* the committed row of `sessions`
    lock,       \* who has an UPDATE of the row not yet committed
    audited,    \* session.reuse_detected is in the audit log
    marked,     \* session:revoked:<id> exists in Valkey before this time
    issued,     \* tokens handed out so far
    cookie,     \* the refresh token in the browser's jar, or NoToken
    access,     \* the latest time an access token that arrived is valid until
    tab,        \* each tab's exchange: where it is, what it presents and read
    rev,        \* where each sign-out and revocation is
    lost,       \* answers lost and processes dead so far
    overlapped, \* history: two exchanges of the browser were under way at once
    disordered, \* history: an answer arrived after that of a later commit
    raced,      \* history: a revocation fell into an exchange under way
    mislaid     \* history: a token was handed out that never arrived, and no
                \* other arrived since

database == <<row, lock, audited>>
browser == <<cookie, access, disordered, mislaid>>
vars == <<now, database, marked, issued, browser, tab, rev, lost, overlapped, raced>>

Others == Logouts \cup Revokers
None == "none"
NoToken == 0

Rows == [current : Nat, previous : Nat, rotated : Nat, revoked : BOOLEAN]
FirstRow == [current |-> 1, previous |-> NoToken, rotated |-> 0, revoked |-> FALSE]
Idle == [pc |-> "idle", token |-> NoToken, mem |-> FirstRow, fresh |-> NoToken, until |-> 0]

\* The browser has just signed in: issue() made the row and the first pair.
Init ==
    /\ now = 0
    /\ row = FirstRow /\ lock = None /\ audited = FALSE
    /\ marked = 0
    /\ issued = 1
    /\ cookie = 1 /\ access = AccessTTL
    /\ tab = [t \in Tabs |-> Idle]
    /\ rev = [v \in Others |-> "idle"]
    /\ lost = 0
    /\ overlapped = FALSE /\ disordered = FALSE /\ raced = FALSE /\ mislaid = FALSE

-----------------------------------------------------------------------------
(* An exchange: POST /api/auth/refresh.                                      *)

To(t, pc) == tab' = [tab EXCEPT ![t].pc = pc]

\* refreshOnce(): a tab has one exchange at a time, tabs know nothing of each
\* other. Without a cookie the request is refused like one with a dead token.
Send(t) ==
    /\ tab[t].pc = "idle"
    /\ tab' = [tab EXCEPT ![t] = [Idle EXCEPT !.pc = "sent", !.token = cookie]]
    /\ overlapped' = (overlapped \/ \E o \in Tabs \ {t} : tab[o].pc # "idle")
    /\ UNCHANGED <<now, database, marked, issued, browser, rev, lost, raced>>

\* The row this session has found, unless it is revoked or expired.
Accepted(t, pc) ==
    tab' = [tab EXCEPT ![t].mem = row,
                       ![t].pc = IF row.revoked \/ Lifetime <= now THEN "refused" ELSE pc]

\* find_by_token_hash(), and the checks after it.
Find(t) ==
    /\ tab[t].pc = "sent"
    /\ IF tab[t].token = row.current THEN Accepted(t, "found") ELSE To(t, "missed")
    /\ UNCHANGED <<now, database, marked, issued, browser, rev, lost, overlapped, raced>>

\* Variant: the last moment of the window is past it.
InWindowStrict(r) == now - r.rotated < Window
InWindow(r) == now - r.rotated <= Window

\* find_by_previous_hash(), a second SELECT: inside the window a race of tabs,
\* after it a copy of the token in other hands.
FindPrevious(t) ==
    /\ tab[t].pc = "missed"
    /\ IF tab[t].token # NoToken /\ tab[t].token = row.previous /\ ~row.revoked
       THEN IF InWindow(row) THEN Accepted(t, "found") ELSE To(t, "reused")
       ELSE To(t, "refused")
    /\ UNCHANGED <<now, database, marked, issued, browser, rev, lost, overlapped, raced>>

\* Variant: the hashes change places.
RotatedSwapped(mem, new) == [row EXCEPT !.previous = new, !.current = mem.current,
                                        !.rotated = now]

\* SessionRepository.rotate() on the row as this session read it.
Rotated(mem, new) == [row EXCEPT !.previous = mem.current, !.current = new,
                                 !.rotated = now]

Rotate(t) ==
    /\ tab[t].pc = "found" /\ lock = None /\ issued < MaxTokens
    /\ row' = Rotated(tab[t].mem, issued + 1)
    /\ issued' = issued + 1
    /\ tab' = [tab EXCEPT ![t] = [Idle EXCEPT !.pc = "rotated", !.fresh = issued + 1]]
    /\ UNCHANGED <<now, lock, audited, marked, browser, rev, lost, overlapped, raced>>

\* Variant: the time to live is taken off.
ValidUntilBackwards == now - AccessTTL
ValidUntil == now + AccessTTL

\* _pack(): the access token is signed after the commit.
Pack(t) ==
    /\ tab[t].pc = "rotated"
    /\ tab' = [tab EXCEPT ![t].pc = "packed", ![t].until = ValidUntil]
    /\ UNCHANGED <<now, database, marked, issued, browser, rev, lost, overlapped, raced>>

\* The answer arrives and its Set-Cookie replaces what the jar holds.
Receive(t) ==
    /\ tab[t].pc = "packed"
    /\ cookie' = tab[t].fresh
    /\ access' = IF tab[t].until > access THEN tab[t].until ELSE access
    /\ disordered' = (disordered \/ cookie > tab[t].fresh)
    /\ mislaid' = FALSE
    /\ tab' = [tab EXCEPT ![t] = Idle]
    /\ UNCHANGED <<now, database, marked, issued, rev, lost, overlapped, raced>>

\* The refusal arrives. refresh() clears the cookie on a response that is not
\* sent: the handler of ApiError makes one of its own. The cookie stays.
ReceiveRefusal(t) ==
    /\ tab[t].pc = "refused"
    /\ tab' = [tab EXCEPT ![t] = Idle]
    /\ UNCHANGED <<now, database, marked, issued, browser, rev, lost, overlapped, raced>>

-----------------------------------------------------------------------------
(* Revocation, step by step: UPDATE (the row lock is taken), mark, commit.   *)

\* Variant: the mark goes a unit of time too early.
MarkTooShort == now + AccessTTL - 1

\* mark_session_revoked(): as long as an access token signed now.
MarkUntil == now + AccessTTL

\* An exchange that has committed but not yet signed its access token.
Unsigned == \E t \in Tabs : tab[t].pc = "rotated"

Mark ==
    /\ marked' = MarkUntil
    /\ raced' = (raced \/ Unsigned)

\* An exchange that has read the row before it is revoked.
HasRead == \E t \in Tabs : tab[t].pc = "found"

CommitRevocation(reused) ==
    /\ row' = [row EXCEPT !.revoked = TRUE]
    /\ lock' = None
    /\ audited' = (audited \/ reused)
    /\ raced' = (raced \/ HasRead)

\* _handle_possible_reuse() past the window.
ReuseFlushes(t) ==
    /\ tab[t].pc = "reused" /\ lock = None
    /\ lock' = t
    /\ To(t, "flushed")
    /\ UNCHANGED <<now, row, audited, marked, issued, browser, rev, lost, overlapped, raced>>

ReuseMarks(t) ==
    /\ tab[t].pc = "flushed"
    /\ Mark
    /\ To(t, "marked")
    /\ UNCHANGED <<now, database, issued, browser, rev, lost, overlapped>>

ReuseCommits(t) ==
    /\ tab[t].pc = "marked"
    /\ CommitRevocation(TRUE)
    /\ To(t, "refused")
    /\ UNCHANGED <<now, marked, issued, browser, rev, lost, overlapped>>

\* is_session_revoked() and the expiry of the token: some token is let in.
LetIn == now < access /\ ~(now < marked)

RevTo(v, pc) == rev' = [rev EXCEPT ![v] = pc]

\* logout() needs a valid access token; another device brings its own. A row
\* that is revoked already is left alone.
RevokerReads(v) ==
    /\ rev[v] = "idle"
    /\ v \in Logouts => LetIn
    /\ RevTo(v, IF row.revoked THEN "committed" ELSE "read")
    /\ UNCHANGED <<now, database, marked, issued, browser, tab, lost, overlapped, raced>>

RevokerFlushes(v) ==
    /\ rev[v] = "read" /\ lock = None
    /\ lock' = v
    /\ RevTo(v, "flushed")
    /\ UNCHANGED <<now, row, audited, marked, issued, browser, tab, lost, overlapped, raced>>

RevokerMarks(v) ==
    /\ rev[v] = "flushed"
    /\ Mark
    /\ RevTo(v, "marked")
    /\ UNCHANGED <<now, database, issued, browser, tab, lost, overlapped>>

RevokerCommits(v) ==
    /\ rev[v] = "marked"
    /\ CommitRevocation(FALSE)
    /\ RevTo(v, "committed")
    /\ UNCHANGED <<now, marked, issued, browser, tab, lost, overlapped>>

\* The answer to a sign-out clears the cookie of its browser.
RevokerAnswers(v) ==
    /\ rev[v] = "committed"
    /\ cookie' = IF v \in Logouts THEN NoToken ELSE cookie
    /\ RevTo(v, "done")
    /\ UNCHANGED <<now, database, marked, issued, access, tab, lost, overlapped,
                   disordered, mislaid, raced>>

-----------------------------------------------------------------------------
(* Failures.                                                                 *)
Fault == lost < MaxLost /\ lost' = lost + 1

\* Variant: what the dead process had locked stays locked.
UnlockNever(who) == UNCHANGED lock
Unlock(who) == lock' = IF lock = who THEN None ELSE lock

\* The answer is lost, or the process dies and the database rolls back.
ExchangeDies(t) ==
    /\ Fault
    /\ tab[t].pc # "idle"
    /\ Unlock(t)
    /\ mislaid' = (mislaid \/ tab[t].pc \in {"rotated", "packed"})
    /\ tab' = [tab EXCEPT ![t] = Idle]
    /\ UNCHANGED <<now, row, audited, marked, issued, cookie, access, disordered, rev,
                   overlapped, raced>>

RevokerDies(v) ==
    /\ Fault
    /\ rev[v] \in {"read", "flushed", "marked", "committed"}
    /\ Unlock(v)
    /\ RevTo(v, "done")
    /\ UNCHANGED <<now, row, audited, marked, issued, browser, tab, overlapped, raced>>

Tick ==
    /\ now < MaxTime
    /\ now' = now + 1
    /\ UNCHANGED <<database, marked, issued, browser, tab, rev, lost, overlapped, raced>>

-----------------------------------------------------------------------------
Serve(t) ==
    \/ Find(t) \/ FindPrevious(t) \/ Rotate(t) \/ Pack(t)
    \/ Receive(t) \/ ReceiveRefusal(t)
    \/ ReuseFlushes(t) \/ ReuseMarks(t) \/ ReuseCommits(t)

Revoke(v) ==
    RevokerFlushes(v) \/ RevokerMarks(v) \/ RevokerCommits(v) \/ RevokerAnswers(v)

Next ==
    \/ \E t \in Tabs : Send(t) \/ Serve(t) \/ ExchangeDies(t)
    \/ \E v \in Others : RevokerReads(v) \/ Revoke(v) \/ RevokerDies(v)
    \/ Tick

Spec == Init /\ [][Next]_vars

\* A request that has come in is served to its end; nobody has to send one.
FairSpec ==
    /\ Spec
    /\ \A t \in Tabs : WF_vars(Serve(t))
    /\ \A v \in Others : WF_vars(Revoke(v))

-----------------------------------------------------------------------------
Exchanges == [pc : {"idle", "sent", "missed", "found", "rotated", "packed", "reused",
                    "flushed", "marked", "refused"},
              token : Nat, mem : Rows, fresh : Nat, until : Nat]
RevokerStates == {"idle", "read", "flushed", "marked", "committed", "done"}

TypeOK ==
    /\ now \in Nat
    /\ row \in Rows
    /\ lock \in Tabs \cup Others \cup {None}
    /\ audited \in BOOLEAN
    /\ marked \in Nat
    /\ issued \in Nat
    /\ cookie \in Nat /\ access \in Nat
    /\ tab \in [Tabs -> Exchanges]
    /\ rev \in [Others -> RevokerStates]
    /\ lost \in Nat
    /\ overlapped \in BOOLEAN /\ disordered \in BOOLEAN /\ raced \in BOOLEAN
    /\ mislaid \in BOOLEAN

\* Once a revocation is committed no access token of the session is let in, to
\* the end of the last one (deps.py:94-95), unless the revocation fell between
\* the read and the signature of an exchange.
RevocationShuts == row.revoked /\ ~raced => ~LetIn

\* A revoked session stays revoked, also when an exchange writes to the row
\* that it read before (service.py:95, 105).
RevokedForGood == [][row.revoked => row'.revoked]_vars

Quiet == \A t \in Tabs : tab[t].pc = "idle"
Alive == ~row.revoked /\ now < Lifetime

\* As long as answers arrive, and in the order of their commits, any number of
\* tabs that exchange at once leaves the browser with the current token.
InOrderStaysIn ==
    (lost = 0 /\ ~disordered /\ Quiet /\ Alive) => cookie = row.current

\* The alarm of a copied token is raised over the browser's own exchanges for one
\* reason only, unless they overlapped: the last token handed out never arrived,
\* and the browser asked again with the one before after the window
\* (service.py:149-156). A token lost and asked for again within the window, a
\* request lost before it got one, and a revocation that died raise none.
NoFalseAlarm ==
    [][audited' # audited =>
          overlapped \/ (mislaid /\ now > row.rotated + Window)]_vars

\* "Without the window two tabs that refresh at once would throw the user out"
\* (identity-design.md:102): with the window they do not, the browser is left
\* with a token that the next exchange accepts.
TabsStaySignedIn ==
    (lost = 0 /\ Quiet /\ Alive) => cookie \in {row.current, row.previous}

\* Every exchange is answered, though revocations hold the row's lock over a
\* call to Valkey and processes die with it.
RefreshEnds ==
    \A t \in Tabs : tab[t].pc # "idle" ~> (tab[t].pc = "idle" \/ issued = MaxTokens)
=============================================================================
