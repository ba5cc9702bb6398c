# Re:Pibot Shop — TLA+ models and proofs

Re:Pibot Shop sells VPN subscriptions on top of a Remnawave panel. Its backend is
Python: a FastAPI service, a Telegram bot and a TaskIQ worker over one PostgreSQL
database and one Valkey, with the panel on the other side of HTTP. Nothing in it is
algorithmically deep. What is hard is that every service reads a row with a plain
`SELECT`, awaits something, and writes back later, while other requests, the worker, the
schedules, the panel, Telegram and the browser's other tabs do the same. These modules model that, TLC checks them on small
instances, and TLAPS proves every safety property they check for every instance.

All paths below are relative to `src/backend/core/src/repibot_core/` unless they start with
`api/` (`src/backend/api/src/repibot_api/`), `bot/`, `docs/` or `frontend/`.

## What every model assumes of the platform

| Fact | Where it comes from | How it is modelled |
|---|---|---|
| READ COMMITTED, one session per request, `expire_on_commit=False` | `db/engine.py` | a read is a step that copies the committed row into the process; the copy is used until the end |
| UPDATE writes only changed columns, by primary key, no version check | SQLAlchemy models without `version_id_col` | a commit changes the fields the session touched and nothing else |
| an UPDATE holds the row's lock until its commit | PostgreSQL | a `lock` variable where other awaits happen in between, one atomic step otherwise |
| of two transactions that wait for each other's rows one is aborted | PostgreSQL | `DeadlockAborts` in `Letters` |
| a unique index refuses the second insert, and the request fails as a whole | models of `db/models` | a guard of the commit; the request ends without effect |
| `GETDEL` and a pipeline are one step of Valkey, two calls are two | `services/challenges.py`, `ratelimit.py` | one action each; what Valkey has done stays when the process dies |
| a process that dies rolls back | `async with session` | a `...Dies` action that drops what is not committed |
| an HTTP call may fail, or succeed without an answer | `integrations/remnawave/client.py` | outcomes done / rejected / silent / answer lost with the write still on its way |

## Inventory

| Component | State | Operations | Met by | Hard behaviour | What makes it correct |
|---|---|---|---|---|---|
| Subscription service (`services/subscriptions.py`, `domain/subscriptions.py`) | row of `subscriptions`, journal, one message per grant | `activate_trial`, `grant_days`, `change_plan`, `expire_due`, `_provision` | API, worker, expiry task | stale reads, 3-second timeout, failure after commit | journalled days arrive; expired follows from the date; access follows the row |
| Provisioning (`services/provisioning.py`) | panel user, `users.remnawave_id` | `reconcile`, the handler of `panel.provision` | request, worker, sweep | two calls with a gap, repeats, late writes | idempotent; foreign users untouched; panel catches up |
| Reconciliation (`services/reconciliation.py`) | findings report | a page of working rows, `reconcile` each | hourly task | page copies go stale | repairs drift |
| Panel webhooks (`services/panel_webhooks.py`) | stored events | dedup, message or cache drop | panel | repeats, death before the commit, unknown users | one effect per event |
| Outbox (`services/outbox.py`, `db/repositories/outbox.py`) | table `outbox` | `add`, `take_batch`, `postpone`, `mark_processed`, `process` | every service, worker | overlapping runs, death before the one commit, deploys | nothing lost, repeats only with a reason |
| Background tasks (`tasks.py`, worker) | none | schedules | TaskIQ | overlap, death | progress |
| Sessions (`services/auth/service.py`, `db/repositories/sessions.py`) | row of `sessions`, mark in Valkey, cookie | issue, refresh, logout, revoke one / others / all | browser tabs, other devices | stale read against revocation, tabs, lost answers | revocation is immediate and final; tabs stay signed in |
| Password and letters (`services/auth/password.py`, `db/repositories/tokens.py`) | users, one-time tokens | register, resend, verify, login, reset, change address | API, mail | double use, two letters, locks in two orders, death between commits | one link works, once; reset ends sessions |
| Accounts (`services/telegram_link.py`, `telegram_users.py`, `profile.py`, `auth/telegram.py`, `auth/passkey.py`, `domain/identity.py`) | users, passkeys, link codes, trial marks | first visit, link, absorb, unlink, passkeys, set password, trial | API, bot | concurrent removals, absorb with its cascades | nobody is locked out; nothing of value is deleted; one trial |
| Ways in (`services/challenges.py`, `auth/passkey.py`, `integrations/telegram/oidc.py`, `api/routers/auth.py`) | one-time values, sign counts, cached signing keys, a cookie | options, login, start, callback | browser tabs, authenticators, Telegram | replays, crossing logins and tabs, key rotation | one session per value; refused only for a reason |
| Caches (`services/principal.py`, `devices.py`, `traffic.py`, `panel_cache.py`) | principal 30 s, devices, usage in Valkey | get, put, drop; unlink a device | API, webhook, bot, admin login | fill races drop, writers that do not drop | stale only for a known reason |
| Rate limiter (`ratelimit.py`, `api/limits.py`) | sorted set in Valkey | hit | public routes | boundaries of the window, clocks of two processes | at most `limit` per window; Retry-After is not too long |
| Plans and administration (`services/plans.py`, `api/routers/admin.py`) | `plans`, `audit_log` | create, update, archive; grant and change by hand | staff | crossing edits, plan read before it is archived, two commits | indexes, audit and archive keep what they promise |
| Email (`services/email_dispatch.py`, `integrations/email`) | none | send | outbox | SMTP | — |
| API, bot, front end | none of their own | parse, call, set cookies | user | — | — |

Interaction: a request commits the row, the journal and an outbox message in one
transaction, then tries the panel itself. If that fails the worker takes the message.
Hourly tasks end due subscriptions and sweep working ones. The panel calls back
with webhooks, which queue messages or drop a cache. Sessions and accounts share `users`;
everything that is checked on each API request is in Valkey.

`PROJECT.json` lists every component with its status and every hazard with its line and the
properties that watch it.

## Modules

| Module | Stands for |
|---|---|
| `Subscription` | one user's subscription and all that moves it: requests, worker, expiry task, sweep, webhook, operator, panel |
| `Outbox` | the queue: batches, `SKIP LOCKED`, unknown topics, retries, one commit per run, deaths, deploys |
| `Delivery` | what the queue promises, as an abstract specification |
| `Refresh` | one browser session: tabs, rotation, reuse detection, revocation, access tokens |
| `Accounts` | accounts, Telegrams, passkeys, link codes and trials, and the requests that move them |
| `Letters` | one address and its account: letters, links, password, sessions |
| `Limiter` | one key of the rate limiter |
| `Cabinet` | the screens of one user behind their caches, and all that changes what is behind them; EXTENDS `Limiter` |
| `Desk` | plans, grants by hand and the audit log |
| `Entry` | the two logins that go through a one-time value: passkeys and oauth.telegram.org |
| `OneTimeValues` | what a one-time value promises, as an abstract specification of `Entry` |
| `...Proofs` | inductive invariants and theorems of `Subscription`, `Outbox`, `Refresh`, `Accounts`, `Letters`, `Cabinet` (with `Limiter`), `Entry`, `Desk` |
| `MC...` | values that a `.cfg` cannot write, and symmetries |

Every module has the same shape: a record per running request (`pc` and what it has read so
far), one action per statement that another process can see or that can fail, and history variables, marked
`history`, that name the crossings a property excepts. A definition marked *Variant* is not
part of the model: it is a plausible mistake in the definition next to it, kept to show that the
properties notice it.

### Subscription

`row` is the committed row; `req[r]` is the request's session with the copy it holds
(`mem`), so a request runs `LoadForGrant` or `LoadForChange` → `CommitGrant` → `Activate` → a
reconcile → `Succeed` or `Fail`. `call[c]` is one running `reconcile()` for any caller, with
the image (`want`) fixed when its session read the row; `Find`, `Write`, `WriteRejected`,
`PanelSilent` and `AnswerLost` are its outcomes, and `late` holds writes nobody waits for any more. `held` is the
message a worker has locked, `cron` the expiry run that has read the row as due. The
handler of the worker opens a second session (`HandlerReads`), as in the code. `owed` is
history: the date the journal adds up to; `overtaken` is history too: the last grant was committed
while somebody was about to write a status from an older read of the row. The panel has an operator, who toggles, deletes
(`OperatorDeletes`) or makes (`OperatorCreates`) a user of this name at any moment, between the look-up of a `reconcile()` and its write
too. `blocked` stands for the other users of a sweep: a row before this one that the panel rejects ends the run
(`SweepStops`), because `reconciliation.py:42-49` catches `RemnawaveUnavailable` only.

Data left out: plan limits and squads travel in the same PATCH as the date, so the date
stands for all; `trial` and `active` are treated alike by every rule; days and clock are
small naturals; one user, because no code joins two users' rows.

### Outbox and Delivery

`todo[w]` and `staged[w]` are what a run has locked and what it will write at its single
commit. Handlers act outside that transaction, so `works` counts work that stays when the
run dies. `excuses` counts the reasons for doing work again. `Delivery` knows only the status of
a message and whether its work was done at least once; `Promise` maps phases to statuses.

### Refresh

`row` is the session's row, `lock` its row lock, `marked` the time until which Valkey refuses the
session's access tokens. Each tab runs `Send` → `Find` → (`FindPrevious`) → `Rotate` → `Pack` →
`Receive`, or is refused; the two look-ups are two statements and a commit may fall
between them. Past the window the second look-up revokes: flush, mark, commit, each a step. A sign-out
or a revocation from another device runs the same three steps. The cookie jar is shared by the tabs and
takes whatever answer arrives last. A refusal leaves the cookie as it is: the handler of the error
answers with a response of its own, so the header that clears the cookie is never sent
(`ReceiveRefusal`).

### Accounts

`user` is the table of users, `keyOf` the owner of each passkey row, `code` the one-time values in
Valkey, `trial` the table of marks. A first message, the mini app and the OIDC callback look for the account of a
Telegram and `Create` it, or lose to the unique index. A link runs `IssueCode` → `TakeCode`
(GETDEL) → `LoadTarget` → `FindDuplicate` → `CheckDuplicate` → `Link`, which deletes the duplicate
with the cascades of the schema: its passkeys go, its trial mark stays without a user. An account that meets itself as
the duplicate fails whole: the audit entry of the link names a user who is gone. `Unlink` and
`DeleteKey` each read the account, count its methods and commit, three steps. A session keeps the
rows it has loaded (`own`, `seen`), as SQLAlchemy's identity map does. `removals`, `redeems` and
`hurried` are history: accounts on which two removals, two redeems, or a redeem and a gain, crossed.

### Letters

`token` and `session` are the rows of the two tables in the order of their commits; who holds a row lock of PostgreSQL follows
from where its transaction is (`HoldsLink`, `HoldsUser`). A letter is asked
for (`Register`, `Resend`, `RequestReset`, `RequestChange`), lists the older links
(`InvalidateStarts`), takes their locks and commits. A link is opened, found, marked (`MarkUsed`, which waits for
the lock), and then `Verify` (which leaves the user row alone when it is confirmed already, `WritesUser`), `Reset` or `Change` commits; a reset goes on to revoke the sessions it reads, and to
issue one. Register and verify take the locks of user and token in opposite orders, so they can
wait for each other until the database aborts one. Passwords are numbered in the order they are made, which makes
"older than the reset" a comparison.

### Cabinet and Limiter

`Limiter` keeps all hits ever tried (`tried`) and the members of the set as indices into it. `hit()`
takes its date in the process (`TakeMoment`) and runs the pipeline later, so hits reach Valkey out of the order
of their dates; a refused hit asks for the oldest member in a second call.

`Cabinet` reads a cached value in three steps (`Get`, `ReadSource`, `Put`). `Source` says what each
entry stands for. `overdue` is history: pairs of a cached value and the reason why nobody dropped it after a
change. The principal comes first on every route, so an unlink is current_context,
limiter, panel, drop. A webhook inserts its row, holding its key against a second delivery (`claim`), handles it, commits, and
is acknowledged or sent again. `Mixes` says which operations come together in one
behaviour: the whole product is out of reach, and each mix is one neighbourhood of
operations that touch the same value.

### Desk

A request of the staff reads the plan, asks the panel for its squads, checks the code and saves what differs from what
it read (`Merged`), or archives. `Grant` and `Trial` read the plan and the row, commit, and a grant by hand goes on to a
second commit for the audit log. `acts` is history: what was done to the subscription, in order of
commits; `mixed` names plans saved over a change that came since they were read, `cut` acts
whose request ended between its commits.

### Entry and OneTimeValues

A challenge is given out, signed by an authenticator, which counts, and presented any number of times; `GETDEL` gives it to one
request, which finds the key, checks the count against what it has read and commits it. A tab goes to
Telegram with a state; the cookie of the browser is bound to the last one started. The token it comes back with is
signed by a key that Telegram may withdraw; the set of keys is cached and fetched again when a key is not in it. `crossed`
names the states in whose life another attempt began or ended, in another tab or by a return with no code, with no state or with a state nobody
gave out (`ReturnEmpty`), which clears the cookie and leaves the states that are kept.

`OneTimeValues` forgets keys, cookies and tokens and keeps the life of a value: given out, then taken or lost, and used by
whoever took it. `LifeOf` reads that from `once`, `opened` and `expired`; the `GETDEL` is the step that takes, `Issue`
the one that opens.

## Runs

| Run | Result | What it shows |
|---|---|---|
| `subscription_grants` | passes | two overlapping grants, a worker, a webhook, one failure, an operator who deletes and makes panel users: only committed dates travel, no date exceeds the journal, serial grants add up, a foreign panel user is never written to, also when he appears between look-up and write |
| `subscription_tasks` | passes, with liveness | a grant or plan change against worker, expiry task, sweep and operator: due subscriptions end, access is closed, the panel catches up for good if sweeps come to the row, an expired row has a date that passed |
| `subscription_lost_days` | counterexample | two overlapping grants: one journalled grant is lost |
| `subscription_stuck` | counterexample, under fairness | after one failed attempt the worker sends the pending row as DISABLED and nothing reopens it |
| `outbox` | passes, with liveness | the queue implements `Delivery`; work is repeated only with a reason; every message is closed |
| `refresh` | passes, with liveness | revocation is immediate unless it races an exchange; ordered answers keep tabs signed in; the alarm has one cause, a token that never arrived; exchanges end |
| `refresh_tabs` | counterexample | two tabs rotate from the same read and the answers cross: the browser is signed out |
| `accounts` | passes | accounts stay open, a Telegram opens one account and gets one trial, linking takes nothing from anybody |
| `letters` | passes, with liveness | one link of a kind works, once; the last reset ends the sessions before it; nobody who is in is written over; every request ends, deadlocked ones too |
| `cabinet` | passes | nothing cached is out of date without a known reason; an event has its effect once; the limit holds in every window |
| `desk` | passes | codes and trials are unique, squads exist, plans are whole, the audit log tells what happened, archived plans take nobody |
| `entry` | passes | the one-time values implement `OneTimeValues`, so one opens one session at most and none after it expired; counts do not fall, nobody is refused without a cause |

The three counterexamples are statements of the repository's own comments or docs that
the code does not keep; for each, a passing run checks the strongest form that does hold (`SerialGrantsAddUp`,
`PanelCatchesUp`, `InOrderStaysIn`). The other divergences are exceptions named inside properties that pass,
never hidden in the model: dropping the exception gives the counterexample. `findings` in
`PROJECT.json` quotes each statement and tells the trace.

| Property | Exception | Where it comes from |
|---|---|---|
| `ExpiredByItsDate` | `overtaken`: the last grant fell between a read of the row and the status written from it | `services/subscriptions.py:236` |
| `PanelCatchesUp` | rows before this one end every sweep (`blocked`) for ever; a foreign user has the name | `services/reconciliation.py:44` |
| `NoFalseAlarm` | exchanges `overlapped`; a token handed out was `mislaid` and the one before came back after the window | `services/auth/service.py:110` |
| `RepeatsAreExcused` | a run died before its commit, or a handler failed after its work | `services/outbox.py:88` |
| `AccountsStayOpen` | `removals`: two removals at once; a password without an address | `services/login_methods.py`, `profile.py:115` |
| `TrialOnce` | the mark of an absorbed account names nobody | `services/telegram_link.py:119` |
| `LinkingTakesNothing` | `redeems`, `hurried` | `services/telegram_link.py:78` |
| `OneWorkingLink` | `crowded`: two letters at once, one link opened twice at once | `services/auth/password.py:186` |
| `ResetEndsSessions` | `slipped` logins, the death of the last reset between its two commits (`cutShort`), passwords set in the profile | `services/auth/password.py:148` |
| `OverwritesNobody` | `entered` by a reset that confirms nothing, `overtaken` while register ran | `services/auth/password.py:73` |
| `StaleHasCause` | seven reasons, among them the bot, a promotion and a lost answer of the panel | `services/devices.py:66`, `profile.py:94` |
| `LimitIsKept` | one hit more for each that came late; hits between the two calls of a refused one | `ratelimit.py` |
| `AuditTellsTheChange` | `cut`; an act that slipped in after `before` was read | `api/routers/admin.py:173` |
| `PlansStayInOrder` | `mixed`: two edits of a plan crossed; squads `removed` from the panel | `services/plans.py:92` |
| `ArchivedIsOffSale` | the plan was read before it was archived; days granted by hand | `api/routers/admin.py:149` |
| `NobodyTurnedAway` | `crossed`: an attempt of another tab began or ended in between, or a return without a code or a state (declined at Telegram) ended the binding | `api/routers/auth.py:358` |
| `CountsHold` | two logins with one key crossed | `services/auth/passkey.py:184` |

### Bounds, and why they are enough

- `subscription_grants`: two requests, because a lost update needs two; one worker and one
  webhook slot to repeat a delivery; one fault, a death or an answer lost with its write still on its way (`MaxLate`); two
  edits by hand (`MaxDrift`), the least to delete our panel user and make another in its place; one tick, so
  that a date can be both running and past. Initial states: neither row nor panel user, and a running row that the panel shows. 9.7 million states.
- `subscription_tasks`: one of each process, one edit by hand, two attempts, and one fault (`MaxFaults`), which is a death, a
  silent panel, a late write or an earlier row that ends the sweeps: each alone can keep the panel from catching up, and two of
  them are beyond what five minutes check with liveness. Plan changes at half price exercise the rounding. 1.2 million states.
- `outbox`: two messages, two runs and a batch of one are the least that share, compete and
  starve; two delays stand for the five of `RETRY_DELAYS`, because the code only distinguishes "has attempts left" from
  "was the last". `AttemptsCap` bounds a number that is only compared below it.
- `refresh`: two tabs, a sign-out, two failures (a token that is lost, and the next one too), three tokens. Window 0, access token 1 and
  session 2 units keep their order (window < token < session) with every boundary reachable. A
  revocation from another device is the same steps without the cookie; it is checked with the
  same result in place of the sign-out, and the proofs cover both together.
- `accounts`: a registered account, a visitor and one to be born; two Telegrams and two keys, so that one can be
  lost while the other stays; two link codes, because crossing redeems need two; two requests at a time and
  four in all (`MaxBegun`), one death. Four are the least for an account to gain a method, link, absorb and remove it.
- `letters`: two requests at a time (a deadlock needs two), four in all, one death, two addresses. The
  tables grow with the requests, by one row for each at most.
- `cabinet`: two requests at a time and three in all: two fill, write or drop, and a third sees what they
  left. Limit 1 in a window of 2 with a clock to 3 has every boundary: inside, on the edge, past, and the key's own expiry one later.
  A TTL of 1 lets entries expire between any two steps. Two edits and one death.
- `desk`: two plans, codes and squads, two requests at a time and three in all, one death and one edit at the
  panel: an index is broken by two, a crossing has two, and the third request builds on what they left.
- `entry`: two keys, one of which does not count; three challenges, so that a later signature overtakes two; two tabs;
  three signing keys, for a set that is old, one that is current and one that is next.
- Clock, faults, deaths, requests begun and edits stop at a named bound (`MaxTime`, `MaxFaults`, `MaxDead`, `MaxBegun`, `MaxEdits`, ...). A run may therefore
  stop, so deadlock is not checked; that processes do not wait for each other for ever is
  what the liveness properties say (`RefreshEnds`, `RequestsEnd`, `EveryMessageIsClosed`, `DueSubscriptionsEnd`). The proofs have
  no such bounds to fear: their constants are any naturals.
- Symmetry is used in `subscription_grants`, `refresh_tabs`, `accounts`, `cabinet`, `desk` and `entry`, which check no liveness, and
  only on sets whose members differ in nothing.

### Fairness

Weak fairness of every running process, no more: a request that has begun runs to its end or dies, the schedules of
`tasks.py` start the tasks again and again, late writes arrive or are lost. That the sweep is started does not mean that it comes to
this row: while `blocked` each run may end before it, and nobody has to mend the row that blocks (`EarlierRowMends` has no fairness). `PanelCatchesUp` therefore
assumes `<>[]~blocked`, and is the claim for a queue of rows in which nothing is rejected for ever. Nobody has to send a
request, edit the panel or begin an exchange. In `Outbox` a deploy gets strong fairness: a worker
is idle again and again between runs, and a deploy that keeps arriving gets through; the clock
ticks to its bound, because delays end only with time. In `Letters` a request that waits for a
lock is not enabled, so weak fairness does not carry it past a holder that stays; `RequestsEnd`
holds because holders go on and because `DeadlockAborts`, a step of the requests, is the
database's deadlock detector.

## Proofs

Checked by TLAPS for every value of the constants, from the named assumptions of the
modules: disjoint process names, `None` no name of anything, naturals where numbers are meant, positive days, a non-empty list
of delays, finitely many passkeys. Each proof module defines `Inv`, a conjunction of named parts, and shows `Init => Inv`,
`Inv /\ [Next]_vars => Inv'` with one lemma per group of actions, and the properties from it.

- **Subscription.** `Inv` joins eight parts. `TypeOK` and `QueueOK` need each other (attempts stay in
  range because a queued message has attempts left). `DatesOK` strengthens
  `OnlyCommittedDatesTravel` with the copies that requests hold after their commit. `ForeignOK` says no
  PATCH is on its way while the panel has no user or somebody else's: the
  operator's deletion fails the PATCHes under way, so a foreign user, made at whatever moment, can only be met by a create, which is refused.
  `JournalOK` and `SerialOK` carry the date a request is about to write next to the date its
  journal entry will add up to; `FirstOK` ties the first insert to an empty journal; `ExpiredOK` says that
  an expired row, the row an expiry run has read and the date an activation holds have passed, unless the last grant was `overtaken`; that the
  clock only goes on (`PastStays`) carries it through every other step. Theorems:
  `TypeCorrect`, `CommittedDatesTravel`, `JournalCoversDates`, `SerialGrants`, `ExpiredAfterDate`, `ForeignUntouched`.
- **Outbox.** `StagedOK` says what a run has noted for a handled message. With it
  `NobodyShares`, `ClosedAfterTry`, `DoneAfterWork`, and `Refinement`: each step of the queue is a
  step of `Delivery` or a stutter, the commit of a batch being one `Settle`. `CountInv` counts the work that no
  commit has noted yet against the excuses, which gives `RepetitionHasCause`.
- **Refresh.** `LockOK` (who is between UPDATE and commit has the lock) keeps rotations out between mark and
  commit; `ShutOK` bounds every token by the mark from then on; `TokensOK` (the current token is the newest,
  a refused token never becomes current) and `InOrderOK` (the current token is in the jar or on its way) give
  `OrderedTabsStayIn`; `CalmOK` (a lone exchange presents the current token or none, unless the last one was mislaid) gives `AlarmHasCause`. Also `RevocationIsImmediate` and `RevocationStays`.
- **Accounts.** A request carries what it has read; `RemovalOK`, `RedeemOK` and `SeenOK` say that this is still true of the
  tables unless the account is marked, and `MarksOK` that two requests that work on one account have marked it. `AccountsStayOpen` and
  `OneAccountPerTelegram` are then inductive next to them, and `TrialOK` ties a mark to its one grant. Theorems: `TelegramOpensOne`, `OneTrialEach`,
  `NobodyIsLockedOut` (but for the two lock-outs the code has: removals that crossed, and a password without an address, which needs no
  crossing), `LinksTakeNothing`.
- **Letters.** A request says where it is and what goes with it (`CarriesOK`); a letter about to be committed has listed every older link
  of its kind (`ListOK`), a link that is open was good for nothing yet (`FirstUseOK`), and whoever writes over an account found nobody
  in it (`OverwriteOK`), each unless a mark says what crossed; `ApartOK` sets the marks. `AloneOK` (nobody is in an account that was
  neither confirmed nor entered by a reset) and `CoveredOK` (a session older than the last reset is one that this reset is about to end)
  carry the rest. Theorems: `LinksWorkOnce`, `ResetShutsOut`, `NobodyIsOverwritten`.
- **Cabinet and Limiter.** For the limiter the set in Valkey has to be known from the hits that were ever tried: a hit that is no longer
  in it was trimmed by a later one or expired with the key (`MissingOK`, `GoneOK`), and the set is what the last hit left (`LastOK`). A hit that is let in and
  is not late then sees every earlier one of its window that counts, which makes `TimelyOK` inductive: the hits of a window that were let in on time are within
  the limit. `ToldOK` keeps, for each Retry-After, more than `Limit` hits that outlast it. For the caches, `StaleHasCause` is
  inductive itself, next to where each request is (`CarriesOK`, `RowOK`): whoever is about to put an old value or to drop a key is in
  `request`, and a step that ends this leaves a reason in `overdue` or drops the entry. For the events, who works on one holds its key (`ClaimOK`), and what is stored has had
  its effect (`StoredOK`). Theorems: `LimitHolds`, `StaleForCause`, `EventsActOnce`.
- **Entry.** A value that was sent is spent (`SpentOK`), and no two requests work on one (`ApartOK`), hence `OneSessionEach`. With
  `LostOK` (an expired value is in no request that could open a session) each step is a step of `OneTimeValues` or a stutter: `ValuesKeepTheirPromise`.
  `SignaturesOK` orders the signatures of a key: the stored count is older than every signature not yet sent, or was brought by one that is
  through; with `TokenOK` for the keys of Telegram and `CookieOK` for the tabs every refusal has its cause (`RefusalsHaveCause`), and the count
  falls only between logins that crossed.
- **Desk.** As long as nobody acts, what a request has read of the subscription is what is stored (`GrantingOK`); an act has its own number, and at most one audit
  entry has it (`AuditingOK`, `ApartOK`, `AuditOK`). For the plans a lemma says what a merged row is when nothing changed since it was read. Theorems:
  `PlansInOrder`, `AuditIsTrue`, `ArchivedPlansEnd`.

Only model-checked: liveness under fairness (`PanelCatchesUp`, `DueSubscriptionsEnd`, `EveryMessageIsClosed`, `RefreshEnds`,
`RequestsEnd`), because fairness and ENABLED are beyond the prover. Every invariant, action property and refinement of a passing run is
the statement of a theorem. The counterexamples are TLC's, and so is the evidence that a property notices a mistake.

## Not modelled, and why

- **Email sending**: its only state is the SMTP server; the queue treats it as a handler that succeeds or raises.
- **Settings, logging, texts, templates, migrations, front end**: no protocol of their own. The schema's constraints are used
  in every module.
- **Signatures and cryptography** (initData, ID tokens, WebAuthn, password hashes): pure functions of libraries; what a valid
  signature stands for is modelled, not how it is computed.
- **Read-only views**: showcase, lists of sessions, plans and squads, the profile's lists, the findings report.
- **Inside one panel call**: the retries of the HTTP client are one attempt with the outcomes above, in `Subscription`; `Cabinet`
  models the one place where a repeat is visible, the deletion of a device whose first answer was lost.
- **Several users in one behaviour**: only `Accounts` has more than one, because only linking joins two users' rows.

## What is left

1. A composition of `Accounts` with `Subscription`: absorbing a user while its grant is on its way to the panel. Today the
   cascade is in `Accounts` and the way to the panel in `Subscription`, joined by the row's disappearance only.
2. Several sessions of one user in `Refresh`, for the revocation of all of them against logins; `Letters` has it for resets.
