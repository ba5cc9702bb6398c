------------------------------- MODULE Cabinet ------------------------------
(* What the screens of one user are served from: the principal, the devices  *)
(* and the traffic, each behind a cache in Valkey (services/principal.py,    *)
(* deps.py, devices.py, traffic.py, panel_cache.py), and all that changes    *)
(* what is behind them: the profile, a promotion, the bot, the panel and its *)
(* webhooks (panel_webhooks.py). Unlinking a device goes through Limiter.    *)
(*                                                                           *)
(* A cached value is read, missed, read at its source and put in steps of    *)
(* their own. A process that dies rolls back; what it did to Valkey and to   *)
(* the panel stays.                                                          *)
(*                                                                           *)
(* Abstractions.  Devices are hwids. The traffic of all days stands for one  *)
(* day's. Writers of `users` set columns of their own, so their row lock is  *)
(* left out. Every payload is signed, and its key is the event. A call to    *)
(* the panel that nobody waits for any more does nothing (in Subscription it *)
(* may).                                                                     *)
EXTENDS Limiter

CONSTANTS
    Requests,   \* requests, logins and webhooks under way at once
    Languages,
    Devices,
    Events,     \* webhooks the panel may send
    WhoTTL, PanelTTL,
    Mixes,      \* bound: what may happen together in one behaviour
    MaxBegun,   \* bound: requests begun
    MaxDead,    \* bound: processes that die
    MaxEdits    \* bound: changes nobody here asked for

None == "none"
ASSUME RequestsAssumption == None \notin Requests
Asked == {"devices", "usage", "update", "unlink", "login", "webhook"}
Unasked == {"bot", "block", "known", "connect", "modify", "grow"}
ASSUME MixesAssumption == Mixes \subseteq SUBSET (Asked \cup Unasked)
ASSUME TTLAssumption == WhoTTL \in Nat \ {0} /\ PanelTTL \in Nat \ {0}
ASSUME BoundsAssumption == MaxBegun \in Nat /\ MaxDead \in Nat /\ MaxEdits \in Nat

VARIABLES
    user,       \* the row of `users`
    known,      \* users.remnawave_id is committed
    devices,    \* what the panel has: devices and traffic
    traffic,
    cache,      \* each cached value, if there is one: a set of one entry
    request,    \* each request: where it is and what it has read
    event,      \* the webhooks of the panel
    claim,      \* who has inserted the row of an event and not committed
    stored,     \* rows of `webhook_events`
    messages,   \* provisioning messages each event has left in the outbox
    mix, begun, dead, edits,
    overdue,    \* history: changes that no drop has followed, with the reason
    cleared,    \* history: device events the cache was dropped for
    strangers   \* history: events that came before the user was known

panel == <<devices, traffic>>
webhooks == <<event, claim, stored, messages, cleared, strangers>>
counters == <<mix, begun, dead, edits>>
vars == <<now, limiter, user, known, panel, cache, request, webhooks, counters, overdue>>

Cached == {"who", "devices", "usage"}
TTL(c) == IF c = "who" THEN WhoTTL ELSE PanelTTL

Reasons == {"bot", "hand", "panel", "promotion", "no answer", "death"}

\* What the cache stands for. Two numbers of the panel go under one key.
Source(c) == CASE c = "who" -> user
               [] c = "devices" -> devices
               [] c = "usage" -> <<traffic, traffic>>

Users == [role : {"user", "admin"}, language : Languages, active : BOOLEAN]
Values == [who |-> Users, devices |-> SUBSET Devices,
           usage |-> (0..MaxEdits) \X (0..MaxEdits)]

\* pc of a request that is over; what it wants, which value it is at, what it
\* has read of each, the language, device or event it is about, its hit, and
\* whether it has found the user of its event.
Idle == [pc |-> "idle", wants |-> None, at |-> None, read |-> [c \in Cached |-> {}],
         item |-> None, hit |-> 0, found |-> FALSE]

Init ==
    /\ LimiterInit
    /\ user \in {u \in Users : u.role = "user" /\ u.active}
    /\ known \in BOOLEAN
    /\ devices \in SUBSET Devices /\ traffic = 0
    /\ cache = [c \in Cached |-> {}]
    /\ request = [r \in Requests |-> Idle]
    /\ event = [e \in Events |-> [kind |-> None, phase |-> "unused"]]
    /\ claim = [e \in Events |-> None]
    /\ stored = {} /\ messages = [e \in Events |-> 0]
    /\ mix \in Mixes
    /\ begun = 0 /\ dead = 0 /\ edits = 0
    /\ overdue = {} /\ cleared = {} /\ strangers = {}

-----------------------------------------------------------------------------
At(r, pc) == request[r].pc = pc
Over(r) == request' = [request EXCEPT ![r] = Idle]
Goes(r, pc) == request' = [request EXCEPT ![r].pc = pc]

Begin(r, wants, pc, c, item) ==
    /\ wants \in mix /\ At(r, "idle") /\ begun < MaxBegun
    /\ begun' = begun + 1
    /\ request' = [request EXCEPT ![r] = [Idle EXCEPT
                       !.wants = wants, !.pc = pc, !.at = c, !.item = item]]
    /\ UNCHANGED <<now, limiter, user, known, panel, cache, webhooks, mix, dead, edits, overdue>>

\* Variant: the key is not found, or its name is not that of the reader.
DroppedNot(c) == cache
Dropped(c) == [cache EXCEPT ![c] = {}]

Settle(c) == overdue' = {o \in overdue : o[1] # c}
Owe(c, why) == overdue' = overdue \cup {<<c, why>>}

(* The three caches.                                                         *)

\* _context(): without a panel id there is neither a list nor a sum.
Context == known

\* current_context() comes first, then the route. A principal who is not
\* active gets no further, nor do the screens of a user without a panel id.
AfterWho(r, who) ==
    LET q == request[r]
    IN  IF ~who.active THEN Idle
        ELSE CASE q.wants = "update" -> [q EXCEPT !.pc = "update"]
               [] q.wants = "unlink" -> [q EXCEPT !.pc = "hit"]
               [] q.wants \in {"devices", "usage"} /\ Context -> [q EXCEPT !.at = q.wants, !.pc = "get"]
               [] OTHER -> Idle

Answered(r, value) == IF request[r].at = "who" THEN AfterWho(r, value) ELSE Idle

Get(r) ==
    /\ At(r, "get")
    /\ LET c == request[r].at
       IN  \/ \E entry \in cache[c] :
                 request' = [request EXCEPT ![r] = Answered(r, entry.value)]
           \/ cache[c] = {} /\ Goes(r, "read")
    /\ UNCHANGED <<now, limiter, user, known, panel, cache, webhooks, counters, overdue>>

\* `late` is history: the source has changed since. Variant: SET without EX.
EntryForever(c, value) ==
    [value |-> value, until |-> MaxTime + TTL(c) + 1, late |-> value # Source(c)]
Entry(c, value) == [value |-> value, until |-> now + TTL(c), late |-> value # Source(c)]

\* The panel may be silent. The days of the traffic are a second call.
ReadSource(r) ==
    /\ At(r, "read")
    /\ \/ request' = [request EXCEPT ![r].read[request[r].at] = {Source(request[r].at)},
                          ![r].pc = IF request[r].at = "usage" THEN "days" ELSE "put"]
       \/ request[r].at # "who" /\ Over(r)
    /\ UNCHANGED <<now, limiter, user, known, panel, cache, webhooks, counters, overdue>>

ReadDays(r) ==
    /\ At(r, "days")
    /\ \/ request' = [request EXCEPT ![r].pc = "put",
                          ![r].read["usage"] = {<<read[1], traffic>> : read \in @}]
       \/ Over(r)
    /\ UNCHANGED <<now, limiter, user, known, panel, cache, webhooks, counters, overdue>>

Put(r) ==
    /\ At(r, "put")
    /\ LET c == request[r].at
       IN  \E value \in request[r].read[c] :
              /\ cache' = [cache EXCEPT ![c] = {Entry(c, value)}]
              /\ Settle(c)
              /\ request' = [request EXCEPT ![r] = Answered(r, value)]
    /\ UNCHANGED <<now, limiter, user, known, panel, webhooks, counters>>

\* update() after its commit, unlink() after the panel's answer.
Drop(r) ==
    /\ At(r, "drop")
    /\ cache' = Dropped(request[r].at)
    /\ Settle(request[r].at)
    /\ Over(r)
    /\ UNCHANGED <<now, limiter, user, known, panel, webhooks, counters>>

(* The row of the user.                                                      *)

UpdateCommits(r) ==
    /\ At(r, "update")
    /\ user' = [user EXCEPT !.language = request[r].item]
    /\ Goes(r, "drop")
    /\ UNCHANGED <<now, limiter, known, panel, cache, webhooks, counters, overdue>>

\* issue() for a Telegram user on the list of admins, loaded before.
LoadForLogin(r) ==
    /\ At(r, "load")
    /\ IF user.active /\ user.role # "admin" THEN Goes(r, "promote") ELSE Over(r)
    /\ UNCHANGED <<now, limiter, user, known, panel, cache, webhooks, counters, overdue>>

Promote(r) ==
    /\ At(r, "promote")
    /\ cache' = Dropped("who")
    /\ Settle("who")
    /\ Goes(r, "issue")
    /\ UNCHANGED <<now, limiter, user, known, panel, webhooks, counters>>

IssueCommits(r) ==
    /\ At(r, "issue")
    /\ user' = [user EXCEPT !.role = "admin"]
    /\ Owe("who", "promotion")
    /\ Over(r)
    /\ UNCHANGED <<now, limiter, known, panel, cache, webhooks, counters>>

\* A change nobody in the API asked for.
Edit(what) == what \in mix /\ edits < MaxEdits /\ edits' = edits + 1 /\ UNCHANGED <<mix, begun, dead>>

\* set_language() of the bot drops nothing, and no code here blocks a user.
BotSetsLanguage ==
    /\ Edit("bot")
    /\ \E l \in Languages : user' = [user EXCEPT !.language = l]
    /\ Owe("who", "bot")
    /\ UNCHANGED <<now, limiter, known, panel, cache, request, webhooks>>

BlockedByHand ==
    /\ Edit("block") /\ user.active
    /\ user' = [user EXCEPT !.active = FALSE]
    /\ Owe("who", "hand")
    /\ UNCHANGED <<now, limiter, known, panel, cache, request, webhooks>>

\* reconcile() has found or created the user of the panel.
BecomesKnown ==
    /\ Edit("known") /\ ~known
    /\ known' = TRUE
    /\ UNCHANGED <<now, limiter, user, panel, cache, request, webhooks, overdue>>

(* Unlinking a device.                                                       *)

TakeMoment(r) ==
    /\ At(r, "hit")
    /\ request' = [request EXCEPT ![r].pc = "pipeline", ![r].hit = now]
    /\ UNCHANGED <<now, limiter, user, known, panel, cache, webhooks, counters, overdue>>

\* enforce() lets the hit pass, or asks for Retry-After. unlink() of a user
\* without a panel id is over before it has done anything.
Hit(r) ==
    /\ At(r, "pipeline")
    /\ Pipeline(request[r].hit)
    /\ request' = [request EXCEPT ![r] =
          CASE ~Allowed(@.hit) -> [@ EXCEPT !.pc = "tell", !.hit = Len(tried) + 1]
            [] Allowed(@.hit) /\ Context -> [@ EXCEPT !.pc = "delete", !.at = "devices"]
            [] OTHER -> Idle]
    /\ UNCHANGED <<now, user, known, panel, cache, webhooks, counters, overdue>>

Refused(r) ==
    /\ At(r, "tell")
    /\ Tell(request[r].hit)
    /\ Over(r)
    /\ UNCHANGED <<now, user, known, panel, cache, webhooks, counters, overdue>>

\* A webhook of the panel, which may also be lost.
Emits(kind) ==
    \/ UNCHANGED event
    \/ \E e \in Events : /\ event[e].phase = "unused"
                         /\ event' = [event EXCEPT ![e] = [kind |-> kind, phase |-> "sent"]]

\* The device is gone; without an answer the client asks again.
Delete(r) ==
    /\ At(r, "delete") /\ request[r].item \in devices
    /\ devices' = devices \ {request[r].item}
    /\ Emits("devices")
    /\ \/ Goes(r, "drop") /\ UNCHANGED overdue
       \/ Owe("devices", "no answer") /\ UNCHANGED request
    /\ UNCHANGED <<now, limiter, user, known, traffic, cache, claim, stored, messages,
                   cleared, strangers, counters>>

\* 404, for the second attempt at what the first has done too; or the panel
\* is silent to the last attempt.
DeleteFails(r) ==
    /\ At(r, "delete")
    /\ Over(r)
    /\ UNCHANGED <<now, limiter, user, known, panel, cache, webhooks, counters, overdue>>

(* The panel on its own.                                                     *)

DeviceConnects ==
    /\ Edit("connect")
    /\ \E d \in Devices \ devices : devices' = devices \cup {d}
    /\ Emits("devices") /\ Owe("devices", "panel")
    /\ UNCHANGED <<now, limiter, user, known, traffic, cache, request, claim, stored,
                   messages, cleared, strangers>>

UserModified ==
    /\ Edit("modify")
    /\ Emits("user")
    /\ UNCHANGED <<now, limiter, user, known, panel, cache, request, claim, stored,
                   messages, cleared, strangers, overdue>>

TrafficGrows ==
    /\ Edit("grow")
    /\ traffic' = traffic + 1 /\ Owe("usage", "panel")
    /\ UNCHANGED <<now, limiter, user, known, devices, cache, request, webhooks>>

(* The intake of webhooks. An event is sent until it is answered.            *)

Acked(e) == [event EXCEPT ![e].phase = "acked"]

\* Variant: a SELECT before the INSERT, and no constraint.
TakenUnchecked(e) == FALSE
Taken(e) == claim[e] # None

\* INSERT ... ON CONFLICT DO NOTHING waits for whoever has inserted the key.
Remember(r) ==
    /\ At(r, "insert")
    /\ LET e == request[r].item
       IN  \/ /\ e \in stored
              /\ event' = Acked(e)
              /\ Over(r) /\ UNCHANGED claim
           \/ /\ e \notin stored /\ ~Taken(e)
              /\ claim' = [claim EXCEPT ![e] = r]
              /\ Goes(r, "handle") /\ UNCHANGED event
    /\ UNCHANGED <<now, limiter, user, known, panel, cache, stored, messages, cleared,
                   strangers, counters, overdue>>

\* The message is part of the transaction, the drop is not.
Handle(r) ==
    /\ At(r, "handle")
    /\ LET e == request[r].item
           drops == known /\ event[e].kind = "devices"
       IN  /\ cache' = IF drops THEN Dropped("devices") ELSE cache
           /\ IF drops THEN Settle("devices") ELSE UNCHANGED overdue
           /\ cleared' = IF drops THEN cleared \cup {e} ELSE cleared
           /\ request' = [request EXCEPT ![r].pc = "commit", ![r].found = known]
    /\ UNCHANGED <<now, limiter, user, known, panel, event, claim, stored, messages,
                   strangers, counters>>

Leaves(r) ==
    LET e == request[r].item
    IN  IF request[r].found /\ event[e].kind = "user" THEN [messages EXCEPT ![e] = @ + 1] ELSE messages

\* The answer may not arrive; then the panel sends the event again.
WebhookCommits(r) ==
    /\ At(r, "commit")
    /\ LET e == request[r].item
       IN  /\ stored' = stored \cup {e}
           /\ messages' = Leaves(r)
           /\ strangers' = IF request[r].found THEN strangers ELSE strangers \cup {e}
           /\ claim' = [claim EXCEPT ![e] = None]
           /\ event' \in {event, Acked(e)}
    /\ Over(r)
    /\ UNCHANGED <<now, limiter, user, known, panel, cache, cleared, counters, overdue>>

Dies(r) ==
    /\ ~At(r, "idle") /\ dead < MaxDead
    /\ dead' = dead + 1
    /\ claim' = [e \in Events |-> IF claim[e] = r THEN None ELSE claim[e]]
    /\ IF At(r, "drop") THEN Owe(request[r].at, "death") ELSE UNCHANGED overdue
    /\ Over(r)
    /\ UNCHANGED <<now, limiter, user, known, panel, cache, event, stored, messages,
                   cleared, strangers, mix, begun, edits>>

\* Valkey forgets what is past its time.
Tick ==
    /\ LimiterTick
    /\ cache' = [c \in Cached |-> {entry \in cache[c] : entry.until > now + 1}]
    /\ UNCHANGED <<user, known, panel, request, webhooks, counters, overdue>>

Starts(r) ==
    \/ \E wants \in {"devices", "usage"} : Begin(r, wants, "get", "who", None)
    \/ \E l \in Languages : Begin(r, "update", "get", "who", l)
    \/ \E d \in Devices : Begin(r, "unlink", "get", "who", d)
    \/ Begin(r, "login", "load", "who", None)
    \/ \E e \in Events : event[e].phase = "sent" /\ Begin(r, "webhook", "insert", None, e)

Proceeds(r) ==
    \/ Get(r) \/ ReadSource(r) \/ ReadDays(r) \/ Put(r) \/ Drop(r)
    \/ UpdateCommits(r) \/ LoadForLogin(r) \/ Promote(r) \/ IssueCommits(r)
    \/ TakeMoment(r) \/ Hit(r) \/ Refused(r) \/ Delete(r) \/ DeleteFails(r)
    \/ Remember(r) \/ Handle(r) \/ WebhookCommits(r)

World ==
    \/ Tick \/ BotSetsLanguage \/ BlockedByHand \/ BecomesKnown
    \/ DeviceConnects \/ UserModified \/ TrafficGrows

Next == World \/ \E r \in Requests : Starts(r) \/ Proceeds(r) \/ Dies(r)

Spec == Init /\ [][Next]_vars

-----------------------------------------------------------------------------
Pcs == {"idle", "get", "read", "days", "put", "drop", "update", "load", "promote",
        "issue", "hit", "pipeline", "tell", "delete", "insert", "handle", "commit"}

\* An entry lives no longer than its key was given; a claim is its holder's.
TypeOK ==
    /\ LimiterTypeOK
    /\ user \in Users /\ known \in BOOLEAN
    /\ devices \subseteq Devices /\ traffic \in 0..MaxEdits
    /\ \A c \in Cached : \A entry \in cache[c] :
          /\ entry.value \in Values[c]
          /\ entry.until \in now + 1..now + TTL(c)
    /\ \A r \in Requests : request[r].pc \in Pcs
    /\ \A e \in Events : claim[e] \in Requests => request[claim[e]].item = e
    /\ stored \subseteq Events /\ messages \in [Events -> Nat]
    /\ overdue \subseteq Cached \X Reasons

\* Somebody has changed the value and is about to drop what is cached.
AboutToDrop(c) == \E r \in Requests : At(r, "drop") /\ request[r].at = c

(* A cached value is out of date only for a reason that is known: it was put *)
(* after a change it had not seen; whoever changed it is about to drop it,   *)
(* died before that, or never got the panel's answer; or it was changed      *)
(* where nothing is dropped: by the bot, by hand, by a promotion that drops  *)
(* before it commits, in the panel. The sums and the total of the traffic    *)
(* differ only if it grew between the two calls.                             *)
StaleHasCause ==
    \A c \in Cached : \A entry \in cache[c] :
        /\ entry.value # Source(c) =>
              \/ entry.late
              \/ AboutToDrop(c)
              \/ \E why \in Reasons : <<c, why>> \in overdue
        /\ c = "usage" /\ entry.value[1] # entry.value[2] => entry.late

(* However often an event is delivered, by however many processes at once,   *)
(* it has its effect once: one message for a change of the user, left in the *)
(* transaction that remembers the event, and never none for an event that    *)
(* was answered, unless it came before its user was known. The cache of the  *)
(* devices has been dropped for every device event that was answered.        *)
EventsOnce ==
    \A e \in Events :
        /\ messages[e] <= 1
        /\ messages[e] = 1 => e \in stored
        /\ event[e].phase = "acked" /\ e \notin strangers =>
              IF event[e].kind = "user" THEN messages[e] = 1 ELSE e \in cleared

=============================================================================
