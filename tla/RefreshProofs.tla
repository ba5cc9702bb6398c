---------------------------- MODULE RefreshProofs ----------------------------
(* What holds of one session for any number of tabs, sign-outs, revocations  *)
(* and failures, any window, lifetimes and order of steps.                   *)
EXTENDS Refresh, TLAPS

\* Who is between UPDATE and commit has the row's lock.
LockOK ==
    /\ \A t \in Tabs : tab[t].pc \in {"flushed", "marked"} => lock = t
    /\ \A v \in Others : rev[v] \in {"flushed", "marked"} => lock = v

\* A revocation that has set its mark and not committed yet.
Marking == (\E t \in Tabs : tab[t].pc = "marked") \/ (\E v \in Others : rev[v] = "marked")

\* No access token, arrived or signed, is valid longer than one signed now; and
\* once the mark is set, not longer than the mark.
ShutOK ==
    /\ access <= now + AccessTTL
    /\ \A t \in Tabs : tab[t].pc = "packed" => tab[t].until <= now + AccessTTL
    /\ (Marking \/ row.revoked) /\ ~raced =>
          /\ access <= marked
          /\ \A t \in Tabs : /\ tab[t].pc # "rotated"
                             /\ tab[t].pc = "packed" => tab[t].until <= marked
    /\ row.revoked /\ ~raced => \A t \in Tabs : tab[t].pc # "found"

\* The current token is the newest one, and what was once refused never becomes
\* current again. A revocation that answers has been committed.
TokensOK ==
    /\ row.current = issued
    /\ cookie <= issued
    /\ \A t \in Tabs : tab[t].token <= issued /\ tab[t].fresh <= issued
    /\ \A t \in Tabs : tab[t].pc \in {"missed", "reused", "flushed", "marked", "refused"}
          => tab[t].token # row.current \/ ~Alive
    /\ \A v \in Others : rev[v] = "committed" => row.revoked

Underway(t) == tab[t].pc \in {"rotated", "packed"}

\* The current token is in the jar or on its way there.
InOrderOK ==
    (lost = 0 /\ ~disordered /\ Alive) =>
        \/ cookie = row.current
        \/ \E t \in Tabs : Underway(t) /\ tab[t].fresh = row.current

\* One exchange at a time, of a token that is current or absent, unless the last
\* one handed out was mislaid: then it may be the one before, found too late.
CalmOK ==
    ~overlapped =>
        /\ \A s, t \in Tabs : tab[s].pc # "idle" /\ tab[t].pc # "idle" => s = t
        /\ \A t \in Tabs : /\ Underway(t) => tab[t].fresh = row.current
                           /\ tab[t].pc \in {"reused", "flushed", "marked"} =>
                                 mislaid /\ now > row.rotated + Window
        /\ ~mislaid =>
              /\ \A t \in Tabs : /\ tab[t].pc = "sent" => tab[t].token \in {NoToken, row.current}
                                 /\ tab[t].pc = "missed" => tab[t].token = NoToken
              /\ (\A t \in Tabs : ~Underway(t)) => cookie \in {NoToken, row.current}

Inv == TypeOK /\ LockOK /\ ShutOK /\ TokensOK /\ InOrderOK /\ CalmOK

-----------------------------------------------------------------------------
LEMMA InitInv == Init => Inv
<1> SUFFICES ASSUME Init PROVE Inv
  OBVIOUS
<1>1. FirstRow \in Rows
  BY DEF FirstRow, Rows, NoToken
<1>2. TypeOK
  BY <1>1, TimesAssumption DEF Init, TypeOK, Idle, Exchanges, RevokerStates, NoToken, None
<1>3. LockOK /\ TokensOK /\ InOrderOK /\ CalmOK
  BY DEF Init, LockOK, TokensOK, InOrderOK, CalmOK, Idle, FirstRow, NoToken, Underway, Alive
<1>4. ShutOK
  BY TimesAssumption DEF Init, ShutOK, Marking, Idle, FirstRow
<1> QED
  BY <1>2, <1>3, <1>4 DEF Inv

\* A step of one tab's exchange leaves the others as they are.
LEMMA ToEffect ==
  ASSUME TypeOK, NEW t \in Tabs, NEW pc, To(t, pc)
  PROVE  /\ tab'[t] = [tab[t] EXCEPT !.pc = pc]
         /\ \A o \in Tabs \ {t} : tab'[o] = tab[o]
  BY DEF TypeOK, To

-----------------------------------------------------------------------------
LEMMA NextKeepsType == TypeOK /\ [Next]_vars => TypeOK'
<1> SUFFICES ASSUME TypeOK, [Next]_vars PROVE TypeOK'
  OBVIOUS
<1>0. FirstRow \in Rows /\ \A pc \in {"idle", "sent", "rotated"}, k, n \in Nat :
        [Idle EXCEPT !.pc = pc, !.token = k, !.fresh = n] \in Exchanges
  BY DEF FirstRow, Rows, NoToken, Idle, Exchanges
<1>1. ASSUME NEW t \in Tabs, Send(t) PROVE TypeOK'
  BY <1>1, <1>0 DEF Send, TypeOK, database, browser, Idle, Exchanges, NoToken
<1>2. ASSUME NEW t \in Tabs, Find(t) PROVE TypeOK'
  BY <1>2 DEF Find, Accepted, To, TypeOK, database, browser, Exchanges
<1>3. ASSUME NEW t \in Tabs, FindPrevious(t) PROVE TypeOK'
  BY <1>3 DEF FindPrevious, Accepted, To, TypeOK, database, browser, Exchanges
<1>4. ASSUME NEW t \in Tabs, Rotate(t) PROVE TypeOK'
  <2>1. tab[t].mem.current \in Nat /\ issued + 1 \in Nat /\ row \in Rows /\ now \in Nat
    BY DEF TypeOK, Exchanges, Rows
  <2>2. Rotated(tab[t].mem, issued + 1) \in Rows
    BY <2>1 DEF Rotated, Rows
  <2>3. row' \in Rows /\ issued' \in Nat
    BY <1>4, <2>1, <2>2 DEF Rotate
  <2>4. [Idle EXCEPT !.pc = "rotated", !.fresh = issued + 1] \in Exchanges
    BY <1>0, <2>1 DEF Idle, Exchanges, NoToken
  <2>5. tab' \in [Tabs -> Exchanges]
    BY <1>4, <2>4 DEF Rotate, TypeOK
  <2> QED
    BY <1>4, <2>3, <2>5 DEF Rotate, TypeOK, browser
<1>5. ASSUME NEW t \in Tabs, Pack(t) PROVE TypeOK'
  <2>1. ValidUntil \in Nat
    BY TimesAssumption DEF ValidUntil, TypeOK
  <2>2. tab' \in [Tabs -> Exchanges]
    BY <1>5, <2>1 DEF Pack, TypeOK, Exchanges
  <2> QED
    BY <1>5, <2>2 DEF Pack, TypeOK, database, browser
<1>6. ASSUME NEW t \in Tabs, Receive(t) PROVE TypeOK'
  BY <1>6, <1>0 DEF Receive, TypeOK, database, Idle, Exchanges, NoToken
<1>7. ASSUME NEW t \in Tabs, ReceiveRefusal(t) PROVE TypeOK'
  BY <1>7, <1>0 DEF ReceiveRefusal, TypeOK, database, browser, Idle, Exchanges, NoToken
<1>8. ASSUME NEW t \in Tabs, ReuseFlushes(t) PROVE TypeOK'
  BY <1>8 DEF ReuseFlushes, To, TypeOK, browser, Exchanges
<1>9. ASSUME NEW t \in Tabs, ReuseMarks(t) PROVE TypeOK'
  BY <1>9, TimesAssumption DEF ReuseMarks, Mark, MarkUntil, To, TypeOK, database, browser, Exchanges, Unsigned
<1>10. ASSUME NEW t \in Tabs, ReuseCommits(t) PROVE TypeOK'
  BY <1>10 DEF ReuseCommits, CommitRevocation, To, TypeOK, browser, Exchanges, Rows, HasRead
<1>11. ASSUME NEW t \in Tabs, ExchangeDies(t) PROVE TypeOK'
  <2>1. Idle \in Exchanges
    BY <1>0 DEF Idle, Exchanges, NoToken
  <2>2. tab' \in [Tabs -> Exchanges]
    BY <1>11, <2>1 DEF ExchangeDies, TypeOK
  <2> QED
    BY <1>11, <2>2 DEF ExchangeDies, Fault, Unlock, TypeOK, browser
<1>12. ASSUME NEW v \in Others, RevokerReads(v) PROVE TypeOK'
  BY <1>12 DEF RevokerReads, RevTo, TypeOK, database, browser, RevokerStates
<1>13. ASSUME NEW v \in Others, RevokerFlushes(v) PROVE TypeOK'
  BY <1>13 DEF RevokerFlushes, RevTo, TypeOK, browser, RevokerStates
<1>14. ASSUME NEW v \in Others, RevokerMarks(v) PROVE TypeOK'
  BY <1>14, TimesAssumption DEF RevokerMarks, Mark, MarkUntil, RevTo, TypeOK, database, browser, RevokerStates, Unsigned
<1>15. ASSUME NEW v \in Others, RevokerCommits(v) PROVE TypeOK'
  BY <1>15 DEF RevokerCommits, CommitRevocation, RevTo, TypeOK, browser, RevokerStates, Rows, HasRead
<1>16. ASSUME NEW v \in Others, RevokerAnswers(v) PROVE TypeOK'
  BY <1>16 DEF RevokerAnswers, RevTo, TypeOK, database, RevokerStates, NoToken
<1>17. ASSUME NEW v \in Others, RevokerDies(v) PROVE TypeOK'
  BY <1>17 DEF RevokerDies, Fault, Unlock, RevTo, TypeOK, browser, RevokerStates
<1>18. ASSUME Tick PROVE TypeOK'
  BY <1>18 DEF Tick, TypeOK, database, browser
<1>19. ASSUME UNCHANGED vars PROVE TypeOK'
  BY <1>19 DEF vars, database, browser, TypeOK
<1> QED
  BY <1>1, <1>2, <1>3, <1>4, <1>5, <1>6, <1>7, <1>8, <1>9, <1>10, <1>11, <1>12, <1>13,
     <1>14, <1>15, <1>16, <1>17, <1>18, <1>19 DEF Next, Serve, Revoke
-----------------------------------------------------------------------------
\* Whoever flushes takes a free lock; whoever commits or dies lets its own go.
LEMMA NextKeepsLock == TypeOK /\ LockOK /\ [Next]_vars => LockOK'
<1> SUFFICES ASSUME TypeOK, LockOK, [Next]_vars PROVE LockOK'
  OBVIOUS
<1> USE PartiesAssumption DEF LockOK, TypeOK, Exchanges, database, browser, Idle, Others, None
<1>1. ASSUME NEW t \in Tabs, Send(t) PROVE LockOK'
  BY <1>1 DEF Send
<1>2. ASSUME NEW t \in Tabs, Find(t) PROVE LockOK'
  BY <1>2 DEF Find, Accepted, To
<1>3. ASSUME NEW t \in Tabs, FindPrevious(t) PROVE LockOK'
  BY <1>3 DEF FindPrevious, Accepted, To
<1>4. ASSUME NEW t \in Tabs, Rotate(t) PROVE LockOK'
  BY <1>4 DEF Rotate, Rotated
<1>5. ASSUME NEW t \in Tabs, Pack(t) PROVE LockOK'
  BY <1>5 DEF Pack, ValidUntil
<1>6. ASSUME NEW t \in Tabs, Receive(t) PROVE LockOK'
  BY <1>6 DEF Receive
<1>7. ASSUME NEW t \in Tabs, ReceiveRefusal(t) PROVE LockOK'
  BY <1>7 DEF ReceiveRefusal
<1>8. ASSUME NEW t \in Tabs, ReuseFlushes(t) PROVE LockOK'
  BY <1>8 DEF ReuseFlushes, To
<1>9. ASSUME NEW t \in Tabs, ReuseMarks(t) PROVE LockOK'
  BY <1>9 DEF ReuseMarks, Mark, MarkUntil, Unsigned, To
<1>10. ASSUME NEW t \in Tabs, ReuseCommits(t) PROVE LockOK'
  BY <1>10 DEF ReuseCommits, CommitRevocation, HasRead, To
<1>11. ASSUME NEW t \in Tabs, ExchangeDies(t) PROVE LockOK'
  BY <1>11 DEF ExchangeDies, Fault, Unlock
<1>12. ASSUME NEW v \in Others, RevokerReads(v) PROVE LockOK'
  BY <1>12 DEF RevokerReads, RevTo
<1>13. ASSUME NEW v \in Others, RevokerFlushes(v) PROVE LockOK'
  BY <1>13 DEF RevokerFlushes, RevTo
<1>14. ASSUME NEW v \in Others, RevokerMarks(v) PROVE LockOK'
  BY <1>14 DEF RevokerMarks, Mark, MarkUntil, Unsigned, RevTo
<1>15. ASSUME NEW v \in Others, RevokerCommits(v) PROVE LockOK'
  BY <1>15 DEF RevokerCommits, CommitRevocation, HasRead, RevTo
<1>16. ASSUME NEW v \in Others, RevokerAnswers(v) PROVE LockOK'
  BY <1>16 DEF RevokerAnswers, RevTo
<1>17. ASSUME NEW v \in Others, RevokerDies(v) PROVE LockOK'
  BY <1>17 DEF RevokerDies, Fault, Unlock, RevTo
<1>18. ASSUME Tick PROVE LockOK'
  BY <1>18 DEF Tick
<1>19. ASSUME UNCHANGED vars PROVE LockOK'
  BY <1>19 DEF vars
<1> QED
  BY <1>1, <1>2, <1>3, <1>4, <1>5, <1>6, <1>7, <1>8, <1>9, <1>10, <1>11, <1>12, <1>13,
     <1>14, <1>15, <1>16, <1>17, <1>18, <1>19 DEF Next, Serve, Revoke

-----------------------------------------------------------------------------
\* A mark reaches beyond every token signed before it, and while it waits for
\* its commit the row's lock keeps rotations out.
LEMMA NextKeepsShut == TypeOK /\ LockOK /\ ShutOK /\ [Next]_vars => ShutOK'
<1> SUFFICES ASSUME TypeOK, LockOK, ShutOK, [Next]_vars PROVE ShutOK'
  OBVIOUS
<1> USE PartiesAssumption, TimesAssumption DEF ShutOK, LockOK, Marking, TypeOK, Exchanges, Rows,
         database, browser, Idle, Others, None
<1>1. ASSUME NEW t \in Tabs, Send(t) PROVE ShutOK'
  BY <1>1 DEF Send
<1>2. ASSUME NEW t \in Tabs, Find(t) PROVE ShutOK'
  <2>1. /\ \A o \in Tabs \ {t} : tab'[o] = tab[o]
        /\ tab'[t].pc \in {"found", "refused", "missed"}
        /\ tab'[t].pc = "found" => ~row.revoked
    BY <1>2 DEF Find, Accepted, To
  <2>2. UNCHANGED <<now, row, marked, access, rev, raced>>
    BY <1>2 DEF Find
  <2>3. Marking' <=> Marking
    BY <1>2, <2>1, <2>2 DEF Find
  <2> QED
    BY <2>1, <2>2, <2>3
<1>3. ASSUME NEW t \in Tabs, FindPrevious(t) PROVE ShutOK'
  BY <1>3 DEF FindPrevious, Accepted, To
<1>4. ASSUME NEW t \in Tabs, Rotate(t) PROVE ShutOK'
  BY <1>4 DEF Rotate, Rotated
<1>5. ASSUME NEW t \in Tabs, Pack(t) PROVE ShutOK'
  BY <1>5 DEF Pack, ValidUntil
<1>6. ASSUME NEW t \in Tabs, Receive(t) PROVE ShutOK'
  BY <1>6 DEF Receive
<1>7. ASSUME NEW t \in Tabs, ReceiveRefusal(t) PROVE ShutOK'
  BY <1>7 DEF ReceiveRefusal
<1>8. ASSUME NEW t \in Tabs, ReuseFlushes(t) PROVE ShutOK'
  BY <1>8 DEF ReuseFlushes, To
<1>9. ASSUME NEW t \in Tabs, ReuseMarks(t) PROVE ShutOK'
  BY <1>9 DEF ReuseMarks, Mark, MarkUntil, Unsigned, To
<1>10. ASSUME NEW t \in Tabs, ReuseCommits(t) PROVE ShutOK'
  BY <1>10 DEF ReuseCommits, CommitRevocation, HasRead, To
<1>11. ASSUME NEW t \in Tabs, ExchangeDies(t) PROVE ShutOK'
  BY <1>11 DEF ExchangeDies, Fault, Unlock
<1>12. ASSUME NEW v \in Others, RevokerReads(v) PROVE ShutOK'
  BY <1>12 DEF RevokerReads, RevTo
<1>13. ASSUME NEW v \in Others, RevokerFlushes(v) PROVE ShutOK'
  BY <1>13 DEF RevokerFlushes, RevTo
<1>14. ASSUME NEW v \in Others, RevokerMarks(v) PROVE ShutOK'
  BY <1>14 DEF RevokerMarks, Mark, MarkUntil, Unsigned, RevTo
<1>15. ASSUME NEW v \in Others, RevokerCommits(v) PROVE ShutOK'
  BY <1>15 DEF RevokerCommits, CommitRevocation, HasRead, RevTo
<1>16. ASSUME NEW v \in Others, RevokerAnswers(v) PROVE ShutOK'
  BY <1>16 DEF RevokerAnswers, RevTo
<1>17. ASSUME NEW v \in Others, RevokerDies(v) PROVE ShutOK'
  BY <1>17 DEF RevokerDies, Fault, Unlock, RevTo
<1>18. ASSUME Tick PROVE ShutOK'
  BY <1>18 DEF Tick
<1>19. ASSUME UNCHANGED vars PROVE ShutOK'
  BY <1>19 DEF vars
<1> QED
  BY <1>1, <1>2, <1>3, <1>4, <1>5, <1>6, <1>7, <1>8, <1>9, <1>10, <1>11, <1>12, <1>13,
     <1>14, <1>15, <1>16, <1>17, <1>18, <1>19 DEF Next, Serve, Revoke

-----------------------------------------------------------------------------
\* Only a rotation changes the current token, and to one never seen before.
LEMMA NextKeepsTokens == TypeOK /\ TokensOK /\ [Next]_vars => TokensOK'
<1> SUFFICES ASSUME TypeOK, TokensOK, [Next]_vars PROVE TokensOK'
  OBVIOUS
<1> USE DEF TokensOK, Alive, TypeOK, Exchanges, Rows, database, browser, Idle,
         NoToken
<1>1. ASSUME NEW t \in Tabs, Send(t) PROVE TokensOK'
  BY <1>1 DEF Send
<1>2. ASSUME NEW t \in Tabs, Find(t) PROVE TokensOK'
  BY <1>2 DEF Find, Accepted, To
<1>3. ASSUME NEW t \in Tabs, FindPrevious(t) PROVE TokensOK'
  BY <1>3 DEF FindPrevious, Accepted, To
<1>4. ASSUME NEW t \in Tabs, Rotate(t) PROVE TokensOK'
  BY <1>4 DEF Rotate, Rotated
<1>5. ASSUME NEW t \in Tabs, Pack(t) PROVE TokensOK'
  BY <1>5 DEF Pack, ValidUntil
<1>6. ASSUME NEW t \in Tabs, Receive(t) PROVE TokensOK'
  BY <1>6 DEF Receive
<1>7. ASSUME NEW t \in Tabs, ReceiveRefusal(t) PROVE TokensOK'
  BY <1>7 DEF ReceiveRefusal
<1>8. ASSUME NEW t \in Tabs, ReuseFlushes(t) PROVE TokensOK'
  BY <1>8 DEF ReuseFlushes, To
<1>9. ASSUME NEW t \in Tabs, ReuseMarks(t) PROVE TokensOK'
  BY <1>9 DEF ReuseMarks, Mark, MarkUntil, Unsigned, To
<1>10. ASSUME NEW t \in Tabs, ReuseCommits(t) PROVE TokensOK'
  BY <1>10 DEF ReuseCommits, CommitRevocation, HasRead, To
<1>11. ASSUME NEW t \in Tabs, ExchangeDies(t) PROVE TokensOK'
  BY <1>11 DEF ExchangeDies, Fault, Unlock
<1>12. ASSUME NEW v \in Others, RevokerReads(v) PROVE TokensOK'
  BY <1>12 DEF RevokerReads, RevTo
<1>13. ASSUME NEW v \in Others, RevokerFlushes(v) PROVE TokensOK'
  BY <1>13 DEF RevokerFlushes, RevTo
<1>14. ASSUME NEW v \in Others, RevokerMarks(v) PROVE TokensOK'
  BY <1>14 DEF RevokerMarks, Mark, MarkUntil, Unsigned, RevTo
<1>15. ASSUME NEW v \in Others, RevokerCommits(v) PROVE TokensOK'
  BY <1>15 DEF RevokerCommits, CommitRevocation, HasRead, RevTo
<1>16. ASSUME NEW v \in Others, RevokerAnswers(v) PROVE TokensOK'
  BY <1>16 DEF RevokerAnswers, RevTo
<1>17. ASSUME NEW v \in Others, RevokerDies(v) PROVE TokensOK'
  BY <1>17 DEF RevokerDies, Fault, Unlock, RevTo
<1>18. ASSUME Tick PROVE TokensOK'
  BY <1>18, TimesAssumption DEF Tick
<1>19. ASSUME UNCHANGED vars PROVE TokensOK'
  BY <1>19 DEF vars
<1> QED
  BY <1>1, <1>2, <1>3, <1>4, <1>5, <1>6, <1>7, <1>8, <1>9, <1>10, <1>11, <1>12, <1>13,
     <1>14, <1>15, <1>16, <1>17, <1>18, <1>19 DEF Next, Serve, Revoke

-----------------------------------------------------------------------------
\* The newest answer is the last to arrive, and a refused token is not the
\* current one.
LEMMA NextKeepsInOrder == TypeOK /\ TokensOK /\ InOrderOK /\ [Next]_vars => InOrderOK'
<1> SUFFICES ASSUME TypeOK, TokensOK, InOrderOK, [Next]_vars PROVE InOrderOK'
  OBVIOUS
<1> USE DEF InOrderOK, TokensOK, Alive, Underway, TypeOK, Exchanges, Rows,
         database, browser, Idle, NoToken
<1>1. ASSUME NEW t \in Tabs, Send(t) PROVE InOrderOK'
  BY <1>1 DEF Send
<1>2. ASSUME NEW t \in Tabs, Find(t) PROVE InOrderOK'
  BY <1>2 DEF Find, Accepted, To
<1>3. ASSUME NEW t \in Tabs, FindPrevious(t) PROVE InOrderOK'
  BY <1>3 DEF FindPrevious, Accepted, To
<1>4. ASSUME NEW t \in Tabs, Rotate(t) PROVE InOrderOK'
  BY <1>4 DEF Rotate, Rotated
<1>5. ASSUME NEW t \in Tabs, Pack(t) PROVE InOrderOK'
  BY <1>5 DEF Pack, ValidUntil
<1>6. ASSUME NEW t \in Tabs, Receive(t) PROVE InOrderOK'
  <2>1. SUFFICES ASSUME lost = 0, ~disordered', Alive PROVE InOrderOK'
    BY <1>6 DEF Receive
  <2>2. /\ cookie' = tab[t].fresh
        /\ \A o \in Tabs \ {t} : tab'[o] = tab[o]
        /\ row' = row
    BY <1>6 DEF Receive
  <2>3. ~disordered /\ ~(cookie > tab[t].fresh)
    BY <1>6, <2>1, Zenon DEF Receive
  <2>4. CASE tab[t].fresh = row.current
    BY <2>2, <2>4
  <2>5. CASE tab[t].fresh # row.current
    <3>1. tab[t].fresh < row.current
      <4>1. tab[t].fresh \in Nat /\ issued \in Nat
        OBVIOUS
      <4>2. tab[t].fresh <= issued /\ row.current = issued
        OBVIOUS
      <4> QED
        BY <2>5, <4>1, <4>2
    <3>2. cookie # row.current
      BY <2>3, <3>1
    <3>3. \E o \in Tabs : Underway(o) /\ tab[o].fresh = row.current
      BY <2>1, <2>3, <3>2, Zenon
    <3>4. PICK o \in Tabs : Underway(o) /\ tab[o].fresh = row.current
      BY <3>3
    <3> QED
      BY <2>2, <2>5, <3>4
  <2> QED
    BY <2>4, <2>5
<1>7. ASSUME NEW t \in Tabs, ReceiveRefusal(t) PROVE InOrderOK'
  BY <1>7 DEF ReceiveRefusal
<1>8. ASSUME NEW t \in Tabs, ReuseFlushes(t) PROVE InOrderOK'
  BY <1>8 DEF ReuseFlushes, To
<1>9. ASSUME NEW t \in Tabs, ReuseMarks(t) PROVE InOrderOK'
  BY <1>9 DEF ReuseMarks, Mark, MarkUntil, Unsigned, To
<1>10. ASSUME NEW t \in Tabs, ReuseCommits(t) PROVE InOrderOK'
  BY <1>10 DEF ReuseCommits, CommitRevocation, HasRead, To
<1>11. ASSUME NEW t \in Tabs, ExchangeDies(t) PROVE InOrderOK'
  BY <1>11 DEF ExchangeDies, Fault, Unlock
<1>12. ASSUME NEW v \in Others, RevokerReads(v) PROVE InOrderOK'
  BY <1>12 DEF RevokerReads, RevTo
<1>13. ASSUME NEW v \in Others, RevokerFlushes(v) PROVE InOrderOK'
  BY <1>13 DEF RevokerFlushes, RevTo
<1>14. ASSUME NEW v \in Others, RevokerMarks(v) PROVE InOrderOK'
  BY <1>14 DEF RevokerMarks, Mark, MarkUntil, Unsigned, RevTo
<1>15. ASSUME NEW v \in Others, RevokerCommits(v) PROVE InOrderOK'
  BY <1>15 DEF RevokerCommits, CommitRevocation, HasRead, RevTo
<1>16. ASSUME NEW v \in Others, RevokerAnswers(v) PROVE InOrderOK'
  BY <1>16 DEF RevokerAnswers, RevTo
<1>17. ASSUME NEW v \in Others, RevokerDies(v) PROVE InOrderOK'
  BY <1>17 DEF RevokerDies, Fault, Unlock, RevTo
<1>18. ASSUME Tick PROVE InOrderOK'
  BY <1>18, TimesAssumption DEF Tick
<1>19. ASSUME UNCHANGED vars PROVE InOrderOK'
  BY <1>19 DEF vars
<1> QED
  BY <1>1, <1>2, <1>3, <1>4, <1>5, <1>6, <1>7, <1>8, <1>9, <1>10, <1>11, <1>12, <1>13,
     <1>14, <1>15, <1>16, <1>17, <1>18, <1>19 DEF Next, Serve, Revoke

-----------------------------------------------------------------------------
\* A lone exchange presents the current token, so no older one is looked up.
LEMMA NextKeepsCalm == TypeOK /\ CalmOK /\ [Next]_vars => CalmOK'
<1> SUFFICES ASSUME TypeOK, CalmOK, [Next]_vars PROVE CalmOK'
  OBVIOUS
<1> USE DEF CalmOK, Underway, TypeOK, Exchanges, Rows, database, browser, Idle, NoToken
<1>1. ASSUME NEW t \in Tabs, Send(t) PROVE CalmOK'
  BY <1>1 DEF Send
<1>2. ASSUME NEW t \in Tabs, Find(t) PROVE CalmOK'
  BY <1>2 DEF Find, Accepted, To
<1>3. ASSUME NEW t \in Tabs, FindPrevious(t) PROVE CalmOK'
  <2>1. now \in Nat /\ row.rotated \in Nat /\ ~InWindow(row) => now > row.rotated + Window
    BY TimesAssumption DEF InWindow
  <2>2. UNCHANGED <<now, row, cookie, mislaid, overlapped>>
    BY <1>3 DEF FindPrevious
  <2>3. \A o \in Tabs \ {t} : tab'[o] = tab[o]
    BY <1>3 DEF FindPrevious, Accepted, To
  <2>4. /\ tab[t].pc = "missed" /\ tab'[t].token = tab[t].token
        /\ tab'[t].pc \in {"found", "reused", "refused"}
        /\ tab'[t].pc = "reused" => /\ ~InWindow(row)
                                    /\ tab[t].token # NoToken
    BY <1>3 DEF FindPrevious, Accepted, To
  <2> QED
    BY <2>1, <2>2, <2>3, <2>4
<1>4. ASSUME NEW t \in Tabs, Rotate(t) PROVE CalmOK'
  BY <1>4 DEF Rotate, Rotated
<1>5. ASSUME NEW t \in Tabs, Pack(t) PROVE CalmOK'
  BY <1>5 DEF Pack, ValidUntil
<1>6. ASSUME NEW t \in Tabs, Receive(t) PROVE CalmOK'
  BY <1>6 DEF Receive
<1>7. ASSUME NEW t \in Tabs, ReceiveRefusal(t) PROVE CalmOK'
  BY <1>7 DEF ReceiveRefusal
<1>8. ASSUME NEW t \in Tabs, ReuseFlushes(t) PROVE CalmOK'
  BY <1>8 DEF ReuseFlushes, To
<1>9. ASSUME NEW t \in Tabs, ReuseMarks(t) PROVE CalmOK'
  BY <1>9 DEF ReuseMarks, Mark, MarkUntil, Unsigned, To
<1>10. ASSUME NEW t \in Tabs, ReuseCommits(t) PROVE CalmOK'
  BY <1>10 DEF ReuseCommits, CommitRevocation, HasRead, To
<1>11. ASSUME NEW t \in Tabs, ExchangeDies(t) PROVE CalmOK'
  BY <1>11 DEF ExchangeDies, Fault, Unlock
<1>12. ASSUME NEW v \in Others, RevokerReads(v) PROVE CalmOK'
  BY <1>12 DEF RevokerReads, RevTo
<1>13. ASSUME NEW v \in Others, RevokerFlushes(v) PROVE CalmOK'
  BY <1>13 DEF RevokerFlushes, RevTo
<1>14. ASSUME NEW v \in Others, RevokerMarks(v) PROVE CalmOK'
  BY <1>14 DEF RevokerMarks, Mark, MarkUntil, Unsigned, RevTo
<1>15. ASSUME NEW v \in Others, RevokerCommits(v) PROVE CalmOK'
  BY <1>15 DEF RevokerCommits, CommitRevocation, HasRead, RevTo
<1>16. ASSUME NEW v \in Others, RevokerAnswers(v) PROVE CalmOK'
  BY <1>16 DEF RevokerAnswers, RevTo
<1>17. ASSUME NEW v \in Others, RevokerDies(v) PROVE CalmOK'
  BY <1>17 DEF RevokerDies, Fault, Unlock, RevTo
<1>18. ASSUME Tick PROVE CalmOK'
  <2>1. now' > now /\ UNCHANGED <<row, cookie, mislaid, overlapped, tab>>
    BY <1>18 DEF Tick
  <2>2. ASSUME NEW d \in Nat, now > d PROVE now' > d
    BY <1>18, <2>2 DEF Tick
  <2>3. row.rotated + Window \in Nat
    BY TimesAssumption
  <2> QED
    BY <2>1, <2>2, <2>3
<1>19. ASSUME UNCHANGED vars PROVE CalmOK'
  BY <1>19 DEF vars
<1> QED
  BY <1>1, <1>2, <1>3, <1>4, <1>5, <1>6, <1>7, <1>8, <1>9, <1>10, <1>11, <1>12, <1>13,
     <1>14, <1>15, <1>16, <1>17, <1>18, <1>19 DEF Next, Serve, Revoke

-----------------------------------------------------------------------------
\* The invariant holds in every reachable state, for any number of tabs,
\* sign-outs and revocations.
THEOREM Invariance == Spec => []Inv
<1>1. Inv /\ [Next]_vars => Inv'
  BY NextKeepsType, NextKeepsLock, NextKeepsShut, NextKeepsTokens, NextKeepsInOrder,
     NextKeepsCalm DEF Inv
<1> QED
  BY InitInv, <1>1, PTL DEF Spec

\* Every variable keeps its type.
THEOREM TypeCorrect == Spec => []TypeOK
<1>1. Inv => TypeOK
  BY DEF Inv
<1> QED
  BY Invariance, <1>1, PTL

\* A committed revocation lets no access token in, unless an exchange was
\* between its read and its signature when the revocation came
\* (service.py:114-147, deps.py:94-97).
THEOREM RevocationIsImmediate == Spec => []RevocationShuts
<1>1. Inv => RevocationShuts
  BY TimesAssumption DEF Inv, TypeOK, ShutOK, RevocationShuts, LetIn
<1> QED
  BY Invariance, <1>1, PTL

\* No step takes a revocation back (repositories/sessions.py:49-57).
THEOREM RevocationStays == Spec => RevokedForGood
<1>1. TypeOK /\ [Next]_vars => [row.revoked => row'.revoked]_vars
  <2> SUFFICES ASSUME TypeOK, [Next]_vars, row.revoked PROVE row'.revoked
    OBVIOUS
  <2>1. ASSUME NEW t \in Tabs, Rotate(t) PROVE row'.revoked
    BY <2>1 DEF Rotate, Rotated, TypeOK, Rows
  <2>2. ASSUME NEW reused, CommitRevocation(reused) PROVE row'.revoked
    BY <2>2 DEF CommitRevocation, TypeOK, Rows
  <2> QED
    BY <2>1, <2>2
    DEF Next, Serve, Revoke, vars, database, Send, Find, FindPrevious, Pack, Receive,
        ReceiveRefusal, ReuseFlushes, ReuseMarks, ReuseCommits, ExchangeDies, RevokerReads,
        RevokerFlushes, RevokerMarks, RevokerCommits, RevokerAnswers, RevokerDies, Tick
<1> QED
  BY TypeCorrect, <1>1, PTL DEF Spec, RevokedForGood

\* Answers that arrive in the order of their commits leave every browser with
\* the current token, however many tabs exchange at once (service.py:81-112).
THEOREM OrderedTabsStayIn == Spec => []InOrderStaysIn
<1>1. Inv => InOrderStaysIn
  BY DEF Inv, InOrderOK, InOrderStaysIn, Quiet, Underway
<1> QED
  BY Invariance, <1>1, PTL

\* The alarm of a copied token has one cause besides exchanges that overlapped: a
\* token that never arrived, and the one before presented after the window
\* (service.py:149-174).
THEOREM AlarmHasCause == Spec => NoFalseAlarm
<1>1. Inv /\ [Next]_vars =>
         [audited' # audited => overlapped \/ (mislaid /\ now > row.rotated + Window)]_vars
  <2> SUFFICES ASSUME Inv, [Next]_vars, audited' # audited, ~overlapped
               PROVE  mislaid /\ now > row.rotated + Window
    OBVIOUS
  <2>1. ASSUME NEW t \in Tabs, ReuseCommits(t) PROVE mislaid /\ now > row.rotated + Window
    BY <2>1 DEF ReuseCommits, Inv, CalmOK
  <2>2. ASSUME NEW v \in Others, RevokerCommits(v) PROVE audited' = audited
    BY <2>2 DEF RevokerCommits, CommitRevocation, Inv, TypeOK
  <2> QED
    BY <2>1, <2>2
    DEF Next, Serve, Revoke, vars, database, Send, Find, FindPrevious, Rotate, Pack, Receive,
        ReceiveRefusal, ReuseFlushes, ReuseMarks, ExchangeDies, RevokerReads,
        RevokerFlushes, RevokerMarks, RevokerAnswers, RevokerDies, Tick
<1> QED
  BY <1>1, Invariance, PTL DEF Spec, NoFalseAlarm
=============================================================================
