----------------------------- MODULE CabinetProofs ----------------------------
(* What holds of the rate limiter, the caches and the webhooks for any        *)
(* number of requests, devices and events, any limit, window and lifetimes.   *)
EXTENDS Cabinet, FiniteSetTheorems, WellFoundedInduction, TLAPS

-----------------------------------------------------------------------------
(* The limiter.                                                              *)

\* A hit dates itself before Valkey executes it, and no hit is of the future.
MomentsOK ==
    \A i \in DOMAIN tried : tried[i].moment <= tried[i].at /\ tried[i].at <= now

\* The key outlives its youngest member by the window and a second.
GoneOK == \A i \in DOMAIN tried : tried[i].at + Window + 1 <= goneAt

\* What is no longer in the set was trimmed by a later hit, or expired.
MissingOK ==
    \A i \in DOMAIN tried :
        \/ i \in zset
        \/ \E k \in DOMAIN tried : i < k /\ tried[i].moment <= Cutoff(tried[k].moment)
        \/ tried[i].at + Window + 1 <= now

\* The set is what the last hit has left, with the verdict on it, or is gone.
LastOK ==
    Len(tried) > 0 =>
        LET n == Len(tried)
        IN  \/ /\ n \in zset
               /\ tried[n].allowed <=> Cardinality(zset) <= Limit
               /\ \A i \in zset : tried[i].moment > Cutoff(tried[n].moment)
            \/ zset = {} /\ tried[n].at + Window + 1 <= now

\* The hits of a window that were let in and did not come late.
Timely(moment) == {i \in DOMAIN tried : tried[i].allowed /\ InWindow(i, moment) /\ ~Late(i)}

TimelyOK == \A moment \in 0..MaxTime : Cardinality(Timely(moment)) <= Limit

\* When the Retry-After of a hit ends, too many before it still count; or the
\* key has expired in between, and so has what was told.
ToldOK ==
    \A i \in DOMAIN tried :
        tried[i].told > 0 /\ tried[i].heard = i =>
            \/ \E S \in SUBSET (1..i) :
                   /\ Cardinality(S) > Limit
                   /\ \A k \in S : tried[i].moment + tried[i].told <= tried[k].moment + Window
            \/ tried[i].told = Window /\ tried[i].at + Window + 1 <= now

LimiterInv ==
    /\ LimiterTypeOK /\ MomentsOK /\ GoneOK /\ MissingOK /\ LastOK
    /\ TimelyOK /\ ToldOK /\ SoonerIsRefused

-----------------------------------------------------------------------------
LEMMA HitTypes ==
    ASSUME LimiterTypeOK
    PROVE  /\ Len(tried) \in Nat /\ DOMAIN tried = 1..Len(tried)
           /\ now \in Nat /\ now <= MaxTime /\ MaxTime \in Nat
           /\ Limit \in Nat /\ Window \in Nat /\ Window > 0
           /\ \A i \in DOMAIN tried :
                 /\ i \in Nat /\ tried[i] \in Hits
                 /\ tried[i].moment \in Nat /\ tried[i].at \in Nat
                 /\ tried[i].moment <= MaxTime /\ tried[i].allowed \in BOOLEAN
                 /\ tried[i].told \in Int /\ tried[i].heard \in Nat
           /\ goneAt \in Int
  <1>1. tried \in Seq(Hits) /\ now \in 0..MaxTime
    BY DEF LimiterTypeOK
  <1>2. Len(tried) \in Nat /\ DOMAIN tried = 1..Len(tried) /\ \A i \in DOMAIN tried : tried[i] \in Hits
    BY <1>1
  <1>3. \A h \in Hits : /\ h.moment \in 0..MaxTime /\ h.at \in 0..MaxTime /\ h.allowed \in BOOLEAN
                       /\ h.told \in Int /\ h.heard \in Nat
    BY DEF Hits
  <1>4. MaxTime \in Nat /\ Limit \in Nat /\ Window \in Nat /\ Window > 0
    BY LimitAssumption, WindowAssumption, MaxTimeAssumption
  <1>5. goneAt \in Int
    BY <1>4 DEF LimiterTypeOK
  <1>6. now \in Nat /\ now <= MaxTime
    BY <1>1, <1>4
  <1>7. ASSUME NEW i \in DOMAIN tried
        PROVE  /\ i \in Nat /\ tried[i] \in Hits
               /\ tried[i].moment \in Nat /\ tried[i].at \in Nat
               /\ tried[i].moment <= MaxTime /\ tried[i].allowed \in BOOLEAN
               /\ tried[i].told \in Int /\ tried[i].heard \in Nat
    BY <1>2, <1>3, <1>4
  <1>. QED
    BY <1>2, <1>4, <1>5, <1>6, <1>7

LEMMA IndicesFinite ==
    ASSUME LimiterTypeOK
    PROVE  /\ \A S \in SUBSET (1..Len(tried) + 1) : IsFiniteSet(S) /\ Cardinality(S) \in Nat
           /\ IsFiniteSet(zset)
           /\ \A moment \in Nat : Kept(moment) \in SUBSET (1..Len(tried) + 1)
  <1>1. Len(tried) + 1 \in Int
    BY HitTypes
  <1>2. IsFiniteSet(1..Len(tried) + 1)
    BY <1>1, FS_Interval
  <1>3. \A S \in SUBSET (1..Len(tried) + 1) : IsFiniteSet(S)
    BY <1>2, FS_Subset
  <1>4. \A S \in SUBSET (1..Len(tried) + 1) : Cardinality(S) \in Nat
    BY <1>3, FS_CardinalityType
  <1>5. zset \in SUBSET (1..Len(tried) + 1)
    BY HitTypes DEF LimiterTypeOK
  <1>6. Len(tried) + 1 \in 1..Len(tried) + 1
    BY HitTypes
  <1>7. \A moment \in Nat : Kept(moment) \in SUBSET (1..Len(tried) + 1)
    BY <1>5, <1>6 DEF Kept
  <1>. QED
    BY <1>3, <1>4, <1>5, <1>7

\* The first by score is there, unless the set is empty.
LEMMA OldestExists ==
    ASSUME LimiterTypeOK, zset # {}
    PROVE  \E i \in zset : Oldest(i)
  <1>. DEFINE Before(i) == {k \in zset : tried[k].moment < tried[i].moment}
              T == {Before(i) : i \in zset}
  <1>1. IsWellFoundedOn(StrictSubsetOrdering(zset), SUBSET zset)
    BY IndicesFinite, FS_StrictSubsetOrderingWellFounded, FS_FiniteSubsetsOfFinite
  <1>2. T \subseteq SUBSET zset /\ T # {}
    OBVIOUS
  <1>. HIDE DEF T
  <1>3. PICK x \in T : \A y \in T : <<y, x>> \notin StrictSubsetOrdering(zset)
    BY <1>1, <1>2, WFMin
  <1>4. PICK i \in zset : x = Before(i)
    BY DEF T
  <1>5. ASSUME NEW k \in zset, tried[k].moment < tried[i].moment
        PROVE  FALSE
    <2>1. Before(k) \in T
      BY DEF T
    <2>2. Before(k) \subseteq Before(i)
      BY <1>5, HitTypes DEF LimiterTypeOK
    <2>3. k \in Before(i) /\ k \notin Before(k)
      BY <1>5, HitTypes DEF LimiterTypeOK
    <2>4. Before(k) # Before(i)
      BY <2>3
    <2>5. Before(k) \in SUBSET zset /\ Before(i) \in SUBSET zset
      OBVIOUS
    <2>. HIDE DEF Before
    <2>6. <<Before(k), Before(i)>> \in StrictSubsetOrdering(zset)
      BY <2>2, <2>4, <2>5 DEF StrictSubsetOrdering
    <2>. QED
      BY <1>3, <1>4, <2>1, <2>6
  <1>6. \A k \in zset : ~(tried[k].moment < tried[i].moment)
    BY <1>5
  <1>7. \A k \in zset : tried[k].moment \in Nat
    BY HitTypes DEF LimiterTypeOK
  <1>8. \A k \in zset : tried[i].moment <= tried[k].moment
    BY <1>6, <1>7
  <1>. QED
    BY <1>8 DEF Oldest

\* The pipeline adds a row and leaves the others.
LEMMA PipelineRows ==
    ASSUME LimiterTypeOK, NEW moment \in 0..now, Pipeline(moment)
    PROVE  /\ tried' \in Seq(Hits)
           /\ Len(tried') = Len(tried) + 1 /\ DOMAIN tried' = 1..Len(tried) + 1
           /\ \A i \in DOMAIN tried : tried'[i] = tried[i] /\ i \in DOMAIN tried'
           /\ tried'[Len(tried) + 1].moment = moment
           /\ tried'[Len(tried) + 1].at = now
           /\ tried'[Len(tried) + 1].allowed = Allowed(moment)
           /\ tried'[Len(tried) + 1].told = 0
           /\ zset' = Kept(moment) /\ goneAt' = now + Window + 1
  <1>. DEFINE hit == [moment |-> moment, at |-> now, allowed |-> Allowed(moment),
                      told |-> 0, heard |-> 0]
  <1>1. Allowed(moment) \in BOOLEAN
    BY DEF Allowed
  <1>2. hit \in Hits
    BY <1>1, HitTypes DEF Hits
  <1>3. tried' = Append(tried, hit)
    BY DEF Pipeline
  <1>4. /\ hit.moment = moment /\ hit.at = now /\ hit.allowed = Allowed(moment) /\ hit.told = 0
    OBVIOUS
  <1>. HIDE DEF hit
  <1>. QED
    BY <1>2, <1>3, <1>4, HitTypes DEF LimiterTypeOK, Pipeline, Expiry

\* A hit that is not late counts all that the window before it holds.
LEMMA StillCounts ==
    ASSUME LimiterTypeOK, MomentsOK, MissingOK, NEW moment \in 0..now, Pipeline(moment),
           now' = now, NEW j \in Nat, j = Len(tried) + 1, ~Late(j)',
           NEW k \in DOMAIN tried, tried[k].moment > moment - Window
    PROVE  k \in Kept(moment)
  <1>1. /\ \A i \in 1..j - 1 : ~(tried'[i].moment > tried'[j].moment)
        /\ ~(tried'[j].at > tried'[j].moment + 1)
    BY DEF Late
  <1>2. /\ \A i \in DOMAIN tried : tried[i].moment <= moment
        /\ now <= moment + 1
    BY <1>1, PipelineRows, HitTypes
  <1>3. CASE k \in zset
    BY <1>3, HitTypes DEF Kept, Cutoff
  <1>4. CASE \E l \in DOMAIN tried : k < l /\ tried[k].moment <= Cutoff(tried[l].moment)
    <2>1. PICK l \in DOMAIN tried : tried[k].moment <= tried[l].moment - Window
      BY <1>4 DEF Cutoff
    <2>. QED
      BY <1>2, <2>1, HitTypes
  <1>5. CASE tried[k].at + Window + 1 <= now
    BY <1>2, <1>5, HitTypes DEF MomentsOK
  <1>. QED
    BY <1>3, <1>4, <1>5 DEF MissingOK

\* What makes a hit late lies before it.
LEMMA PipelineLate ==
    ASSUME LimiterTypeOK, NEW moment \in 0..now, Pipeline(moment), NEW i \in DOMAIN tried
    PROVE  Late(i)' <=> Late(i)
  <1>1. \A k \in 1..i - 1 : k \in DOMAIN tried
    BY HitTypes
  <1>2. /\ tried'[i] = tried[i]
        /\ \A k \in 1..i - 1 : tried'[k] = tried[k]
    BY <1>1, PipelineRows
  <1>. QED
    BY <1>2 DEF Late

\* A hit that is let in and not late finds the others of its window in the set.
LEMMA PipelineTimely ==
    ASSUME LimiterTypeOK, MomentsOK, MissingOK, TimelyOK,
           NEW moment \in 0..now, Pipeline(moment), now' = now
    PROVE  TimelyOK'
  <1>. SUFFICES ASSUME NEW end \in 0..MaxTime
                PROVE  Cardinality(Timely(end)') <= Limit
    BY DEF TimelyOK
  <1>1. /\ end \in Nat /\ moment \in Nat /\ Len(tried) + 1 \in Nat
        /\ DOMAIN tried = 1..Len(tried)
    BY HitTypes
  <1>. PICK j \in Nat : j = Len(tried) + 1
    BY <1>1
  <1>2. ASSUME NEW i \in DOMAIN tried
        PROVE  i \in Timely(end)' <=> i \in Timely(end)
    BY PipelineRows, PipelineLate DEF Timely, InWindow
  <1>3. Timely(end)' \subseteq 1..j /\ Timely(end) \subseteq 1..j - 1
    BY PipelineRows, HitTypes DEF Timely
  <1>4. CASE j \notin Timely(end)'
    <2>1. Timely(end)' \subseteq DOMAIN tried /\ Timely(end) \subseteq DOMAIN tried
      BY <1>1, <1>3, <1>4
    <2>2. Timely(end)' = Timely(end)
      BY <1>2, <2>1
    <2>. QED
      BY <2>2 DEF TimelyOK
  <1>5. CASE j \in Timely(end)'
    <2>1. /\ Allowed(moment)
          /\ moment > end - Window /\ moment <= end
      BY <1>5, PipelineRows DEF Timely, InWindow
    <2>2. ~Late(j)'
      BY <1>5 DEF Timely
    <2>3. ASSUME NEW i \in Timely(end)'
          PROVE  i \in Kept(moment)
      <3>1. CASE i = j
        BY <3>1 DEF Kept
      <3>2. CASE i # j
        <4>1. i \in DOMAIN tried
          BY <1>3, <3>2, HitTypes
        <4>2. tried[i].moment > end - Window
          BY <1>2, <2>3, <4>1 DEF Timely, InWindow
        <4>3. tried[i].moment > moment - Window
          BY <1>1, <2>1, <4>1, <4>2, HitTypes
        <4>. QED
          BY <1>1, <2>2, <4>1, <4>3, StillCounts
      <3>. QED
        BY <3>1, <3>2
    <2>4. Cardinality(Kept(moment)) <= Limit
      BY <2>1 DEF Allowed
    <2>5. IsFiniteSet(Kept(moment)) /\ Cardinality(Kept(moment)) \in Nat
      BY <1>1, IndicesFinite
    <2>6. Timely(end)' \subseteq Kept(moment)
      BY <2>3
    <2>7. /\ Cardinality(Timely(end)') <= Cardinality(Kept(moment))
          /\ Cardinality(Timely(end)') \in Nat
      BY <2>5, <2>6, FS_Subset, FS_CardinalityType
    <2>. QED
      BY <2>4, <2>5, <2>7, HitTypes
  <1>. QED
    BY <1>4, <1>5

\* Whoever comes back sooner than told finds too many still counted.
LEMMA PipelineSooner ==
    ASSUME LimiterTypeOK, MomentsOK, MissingOK, ToldOK, SoonerIsRefused,
           NEW moment \in 0..now, Pipeline(moment), now' = now
    PROVE  SoonerIsRefused'
  <1>. DEFINE n == Len(tried)
  <1>1. SUFFICES ASSUME NEW i \in 1..n + 1, NEW j \in 1..n + 1,
                        i < j, tried'[i].told > 0, tried'[i].heard = i,
                        tried'[j].moment < tried'[i].moment + tried'[i].told,
                        ~Late(j)', tried'[j].allowed
                 PROVE  FALSE
    BY PipelineRows DEF SoonerIsRefused
  <1>2. n \in Nat /\ DOMAIN tried = 1..n /\ moment \in Nat /\ now \in Nat
    BY HitTypes
  <1>3. i \in DOMAIN tried /\ tried'[i] = tried[i]
    BY <1>1, <1>2, PipelineRows
  <1>4. CASE j # n + 1
    <2>1. j \in DOMAIN tried /\ tried'[j] = tried[j] /\ ~Late(j)
      BY <1>1, <1>2, <1>4, PipelineRows, PipelineLate
    <2>. QED
      BY <1>1, <1>3, <2>1 DEF SoonerIsRefused
  <1>5. CASE j = n + 1
    <2>1. /\ tried'[j].moment = moment /\ tried'[j].at = now
          /\ Cardinality(Kept(moment)) <= Limit
      BY <1>1, <1>5, PipelineRows DEF Allowed
    <2>2. moment < tried[i].moment + tried[i].told
      BY <1>1, <1>3, <2>1
    <2>3. CASE \E S \in SUBSET (1..i) :
                  /\ Cardinality(S) > Limit
                  /\ \A k \in S : tried[i].moment + tried[i].told <= tried[k].moment + Window
      <3>1. PICK S \in SUBSET (1..i) :
                  /\ Cardinality(S) > Limit
                  /\ \A k \in S : tried[i].moment + tried[i].told <= tried[k].moment + Window
        BY <2>3
      <3>2. ASSUME NEW k \in S
            PROVE  k \in Kept(moment)
        <4>1. k \in DOMAIN tried
          BY <1>2, <1>3
        <4>2. tried[k].moment > moment - Window
          BY <1>2, <1>3, <2>2, <3>1, <4>1, HitTypes
        <4>. QED
          BY <1>1, <1>2, <1>5, <4>1, <4>2, StillCounts
      <3>3. IsFiniteSet(Kept(moment)) /\ Cardinality(Kept(moment)) \in Nat
        BY <1>2, IndicesFinite
      <3>4. S \subseteq Kept(moment)
        BY <3>2
      <3>5. Cardinality(S) <= Cardinality(Kept(moment)) /\ Cardinality(S) \in Nat
        BY <3>3, <3>4, FS_Subset, FS_CardinalityType
      <3>. QED
        BY <2>1, <3>1, <3>3, <3>5, HitTypes
    <2>4. CASE tried[i].told = Window /\ tried[i].at + Window + 1 <= now
      <3>1. now <= moment + 1
        BY <1>1, <1>2, <2>1 DEF Late
      <3>. QED
        BY <1>2, <1>3, <2>2, <2>4, <3>1, HitTypes DEF MomentsOK
    <2>. QED
      BY <1>1, <1>3, <2>3, <2>4 DEF ToldOK
  <1>. QED
    BY <1>4, <1>5

LEMMA PipelineKeeps ==
    ASSUME LimiterInv, NEW moment \in 0..now, Pipeline(moment), now' = now
    PROVE  LimiterInv'
  <1>. USE DEF LimiterInv
  <1>. DEFINE n == Len(tried)
  <1>1. n \in Nat /\ DOMAIN tried = 1..n /\ moment \in Nat /\ now \in Nat
    BY HitTypes
  <1>2. ASSUME NEW i \in 1..n + 1
        PROVE  (i \in DOMAIN tried /\ tried'[i] = tried[i]) \/ i = n + 1
    BY <1>1, PipelineRows
  <1>3. LimiterTypeOK'
    <2>1. Kept(moment) \subseteq 1..n + 1
      BY <1>1, IndicesFinite
    <2>2. now + Window + 1 \in 0..MaxTime + Window + 1
      BY HitTypes
    <2>. QED
      BY <2>1, <2>2, PipelineRows DEF LimiterTypeOK
  <1>4. MomentsOK'
    BY <1>1, <1>2, PipelineRows DEF MomentsOK
  <1>5. GoneOK'
    <2>1. ASSUME NEW i \in 1..n + 1
          PROVE  tried'[i].at <= now
      BY <1>1, <1>2, PipelineRows DEF MomentsOK
    <2>2. \A i \in 1..n + 1 : tried'[i].at \in Nat
      BY <1>1, <1>2, PipelineRows, HitTypes
    <2>3. DOMAIN tried' = 1..n + 1 /\ goneAt' = now + Window + 1
      BY PipelineRows
    <2>4. \A a \in Nat : a <= now => a + Window + 1 <= now + Window + 1
      BY <1>1, WindowAssumption
    <2>. QED
      BY <2>1, <2>2, <2>3, <2>4 DEF GoneOK
  <1>6. MissingOK'
    <2>1. SUFFICES ASSUME NEW i \in 1..n + 1, i \notin zset'
                   PROVE  \/ \E k \in 1..n + 1 : i < k /\ tried'[i].moment <= Cutoff(tried'[k].moment)
                          \/ tried'[i].at + Window + 1 <= now
      BY PipelineRows DEF MissingOK, Cutoff
    <2>2. i \in DOMAIN tried /\ tried'[i] = tried[i]
      BY <1>2, <2>1, PipelineRows DEF Kept
    <2>3. CASE i \in zset
      <3>1. ~(tried[i].moment > Cutoff(moment))
        BY <2>1, <2>2, <2>3, PipelineRows DEF Kept
      <3>2. tried[i].moment <= Cutoff(tried'[n + 1].moment) /\ i < n + 1
        BY <1>1, <2>2, <3>1, PipelineRows, HitTypes DEF Cutoff
      <3>. QED
        BY <1>1, <2>2, <3>2
    <2>4. CASE \E k \in DOMAIN tried : i < k /\ tried[i].moment <= Cutoff(tried[k].moment)
      <3>1. PICK k \in DOMAIN tried : i < k /\ tried[i].moment <= Cutoff(tried[k].moment)
        BY <2>4
      <3>2. k \in 1..n + 1 /\ tried'[k] = tried[k]
        BY <1>1, PipelineRows
      <3>. QED
        BY <2>2, <3>1, <3>2
    <2>. QED
      BY <2>2, <2>3, <2>4 DEF MissingOK
  <1>7. LastOK'
    <2>1. n + 1 \in Kept(moment)
      BY DEF Kept
    <2>2. ASSUME NEW i \in Kept(moment)
          PROVE  tried'[i].moment > Cutoff(moment)
      <3>1. CASE i = n + 1
        BY <1>1, <3>1, PipelineRows, HitTypes DEF Cutoff
      <3>2. CASE i \in zset /\ tried[i].moment > Cutoff(moment)
        BY <3>2, PipelineRows DEF LimiterTypeOK
      <3>. QED
        BY <3>1, <3>2 DEF Kept
    <2>. QED
      BY <2>1, <2>2, PipelineRows DEF LastOK, Allowed, Cutoff
  <1>8. ToldOK'
    <2>1. SUFFICES ASSUME NEW i \in 1..n + 1, tried'[i].told > 0, tried'[i].heard = i
                   PROVE  \/ \E S \in SUBSET (1..i) :
                                /\ Cardinality(S) > Limit
                                /\ \A k \in S : tried'[i].moment + tried'[i].told <= tried'[k].moment + Window
                          \/ tried'[i].told = Window /\ tried'[i].at + Window + 1 <= now
      BY PipelineRows DEF ToldOK
    <2>2. i \in DOMAIN tried /\ tried'[i] = tried[i]
      BY <1>2, <2>1, PipelineRows
    <2>3. \A k \in 1..i : tried'[k] = tried[k]
      BY <1>1, <2>2, PipelineRows
    <2>. QED
      BY <2>1, <2>2, <2>3 DEF ToldOK
  <1>9. TimelyOK'
    BY PipelineTimely
  <1>10. SoonerIsRefused'
    BY PipelineSooner
  <1>. QED
    BY <1>3, <1>4, <1>5, <1>6, <1>7, <1>8, <1>9, <1>10

\* Only what a hit was told changes.
LEMMA TellRows ==
    ASSUME LimiterTypeOK, NEW i \in DOMAIN tried, Tell(i)
    PROVE  /\ tried' \in Seq(Hits) /\ Len(tried') = Len(tried) /\ DOMAIN tried' = DOMAIN tried
           /\ \A k \in DOMAIN tried :
                 /\ tried'[k].moment = tried[k].moment /\ tried'[k].at = tried[k].at
                 /\ tried'[k].allowed = tried[k].allowed
                 /\ k # i => tried'[k] = tried[k]
           /\ tried'[i].told = RetryAfter(tried[i].moment)
           /\ tried'[i].heard = Len(tried)
           /\ zset' = zset /\ goneAt' = goneAt
  <1>1. tried[i].moment \in Nat /\ Window \in Nat /\ Len(tried) \in Nat
    BY HitTypes
  <1>2. RetryAfter(tried[i].moment) \in Int
    <2>1. CASE zset = {}
      BY <1>1, <2>1 DEF RetryAfter
    <2>2. CASE zset # {}
      <3>1. (CHOOSE k \in zset : Oldest(k)) \in zset
        BY <2>2, OldestExists
      <3>2. tried[CHOOSE k \in zset : Oldest(k)].moment \in Nat
        BY <3>1, HitTypes DEF LimiterTypeOK
      <3>. QED
        BY <1>1, <2>2, <3>2 DEF RetryAfter
    <2>. QED
      BY <2>1, <2>2
  <1>3. PICK told \in Int : told = RetryAfter(tried[i].moment)
    BY <1>2
  <1>4. PICK row : row = [tried[i] EXCEPT !.told = told, !.heard = Len(tried)]
    OBVIOUS
  <1>5. /\ row \in Hits /\ row.moment = tried[i].moment /\ row.at = tried[i].at
        /\ row.allowed = tried[i].allowed /\ row.told = told /\ row.heard = Len(tried)
    <2>1. tried[i] \in Hits
      BY HitTypes
    <2>. QED
      BY <1>1, <1>3, <1>4, <2>1 DEF Hits
  <1>6. tried' = [tried EXCEPT ![i] = row]
    BY <1>3, <1>4 DEF Tell
  <1>7. tried \in Seq(Hits)
    BY DEF LimiterTypeOK
  <1>8. zset' = zset /\ goneAt' = goneAt
    BY DEF Tell
  <1>9. /\ tried' \in Seq(Hits) /\ Len(tried') = Len(tried) /\ DOMAIN tried' = DOMAIN tried
        /\ tried'[i] = row /\ \A k \in DOMAIN tried : k # i => tried'[k] = tried[k]
    BY <1>5, <1>6, <1>7
  <1>. QED
    BY <1>3, <1>5, <1>8, <1>9

\* A refused hit is told to wait until the oldest one has left the window.
LEMMA TellIsFair ==
    ASSUME LimiterInv, NEW i \in DOMAIN tried, ~tried[i].allowed, Tell(i), now' = now,
           i = Len(tried)
    PROVE  \/ \E S \in SUBSET (1..i) :
                  /\ Cardinality(S) > Limit
                  /\ \A k \in S : tried'[i].moment + tried'[i].told <= tried'[k].moment + Window
           \/ tried'[i].told = Window /\ tried'[i].at + Window + 1 <= now
  <1>. USE DEF LimiterInv
  <1>1. /\ tried[i].moment \in Nat /\ Window \in Nat /\ Limit \in Nat
        /\ i > 0 /\ i \in Nat /\ DOMAIN tried = 1..i
    BY HitTypes
  <1>2. CASE /\ i \in zset
             /\ tried[i].allowed <=> Cardinality(zset) <= Limit
             /\ \A k \in zset : tried[k].moment > Cutoff(tried[i].moment)
    <2>. DEFINE first == CHOOSE k \in zset : Oldest(k)
    <2>1. first \in zset /\ Oldest(first)
      BY <1>2, OldestExists
    <2>. HIDE DEF first
    <2>2. \A k \in zset : tried[k].moment \in Nat
      BY HitTypes DEF LimiterTypeOK
    <2>3. tried[first].moment > tried[i].moment - Window
      BY <1>2, <2>1 DEF Cutoff
    <2>4. RetryAfter(tried[i].moment) = tried[first].moment + Window - tried[i].moment
      BY <1>1, <1>2, <2>1, <2>2, <2>3 DEF RetryAfter, first
    <2>5. \A k \in zset : tried[i].moment + RetryAfter(tried[i].moment) <= tried[k].moment + Window
      BY <1>1, <2>1, <2>2, <2>4 DEF Oldest
    <2>6. Cardinality(zset) > Limit
      <3>1. zset \in SUBSET (1..Len(tried) + 1)
        BY HitTypes DEF LimiterTypeOK
      <3>2. Cardinality(zset) \in Nat
        BY <3>1, IndicesFinite
      <3>. QED
        BY <1>1, <1>2, <3>2
    <2>7. zset \in SUBSET (1..i)
      BY <1>1 DEF LimiterTypeOK
    <2>8. \A k \in zset : tried'[i].moment + tried'[i].told <= tried'[k].moment + Window
      BY <2>5, TellRows DEF LimiterTypeOK
    <2>. QED
      BY <2>6, <2>7, <2>8
  <1>3. CASE zset = {} /\ tried[i].at + Window + 1 <= now
    BY <1>3, TellRows DEF RetryAfter
  <1>. QED
    BY <1>1, <1>2, <1>3 DEF LastOK

LEMMA TellKeeps ==
    ASSUME LimiterInv, NEW i \in DOMAIN tried, ~tried[i].allowed, Tell(i), now' = now
    PROVE  LimiterInv'
  <1>. USE DEF LimiterInv
  <1>1. Len(tried) \in Nat /\ DOMAIN tried = 1..Len(tried)
    BY HitTypes
  <1>2. \A k \in DOMAIN tried : Late(k)' <=> Late(k)
    <2>1. SUFFICES ASSUME NEW k \in DOMAIN tried
                   PROVE  Late(k)' <=> Late(k)
      OBVIOUS
    <2>2. \A l \in 1..k - 1 : l \in DOMAIN tried
      BY <1>1
    <2>3. \A l \in 1..k - 1 : tried'[l].moment = tried[l].moment
      BY <2>2, TellRows
    <2>. QED
      BY <2>3, TellRows DEF Late
  <1>3. LimiterTypeOK'
    BY TellRows DEF LimiterTypeOK
  <1>4. MomentsOK' /\ GoneOK'
    BY TellRows DEF MomentsOK, GoneOK
  <1>5. MissingOK'
    BY TellRows DEF MissingOK, Cutoff
  <1>6. LastOK'
    <2>1. SUFFICES ASSUME Len(tried) > 0
                   PROVE  LastOK'
      BY TellRows DEF LastOK
    <2>2. Len(tried) \in DOMAIN tried
      BY <1>1, <2>1
    <2>3. \A k \in zset : tried'[k].moment = tried[k].moment
      BY TellRows DEF LimiterTypeOK
    <2>. QED
      BY <2>1, <2>2, <2>3, TellRows DEF LastOK, Cutoff
  <1>7. ToldOK'
    <2>1. SUFFICES ASSUME NEW k \in DOMAIN tried, tried'[k].told > 0, tried'[k].heard = k
                   PROVE  \/ \E S \in SUBSET (1..k) :
                                /\ Cardinality(S) > Limit
                                /\ \A l \in S : tried'[k].moment + tried'[k].told <= tried'[l].moment + Window
                          \/ tried'[k].told = Window /\ tried'[k].at + Window + 1 <= now
      BY TellRows DEF ToldOK
    <2>2. CASE k = i
      BY <2>1, <2>2, TellRows, TellIsFair
    <2>3. CASE k # i
      <3>1. tried'[k] = tried[k]
        BY <2>3, TellRows
      <3>2. \A l \in 1..k : tried'[l].moment = tried[l].moment
        BY <1>1, TellRows
      <3>. QED
        BY <2>1, <3>1, <3>2 DEF ToldOK
    <2>. QED
      BY <2>2, <2>3
  <1>8. TimelyOK'
    <2>1. SUFFICES ASSUME NEW end \in 0..MaxTime
                   PROVE  Cardinality(Timely(end)') <= Limit
      BY DEF TimelyOK
    <2>2. Timely(end)' = Timely(end)
      BY <1>2, TellRows DEF Timely, InWindow
    <2>. QED
      BY <2>2 DEF TimelyOK
  <1>9. SoonerIsRefused'
    <2>1. SUFFICES ASSUME NEW k \in DOMAIN tried, NEW j \in DOMAIN tried,
                          k < j, tried'[k].told > 0, tried'[k].heard = k,
                          tried'[j].moment < tried'[k].moment + tried'[k].told,
                          ~Late(j)', tried'[j].allowed
                   PROVE  FALSE
      BY TellRows DEF SoonerIsRefused
    <2>2. CASE k = i
      BY <1>1, <2>1, <2>2, TellRows
    <2>3. CASE k # i
      BY <1>2, <2>1, <2>3, TellRows DEF SoonerIsRefused
    <2>. QED
      BY <2>2, <2>3
  <1>. QED
    BY <1>3, <1>4, <1>5, <1>6, <1>7, <1>8, <1>9

\* The key may expire. All that asks for the set says so too.
LEMMA LimiterTickKeeps ==
    ASSUME LimiterInv, LimiterTick
    PROVE  LimiterInv'
  <1>. USE DEF LimiterInv
  <1>1. /\ now' = now + 1 /\ now < MaxTime /\ tried' = tried /\ goneAt' = goneAt
        /\ zset' = IF goneAt <= now + 1 THEN {} ELSE zset
    BY DEF LimiterTick
  <1>2. \A i : Late(i)' <=> Late(i)
    BY <1>1 DEF Late
  <1>3. LimiterTypeOK'
    BY <1>1, MaxTimeAssumption DEF LimiterTypeOK
  <1>4. MomentsOK' /\ GoneOK'
    BY <1>1, HitTypes DEF MomentsOK, GoneOK
  <1>5. MissingOK'
    <2>1. SUFFICES ASSUME NEW i \in DOMAIN tried, i \notin zset'
                   PROVE  \/ \E k \in DOMAIN tried : i < k /\ tried[i].moment <= Cutoff(tried[k].moment)
                          \/ tried[i].at + Window + 1 <= now'
      BY <1>1 DEF MissingOK, Cutoff
    <2>2. CASE goneAt <= now + 1
      BY <1>1, <2>2, HitTypes DEF GoneOK
    <2>3. CASE ~(goneAt <= now + 1)
      BY <1>1, <2>1, <2>3, HitTypes DEF MissingOK
    <2>. QED
      BY <2>2, <2>3
  <1>6. LastOK'
    <2>1. SUFFICES ASSUME Len(tried) > 0
                   PROVE  LastOK'
      BY <1>1 DEF LastOK
    <2>2. Len(tried) \in DOMAIN tried
      BY <2>1, HitTypes
    <2>3. CASE goneAt <= now + 1
      BY <1>1, <2>2, <2>3, HitTypes DEF GoneOK, LastOK
    <2>4. CASE ~(goneAt <= now + 1)
      BY <1>1, <2>1, <2>2, <2>4, HitTypes DEF LastOK, Cutoff
    <2>. QED
      BY <2>3, <2>4
  <1>7. ToldOK'
    <2>1. \A i \in DOMAIN tried : tried[i].at + Window + 1 <= now => tried[i].at + Window + 1 <= now'
      BY <1>1, HitTypes
    <2>. QED
      BY <1>1, <2>1 DEF ToldOK
  <1>8. TimelyOK'
    BY <1>1, <1>2 DEF TimelyOK, Timely, InWindow
  <1>9. SoonerIsRefused'
    BY <1>1, <1>2 DEF SoonerIsRefused
  <1>. QED
    BY <1>3, <1>4, <1>5, <1>6, <1>7, <1>8, <1>9

LEMMA LimiterStays ==
    ASSUME LimiterInv, now' = now, UNCHANGED limiter
    PROVE  LimiterInv'
  BY DEF limiter, LimiterInv, LimiterTypeOK, MomentsOK, GoneOK, MissingOK, LastOK, TimelyOK, Timely,
         InWindow, Late, ToldOK, SoonerIsRefused, Cutoff

LEMMA LimiterStarts ==
    ASSUME LimiterInit
    PROVE  LimiterInv
  <1>. USE DEF LimiterInit
  <1>1. LimiterTypeOK
    BY MaxTimeAssumption, WindowAssumption DEF LimiterTypeOK
  <1>2. DOMAIN tried = {} /\ Len(tried) = 0
    OBVIOUS
  <1>3. MomentsOK /\ GoneOK /\ MissingOK /\ ToldOK /\ SoonerIsRefused /\ LastOK
    BY <1>2 DEF MomentsOK, GoneOK, MissingOK, ToldOK, SoonerIsRefused, LastOK
  <1>4. \A end : Timely(end) = {}
    BY <1>2 DEF Timely
  <1>5. TimelyOK
    BY <1>4, FS_EmptySet, LimitAssumption DEF TimelyOK
  <1>. QED
    BY <1>1, <1>3, <1>5 DEF LimiterInv

\* In a window, at most the limit was let in and not late.
LEMMA LimitFollows ==
    ASSUME LimiterInv
    PROVE  LimitIsKept
  <1>. USE DEF LimiterInv
  <1>1. SUFFICES ASSUME NEW end \in 0..MaxTime
                 PROVE  Cardinality({i \in DOMAIN tried : tried[i].allowed /\ InWindow(i, end)})
                           <= Limit + Cardinality({i \in DOMAIN tried : Late(i)})
    BY DEF LimitIsKept, WindowHolds
  <1>. DEFINE In == {i \in DOMAIN tried : tried[i].allowed /\ InWindow(i, end)}
              Lates == {i \in DOMAIN tried : Late(i)}
  <1>2. DOMAIN tried \subseteq 1..Len(tried) + 1 /\ Limit \in Nat
    BY HitTypes
  <1>3. /\ In \in SUBSET (1..Len(tried) + 1) /\ Lates \in SUBSET (1..Len(tried) + 1)
        /\ Timely(end) \in SUBSET (1..Len(tried) + 1)
    BY <1>2 DEF Timely
  <1>4. In \subseteq Timely(end) \cup Lates
    BY DEF Timely
  <1>5. Cardinality(Timely(end)) <= Limit
    BY DEF TimelyOK
  <1>. HIDE DEF In, Lates
  <1>6. /\ IsFiniteSet(Timely(end)) /\ IsFiniteSet(Lates)
        /\ Cardinality(Timely(end)) \in Nat /\ Cardinality(Lates) \in Nat /\ Cardinality(In) \in Nat
    BY <1>3, IndicesFinite
  <1>7. /\ IsFiniteSet(Timely(end) \cup Lates)
        /\ Cardinality(Timely(end) \cup Lates)
              = Cardinality(Timely(end)) + Cardinality(Lates) - Cardinality(Timely(end) \cap Lates)
    BY <1>6, FS_Union
  <1>8. Cardinality(Timely(end) \cap Lates) \in Nat
    BY <1>6, FS_Subset, FS_CardinalityType
  <1>9. Cardinality(In) <= Cardinality(Timely(end) \cup Lates)
    BY <1>4, <1>7, FS_Subset
  <1>. QED
    BY <1>2, <1>5, <1>6, <1>7, <1>8, <1>9 DEF In, Lates

-----------------------------------------------------------------------------
(* The caches and the webhooks.                                              *)

ThingsOK ==
    /\ user \in Users /\ known \in BOOLEAN /\ devices \subseteq Devices
    /\ edits \in 0..MaxEdits /\ traffic \in 0..edits

\* An entry is a value of its source, with a part of its life left.
CacheOK ==
    /\ cache = [c \in Cached |-> cache[c]]
    /\ \A c \in Cached : \A entry \in cache[c] :
          entry.value \in Values[c] /\ entry.until \in now + 1..now + TTL(c)
    /\ overdue \subseteq Cached \X Reasons

\* A request has its fields, and has read what its source may hold.
RowOK(q) ==
    /\ q = [pc |-> q.pc, wants |-> q.wants, at |-> q.at, read |-> q.read,
            item |-> q.item, hit |-> q.hit, found |-> q.found]
    /\ q.pc \in Pcs
    /\ q.read = [c \in Cached |-> q.read[c]]
    /\ \A c \in Cached : q.read[c] \subseteq Values[c]

\* It knows which value it is at, and what it is about.
CarriesOK(q) ==
    /\ q.pc \in {"get", "read", "put"} =>
          \/ q.at = "who" /\ q.wants \in {"devices", "usage", "update", "unlink"}
          \/ q.at = q.wants /\ q.wants \in {"devices", "usage"}
    /\ q.pc = "days" => q.at = "usage" /\ q.wants = "usage"
    /\ q.pc = "update" => q.at = "who" /\ q.wants = "update"
    /\ q.pc = "delete" => q.at = "devices"
    /\ q.pc = "drop" => q.at \in Cached
    /\ q.wants = "update" => q.item \in Languages
    /\ q.pc \in {"insert", "handle", "commit"} => q.item \in Events

\* A hit to be sent is dated, one to be told was refused.
HitOK(q) ==
    /\ q.pc = "pipeline" => q.hit \in 0..now
    /\ q.pc = "tell" => q.hit \in DOMAIN tried /\ ~tried[q.hit].allowed

\* A webhook in work was sent; once it is handled for a known user, a device
\* event has dropped the cache.
IntakeOK(q) ==
    /\ q.pc \in {"insert", "handle", "commit"} => event[q.item].phase # "unused"
    /\ q.pc = "commit" /\ q.found /\ event[q.item].kind = "devices" => q.item \in cleared

LocalOK(q) == RowOK(q) /\ CarriesOK(q) /\ HitOK(q) /\ IntakeOK(q)

RequestsOK ==
    /\ request = [r \in Requests |-> request[r]]
    /\ \A r \in Requests : LocalOK(request[r])

EventRows == {[kind |-> None, phase |-> "unused"]} \cup
             [kind : {"user", "devices"}, phase : {"sent", "acked"}]

EventTypes ==
    /\ event \in [Events -> EventRows] /\ claim \in [Events -> Requests \cup {None}]
    /\ stored \subseteq Events /\ messages \in [Events -> Nat]

Claims(q) == q.pc \in {"handle", "commit"}

\* Who works on an event has claimed it, and nobody has stored it yet.
ClaimOK ==
    /\ \A r \in Requests : Claims(request[r]) =>
          claim[request[r].item] = r /\ request[r].item \notin stored
    /\ \A e \in Events : claim[e] \in Requests =>
          Claims(request[claim[e]]) /\ request[claim[e]].item = e

\* An event that is stored has had its effect, unless its user was not known;
\* one that is not stored has had none, and no answer.
StoredOK ==
    \A e \in Events :
        /\ e \notin stored => messages[e] = 0 /\ event[e].phase # "acked"
        /\ e \in stored =>
              /\ messages[e] <= 1 /\ event[e].phase # "unused"
              /\ \/ e \in strangers
                 \/ event[e].kind = "user" /\ messages[e] = 1
                 \/ event[e].kind = "devices" /\ e \in cleared

EventsOK == EventTypes /\ ClaimOK /\ StoredOK

Inv == LimiterInv /\ ThingsOK /\ CacheOK /\ RequestsOK /\ EventsOK /\ StaleHasCause

-----------------------------------------------------------------------------
LEMMA ValuesAre ==
    /\ Values["who"] = Users
    /\ Values["devices"] = SUBSET Devices
    /\ Values["usage"] = (0..MaxEdits) \X (0..MaxEdits)
  BY DEF Values

LEMMA SourceIsValue ==
    ASSUME ThingsOK, NEW c \in Cached
    PROVE  Source(c) \in Values[c]
  <1>1. user \in Users /\ devices \in SUBSET Devices /\ traffic \in 0..MaxEdits
    BY BoundsAssumption DEF ThingsOK
  <1>2. CASE c = "who"
    BY <1>1, <1>2, ValuesAre DEF Source
  <1>3. CASE c = "devices"
    BY <1>1, <1>3, ValuesAre DEF Source
  <1>4. CASE c = "usage"
    BY <1>1, <1>4, ValuesAre DEF Source
  <1>. QED
    BY <1>2, <1>3, <1>4 DEF Cached

LEMMA IdleRow ==
    /\ LocalOK(Idle) /\ LocalOK(Idle)' /\ Idle.pc = "idle"
    /\ Idle.wants = None /\ Idle.at = None /\ ~Claims(Idle)
  <1>1. /\ Idle = [pc |-> Idle.pc, wants |-> Idle.wants, at |-> Idle.at, read |-> Idle.read,
                   item |-> Idle.item, hit |-> Idle.hit, found |-> Idle.found]
        /\ Idle.pc = "idle" /\ Idle.wants = None /\ Idle.at = None
        /\ Idle.read = [c \in Cached |-> {}]
    BY DEF Idle
  <1>2. RowOK(Idle)
    BY <1>1 DEF RowOK, Pcs
  <1>3. CarriesOK(Idle)
    BY <1>1 DEF CarriesOK, None
  <1>4. HitOK(Idle) /\ IntakeOK(Idle) /\ HitOK(Idle)' /\ IntakeOK(Idle)'
    BY <1>1 DEF HitOK, IntakeOK
  <1>. QED
    BY <1>1, <1>2, <1>3, <1>4 DEF LocalOK, Claims

\* A row that has gone on keeps the rest.
LEMMA GoneOn ==
    ASSUME NEW q, RowOK(q), NEW pc \in Pcs, NEW p, p = [q EXCEPT !.pc = pc]
    PROVE  /\ RowOK(p) /\ p.pc = pc /\ p.wants = q.wants /\ p.at = q.at /\ p.read = q.read
           /\ p.item = q.item /\ p.hit = q.hit /\ p.found = q.found
  BY DEF RowOK

\* What a request knows stays true, whatever others do.
LEMMA LocalStays ==
    ASSUME LimiterTypeOK, LimiterTypeOK', NEW q, LocalOK(q),
           now <= now', DOMAIN tried \subseteq DOMAIN tried',
           \A i \in DOMAIN tried : tried'[i].allowed = tried[i].allowed,
           \A e \in Events : event[e].phase # "unused" =>
               event'[e].phase # "unused" /\ event'[e].kind = event[e].kind,
           cleared \subseteq cleared'
    PROVE  LocalOK(q)'
  <1>1. RowOK(q) /\ CarriesOK(q) /\ HitOK(q) /\ IntakeOK(q)
    BY DEF LocalOK
  <1>2. RowOK(q)' /\ CarriesOK(q)'
    BY <1>1 DEF RowOK, CarriesOK
  <1>3. HitOK(q)'
    <2>1. now \in Nat /\ now' \in Nat
      BY MaxTimeAssumption DEF LimiterTypeOK
    <2>. QED
      BY <1>1, <2>1 DEF HitOK
  <1>4. IntakeOK(q)'
    <2>1. q.pc \in {"insert", "handle", "commit"} => q.item \in Events
      BY <1>1 DEF CarriesOK
    <2>. QED
      BY <1>1, <2>1 DEF IntakeOK
  <1>. QED
    BY <1>2, <1>3, <1>4 DEF LocalOK

\* One request goes on, and what the others know stays true.
LEMMA RequestsKeep ==
    ASSUME RequestsOK, NEW r \in Requests, NEW new, LocalOK(new)',
           request' = [request EXCEPT ![r] = new],
           \A q : LocalOK(q) => LocalOK(q)'
    PROVE  /\ RequestsOK' /\ request'[r] = new
           /\ \A o \in Requests : o # r => request'[o] = request[o]
  <1>1. /\ request' = [o \in Requests |-> request'[o]] /\ request'[r] = new
        /\ \A o \in Requests : o # r => request'[o] = request[o]
    BY DEF RequestsOK
  <1>2. ASSUME NEW o \in Requests
        PROVE  LocalOK(request[o])'
    <2>1. PICK q : q = request'[o]
      OBVIOUS
    <2>2. LocalOK(q)'
      BY <1>1, <2>1 DEF RequestsOK
    <2>. QED
      BY <2>1, <2>2
  <1>. QED
    BY <1>1, <1>2 DEF RequestsOK

LEMMA RequestsStay ==
    ASSUME RequestsOK, UNCHANGED request, \A q : LocalOK(q) => LocalOK(q)'
    PROVE  RequestsOK'
  <1>1. ASSUME NEW o \in Requests
        PROVE  LocalOK(request[o])'
    <2>1. PICK q : q = request[o]
      OBVIOUS
    <2>2. LocalOK(q)'
      BY <2>1 DEF RequestsOK
    <2>. QED
      BY <2>1, <2>2
  <1>. QED
    BY <1>1 DEF RequestsOK

LEMMA CacheStays ==
    ASSUME CacheOK, UNCHANGED <<now, cache, overdue>>
    PROVE  CacheOK'
  BY DEF CacheOK

\* A step of a request that holds no claim and takes none.
LEMMA ClaimStays ==
    ASSUME ClaimOK, NEW r \in Requests, NEW new, ~Claims(new), ~Claims(request[r]),
           RequestsOK, request' = [request EXCEPT ![r] = new], UNCHANGED <<claim, stored>>
    PROVE  ClaimOK'
  <1>1. /\ request'[r] = new
        /\ \A o \in Requests : o # r => request'[o] = request[o]
    BY DEF RequestsOK
  <1>. QED
    BY <1>1 DEF ClaimOK, Claims

LEMMA EventsStay ==
    ASSUME EventsOK, UNCHANGED <<event, claim, stored, messages, cleared, strangers>>, ClaimOK'
    PROVE  EventsOK'
  BY DEF EventsOK, EventTypes, StoredOK

\* A step that changes neither a cache nor a source, of a request that is not
\* about to drop.
LEMMA CausesStay ==
    ASSUME StaleHasCause, RequestsOK, NEW r \in Requests, NEW new, request[r].pc # "drop",
           request' = [request EXCEPT ![r] = new],
           UNCHANGED <<user, devices, traffic, cache, overdue>>
    PROVE  StaleHasCause'
  <1>1. \A o \in Requests : o # r => request'[o] = request[o]
    BY DEF RequestsOK
  <1>2. ASSUME NEW c \in Cached
        PROVE  /\ AboutToDrop(c) => AboutToDrop(c)'
               /\ Source(c)' = Source(c)
    BY <1>1 DEF AboutToDrop, At, Source
  <1>. QED
    BY <1>2 DEF StaleHasCause

\* Where one request only goes on.
LEMMA OnlyGoesOn ==
    ASSUME Inv, NEW r \in Requests, NEW new, LocalOK(new), ~Claims(new),
           ~Claims(request[r]), request[r].pc # "drop",
           request' = [request EXCEPT ![r] = new],
           UNCHANGED <<now, limiter, user, known, panel, cache, webhooks, edits, overdue>>
    PROVE  Inv'
  <1>1. UNCHANGED <<now, tried, zset, goneAt, user, known, devices, traffic, cache, event, claim,
                    stored, messages, cleared, strangers, edits, overdue>>
    BY DEF limiter, panel, webhooks
  <1>2. LimiterInv'
    BY LimiterStays DEF Inv
  <1>3. ThingsOK'
    BY <1>1 DEF Inv, ThingsOK
  <1>4. CacheOK'
    BY <1>1, CacheStays DEF Inv
  <1>5. \A q : LocalOK(q) => LocalOK(q)'
    BY <1>1, <1>2, LocalStays, HitTypes DEF Inv, LimiterInv
  <1>6. RequestsOK'
    BY <1>5, RequestsKeep DEF Inv
  <1>7. EventsOK'
    BY <1>1, ClaimStays, EventsStay DEF Inv, EventsOK
  <1>8. StaleHasCause'
    BY <1>1, CausesStay DEF Inv
  <1>. QED
    BY <1>2, <1>3, <1>4, <1>6, <1>7, <1>8 DEF Inv

-----------------------------------------------------------------------------
(* Steps of a request that only goes on.                                     *)

\* To be at a step asks no more than this.
LEMMA GoesOnRow ==
    ASSUME NEW q, LocalOK(q), NEW pc \in Pcs, NEW p, p = [q EXCEPT !.pc = pc],
           CarriesOK(p), HitOK(p), IntakeOK(p)
    PROVE  LocalOK(p)
  BY GoneOn DEF LocalOK

LEMMA BeginKeeps ==
    ASSUME Inv, NEW r \in Requests, NEW wants, NEW pc \in {"get", "load", "insert"}, NEW c, NEW item,
           Begin(r, wants, pc, c, item),
           pc = "get" => c = "who" /\ wants \in {"devices", "usage", "update", "unlink"},
           wants = "update" => item \in Languages,
           pc = "insert" => item \in Events /\ event[item].phase # "unused"
    PROVE  Inv'
  <1>1. PICK new : new = [Idle EXCEPT !.wants = wants, !.pc = pc, !.at = c, !.item = item]
    OBVIOUS
  <1>2. /\ new = [pc |-> new.pc, wants |-> new.wants, at |-> new.at, read |-> new.read,
                  item |-> new.item, hit |-> new.hit, found |-> new.found]
        /\ new.pc = pc /\ new.wants = wants /\ new.at = c /\ new.item = item
        /\ new.read = [d \in Cached |-> {}]
    BY <1>1 DEF Idle
  <1>3. LocalOK(new) /\ ~Claims(new)
    BY <1>2 DEF LocalOK, RowOK, CarriesOK, HitOK, IntakeOK, Pcs, Claims
  <1>4. request[r].pc = "idle"
    BY DEF Begin, At
  <1>5. /\ request' = [request EXCEPT ![r] = new]
        /\ UNCHANGED <<now, limiter, user, known, panel, cache, webhooks, edits, overdue>>
    BY <1>1 DEF Begin
  <1>. QED
    BY <1>3, <1>4, <1>5, OnlyGoesOn DEF Claims

LEMMA StartsKeeps ==
    ASSUME Inv, NEW r \in Requests, Starts(r)
    PROVE  Inv'
  <1>1. ASSUME NEW wants \in {"devices", "usage"}, Begin(r, wants, "get", "who", None)
        PROVE  Inv'
    BY <1>1, BeginKeeps
  <1>2. ASSUME NEW l \in Languages, Begin(r, "update", "get", "who", l)
        PROVE  Inv'
    BY <1>2, BeginKeeps
  <1>3. ASSUME NEW d \in Devices, Begin(r, "unlink", "get", "who", d)
        PROVE  Inv'
    BY <1>3, BeginKeeps
  <1>4. ASSUME Begin(r, "login", "load", "who", None)
        PROVE  Inv'
    BY <1>4, BeginKeeps
  <1>5. ASSUME NEW e \in Events, event[e].phase = "sent", Begin(r, "webhook", "insert", None, e)
        PROVE  Inv'
    BY <1>5, BeginKeeps
  <1>. QED
    BY <1>1, <1>2, <1>3, <1>4, <1>5 DEF Starts

\* After the principal comes what the request wants; after that, nothing.
LEMMA AnsweredRow ==
    ASSUME Inv, NEW r \in Requests, request[r].pc \in {"get", "put"}, NEW value
    PROVE  /\ LocalOK(Answered(r, value)) /\ ~Claims(Answered(r, value))
           /\ Answered(r, value).pc # "drop"
  <1>1. PICK q : q = request[r]
    OBVIOUS
  <1>2. LocalOK(q) /\ q.pc \in {"get", "put"}
    BY <1>1 DEF Inv, RequestsOK
  <1>3. CASE Answered(r, value) = Idle
    BY <1>3, IdleRow
  <1>4. CASE Answered(r, value) # Idle
    <2>1. /\ q.at = "who" /\ Answered(r, value) = AfterWho(r, value)
          /\ q.wants \in {"devices", "usage", "update", "unlink"}
      BY <1>1, <1>2, <1>4 DEF Answered, LocalOK, CarriesOK
    <2>2. CASE q.wants = "update"
      <3>1. PICK p : p = [q EXCEPT !.pc = "update"]
        OBVIOUS
      <3>2. Answered(r, value) = p
        BY <1>1, <1>4, <2>1, <2>2, <3>1 DEF AfterWho
      <3>3. LocalOK(p) /\ p.pc = "update"
        BY <1>2, <2>1, <2>2, <3>1, GoneOn, GoesOnRow
        DEF LocalOK, CarriesOK, HitOK, IntakeOK, Pcs
      <3>. QED
        BY <3>2, <3>3 DEF Claims
    <2>3. CASE q.wants = "unlink"
      <3>1. PICK p : p = [q EXCEPT !.pc = "hit"]
        OBVIOUS
      <3>2. Answered(r, value) = p
        BY <1>1, <1>4, <2>1, <2>3, <3>1 DEF AfterWho
      <3>3. LocalOK(p) /\ p.pc = "hit"
        BY <1>2, <2>1, <2>3, <3>1, GoneOn, GoesOnRow
        DEF LocalOK, CarriesOK, HitOK, IntakeOK, Pcs
      <3>. QED
        BY <3>2, <3>3 DEF Claims
    <2>4. CASE q.wants \in {"devices", "usage"}
      <3>1. PICK p : p = [q EXCEPT !.at = q.wants, !.pc = "get"]
        OBVIOUS
      <3>2. Answered(r, value) = p
        BY <1>1, <1>4, <2>1, <2>4, <3>1 DEF AfterWho
      <3>3. /\ RowOK(p) /\ p.pc = "get" /\ p.at = q.wants /\ p.wants = q.wants
        BY <1>2, <3>1 DEF LocalOK, RowOK, Pcs
      <3>4. LocalOK(p)
        BY <2>4, <3>3 DEF LocalOK, CarriesOK, HitOK, IntakeOK
      <3>. QED
        BY <3>2, <3>3, <3>4 DEF Claims
    <2>. QED
      BY <2>1, <2>2, <2>3, <2>4
  <1>. QED
    BY <1>3, <1>4

LEMMA GetKeeps ==
    ASSUME Inv, NEW r \in Requests, Get(r)
    PROVE  Inv'
  <1>1. PICK q : q = request[r]
    OBVIOUS
  <1>2. /\ LocalOK(q) /\ q.pc = "get"
        /\ UNCHANGED <<now, limiter, user, known, panel, cache, webhooks, edits, overdue>>
    BY <1>1 DEF Inv, RequestsOK, Get, At, counters
  <1>3. ASSUME NEW value, request' = [request EXCEPT ![r] = Answered(r, value)]
        PROVE  Inv'
    BY <1>1, <1>2, <1>3, AnsweredRow, OnlyGoesOn DEF Claims
  <1>4. CASE Goes(r, "read")
    <2>1. PICK p : p = [q EXCEPT !.pc = "read"]
      OBVIOUS
    <2>2. LocalOK(p) /\ p.pc = "read"
      BY <1>2, <2>1, GoneOn, GoesOnRow DEF LocalOK, CarriesOK, HitOK, IntakeOK, Pcs
    <2>3. request' = [request EXCEPT ![r] = p]
      BY <1>1, <1>4, <2>1 DEF Goes
    <2>. QED
      BY <1>1, <1>2, <2>2, <2>3, OnlyGoesOn DEF Claims
  <1>. QED
    BY <1>3, <1>4 DEF Get

\* Nothing has changed but that the request is over.
LEMMA OverKeeps ==
    ASSUME Inv, NEW r \in Requests, ~Claims(request[r]), request[r].pc # "drop", Over(r),
           UNCHANGED <<now, limiter, user, known, panel, cache, webhooks, edits, overdue>>
    PROVE  Inv'
  BY IdleRow, OnlyGoesOn DEF Over

LEMMA ReadSourceKeeps ==
    ASSUME Inv, NEW r \in Requests, ReadSource(r)
    PROVE  Inv'
  <1>1. PICK q : q = request[r]
    OBVIOUS
  <1>2. /\ LocalOK(q) /\ q.pc = "read"
        /\ UNCHANGED <<now, limiter, user, known, panel, cache, webhooks, edits, overdue>>
    BY <1>1 DEF Inv, RequestsOK, ReadSource, At, counters
  <1>3. CASE Over(r)
    BY <1>1, <1>2, <1>3, OverKeeps DEF Claims
  <1>4. CASE request' = [request EXCEPT ![r].read[request[r].at] = {Source(request[r].at)},
                             ![r].pc = IF request[r].at = "usage" THEN "days" ELSE "put"]
    <2>1. q.at \in Cached
      BY <1>2 DEF LocalOK, CarriesOK, Cached
    <2>2. PICK pc \in {"days", "put"} : pc = IF q.at = "usage" THEN "days" ELSE "put"
      OBVIOUS
    <2>3. PICK read : read = [q.read EXCEPT ![q.at] = {Source(q.at)}]
      OBVIOUS
    <2>4. PICK p : p = [q EXCEPT !.read = read, !.pc = pc]
      OBVIOUS
    <2>5. request' = [request EXCEPT ![r] = p]
      BY <1>1, <1>4, <2>1, <2>2, <2>3, <2>4
    <2>6. /\ p = [pc |-> p.pc, wants |-> p.wants, at |-> p.at, read |-> p.read,
                  item |-> p.item, hit |-> p.hit, found |-> p.found]
          /\ p.pc = pc /\ p.at = q.at /\ p.wants = q.wants /\ p.item = q.item /\ p.read = read
      BY <1>2, <2>4 DEF LocalOK, RowOK
    <2>7. /\ read = [c \in Cached |-> read[c]]
          /\ \A c \in Cached : read[c] \subseteq Values[c]
      BY <1>2, <2>1, <2>3, SourceIsValue DEF Inv, LocalOK, RowOK
    <2>8. RowOK(p)
      BY <2>6, <2>7 DEF RowOK, Pcs
    <2>9. CarriesOK(p)
      BY <1>2, <2>2, <2>6 DEF LocalOK, CarriesOK
    <2>10. HitOK(p) /\ IntakeOK(p) /\ ~Claims(p)
      BY <2>6 DEF HitOK, IntakeOK, Claims
    <2>. QED
      BY <1>1, <1>2, <2>5, <2>8, <2>9, <2>10, OnlyGoesOn DEF LocalOK, Claims
  <1>. QED
    BY <1>3, <1>4 DEF ReadSource

LEMMA ReadDaysKeeps ==
    ASSUME Inv, NEW r \in Requests, ReadDays(r)
    PROVE  Inv'
  <1>1. PICK q : q = request[r]
    OBVIOUS
  <1>2. /\ LocalOK(q) /\ q.pc = "days"
        /\ UNCHANGED <<now, limiter, user, known, panel, cache, webhooks, edits, overdue>>
    BY <1>1 DEF Inv, RequestsOK, ReadDays, At, counters
  <1>3. CASE Over(r)
    BY <1>1, <1>2, <1>3, OverKeeps DEF Claims
  <1>4. CASE request' = [request EXCEPT ![r].pc = "put",
                             ![r].read["usage"] = {<<read[1], traffic>> : read \in @}]
    <2>1. PICK sums : sums = {<<read[1], traffic>> : read \in q.read["usage"]}
      OBVIOUS
    <2>2. PICK read : read = [q.read EXCEPT !["usage"] = sums]
      OBVIOUS
    <2>3. PICK p : p = [q EXCEPT !.pc = "put", !.read = read]
      OBVIOUS
    <2>4. request' = [request EXCEPT ![r] = p]
      BY <1>1, <1>4, <2>1, <2>2, <2>3
    <2>5. sums \subseteq Values["usage"]
      <3>1. q.read["usage"] \subseteq (0..MaxEdits) \X (0..MaxEdits)
        BY <1>2, ValuesAre DEF LocalOK, RowOK, Cached
      <3>2. traffic \in 0..MaxEdits
        BY BoundsAssumption DEF Inv, ThingsOK
      <3>. QED
        BY <2>1, <3>1, <3>2, ValuesAre
    <2>6. /\ p = [pc |-> p.pc, wants |-> p.wants, at |-> p.at, read |-> p.read,
                  item |-> p.item, hit |-> p.hit, found |-> p.found]
          /\ p.pc = "put" /\ p.at = q.at /\ p.wants = q.wants /\ p.item = q.item /\ p.read = read
      BY <1>2, <2>3 DEF LocalOK, RowOK
    <2>7. /\ read = [c \in Cached |-> read[c]]
          /\ \A c \in Cached : read[c] \subseteq Values[c]
      BY <1>2, <2>2, <2>5 DEF LocalOK, RowOK, Cached
    <2>8. RowOK(p)
      BY <2>6, <2>7 DEF RowOK, Pcs
    <2>9. CarriesOK(p)
      BY <1>2, <2>6 DEF LocalOK, CarriesOK
    <2>10. HitOK(p) /\ IntakeOK(p) /\ ~Claims(p)
      BY <2>6 DEF HitOK, IntakeOK, Claims
    <2>. QED
      BY <1>1, <1>2, <2>4, <2>8, <2>9, <2>10, OnlyGoesOn DEF LocalOK, Claims
  <1>. QED
    BY <1>3, <1>4 DEF ReadDays

LEMMA LoadForLoginKeeps ==
    ASSUME Inv, NEW r \in Requests, LoadForLogin(r)
    PROVE  Inv'
  <1>1. PICK q : q = request[r]
    OBVIOUS
  <1>2. /\ LocalOK(q) /\ q.pc = "load"
        /\ UNCHANGED <<now, limiter, user, known, panel, cache, webhooks, edits, overdue>>
    BY <1>1 DEF Inv, RequestsOK, LoadForLogin, At, counters
  <1>3. CASE Over(r)
    BY <1>1, <1>2, <1>3, OverKeeps DEF Claims
  <1>4. CASE Goes(r, "promote")
    <2>1. PICK p : p = [q EXCEPT !.pc = "promote"]
      OBVIOUS
    <2>2. LocalOK(p) /\ p.pc = "promote"
      BY <1>2, <2>1, GoneOn, GoesOnRow DEF LocalOK, CarriesOK, HitOK, IntakeOK, Pcs
    <2>3. request' = [request EXCEPT ![r] = p]
      BY <1>1, <1>4, <2>1 DEF Goes
    <2>. QED
      BY <1>1, <1>2, <2>2, <2>3, OnlyGoesOn DEF Claims
  <1>. QED
    BY <1>3, <1>4 DEF LoadForLogin

LEMMA TakeMomentKeeps ==
    ASSUME Inv, NEW r \in Requests, TakeMoment(r)
    PROVE  Inv'
  <1>1. PICK q : q = request[r]
    OBVIOUS
  <1>2. /\ LocalOK(q) /\ q.pc = "hit"
        /\ UNCHANGED <<now, limiter, user, known, panel, cache, webhooks, edits, overdue>>
    BY <1>1 DEF Inv, RequestsOK, TakeMoment, At, counters
  <1>3. PICK p : p = [q EXCEPT !.pc = "pipeline", !.hit = now]
    OBVIOUS
  <1>4. request' = [request EXCEPT ![r] = p]
    BY <1>1, <1>3 DEF TakeMoment
  <1>5. /\ RowOK(p) /\ p.pc = "pipeline" /\ p.wants = q.wants /\ p.item = q.item /\ p.hit = now
    BY <1>2, <1>3 DEF LocalOK, RowOK, Pcs
  <1>6. now \in 0..now
    BY HitTypes DEF Inv, LimiterInv
  <1>7. LocalOK(p)
    BY <1>2, <1>5, <1>6 DEF LocalOK, CarriesOK, HitOK, IntakeOK
  <1>. QED
    BY <1>1, <1>2, <1>4, <1>5, <1>7, OnlyGoesOn DEF Claims

LEMMA DeleteFailsKeeps ==
    ASSUME Inv, NEW r \in Requests, DeleteFails(r)
    PROVE  Inv'
  BY OverKeeps DEF DeleteFails, At, counters, Claims

-----------------------------------------------------------------------------
(* Steps that change a cache, or what is behind it.                          *)

LEMMA SourcesAre ==
    /\ Source("who") = user
    /\ Source("devices") = devices
    /\ Source("usage") = <<traffic, traffic>>
  BY DEF Source

LEMMA SourcesStay ==
    /\ user' = user => Source("who")' = Source("who")
    /\ devices' = devices => Source("devices")' = Source("devices")
    /\ traffic' = traffic => Source("usage")' = Source("usage")
  BY DEF Source

LEMMA LivesAre ==
    \A c \in Cached : TTL(c) \in Nat /\ TTL(c) > 0
  BY TTLAssumption DEF TTL

\* The caches are in order; the limiter and the webhooks are left alone.
LEMMA CacheStep ==
    ASSUME Inv, NEW r \in Requests, NEW new, LocalOK(new), ~Claims(new), ~Claims(request[r]),
           request' = [request EXCEPT ![r] = new], UNCHANGED <<now, limiter, webhooks>>,
           ThingsOK', CacheOK', StaleHasCause'
    PROVE  Inv'
  <1>1. UNCHANGED <<now, tried, zset, goneAt, event, claim, stored, messages, cleared, strangers>>
    BY DEF limiter, webhooks
  <1>2. LimiterInv'
    BY LimiterStays DEF Inv
  <1>3. \A q : LocalOK(q) => LocalOK(q)'
    BY <1>1, <1>2, LocalStays, HitTypes DEF Inv, LimiterInv
  <1>4. RequestsOK'
    BY <1>3, RequestsKeep DEF Inv
  <1>5. EventsOK'
    BY <1>1, ClaimStays, EventsStay DEF Inv, EventsOK
  <1>. QED
    BY <1>2, <1>4, <1>5 DEF Inv

\* The same for what no request does.
LEMMA WorldStep ==
    ASSUME Inv, UNCHANGED <<now, limiter, request, webhooks>>, ThingsOK', CacheOK', StaleHasCause'
    PROVE  Inv'
  <1>1. UNCHANGED <<now, tried, zset, goneAt, request, event, claim, stored, messages, cleared,
                    strangers>>
    BY DEF limiter, webhooks
  <1>2. LimiterInv'
    BY LimiterStays DEF Inv
  <1>3. \A q : LocalOK(q) => LocalOK(q)'
    BY <1>1, <1>2, LocalStays, HitTypes DEF Inv, LimiterInv
  <1>4. RequestsOK'
    BY <1>1, <1>3, RequestsStay DEF Inv
  <1>5. EventsOK'
    BY <1>1, EventsStay DEF Inv, EventsOK, ClaimOK, Claims
  <1>. QED
    BY <1>2, <1>4, <1>5 DEF Inv

\* What may be put: not out of date, unless it says so.
Fits(entry, c) ==
    /\ entry.value \in Values[c] /\ entry.until \in now + 1..now + TTL(c)
    /\ entry.value # Source(c) => entry.late
    /\ c = "usage" /\ entry.value[1] # entry.value[2] => entry.late

\* A cache that is set or dropped settles what was owed to it.
LEMMA Settles ==
    ASSUME CacheOK, StaleHasCause, NEW d \in Cached, NEW S, cache' = [cache EXCEPT ![d] = S],
           Settle(d), UNCHANGED <<now, user, devices, traffic>>,
           \A entry \in S : Fits(entry, d),
           \A c \in Cached : c # d /\ AboutToDrop(c) => AboutToDrop(c)'
    PROVE  CacheOK' /\ StaleHasCause'
  <1>1. /\ cache' = [c \in Cached |-> cache'[c]] /\ cache'[d] = S
        /\ \A c \in Cached : c # d => cache'[c] = cache[c]
    BY DEF CacheOK
  <1>2. overdue' \subseteq overdue /\ \A o \in overdue : o[1] # d => o \in overdue'
    BY DEF Settle
  <1>3. CacheOK'
    <2>1. overdue' \subseteq Cached \X Reasons
      BY <1>2 DEF CacheOK
    <2>2. ASSUME NEW c \in Cached, NEW entry \in cache'[c]
          PROVE  entry.value \in Values[c] /\ entry.until \in now + 1..now + TTL(c)
      <3>1. CASE c = d
        BY <1>1, <2>2, <3>1 DEF Fits
      <3>2. CASE c # d
        BY <1>1, <2>2, <3>2 DEF CacheOK
      <3>. QED
        BY <3>1, <3>2
    <2>. QED
      BY <1>1, <2>1, <2>2 DEF CacheOK, TTL
  <1>4. \A c \in Cached : Source(c)' = Source(c)
    BY DEF Source
  <1>5. ASSUME NEW c \in Cached, NEW entry \in cache'[c]
        PROVE  /\ entry.value # Source(c) =>
                    \/ entry.late
                    \/ AboutToDrop(c)'
                    \/ \E why \in Reasons : <<c, why>> \in overdue'
               /\ c = "usage" /\ entry.value[1] # entry.value[2] => entry.late
    <2>1. CASE c = d
      BY <1>1, <1>5, <2>1 DEF Fits
    <2>2. CASE c # d
      <3>1. entry \in cache[c]
        BY <1>1, <1>5, <2>2
      <3>2. \A why : <<c, why>> \in overdue => <<c, why>> \in overdue'
        BY <1>2, <2>2
      <3>. QED
        BY <2>2, <3>1, <3>2 DEF StaleHasCause
    <2>. QED
      BY <2>1, <2>2
  <1>6. StaleHasCause'
    BY <1>4, <1>5 DEF StaleHasCause
  <1>. QED
    BY <1>3, <1>6

LEMMA DropSettles ==
    ASSUME CacheOK, StaleHasCause, NEW d \in Cached, cache' = [cache EXCEPT ![d] = {}],
           Settle(d), UNCHANGED <<now, user, devices, traffic>>,
           \A c \in Cached : c # d /\ AboutToDrop(c) => AboutToDrop(c)'
    PROVE  CacheOK' /\ StaleHasCause'
  <1>1. PICK S : S = {}
    OBVIOUS
  <1>2. cache' = [cache EXCEPT ![d] = S] /\ \A entry \in S : Fits(entry, d)
    BY <1>1
  <1>. QED
    BY <1>2, Settles

\* What is owed explains what is stale.
LEMMA Owes ==
    ASSUME CacheOK, StaleHasCause, NEW d \in Cached, NEW why \in Reasons, Owe(d, why),
           UNCHANGED <<now, cache>>,
           \A c \in Cached : c # d => Source(c)' = Source(c) /\ (AboutToDrop(c) => AboutToDrop(c)')
    PROVE  CacheOK' /\ StaleHasCause'
  <1>1. overdue \subseteq overdue' /\ <<d, why>> \in overdue' /\ overdue' \subseteq Cached \X Reasons
    BY DEF Owe, CacheOK
  <1>2. CacheOK'
    BY <1>1 DEF CacheOK
  <1>3. ASSUME NEW c \in Cached, NEW entry \in cache[c]
        PROVE  /\ entry.value # Source(c)' =>
                    \/ entry.late
                    \/ AboutToDrop(c)'
                    \/ \E w \in Reasons : <<c, w>> \in overdue'
               /\ c = "usage" /\ entry.value[1] # entry.value[2] => entry.late
    <2>1. CASE c = d
      BY <1>1, <1>3, <2>1 DEF StaleHasCause
    <2>2. CASE c # d
      BY <1>1, <1>3, <2>2 DEF StaleHasCause
    <2>. QED
      BY <2>1, <2>2
  <1>4. StaleHasCause'
    BY <1>3 DEF StaleHasCause
  <1>. QED
    BY <1>2, <1>4

\* Who was about to drop still is, but for the one that goes on.
LEMMA StillAbout ==
    ASSUME RequestsOK, NEW r \in Requests, NEW new, request' = [request EXCEPT ![r] = new],
           NEW c, request[r].pc # "drop" \/ request[r].at # c, AboutToDrop(c)
    PROVE  AboutToDrop(c)'
  BY DEF RequestsOK, AboutToDrop, At

\* Who is about to drop explains what is stale.
LEMMA DropIsDue ==
    ASSUME StaleHasCause, NEW d \in Cached, AboutToDrop(d)', UNCHANGED <<cache, overdue>>,
           \A c \in Cached : c # d => Source(c)' = Source(c) /\ (AboutToDrop(c) => AboutToDrop(c)')
    PROVE  StaleHasCause'
  <1>1. ASSUME NEW c \in Cached, NEW entry \in cache[c]
        PROVE  /\ entry.value # Source(c)' =>
                    \/ entry.late
                    \/ AboutToDrop(c)'
                    \/ \E why \in Reasons : <<c, why>> \in overdue
               /\ c = "usage" /\ entry.value[1] # entry.value[2] => entry.late
    <2>1. CASE c = d
      BY <2>1 DEF StaleHasCause
    <2>2. CASE c # d
      BY <2>2 DEF StaleHasCause
    <2>. QED
      BY <2>1, <2>2
  <1>. QED
    BY <1>1 DEF StaleHasCause

LEMMA PutKeeps ==
    ASSUME Inv, NEW r \in Requests, Put(r)
    PROVE  Inv'
  <1>1. PICK q : q = request[r]
    OBVIOUS
  <1>2. LocalOK(q) /\ q.pc = "put" /\ q.at \in Cached
    BY <1>1 DEF Inv, RequestsOK, Put, At, LocalOK, CarriesOK, Cached
  <1>3. PICK value \in q.read[q.at] :
            /\ cache' = [cache EXCEPT ![q.at] = {Entry(q.at, value)}]
            /\ Settle(q.at)
            /\ request' = [request EXCEPT ![r] = Answered(r, value)]
    BY <1>1 DEF Put
  <1>4. UNCHANGED <<now, tried, zset, goneAt, user, known, devices, traffic, edits, limiter, webhooks>>
    BY DEF Put, limiter, panel, webhooks, counters
  <1>5. PICK entry : entry = Entry(q.at, value)
    OBVIOUS
  <1>6. /\ entry.value = value /\ entry.until = now + TTL(q.at)
        /\ entry.late <=> value # Source(q.at)
    BY <1>5 DEF Entry
  <1>7. entry.value \in Values[q.at] /\ entry.until \in now + 1..now + TTL(q.at)
    <2>1. value \in Values[q.at]
      BY <1>2, <1>3 DEF LocalOK, RowOK
    <2>2. now + TTL(q.at) \in now + 1..now + TTL(q.at)
      BY <1>2, LivesAre, HitTypes DEF Inv, LimiterInv
    <2>. QED
      BY <1>6, <2>1, <2>2
  <1>8. q.at = "usage" /\ entry.value[1] # entry.value[2] => entry.late
    <2>1. SUFFICES ASSUME q.at = "usage", entry.value[1] # entry.value[2]
                   PROVE  entry.late
      OBVIOUS
    <2>2. Source(q.at) = <<traffic, traffic>>
      BY <2>1, SourcesAre
    <2>3. value # <<traffic, traffic>>
      BY <1>6, <2>1
    <2>. QED
      BY <1>6, <2>2, <2>3
  <1>9. \A c \in Cached : AboutToDrop(c) => AboutToDrop(c)'
    BY <1>1, <1>2, <1>3, StillAbout DEF Inv
  <1>10. CacheOK' /\ StaleHasCause'
    <2>1. \A x \in {entry} : Fits(x, q.at)
      BY <1>6, <1>7, <1>8 DEF Fits
    <2>2. CacheOK /\ StaleHasCause
      BY DEF Inv
    <2>3. UNCHANGED <<now, user, devices, traffic>>
      BY <1>4
    <2>4. cache' = [cache EXCEPT ![q.at] = {entry}]
      BY <1>3, <1>5
    <2>. QED
      BY <1>2, <1>3, <1>9, <2>1, <2>2, <2>3, <2>4, Settles
  <1>11. ThingsOK'
    BY <1>4 DEF Inv, ThingsOK
  <1>. QED
    BY <1>1, <1>2, <1>3, <1>4, <1>10, <1>11, AnsweredRow, CacheStep DEF Claims

LEMMA DropKeeps ==
    ASSUME Inv, NEW r \in Requests, Drop(r)
    PROVE  Inv'
  <1>1. PICK q : q = request[r]
    OBVIOUS
  <1>2. LocalOK(q) /\ q.pc = "drop" /\ q.at \in Cached
    BY <1>1 DEF Inv, RequestsOK, Drop, At, LocalOK, CarriesOK
  <1>3. /\ cache' = [cache EXCEPT ![q.at] = {}] /\ Settle(q.at)
        /\ request' = [request EXCEPT ![r] = Idle]
        /\ UNCHANGED <<now, user, known, devices, traffic, edits, limiter, webhooks>>
    BY <1>1 DEF Drop, Dropped, Over, panel, counters
  <1>4. \A c \in Cached : c # q.at /\ AboutToDrop(c) => AboutToDrop(c)'
    BY <1>1, <1>3, StillAbout DEF Inv
  <1>5. CacheOK' /\ StaleHasCause'
    <2>1. CacheOK /\ StaleHasCause
      BY DEF Inv
    <2>2. UNCHANGED <<now, user, devices, traffic>>
      BY <1>3
    <2>. QED
      BY <1>2, <1>3, <1>4, <2>1, <2>2, DropSettles
  <1>6. ThingsOK'
    BY <1>3 DEF Inv, ThingsOK
  <1>. QED
    BY <1>1, <1>2, <1>3, <1>5, <1>6, IdleRow, CacheStep DEF Claims

LEMMA UpdateCommitsKeeps ==
    ASSUME Inv, NEW r \in Requests, UpdateCommits(r)
    PROVE  Inv'
  <1>1. PICK q : q = request[r]
    OBVIOUS
  <1>2. LocalOK(q) /\ q.pc = "update" /\ q.at = "who" /\ q.item \in Languages
    BY <1>1 DEF Inv, RequestsOK, UpdateCommits, At, LocalOK, CarriesOK
  <1>3. PICK p : p = [q EXCEPT !.pc = "drop"]
    OBVIOUS
  <1>4. LocalOK(p) /\ p.pc = "drop" /\ p.at = "who"
    BY <1>2, <1>3, GoneOn, GoesOnRow DEF LocalOK, CarriesOK, HitOK, IntakeOK, Pcs, Cached
  <1>5. /\ user' = [user EXCEPT !.language = q.item] /\ request' = [request EXCEPT ![r] = p]
        /\ UNCHANGED <<now, known, devices, traffic, edits, cache, overdue, limiter, webhooks>>
    BY <1>1, <1>3 DEF UpdateCommits, Goes, panel, counters
  <1>6. ThingsOK'
    <2>1. user' \in Users
      BY <1>2, <1>5 DEF Inv, ThingsOK, Users
    <2>. QED
      BY <1>5, <2>1 DEF Inv, ThingsOK
  <1>7. CacheOK'
    BY <1>5, CacheStays DEF Inv
  <1>8. StaleHasCause'
    <2>1. AboutToDrop("who")'
      BY <1>4, <1>5 DEF Inv, RequestsOK, AboutToDrop, At
    <2>2. \A c \in Cached : c # "who" => Source(c)' = Source(c) /\ (AboutToDrop(c) => AboutToDrop(c)')
      BY <1>1, <1>2, <1>5, StillAbout, SourcesStay DEF Inv, Cached
    <2>3. "who" \in Cached /\ StaleHasCause
      BY DEF Inv, Cached
    <2>. QED
      BY <1>5, <2>1, <2>2, <2>3, DropIsDue
  <1>. QED
    BY <1>1, <1>2, <1>4, <1>5, <1>6, <1>7, <1>8, CacheStep DEF Claims

LEMMA PromoteKeeps ==
    ASSUME Inv, NEW r \in Requests, Promote(r)
    PROVE  Inv'
  <1>1. PICK q : q = request[r]
    OBVIOUS
  <1>2. LocalOK(q) /\ q.pc = "promote"
    BY <1>1 DEF Inv, RequestsOK, Promote, At
  <1>3. PICK p : p = [q EXCEPT !.pc = "issue"]
    OBVIOUS
  <1>4. LocalOK(p) /\ p.pc = "issue"
    BY <1>2, <1>3, GoneOn, GoesOnRow DEF LocalOK, CarriesOK, HitOK, IntakeOK, Pcs
  <1>5. /\ cache' = [cache EXCEPT !["who"] = {}] /\ Settle("who")
        /\ request' = [request EXCEPT ![r] = p]
        /\ UNCHANGED <<now, user, known, devices, traffic, edits, limiter, webhooks>>
    BY <1>1, <1>3 DEF Promote, Goes, Dropped, panel, counters
  <1>6. \A c \in Cached : AboutToDrop(c) => AboutToDrop(c)'
    BY <1>1, <1>2, <1>5, StillAbout DEF Inv
  <1>7. CacheOK' /\ StaleHasCause'
    <2>1. CacheOK /\ StaleHasCause /\ "who" \in Cached
      BY DEF Inv, Cached
    <2>2. UNCHANGED <<now, user, devices, traffic>>
      BY <1>5
    <2>. QED
      BY <1>5, <1>6, <2>1, <2>2, DropSettles
  <1>8. ThingsOK'
    BY <1>5 DEF Inv, ThingsOK
  <1>. QED
    BY <1>1, <1>2, <1>4, <1>5, <1>7, <1>8, CacheStep DEF Claims

LEMMA IssueCommitsKeeps ==
    ASSUME Inv, NEW r \in Requests, IssueCommits(r)
    PROVE  Inv'
  <1>1. /\ user' = [user EXCEPT !.role = "admin"] /\ Owe("who", "promotion")
        /\ request[r].pc = "issue" /\ request' = [request EXCEPT ![r] = Idle]
        /\ UNCHANGED <<now, known, devices, traffic, edits, cache, limiter, webhooks>>
    BY DEF IssueCommits, At, Over, panel, counters
  <1>2. ThingsOK'
    <2>1. user' \in Users
      BY <1>1 DEF Inv, ThingsOK, Users
    <2>. QED
      BY <1>1, <2>1 DEF Inv, ThingsOK
  <1>3. \A c \in Cached : c # "who" => Source(c)' = Source(c) /\ (AboutToDrop(c) => AboutToDrop(c)')
    BY <1>1, StillAbout, SourcesStay DEF Inv, Cached
  <1>4. CacheOK' /\ StaleHasCause'
    BY <1>1, <1>3, Owes DEF Inv, Cached, Reasons
  <1>. QED
    BY <1>1, <1>2, <1>4, IdleRow, CacheStep DEF Claims

-----------------------------------------------------------------------------
(* Steps of the limiter and of the intake of webhooks.                       *)

\* The set of the limiter changes; the caches and the webhooks do not.
LEMMA LimiterStep ==
    ASSUME Inv, LimiterInv', NEW r \in Requests, NEW new, LocalOK(new)', ~Claims(new),
           ~Claims(request[r]), request[r].pc # "drop", request' = [request EXCEPT ![r] = new],
           DOMAIN tried \subseteq DOMAIN tried',
           \A i \in DOMAIN tried : tried'[i].allowed = tried[i].allowed,
           UNCHANGED <<now, user, known, panel, cache, webhooks, edits, overdue>>
    PROVE  Inv'
  <1>1. UNCHANGED <<now, user, known, devices, traffic, cache, event, claim, stored, messages,
                    cleared, strangers, edits, overdue>>
    BY DEF panel, webhooks
  <1>2. ThingsOK' /\ CacheOK'
    BY <1>1, CacheStays DEF Inv, ThingsOK
  <1>3. \A q : LocalOK(q) => LocalOK(q)'
    BY <1>1, LocalStays, HitTypes DEF Inv, LimiterInv
  <1>4. RequestsOK'
    BY <1>3, RequestsKeep DEF Inv
  <1>5. EventsOK'
    BY <1>1, ClaimStays, EventsStay DEF Inv, EventsOK
  <1>6. StaleHasCause'
    BY <1>1, CausesStay DEF Inv
  <1>. QED
    BY <1>2, <1>4, <1>5, <1>6 DEF Inv

LEMMA HitKeeps ==
    ASSUME Inv, NEW r \in Requests, Hit(r)
    PROVE  Inv'
  <1>1. PICK q : q = request[r]
    OBVIOUS
  <1>2. LocalOK(q) /\ q.pc = "pipeline" /\ q.hit \in 0..now
    BY <1>1 DEF Inv, RequestsOK, Hit, At, LocalOK, HitOK
  <1>3. /\ Pipeline(q.hit)
        /\ UNCHANGED <<now, user, known, panel, cache, webhooks, edits, overdue>>
    BY <1>1 DEF Hit, counters
  <1>4. LimiterTypeOK
    BY DEF Inv, LimiterInv
  <1>5. LimiterInv'
    BY <1>2, <1>3, PipelineKeeps DEF Inv
  <1>6. /\ DOMAIN tried \subseteq DOMAIN tried'
        /\ \A i \in DOMAIN tried : tried'[i].allowed = tried[i].allowed
    BY <1>2, <1>3, <1>4, PipelineRows
  <1>7. CASE ~Allowed(q.hit)
    <2>1. PICK p : p = [q EXCEPT !.pc = "tell", !.hit = Len(tried) + 1]
      OBVIOUS
    <2>2. request' = [request EXCEPT ![r] = p]
      BY <1>1, <1>7, <2>1 DEF Hit
    <2>3. /\ RowOK(p) /\ p.pc = "tell" /\ p.wants = q.wants /\ p.item = q.item
          /\ p.hit = Len(tried) + 1
      BY <1>2, <2>1 DEF LocalOK, RowOK, Pcs
    <2>4. p.hit \in DOMAIN tried' /\ ~tried'[p.hit].allowed
      BY <1>2, <1>3, <1>4, <1>7, <2>3, HitTypes, PipelineRows
    <2>5. RowOK(p)' /\ CarriesOK(p)'
      BY <1>2, <2>3 DEF LocalOK, RowOK, CarriesOK
    <2>6. HitOK(p)' /\ IntakeOK(p)'
      BY <2>3, <2>4 DEF HitOK, IntakeOK
    <2>. QED
      BY <1>1, <1>2, <1>3, <1>5, <1>6, <2>2, <2>3, <2>5, <2>6, LimiterStep DEF LocalOK, Claims
  <1>8. CASE Allowed(q.hit) /\ Context
    <2>1. PICK p : p = [q EXCEPT !.pc = "delete", !.at = "devices"]
      OBVIOUS
    <2>2. request' = [request EXCEPT ![r] = p]
      BY <1>1, <1>8, <2>1 DEF Hit
    <2>3. /\ RowOK(p) /\ p.pc = "delete" /\ p.at = "devices" /\ p.wants = q.wants
          /\ p.item = q.item
      BY <1>2, <2>1 DEF LocalOK, RowOK, Pcs
    <2>4. RowOK(p)' /\ CarriesOK(p)' /\ HitOK(p)' /\ IntakeOK(p)'
      BY <1>2, <2>3 DEF LocalOK, RowOK, CarriesOK, HitOK, IntakeOK
    <2>. QED
      BY <1>1, <1>2, <1>3, <1>5, <1>6, <2>2, <2>3, <2>4, LimiterStep DEF LocalOK, Claims
  <1>9. CASE Allowed(q.hit) /\ ~Context
    <2>1. request' = [request EXCEPT ![r] = Idle]
      BY <1>1, <1>9 DEF Hit
    <2>. QED
      BY <1>1, <1>2, <1>3, <1>5, <1>6, <2>1, IdleRow, LimiterStep DEF Claims
  <1>. QED
    BY <1>7, <1>8, <1>9

LEMMA RefusedKeeps ==
    ASSUME Inv, NEW r \in Requests, Refused(r)
    PROVE  Inv'
  <1>1. PICK i : i = request[r].hit
    OBVIOUS
  <1>2. request[r].pc = "tell" /\ i \in DOMAIN tried /\ ~tried[i].allowed
    BY <1>1 DEF Inv, RequestsOK, Refused, At, LocalOK, HitOK
  <1>3. /\ Tell(i) /\ request' = [request EXCEPT ![r] = Idle]
        /\ UNCHANGED <<now, user, known, panel, cache, webhooks, edits, overdue>>
    BY <1>1 DEF Refused, Over, counters
  <1>4. LimiterInv'
    BY <1>2, <1>3, TellKeeps DEF Inv
  <1>5. /\ DOMAIN tried \subseteq DOMAIN tried'
        /\ \A k \in DOMAIN tried : tried'[k].allowed = tried[k].allowed
    BY <1>2, <1>3, TellRows DEF Inv, LimiterInv
  <1>. QED
    BY <1>2, <1>3, <1>4, <1>5, IdleRow, LimiterStep DEF Claims

\* A row of an event that was sent says what it is about.
LEMMA EventRowsAre ==
    ASSUME EventTypes, NEW e \in Events
    PROVE  /\ event[e] \in EventRows
           /\ event[e].phase \in {"unused", "sent", "acked"}
           /\ event[e].phase # "unused" =>
                 /\ event[e].kind \in {"user", "devices"}
                 /\ [event[e] EXCEPT !.phase = "acked"] \in EventRows
  BY DEF EventTypes, EventRows

\* An event that is sent was unused, and nothing follows from it yet.
LEMMA EmitsKeeps ==
    ASSUME EventTypes, StoredOK, NEW kind \in {"user", "devices"}, Emits(kind),
           UNCHANGED <<claim, stored, messages, cleared, strangers>>
    PROVE  /\ EventTypes' /\ StoredOK'
           /\ \A e \in Events : event[e].phase # "unused" => event'[e] = event[e]
  <1>1. CASE UNCHANGED event
    BY <1>1 DEF EventTypes, StoredOK
  <1>2. CASE \E e \in Events : /\ event[e].phase = "unused"
                               /\ event' = [event EXCEPT ![e] = [kind |-> kind, phase |-> "sent"]]
    <2>1. PICK e \in Events : /\ event[e].phase = "unused"
                              /\ event' = [event EXCEPT ![e] = [kind |-> kind, phase |-> "sent"]]
      BY <1>2
    <2>2. PICK row : row = [kind |-> kind, phase |-> "sent"]
      OBVIOUS
    <2>3. row \in EventRows /\ row.phase = "sent"
      BY <2>2 DEF EventRows
    <2>4. event' = [event EXCEPT ![e] = row]
      BY <2>1, <2>2
    <2>5. /\ event' \in [Events -> EventRows] /\ event'[e] = row
          /\ \A o \in Events : o # e => event'[o] = event[o]
      BY <2>3, <2>4 DEF EventTypes
    <2>6. EventTypes'
      BY <2>5 DEF EventTypes
    <2>7. e \notin stored
      BY <2>1 DEF StoredOK
    <2>8. StoredOK'
      BY <2>3, <2>5, <2>7 DEF StoredOK
    <2>. QED
      BY <2>1, <2>5, <2>6, <2>8
  <1>. QED
    BY <1>1, <1>2 DEF Emits

\* The panel does something and may send a webhook about it; the request that
\* has asked it to, if one has, goes on.
LEMMA PanelStep ==
    ASSUME Inv, NEW kind \in {"user", "devices"}, Emits(kind),
           UNCHANGED <<now, limiter, claim, stored, messages, cleared, strangers>>,
           ThingsOK', CacheOK', StaleHasCause',
           \/ UNCHANGED request
           \/ \E r \in Requests : \E new :
                  /\ LocalOK(new) /\ ~Claims(new) /\ ~Claims(request[r])
                  /\ request' = [request EXCEPT ![r] = new]
    PROVE  Inv'
  <1>1. UNCHANGED <<now, tried, zset, goneAt, claim, stored, messages, cleared, strangers>>
    BY DEF limiter
  <1>2. LimiterInv'
    BY LimiterStays DEF Inv
  <1>3. /\ EventTypes' /\ StoredOK'
        /\ \A e \in Events : event[e].phase # "unused" => event'[e] = event[e]
    BY <1>1, EmitsKeeps DEF Inv, EventsOK
  <1>4. \A q : LocalOK(q) => LocalOK(q)'
    BY <1>1, <1>2, <1>3, LocalStays, HitTypes DEF Inv, LimiterInv
  <1>5. RequestsOK' /\ ClaimOK'
    <2>1. CASE UNCHANGED request
      BY <1>1, <1>4, <2>1, RequestsStay DEF Inv, EventsOK, ClaimOK
    <2>2. CASE \E r \in Requests : \E new :
                  /\ LocalOK(new) /\ ~Claims(new) /\ ~Claims(request[r])
                  /\ request' = [request EXCEPT ![r] = new]
      <3>0. PICK r \in Requests : \E new :
                  /\ LocalOK(new) /\ ~Claims(new) /\ ~Claims(request[r])
                  /\ request' = [request EXCEPT ![r] = new]
        BY <2>2
      <3>1. PICK new : /\ LocalOK(new) /\ ~Claims(new) /\ ~Claims(request[r])
                       /\ request' = [request EXCEPT ![r] = new]
        BY <3>0
      <3>2. RequestsOK'
        BY <1>4, <3>1, RequestsKeep DEF Inv
      <3>3. ClaimOK'
        BY <1>1, <3>1, ClaimStays DEF Inv, EventsOK
      <3>. QED
        BY <3>2, <3>3
    <2>. QED
      BY <2>1, <2>2
  <1>. QED
    BY <1>2, <1>3, <1>5 DEF Inv, EventsOK

LEMMA DeleteKeeps ==
    ASSUME Inv, NEW r \in Requests, Delete(r)
    PROVE  Inv'
  <1>1. PICK q : q = request[r]
    OBVIOUS
  <1>2. LocalOK(q) /\ q.pc = "delete" /\ q.at = "devices"
    BY <1>1 DEF Inv, RequestsOK, Delete, At, LocalOK, CarriesOK
  <1>3. /\ devices' = devices \ {q.item} /\ Emits("devices")
        /\ UNCHANGED <<now, limiter, user, known, traffic, cache, claim, stored, messages,
                       cleared, strangers, edits>>
    BY <1>1 DEF Delete, counters
  <1>4. ThingsOK'
    BY <1>3 DEF Inv, ThingsOK
  <1>5. /\ "devices" \in Cached /\ "no answer" \in Reasons
        /\ \A c \in Cached : c # "devices" => Source(c)' = Source(c)
    BY <1>3, SourcesStay DEF Cached, Reasons
  <1>6. CASE Goes(r, "drop") /\ UNCHANGED overdue
    <2>1. PICK p : p = [q EXCEPT !.pc = "drop"]
      OBVIOUS
    <2>2. LocalOK(p) /\ p.pc = "drop" /\ p.at = "devices"
      BY <1>2, <2>1, GoneOn, GoesOnRow DEF LocalOK, CarriesOK, HitOK, IntakeOK, Pcs, Cached
    <2>3. request' = [request EXCEPT ![r] = p]
      BY <1>1, <1>6, <2>1 DEF Goes
    <2>4. AboutToDrop("devices")'
      BY <2>2, <2>3 DEF Inv, RequestsOK, AboutToDrop, At
    <2>5. \A c \in Cached : AboutToDrop(c) => AboutToDrop(c)'
      BY <1>1, <1>2, <2>3, StillAbout DEF Inv
    <2>6. CacheOK'
      BY <1>3, <1>6, CacheStays DEF Inv
    <2>7. StaleHasCause /\ UNCHANGED <<cache, overdue>>
      BY <1>3, <1>6 DEF Inv
    <2>8. StaleHasCause'
      BY <1>5, <2>4, <2>5, <2>7, DropIsDue
    <2>9. ~Claims(p) /\ ~Claims(request[r])
      BY <1>1, <1>2, <2>2 DEF Claims
    <2>. QED
      BY <1>3, <1>4, <2>2, <2>3, <2>6, <2>8, <2>9, PanelStep
  <1>7. CASE Owe("devices", "no answer") /\ UNCHANGED request
    <2>1. \A c \in Cached : AboutToDrop(c) => AboutToDrop(c)'
      BY <1>7 DEF AboutToDrop, At
    <2>2. CacheOK' /\ StaleHasCause'
      BY <1>3, <1>5, <1>7, <2>1, Owes DEF Inv
    <2>. QED
      BY <1>3, <1>4, <1>7, <2>2, PanelStep
  <1>. QED
    BY <1>6, <1>7 DEF Delete

\* A webhook changes an event, and what is known of the others stays.
LEMMA IntakeStep ==
    ASSUME Inv, NEW r \in Requests, NEW new, LocalOK(new)',
           request' = [request EXCEPT ![r] = new], UNCHANGED <<now, limiter>>,
           \A e \in Events : event[e].phase # "unused" =>
               event'[e].phase # "unused" /\ event'[e].kind = event[e].kind,
           cleared \subseteq cleared',
           ThingsOK', CacheOK', StaleHasCause', EventsOK'
    PROVE  Inv'
  <1>1. UNCHANGED <<now, tried, zset, goneAt>>
    BY DEF limiter
  <1>2. LimiterInv'
    BY LimiterStays DEF Inv
  <1>3. \A q : LocalOK(q) => LocalOK(q)'
    BY <1>1, <1>2, LocalStays, HitTypes DEF Inv, LimiterInv
  <1>4. RequestsOK'
    BY <1>3, RequestsKeep DEF Inv
  <1>. QED
    BY <1>2, <1>4 DEF Inv

\* An answer changes one row, of an event that was sent.
LEMMA AckedRows ==
    ASSUME EventTypes, NEW e \in Events, event[e].phase # "unused",
           event' = event \/ event' = Acked(e)
    PROVE  /\ event' \in [Events -> EventRows]
           /\ event'[e].phase # "unused" /\ event'[e].kind = event[e].kind
           /\ \A o \in Events : o # e => event'[o] = event[o]
  <1>1. CASE event' = event
    BY <1>1 DEF EventTypes
  <1>2. CASE event' = Acked(e)
    <2>1. PICK row : row = [event[e] EXCEPT !.phase = "acked"]
      OBVIOUS
    <2>2. row \in EventRows
      BY <2>1, EventRowsAre
    <2>3. row.phase = "acked" /\ row.kind = event[e].kind
      BY <2>1, EventRowsAre DEF EventRows
    <2>4. event' = [event EXCEPT ![e] = row]
      BY <1>2, <2>1 DEF Acked
    <2>. QED
      BY <2>2, <2>3, <2>4 DEF EventTypes
  <1>. QED
    BY <1>1, <1>2

LEMMA RememberKeeps ==
    ASSUME Inv, NEW r \in Requests, Remember(r)
    PROVE  Inv'
  <1>1. PICK q : q = request[r]
    OBVIOUS
  <1>2. PICK e : e = q.item
    OBVIOUS
  <1>3. LocalOK(q) /\ q.pc = "insert" /\ e \in Events /\ event[e].phase # "unused"
    BY <1>1, <1>2 DEF Inv, RequestsOK, Remember, At, LocalOK, CarriesOK, IntakeOK
  <1>4. UNCHANGED <<now, limiter, user, known, devices, traffic, edits, cache, stored, messages,
                    cleared, strangers, overdue>>
    BY DEF Remember, panel, counters
  <1>5. ThingsOK' /\ CacheOK'
    BY <1>4, CacheStays DEF Inv, ThingsOK
  <1>6. CASE e \in stored /\ event' = Acked(e) /\ Over(r) /\ UNCHANGED claim
    <2>1. request' = [request EXCEPT ![r] = Idle]
      BY <1>6 DEF Over
    <2>2. /\ event' \in [Events -> EventRows]
          /\ event'[e].phase # "unused" /\ event'[e].kind = event[e].kind
          /\ \A o \in Events : o # e => event'[o] = event[o]
      BY <1>3, <1>6, AckedRows DEF Inv, EventsOK
    <2>3. StaleHasCause'
      BY <1>1, <1>3, <1>4, <2>1, CausesStay DEF Inv
    <2>4. ClaimOK'
      BY <1>1, <1>3, <1>4, <1>6, <2>1, IdleRow, ClaimStays DEF Inv, EventsOK, Claims
    <2>5. EventTypes' /\ StoredOK'
      BY <1>3, <1>4, <1>6, <2>2 DEF Inv, EventsOK, EventTypes, StoredOK
    <2>. QED
      BY <1>3, <1>4, <1>5, <2>1, <2>2, <2>3, <2>4, <2>5, IdleRow, IntakeStep DEF EventsOK
  <1>7. CASE /\ e \notin stored /\ ~Taken(e) /\ claim' = [claim EXCEPT ![e] = r]
             /\ Goes(r, "handle") /\ UNCHANGED event
    <2>1. PICK p : p = [q EXCEPT !.pc = "handle"]
      OBVIOUS
    <2>2. request' = [request EXCEPT ![r] = p]
      BY <1>1, <1>7, <2>1 DEF Goes
    <2>3. RowOK(p) /\ p.pc = "handle" /\ p.item = e /\ p.wants = q.wants
      BY <1>2, <1>3, <2>1, GoneOn DEF LocalOK, Pcs
    <2>4. LocalOK(p)'
      BY <1>2, <1>3, <1>4, <1>7, <2>3 DEF LocalOK, RowOK, CarriesOK, HitOK, IntakeOK
    <2>5. StaleHasCause'
      BY <1>1, <1>3, <1>4, <2>2, CausesStay DEF Inv
    <2>6. EventTypes' /\ StoredOK'
      BY <1>3, <1>4, <1>7 DEF Inv, EventsOK, EventTypes, StoredOK
    <2>7. claim[e] = None /\ e \notin stored /\ None \notin Requests
      BY <1>7, RequestsAssumption DEF Taken
    <2>8. /\ request'[r] = p /\ claim'[e] = r
          /\ \A o \in Requests : o # r => request'[o] = request[o]
          /\ \A o \in Events : o # e => claim'[o] = claim[o]
      BY <1>3, <1>7, <2>2 DEF Inv, RequestsOK, EventsOK, EventTypes
    <2>9. ClaimOK'
      <3>1. ASSUME NEW o \in Requests, Claims(request'[o])
            PROVE  claim'[request'[o].item] = o /\ request'[o].item \notin stored
        <4>1. CASE o = r
          BY <2>3, <2>7, <2>8, <4>1
        <4>2. CASE o # r
          <5>1. Claims(request[o]) /\ request'[o] = request[o]
            BY <2>8, <3>1, <4>2
          <5>2. claim[request[o].item] = o /\ request[o].item \notin stored
            BY <5>1 DEF Inv, EventsOK, ClaimOK
          <5>3. request[o].item \in Events
            BY <5>1 DEF Inv, RequestsOK, LocalOK, CarriesOK, Claims
          <5>. QED
            BY <2>7, <2>8, <5>1, <5>2, <5>3
        <4>. QED
          BY <4>1, <4>2
      <3>2. ASSUME NEW o \in Events, claim'[o] \in Requests
            PROVE  Claims(request'[claim'[o]]) /\ request'[claim'[o]].item = o
        <4>1. CASE o = e
          BY <2>3, <2>8, <4>1 DEF Claims
        <4>2. CASE o # e
          <5>1. claim'[o] = claim[o] /\ Claims(request[claim[o]]) /\ request[claim[o]].item = o
            BY <2>8, <3>2, <4>2 DEF Inv, EventsOK, ClaimOK
          <5>2. claim[o] # r
            BY <1>1, <1>3, <5>1 DEF Claims
          <5>. QED
            BY <2>8, <3>2, <5>1, <5>2
        <4>. QED
          BY <4>1, <4>2
      <3>. QED
        BY <1>4, <3>1, <3>2 DEF ClaimOK, Claims
    <2>. QED
      BY <1>3, <1>4, <1>5, <1>7, <2>2, <2>4, <2>5, <2>6, <2>9, IntakeStep DEF EventsOK
  <1>. QED
    BY <1>1, <1>2, <1>6, <1>7 DEF Remember

LEMMA HandleKeeps ==
    ASSUME Inv, NEW r \in Requests, Handle(r)
    PROVE  Inv'
  <1>1. PICK q : q = request[r]
    OBVIOUS
  <1>2. PICK e : e = q.item
    OBVIOUS
  <1>3. LocalOK(q) /\ q.pc = "handle" /\ e \in Events /\ event[e].phase # "unused"
    BY <1>1, <1>2 DEF Inv, RequestsOK, Handle, At, LocalOK, CarriesOK, IntakeOK
  <1>4. PICK p : p = [q EXCEPT !.pc = "commit", !.found = known]
    OBVIOUS
  <1>5. /\ request' = [request EXCEPT ![r] = p]
        /\ UNCHANGED <<now, limiter, user, known, devices, traffic, edits, event, claim, stored,
                       messages, strangers>>
    BY <1>1, <1>4 DEF Handle, panel, counters
  <1>6. RowOK(p) /\ p.pc = "commit" /\ p.item = e /\ p.wants = q.wants /\ p.found = known
    BY <1>2, <1>3, <1>4 DEF LocalOK, RowOK, Pcs
  <1>7. cleared' = IF known /\ event[e].kind = "devices" THEN cleared \cup {e} ELSE cleared
    BY <1>1, <1>2 DEF Handle
  <1>8. LocalOK(p)'
    BY <1>2, <1>3, <1>5, <1>6, <1>7 DEF LocalOK, RowOK, CarriesOK, HitOK, IntakeOK
  <1>9. \A c \in Cached : AboutToDrop(c) => AboutToDrop(c)'
    BY <1>1, <1>3, <1>5, StillAbout DEF Inv
  <1>10. CacheOK' /\ StaleHasCause'
    <2>1. CASE known /\ event[e].kind = "devices"
      <3>1. cache' = [cache EXCEPT !["devices"] = {}] /\ Settle("devices")
        BY <1>1, <1>2, <2>1 DEF Handle, Dropped
      <3>2. CacheOK /\ StaleHasCause /\ "devices" \in Cached
        BY DEF Inv, Cached
      <3>3. UNCHANGED <<now, user, devices, traffic>>
        BY <1>5
      <3>. QED
        BY <1>9, <3>1, <3>2, <3>3, DropSettles
    <2>2. CASE ~(known /\ event[e].kind = "devices")
      <3>1. UNCHANGED <<cache, overdue>>
        BY <1>1, <1>2, <2>2 DEF Handle
      <3>. QED
        BY <1>1, <1>3, <1>5, <3>1, CacheStays, CausesStay DEF Inv
    <2>. QED
      BY <2>1, <2>2
  <1>11. ThingsOK'
    BY <1>5 DEF Inv, ThingsOK
  <1>12. /\ request'[r] = p
         /\ \A o \in Requests : o # r => request'[o] = request[o]
    BY <1>5 DEF Inv, RequestsOK
  <1>13. ClaimOK'
    <2>1. \A o \in Requests : /\ Claims(request'[o]) <=> Claims(request[o])
                              /\ request'[o].item = request[o].item
      BY <1>1, <1>2, <1>3, <1>6, <1>12 DEF Claims
    <2>. QED
      BY <1>5, <2>1 DEF Inv, EventsOK, ClaimOK, Claims
  <1>14. EventTypes' /\ StoredOK'
    BY <1>5, <1>7 DEF Inv, EventsOK, EventTypes, StoredOK
  <1>. QED
    BY <1>5, <1>7, <1>8, <1>10, <1>11, <1>13, <1>14, IntakeStep DEF EventsOK

\* A claim that is given up is nobody's.
LEMMA ClaimEnds ==
    ASSUME ClaimOK, EventTypes, RequestsOK, NEW r \in Requests, NEW new, ~Claims(new),
           request' = [request EXCEPT ![r] = new],
           claim' \in [Events -> Requests \cup {None}],
           \A e \in Events : claim'[e] = IF claim[e] = r THEN None ELSE claim[e],
           \A e \in Events : e \in stored' => e \in stored \/ claim[e] = r
    PROVE  ClaimOK'
  <1>1. /\ request'[r] = new
        /\ \A o \in Requests : o # r => request'[o] = request[o]
    BY DEF RequestsOK
  <1>2. ASSUME NEW o \in Requests, Claims(request'[o])
        PROVE  claim'[request'[o].item] = o /\ request'[o].item \notin stored'
    <2>1. o # r /\ request'[o] = request[o]
      BY <1>1, <1>2
    <2>2. claim[request[o].item] = o /\ request[o].item \notin stored
      BY <1>2, <2>1 DEF ClaimOK
    <2>3. request[o].item \in Events
      BY <1>2, <2>1 DEF RequestsOK, LocalOK, CarriesOK, Claims
    <2>. QED
      BY <2>1, <2>2, <2>3
  <1>3. ASSUME NEW e \in Events, claim'[e] \in Requests
        PROVE  Claims(request'[claim'[e]]) /\ request'[claim'[e]].item = e
    <2>1. claim'[e] = claim[e] /\ claim[e] # r
      BY <1>3, RequestsAssumption
    <2>. QED
      BY <1>1, <1>3, <2>1 DEF ClaimOK
  <1>. QED
    BY <1>2, <1>3 DEF ClaimOK, Claims

LEMMA WebhookCommitsKeeps ==
    ASSUME Inv, NEW r \in Requests, WebhookCommits(r)
    PROVE  Inv'
  <1>1. PICK q : q = request[r]
    OBVIOUS
  <1>2. PICK e : e = q.item
    OBVIOUS
  <1>3. LocalOK(q) /\ q.pc = "commit" /\ e \in Events /\ event[e].phase # "unused"
    BY <1>1, <1>2 DEF Inv, RequestsOK, WebhookCommits, At, LocalOK, CarriesOK, IntakeOK
  <1>4. claim[e] = r /\ e \notin stored /\ messages[e] = 0
    BY <1>1, <1>2, <1>3 DEF Inv, EventsOK, ClaimOK, StoredOK, Claims
  <1>5. /\ stored' = stored \cup {e}
        /\ messages' = IF q.found /\ event[e].kind = "user" THEN [messages EXCEPT ![e] = @ + 1] ELSE messages
        /\ strangers' = IF q.found THEN strangers ELSE strangers \cup {e}
        /\ claim' = [claim EXCEPT ![e] = None]
        /\ event' = event \/ event' = Acked(e)
        /\ request' = [request EXCEPT ![r] = Idle]
        /\ UNCHANGED <<now, limiter, user, known, devices, traffic, edits, cache, cleared, overdue>>
    BY <1>1, <1>2 DEF WebhookCommits, Leaves, Over, panel, counters
  <1>6. EventTypes /\ StoredOK
    BY DEF Inv, EventsOK
  <1>7. /\ event' \in [Events -> EventRows]
        /\ event'[e].phase # "unused" /\ event'[e].kind = event[e].kind
        /\ \A o \in Events : o # e => event'[o] = event[o]
    BY <1>3, <1>5, <1>6, AckedRows
  <1>8. /\ messages' \in [Events -> Nat]
        /\ messages'[e] = IF q.found /\ event[e].kind = "user" THEN 1 ELSE 0
        /\ \A o \in Events : o # e => messages'[o] = messages[o]
    BY <1>3, <1>4, <1>5, <1>6 DEF EventTypes
  <1>9. EventTypes'
    BY <1>3, <1>5, <1>6, <1>7, <1>8 DEF EventTypes
  <1>10. StoredOK'
    <2>1. \/ e \in strangers'
          \/ event[e].kind = "user" /\ messages'[e] = 1
          \/ event[e].kind = "devices" /\ e \in cleared'
      <3>1. event[e].kind \in {"user", "devices"}
        BY <1>3, <1>6, EventRowsAre
      <3>2. q.found /\ event[e].kind = "devices" => e \in cleared
        BY <1>2, <1>3 DEF LocalOK, IntakeOK
      <3>. QED
        BY <1>5, <1>8, <3>1, <3>2
    <2>2. messages'[e] <= 1
      BY <1>8
    <2>3. \A o \in Events : o # e =>
              /\ o \in stored' <=> o \in stored
              /\ o \in strangers => o \in strangers'
              /\ o \in cleared' <=> o \in cleared
      BY <1>5
    <2>. QED
      BY <1>5, <1>6, <1>7, <1>8, <2>1, <2>2, <2>3 DEF StoredOK
  <1>11. ClaimOK'
    <2>1. \A o \in Events : claim[o] = r => o = e
      BY <1>1, <1>2 DEF Inv, EventsOK, ClaimOK
    <2>2. /\ claim' \in [Events -> Requests \cup {None}]
          /\ \A o \in Events : claim'[o] = IF claim[o] = r THEN None ELSE claim[o]
      BY <1>3, <1>4, <1>5, <1>6, <2>1 DEF EventTypes
    <2>3. \A o \in Events : o \in stored' => o \in stored \/ claim[o] = r
      BY <1>4, <1>5
    <2>. QED
      BY <1>5, <1>6, <2>2, <2>3, IdleRow, ClaimEnds DEF Inv, EventsOK
  <1>12. StaleHasCause'
    BY <1>1, <1>3, <1>5, CausesStay DEF Inv
  <1>13. ThingsOK' /\ CacheOK'
    BY <1>5, CacheStays DEF Inv, ThingsOK
  <1>. QED
    BY <1>3, <1>5, <1>7, <1>9, <1>10, <1>11, <1>12, <1>13, IdleRow, IntakeStep DEF EventsOK

LEMMA DiesKeeps ==
    ASSUME Inv, NEW r \in Requests, Dies(r)
    PROVE  Inv'
  <1>1. /\ claim' = [e \in Events |-> IF claim[e] = r THEN None ELSE claim[e]]
        /\ request' = [request EXCEPT ![r] = Idle]
        /\ UNCHANGED <<now, limiter, user, known, devices, traffic, edits, cache, event, stored,
                       messages, cleared, strangers>>
    BY DEF Dies, Over, panel
  <1>2. ThingsOK'
    BY <1>1 DEF Inv, ThingsOK
  <1>3. EventTypes'
    BY <1>1 DEF Inv, EventsOK, EventTypes
  <1>4. StoredOK'
    BY <1>1 DEF Inv, EventsOK, StoredOK
  <1>5. ClaimOK'
    BY <1>1, <1>3, IdleRow, ClaimEnds DEF Inv, EventsOK, EventTypes
  <1>6. CacheOK' /\ StaleHasCause'
    <2>1. CASE At(r, "drop")
      <3>1. PICK c : c = request[r].at
        OBVIOUS
      <3>2. c \in Cached /\ "death" \in Reasons
        BY <2>1, <3>1 DEF Inv, RequestsOK, LocalOK, CarriesOK, At, Reasons
      <3>3. Owe(c, "death")
        BY <2>1, <3>1 DEF Dies
      <3>4. \A d \in Cached : d # c => Source(d)' = Source(d) /\ (AboutToDrop(d) => AboutToDrop(d)')
        BY <1>1, <3>1, StillAbout, SourcesStay DEF Inv, Cached
      <3>. QED
        BY <1>1, <3>2, <3>3, <3>4, Owes DEF Inv
    <2>2. CASE ~At(r, "drop")
      <3>1. UNCHANGED overdue /\ request[r].pc # "drop"
        BY <2>2 DEF Dies, At
      <3>. QED
        BY <1>1, <3>1, CacheStays, CausesStay DEF Inv
    <2>. QED
      BY <2>1, <2>2
  <1>. QED
    BY <1>1, <1>2, <1>3, <1>4, <1>5, <1>6, IdleRow, IntakeStep DEF EventsOK

-----------------------------------------------------------------------------
(* Steps of the world.                                                       *)

LEMMA EditCounts ==
    ASSUME ThingsOK, NEW what, Edit(what)
    PROVE  edits' \in 0..MaxEdits /\ edits' = edits + 1 /\ 0..edits \subseteq 0..edits'
  BY BoundsAssumption DEF ThingsOK, Edit

LEMMA BotSetsLanguageKeeps ==
    ASSUME Inv, BotSetsLanguage
    PROVE  Inv'
  <1>1. PICK l \in Languages : user' = [user EXCEPT !.language = l]
    BY DEF BotSetsLanguage
  <1>2. /\ Edit("bot") /\ Owe("who", "bot")
        /\ UNCHANGED <<now, limiter, known, devices, traffic, cache, request, webhooks>>
    BY DEF BotSetsLanguage, panel
  <1>3. user' \in Users
    BY <1>1 DEF Inv, ThingsOK, Users
  <1>4. ThingsOK'
    BY <1>2, <1>3, EditCounts DEF Inv, ThingsOK
  <1>5. \A c \in Cached : c # "who" => Source(c)' = Source(c) /\ (AboutToDrop(c) => AboutToDrop(c)')
    BY <1>2, SourcesStay DEF Cached, AboutToDrop, At
  <1>6. CacheOK' /\ StaleHasCause'
    BY <1>2, <1>5, Owes DEF Inv, Cached, Reasons
  <1>. QED
    BY <1>2, <1>4, <1>6, WorldStep

LEMMA BlockedByHandKeeps ==
    ASSUME Inv, BlockedByHand
    PROVE  Inv'
  <1>1. /\ user' = [user EXCEPT !.active = FALSE] /\ Edit("block") /\ Owe("who", "hand")
        /\ UNCHANGED <<now, limiter, known, devices, traffic, cache, request, webhooks>>
    BY DEF BlockedByHand, panel
  <1>2. user' \in Users
    BY <1>1 DEF Inv, ThingsOK, Users
  <1>3. ThingsOK'
    BY <1>1, <1>2, EditCounts DEF Inv, ThingsOK
  <1>4. \A c \in Cached : c # "who" => Source(c)' = Source(c) /\ (AboutToDrop(c) => AboutToDrop(c)')
    BY <1>1, SourcesStay DEF Cached, AboutToDrop, At
  <1>5. CacheOK' /\ StaleHasCause'
    BY <1>1, <1>4, Owes DEF Inv, Cached, Reasons
  <1>. QED
    BY <1>1, <1>3, <1>5, WorldStep

LEMMA BecomesKnownKeeps ==
    ASSUME Inv, BecomesKnown
    PROVE  Inv'
  <1>1. /\ Edit("known") /\ known' = TRUE
        /\ UNCHANGED <<now, limiter, user, devices, traffic, cache, request, webhooks, overdue>>
    BY DEF BecomesKnown, panel
  <1>2. ThingsOK'
    BY <1>1, EditCounts DEF Inv, ThingsOK
  <1>3. \A c \in Cached : Source(c)' = Source(c) /\ (AboutToDrop(c) => AboutToDrop(c)')
    BY <1>1, SourcesStay DEF Cached, AboutToDrop, At
  <1>4. CacheOK' /\ StaleHasCause'
    BY <1>1, <1>3, CacheStays DEF Inv, StaleHasCause
  <1>. QED
    BY <1>1, <1>2, <1>4, WorldStep

LEMMA DeviceConnectsKeeps ==
    ASSUME Inv, DeviceConnects
    PROVE  Inv'
  <1>1. PICK d \in Devices \ devices : devices' = devices \cup {d}
    BY DEF DeviceConnects
  <1>2. /\ Edit("connect") /\ Emits("devices") /\ Owe("devices", "panel")
        /\ UNCHANGED <<now, limiter, user, known, traffic, cache, request, claim, stored,
                       messages, cleared, strangers>>
    BY DEF DeviceConnects
  <1>3. ThingsOK'
    BY <1>1, <1>2, EditCounts DEF Inv, ThingsOK
  <1>4. \A c \in Cached : c # "devices" => Source(c)' = Source(c) /\ (AboutToDrop(c) => AboutToDrop(c)')
    BY <1>2, SourcesStay DEF Cached, AboutToDrop, At
  <1>5. CacheOK' /\ StaleHasCause'
    BY <1>2, <1>4, Owes DEF Inv, Cached, Reasons
  <1>. QED
    BY <1>2, <1>3, <1>5, PanelStep

LEMMA UserModifiedKeeps ==
    ASSUME Inv, UserModified
    PROVE  Inv'
  <1>1. /\ Edit("modify") /\ Emits("user")
        /\ UNCHANGED <<now, limiter, user, known, devices, traffic, cache, request, claim, stored,
                       messages, cleared, strangers, overdue>>
    BY DEF UserModified, panel
  <1>2. ThingsOK'
    BY <1>1, EditCounts DEF Inv, ThingsOK
  <1>3. \A c \in Cached : Source(c)' = Source(c) /\ (AboutToDrop(c) => AboutToDrop(c)')
    BY <1>1, SourcesStay DEF Cached, AboutToDrop, At
  <1>4. CacheOK' /\ StaleHasCause'
    BY <1>1, <1>3, CacheStays DEF Inv, StaleHasCause
  <1>. QED
    BY <1>1, <1>2, <1>4, PanelStep

LEMMA TrafficGrowsKeeps ==
    ASSUME Inv, TrafficGrows
    PROVE  Inv'
  <1>1. /\ Edit("grow") /\ traffic' = traffic + 1 /\ Owe("usage", "panel")
        /\ UNCHANGED <<now, limiter, user, known, devices, cache, request, webhooks>>
    BY DEF TrafficGrows
  <1>2. ThingsOK'
    <2>1. traffic' \in 0..edits'
      BY <1>1, EditCounts, BoundsAssumption DEF Inv, ThingsOK
    <2>. QED
      BY <1>1, <2>1, EditCounts DEF Inv, ThingsOK
  <1>3. \A c \in Cached : c # "usage" => Source(c)' = Source(c) /\ (AboutToDrop(c) => AboutToDrop(c)')
    BY <1>1, SourcesStay DEF Cached, AboutToDrop, At
  <1>4. CacheOK' /\ StaleHasCause'
    BY <1>1, <1>3, Owes DEF Inv, Cached, Reasons
  <1>. QED
    BY <1>1, <1>2, <1>4, WorldStep

LEMMA TickKeeps ==
    ASSUME Inv, Tick
    PROVE  Inv'
  <1>1. /\ LimiterTick /\ now' = now + 1 /\ tried' = tried
        /\ cache' = [c \in Cached |-> {entry \in cache[c] : entry.until > now + 1}]
        /\ UNCHANGED <<user, known, devices, traffic, edits, request, event, claim, stored,
                       messages, cleared, strangers, overdue>>
    BY DEF Tick, LimiterTick, panel, webhooks, counters
  <1>2. LimiterInv'
    BY <1>1, LimiterTickKeeps DEF Inv
  <1>3. ThingsOK'
    BY <1>1 DEF Inv, ThingsOK
  <1>4. now \in Nat
    BY HitTypes DEF Inv, LimiterInv
  <1>5. CacheOK'
    <2>1. ASSUME NEW c \in Cached, NEW entry \in cache'[c]
          PROVE  entry.value \in Values[c] /\ entry.until \in now' + 1..now' + TTL(c)
      <3>1. entry \in cache[c] /\ entry.until > now + 1
        BY <1>1, <2>1
      <3>2. entry.value \in Values[c] /\ entry.until \in now + 1..now + TTL(c)
        BY <3>1 DEF Inv, CacheOK
      <3>. QED
        BY <1>1, <1>4, <3>1, <3>2, LivesAre
    <2>. QED
      BY <1>1, <2>1 DEF Inv, CacheOK, TTL
  <1>6. StaleHasCause'
    <2>1. \A c \in Cached : Source(c)' = Source(c) /\ (AboutToDrop(c) => AboutToDrop(c)')
      BY <1>1, SourcesStay DEF Cached, AboutToDrop, At
    <2>2. \A c \in Cached : cache'[c] \subseteq cache[c]
      BY <1>1
    <2>. QED
      BY <1>1, <2>1, <2>2 DEF Inv, StaleHasCause
  <1>7. \A q : LocalOK(q) => LocalOK(q)'
    BY <1>1, <1>2, <1>4, LocalStays DEF Inv, LimiterInv
  <1>8. RequestsOK'
    BY <1>1, <1>7, RequestsStay DEF Inv
  <1>9. EventsOK'
    BY <1>1, EventsStay DEF Inv, EventsOK, ClaimOK, Claims
  <1>. QED
    BY <1>2, <1>3, <1>5, <1>6, <1>8, <1>9 DEF Inv

LEMMA WorldKeeps ==
    ASSUME Inv, World
    PROVE  Inv'
  BY TickKeeps, BotSetsLanguageKeeps, BlockedByHandKeeps, BecomesKnownKeeps, DeviceConnectsKeeps,
     UserModifiedKeeps, TrafficGrowsKeeps DEF World

LEMMA ProceedsKeeps ==
    ASSUME Inv, NEW r \in Requests, Proceeds(r)
    PROVE  Inv'
  BY GetKeeps, ReadSourceKeeps, ReadDaysKeeps, PutKeeps, DropKeeps, UpdateCommitsKeeps,
     LoadForLoginKeeps, PromoteKeeps, IssueCommitsKeeps, TakeMomentKeeps, HitKeeps, RefusedKeeps,
     DeleteKeeps, DeleteFailsKeeps, RememberKeeps, HandleKeeps, WebhookCommitsKeeps DEF Proceeds

-----------------------------------------------------------------------------
LEMMA InitInv ==
    ASSUME Init
    PROVE  Inv
  <1>1. LimiterInv
    BY LimiterStarts DEF Init
  <1>2. ThingsOK
    BY BoundsAssumption DEF Init, ThingsOK
  <1>3. CacheOK /\ StaleHasCause
    BY DEF Init, CacheOK, StaleHasCause
  <1>4. RequestsOK
    BY IdleRow DEF Init, RequestsOK
  <1>5. EventTypes
    BY DEF Init, EventTypes, EventRows
  <1>6. ClaimOK
    BY IdleRow, RequestsAssumption DEF Init, ClaimOK
  <1>7. StoredOK
    BY DEF Init, StoredOK
  <1>. QED
    BY <1>1, <1>2, <1>3, <1>4, <1>5, <1>6, <1>7 DEF Inv, EventsOK

LEMMA StepKeeps ==
    ASSUME Inv, [Next]_vars
    PROVE  Inv'
  <1>1. CASE World
    BY <1>1, WorldKeeps
  <1>2. ASSUME NEW r \in Requests, Starts(r)
        PROVE  Inv'
    BY <1>2, StartsKeeps
  <1>3. ASSUME NEW r \in Requests, Proceeds(r)
        PROVE  Inv'
    BY <1>3, ProceedsKeeps
  <1>4. ASSUME NEW r \in Requests, Dies(r)
        PROVE  Inv'
    BY <1>4, DiesKeeps
  <1>5. CASE UNCHANGED vars
    <2>1. UNCHANGED <<now, limiter, request, webhooks, user, known, devices, traffic, cache, edits, overdue>>
      BY <1>5 DEF vars, panel, counters
    <2>2. ThingsOK' /\ CacheOK'
      BY <2>1, CacheStays DEF Inv, ThingsOK
    <2>3. \A c \in Cached : Source(c)' = Source(c) /\ (AboutToDrop(c) => AboutToDrop(c)')
      BY <2>1, SourcesStay DEF Cached, AboutToDrop, At
    <2>4. StaleHasCause'
      BY <2>1, <2>3 DEF Inv, StaleHasCause
    <2>. QED
      BY <2>1, <2>2, <2>4, WorldStep
  <1>. QED
    BY <1>1, <1>2, <1>3, <1>4, <1>5 DEF Next

\* The inductive invariant of the limiter, the caches and the webhooks holds in
\* every state, whatever requests, processes and the panel do in which order.
THEOREM Invariance == Spec => []Inv
  <1>1. Init => Inv
    BY InitInv
  <1>2. Inv /\ [Next]_vars => Inv'
    BY StepKeeps
  <1>. QED
    BY <1>1, <1>2, PTL DEF Spec

LEMMA InvTypes ==
    ASSUME Inv
    PROVE  TypeOK
  <1>1. LimiterTypeOK
    BY DEF Inv, LimiterInv
  <1>2. /\ user \in Users /\ known \in BOOLEAN /\ devices \subseteq Devices
        /\ traffic \in 0..MaxEdits
    BY BoundsAssumption DEF Inv, ThingsOK
  <1>3. /\ \A c \in Cached : \A entry \in cache[c] :
              entry.value \in Values[c] /\ entry.until \in now + 1..now + TTL(c)
        /\ overdue \subseteq Cached \X Reasons
    BY DEF Inv, CacheOK
  <1>4. \A r \in Requests : request[r].pc \in Pcs
    BY DEF Inv, RequestsOK, LocalOK, RowOK
  <1>5. /\ \A e \in Events : claim[e] \in Requests => request[claim[e]].item = e
        /\ stored \subseteq Events /\ messages \in [Events -> Nat]
    BY DEF Inv, EventsOK, ClaimOK, EventTypes
  <1>. QED
    BY <1>1, <1>2, <1>3, <1>4, <1>5 DEF TypeOK

\* Every variable keeps its type: no entry outlives the life it was given, and
\* a claim on an event is that of the request that works on it.
THEOREM TypeCorrect == Spec => []TypeOK
  BY Invariance, InvTypes, PTL

\* Whatever is read, put, changed and dropped in which order, and wherever a
\* process dies: a cached value is out of date only for a reason that is known.
THEOREM StaleForCause == Spec => []StaleHasCause
  <1>1. Inv => StaleHasCause
    BY DEF Inv
  <1>. QED
    BY <1>1, Invariance, PTL

\* However often and by however many processes at once an event is taken in, it
\* has its effect once, and it is answered only after it has had it.
THEOREM EventsActOnce == Spec => []EventsOnce
  <1>1. ASSUME Inv
        PROVE  EventsOnce
    <2>1. ASSUME NEW e \in Events
          PROVE  /\ messages[e] <= 1
                 /\ messages[e] = 1 => e \in stored
                 /\ event[e].phase = "acked" /\ e \notin strangers =>
                       IF event[e].kind = "user" THEN messages[e] = 1 ELSE e \in cleared
      BY <1>1 DEF Inv, EventsOK, StoredOK
    <2>. QED
      BY <2>1 DEF EventsOnce
  <1>. QED
    BY <1>1, Invariance, PTL

\* For every limit and window: no window lets in more than the limit, but for
\* hits that came late, and who comes back sooner than told is refused again.
THEOREM LimitHolds == Spec => []LimitIsKept
  <1>1. Inv => LimitIsKept
    BY LimitFollows DEF Inv
  <1>. QED
    BY <1>1, Invariance, PTL

=============================================================================
