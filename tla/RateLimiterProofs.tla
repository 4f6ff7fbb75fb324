------------------------- MODULE RateLimiterProofs -------------------------
(***************************************************************************)
(* What holds of the limiter for any number of clients, any cap, window    *)
(* and clock: the map stays bounded (MemoryStaysBounded), Retry-After is   *)
(* never short by a second or more (RetryAdvised), and trimming costs no   *)
(* one their allowance (AllowanceHolds).  The last needs an invariant per  *)
(* key and span: how much of what was let through in the span the entry of *)
(* now accounts for, how much the one before it, and how much each wipe.   *)
(***************************************************************************)
EXTENDS RateLimiter, FiniteSetTheorems, TLAPS

LEMMA EntryType ==
  ASSUME TypeOK, NEW key \in Keys
  PROVE  EntryAfter(key) \in [t0 : 0..now, count : Nat \ {0}]
<1>1. CASE key \in Survivors /\ Fresh(key)
  <2>1. key \in Tracked
    BY <1>1 DEF Survivors, Kept, Tracked
  <2>2. hits[key] \in [t0 : 0..now, count : Nat \ {0}]
    BY <2>1 DEF TypeOK
  <2>. QED BY <1>1, <2>2 DEF EntryAfter
<1>2. CASE ~(key \in Survivors /\ Fresh(key))
  BY <1>2 DEF EntryAfter, TypeOK, Ticks
<1>. QED BY <1>1, <1>2

LEMMA TypeStep == TypeOK /\ [Next]_vars => TypeOK'
<1> SUFFICES ASSUME TypeOK, [Next]_vars PROVE TypeOK'
  OBVIOUS
<1>1. CASE Tick
  BY <1>1, LimitsAssumption DEF Tick, TypeOK, Tracked, Ticks
<1>2. ASSUME NEW key \in Keys, Hit(key) PROVE TypeOK'
  <2> DEFINE D == Survivors \cup {key}
  <2>1. Survivors \subseteq Tracked /\ D \subseteq Keys
    BY DEF Survivors, Kept, TypeOK
  <2>2. hits' = [j \in D |-> IF j = key THEN EntryAfter(key) ELSE hits[j]] /\ now' = now
    BY <1>2 DEF Hit
  <2>3. \A j \in D : hits'[j] \in [t0 : 0..now, count : Nat \ {0}]
    BY <2>1, <2>2, EntryType DEF TypeOK
  <2>4. DOMAIN hits' = D
    BY <2>2
  <2>5. hits' \in [D -> [t0 : 0..now', count : Nat \ {0}]]
    BY <2>2, <2>3
  <2>. QED BY <2>1, <2>2, <2>4, <2>5 DEF TypeOK, Tracked, Ticks
<1>3. CASE UNCHANGED vars
  BY <1>3 DEF vars, TypeOK, Tracked, Ticks
<1>. QED BY <1>1, <1>2, <1>3 DEF Next

\* A trim leaves no more entries than the cap, whatever it had to drop.
LEMMA SurvivorsFit ==
  ASSUME TypeOK
  PROVE  IsFiniteSet(Survivors) /\ Cardinality(Survivors) <= Cap
<1>1. IsFiniteSet(Kept)
  BY ClientAssumption, FS_Subset DEF Kept, TypeOK
<1>2. Cardinality(Kept) \in Nat
  BY <1>1, FS_CardinalityType
<1>. QED
  BY <1>1, <1>2, LimitsAssumption, FS_EmptySet DEF Survivors, Wiped

\* The limiter's map never outgrows its cap by more than the entry just made,
\* for any clients and any order of requests: ratelimit.rs's bound on memory.
THEOREM MemoryStaysBounded == Spec => []MemoryBounded
<1>1. Init => TypeOK /\ MemoryBounded
  BY LimitsAssumption, FS_EmptySet DEF Init, TypeOK, MemoryBounded, Tracked, Ticks
<1>2. TypeOK /\ MemoryBounded /\ [Next]_vars => MemoryBounded'
  <2> SUFFICES ASSUME TypeOK, MemoryBounded, [Next]_vars PROVE MemoryBounded'
    OBVIOUS
  <2>1. CASE Tick
    BY <2>1 DEF Tick, MemoryBounded, Tracked
  <2>2. ASSUME NEW key \in Keys, Hit(key) PROVE MemoryBounded'
    <3>1. Tracked' = Survivors \cup {key}
      BY <2>2 DEF Hit, Tracked
    <3>2. /\ Cardinality(Survivors \cup {key}) <= Cardinality(Survivors) + 1
          /\ Cardinality(Survivors \cup {key}) \in Nat /\ Cardinality(Survivors) \in Nat
      BY SurvivorsFit, FS_AddElement, FS_CardinalityType
    <3>. QED BY <3>1, <3>2, SurvivorsFit, LimitsAssumption DEF MemoryBounded
  <2>3. CASE UNCHANGED vars
    BY <2>3 DEF vars, MemoryBounded, Tracked
  <2>. QED BY <2>1, <2>2, <2>3 DEF Next
<1>. QED BY <1>1, <1>2, TypeStep, PTL DEF Spec

-----------------------------------------------------------------------------
(* The advice.                                                             *)

\* By a second after the time a key was told, the window it was refused in is over.
AdviceInv ==
  /\ advised \in [Keys -> Int]
  /\ \A key \in Keys :
       advised[key] # Never /\ key \in Tracked =>
         hits[key].t0 + Window <= advised[key] + Second

\* as_secs cuts off less than a second.
LEMMA AdviceSuffices ==
  ASSUME TypeOK, NEW key \in Keys
  PROVE  /\ RetryAfter(key) \in Int
         /\ EntryAfter(key).t0 + Window <= (now + RetryAfter(key) * Second) + Second
<1>1. PICK t0 \in Nat : t0 = EntryAfter(key).t0
  BY EntryType
<1>2. now \in Nat /\ Window \in Nat /\ Second \in Nat \ {0}
  BY LimitsAssumption DEF TypeOK, Ticks
<1>3. PICK left \in Int : left = Window - (now - t0)
  BY <1>2
<1>4. PICK q \in Int : q = left \div Second
  BY <1>2
<1>5. left < q * Second + Second
  <2>1. left = Second * (left \div Second) + (left % Second) /\ left % Second \in 0..Second - 1
    BY <1>2
  <2>. QED BY <1>2, <1>4, <2>1
<1>6. PICK secs \in Int : secs = IF q > 1 THEN q ELSE 1
  OBVIOUS
<1>7. RetryAfter(key) = secs
  BY <1>1, <1>3, <1>4, <1>6 DEF RetryAfter
<1>8. q * Second <= secs * Second
  BY <1>2, <1>6
<1>9. q * Second \in Int /\ secs * Second \in Int
  BY <1>2
<1>10. left <= secs * Second + Second
  <2>1. PICK x \in Int, y \in Int : x = q * Second /\ y = secs * Second
    BY <1>9
  <2>. QED BY <1>2, <1>3, <1>5, <1>8, <2>1
<1>. QED
  BY <1>1, <1>2, <1>3, <1>7, <1>9, <1>10

\* The entry of a key behind a hit, and what becomes of the other keys' entries.
LEMMA HitsAfter ==
  ASSUME TypeOK, NEW key \in Keys, Hit(key)
  PROVE  /\ Tracked' = Survivors \cup {key} /\ Survivors \subseteq Tracked
         /\ hits'[key] = EntryAfter(key)
         /\ \A j \in Survivors \ {key} : hits'[j] = hits[j]
         /\ now' = now
<1>1. hits' = [j \in Survivors \cup {key} |-> IF j = key THEN EntryAfter(key) ELSE hits[j]]
      /\ now' = now
  BY DEF Hit
<1>. QED
  BY <1>1 DEF Tracked, Survivors, Kept

\* An entry that was refused was fresh.
LEMMA RefusedWasFresh ==
  ASSUME TypeOK, NEW key \in Keys, ~Granted(key)
  PROVE  key \in Survivors /\ Fresh(key) /\ EntryAfter(key).t0 = hits[key].t0
  BY LimitsAssumption DEF Granted, EntryAfter

LEMMA AdviceKept ==
  TypeOK /\ AdviceInv /\ [Next]_vars => AdviceInv'
<1> SUFFICES ASSUME TypeOK, AdviceInv, [Next]_vars PROVE AdviceInv'
  OBVIOUS
<1>1. CASE Tick
  BY <1>1 DEF Tick, AdviceInv, Tracked
<1>2. ASSUME NEW key \in Keys, Hit(key) PROVE AdviceInv'
  <2>1. /\ Tracked' = Survivors \cup {key} /\ Survivors \subseteq Tracked
        /\ hits'[key] = EntryAfter(key)
        /\ \A j \in Survivors \ {key} : hits'[j] = hits[j]
    BY <1>2, HitsAfter
  <2>2. now \in Int /\ Second \in Int /\ RetryAfter(key) \in Int
    BY AdviceSuffices, LimitsAssumption DEF TypeOK, Ticks
  <2>3. PICK a \in Int : a = now + RetryAfter(key) * Second
    BY <2>2
  <2>4. advised' = IF Granted(key) THEN [advised EXCEPT ![key] = Never]
                   ELSE [advised EXCEPT ![key] = a]
    BY <1>2, <2>3 DEF Hit
  <2>5. advised' \in [Keys -> Int]
    BY <2>4 DEF AdviceInv, Never
  <2>6. ASSUME NEW j \in Keys, advised'[j] # Never, j \in Tracked'
        PROVE  hits'[j].t0 + Window <= advised'[j] + Second
    <3>1. CASE j = key
      <4>1. advised'[j] = a
        BY <2>4, <2>6, <3>1 DEF AdviceInv
      <4>. QED BY <2>1, <2>3, <3>1, <4>1, AdviceSuffices
    <3>2. CASE j # key
      BY <2>1, <2>4, <2>6, <3>2 DEF AdviceInv
    <3>. QED BY <3>1, <3>2
  <2>. QED BY <2>5, <2>6 DEF AdviceInv
<1>3. CASE UNCHANGED vars
  BY <1>3 DEF vars, AdviceInv, Tracked
<1>. QED BY <1>1, <1>2, <1>3 DEF Next

\* RetryIsGranted: Retry-After is never short by a second or more, whatever trims,
\* wipes and other clients come between the refusal and the retry (the 429 of
\* rate_limit_mw).
THEOREM RetryAdvised == Spec => RetryIsGranted
<1>1. Init => TypeOK /\ AdviceInv
  BY LimitsAssumption DEF Init, TypeOK, AdviceInv, Tracked, Ticks, Never
<1> DEFINE Step == \A key \in Keys :
                     /\ total' # total /\ advised[key] # Never /\ now >= advised[key] + Second
                     => advised'[key] \in {advised[key], Never}
<1>2. TypeOK /\ AdviceInv /\ [Next]_vars => [Step]_vars
  <2> SUFFICES ASSUME TypeOK, AdviceInv, Next, NEW j \in Keys, total' # total,
                      advised[j] # Never, now >= advised[j] + Second
               PROVE  advised'[j] \in {advised[j], Never}
    OBVIOUS
  <2>1. PICK key \in Keys : Hit(key)
    BY DEF Next, Tick
  <2>2. CASE j # key
    BY <2>1, <2>2 DEF Hit, AdviceInv
  <2>3. CASE j = key /\ Granted(key)
    BY <2>1, <2>3 DEF Hit, AdviceInv
  <2>4. CASE j = key /\ ~Granted(key)
    <3>1. key \in Tracked /\ Fresh(key)
      BY <2>4, RefusedWasFresh DEF Survivors, Kept
    <3>2. hits[key].t0 + Window <= advised[key] + Second
      BY <2>4, <3>1 DEF AdviceInv
    <3>3. hits[key].t0 \in Int /\ now \in Int /\ Window \in Int /\ Second \in Int
          /\ advised[key] \in Int
      BY <3>1, LimitsAssumption DEF TypeOK, AdviceInv, Ticks
    <3>. QED BY <2>4, <3>1, <3>2, <3>3 DEF Fresh
  <2>. QED BY <2>2, <2>3, <2>4
<1>. QED
  BY <1>1, <1>2, TypeStep, AdviceKept, PTL DEF Spec, RetryIsGranted

-----------------------------------------------------------------------------
(* The allowance.                                                          *)

\* A log numbers its entries, none of them from the future.
LogInv(entries) ==
  /\ IsFiniteSet(entries)
  /\ \A e \in entries :
       e \in (0..now) \X (1..Cardinality(entries))

LogsInv ==
  /\ LogInv(wipes)
  /\ grants \in [Keys -> SUBSET (Nat \X Nat)]
  /\ \A key \in Keys : LogInv(grants[key])

\* What the entry a key has now accounts for.
Spent(key) == IF hits[key].count <= MaxPerWindow THEN hits[key].count ELSE MaxPerWindow

\* While a span lasts: an entry made before it accounts for all the requests let
\* through in it; one made in it, for all but those of one entry before it and of
\* one for each wipe.  Without an entry the last one expired or was wiped.
SpanInv(key, t) ==
  /\ now < t => InSpan(grants[key], t) = 0
  /\ t <= now /\ now < t + Window =>
       InSpan(grants[key], t) <=
         IF key \notin Tracked THEN MaxPerWindow * (1 + InSpan(wipes, t))
         ELSE IF hits[key].t0 < t THEN Spent(key)
         ELSE MaxPerWindow * (1 + InSpan(wipes, t)) + Spent(key)
  /\ InSpan(grants[key], t) <= MaxPerWindow * (2 + InSpan(wipes, t))

AllowanceInv == \A key \in Keys, t \in Ticks : SpanInv(key, t)

LEMMA LogCounts ==
  ASSUME NEW entries, LogInv(entries), NEW t
  PROVE  /\ Cardinality(entries) \in Nat
         /\ IsFiniteSet(Span(entries, t)) /\ InSpan(entries, t) \in Nat
<1>1. Span(entries, t) \subseteq entries
  BY DEF Span
<1>2. IsFiniteSet(entries)
  BY DEF LogInv
<1>3. IsFiniteSet(Span(entries, t))
  BY <1>1, <1>2, FS_Subset
<1>. QED
  BY <1>2, <1>3, FS_CardinalityType DEF InSpan

\* An entry more is counted in the spans that are under way.
LEMMA LogGrows ==
  ASSUME NEW entries, LogInv(entries), now \in Nat, NEW t \in Nat
  PROVE  /\ LogInv(Logged(entries))
         /\ InSpan(Logged(entries), t) =
              InSpan(entries, t) + (IF t <= now /\ now < t + Window THEN 1 ELSE 0)
<1>1. PICK n \in Nat : n = Cardinality(entries)
  BY LogCounts
<1>2. PICK e : e = <<now, n + 1>>
  OBVIOUS
<1>3. Logged(entries) = entries \cup {e}
  BY <1>1, <1>2 DEF Logged
<1>4. e \notin entries
  BY <1>1, <1>2 DEF LogInv
<1>5. IsFiniteSet(entries)
  BY DEF LogInv
<1>6. IsFiniteSet(entries \cup {e}) /\ Cardinality(entries \cup {e}) = n + 1
  BY <1>1, <1>4, <1>5, FS_AddElement
<1>7. LogInv(Logged(entries))
  <2>1. \A f \in entries : f \in (0..now) \X (1..n + 1)
    BY <1>1 DEF LogInv
  <2>2. e \in (0..now) \X (1..n + 1)
    BY <1>2
  <2>. QED BY <1>3, <1>6, <2>1, <2>2 DEF LogInv
<1>8. CASE t <= now /\ now < t + Window
  <2>1. Span(Logged(entries), t) = Span(entries, t) \cup {e}
    BY <1>2, <1>3, <1>8 DEF Span
  <2>2. e \notin Span(entries, t) /\ IsFiniteSet(Span(entries, t))
    BY <1>4, LogCounts DEF Span
  <2>3. Cardinality(Span(entries, t) \cup {e}) = Cardinality(Span(entries, t)) + 1
    BY <2>2, FS_AddElement
  <2>. QED BY <1>7, <1>8, <2>1, <2>3 DEF InSpan
<1>9. CASE ~(t <= now /\ now < t + Window)
  <2>1. Span(Logged(entries), t) = Span(entries, t)
    BY <1>2, <1>3, <1>9 DEF Span
  <2>2. InSpan(entries, t) \in Nat
    BY LogCounts
  <2>. QED BY <1>7, <1>9, <2>1, <2>2 DEF InSpan
<1>. QED BY <1>8, <1>9

LEMMA LogsKept ==
  TypeOK /\ LogsInv /\ [Next]_vars => LogsInv'
<1> SUFFICES ASSUME TypeOK, LogsInv, [Next]_vars PROVE LogsInv'
  OBVIOUS
<1>0. now \in Nat /\ LogInv(wipes) /\ \A key \in Keys : LogInv(grants[key])
  BY LimitsAssumption DEF TypeOK, LogsInv, Ticks
\* Time only adds to the past.
<1>1. ASSUME now' >= now, now' \in Nat, NEW entries, LogInv(entries)
      PROVE  IsFiniteSet(entries)
             /\ \A e \in entries : e \in (0..now') \X (1..Cardinality(entries))
  <2>1. 0..now \subseteq 0..now'
    BY <1>0, <1>1
  <2>. QED BY <1>1, <2>1 DEF LogInv
<1>2. CASE Tick
  <2>1. UNCHANGED <<grants, wipes>> /\ now' >= now /\ now' \in Nat
    BY <1>0, <1>2 DEF Tick
  <2>2. LogInv(wipes)'
    BY <1>0, <1>1, <2>1 DEF LogInv
  <2>3. ASSUME NEW key \in Keys PROVE LogInv(grants[key])'
    <3>1. PICK l : l = grants[key]
      OBVIOUS
    <3>2. LogInv(l)
      BY <1>0, <3>1
    <3>. QED BY <1>1, <2>1, <3>1, <3>2 DEF LogInv
  <2>. QED BY <2>1, <2>2, <2>3 DEF LogsInv
<1>3. ASSUME NEW key \in Keys, Hit(key) PROVE LogsInv'
  <2>1. /\ now' = now
        /\ wipes' = IF Wiped THEN Logged(wipes) ELSE wipes
        /\ grants' = IF Granted(key) THEN [grants EXCEPT ![key] = Logged(grants[key])] ELSE grants
    BY <1>3 DEF Hit
  <2>2. ASSUME NEW l, LogInv(l) PROVE LogInv(Logged(l)) /\ Logged(l) \subseteq Nat \X Nat
    <3>1. LogInv(Logged(l))
      BY <1>0, <2>2, LogGrows
    <3>2. l \subseteq Nat \X Nat /\ Cardinality(l) \in Nat
      <4>1. Cardinality(l) \in Nat
        BY <2>2, LogCounts
      <4>. QED BY <1>0, <2>2, <4>1 DEF LogInv
    <3>. QED BY <1>0, <3>1, <3>2 DEF Logged
  <2>3. PICK v : v = wipes'
    OBVIOUS
  <2>4. LogInv(v)
    BY <1>0, <2>1, <2>2, <2>3
  <2>5. PICK g : g = grants'
    OBVIOUS
  <2>6. g \in [Keys -> SUBSET (Nat \X Nat)]
    BY <1>0, <2>1, <2>2, <2>5 DEF LogsInv
  <2>7. \A j \in Keys : LogInv(g[j])
    BY <1>0, <2>1, <2>2, <2>5 DEF LogsInv
  <2>8. LogInv(wipes)'
    BY <2>1, <2>3, <2>4 DEF LogInv
  <2>9. \A j \in Keys : LogInv(grants[j])'
    BY <2>1, <2>5, <2>7 DEF LogInv
  <2>. QED BY <2>5, <2>6, <2>8, <2>9 DEF LogsInv
<1>4. CASE UNCHANGED vars
  BY <1>4 DEF vars, LogsInv, LogInv
<1>. QED BY <1>2, <1>3, <1>4 DEF Next

\* What an entry has let through is between none and what a window allows.
LEMMA SpentType ==
  ASSUME TypeOK, NEW key \in Tracked
  PROVE  Spent(key) \in Nat /\ Spent(key) <= MaxPerWindow /\ hits[key].t0 \in 0..now
<1>1. hits[key] \in [t0 : 0..now, count : Nat \ {0}]
  BY DEF TypeOK
<1>. QED
  BY <1>1, LimitsAssumption DEF Spent

\* A bound that leaves room for one entry more.
LEMMA AllowedType ==
  ASSUME LogsInv, NEW t
  PROVE  /\ MaxPerWindow * (1 + InSpan(wipes, t)) \in Nat
         /\ MaxPerWindow * (2 + InSpan(wipes, t)) = MaxPerWindow * (1 + InSpan(wipes, t)) + MaxPerWindow
         /\ MaxPerWindow * (1 + InSpan(wipes, t)) >= MaxPerWindow
<1>1. PICK w \in Nat : w = InSpan(wipes, t)
  BY LogCounts DEF LogsInv
<1>2. MaxPerWindow \in Nat
  BY LimitsAssumption
<1>3. MaxPerWindow * (1 + w) = MaxPerWindow + MaxPerWindow * w
      /\ MaxPerWindow * (2 + w) = MaxPerWindow + MaxPerWindow + MaxPerWindow * w
      /\ MaxPerWindow * w \in Nat
  BY <1>2
<1>. QED
  BY <1>1, <1>2, <1>3

\* A wipe is counted in the spans under way, and so is a request let through.
LEMMA HitCounts ==
  ASSUME TypeOK, LogsInv, NEW key \in Keys, Hit(key), NEW j \in Keys, NEW t \in Ticks
  PROVE  LET open == t <= now /\ now < t + Window IN
         /\ InSpan(wipes, t)' = InSpan(wipes, t) + (IF open /\ Wiped THEN 1 ELSE 0)
         /\ InSpan(grants[j], t)' =
              InSpan(grants[j], t) + (IF open /\ j = key /\ Granted(key) THEN 1 ELSE 0)
<1>0. now \in Nat /\ t \in Nat /\ LogInv(wipes) /\ \A i \in Keys : LogInv(grants[i])
  BY LimitsAssumption DEF TypeOK, LogsInv, Ticks
<1>1. /\ wipes' = IF Wiped THEN Logged(wipes) ELSE wipes
      /\ grants' = IF Granted(key) THEN [grants EXCEPT ![key] = Logged(grants[key])] ELSE grants
  BY DEF Hit
<1>2. PICK v : v = wipes'
  OBVIOUS
<1>3. PICK g : g = grants'[j]
  OBVIOUS
<1>4. InSpan(wipes, t)' = InSpan(v, t) /\ InSpan(grants[j], t)' = InSpan(g, t)
  BY <1>2, <1>3 DEF InSpan, Span
<1>5. v = IF Wiped THEN Logged(wipes) ELSE wipes
  BY <1>1, <1>2
<1>6. g = IF j = key /\ Granted(key) THEN Logged(grants[j]) ELSE grants[j]
  BY <1>1, <1>3 DEF LogsInv
<1>7. InSpan(wipes, t) \in Nat /\ InSpan(grants[j], t) \in Nat
  BY <1>0, LogCounts
<1>8. InSpan(v, t) = InSpan(wipes, t) + (IF t <= now /\ now < t + Window /\ Wiped THEN 1 ELSE 0)
  BY <1>0, <1>5, <1>7, LogGrows
<1>9. InSpan(g, t) = InSpan(grants[j], t)
                     + (IF t <= now /\ now < t + Window /\ j = key /\ Granted(key) THEN 1 ELSE 0)
  BY <1>0, <1>6, <1>7, LogGrows
<1>. QED
  BY <1>4, <1>8, <1>9

LEMMA SpanHit ==
  ASSUME TypeOK, LogsInv, AllowanceInv, NEW key \in Keys, Hit(key), NEW j \in Keys, NEW t \in Ticks
  PROVE  SpanInv(j, t)'
<1>1. PICK w \in Nat : w = InSpan(wipes, t)
  BY LogCounts DEF LogsInv
<1>2. PICK g \in Nat : g = InSpan(grants[j], t)
  BY LogCounts DEF LogsInv
<1>3. PICK a \in Nat : a = MaxPerWindow * (1 + w)
  BY <1>1, AllowedType
<1>4. MaxPerWindow \in Nat \ {0} /\ Window \in Nat \ {0} /\ now \in Nat /\ t \in Nat
  BY LimitsAssumption DEF TypeOK, Ticks
<1>5. /\ MaxPerWindow * (2 + w) = a + MaxPerWindow /\ a >= MaxPerWindow
      /\ MaxPerWindow * (1 + (w + 1)) = a + MaxPerWindow
      /\ MaxPerWindow * (2 + (w + 1)) = a + MaxPerWindow + MaxPerWindow
  BY <1>1, <1>3, <1>4, AllowedType
<1>6. SpanInv(j, t)
  BY DEF AllowanceInv
<1>7. /\ Tracked' = Survivors \cup {key} /\ Survivors \subseteq Tracked
      /\ hits'[key] = EntryAfter(key)
      /\ \A i \in Survivors \ {key} : hits'[i] = hits[i]
      /\ now' = now
  BY HitsAfter
\* A span that is over or has not begun.
<1>8. CASE ~(t <= now /\ now < t + Window)
  <2>1. InSpan(wipes, t)' = w /\ InSpan(grants[j], t)' = g
    BY <1>1, <1>2, <1>8, HitCounts
  <2>. QED
    BY <1>1, <1>2, <1>4, <1>6, <1>7, <1>8, <2>1 DEF SpanInv
<1>9. CASE t <= now /\ now < t + Window
  <2>1. InSpan(wipes, t)' = (IF Wiped THEN w + 1 ELSE w)
    BY <1>1, <1>9, HitCounts
  <2>2. InSpan(grants[j], t)' = (IF j = key /\ Granted(key) THEN g + 1 ELSE g)
    BY <1>2, <1>9, HitCounts
  <2>3. PICK a2 \in Nat : a2 = IF Wiped THEN a + MaxPerWindow ELSE a
    BY <1>4
  <2>4. /\ MaxPerWindow * (1 + InSpan(wipes, t)') = a2
        /\ MaxPerWindow * (2 + InSpan(wipes, t)') = a2 + MaxPerWindow
    BY <1>3, <1>5, <2>1, <2>3
  \* It is enough to bound what has been let through by what the new state allows.
  <2>5. ASSUME InSpan(grants[j], t)' <=
                 IF j \notin Tracked' THEN a2
                 ELSE IF hits'[j].t0 < t THEN Spent(j)'
                 ELSE a2 + Spent(j)',
               j \in Tracked' => Spent(j)' \in Nat /\ Spent(j)' <= MaxPerWindow
        PROVE  SpanInv(j, t)'
    <3>1. PICK h \in Nat : h = InSpan(grants[j], t)'
      BY <1>2, <2>2
    <3>2. h <= a2 + MaxPerWindow
      BY <1>4, <1>5, <2>3, <2>5, <3>1
    <3>. QED
      BY <1>7, <1>9, <1>4, <2>4, <2>5, <3>1, <3>2 DEF SpanInv
  <2>6. g <= IF j \notin Tracked THEN a
             ELSE IF hits[j].t0 < t THEN Spent(j) ELSE a + Spent(j)
    BY <1>1, <1>2, <1>3, <1>6, <1>9 DEF SpanInv
  <2>7. j \in Tracked => Spent(j) \in Nat /\ Spent(j) <= MaxPerWindow /\ hits[j].t0 \in 0..now
    BY SpentType
  \* An entry that is lost or starts over was stale or the map was wiped.
  <2>8. ~(j \in Survivors /\ Fresh(j)) => g <= a2
    <3> SUFFICES ASSUME ~(j \in Survivors /\ Fresh(j)) PROVE g <= a2
      OBVIOUS
    <3>1. CASE j \notin Tracked
      BY <1>4, <2>3, <2>6, <3>1
    <3>2. CASE Wiped
      BY <1>4, <2>3, <2>6, <2>7, <3>2, <1>5
    <3>3. CASE j \in Tracked /\ ~Wiped
      <4>1. ~Fresh(j)
        BY <3>3 DEF Survivors, Kept
      <4>2. hits[j].t0 < t
        BY <1>4, <1>9, <2>7, <3>3, <4>1 DEF Fresh
      <4>. QED BY <1>4, <1>5, <2>3, <2>6, <2>7, <3>3, <4>2
    <3>. QED BY <3>1, <3>2, <3>3
  <2>9. CASE j # key /\ j \notin Survivors
    <3>1. j \notin Tracked'
      BY <1>7, <2>9
    <3>2. InSpan(grants[j], t)' = g
      BY <2>2, <2>9
    <3>. QED BY <2>5, <2>8, <2>9, <3>1, <3>2
  <2>10. CASE j # key /\ j \in Survivors
    <3>1. j \in Tracked /\ j \in Tracked' /\ hits'[j] = hits[j] /\ ~Wiped
      BY <1>7, <2>10 DEF Survivors
    <3>2. Spent(j)' = Spent(j) /\ InSpan(grants[j], t)' = g
      BY <2>2, <2>10, <3>1 DEF Spent
    <3>. QED BY <2>3, <2>5, <2>6, <2>7, <3>1, <3>2
  <2>11. CASE j = key /\ j \in Survivors /\ Fresh(j)
    <3>1. j \in Tracked /\ j \in Tracked' /\ ~Wiped
      BY <1>7, <2>11 DEF Survivors
    <3>2. hits'[j].t0 = hits[j].t0 /\ hits'[j].count = hits[j].count + 1
          /\ (Granted(key) <=> hits[j].count + 1 <= MaxPerWindow)
      BY <1>7, <2>11 DEF EntryAfter, Granted
    <3>3. PICK c \in Nat : c = hits[j].count
      BY <3>1 DEF TypeOK
    <3>4. Spent(j) = (IF c <= MaxPerWindow THEN c ELSE MaxPerWindow)
          /\ Spent(j)' = (IF c + 1 <= MaxPerWindow THEN c + 1 ELSE MaxPerWindow)
      BY <3>2, <3>3 DEF Spent
    <3>5. Granted(key) <=> c + 1 <= MaxPerWindow
      BY <3>2, <3>3
    <3>6. InSpan(grants[j], t)' = (IF c + 1 <= MaxPerWindow THEN g + 1 ELSE g)
      BY <2>2, <2>11, <3>5
    <3>7. PICK t0 \in Nat : t0 = hits[j].t0
      BY <2>7, <3>1
    <3>8. g <= IF t0 < t THEN IF c <= MaxPerWindow THEN c ELSE MaxPerWindow
               ELSE a + (IF c <= MaxPerWindow THEN c ELSE MaxPerWindow)
      BY <2>6, <3>1, <3>4, <3>7
    <3>9. PICK s2 \in Nat : s2 = Spent(j)' /\ s2 <= MaxPerWindow
                            /\ s2 = (IF c + 1 <= MaxPerWindow THEN c + 1 ELSE MaxPerWindow)
      BY <1>4, <3>4
    <3>10. PICK h \in Nat : h = InSpan(grants[j], t)'
                            /\ h = (IF c + 1 <= MaxPerWindow THEN g + 1 ELSE g)
      BY <3>6
    <3>11. h <= IF t0 < t THEN s2 ELSE a + s2
      BY <1>4, <3>8, <3>9, <3>10
    <3>12. a2 = a
      BY <2>3, <3>1
    <3>. QED BY <2>5, <3>1, <3>2, <3>7, <3>9, <3>10, <3>11, <3>12
  <2>12. CASE j = key /\ ~(j \in Survivors /\ Fresh(j))
    <3>1. j \in Tracked' /\ hits'[j] = [t0 |-> now, count |-> 1]
      BY <1>7, <2>12 DEF EntryAfter
    <3>2. Spent(j)' = 1 /\ hits'[j].t0 = now
      BY <1>4, <3>1 DEF Spent
    <3>3. InSpan(grants[j], t)' <= g + 1
      BY <2>2
    <3>4. PICK h \in Nat : h = InSpan(grants[j], t)'
      BY <2>2
    <3>5. h <= a2 + 1 /\ ~(now < t)
      BY <1>4, <1>9, <2>8, <2>12, <3>3, <3>4
    <3>. QED BY <1>4, <2>5, <3>1, <3>2, <3>4, <3>5
  <2>. QED BY <2>9, <2>10, <2>11, <2>12
<1>. QED BY <1>8, <1>9

LEMMA AllowanceKept ==
  TypeOK /\ LogsInv /\ AllowanceInv /\ [Next]_vars => AllowanceInv'
<1> SUFFICES ASSUME TypeOK, LogsInv, AllowanceInv, [Next]_vars, NEW j \in Keys, NEW t \in Ticks
             PROVE  SpanInv(j, t)'
  BY DEF AllowanceInv, Ticks
<1>1. CASE Tick
  <2>1. now' = now + 1 /\ UNCHANGED <<hits, grants, wipes>>
    BY <1>1 DEF Tick
  <2>2. InSpan(grants[j], t)' = InSpan(grants[j], t) /\ InSpan(wipes, t)' = InSpan(wipes, t)
    BY <2>1 DEF InSpan, Span
  <2>3. /\ InSpan(grants[j], t) \in Nat /\ now \in Nat /\ t \in Nat /\ Window \in Nat
        /\ MaxPerWindow * (1 + InSpan(wipes, t)) \in Nat
    BY LogCounts, AllowedType, LimitsAssumption DEF LogsInv, TypeOK, Ticks
  <2>4. j \in Tracked => Spent(j) \in Nat /\ hits[j].t0 \in 0..now
    BY SpentType
  <2>5. Tracked' = Tracked /\ Spent(j)' = Spent(j)
    BY <2>1 DEF Tracked, Spent
  <2>6. SpanInv(j, t)
    BY DEF AllowanceInv
  <2>7. CASE now < t
    BY <2>1, <2>2, <2>3, <2>4, <2>5, <2>6, <2>7 DEF SpanInv
  <2>8. CASE t <= now
    BY <2>1, <2>2, <2>3, <2>5, <2>6, <2>8 DEF SpanInv
  <2>. QED BY <2>3, <2>7, <2>8
<1>2. ASSUME NEW key \in Keys, Hit(key) PROVE SpanInv(j, t)'
  BY <1>2, SpanHit
<1>3. CASE UNCHANGED vars
  BY <1>3 DEF vars, AllowanceInv, SpanInv, InSpan, Span, Tracked, Spent
<1>. QED BY <1>1, <1>2, <1>3 DEF Next

LEMMA AllowanceInitially == Init => TypeOK /\ LogsInv /\ AllowanceInv
<1> SUFFICES ASSUME Init PROVE TypeOK /\ LogsInv /\ AllowanceInv
  OBVIOUS
<1>1. TypeOK
  BY LimitsAssumption DEF Init, TypeOK, Tracked, Ticks
<1>2. LogInv({})
  BY FS_EmptySet DEF LogInv
<1>3. LogsInv
  BY <1>2 DEF Init, LogsInv
<1>4. ASSUME NEW key \in Keys, NEW t \in Ticks PROVE SpanInv(key, t)
  <2>1. InSpan(grants[key], t) = 0
    <3>1. Span({}, t) = {}
      BY DEF Span
    <3>. QED BY <3>1, FS_EmptySet DEF Init, InSpan
  <2>2. key \notin Tracked
    BY DEF Init, Tracked
  <2>3. MaxPerWindow * (1 + InSpan(wipes, t)) \in Nat /\ MaxPerWindow \in Nat
        /\ MaxPerWindow * (2 + InSpan(wipes, t)) = MaxPerWindow * (1 + InSpan(wipes, t)) + MaxPerWindow
    BY <1>3, AllowedType, LimitsAssumption
  <2>4. PICK x \in Nat : x = MaxPerWindow * (1 + InSpan(wipes, t))
    BY <2>3
  <2>. QED BY <2>1, <2>2, <2>3, <2>4 DEF SpanInv
<1>. QED
  BY <1>1, <1>3, <1>4 DEF AllowanceInv

\* Allowance: trimming and wiping let a client have, in any span of one window, two
\* windows' worth of requests and one more for each wipe in the span: the exact price
\* of clearing the map in RateLimiter::hit.
THEOREM AllowanceHolds == Spec => []Allowance
<1>1. AllowanceInv => Allowance
  BY DEF AllowanceInv, SpanInv, Allowance
<1>. QED
  BY <1>1, AllowanceInitially, TypeStep, LogsKept, AllowanceKept, PTL DEF Spec
=============================================================================
