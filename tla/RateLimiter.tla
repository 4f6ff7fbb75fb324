---------------------------- MODULE RateLimiter ----------------------------
(***************************************************************************)
(* The fixed-window limiter in front of the two POST routes                *)
(* (registry/src/ratelimit.rs, called by rate_limit_mw in http.rs): a map  *)
(* from client to the start of its window and its hits in it.  Past a cap  *)
(* the map is trimmed of expired windows, and when that does not help it   *)
(* is wiped.                                                               *)
(***************************************************************************)
EXTENDS Integers, FiniteSets

CONSTANTS
  Keys,          \* clients, their names already cut to 45 characters
  MaxPerWindow,  \* max_per_window
  Window,        \* window, in ticks
  Second,        \* ticks in a second
  Cap,           \* 10_000: entries past which the map is trimmed
  MaxClock,      \* bound: the clock stays within 0..MaxClock
  MaxHits        \* bound: requests

ASSUME ClientAssumption == IsFiniteSet(Keys)
ASSUME LimitsAssumption ==
  /\ MaxPerWindow \in Nat \ {0} /\ Window \in Nat \ {0} /\ Second \in Nat \ {0}
  /\ Cap \in Nat /\ MaxClock \in Nat /\ MaxHits \in Nat

VARIABLES
  hits,     \* the map: [t0, count] of each key it holds
  now,      \* Instant::now(): monotonic
  grants,   \* history: a log per key of the requests let through
  wipes,    \* history: a log of the times the map was wiped
  advised,  \* history: when each key was last told to come back, or Never
  total     \* history: requests

vars == <<hits, now, grants, wipes, advised, total>>

Never == -1

Ticks == 0..MaxClock

Tracked == DOMAIN hits

-----------------------------------------------------------------------------
(* hit                                                                     *)

\* Mutant: retain's predicate is the wrong way round.
Fresh_Inverted(key) == now - hits[key].t0 >= Window

\* now.duration_since(t0) < window
Fresh(key) == now - hits[key].t0 < Window

\* The keys retain keeps once the map is past its cap.
Kept == IF Cardinality(Tracked) > Cap THEN {key \in Tracked : Fresh(key)} ELSE Tracked

\* Mutant: nothing is wiped when every window is fresh.
Wiped_Never == FALSE

\* Retain was not enough: the map is cleared.
Wiped == Cardinality(Kept) > Cap

Survivors == IF Wiped THEN {} ELSE Kept

\* The key's entry with this hit counted: a missing or expired one starts over.
EntryAfter(key) ==
  IF key \in Survivors /\ Fresh(key)
  THEN [t0 |-> hits[key].t0, count |-> hits[key].count + 1]
  ELSE [t0 |-> now, count |-> 1]

Granted(key) == EntryAfter(key).count <= MaxPerWindow

\* Mutant: the age of the window is told, not what is left of it.
RetryAfter_Age(key) ==
  LET secs == (now - EntryAfter(key).t0) \div Second
  IN IF secs > 1 THEN secs ELSE 1

\* remaining.as_secs().max(1)
RetryAfter(key) ==
  LET secs == (Window - (now - EntryAfter(key).t0)) \div Second
  IN IF secs > 1 THEN secs ELSE 1

\* A log with one more entry: the tick it is made at, and its number.
Logged(entries) == entries \cup {<<now, Cardinality(entries) + 1>>}

\* A request of `key` reaches the limiter: next.run, or 429 and Retry-After.
Hit(key) ==
  /\ total < MaxHits
  /\ total' = total + 1
  /\ hits' = [j \in Survivors \cup {key} |-> IF j = key THEN EntryAfter(key) ELSE hits[j]]
  /\ wipes' = IF Wiped THEN Logged(wipes) ELSE wipes
  /\ IF Granted(key)
     THEN /\ grants' = [grants EXCEPT ![key] = Logged(@)]
          /\ advised' = [advised EXCEPT ![key] = Never]
     ELSE /\ advised' = [advised EXCEPT ![key] = now + RetryAfter(key) * Second]
          /\ UNCHANGED grants
  /\ UNCHANGED now

Tick ==
  /\ now < MaxClock
  /\ now' = now + 1
  /\ UNCHANGED <<hits, grants, wipes, advised, total>>

Init ==
  /\ hits = [key \in {} |-> [t0 |-> 0, count |-> 1]]
  /\ now = 0
  /\ grants = [key \in Keys |-> {}]
  /\ wipes = {}
  /\ advised = [key \in Keys |-> Never]
  /\ total = 0

Next == Tick \/ \E key \in Keys : Hit(key)

Spec == Init /\ [][Next]_vars

-----------------------------------------------------------------------------
(* Properties.                                                             *)

\* The types of the map and the clock.
TypeOK ==
  /\ Tracked \subseteq Keys
  /\ hits \in [Tracked -> [t0 : 0..now, count : Nat \ {0}]]
  /\ now \in Ticks

\* However keys are sprayed, the map holds an entry more than the cap at most.
MemoryBounded == Cardinality(Tracked) <= Cap + 1

\* The entries of a log in the span of one window from t on.
Span(entries, t) == {e \in entries : t <= e[1] /\ e[1] < t + Window}

InSpan(entries, t) == Cardinality(Span(entries, t))

\* Trimming costs a client nothing: in any span of one window a key is let
\* through for the two fixed windows that overlap the span, and once more for
\* each time the map was wiped in it.
Allowance ==
  \A key \in Keys, t \in Ticks :
    InSpan(grants[key], t) <= MaxPerWindow * (2 + InSpan(wipes, t))

\* A key that was refused and comes back a second after the time it was told is
\* let through: the advice is short by less than the second as_secs cuts off.
RetryIsGranted ==
  [][\A key \in Keys :
       /\ total' # total /\ advised[key] # Never /\ now >= advised[key] + Second
       => advised'[key] \in {advised[key], Never}]_vars

-----------------------------------------------------------------------------
(* A claim of the source that the code does not keep.                      *)

\* ratelimit.rs says that a sprayer at most doubles another key's allowance per
\* window: twice what the two overlapping windows allow.  Every wipe adds to it.
SprayAtMostDoubles ==
  \A key \in Keys, t \in Ticks : InSpan(grants[key], t) <= 2 * (2 * MaxPerWindow)
=============================================================================
