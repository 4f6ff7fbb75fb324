--------------------------- MODULE AiBenchProofs ---------------------------
(***************************************************************************)
(* Proofs about AiBench: what a whole AI benchmark grinds, how it is timed *)
(* and which submissions a registry accepts, for all sizes, rates, windows *)
(* and versions of the registry.                                           *)
(*                                                                         *)
(* The invariant Inv has a part per concern: what was settled before the   *)
(* mint (QuoteInv), what is ground (WorkInv), what the search has found    *)
(* (SearchInv), the certificates (CertInv), the registry's checks          *)
(* (BodyInv) and the clock (TimeInv).  The tiers take arithmetic of powers *)
(* of two, which the provers do not know: 2^n is the number of subsets of  *)
(* 1..n, and induction over numbers is the well-founded minimum of the     *)
(* counterexamples.                                                        *)
(***************************************************************************)
EXTENDS AiBench, FiniteSetTheorems, SequenceTheorems, WellFoundedInduction, TLAPS

-----------------------------------------------------------------------------
(* The inductive invariants.                                               *)

\* Where a challenge has been minted or chosen.
Minted ==
  {"open", "search", "batch", "prove", "submit", "check", "local", "accepted", "refused"}

HasWork == pc \in Minted \/ work # None

\* The types of what the search is told and keeps.
TypeInv ==
  /\ pc \in Stages \cup Ended
  /\ cli \in Flags
  /\ registry \in Registries \cup {None}
  /\ calibrated \in BOOLEAN
  /\ age \in Nat
  /\ loop \in [next : Nat, wins : Seq(Nat), tried : Nat, end : Nat, opened : Nat, elapsed : Nat]
  /\ wins \in Seq(Win)
  /\ checked \in Nat

GrindRate == IF cli.gpu THEN GpuRate ELSE CpuRate

\* Once there is a challenge or the run is about to ask for one, its tier is granted;
\* only a pinned target goes without.
QuoteInv ==
  /\ pc \in {"backend", "tier"} =>
       tier \in Requests \cup {None} /\ ~calibrated /\ work = None
  /\ pc = "mint" \/ HasWork =>
       /\ tier \in Tiers \cup {None}
       /\ tier = None => cli.target # None
       /\ calibrated => /\ cli.target = None
                        /\ tier = Grant(GrindRate * ProveRatio * Proving)

\* What is ground is what the client asked for.
WorkInv ==
  HasWork =>
    /\ work.rule = cli.statement
    /\ work.target \in 0..HashBits - 1
    /\ work.winners \subseteq 0..Ordinals - 1
    /\ work.k \in Ks
    /\ registry # None => work.k = registry.k
    /\ tier # None /\ (IF registry = None THEN cli.target = None ELSE registry.speaks = "tiers")
         => Expected(cli.statement, work.target) = tier

Increasing(s) == \A i, j \in 1..Len(s) : i < j => s[i] < s[j]

\* The search has found all the winners below the next ordinal and nothing else.
SearchInv ==
  /\ loop.tried = loop.next
  /\ pc \in {"backend", "tier", "mint", "open"} => loop.next = 0 /\ loop.wins = <<>>
  /\ HasWork =>
       /\ Increasing(loop.wins)
       /\ Range(loop.wins) = work.winners \cap (0..loop.next - 1)
  /\ pc \in {"search", "batch"} => Len(loop.wins) < work.k
  /\ pc = "search" => loop.next <= Ordinals /\ (~cli.gpu => loop.next < Ordinals)
  /\ pc = "batch" => loop.next < loop.end /\ cli.gpu /\ loop.end <= Ordinals
  /\ pc \in {"prove", "submit", "check", "accepted", "refused"} => Len(loop.wins) = work.k

\* Each win is certified in its turn.
CertInv ==
  /\ pc \notin {"prove", "submit", "check", "local", "accepted", "refused", "stopped"} => wins = <<>>
  /\ pc \in {"prove", "submit", "check", "accepted"} =>
       \A i \in 1..Len(wins) : i <= Len(loop.wins) /\ wins[i] = Certified(loop.wins[i])
  /\ pc = "prove" => Len(wins) < Len(loop.wins)
  /\ pc \in {"submit", "check", "accepted", "refused"} =>
       Len(wins) = Len(loop.wins) /\ registry # None

\* What the registry has let through, and why it refused.
BodyInv ==
  /\ pc \notin {"check", "accepted", "refused", "stopped"} => checked = 0
  /\ pc \in {"check", "accepted"} =>
       /\ body \in Seq(Win)
       /\ Len(body) = registry.k /\ Ascending(body) /\ InRange(body)
       /\ checked <= Len(body)
       /\ \A i \in 1..checked : Verifies(body[i])
       /\ fault = "none" => body = wins
  /\ pc = "accepted" => checked = Len(body) /\ age <= Window
  /\ HonestRunAccepted

\* What n certificates take.
Certificates(n) ==
  IF n = 0 THEN 0
  ELSE IF cli.statement = "dense" THEN Proving + (n - 1) * Reproving
  ELSE n * Proving

Session == IF cli.gpu THEN Warming ELSE 0

\* Within the window the age of the challenge is the sum of what was done with it.
TimeInv ==
  /\ pc \in {"backend", "tier", "mint", "open"} => age = 0
  /\ pc \in {"search", "batch"} /\ age <= Window =>
       loop.opened = Session /\ age >= Session /\ (~cli.gpu => age = Session + loop.tried)
  /\ pc \in {"prove", "submit", "check", "accepted"} =>
       /\ loop.elapsed >= 1
       /\ age <= Window =>
            /\ age = Session + loop.elapsed + Certificates(Len(wins)) + checked * Checking
            /\ ~cli.gpu => loop.elapsed = loop.tried

Inv ==
  TypeInv /\ QuoteInv /\ WorkInv /\ SearchInv /\ CertInv /\ BodyInv /\ TimeInv

-----------------------------------------------------------------------------
(* Powers of two.  2^n counts the subsets of 1..n, which is all the provers *)
(* know of it.                                                             *)

\* Induction, for a set of numbers.
LEMMA InductionOverNat ==
  ASSUME NEW S \in SUBSET Nat, 0 \in S, \A n \in S : n + 1 \in S
  PROVE  S = Nat
<1> SUFFICES ASSUME Nat \ S # {} PROVE FALSE
  OBVIOUS
<1>1. PICK m \in Nat \ S : \A j \in Nat \ S : ~(<<j, m>> \in OpToRel(<, Nat))
  <2> HIDE DEF OpToRel
  <2>. QED BY NatLessThanWellFounded, WFMin
<1>2. \A j \in Nat \ S : ~(j < m)
  BY <1>1 DEF OpToRel
<1>3. m # 0 /\ m - 1 \in Nat
  OBVIOUS
<1>4. m - 1 \in S
  BY <1>2, <1>3
<1>. QED
  BY <1>3, <1>4

\* A set of numbers that is not empty has a least one.
LEMMA LeastIsIn ==
  ASSUME NEW S \in SUBSET Nat, S # {}
  PROVE  Min(S) \in S /\ \A y \in S : Min(S) <= y
<1>1. PICK m \in S : \A j \in S : ~(<<j, m>> \in OpToRel(<, Nat))
  <2> HIDE DEF OpToRel
  <2>. QED BY NatLessThanWellFounded, WFMin
<1>2. \A j \in S : ~(j < m)
  BY <1>1 DEF OpToRel
<1>3. \A j \in S : m <= j
  BY <1>2
<1>. QED
  BY <1>3 DEF Min

LEMMA PowerCounts ==
  ASSUME NEW n \in Nat
  PROVE  IsFiniteSet(SUBSET (1..n)) /\ Cardinality(SUBSET (1..n)) = 2^n
<1>1. IsFiniteSet(1..n) /\ Cardinality(1..n) = n
  BY FS_Interval
<1> DEFINE I == 1..n
<1> HIDE DEF I
<1>2. IsFiniteSet(SUBSET I) /\ Cardinality(SUBSET I) = 2^Cardinality(I)
  BY <1>1, FS_SUBSET DEF I
<1>. QED
  BY <1>1, <1>2 DEF I

LEMMA PowerType ==
  ASSUME NEW n \in Nat
  PROVE  2^n \in Nat /\ 2^n >= 1
<1> DEFINE A == SUBSET (1..n)
<1>1. IsFiniteSet(A) /\ Cardinality(A) = 2^n
  BY PowerCounts
<1>2. A # {}
  OBVIOUS
<1> HIDE DEF A
<1>3. Cardinality(A) \in Nat /\ Cardinality(A) # 0
  BY <1>1, <1>2, FS_CardinalityType, FS_EmptySet
<1>. QED
  BY <1>1, <1>3

LEMMA PowerStep ==
  ASSUME NEW n \in Nat
  PROVE  2^(n + 1) = 2 * 2^n
<1> DEFINE A == SUBSET (1..n)
           B == {s \cup {n + 1} : s \in A}
           f == [s \in A |-> s \cup {n + 1}]
<1>1. A \cup B = SUBSET (1..(n + 1))
  <2>1. \A s \in A : s \subseteq 1..(n + 1) /\ s \cup {n + 1} \subseteq 1..(n + 1)
    OBVIOUS
  <2>2. ASSUME NEW s \in SUBSET (1..(n + 1)) PROVE s \in A \cup B
    <3>1. CASE n + 1 \in s
      <4>1. s \ {n + 1} \in A /\ s = (s \ {n + 1}) \cup {n + 1}
        BY <3>1
      <4>. QED BY <4>1
    <3>2. CASE n + 1 \notin s
      <4>1. s \in A
        BY <3>2
      <4>. QED BY <4>1
    <3>. QED BY <3>1, <3>2
  <2>3. A \subseteq SUBSET (1..(n + 1)) /\ B \subseteq SUBSET (1..(n + 1))
    BY <2>1
  <2> HIDE DEF A, B
  <2>. QED BY <2>2, <2>3
<1>2. A \cap B = {}
  OBVIOUS
<1>3. f \in Bijection(A, B)
  <2>1. \A s, t \in A : f[s] = f[t] => s = t
    <3> SUFFICES ASSUME NEW s \in A, NEW t \in A, s \cup {n + 1} = t \cup {n + 1}
                 PROVE  s = t
      OBVIOUS
    <3>1. n + 1 \notin s /\ n + 1 \notin t
      OBVIOUS
    <3>. QED BY <3>1
  <2>2. f \in [A -> B] /\ \A y \in B : \E s \in A : f[s] = y
    OBVIOUS
  <2> HIDE DEF A, B, f
  <2>. QED BY <2>1, <2>2 DEF Bijection, Injection, Surjection, IsInjective
<1>4. IsFiniteSet(A) /\ Cardinality(A) = 2^n
  BY PowerCounts
<1>5. Cardinality(SUBSET (1..(n + 1))) = 2^(n + 1)
  BY PowerCounts
<1> HIDE DEF A, B, f
<1>6. IsFiniteSet(B) /\ Cardinality(B) = Cardinality(A)
  BY <1>3, <1>4, FS_Bijection DEF ExistsBijection
<1>7. Cardinality(A \cup B) = Cardinality(A) + Cardinality(B) - Cardinality(A \cap B)
  BY <1>4, <1>6, FS_Union
<1>8. Cardinality(A \cap B) = 0 /\ 2^n \in Nat
  BY <1>2, FS_EmptySet, PowerType
<1>9. Cardinality(A \cup B) = 2^(n + 1)
  BY <1>1, <1>5
<1>. QED
  BY <1>4, <1>6, <1>7, <1>8, <1>9

LEMMA PowerAdd ==
  ASSUME NEW m \in Nat, NEW n \in Nat
  PROVE  2^(m + n) = 2^m * 2^n
<1> DEFINE S == {i \in Nat : 2^(m + i) = 2^m * 2^i}
<1>1. 2^0 = 1
  OBVIOUS
<1>2. 0 \in S
  BY <1>1, PowerType
<1>3. ASSUME NEW i \in S PROVE i + 1 \in S
  <2>1. i \in Nat /\ 2^(m + i) = 2^m * 2^i /\ m + i \in Nat
    OBVIOUS
  <2>2. 2^((m + i) + 1) = 2 * 2^(m + i) /\ 2^(i + 1) = 2 * 2^i
    BY <2>1, PowerStep
  <2>3. 2^m \in Nat /\ 2^i \in Nat
    BY <2>1, PowerType
  <2>4. 2 * (2^m * 2^i) = 2^m * (2 * 2^i)
    BY <2>3
  <2>5. (m + i) + 1 = m + (i + 1)
    BY <2>1
  <2>. QED
    BY <2>1, <2>2, <2>4, <2>5
<1>4. S = Nat
  <2> HIDE DEF S
  <2>1. S \subseteq Nat
    BY DEF S
  <2>. QED BY <1>2, <1>3, <2>1, InductionOverNat
<1>. QED
  BY <1>4

\* A larger exponent is a power twice as large at least.
LEMMA PowerDoubles ==
  ASSUME NEW m \in Nat, NEW n \in Nat, m < n
  PROVE  2 * 2^m <= 2^n
<1> DEFINE d == n - m - 1
<1>1. d \in Nat /\ n = (m + 1) + d
  OBVIOUS
<1>2. 2^n = 2^(m + 1) * 2^d
  BY <1>1, PowerAdd
<1>3. 2^(m + 1) = 2 * 2^m /\ 2^m \in Nat /\ 2^d \in Nat /\ 2^d >= 1
  BY <1>1, PowerStep, PowerType
<1>4. \A x, y \in Nat : y >= 1 => x <= x * y
  OBVIOUS
<1> HIDE DEF d
<1>5. 2^(m + 1) \in Nat
  BY <1>3
<1>. QED
  BY <1>2, <1>3, <1>4, <1>5

LEMMA PowerInjective ==
  ASSUME NEW m \in Nat, NEW n \in Nat, 2^m = 2^n
  PROVE  m = n
  BY PowerDoubles, PowerType

-----------------------------------------------------------------------------
(* Tiers.                                                                  *)

LEMMA TierType ==
  ASSUME NEW t \in Tiers
  PROVE  t \in Nat /\ t >= 1
<1>1. PICK b \in MinBit..MaxBit : t = 2^b
  BY DEF Tiers
<1>. QED
  BY <1>1, TierAssumption, PowerType

\* A request between the smallest and the largest tier is between two neighbours.
LEMMA Bracketed ==
  ASSUME NEW n \in Nat, 2^MinBit <= n, n < 2^MaxBit
  PROVE  \E b \in MinBit..MaxBit - 1 : 2^b <= n /\ n < 2 * 2^b /\ 2 * 2^b = 2^(b + 1)
<1> SUFFICES ASSUME \A b \in MinBit..MaxBit - 1 : 2^b <= n => ~(n < 2 * 2^b) PROVE FALSE
  <2>1. \A b \in MinBit..MaxBit - 1 : b \in Nat /\ 2 * 2^b = 2^(b + 1)
    BY PowerStep, TierAssumption
  <2>. QED BY <2>1
<1> DEFINE S == {d \in Nat : MinBit + d <= MaxBit => 2^(MinBit + d) <= n}
<1>1. 0 \in S
  <2>1. MinBit + 0 = MinBit
    BY TierAssumption
  <2>. QED BY <2>1
<1>2. ASSUME NEW d \in S, MinBit + (d + 1) <= MaxBit PROVE 2^(MinBit + (d + 1)) <= n
  <2>1. d \in Nat /\ MinBit + d \in MinBit..MaxBit - 1 /\ MinBit + d \in Nat
    BY <1>2, TierAssumption
  <2>2. 2^(MinBit + d) <= n
    BY <2>1, TierAssumption
  <2>3. 2^((MinBit + d) + 1) = 2 * 2^(MinBit + d) /\ 2^(MinBit + d) \in Nat
    BY <2>1, PowerStep, PowerType
  <2>4. MinBit + (d + 1) = (MinBit + d) + 1
    BY <2>1, TierAssumption
  <2>. QED
    BY <2>1, <2>2, <2>3, <2>4
<1>3. S = Nat
  <2>1. \A d \in S : d + 1 \in S
    BY <1>2
  <2>2. S \subseteq Nat
    OBVIOUS
  <2> HIDE DEF S
  <2>. QED BY <1>1, <2>1, <2>2, InductionOverNat
<1>4. MaxBit - MinBit \in S
  <2> HIDE DEF S
  <2>. QED BY <1>3, TierAssumption
<1>5. 2^(MinBit + (MaxBit - MinBit)) <= n
  BY <1>4, TierAssumption
<1>6. MinBit + (MaxBit - MinBit) = MaxBit /\ 2^MaxBit \in Nat
  BY TierAssumption, PowerType
<1>. QED
  BY <1>5, <1>6

\* grant_attempts between the two: the lower neighbour, or the upper one past their
\* geometric mean.
LEMMA NearestIs ==
  ASSUME NEW n \in Nat, NEW b \in MinBit..MaxBit - 1, 2^b <= n, n < 2 * 2^b
  PROVE  Nearest(n) = IF n * n >= 2^b * (2 * 2^b) /\ n # 2^b THEN 2 * 2^b ELSE 2^b
<1> DEFINE S == {t \in Tiers : t <= n}
<1>1. b \in Nat /\ 2^b \in S /\ 2^b \in Nat
  BY TierAssumption, PowerType DEF Tiers
<1>2. ASSUME NEW t \in S PROVE t <= 2^b
  <2>1. PICK c \in MinBit..MaxBit : t = 2^c
    BY DEF Tiers
  <2>2. c \in Nat /\ 2^c \in Nat /\ 2^c <= n
    BY <2>1, TierAssumption, PowerType
  <2>3. ~(b < c)
    BY <1>1, <2>2, PowerDoubles
  <2>4. CASE c = b
    BY <1>1, <2>1, <2>4
  <2>5. CASE c < b
    <3>1. 2 * 2^c <= 2^b
      BY <1>1, <2>2, <2>5, PowerDoubles
    <3>. QED BY <1>1, <2>1, <2>2, <3>1
  <2>. QED BY <1>1, <2>2, <2>3, <2>4, <2>5
<1>3. \A t \in S : t \in Nat
  BY TierType
<1> HIDE DEF S
<1>4. Max(S) = 2^b
  BY <1>1, <1>2, <1>3 DEF Max
<1>5. Max({t \in Tiers : t <= n}) = 2^b
  BY <1>4 DEF S
<1>. QED
  BY <1>5 DEF Nearest

\* What grant_attempts grants: a clamped request, or a neighbour.
LEMMA GrantIs ==
  ASSUME NEW n \in Nat
  PROVE  \/ n <= 2^MinBit /\ Grant(n) = 2^MinBit
         \/ n >= 2^MaxBit /\ Grant(n) = 2^MaxBit
         \/ \E b \in MinBit..MaxBit - 1 :
              /\ 2^b <= n /\ n < 2 * 2^b /\ 2 * 2^b = 2^(b + 1)
              /\ Grant(n) = IF n * n >= 2^b * (2 * 2^b) /\ n # 2^b THEN 2 * 2^b ELSE 2^b
<1>1. 2^MinBit \in Nat /\ 2^MaxBit \in Nat
  BY PowerType, TierAssumption
<1>2. CASE 2^MinBit < n /\ n < 2^MaxBit
  <2>1. PICK b \in MinBit..MaxBit - 1 : 2^b <= n /\ n < 2 * 2^b /\ 2 * 2^b = 2^(b + 1)
    BY <1>1, <1>2, Bracketed
  <2>2. Grant(n) = Nearest(n)
    BY <1>1, <1>2 DEF Grant
  <2>. QED BY <2>1, <2>2, NearestIs
<1>3. CASE n <= 2^MinBit
  BY <1>3 DEF Grant
<1>4. CASE ~(n <= 2^MinBit) /\ n >= 2^MaxBit
  BY <1>4 DEF Grant
<1>. QED
  BY <1>1, <1>2, <1>3, <1>4

\* Only tiers are granted.
LEMMA GrantsTiers ==
  ASSUME NEW n \in Nat
  PROVE  Grant(n) \in Tiers
<1>1. MinBit \in MinBit..MaxBit /\ MaxBit \in MinBit..MaxBit
      /\ \A b \in MinBit..MaxBit - 1 : b \in MinBit..MaxBit /\ b + 1 \in MinBit..MaxBit
  BY TierAssumption
<1>. QED
  BY <1>1, GrantIs DEF Tiers

\* A tier is granted as it is.
LEMMA GrantKeepsTiers ==
  ASSUME NEW t \in Tiers
  PROVE  Grant(t) = t
<1>1. PICK c \in MinBit..MaxBit : t = 2^c
  BY DEF Tiers
<1>2. c \in Nat /\ t \in Nat /\ MinBit \in Nat /\ MaxBit \in Nat
      /\ 2^MinBit \in Nat /\ 2^MaxBit \in Nat
  BY <1>1, TierAssumption, PowerType
<1>3. CASE t <= 2^MinBit
  <2>1. ~(MinBit < c)
    BY <1>1, <1>2, <1>3, PowerDoubles, PowerType
  <2>2. c = MinBit
    BY <1>2, <2>1
  <2>. QED BY <1>1, <1>3, <2>2 DEF Grant
<1>4. CASE ~(t <= 2^MinBit) /\ t >= 2^MaxBit
  <2>1. ~(c < MaxBit)
    BY <1>1, <1>2, <1>4, PowerDoubles, PowerType
  <2>2. c = MaxBit
    BY <1>2, <2>1
  <2>. QED BY <1>1, <1>4, <2>2 DEF Grant
<1>5. CASE ~(t <= 2^MinBit) /\ ~(t >= 2^MaxBit)
  <2>1. c # MaxBit
    BY <1>1, <1>2, <1>5
  <2>2. c \in MinBit..MaxBit - 1 /\ t < 2 * t
    BY <1>1, <1>2, <2>1, TierType
  <2>3. Nearest(t) = t
    BY <1>1, <1>2, <2>2, NearestIs
  <2>. QED BY <1>5, <2>3 DEF Grant
<1>. QED
  BY <1>3, <1>4, <1>5

\* The target of a tier scores that tier, for either statement.
LEMMA TargetScoresTier ==
  ASSUME NEW statement \in Statements, NEW t \in Tiers
  PROVE  /\ Expected(statement, TargetFor(statement, t)) = t
         /\ TargetFor(statement, t) \in 0..HashBits - 1
<1>1. PICK b \in MinBit..MaxBit : t = 2^b
  BY DEF Tiers
<1> DEFINE scale == IF statement = "dense" THEN 0 ELSE ScaleBits
           S == {bit \in 0..HashBits - 1 : Expected(statement, bit) = t}
<1>2. scale \in Nat /\ scale <= ScaleBits /\ HashBits - b - scale \in 0..HashBits - 1
      /\ HashBits \in Nat
  <2>1. {HashBits, Mantissa, ScaleBits, MaxBit, MinBit, b} \subseteq Nat
        /\ 1 <= b /\ b <= MaxBit /\ MaxBit + Mantissa + ScaleBits < HashBits
    BY TierAssumption
  <2>2. scale \in Nat /\ scale <= ScaleBits
    BY <2>1
  <2> HIDE DEF scale
  <2>. QED BY <2>1, <2>2
<1>3. HashBits - b - scale \in S
  <2>1. ThresholdBit(statement, HashBits - b - scale) = HashBits - b
    BY <1>2, TierAssumption DEF ThresholdBit
  <2>2. HashBits - b < HashBits /\ HashBits - b >= Mantissa /\ HashBits - (HashBits - b) = b
    BY <1>2, TierAssumption
  <2>. QED
    BY <1>1, <1>2, <2>1, <2>2 DEF Expected, Scales
<1>4. S \subseteq Nat /\ S # {} /\ S \subseteq 0..HashBits - 1
  <2>1. 0..HashBits - 1 \subseteq Nat
    BY <1>2
  <2>. QED BY <1>3, <2>1
<1> HIDE DEF S
<1>5. Min(S) \in S
  BY <1>4, LeastIsIn
<1>. QED
  BY <1>4, <1>5 DEF S, TargetFor

\* No tier is nearer to the request than the one granted.
LEMMA GrantsNearest ==
  ASSUME NEW n \in Nat, NEW t \in Tiers
  PROVE  Nearer(Grant(n), t, n)
<1> DEFINE g == Grant(n)
<1>1. \A a, b \in Nat : Max({a, b}) = IF a >= b THEN a ELSE b
  BY DEF Max
<1>2. \A a, b \in Nat : Min({a, b}) = IF a <= b THEN a ELSE b
  BY DEF Min
<1>3. g \in Nat /\ g >= 1 /\ t \in Nat /\ t >= 1
  BY GrantsTiers, TierType
<1>4. PICK c \in MinBit..MaxBit : t = 2^c
  BY DEF Tiers
<1>5. c \in Nat /\ MinBit \in Nat /\ MaxBit \in Nat
  BY TierAssumption
\* Factors may be compared one at a time.
<1>6. \A a, b, x, y \in Nat : a <= b /\ x <= y => a * x <= b * y
  <2> SUFFICES ASSUME NEW a \in Nat, NEW b \in Nat, NEW x \in Nat, NEW y \in Nat, a <= b, x <= y
               PROVE  a * x <= b * y
    OBVIOUS
  <2>1. a * x <= b * x
    OBVIOUS
  <2>2. b * x <= b * y
    OBVIOUS
  <2>3. a * x \in Nat /\ b * x \in Nat /\ b * y \in Nat
    OBVIOUS
  <2>. QED BY <2>1, <2>2, <2>3
<1>7. CASE n <= 2^MinBit /\ g = 2^MinBit
  <2>1. g <= t
    BY <1>3, <1>4, <1>5, <1>7, PowerDoubles, PowerType
  <2>2. Max({g, n}) = g /\ Max({t, n}) = t /\ Min({t, n}) = n /\ Min({g, n}) = n
    BY <1>1, <1>2, <1>3, <1>7, <2>1
  <2> HIDE DEF g
  <2>. QED BY <1>3, <1>6, <2>1, <2>2 DEF Nearer, g
<1>8. CASE n >= 2^MaxBit /\ g = 2^MaxBit
  <2>1. t <= g
    BY <1>3, <1>4, <1>5, <1>8, PowerDoubles, PowerType
  <2>2. Max({g, n}) = n /\ Max({t, n}) = n /\ Min({t, n}) = t /\ Min({g, n}) = g
    BY <1>1, <1>2, <1>3, <1>8, <2>1
  <2> HIDE DEF g
  <2>. QED BY <1>3, <1>6, <2>1, <2>2 DEF Nearer, g
<1>9. ASSUME NEW b \in MinBit..MaxBit - 1, 2^b <= n, n < 2 * 2^b, 2 * 2^b = 2^(b + 1),
             g = IF n * n >= 2^b * (2 * 2^b) /\ n # 2^b THEN 2 * 2^b ELSE 2^b
      PROVE  Nearer(g, t, n)
  <2> DEFINE lo == 2^b
  <2>1. b \in Nat /\ lo \in Nat /\ lo >= 1
    BY <1>5, PowerType
  <2>2. t <= lo \/ t >= 2 * lo
    <3>1. CASE c <= b
      BY <1>3, <1>4, <1>5, <2>1, <3>1, PowerDoubles
    <3>2. CASE b < c
      BY <1>4, <1>5, <2>1, <3>2, PowerDoubles
    <3>. QED BY <1>5, <2>1, <3>1, <3>2
  <2>3. lo <= n /\ n < 2 * lo /\ g = IF n * n >= lo * (2 * lo) /\ n # lo THEN 2 * lo ELSE lo
    BY <1>9
  <2> HIDE DEF g, lo
  <2>4. CASE n * n >= lo * (2 * lo) /\ n # lo /\ t <= lo
    <3>1. Max({g, n}) = 2 * lo /\ Max({t, n}) = n /\ Min({t, n}) = t /\ Min({g, n}) = n
      BY <1>1, <1>2, <1>3, <2>1, <2>3, <2>4
    <3>2. (2 * lo) * t <= (2 * lo) * lo
      BY <1>3, <2>1, <2>4
    <3>3. (2 * lo) * lo = lo * (2 * lo) /\ (2 * lo) * t \in Nat /\ lo * (2 * lo) \in Nat
          /\ n * n \in Nat
      BY <1>3, <2>1
    <3>4. (2 * lo) * t <= n * n
      BY <2>4, <3>2, <3>3
    <3>. QED BY <3>1, <3>4 DEF Nearer
  <2>5. CASE n * n >= lo * (2 * lo) /\ n # lo /\ t >= 2 * lo
    <3>1. Max({g, n}) = 2 * lo /\ Max({t, n}) = t /\ Min({t, n}) = n /\ Min({g, n}) = n
      BY <1>1, <1>2, <1>3, <2>1, <2>3, <2>5
    <3>2. (2 * lo) * n <= t * n
      BY <1>3, <1>6, <2>1, <2>5
    <3>. QED BY <3>1, <3>2 DEF Nearer
  <2>6. CASE (n * n < lo * (2 * lo) \/ n = lo) /\ t <= lo
    <3>1. Max({g, n}) = n /\ Max({t, n}) = n /\ Min({t, n}) = t /\ Min({g, n}) = lo
      BY <1>1, <1>2, <1>3, <2>1, <2>3, <2>6
    <3>2. n * t <= n * lo
      BY <1>3, <1>6, <2>1, <2>6
    <3>. QED BY <3>1, <3>2 DEF Nearer
  <2>7. CASE (n * n < lo * (2 * lo) \/ n = lo) /\ t >= 2 * lo
    <3>1. Max({g, n}) = n /\ Max({t, n}) = t /\ Min({t, n}) = n /\ Min({g, n}) = lo
      BY <1>1, <1>2, <1>3, <2>1, <2>3, <2>7
    <3>2. (2 * lo) * lo <= t * lo /\ (2 * lo) * lo = lo * (2 * lo)
      BY <1>3, <1>6, <2>1, <2>7
    <3>3. n * n <= lo * (2 * lo)
      <4>1. CASE n = lo
        BY <1>6, <2>1, <4>1
      <4>2. CASE n * n < lo * (2 * lo)
        BY <2>1, <4>2
      <4>. QED BY <2>7, <4>1, <4>2
    <3>4. n * n \in Nat /\ t * lo \in Nat /\ lo * (2 * lo) \in Nat
      BY <1>3, <2>1
    <3>5. n * n <= t * lo
      BY <3>2, <3>3, <3>4
    <3>. QED BY <3>1, <3>5 DEF Nearer
  <2>8. n * n \in Nat /\ lo * (2 * lo) \in Nat
    BY <2>1
  <2>. QED BY <2>2, <2>4, <2>5, <2>6, <2>7, <2>8
<1>. QED
  BY <1>7, <1>8, <1>9, GrantIs

\* The hardest tier aside, a request is at most sqrt(2) times the tier granted.
LEMMA GrantCovers ==
  ASSUME NEW n \in Nat
  PROVE  Grant(n) = 2^MaxBit \/ 2 * Grant(n) * Grant(n) >= n * n
<1> DEFINE g == Grant(n)
<1>1. g \in Nat
  BY GrantsTiers, TierType
<1>2. CASE n <= g
  <2> HIDE DEF g
  <2>1. n * n <= g * n /\ g * n <= g * g /\ n * n \in Nat /\ g * n \in Nat /\ g * g \in Nat
    BY <1>1, <1>2
  <2>2. 2 * g * g = 2 * (g * g)
    BY <1>1
  <2>3. 2 * g * g >= n * n
    BY <2>1, <2>2
  <2>. QED BY <2>3 DEF g
<1>3. CASE n < 2 * g /\ (n * n < g * (2 * g) \/ n = g)
  <2> HIDE DEF g
  <2>1. CASE n = g
    BY <1>1, <1>2, <2>1 DEF g
  <2>2. CASE n * n < g * (2 * g)
    <3>1. g * (2 * g) = 2 * g * g /\ n * n \in Nat /\ g * (2 * g) \in Nat
      BY <1>1
    <3>. QED BY <2>2, <3>1 DEF g
  <2>. QED BY <1>3, <2>1, <2>2
<1>4. ASSUME NEW b \in MinBit..MaxBit - 1, 2^b <= n, n < 2 * 2^b,
             g = IF n * n >= 2^b * (2 * 2^b) /\ n # 2^b THEN 2 * 2^b ELSE 2^b
      PROVE  n <= g \/ (n < 2 * g /\ (n * n < g * (2 * g) \/ n = g))
  <2> DEFINE lo == 2^b
  <2>1. lo \in Nat /\ lo * (2 * lo) \in Nat /\ n * n \in Nat
    BY TierAssumption, PowerType
  <2>2. lo <= n /\ n < 2 * lo /\ g = IF n * n >= lo * (2 * lo) /\ n # lo THEN 2 * lo ELSE lo
    BY <1>4
  <2> HIDE DEF g, lo
  <2>. QED BY <2>1, <2>2
<1>5. g = 2^MaxBit \/ n <= g \/ (n < 2 * g /\ (n * n < g * (2 * g) \/ n = g))
  <2>1. CASE n <= 2^MinBit /\ g = 2^MinBit
    BY <2>1
  <2>. QED BY <1>4, <2>1, GrantIs
<1>. QED
  BY <1>2, <1>3, <1>5

\* A score is a number of attempts.
LEMMA ExpectedType ==
  ASSUME NEW statement, NEW bit \in 0..HashBits - 1
  PROVE  Expected(statement, bit) \in Nat
<1> DEFINE b == ThresholdBit(statement, bit)
<1>1. HashBits \in Nat /\ bit \in Nat /\ b \in Nat
  BY TierAssumption DEF ThresholdBit
<1> HIDE DEF b
<1>2. CASE ~(b < HashBits)
  BY <1>2 DEF Expected, Scales, b
<1>3. CASE b < HashBits /\ b >= Mantissa
  <2>1. HashBits - b \in Nat
    BY <1>1, <1>3
  <2>2. 2^(HashBits - b) \in Nat
    BY <2>1, PowerType
  <2>. QED BY <1>3, <2>2 DEF Expected, Scales, b
<1>4. CASE b < HashBits /\ ~(b >= Mantissa)
  <2>1. 2^HashBits \in Nat /\ 2^b \in Nat
    BY <1>1, PowerType
  <2>2. \A x, y \in Nat : x \div (y + 1) \in Nat
    OBVIOUS
  <2>3. 2^HashBits \div (2^b + 1) \in Nat
    BY <2>1, <2>2
  <2>. QED BY <1>4, <2>3 DEF Expected, Scales, b
<1>. QED
  BY <1>2, <1>3, <1>4

-----------------------------------------------------------------------------
(* The steps.                                                              *)

LoopType ==
  [next : Nat, wins : Seq(Nat), tried : Nat, end : Nat, opened : Nat, elapsed : Nat]

LEMMA PairBounds ==
  /\ \A a, b \in Int : Max({a, b}) = IF a >= b THEN a ELSE b
  /\ \A a, b \in Int : Min({a, b}) = IF a <= b THEN a ELSE b
  /\ \A x \in Int : Max({1, x}) = IF x >= 1 THEN x ELSE 1
  BY DEF Max, Min

\* Within the window, work ages the challenge by what it takes.
LEMMA TakesExactly ==
  ASSUME age \in Nat, NEW d \in Nat, Takes(d)
  PROVE  age' \in Nat /\ (age' <= Window => age <= Window /\ age' = age + d)
<1>1. Window \in Nat
  BY TimeAssumption
<1>. QED
  BY <1>1, PairBounds DEF Takes

\* The clock of a grind that has its k wins is stopped.
LEMMA ClosedIs ==
  ASSUME TypeInv, age' \in Nat, NEW w \in Seq(Nat), NEW n \in Nat, NEW t \in Nat,
         loop' = Closed([loop EXCEPT !.wins = w, !.next = n, !.tried = t])
  PROVE  /\ loop' \in LoopType
         /\ loop'.wins = w /\ loop'.next = n /\ loop'.tried = t
         /\ loop'.end = loop.end /\ loop'.opened = loop.opened
         /\ Len(w) = work.k => loop'.elapsed = Max({1, age' - loop.opened})
<1> DEFINE l == [loop EXCEPT !.wins = w, !.next = n, !.tried = t]
           e == Max({1, age' - loop.opened})
<1>1. loop \in LoopType /\ loop.opened \in Nat
  BY DEF TypeInv, LoopType
<1>2. e \in Nat
  <2>1. age' - loop.opened \in Int
    BY <1>1
  <2>2. \A x \in Int : Max({1, x}) \in Nat
    BY PairBounds
  <2>. QED BY <2>1, <2>2
<1>3. l.wins = w /\ l.opened = loop.opened
  BY <1>1 DEF LoopType
<1>4. loop' = IF Len(w) = work.k THEN [l EXCEPT !.elapsed = e] ELSE l
  <2> HIDE DEF l
  <2>. QED BY <1>3 DEF Closed, l
<1> HIDE DEF e
<1>4a. l = [loop EXCEPT !.wins = w, !.next = n, !.tried = t]
  OBVIOUS
<1> HIDE DEF l
<1>5. loop' = l \/ loop' = [l EXCEPT !.elapsed = e]
  BY <1>4
<1>6. /\ loop' \in LoopType
      /\ loop'.wins = w /\ loop'.next = n /\ loop'.tried = t
      /\ loop'.end = loop.end /\ loop'.opened = loop.opened
      /\ loop' = [l EXCEPT !.elapsed = e] => loop'.elapsed = e
  <2>1. PICK m : m = loop'
    OBVIOUS
  <2>2. /\ m \in LoopType
        /\ m.wins = w /\ m.next = n /\ m.tried = t /\ m.end = loop.end /\ m.opened = loop.opened
        /\ m = [l EXCEPT !.elapsed = e] => m.elapsed = e
    <3>1. m = l \/ m = [l EXCEPT !.elapsed = e]
      BY <1>5, <2>1
    <3>. QED BY <1>1, <1>2, <1>4a, <3>1 DEF LoopType
  <2>. QED BY <2>1, <2>2
<1>. QED
  BY <1>4, <1>6 DEF e

LEMMA FoundType ==
  ASSUME TypeInv
  PROVE  /\ Found \in Seq(Nat)
         /\ loop.wins \in Seq(Nat) /\ loop.next \in Nat /\ loop.tried \in Nat
  BY AppendProperties DEF TypeInv, Found

\* A turn of the loop.
LEMMA AttemptEffect ==
  ASSUME TypeInv, Attempt
  PROVE  /\ loop' \in LoopType
         /\ loop'.wins = Found /\ loop'.next = loop.next + 1 /\ loop'.tried = loop.tried + 1
         /\ loop'.opened = loop.opened
         /\ Len(Found) = work.k => loop'.elapsed = Max({1, age' - loop.opened})
         /\ age' \in Nat /\ (age' <= Window => age <= Window /\ age' = age + 1)
<1>1. age' \in Nat /\ (age' <= Window => age <= Window /\ age' = age + 1)
  BY TakesExactly DEF Attempt, TypeInv
<1>2. loop' = Closed([loop EXCEPT !.wins = Found, !.next = loop.next + 1, !.tried = loop.tried + 1])
  BY DEF Attempt
<1>3. loop.next + 1 \in Nat /\ loop.tried + 1 \in Nat
  BY FoundType
<1>. QED
  BY <1>1, <1>2, <1>3, FoundType, ClosedIs

\* The winners of the batch at hand.
InBatch == work.winners \cap (loop.next..loop.end - 1)

\* A batch without a winner.
LEMMA BatchMisses ==
  ASSUME TypeInv, loop.next <= loop.end, SearchBatch, InBatch = {}
  PROVE  /\ pc' = "search"
         /\ loop' \in LoopType
         /\ loop'.wins = loop.wins /\ loop'.next = loop.end
         /\ loop'.tried = loop.tried + (loop.end - loop.next)
         /\ loop'.opened = loop.opened
<1>1. /\ pc' = "search"
      /\ loop' = [loop EXCEPT !.next = loop.end, !.tried = loop.tried + (loop.end - loop.next)]
  BY DEF SearchBatch, InBatch
<1>2. loop.tried + (loop.end - loop.next) \in Nat /\ loop.end \in Nat /\ loop \in LoopType
  BY DEF TypeInv, LoopType
<1>3. \A t, n \in Nat : LET m == [loop EXCEPT !.next = n, !.tried = t] IN
        /\ m \in LoopType
        /\ m.wins = loop.wins /\ m.next = n /\ m.tried = t /\ m.opened = loop.opened
  BY <1>2 DEF LoopType
<1>. QED
  BY <1>1, <1>2, <1>3

\* A batch with a winner: the least of them is taken.
LEMMA BatchHits ==
  ASSUME TypeInv, SearchBatch, InBatch # {}
  PROVE  LET winner == Min(InBatch)
             now == Append(loop.wins, winner)
         IN /\ winner \in InBatch /\ (\A y \in InBatch : winner <= y)
            /\ winner \in Nat /\ now \in Seq(Nat)
            /\ pc' = IF Len(now) = work.k THEN "prove" ELSE "search"
            /\ loop' \in LoopType
            /\ loop'.wins = now /\ loop'.next = winner + 1
            /\ loop'.tried = loop.tried + (winner + 1 - loop.next)
            /\ loop'.opened = loop.opened
            /\ Len(now) = work.k => loop'.elapsed = Max({1, age' - loop.opened})
<1> DEFINE winner == Min(InBatch)
           now == Append(loop.wins, winner)
<1>1. loop.next \in Nat /\ loop.end \in Nat /\ loop.tried \in Nat /\ loop.wins \in Seq(Nat)
  BY DEF TypeInv
<1>2. InBatch \subseteq Nat
  BY <1>1 DEF InBatch
<1>3. winner \in InBatch /\ \A y \in InBatch : winner <= y
  BY <1>2, LeastIsIn
<1>4. winner \in Nat /\ loop.next <= winner
  BY <1>1, <1>2, <1>3 DEF InBatch
<1>5. now \in Seq(Nat)
  BY <1>1, <1>4, AppendProperties
<1>6. age' \in Nat
  BY TakesExactly DEF SearchBatch, TypeInv
<1>7. /\ pc' = IF Len(now) = work.k THEN "prove" ELSE "search"
      /\ loop' = Closed([loop EXCEPT !.wins = now, !.next = winner + 1,
                                     !.tried = loop.tried + (winner + 1 - loop.next)])
  BY DEF SearchBatch, InBatch, NextAfter
<1> HIDE DEF winner, now
<1>8. winner + 1 \in Nat /\ loop.tried + (winner + 1 - loop.next) \in Nat
  BY <1>1, <1>4
<1>9. /\ loop' \in LoopType
      /\ loop'.wins = now /\ loop'.next = winner + 1
      /\ loop'.tried = loop.tried + (winner + 1 - loop.next)
      /\ loop'.opened = loop.opened
      /\ Len(now) = work.k => loop'.elapsed = Max({1, age' - loop.opened})
  BY <1>5, <1>6, <1>7, <1>8, ClosedIs
<1>. QED
  BY <1>3, <1>4, <1>5, <1>7, <1>9 DEF winner, now

-----------------------------------------------------------------------------
(* The types.                                                              *)

LEMMA TypeInitially == Init => TypeInv
<1> SUFFICES ASSUME Init PROVE TypeInv
  OBVIOUS
<1>1. loop \in LoopType
  BY EmptySeq DEF Init, LoopType
<1>2. wins \in Seq(Win)
  BY EmptySeq DEF Init
<1>. QED
  BY <1>1, <1>2 DEF Init, TypeInv, LoopType, Stages

\* A win found is an ordinal that wins.
LEMMA FoundWins ==
  ASSUME Inv, HasWork, NEW i \in 1..Len(loop.wins)
  PROVE  loop.wins[i] \in work.winners /\ loop.wins[i] \in 0..Ordinals - 1
         /\ loop.wins[i] < loop.next
<1>1. loop.wins \in Seq(Nat)
  BY DEF Inv, TypeInv
<1>2. DOMAIN loop.wins = 1..Len(loop.wins)
  BY <1>1, LenProperties
<1>3. loop.wins[i] \in Range(loop.wins)
  BY <1>2 DEF Range
<1>4. loop.next \in Nat
  BY DEF Inv, TypeInv
<1>. QED
  BY <1>3, <1>4 DEF Inv, SearchInv, WorkInv

\* The next certificate is for the next win found.
LEMMA CertifiedType ==
  ASSUME Inv, pc = "prove"
  PROVE  /\ Len(wins) + 1 \in 1..Len(loop.wins)
         /\ Certified(NextToProve) \in Win
         /\ Append(wins, Certified(NextToProve)) \in Seq(Win)
         /\ Len(Append(wins, Certified(NextToProve))) = Len(wins) + 1
         /\ \A i \in 1..Len(wins) : Append(wins, Certified(NextToProve))[i] = wins[i]
         /\ Append(wins, Certified(NextToProve))[Len(wins) + 1] = Certified(NextToProve)
<1>1. wins \in Seq(Win) /\ Len(wins) \in Nat /\ Len(loop.wins) \in Nat
  BY LenProperties DEF Inv, TypeInv
<1>2. Len(wins) < Len(loop.wins)
  BY DEF Inv, CertInv
<1>3. Len(wins) + 1 \in 1..Len(loop.wins)
  BY <1>1, <1>2
<1>4. NextToProve \in 0..Ordinals - 1
  BY <1>3, FoundWins DEF NextToProve, HasWork, Minted
<1>5. cli.statement \in Statements
  BY DEF Inv, TypeInv, Flags
<1>6. Certified(NextToProve) \in Win
  BY <1>4, <1>5, SearchAssumption DEF Certified, Win
<1>. QED
  BY <1>1, <1>3, <1>6, AppendProperties

LEMMA TypeKept == Inv /\ [Next]_vars => TypeInv'
<1> SUFFICES ASSUME Inv, [Next]_vars PROVE TypeInv'
  OBVIOUS
<1>0. TypeInv
  BY DEF Inv
<1> USE DEF Stages, Ended
<1>1. CASE ResolveBackend \/ ResolveTier \/ Calibrate
  BY <1>0, <1>1 DEF ResolveBackend, ResolveTier, Calibrate, TypeInv, client, quote, grind, sent
<1>2. CASE FetchChallenge \/ FetchFails \/ ChooseLocally
  BY <1>0, <1>2 DEF FetchChallenge, FetchFails, ChooseLocally, TypeInv, client, quote, grind, sent
<1>3. CASE OpenGrind
  <2>1. CASE UNCHANGED <<age, loop>>
    BY <1>0, <1>3, <2>1 DEF OpenGrind, TypeInv, client, quote, sent
  <2>2. CASE Takes(IF cli.gpu THEN Warming ELSE 0) /\ loop' = [loop EXCEPT !.opened = age']
    <3>1. (IF cli.gpu THEN Warming ELSE 0) \in Nat
      BY TimeAssumption
    <3>2. age' \in Nat
      BY <1>0, <2>2, <3>1, TakesExactly DEF TypeInv
    <3>3. loop' \in LoopType
      BY <1>0, <2>2, <3>2 DEF TypeInv, LoopType
    <3>. QED
      BY <1>0, <1>3, <3>2, <3>3 DEF OpenGrind, TypeInv, LoopType, client, quote, sent
  <2>. QED
    BY <1>3, <2>1, <2>2 DEF OpenGrind
<1>4. CASE Attempt
  <2>1. loop' \in LoopType /\ age' \in Nat
    BY <1>0, <1>4, AttemptEffect
  <2>. QED
    BY <1>0, <1>4, <2>1 DEF Attempt, TypeInv, LoopType, client, quote, sent
<1>5. CASE NextBatch
  <2>1. CASE UNCHANGED loop
    BY <1>0, <1>5, <2>1 DEF NextBatch, TypeInv, client, quote, sent
  <2>2. CASE loop' = [loop EXCEPT !.end = Min({loop.next + cli.batch, Ordinals})] /\ loop.next # Ordinals
    <3>1. cli.batch \in Nat
      BY <1>0, <1>5, SearchAssumption DEF NextBatch, TypeInv, Flags
    <3>2. loop.next + cli.batch \in Nat /\ Ordinals \in Nat
      BY <1>0, <3>1, SearchAssumption DEF TypeInv
    <3>3. Min({loop.next + cli.batch, Ordinals}) \in Nat
      BY <3>2, PairBounds
    <3>4. loop' \in LoopType
      BY <1>0, <2>2, <3>3 DEF TypeInv, LoopType
    <3>. QED
      BY <1>0, <1>5, <3>4 DEF NextBatch, TypeInv, LoopType, client, quote, sent
  <2>. QED
    BY <1>5, <2>1, <2>2 DEF NextBatch
<1>6. CASE SearchBatch
  <2>1. age' \in Nat
    BY <1>0, <1>6, TakesExactly DEF SearchBatch, TypeInv
  <2>2. loop' \in LoopType /\ pc' \in {"search", "prove"}
    <3>1. CASE InBatch = {}
      <4>1. loop.next <= loop.end
        BY <1>0, <1>6 DEF SearchBatch, Inv, SearchInv, TypeInv
      <4>. QED BY <1>0, <1>6, <3>1, <4>1, BatchMisses
    <3>2. CASE InBatch # {}
      BY <1>0, <1>6, <3>2, BatchHits
    <3>. QED BY <3>1, <3>2
  <2>. QED
    BY <1>0, <1>6, <2>1, <2>2 DEF SearchBatch, TypeInv, LoopType, client, quote, sent
<1>7. CASE ProveWin
  <2>1. ProveTicks \in Nat
    BY TimeAssumption DEF ProveTicks
  <2>2. age' \in Nat
    BY <1>0, <1>7, <2>1, TakesExactly DEF ProveWin, TypeInv
  <2>3. wins' \in Seq(Win)
    BY <1>7, CertifiedType DEF ProveWin
  <2>. QED
    BY <1>0, <1>7, <2>2, <2>3 DEF ProveWin, TypeInv, client, quote, grind, sent
<1>8. CASE CheckWin
  <2>1. age' \in Nat
    BY <1>0, <1>8, TimeAssumption, TakesExactly DEF CheckWin, TypeInv
  <2>2. checked' \in Nat /\ pc' \in {"check", "refused"}
    BY <1>0, <1>8 DEF CheckWin, TypeInv
  <2>. QED
    BY <1>0, <1>8, <2>1, <2>2 DEF CheckWin, TypeInv, client, quote, grind
<1>9. CASE Submit \/ Commit \/ SubmitFails
  BY <1>0, <1>9 DEF Submit, Commit, SubmitFails, TypeInv, client, quote, grind, sent
<1>10. CASE UNCHANGED vars
  BY <1>0, <1>10 DEF TypeInv, vars, client, quote, grind, sent
<1>. QED
  BY <1>1, <1>2, <1>3, <1>4, <1>5, <1>6, <1>7, <1>8, <1>9, <1>10 DEF Next

-----------------------------------------------------------------------------
(* The tier and the target.                                                *)

LEMMA QuoteInitially == Init => QuoteInv
  BY DEF Init, QuoteInv, HasWork, Minted

\* A measured request is a number.
LEMMA CalibratedType ==
  ASSUME TypeInv
  PROVE  GrindRate * ProveRatio * Proving \in Nat /\ GrindRate \in Nat
  BY SearchAssumption, TierAssumption, TimeAssumption DEF GrindRate

LEMMA QuoteKept == Inv /\ [Next]_vars => QuoteInv'
<1> SUFFICES ASSUME Inv, [Next]_vars PROVE QuoteInv'
  OBVIOUS
<1>0. TypeInv /\ QuoteInv
  BY DEF Inv
<1>1. CASE ResolveBackend
  BY <1>0, <1>1 DEF ResolveBackend, QuoteInv, HasWork, Minted, client, quote, grind
<1>2. CASE ResolveTier
  <2>1. tier # None => Grant(tier) \in Tiers /\ Grant(tier) # None
    BY <1>0, <1>2, GrantsTiers, TierType, SearchAssumption DEF ResolveTier, QuoteInv
  <2>. QED
    BY <1>0, <1>2, <2>1 DEF ResolveTier, QuoteInv, HasWork, Minted, client, grind
<1>3. CASE Calibrate
  <2>1. tier' = Grant(GrindRate * ProveRatio * Proving)
    BY <1>3 DEF Calibrate, TierFor, Measured, Throwaway, GrindRate
  <2>2. tier' \in Tiers /\ tier' # None
    BY <1>0, <2>1, CalibratedType, GrantsTiers, TierType, SearchAssumption
  <2>3. UNCHANGED <<cli, work>> /\ cli.target = None /\ pc' = "mint"
    BY <1>3 DEF Calibrate, client, grind
  <2>. QED
    BY <2>1, <2>2, <2>3 DEF QuoteInv, HasWork, Minted, GrindRate
<1>4. CASE FetchChallenge \/ ChooseLocally
  <2>1. pc = "mint" /\ UNCHANGED <<cli, tier, calibrated>> /\ pc' = "open"
    BY <1>4 DEF FetchChallenge, ChooseLocally, client, quote
  <2>. QED
    BY <1>0, <2>1 DEF QuoteInv, GrindRate
<1>5. ASSUME UNCHANGED <<cli, tier, calibrated, work>>,
             pc \notin {"backend", "tier"}, pc' \notin {"backend", "tier", "mint"},
             pc' \in Minted => pc \in Minted
      PROVE  QuoteInv'
  BY <1>0, <1>5 DEF QuoteInv, HasWork, GrindRate
<1>6. CASE FetchFails
  BY <1>5, <1>6 DEF FetchFails, client, quote, grind, Minted
<1>7. CASE OpenGrind
  BY <1>5, <1>7 DEF OpenGrind, client, quote, Minted
<1>8. CASE Attempt \/ NextBatch
  BY <1>5, <1>8 DEF Attempt, NextBatch, client, quote, Minted
<1>9. CASE SearchBatch
  BY <1>5, <1>9 DEF SearchBatch, client, quote, Minted
<1>10. CASE ProveWin
  BY <1>5, <1>10 DEF ProveWin, client, quote, grind, Minted
<1>11. CASE Submit \/ Commit \/ SubmitFails
  BY <1>5, <1>11 DEF Submit, Commit, SubmitFails, client, quote, grind, Minted
<1>12. CASE CheckWin
  BY <1>5, <1>12 DEF CheckWin, client, quote, grind, Minted
<1>13. CASE UNCHANGED vars
  BY <1>0, <1>13 DEF QuoteInv, HasWork, GrindRate, vars, client, quote, grind
<1>. QED
  BY <1>1, <1>2, <1>3, <1>4, <1>6, <1>7, <1>8, <1>9, <1>10, <1>11, <1>12, <1>13 DEF Next

LEMMA WorkInitially == Init => WorkInv
  BY DEF Init, WorkInv, HasWork, Minted

\* A challenge for a target and a number of wins.
LEMMA GroundIs ==
  ASSUME NEW target, NEW k, NEW rule, Ground(target, k, rule)
  PROVE  /\ work'.rule = rule /\ work'.target = target /\ work'.k = k
         /\ work'.winners \subseteq 0..Ordinals - 1
  BY DEF Ground

\* What fetch_ai_challenge accepts, and what a local run chooses.
LEMMA WorkMinted ==
  ASSUME Inv, FetchChallenge \/ ChooseLocally
  PROVE  WorkInv'
<1>0. TypeInv /\ QuoteInv /\ pc = "mint"
  BY DEF Inv, FetchChallenge, ChooseLocally
<1>1. cli.statement \in Statements /\ cli.k \in Ks /\ cli.target \in Bits \cup {None}
  BY <1>0 DEF TypeInv, Flags
<1>2. tier \in Tiers \cup {None} /\ (tier = None => cli.target # None)
  BY <1>0 DEF QuoteInv
<1>3. Bits \subseteq 0..HashBits - 1
  BY SearchAssumption
<1>4. CASE FetchChallenge
  <2>1. /\ registry # None /\ Understood(Answer)
        /\ Ground(Answer.target, Answer.k, Answer.rule)
        /\ UNCHANGED <<cli, registry, tier>>
    BY <1>4 DEF FetchChallenge, client, quote
  <2>2. registry \in Registries /\ registry.k \in Ks /\ registry.target \in Bits
    BY <1>0, <2>1 DEF TypeInv, Registries
  <2>3. Answer.rule = cli.statement /\ Answer.k = registry.k
    BY <2>1 DEF Understood, Answer
  <2>4. Served = cli.statement
    BY <2>3 DEF Answer
  <2>5. CASE Requested = None
    <3>1. Answer.target = registry.target
      BY <2>5 DEF Answer
    <3>2. registry.speaks = "tiers" => tier = None
      BY <2>5 DEF Requested
    <3>. QED
      BY <1>3, <2>1, <2>2, <2>3, <3>1, <3>2, GroundIs DEF WorkInv
  <2>6. CASE Requested # None
    <3>1. Requested = tier /\ tier \in Tiers
      BY <1>2, <2>6 DEF Requested
    <3>2. Grant(tier) = tier
      BY <3>1, GrantKeepsTiers
    <3>3. Answer.target = TargetFor(cli.statement, tier)
      BY <2>4, <2>6, <3>1, <3>2 DEF Answer
    <3>4. Expected(cli.statement, Answer.target) = tier /\ Answer.target \in 0..HashBits - 1
      BY <1>1, <3>1, <3>3, TargetScoresTier
    <3>. QED
      BY <2>1, <2>2, <2>3, <3>4, GroundIs DEF WorkInv
  <2>. QED BY <2>5, <2>6
<1>5. CASE ChooseLocally
  <2> DEFINE target == IF cli.target # None THEN cli.target ELSE TargetFor(cli.statement, tier)
  <2>1. registry = None /\ Ground(target, cli.k, cli.statement) /\ UNCHANGED <<cli, registry, tier>>
    BY <1>5 DEF ChooseLocally, client, quote
  <2>2. target \in 0..HashBits - 1 /\ (cli.target = None => Expected(cli.statement, target) = tier)
    <3>1. CASE cli.target # None
      BY <1>1, <1>3, <3>1
    <3>2. CASE cli.target = None
      <4>1. tier \in Tiers
        BY <1>2, <3>2
      <4>. QED BY <1>1, <3>2, <4>1, TargetScoresTier
    <3>. QED BY <3>1, <3>2
  <2> HIDE DEF target
  <2>. QED
    BY <1>1, <2>1, <2>2, GroundIs DEF WorkInv
<1>. QED
  BY <1>4, <1>5

\* A step after the mint.
LEMMA WorkStays ==
  ASSUME Inv, UNCHANGED <<cli, registry, tier, work>>, pc' \in Minted => pc \in Minted
  PROVE  WorkInv'
  BY DEF Inv, WorkInv, HasWork

LEMMA WorkKept == Inv /\ [Next]_vars => WorkInv'
<1> SUFFICES ASSUME Inv, [Next]_vars PROVE WorkInv'
  OBVIOUS
<1>0. QuoteInv
  BY DEF Inv
<1>1. CASE ResolveTier \/ Calibrate
  <2>1. ~HasWork'
    BY <1>0, <1>1 DEF ResolveTier, Calibrate, QuoteInv, HasWork, Minted, grind
  <2>. QED BY <2>1 DEF WorkInv
<1>2. CASE FetchChallenge \/ ChooseLocally
  BY <1>2, WorkMinted
<1>3. CASE ResolveBackend \/ FetchFails \/ ProveWin \/ Submit \/ CheckWin \/ Commit \/ SubmitFails
  BY <1>3, WorkStays DEF ResolveBackend, FetchFails, ProveWin, Submit, CheckWin, Commit,
     SubmitFails, client, quote, grind, Minted
<1>4. CASE OpenGrind \/ Attempt \/ NextBatch \/ SearchBatch
  BY <1>4, WorkStays DEF OpenGrind, Attempt, NextBatch, SearchBatch, client, quote, Minted
<1>5. CASE UNCHANGED vars
  BY <1>5, WorkStays DEF vars, client, quote, grind
<1>. QED
  BY <1>1, <1>2, <1>3, <1>4, <1>5 DEF Next

-----------------------------------------------------------------------------
(* The search.                                                             *)

LEMMA NoWins ==
  Len(<<>>) = 0 /\ Range(<<>>) = {} /\ Increasing(<<>>)
<1>1. <<>> \in Seq(Nat) /\ Len(<<>>) = 0
  BY EmptySeq
<1>2. DOMAIN <<>> = {}
  BY <1>1, LenProperties
<1>. QED
  BY <1>1, <1>2 DEF Range, Increasing

\* s holds the members of W below n, in order.
FoundBelow(W, s, n) == Increasing(s) /\ Range(s) = W \cap (0..n - 1)

\* The next winner of a set goes behind the ones found below it.
LEMMA WinnerAppended ==
  ASSUME NEW W, NEW s \in Seq(Nat), NEW n \in Nat, NEW x \in Nat, n <= x, x \in W,
         FoundBelow(W, s, n), \A y \in W : ~(n <= y /\ y < x)
  PROVE  FoundBelow(W, Append(s, x), x + 1) /\ Len(Append(s, x)) = Len(s) + 1
<1>0. Increasing(s) /\ Range(s) = W \cap (0..n - 1) /\ W \cap (n..x - 1) = {}
  BY DEF FoundBelow
<1> DEFINE a == Append(s, x)
<1>1. Len(s) \in Nat /\ DOMAIN s = 1..Len(s)
  BY LenProperties
<1>2. /\ a \in Seq(Nat) /\ Len(a) = Len(s) + 1
      /\ \A i \in 1..Len(s) : a[i] = s[i]
      /\ a[Len(s) + 1] = x
  BY AppendProperties
<1> HIDE DEF a
<1>3. DOMAIN a = 1..Len(s) + 1
  BY <1>2, LenProperties
<1>4. \A i \in 1..Len(s) : s[i] \in Range(s)
  BY <1>1 DEF Range
<1>5. \A i \in 1..Len(s) : s[i] < x
  BY <1>0, <1>4
<1>6. Increasing(a)
  <2> SUFFICES ASSUME NEW i \in 1..Len(s) + 1, NEW j \in 1..Len(s) + 1, i < j
               PROVE  a[i] < a[j]
    BY <1>2 DEF Increasing
  <2>1. i \in 1..Len(s)
    BY <1>1
  <2>2. CASE j = Len(s) + 1
    BY <1>2, <1>5, <2>1, <2>2
  <2>3. CASE j # Len(s) + 1
    <3>1. j \in 1..Len(s)
      BY <1>1, <2>3
    <3>. QED BY <1>0, <1>2, <2>1, <3>1 DEF Increasing
  <2>. QED BY <2>2, <2>3
<1>7. Range(a) = Range(s) \cup {x}
  <2>1. 1..Len(s) + 1 = (1..Len(s)) \cup {Len(s) + 1}
    BY <1>1
  <2>. QED BY <1>1, <1>2, <1>3, <2>1 DEF Range
<1>8. W \cap (0..(x + 1) - 1) = (W \cap (0..n - 1)) \cup {x}
  <2>1. 0..(x + 1) - 1 = (0..n - 1) \cup (n..x - 1) \cup {x}
    OBVIOUS
  <2>. QED BY <1>0, <2>1
<1>. QED
  BY <1>0, <1>2, <1>6, <1>7, <1>8 DEF a, FoundBelow

LEMMA SearchInitially == Init => SearchInv
  BY NoWins DEF Init, SearchInv, HasWork, Minted

\* A step that leaves the search as it is.
LEMMA SearchStays ==
  ASSUME Inv, UNCHANGED <<cli, loop>>,
         HasWork' => HasWork /\ work' = work,
         pc' \in {"backend", "tier", "mint", "open"} => pc \in {"backend", "tier", "mint", "open"},
         pc' \in {"search", "batch"} => pc' = pc,
         pc' \in {"prove", "submit", "check", "accepted", "refused"}
           => pc \in {"prove", "submit", "check", "accepted", "refused"}
  PROVE  SearchInv'
<1>1. pc' \in Minted => HasWork'
  BY DEF HasWork
<1>2. SearchInv
  BY DEF Inv
<1>. QED
  BY <1>1, <1>2 DEF SearchInv, Minted, Increasing

LEMMA AttemptKeepsOrder ==
  ASSUME Inv, Attempt
  PROVE  SearchInv'
<1>0. TypeInv /\ SearchInv /\ WorkInv /\ pc = "search" /\ ~cli.gpu /\ HasWork
      /\ loop.next < Ordinals
  BY DEF Inv, Attempt, HasWork, Minted, SearchInv
<1>1. UNCHANGED <<cli, work>>
  BY DEF Attempt, client
<1>2. loop.wins \in Seq(Nat) /\ loop.next \in Nat /\ loop.tried = loop.next
      /\ Ordinals \in Nat /\ Len(loop.wins) \in Nat /\ Len(loop.wins) < work.k
      /\ work.k \in Nat
  BY <1>0, FoundType, LenProperties, SearchAssumption DEF SearchInv, WorkInv
<1>3. FoundBelow(work.winners, loop.wins, loop.next)
  BY <1>0 DEF SearchInv, FoundBelow
<1>4. /\ FoundBelow(work.winners, Found, loop.next + 1)
      /\ Len(Found) \in Nat /\ Len(Found) <= Len(loop.wins) + 1
  <2>1. CASE loop.next \in work.winners
    <3>1. \A y \in work.winners : ~(loop.next <= y /\ y < loop.next)
      BY <1>0, <1>2 DEF WorkInv
    <3>2. Found = Append(loop.wins, loop.next) /\ loop.next <= loop.next
      BY <1>2, <2>1 DEF Found
    <3>. QED BY <1>2, <1>3, <2>1, <3>1, <3>2, WinnerAppended
  <2>2. CASE loop.next \notin work.winners
    <3>1. 0..(loop.next + 1) - 1 = (0..loop.next - 1) \cup {loop.next}
      BY <1>2
    <3>2. Found = loop.wins
      BY <2>2 DEF Found
    <3>. QED BY <1>2, <1>3, <2>2, <3>1, <3>2 DEF FoundBelow
  <2>. QED BY <2>1, <2>2
<1>5. loop'.wins = Found /\ loop'.next = loop.next + 1 /\ loop'.tried = loop.tried + 1
  BY <1>0, AttemptEffect
<1>6. pc' = IF loop.next + 1 = Ordinals THEN "stopped"
            ELSE IF Len(Found) = work.k THEN "prove" ELSE "search"
  BY DEF Attempt, Exhausted
<1>7. pc' = "search" => Len(Found) < work.k /\ loop.next + 1 < Ordinals
  BY <1>0, <1>2, <1>4, <1>6
<1>8. pc' = "prove" => Len(Found) = work.k
  BY <1>6
<1>. QED
  BY <1>1, <1>2, <1>4, <1>5, <1>6, <1>7, <1>8 DEF SearchInv, HasWork, Minted, FoundBelow

LEMMA BatchKeepsOrder ==
  ASSUME Inv, SearchBatch
  PROVE  SearchInv'
<1>0. TypeInv /\ SearchInv /\ WorkInv /\ pc = "batch" /\ HasWork /\ cli.gpu
      /\ loop.next < loop.end /\ loop.end <= Ordinals
  BY DEF Inv, SearchBatch, HasWork, Minted, SearchInv
<1>1. UNCHANGED <<cli, work>>
  BY DEF SearchBatch, client
<1>2. loop.wins \in Seq(Nat) /\ loop.next \in Nat /\ loop.end \in Nat /\ loop.tried = loop.next
      /\ Ordinals \in Nat /\ Len(loop.wins) \in Nat /\ Len(loop.wins) < work.k
      /\ work.k \in Nat
  BY <1>0, FoundType, LenProperties, SearchAssumption DEF SearchInv, WorkInv, TypeInv
<1>3. FoundBelow(work.winners, loop.wins, loop.next)
  BY <1>0 DEF SearchInv, FoundBelow
<1>4. CASE InBatch = {}
  <2>1. /\ pc' = "search" /\ loop'.wins = loop.wins /\ loop'.next = loop.end
        /\ loop'.tried = loop.end
    BY <1>0, <1>2, <1>4, BatchMisses
  <2>2. 0..loop.end - 1 = (0..loop.next - 1) \cup (loop.next..loop.end - 1)
    BY <1>0, <1>2
  <2>3. Range(loop'.wins) = work.winners \cap (0..loop'.next - 1)
    BY <1>3, <1>4, <2>1, <2>2 DEF InBatch, FoundBelow
  <2>. QED
    BY <1>0, <1>1, <1>2, <1>3, <2>1, <2>3 DEF SearchInv, HasWork, Minted, FoundBelow
<1>5. CASE InBatch # {}
  <2>1. PICK winner : winner = Min(InBatch)
    OBVIOUS
  <2>2. PICK now : now = Append(loop.wins, winner)
    OBVIOUS
  <2>3. /\ winner \in InBatch /\ (\A y \in InBatch : winner <= y) /\ winner \in Nat
        /\ pc' = IF Len(now) = work.k THEN "prove" ELSE "search"
        /\ loop'.wins = now /\ loop'.next = winner + 1
        /\ loop'.tried = loop.tried + (winner + 1 - loop.next)
    BY <1>0, <1>5, <2>1, <2>2, BatchHits
  <2>4. winner \in work.winners /\ loop.next <= winner /\ winner < loop.end
    BY <1>2, <2>3 DEF InBatch
  <2>5. \A y \in work.winners : ~(loop.next <= y /\ y < winner)
    <3> SUFFICES ASSUME NEW y \in work.winners, loop.next <= y, y < winner PROVE FALSE
      OBVIOUS
    <3>1. y \in Nat
      BY <1>0, <1>2 DEF WorkInv
    <3>2. y \in InBatch
      BY <1>2, <2>3, <2>4, <3>1 DEF InBatch
    <3>. QED BY <2>3, <3>1, <3>2
  <2>6. /\ Len(now) = Len(loop.wins) + 1
        /\ FoundBelow(work.winners, now, winner + 1)
    BY <1>2, <1>3, <2>2, <2>3, <2>4, <2>5, WinnerAppended
  <2>7. loop'.tried = loop'.next /\ loop'.next <= Ordinals
    BY <1>0, <1>2, <2>3, <2>4
  <2>8. pc' = "search" => Len(now) < work.k
    BY <1>2, <2>3, <2>6
  <2>. QED
    BY <1>0, <1>1, <2>3, <2>6, <2>7, <2>8 DEF SearchInv, HasWork, Minted, FoundBelow
<1>. QED
  BY <1>4, <1>5

LEMMA SearchKept == Inv /\ [Next]_vars => SearchInv'
<1> SUFFICES ASSUME Inv, [Next]_vars PROVE SearchInv'
  OBVIOUS
<1>0. TypeInv /\ SearchInv
  BY DEF Inv
<1>1. CASE ResolveBackend \/ ResolveTier \/ Calibrate
  BY <1>1, SearchStays DEF ResolveBackend, ResolveTier, Calibrate, HasWork, Minted, client, grind
<1>2. CASE FetchChallenge \/ ChooseLocally
  <2>1. pc = "mint" /\ pc' = "open" /\ UNCHANGED <<cli, loop>>
    BY <1>2 DEF FetchChallenge, ChooseLocally, client
  <2>2. loop.wins = <<>> /\ loop.next = 0 /\ loop.tried = 0
    BY <1>0, <2>1 DEF SearchInv
  <2>3. work'.winners \cap (0..0 - 1) = {}
    OBVIOUS
  <2>. QED
    BY <2>1, <2>2, <2>3, NoWins DEF SearchInv
<1>3. CASE FetchFails \/ ProveWin \/ Submit \/ CheckWin \/ Commit \/ SubmitFails
  <2>1. CASE pc' # "local"
    BY <1>3, <2>1, SearchStays DEF FetchFails, ProveWin, Submit, CheckWin, Commit, SubmitFails,
       HasWork, Minted, client, grind
  <2>2. CASE pc' = "local"
    BY <1>0, <1>3, <2>2 DEF FetchFails, ProveWin, Submit, CheckWin, Commit, SubmitFails,
       HasWork, Minted, client, grind, SearchInv
  <2>. QED BY <2>1, <2>2
<1>4. CASE OpenGrind
  <2>1. CASE pc' = "stopped"
    BY <1>0, <1>4, <2>1, SearchStays DEF OpenGrind, client, HasWork, Minted
  <2>2. CASE pc' # "stopped"
    <3>1. /\ pc = "open" /\ pc' = "search" /\ loop' = [loop EXCEPT !.opened = age']
          /\ UNCHANGED <<cli, work>>
      BY <1>4, <2>2 DEF OpenGrind, client
    <3>2. loop'.next = loop.next /\ loop'.wins = loop.wins /\ loop'.tried = loop.tried
      BY <1>0, <3>1 DEF TypeInv
    <3>3. loop.next = 0 /\ loop.wins = <<>> /\ HasWork
      BY <1>0, <3>1 DEF SearchInv, HasWork, Minted
    <3>4. work.k \in Nat \ {0} /\ Ordinals \in Nat \ {0}
      BY <3>3, SearchAssumption DEF Inv, WorkInv
    <3>5. Len(loop'.wins) < work.k /\ loop'.next < Ordinals /\ loop'.next <= Ordinals
      BY <3>2, <3>3, <3>4, NoWins
    <3>. QED
      BY <1>0, <3>1, <3>2, <3>3, <3>5 DEF SearchInv, HasWork, Minted
  <2>. QED BY <2>1, <2>2
<1>5. CASE Attempt
  BY <1>5, AttemptKeepsOrder
<1>6. CASE NextBatch
  <2>1. CASE pc' = "stopped"
    BY <1>6, <2>1, SearchStays DEF NextBatch, client, HasWork, Minted
  <2>2. CASE pc' # "stopped"
    <3>1. /\ pc = "search" /\ cli.gpu /\ loop.next # Ordinals /\ pc' = "batch"
          /\ loop' = [loop EXCEPT !.end = Min({loop.next + cli.batch, Ordinals})]
          /\ UNCHANGED <<cli, work>>
      BY <1>6, <2>2 DEF NextBatch, client
    <3>2. /\ loop'.next = loop.next /\ loop'.wins = loop.wins /\ loop'.tried = loop.tried
          /\ loop'.end = Min({loop.next + cli.batch, Ordinals})
      BY <1>0, <3>1 DEF TypeInv
    <3>3. cli.batch \in Nat \ {0}
      BY <1>0, <3>1, SearchAssumption DEF TypeInv, Flags
    <3>4. loop.next \in Nat /\ loop.next < Ordinals /\ Ordinals \in Nat
      BY <1>0, <3>1, SearchAssumption DEF TypeInv, SearchInv
    <3>5. loop.next < Min({loop.next + cli.batch, Ordinals})
          /\ Min({loop.next + cli.batch, Ordinals}) <= Ordinals
      <4>1. loop.next + cli.batch \in Int /\ loop.next < loop.next + cli.batch
        BY <3>3, <3>4
      <4>2. Min({loop.next + cli.batch, Ordinals}) \in {loop.next + cli.batch, Ordinals}
            /\ Min({loop.next + cli.batch, Ordinals}) <= Ordinals
        BY <3>4, <4>1, PairBounds
      <4>. QED BY <3>4, <4>1, <4>2
    <3>. QED
      BY <1>0, <3>1, <3>2, <3>5 DEF SearchInv, HasWork, Minted
  <2>. QED BY <2>1, <2>2
<1>7. CASE SearchBatch
  BY <1>7, BatchKeepsOrder
<1>8. CASE UNCHANGED vars
  BY <1>8, SearchStays DEF vars, client, grind, HasWork
<1>. QED
  BY <1>1, <1>2, <1>3, <1>4, <1>5, <1>6, <1>7, <1>8 DEF Next

-----------------------------------------------------------------------------
(* The certificates.                                                       *)

LEMMA CertInitially == Init => CertInv
  BY DEF Init, CertInv

LEMMA CertKept == Inv /\ [Next]_vars => CertInv'
<1> SUFFICES ASSUME Inv, [Next]_vars PROVE CertInv'
  OBVIOUS
<1>0. TypeInv /\ CertInv /\ SearchInv
  BY DEF Inv
\* The search ends, with nothing certified.
<1>a. ASSUME pc \in {"search", "batch"}, pc' \in {"search", "batch", "prove", "stopped"},
             wins' = wins, pc' = "prove" => Len(loop'.wins) = work.k
      PROVE  CertInv'
  <2>1. wins = <<>> /\ Len(wins) = 0
    BY <1>0, <1>a, EmptySeq DEF CertInv
  <2>2. work.k \in Nat \ {0}
    BY <1>a, SearchAssumption DEF Inv, WorkInv, HasWork, Minted
  <2>. QED
    BY <1>a, <2>1, <2>2 DEF CertInv
<1>1. CASE ResolveBackend \/ ResolveTier \/ Calibrate
  BY <1>0, <1>1 DEF ResolveBackend, ResolveTier, Calibrate, CertInv
<1>2. CASE FetchChallenge \/ FetchFails \/ ChooseLocally
  BY <1>0, <1>2 DEF FetchChallenge, FetchFails, ChooseLocally, CertInv
<1>3. CASE OpenGrind
  BY <1>0, <1>3 DEF OpenGrind, CertInv
<1>4. CASE Attempt
  BY <1>0, <1>4, <1>a, AttemptEffect DEF Attempt
<1>5. CASE NextBatch
  BY <1>0, <1>5 DEF NextBatch, CertInv
<1>6. CASE SearchBatch
  <2>1. CASE InBatch = {}
    <3>1. loop.next <= loop.end
      BY <1>0, <1>6 DEF SearchBatch, SearchInv, TypeInv
    <3>. QED BY <1>0, <1>6, <1>a, <2>1, <3>1, BatchMisses DEF SearchBatch
  <2>2. CASE InBatch # {}
    BY <1>0, <1>6, <1>a, <2>2, BatchHits DEF SearchBatch
  <2>. QED BY <2>1, <2>2
<1>7. CASE ProveWin
  <2>1. /\ pc = "prove" /\ UNCHANGED <<loop, registry, cli>>
        /\ wins' = Append(wins, Certified(NextToProve))
        /\ pc' = IF Len(wins') < Len(loop.wins) THEN "prove"
                 ELSE IF registry = None THEN "local" ELSE "submit"
    BY <1>7 DEF ProveWin, grind, client
  <2>2. /\ Len(wins) + 1 \in 1..Len(loop.wins) /\ Len(wins') = Len(wins) + 1
        /\ \A i \in 1..Len(wins) : wins'[i] = wins[i]
        /\ wins'[Len(wins) + 1] = Certified(loop.wins[Len(wins) + 1])
    BY <2>1, CertifiedType DEF NextToProve
  <2>3. Len(wins) \in Nat /\ Len(loop.wins) \in Nat
    BY <1>0, LenProperties DEF TypeInv
  <2>4. ASSUME NEW i \in 1..Len(wins')
        PROVE  i <= Len(loop'.wins) /\ wins'[i] = Certified(loop'.wins[i])
    <3>1. CASE i = Len(wins) + 1
      BY <2>1, <2>2, <3>1
    <3>2. CASE i \in 1..Len(wins)
      BY <1>0, <2>1, <2>2, <3>2 DEF CertInv
    <3>. QED BY <2>2, <2>3, <2>4, <3>1, <3>2
  <2>5. pc' = "submit" => Len(wins') = Len(loop'.wins) /\ registry' # None
    BY <2>1, <2>2, <2>3
  <2>. QED
    BY <2>1, <2>4, <2>5 DEF CertInv, Certified
<1>8. CASE Submit \/ Commit \/ SubmitFails
  BY <1>0, <1>8 DEF Submit, Commit, SubmitFails, CertInv, Certified, grind, client
<1>9. CASE CheckWin
  BY <1>0, <1>9 DEF CheckWin, CertInv, Certified, grind, client
<1>10. CASE UNCHANGED vars
  BY <1>0, <1>10 DEF vars, CertInv, Certified, grind, client
<1>. QED
  BY <1>1, <1>2, <1>3, <1>4, <1>5, <1>6, <1>7, <1>8, <1>9, <1>10 DEF Next

-----------------------------------------------------------------------------
(* The registry's checks.                                                  *)

\* What a win is relabelled as is a win on the wire too.
LEMMA WinChanged ==
  ASSUME NEW w \in Win
  PROVE  /\ \A c \in 0..2 * Ordinals : [w EXCEPT !.claimed = c] \in Win
         /\ \A c \in 0..2 * Ordinals, b \in 0..Ordinals - 1 :
              [w EXCEPT !.claimed = c, !.blob = b] \in Win
         /\ [w EXCEPT !.proves.challenge = "dev"] \in Win
<1>1. \A p \in [challenge : {"minted", "dev"}, ordinal : 0..Ordinals - 1] :
        [p EXCEPT !.challenge = "dev"] \in [challenge : {"minted", "dev"}, ordinal : 0..Ordinals - 1]
  OBVIOUS
<1>2. [w EXCEPT !.proves.challenge = "dev"] \in Win
  BY <1>1 DEF Win
<1>. QED
  BY <1>2 DEF Win

\* Whatever is wrong with a body, it is a list of wins.
LEMMA BodyType ==
  ASSUME Inv, pc = "submit", NEW f \in Faults
  PROVE  Body(f) \in Seq(Win)
<1> DEFINE first == wins[1]
           n == Len(wins)
           label == wins[n].claimed
<1>1. wins \in Seq(Win) /\ n \in Nat \ {0} /\ DOMAIN wins = 1..n
  <2>1. work.k \in Nat \ {0} /\ Len(wins) = work.k
    BY SearchAssumption DEF Inv, WorkInv, HasWork, Minted, SearchInv, CertInv
  <2>. QED BY <2>1, LenProperties DEF Inv, TypeInv
<1>2. \A i \in 1..n : wins[i] \in Win
  BY <1>1, ElementOfSeq
<1>3. first \in Win /\ wins[n] \in Win
  BY <1>1, <1>2
<1>4. first.claimed \in Nat /\ label \in 0..2 * Ordinals /\ first.blob \in 0..Ordinals - 1
  BY <1>3, SearchAssumption DEF Win
<1> HIDE DEF n
<1>5. \A w \in Win : WithLast(w) \in Seq(Win)
  BY <1>1, ExceptSeq DEF WithLast, n
<1>6. Front(wins) \in Seq(Win)
  <2>1. \A i \in 1..n - 1 : wins[i] \in Win
    BY <1>1, <1>2
  <2>. QED BY <1>1, <2>1, SubSeqProperties DEF Front, n
\* The faults that change the last win need labels in range.
<1>7. pc = "submit" => /\ label \in 0..Ordinals - 1
                       /\ first.claimed \in 0..Ordinals - 1
  <2>1. \A i \in 1..n : wins[i].claimed \in 0..Ordinals - 1
    <3> SUFFICES ASSUME NEW i \in 1..n PROVE wins[i].claimed \in 0..Ordinals - 1
      OBVIOUS
    <3>1. i \in 1..Len(loop.wins) /\ wins[i] = Certified(loop.wins[i])
      BY <1>1 DEF Inv, CertInv, n
    <3>2. loop.wins[i] \in 0..Ordinals - 1
      BY <3>1, FoundWins DEF HasWork, Minted
    <3>. QED BY <3>1, <3>2 DEF Certified
  <2>. QED BY <1>1, <2>1
<1>8. CASE f = "none"
  BY <1>1, <1>8 DEF Body
<1>9. CASE f = "short"
  BY <1>6, <1>9 DEF Body
<1>10. CASE f = "reversed"
  <2>1. Reverse(wins) \in [1..n -> Win]
    BY <1>1, <1>2 DEF Reverse, n
  <2>. QED BY <1>1, <1>10, <2>1, SeqDef DEF Body
<1>11. CASE f = "stale"
  <2>1. [i \in DOMAIN wins |-> [wins[i] EXCEPT !.proves.challenge = "dev"]] \in [1..n -> Win]
    BY <1>1, <1>2, WinChanged
  <2>. QED BY <1>1, <1>11, <2>1, SeqDef DEF Body
<1>12. CASE f = "repeated"
  <2>1. <<first>> \in Seq(Win)
    BY <1>3
  <2>. QED BY <1>6, <1>12, <2>1, ConcatProperties DEF Body
<1>13. CASE f = "relabelled"
  <2>1. [first EXCEPT !.claimed = label] \in Win
    BY <1>3, <1>4, WinChanged
  <2>. QED BY <1>5, <1>13, <2>1 DEF Body, n
<1>14. CASE f = "rewritten"
  <2>1. [first EXCEPT !.claimed = label, !.blob = label] \in Win
    BY <1>3, <1>4, <1>7, WinChanged
  <2>. QED BY <1>5, <1>14, <2>1 DEF Body, n
<1>15. CASE f = "wrapped"
  <2>1. first.claimed + Ordinals \in 0..2 * Ordinals
    BY <1>7, SearchAssumption
  <2>2. [first EXCEPT !.claimed = first.claimed + Ordinals] \in Win
    BY <1>3, <2>1, WinChanged
  <2>. QED BY <1>5, <1>15, <2>2 DEF Body, n
<1>. QED
  BY <1>8, <1>9, <1>10, <1>11, <1>12, <1>13, <1>14, <1>15, FaultAssumption

LEMMA BodyInitially == Init => BodyInv
  BY DEF Init, BodyInv, HonestRunAccepted

\* A win of tock's own passes every check of a registry that pinned its setup.
LEMMA HonestWins ==
  ASSUME Inv, pc \in {"submit", "check"}
  PROVE  /\ Len(wins) = registry.k /\ Ascending(wins) /\ InRange(wins)
         /\ registry.setup = OwnSetup => \A i \in 1..Len(wins) : Verifies(wins[i])
<1>0. HasWork /\ TypeInv /\ SearchInv /\ WorkInv /\ CertInv /\ registry # None
  BY DEF Inv, HasWork, Minted, CertInv
<1>1. wins \in Seq(Win) /\ Len(wins) \in Nat /\ DOMAIN wins = 1..Len(wins)
      /\ Len(wins) = Len(loop.wins)
  BY <1>0, LenProperties DEF TypeInv, CertInv
<1>2. ASSUME NEW i \in 1..Len(wins)
      PROVE  /\ wins[i] = Certified(loop.wins[i])
             /\ loop.wins[i] \in 0..Ordinals - 1 /\ loop.wins[i] \in work.winners
  <2>1. i \in 1..Len(loop.wins)
    BY <1>1
  <2>. QED BY <1>0, <2>1, FoundWins DEF CertInv
<1>2a. \A i \in 1..Len(wins) : wins[i].claimed = loop.wins[i] /\ wins[i].claimed < Ordinals
  <2> SUFFICES ASSUME NEW i \in 1..Len(wins)
               PROVE  wins[i].claimed = loop.wins[i] /\ wins[i].claimed < Ordinals
    OBVIOUS
  <2>1. PICK o : o = loop.wins[i]
    OBVIOUS
  <2>2. wins[i] = Certified(o) /\ o \in 0..Ordinals - 1
    BY <1>2, <2>1
  <2>3. Certified(o).claimed = o
    BY DEF Certified
  <2>. QED BY <2>1, <2>2, <2>3, SearchAssumption
<1>3. Len(wins) = registry.k
  BY <1>0, <1>1 DEF SearchInv, WorkInv
<1>4. Ascending(wins)
  <2> SUFFICES ASSUME NEW i \in 1..Len(wins) - 1 PROVE wins[i].claimed < wins[i + 1].claimed
    BY DEF Ascending
  <2>1. i \in 1..Len(wins) /\ i + 1 \in 1..Len(wins) /\ i < i + 1
    BY <1>1
  <2>2. loop.wins[i] < loop.wins[i + 1]
    BY <1>0, <1>1, <2>1 DEF SearchInv, Increasing
  <2>. QED BY <1>2a, <2>1, <2>2
<1>5. InRange(wins)
  BY <1>1, <1>2a DEF InRange
<1>6. ASSUME registry.setup = OwnSetup, NEW i \in 1..Len(wins) PROVE Verifies(wins[i])
  <2> DEFINE o == loop.wins[i]
  <2>1. wins[i] = Certified(o) /\ o \in 0..Ordinals - 1 /\ o \in work.winners
    BY <1>2
  <2>2. o % Ordinals = o
    BY <2>1, SearchAssumption
  <2> HIDE DEF o
  <2>3. Claimed(Certified(o)) = o
    BY <2>2 DEF Claimed, Certified
  <2>4. Bound(Certified(o)) /\ Pinned(Certified(o)) /\ Proven(Certified(o))
        /\ Certified(o).blob = o /\ Certified(o).proves.ordinal = o
    BY <1>0, <1>6, <2>3 DEF Bound, Pinned, Proven, Certified, WorkInv
  <2>. QED
    BY <2>1, <2>4 DEF Verifies, DenseVerifies, MoeVerifies
<1>. QED
  BY <1>3, <1>4, <1>5, <1>6

\* A step that leaves the registry's part as it is.
LEMMA BodyStays ==
  ASSUME Inv, UNCHANGED <<checked, body, fault>>,
         pc' \notin {"check", "accepted", "refused"}, pc' # "stopped" => pc # "stopped",
         pc \notin {"check", "accepted", "refused"} \/ pc' = "stopped"
  PROVE  BodyInv'
  BY DEF Inv, BodyInv, HonestRunAccepted

\* Verification looks at the win, the challenge and the registry only.
LEMMA VerdictStays ==
  ASSUME UNCHANGED <<cli, registry, work>>, NEW w
  PROVE  Verifies(w)' <=> Verifies(w)
  BY DEF Verifies, DenseVerifies, MoeVerifies, Bound, Claimed, Pinned, Proven

LEMMA BodyKept == Inv /\ [Next]_vars => BodyInv'
<1> SUFFICES ASSUME Inv, [Next]_vars PROVE BodyInv'
  OBVIOUS
<1>0. TypeInv /\ BodyInv
  BY DEF Inv
<1>a. age \in Nat /\ Window \in Nat
  BY <1>0, TimeAssumption DEF TypeInv
<1>1. CASE ResolveBackend \/ ResolveTier \/ Calibrate
  BY <1>1, BodyStays DEF ResolveBackend, ResolveTier, Calibrate, sent
<1>2. CASE FetchChallenge \/ FetchFails \/ ChooseLocally
  BY <1>2, BodyStays DEF FetchChallenge, FetchFails, ChooseLocally, sent
<1>3. CASE OpenGrind \/ Attempt \/ NextBatch \/ SearchBatch
  BY <1>3, BodyStays DEF OpenGrind, Attempt, NextBatch, SearchBatch, sent
<1>4. CASE ProveWin
  BY <1>4, BodyStays DEF ProveWin, sent
<1>5. CASE Submit
  <2>1. PICK f \in Faults : fault' = f /\ body' = Body(f)
    BY <1>5 DEF Submit
  <2>2. /\ pc = "submit" /\ UNCHANGED <<checked, wins, age, cli, registry, work>> /\ checked = 0
        /\ pc' = IF Len(body') = registry.k /\ Ascending(body') /\ InRange(body') /\ age <= Window
                 THEN "check" ELSE "refused"
    BY <1>0, <1>5 DEF Submit, client, grind, BodyInv
  <2>3. body' \in Seq(Win)
    BY <2>1, <2>2, BodyType
  <2>4. Len(body') \in Nat
    BY <2>3, LenProperties
  <2>5. fault' = "none" => body' = wins
    BY <2>1 DEF Body
  <2>6. CASE pc' = "check"
    <3>1. PICK b : b = body'
      OBVIOUS
    <3>2. Len(b) = registry.k /\ Ascending(b) /\ InRange(b)
      BY <2>2, <2>6, <3>1
    <3>3. Ascending(body)' /\ InRange(body)'
      BY <2>2, <3>1, <3>2 DEF Ascending, InRange
    <3>. QED
      BY <2>2, <2>3, <2>4, <2>5, <2>6, <3>1, <3>2, <3>3 DEF BodyInv, HonestRunAccepted
  <2>7. CASE pc' = "refused"
    <3>1. fault' = "none" => age > Window
      BY <1>a, <2>2, <2>5, <2>7, HonestWins
    <3>. QED
      BY <2>2, <2>7, <3>1 DEF BodyInv, HonestRunAccepted
  <2>. QED BY <2>2, <2>6, <2>7
<1>6. CASE CheckWin
  <2>1. /\ pc = "check" /\ checked < Len(body)
        /\ UNCHANGED <<cli, registry, work, wins, body, fault>>
        /\ Takes(Checking)
    BY <1>6 DEF CheckWin, client, grind
  <2>2. /\ body \in Seq(Win) /\ Len(body) = registry.k /\ Ascending(body) /\ InRange(body)
        /\ \A i \in 1..checked : Verifies(body[i])
        /\ fault = "none" => body = wins
    BY <1>0, <2>1 DEF BodyInv
  <2>3. checked \in Nat /\ Len(body) \in Nat
    BY <1>0, <2>2, LenProperties DEF TypeInv
  <2>4. Ascending(body)' /\ InRange(body)'
    BY <2>1, <2>2 DEF Ascending, InRange
  <2>5. CASE Verifies(body[checked + 1])
    <3>1. pc' = "check" /\ checked' = checked + 1
      BY <1>6, <2>1, <2>5 DEF CheckWin
    <3>2. \A i \in 1..checked + 1 : Verifies(body[i])
      <4>1. \A i \in 1..checked + 1 : i \in 1..checked \/ i = checked + 1
        BY <2>3
      <4>. QED BY <2>2, <2>5, <4>1
    <3>3. \A i \in 1..checked' : Verifies(body[i])'
      <4> SUFFICES ASSUME NEW i \in 1..checked + 1 PROVE Verifies(body[i])'
        BY <3>1
      <4>1. PICK w : w = body[i]
        OBVIOUS
      <4>2. Verifies(w)'
        BY <2>1, <3>2, <4>1, VerdictStays
      <4>. QED
        BY <2>1, <4>1, <4>2 DEF Verifies, DenseVerifies, MoeVerifies, Bound, Claimed, Pinned, Proven
    <3>. QED
      BY <2>1, <2>2, <2>3, <2>4, <3>1, <3>3 DEF BodyInv, HonestRunAccepted
  <2>6. CASE ~Verifies(body[checked + 1])
    <3>1. pc' = "refused"
      BY <1>6, <2>6 DEF CheckWin
    <3>2. fault = "none" => registry.setup # OwnSetup
      BY <2>1, <2>2, <2>3, <2>6, HonestWins
    <3>. QED
      BY <2>1, <3>1, <3>2 DEF BodyInv, HonestRunAccepted
  <2>. QED BY <2>5, <2>6
<1>7. CASE Commit
  <2>1. /\ pc = "check" /\ checked = Len(body)
        /\ UNCHANGED <<cli, registry, work, wins, body, fault, checked, age>>
        /\ pc' = IF age <= Window THEN "accepted" ELSE "refused"
    BY <1>7 DEF Commit, client, grind, sent
  <2>2. CASE age <= Window
    <3>1. \A i \in 1..checked' : Verifies(body[i])'
      <4> SUFFICES ASSUME NEW i \in 1..checked PROVE Verifies(body[i])'
        BY <2>1
      <4>1. PICK w : w = body[i]
        OBVIOUS
      <4>2. Verifies(w)'
        BY <1>0, <2>1, <4>1, VerdictStays DEF BodyInv
      <4>. QED
        BY <2>1, <4>1, <4>2 DEF Verifies, DenseVerifies, MoeVerifies, Bound, Claimed, Pinned, Proven
    <3>2. Ascending(body)' /\ InRange(body)'
      BY <1>0, <2>1 DEF BodyInv, Ascending, InRange
    <3>. QED
      BY <1>0, <2>1, <2>2, <3>1, <3>2 DEF BodyInv, HonestRunAccepted
  <2>3. CASE ~(age <= Window)
    BY <1>a, <2>1, <2>3 DEF BodyInv, HonestRunAccepted
  <2>. QED BY <2>2, <2>3
<1>8. CASE SubmitFails
  BY <1>8, BodyStays DEF SubmitFails, sent
<1>9. CASE UNCHANGED vars
  <2>1. UNCHANGED <<pc, cli, registry, work, wins, body, fault, checked, age>>
    BY <1>9 DEF vars, client, grind, sent
  <2>. QED
    BY <1>0, <2>1 DEF BodyInv, HonestRunAccepted, Ascending, InRange,
       Verifies, DenseVerifies, MoeVerifies, Bound, Claimed, Pinned, Proven
<1>. QED
  BY <1>1, <1>2, <1>3, <1>4, <1>5, <1>6, <1>7, <1>8, <1>9 DEF Next

-----------------------------------------------------------------------------
(* The clock.                                                              *)

LEMMA TimeInitially == Init => TimeInv
  BY DEF Init, TimeInv

\* One more certificate takes ProveTicks more.
LEMMA CertificatesAdd ==
  ASSUME TypeInv
  PROVE  /\ Certificates(Len(wins) + 1) = Certificates(Len(wins)) + ProveTicks
         /\ ProveTicks \in Nat
<1>1. PICK n \in Nat : n = Len(wins)
  BY LenProperties DEF TypeInv
<1>2. wins # <<>> <=> n # 0
  BY <1>1, EmptySeq DEF TypeInv
<1>3. Proving \in Nat /\ Reproving \in Nat
  BY TimeAssumption
<1>4. ProveTicks \in Nat
  BY <1>3 DEF ProveTicks
<1>5. CASE cli.statement = "dense" /\ n = 0
  <2>1. Certificates(n) = 0 /\ Certificates(n + 1) = Proving + ((n + 1) - 1) * Reproving
    BY <1>5 DEF Certificates
  <2>2. ((n + 1) - 1) * Reproving = 0 /\ ProveTicks = Proving
    BY <1>2, <1>3, <1>5 DEF ProveTicks
  <2>. QED BY <1>1, <1>3, <1>4, <2>1, <2>2
<1>6. CASE cli.statement = "dense" /\ n # 0
  <2>1. Certificates(n) = Proving + (n - 1) * Reproving
        /\ Certificates(n + 1) = Proving + ((n + 1) - 1) * Reproving
    BY <1>6 DEF Certificates
  <2>2. ((n + 1) - 1) * Reproving = (n - 1) * Reproving + Reproving
    BY <1>3
  <2>3. PICK x \in Int : x = (n - 1) * Reproving
    BY <1>3
  <2>4. ProveTicks = Reproving
    BY <1>2, <1>6 DEF ProveTicks
  <2>5. Certificates(n) = Proving + x /\ Certificates(n + 1) = Proving + (x + Reproving)
    BY <2>1, <2>2, <2>3
  <2>6. Proving + (x + Reproving) = (Proving + x) + Reproving
    BY <1>3
  <2>. QED BY <1>1, <1>4, <2>4, <2>5, <2>6
<1>7. CASE cli.statement # "dense"
  <2>1. Certificates(n) = n * Proving /\ Certificates(n + 1) = (n + 1) * Proving
    BY <1>3, <1>7 DEF Certificates
  <2>2. (n + 1) * Proving = n * Proving + Proving /\ ProveTicks = Proving
    BY <1>3, <1>7 DEF ProveTicks
  <2>. QED BY <1>1, <1>4, <2>1, <2>2
<1>. QED
  BY <1>5, <1>6, <1>7

\* What the certificates take is a number.
LEMMA CertificatesType ==
  ASSUME NEW n \in Nat
  PROVE  Certificates(n) \in Nat
<1>1. {Proving, Reproving} \subseteq Nat
  BY TimeAssumption
<1>2. CASE n = 0
  BY <1>2 DEF Certificates
<1>3. CASE n # 0
  <2>1. (n - 1) * Reproving \in Nat /\ n * Proving \in Nat
    BY <1>1, <1>3
  <2>. QED BY <1>1, <1>3, <2>1 DEF Certificates
<1>. QED BY <1>2, <1>3

\* The grind's clock, stopped at the k-th win within the window.
LEMMA GrindMeasured ==
  ASSUME Inv, pc \in {"search", "batch"}, pc' = "prove",
         age' \in Nat, age' <= Window => age <= Window /\ age' = age + 1,
         loop'.elapsed = Max({1, age' - loop.opened}),
         loop'.tried \in Nat, ~cli.gpu => loop'.tried = loop.tried + 1,
         UNCHANGED <<cli, wins, checked>>
  PROVE  TimeInv'
<1>1. loop.opened \in Nat /\ age \in Nat /\ loop.tried \in Nat /\ Window \in Nat
      /\ Session \in Nat /\ Checking \in Nat
  BY TimeAssumption DEF Inv, TypeInv, Session
<1>2. wins = <<>> /\ checked = 0 /\ Len(wins) = 0
  BY EmptySeq DEF Inv, CertInv, BodyInv
<1>3. Certificates(0) = 0 /\ checked * Checking = 0
  BY <1>1, <1>2 DEF Certificates
<1>4. PICK x \in Int : x = age' - loop.opened
  BY <1>1
<1>5. loop'.elapsed = IF x >= 1 THEN x ELSE 1
  BY <1>4, PairBounds
<1>6. age <= Window => /\ loop.opened = Session /\ age >= Session
                       /\ ~cli.gpu => age = Session + loop.tried
  BY DEF Inv, TimeInv
<1>7. age' <= Window => /\ age' = Session + loop'.elapsed
                        /\ ~cli.gpu => loop'.elapsed = loop'.tried
  BY <1>1, <1>4, <1>5, <1>6
<1>8. Certificates(Len(wins))' = 0 /\ Session' = Session
  BY <1>2, <1>3 DEF Certificates, Session
<1>9. loop'.elapsed \in Nat /\ loop'.elapsed >= 1
  BY <1>4, <1>5
<1>. QED
  BY <1>1, <1>2, <1>3, <1>7, <1>8, <1>9 DEF TimeInv

LEMMA TimeKept == Inv /\ [Next]_vars => TimeInv'
<1> SUFFICES ASSUME Inv, [Next]_vars PROVE TimeInv'
  OBVIOUS
<1>0. TypeInv /\ TimeInv
  BY DEF Inv
<1>a. age \in Nat /\ Window \in Nat /\ checked \in Nat /\ Checking \in Nat /\ Session \in Nat
      /\ loop.elapsed \in Nat
  BY <1>0, TimeAssumption DEF TypeInv, Session
\* A step that takes no time and leaves the search and the certificates.
<1>b. ASSUME UNCHANGED <<cli, age, loop, wins, checked>>,
             pc' \in {"backend", "tier", "mint", "open"} => pc \in {"backend", "tier", "mint", "open"},
             pc' \in {"search", "batch"} => pc \in {"search", "batch"},
             pc' \in {"prove", "submit", "check", "accepted"}
               => pc \in {"prove", "submit", "check", "accepted"}
      PROVE  TimeInv'
  <2>1. Session' = Session /\ Certificates(Len(wins))' = Certificates(Len(wins))
    BY <1>b DEF Session, Certificates
  <2>. QED BY <1>0, <1>b, <2>1 DEF TimeInv
<1>1. CASE ResolveBackend \/ ResolveTier \/ Calibrate
  BY <1>1, <1>b DEF ResolveBackend, ResolveTier, Calibrate, client, grind, sent
<1>2. CASE FetchChallenge \/ FetchFails \/ ChooseLocally
  BY <1>2, <1>b DEF FetchChallenge, FetchFails, ChooseLocally, client, grind, sent
<1>3. CASE OpenGrind
  <2>1. CASE pc' = "stopped"
    BY <2>1 DEF TimeInv
  <2>2. CASE pc' # "stopped"
    <3>1. /\ pc = "open" /\ pc' = "search" /\ Takes(Session) /\ UNCHANGED cli
          /\ loop' = [loop EXCEPT !.opened = age']
      BY <1>3, <2>2 DEF OpenGrind, Session, client
    <3>2. age = 0
      BY <1>0, <3>1 DEF TimeInv
    <3>3. age' \in Nat /\ (age' <= Window => age' = Session)
      BY <1>a, <3>1, <3>2, TakesExactly
    <3>4. loop'.opened = age' /\ loop'.tried = loop.tried /\ loop.tried = 0
      BY <1>0, <3>1 DEF TypeInv, Inv, SearchInv
    <3>5. Session' = Session
      BY <3>1 DEF Session
    <3>. QED BY <1>a, <3>1, <3>3, <3>4, <3>5 DEF TimeInv
  <2>. QED BY <2>1, <2>2
<1>4. CASE Attempt
  <2>1. /\ pc = "search" /\ ~cli.gpu /\ UNCHANGED <<cli, wins, checked>>
        /\ pc' \in {"stopped", "prove", "search"}
        /\ pc' = "prove" => Len(Found) = work.k
    BY <1>4 DEF Attempt, client, sent
  <2>2. /\ loop'.tried = loop.tried + 1 /\ loop'.opened = loop.opened
        /\ age' \in Nat /\ (age' <= Window => age <= Window /\ age' = age + 1)
        /\ Len(Found) = work.k => loop'.elapsed = Max({1, age' - loop.opened})
    BY <1>0, <1>4, AttemptEffect
  <2>3. loop.tried \in Nat /\ Session' = Session
    BY <1>0, <2>1 DEF TypeInv, Session
  <2>4. CASE pc' = "prove"
    BY <2>1, <2>2, <2>3, <2>4, GrindMeasured
  <2>5. CASE pc' = "search"
    BY <1>0, <1>a, <2>1, <2>2, <2>3, <2>5 DEF TimeInv
  <2>6. CASE pc' = "stopped"
    BY <2>6 DEF TimeInv
  <2>. QED BY <2>1, <2>4, <2>5, <2>6
<1>5. CASE NextBatch
  <2>1. CASE pc' = "stopped"
    BY <2>1 DEF TimeInv
  <2>2. CASE pc' # "stopped"
    <3>1. /\ pc = "search" /\ pc' = "batch" /\ UNCHANGED <<cli, age>>
          /\ loop' = [loop EXCEPT !.end = Min({loop.next + cli.batch, Ordinals})]
      BY <1>5, <2>2 DEF NextBatch, client
    <3>2. loop'.opened = loop.opened /\ loop'.tried = loop.tried /\ Session' = Session
      BY <1>0, <3>1 DEF TypeInv, Session
    <3>. QED BY <1>0, <3>1, <3>2 DEF TimeInv
  <2>. QED BY <2>1, <2>2
<1>6. CASE SearchBatch
  <2>1. /\ pc = "batch" /\ UNCHANGED <<cli, wins, checked>>
        /\ Takes(1)
    BY <1>6 DEF SearchBatch, client, sent
  <2>2. age' \in Nat /\ (age' <= Window => age <= Window /\ age' = age + 1)
    BY <1>a, <2>1, TakesExactly
  <2>3. loop.next <= loop.end /\ cli.gpu
    BY <1>0, <2>1 DEF Inv, SearchInv, TypeInv
  <2>4. Session' = Session
    BY <2>1 DEF Session
  <2>5. CASE InBatch = {}
    BY <1>0, <1>6, <1>a, <2>1, <2>2, <2>3, <2>4, <2>5, BatchMisses DEF TimeInv
  <2>6. CASE InBatch # {}
    <3>1. PICK now : now = Append(loop.wins, Min(InBatch))
      OBVIOUS
    <3>2. /\ pc' = IF Len(now) = work.k THEN "prove" ELSE "search"
          /\ loop' \in LoopType /\ loop'.opened = loop.opened
          /\ Len(now) = work.k => loop'.elapsed = Max({1, age' - loop.opened})
      BY <1>0, <1>6, <2>6, <3>1, BatchHits
    <3>3. loop'.tried \in Nat
      BY <3>2 DEF LoopType
    <3>4. CASE Len(now) = work.k
      BY <2>1, <2>2, <2>3, <3>2, <3>3, <3>4, GrindMeasured
    <3>5. CASE Len(now) # work.k
      BY <1>0, <1>a, <2>1, <2>2, <2>3, <2>4, <3>2, <3>5 DEF TimeInv
    <3>. QED BY <3>4, <3>5
  <2>. QED BY <2>5, <2>6
<1>7. CASE ProveWin
  <2>1. /\ pc = "prove" /\ UNCHANGED <<cli, loop, checked>>
        /\ Takes(ProveTicks) /\ Len(wins') = Len(wins) + 1
        /\ pc' \in {"prove", "local", "submit"}
    BY <1>7, CertifiedType DEF ProveWin, client, grind, sent
  <2>2. /\ Certificates(Len(wins) + 1) = Certificates(Len(wins)) + ProveTicks
        /\ ProveTicks \in Nat
    BY <1>0, CertificatesAdd
  <2>3. age' \in Nat /\ (age' <= Window => age <= Window /\ age' = age + ProveTicks)
    BY <1>a, <2>1, <2>2, TakesExactly
  <2>4. Session' = Session /\ Certificates(Len(wins))' = Certificates(Len(wins) + 1)
    BY <2>1 DEF Session, Certificates
  <2>5. checked * Checking \in Nat /\ Certificates(Len(wins)) \in Nat
    BY <1>0, <1>a, CertificatesType, LenProperties DEF TypeInv
  <2>6. PICK c \in Nat : c = Certificates(Len(wins))
    BY <2>5
  <2>7. PICK d \in Nat : d = checked * Checking
    BY <2>5
  <2>8. PICK t \in Nat : t = ProveTicks
    BY <2>2
  <2>9. Certificates(Len(wins))' = c + t
    BY <2>2, <2>4, <2>6, <2>8
  <2>10. /\ loop.elapsed >= 1
         /\ age <= Window => /\ age = Session + loop.elapsed + c + d
                             /\ ~cli.gpu => loop.elapsed = loop.tried
    BY <1>0, <2>1, <2>6, <2>7 DEF TimeInv
  <2>11. age' <= Window => age' = Session + loop.elapsed + (c + t) + d
    BY <1>a, <2>3, <2>8, <2>10
  <2>12. checked' * Checking = d
    BY <2>1, <2>7
  <2>13. age' <= Window =>
           age' = Session' + loop'.elapsed + Certificates(Len(wins))' + checked' * Checking
    BY <2>1, <2>4, <2>9, <2>11, <2>12
  <2>. QED BY <2>1, <2>3, <2>10, <2>13 DEF TimeInv
<1>8. CASE Submit \/ Commit \/ SubmitFails
  BY <1>8, <1>b DEF Submit, Commit, SubmitFails, client, grind, sent
<1>9. CASE CheckWin
  <2>1. CASE pc' = "refused"
    BY <2>1 DEF TimeInv
  <2>2. CASE pc' # "refused"
    <3>1. /\ pc = "check" /\ pc' = "check" /\ UNCHANGED <<cli, loop, wins>>
          /\ Takes(Checking) /\ checked' = checked + 1
      BY <1>9, <2>2 DEF CheckWin, client, grind
    <3>2. age' \in Nat /\ (age' <= Window => age <= Window /\ age' = age + Checking)
      BY <1>a, <3>1, TakesExactly
    <3>3. Session' = Session /\ Certificates(Len(wins))' = Certificates(Len(wins))
      BY <3>1 DEF Session, Certificates
    <3>4. (checked + 1) * Checking = checked * Checking + Checking
          /\ checked * Checking \in Nat /\ Certificates(Len(wins)) \in Nat
      BY <1>0, <1>a, CertificatesType, LenProperties DEF TypeInv
    <3>. QED BY <1>0, <1>a, <3>1, <3>2, <3>3, <3>4 DEF TimeInv
  <2>. QED BY <2>1, <2>2
<1>10. CASE UNCHANGED vars
  BY <1>10, <1>b DEF vars, client, grind, sent
<1>. QED
  BY <1>1, <1>2, <1>3, <1>4, <1>5, <1>6, <1>7, <1>8, <1>9, <1>10 DEF Next

-----------------------------------------------------------------------------
(* The invariant, and what follows from it.                                *)

LEMMA Initially == Init => Inv
  BY TypeInitially, QuoteInitially, WorkInitially, SearchInitially, CertInitially,
     BodyInitially, TimeInitially DEF Inv

LEMMA Kept == Inv /\ [Next]_vars => Inv'
  BY TypeKept, QuoteKept, WorkKept, SearchKept, CertKept, BodyKept, TimeKept DEF Inv

\* SearchesInOrder: the loop and the GPU's batches of any size find the same wins in
\* the same order and count an attempt for every ordinal below the next
\* (grind, grind_moe, OrdinalScheduler).
THEOREM SearchOrdered == Spec => []SearchesInOrder
<1>1. Inv => SearchesInOrder
  <2> SUFFICES ASSUME Inv, work # None PROVE SearchesInOrder
    BY DEF SearchesInOrder
  <2>1. Len(loop.wins) \in Nat
    BY LenProperties DEF Inv, TypeInv
  <2>2. /\ \A i, j \in 1..Len(loop.wins) : i < j => loop.wins[i] < loop.wins[j]
        /\ Range(loop.wins) = work.winners \cap (0..loop.next - 1)
        /\ loop.tried = loop.next
    BY DEF Inv, SearchInv, HasWork, Increasing
  <2>3. \A i \in 1..Len(loop.wins) - 1 :
          i \in 1..Len(loop.wins) /\ i + 1 \in 1..Len(loop.wins) /\ i < i + 1
    BY <2>1
  <2>. QED BY <2>2, <2>3 DEF SearchesInOrder
<1>. QED
  BY <1>1, Initially, Kept, PTL DEF Spec

\* HonestRunAccepted: no check of submit_ai_run, in whichever order they run, turns
\* away what tock itself sends; only an expired challenge or another prover's setup does.
THEOREM HonestAccepted == Spec => []HonestRunAccepted
<1>1. Inv => HonestRunAccepted
  BY DEF Inv, BodyInv
<1>. QED
  BY <1>1, Initially, Kept, PTL DEF Spec

\* GrantIsNearest: whatever count --attempts asks for, grant_attempts rounds it to
\* the tier nearest to it in log space.
THEOREM NearestGranted == Spec => []GrantIsNearest
<1>1. Inv => GrantIsNearest
  BY GrantsNearest, SearchAssumption DEF Inv, QuoteInv, GrantIsNearest
<1>. QED
  BY <1>1, Initially, Kept, PTL DEF Spec

\* GrindsItsTier: rounding on both sides and inverting the score twice lose nothing:
\* the target that is ground scores the tier the client resolved.
THEOREM TierGround == Spec => []GrindsItsTier
<1>1. Inv => GrindsItsTier
  BY DEF Inv, WorkInv, HasWork, GrindsItsTier
<1>. QED
  BY <1>1, Initially, Kept, PTL DEF Spec

\* GrindPaysForProof: a calibrated run grinds for as long as ProveRatio of its
\* certificates take, up to the rounding of tiers and the hardest of them, on
\* whichever backend it grinds.
THEOREM GrindPays == Spec => []GrindPaysForProof
<1>1. Inv => GrindPaysForProof
  <2> SUFFICES ASSUME Inv, pc = "prove", calibrated, registry = None \/ registry.speaks = "tiers"
               PROVE  GrindPaysForProof
    BY DEF GrindPaysForProof
  <2>1. HasWork /\ TypeInv
    BY DEF Inv, HasWork, Minted
  <2>2. PICK n \in Nat : n = GrindRate * ProveRatio * Proving
    BY <2>1, CalibratedType
  <2>3. cli.target = None /\ tier = Grant(n) /\ tier # None
    BY <2>1, <2>2 DEF Inv, QuoteInv
  <2>4. Expected(cli.statement, work.target) = Grant(n)
    BY <2>1, <2>3 DEF Inv, WorkInv
  <2>5. PICK r \in Nat : r = GrindRate * ProveRatio
    BY <2>1, CalibratedType, TierAssumption
  <2>6. PICK t \in Nat : t = ProveTicks /\ t <= Proving
    BY TimeAssumption DEF ProveTicks
  <2>7. PICK w \in Nat : w = r * t
    OBVIOUS
  <2>8. w * w <= n * n
    <3>1. Proving \in Nat
      BY TimeAssumption
    <3>2. r * t <= r * Proving
      BY <2>6, <3>1
    <3>3. n = r * Proving
      BY <2>2, <2>5
    <3>4. w <= n
      BY <2>7, <3>2, <3>3
    <3>5. w * w <= w * n /\ w * n <= n * n
      BY <3>4
    <3>. QED BY <3>5
  <2>9. PICK g \in Nat : g = Grant(n)
    BY GrantsTiers, TierType
  <2>10. g = 2^MaxBit \/ 2 * g * g >= n * n
    BY <2>9, GrantCovers
  <2>11. g = 2^MaxBit \/ 2 * g * g >= w * w
    <3>1. 2 * g * g \in Nat /\ n * n \in Nat /\ w * w \in Nat
      OBVIOUS
    <3>. QED BY <2>8, <2>10, <3>1
  <2>12. (IF cli.gpu THEN GpuRate ELSE CpuRate) * ProveRatio * ProveTicks = w
    BY <2>5, <2>6, <2>7 DEF GrindRate
  <2>13. Expected(cli.statement, work.target) = g
    BY <2>4, <2>9
  <2>. QED BY <2>11, <2>12, <2>13 DEF GrindPaysForProof
<1>. QED
  BY <1>1, Initially, Kept, PTL DEF Spec

\* WindowIsTheRun: the registry's window is the client's grind, its session and
\* certificates and the registry's own checks, to the tick, so the rate the board
\* ranks is at most the one the grind reports (to_ai_entry).
THEOREM WindowCounts == Spec => []WindowIsTheRun
<1>1. Inv => WindowIsTheRun
  <2> SUFFICES ASSUME Inv, pc = "accepted" PROVE WindowIsTheRun
    BY DEF WindowIsTheRun
  <2>1. HasWork /\ TypeInv
    BY DEF Inv, HasWork, Minted
  <2>2. age <= Window /\ checked = Len(body)
    BY DEF Inv, BodyInv
  <2>3. /\ loop.elapsed >= 1
        /\ age = Session + loop.elapsed + Certificates(Len(wins)) + checked * Checking
        /\ ~cli.gpu => loop.elapsed = loop.tried
    BY <2>2 DEF Inv, TimeInv
  <2>4. work.k \in Nat \ {0} /\ Len(wins) = work.k /\ registry.k = work.k
    BY <2>1, SearchAssumption DEF Inv, WorkInv, SearchInv, CertInv
  <2>5. Certificates(Len(wins)) = ProvingTicks
    BY <2>4 DEF Certificates, ProvingTicks
  <2>6. PICK c \in Nat : c = Certificates(Len(wins))
    BY <2>4, CertificatesType
  <2>7. PICK d \in Nat : d = checked * Checking
    BY <2>1, TimeAssumption DEF TypeInv
  <2>8. Session \in Nat /\ loop.elapsed \in Nat /\ age \in Nat
    BY <2>1, TimeAssumption DEF TypeInv, Session
  <2>9. age = Session + loop.elapsed + c + d
    BY <2>3, <2>6, <2>7
  <2>10. age >= loop.elapsed /\ age >= 1
    BY <2>3, <2>8, <2>9
  <2>11. Max({1, age}) = age
    BY <2>8, <2>10, PairBounds
  <2>12. PICK x \in Nat : x = registry.k * Expected(cli.statement, work.target)
    <3>1. Expected(cli.statement, work.target) \in Nat
      BY <2>1, ExpectedType DEF Inv, WorkInv
    <3>. QED BY <2>4, <3>1
  <2>13. Entry.verified = <<x, age>> /\ Entry.reported = <<x, loop.elapsed>>
    <3>1. work.rule = cli.statement
      BY <2>1 DEF Inv, WorkInv
    <3>. QED BY <2>11, <2>12, <3>1 DEF Entry, Rates
  <2>14. x * loop.elapsed <= x * age
    BY <2>8, <2>10
  <2>15. AtMost(Entry.verified, Entry.reported)
    BY <2>13, <2>14 DEF AtMost
  <2>16. Entry.verified[2] = Session + loop.elapsed + ProvingTicks + Len(body) * Checking
    BY <2>2, <2>5, <2>6, <2>7, <2>9, <2>13
  <2>. QED BY <2>3, <2>15, <2>16 DEF WindowIsTheRun, Session
<1>. QED
  BY <1>1, Initially, Kept, PTL DEF Spec

\* Ordinals that ascend from each win to the next ascend throughout.
LEMMA AscendingThroughout ==
  ASSUME NEW b \in Seq(Win), Ascending(b)
  PROVE  \A i, j \in 1..Len(b) : i < j => b[i].claimed < b[j].claimed
<1>1. Len(b) \in Nat /\ \A i \in 1..Len(b) : b[i] \in Win /\ b[i].claimed \in 0..2 * Ordinals
  <2>1. Len(b) \in Nat /\ \A i \in 1..Len(b) : b[i] \in Win
    BY LenProperties, ElementOfSeq
  <2>2. \A w \in Win : w.claimed \in 0..2 * Ordinals
    BY DEF Win
  <2>. QED BY <2>1, <2>2
<1>2. PICK n \in Nat : n = Len(b)
  BY <1>1
<1>3. PICK c \in [1..n -> Int] : \A i \in 1..n : c[i] = b[i].claimed
  <2>1. [i \in 1..n |-> b[i].claimed] \in [1..n -> Int]
    BY <1>1, <1>2, SearchAssumption
  <2>. QED BY <2>1
<1>4. \A i \in 1..n - 1 : c[i] < c[i + 1]
  BY <1>2, <1>3 DEF Ascending
<1> DEFINE S == {d \in Nat : \A i \in 1..n : i + d + 1 <= n => c[i] < c[i + d + 1]}
<1>5. 0 \in S
  <2>1. \A i \in 1..n : i + 0 + 1 = i + 1
    OBVIOUS
  <2>. QED BY <1>4, <2>1
<1>6. ASSUME NEW d \in S PROVE d + 1 \in S
  <2> SUFFICES ASSUME NEW i \in 1..n, i + (d + 1) + 1 <= n PROVE c[i] < c[i + (d + 1) + 1]
    OBVIOUS
  <2>1. d \in Nat /\ i + d + 1 \in 1..n - 1 /\ (i + d + 1) + 1 = i + (d + 1) + 1
    OBVIOUS
  <2>2. c[i] < c[i + d + 1]
    BY <2>1
  <2>3. c[i + d + 1] < c[i + (d + 1) + 1]
    BY <1>4, <2>1
  <2>4. c[i] \in Int /\ c[i + d + 1] \in Int /\ c[i + (d + 1) + 1] \in Int
    BY <1>3, <2>1
  <2>. QED BY <2>2, <2>3, <2>4
<1>7. S = Nat
  <2>1. S \subseteq Nat
    OBVIOUS
  <2> HIDE DEF S
  <2>. QED BY <1>5, <1>6, <2>1, InductionOverNat
<1>8. ASSUME NEW i \in 1..n, NEW j \in 1..n, i < j PROVE c[i] < c[j]
  <2>1. j - i - 1 \in Nat /\ i + (j - i - 1) + 1 = j
    BY <1>8
  <2>2. j - i - 1 \in S
    <3> HIDE DEF S
    <3>. QED BY <1>7, <2>1
  <2>. QED BY <2>1, <2>2
<1>. QED
  BY <1>2, <1>3, <1>8

\* What a win that passed every check proves: the ordinal it is claimed for.
LEMMA VerifiedProves ==
  ASSUME TypeInv, HasWork, WorkInv, NEW w \in Win, Verifies(w),
         cli.statement = "canonical-moe" => w.claimed < Ordinals
  PROVE  /\ w.proves = [challenge |-> "minted", ordinal |-> w.claimed]
         /\ w.claimed \in work.winners
<1>1. w.claimed \in Nat
  BY SearchAssumption DEF Win
<1>2. work.rule \in {"dense", "canonical-moe"} /\ work.rule = cli.statement
  BY DEF TypeInv, Flags, Statements, WorkInv
<1>3. Claimed(w) = w.claimed
  <2>1. CASE work.rule = "dense"
    BY <2>1 DEF Claimed
  <2>2. CASE work.rule = "canonical-moe"
    <3>1. w.claimed % Ordinals = w.claimed
      BY <1>1, <1>2, <2>2, SearchAssumption
    <3>. QED BY <2>2, <3>1 DEF Claimed
  <2>. QED BY <1>2, <2>1, <2>2
<1>4. w.blob = w.claimed /\ w.proves = [challenge |-> "minted", ordinal |-> w.blob]
  BY <1>3 DEF Verifies, DenseVerifies, MoeVerifies, Bound, Proven
<1>5. w.proves.ordinal = w.blob
  BY <1>4
<1>6. w.blob \in work.winners
  BY <1>5 DEF Verifies, DenseVerifies, MoeVerifies
<1>. QED
  BY <1>4, <1>6

\* AcceptedWinsAreDistinct: strictly ascending claims, the range check and the binding
\* of claim, blob and certificate leave k different winners of the minted challenge,
\* whatever body was sent.
THEOREM WinsDistinct == Spec => []AcceptedWinsAreDistinct
<1>1. Inv => AcceptedWinsAreDistinct
  <2> SUFFICES ASSUME Inv, pc = "accepted" PROVE AcceptedWinsAreDistinct
    BY DEF AcceptedWinsAreDistinct
  <2>0. TypeInv /\ HasWork /\ WorkInv
    BY DEF Inv, HasWork, Minted
  <2>1. /\ body \in Seq(Win) /\ Len(body) = registry.k /\ Ascending(body) /\ InRange(body)
        /\ \A i \in 1..Len(body) : Verifies(body[i])
    BY DEF Inv, BodyInv
  <2>2. PICK n \in Nat : n = Len(body)
    BY <2>1, LenProperties
  <2>3. DOMAIN body = 1..n /\ \A i \in 1..n : body[i] \in Win
    BY <2>1, <2>2, LenProperties, ElementOfSeq
  <2>4. \A i \in 1..n : cli.statement = "canonical-moe" => body[i].claimed < Ordinals
    BY <2>0, <2>1, <2>3 DEF InRange, WorkInv
  <2>5. ASSUME NEW i \in 1..n
        PROVE  /\ body[i].proves = [challenge |-> "minted", ordinal |-> body[i].claimed]
               /\ body[i].claimed \in work.winners /\ body[i].claimed \in Int
    <3>1. PICK w \in Win : w = body[i]
      BY <2>3
    <3>2. Verifies(w) /\ (cli.statement = "canonical-moe" => w.claimed < Ordinals)
      BY <2>1, <2>2, <2>4, <3>1
    <3>3. w.claimed \in Int
      BY SearchAssumption DEF Win
    <3>. QED BY <2>0, <3>1, <3>2, <3>3, VerifiedProves
  <2>6. \A i, j \in 1..n : i < j => body[i].claimed < body[j].claimed
    BY <2>1, <2>2, AscendingThroughout
  <2> DEFINE proven == {body[i].proves : i \in 1..n}
             f == [i \in 1..n |-> body[i].proves]
  <2>7. f \in Bijection(1..n, proven)
    <3>1. \A i, j \in 1..n : f[i] = f[j] => i = j
      <4> SUFFICES ASSUME NEW i \in 1..n, NEW j \in 1..n, body[i].proves = body[j].proves
                   PROVE  i = j
        OBVIOUS
      <4>1. PICK x \in Int : x = body[i].claimed
        BY <2>5
      <4>2. PICK y \in Int : y = body[j].claimed
        BY <2>5
      <4>3. [challenge |-> "minted", ordinal |-> x] = [challenge |-> "minted", ordinal |-> y]
        BY <2>5, <4>1, <4>2
      <4>4. x = y
        BY <4>3
      <4>5. (i < j => x < y) /\ (j < i => y < x)
        BY <2>6, <4>1, <4>2
      <4>. QED BY <4>4, <4>5
    <3>2. f \in [1..n -> proven] /\ \A p \in proven : \E i \in 1..n : f[i] = p
      OBVIOUS
    <3> HIDE DEF proven, f
    <3>. QED BY <3>1, <3>2 DEF Bijection, Injection, Surjection, IsInjective
  <2>8. IsFiniteSet(1..n) /\ Cardinality(1..n) = n
    BY FS_Interval
  <2>9. Cardinality(proven) = n
    <3> HIDE DEF proven, f
    <3>. QED BY <2>7, <2>8, FS_Bijection DEF ExistsBijection
  <2>10. proven \subseteq [challenge : {"minted"}, ordinal : work.winners]
    <3> SUFFICES ASSUME NEW i \in 1..n
                 PROVE  body[i].proves \in [challenge : {"minted"}, ordinal : work.winners]
      OBVIOUS
    <3>1. PICK x : x = body[i].claimed
      OBVIOUS
    <3>2. body[i].proves = [challenge |-> "minted", ordinal |-> x] /\ x \in work.winners
      BY <2>5, <3>1
    <3>. QED BY <3>2
  <2>11. {body[i].proves : i \in DOMAIN body} = proven
    BY <2>3
  <2> HIDE DEF proven, f
  <2>. QED BY <2>1, <2>2, <2>9, <2>10, <2>11 DEF AcceptedWinsAreDistinct
<1>. QED
  BY <1>1, Initially, Kept, PTL DEF Spec
=============================================================================
