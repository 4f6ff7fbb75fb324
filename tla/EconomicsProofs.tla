-------------------------- MODULE EconomicsProofs --------------------------
(***************************************************************************)
(* What holds of the difficulty an instance estimates with, for any number *)
(* of polls, torn writes, deaths and readers: with a key only ZK           *)
(* difficulties get in (ZkOnly), a cut append costs the history one        *)
(* observation at most (LossIsBounded), and a reader is answered evenly    *)
(* spaced points (EvenlyThinned), oldest first (AnsweredInOrder).          *)
(*                                                                         *)
(* The invariant says of each line what it may be (TypeInv), that it was   *)
(* observed (SeenInv), that lines are numbered and, while the clock is     *)
(* monotonic, timed in the order of the file (OrderInv), and that every    *)
(* cut pays for one observation lost, now or with the append that will be  *)
(* glued to the torn line (LossInv).                                       *)
(***************************************************************************)
EXTENDS Economics, FiniteSetTheorems, SequenceTheorems, WellFoundedInduction, TLAPS

\* An observation: one made with a key is of a ZK tip.
Point ==
  {p \in [n : Nat, t : Nat, difficulty : Nat \ {0}, keyed : BOOLEAN] :
     p.keyed => p.difficulty \in ZkDifficulties}

-----------------------------------------------------------------------------
(* The inductive invariant.                                                *)

TypeInv ==
  /\ up \in BOOLEAN /\ rpc \in BOOLEAN /\ stepped \in BOOLEAN /\ logos \in BOOLEAN
  /\ cache \in (Nat \ {0}) \cup {Nothing}
  /\ rpc => cache \in ZkDifficulties \cup {Nothing}
  /\ log \in Seq(Point \cup {Part})
  /\ tail \in Point \cup {Part, Nothing}
  /\ writer \in {"idle", "json", "rest", "newline"}
  /\ point \in Point \cup {Nothing}
  /\ now \in Nat /\ polls \in Nat /\ cut \in Nat
  /\ acked \subseteq Point /\ IsFiniteSet(acked)
  /\ writer # "idle" => point # Nothing
  /\ writer = "rest" => tail = Part
  /\ writer = "newline" => tail \in {Part, point}

\* What is in the file, or will be, was observed.
SeenInv ==
  /\ \A i \in DOMAIN log : log[i] # Part => log[i] \in observed
  /\ tail \in Point => tail \in observed
  /\ writer # "idle" => point \in observed

\* An observation is older than another.
Before(p, q) == p.n < q.n /\ (~stepped => p.t <= q.t)

\* The observations in the file and the one being written, in their order.
OrderInv ==
  /\ \A i, j \in DOMAIN log : i < j /\ log[i] # Part /\ log[j] # Part => Before(log[i], log[j])
  /\ \A i \in DOMAIN log : log[i] # Part =>
       /\ log[i].n < polls /\ (~stepped => log[i].t <= now)
       /\ tail \in Point => Before(log[i], tail)
       /\ writer # "idle" => Before(log[i], point)
  /\ tail \in Point =>
       /\ tail.n < polls /\ (~stepped => tail.t <= now)
       /\ writer = "json" => Before(tail, point)
  /\ writer # "idle" => point.n < polls /\ (~stepped => point.t <= now)

\* The torn line, when an observation will be glued to it or has been.
Debt ==
  IF tail # Nothing /\ (writer \in {"idle", "json"} \/ (writer = "newline" /\ tail = Part))
  THEN 1 ELSE 0

LossInv == Cardinality(acked \ Range(log)) + Debt <= cut

Inv == TypeInv /\ SeenInv /\ OrderInv /\ LossInv

-----------------------------------------------------------------------------
(* Data.                                                                   *)

\* The marks of the last line are no observations.
LEMMA PointsAreLines ==
  /\ Part # Nothing /\ Part \notin Point /\ Nothing \notin Point
  /\ \A p \in Point : p.n \in Nat /\ p.t \in Nat /\ p.difficulty \in Nat \ {0}
<1>1. Point \subseteq [n : Nat, t : Nat, difficulty : Nat, keyed : BOOLEAN]
  BY DEF Point
<1>. QED
  BY <1>1, LineAssumption DEF Point

\* Induction, for a set of numbers.
LEMMA InductionOverNat ==
  ASSUME NEW S \in SUBSET Nat, 0 \in S, \A n \in S : n + 1 \in S
  PROVE  S = Nat
<1> SUFFICES ASSUME Nat \ S # {} PROVE FALSE
  OBVIOUS
<1>1. PICK m \in Nat \ S : \A j \in Nat \ S : ~(<<j, m>> \in OpToRel(<, Nat))
  <2> HIDE DEF OpToRel
  <2>. QED BY NatLessThanWellFounded, WFMin
<1>2. \A j \in Nat \ S : ~(j < m)
  BY <1>1 DEF OpToRel
<1>3. m # 0 /\ m - 1 \in Nat
  OBVIOUS
<1>4. m - 1 \in S
  BY <1>2, <1>3
<1>. QED
  BY <1>3, <1>4

\* pts are the first m lines that are kept, in their order.
Selects(pts, lines, m, since) ==
  \E g \in [1..Len(pts) -> 1..m] :
    /\ \A i, j \in 1..Len(pts) : i < j => g[i] < g[j]
    /\ \A i \in 1..Len(pts) : pts[i] = lines[g[i]] /\ Kept(lines[g[i]], since)
    /\ \A l \in 1..m : Kept(lines[l], since) => \E i \in 1..Len(pts) : g[i] = l

LEMMA SelectsNone ==
  ASSUME NEW lines, NEW since
  PROVE  Selects(<<>>, lines, 0, since)
<1>1. Len(<<>>) = 0 /\ 1..0 = {}
  OBVIOUS
<1>2. PICK g \in [1..0 -> 1..0] : TRUE
  <2>1. [i \in 1..0 |-> i] \in [1..0 -> 1..0]
    OBVIOUS
  <2>. QED BY <2>1
<1>. QED
  BY <1>1, <1>2 DEF Selects

\* A line that is not kept.
LEMMA SelectsSkips ==
  ASSUME NEW V, NEW pts \in Seq(V), NEW lines, NEW m \in Nat, NEW since,
         Selects(pts, lines, m, since), ~Kept(lines[m + 1], since)
  PROVE  Selects(pts, lines, m + 1, since)
<1>1. PICK g \in [1..Len(pts) -> 1..m] :
        /\ \A i, j \in 1..Len(pts) : i < j => g[i] < g[j]
        /\ \A i \in 1..Len(pts) : pts[i] = lines[g[i]] /\ Kept(lines[g[i]], since)
        /\ \A l \in 1..m : Kept(lines[l], since) => \E i \in 1..Len(pts) : g[i] = l
  BY DEF Selects
<1>2. g \in [1..Len(pts) -> 1..m + 1]
  OBVIOUS
<1>3. \A l \in 1..m + 1 : l \in 1..m \/ l = m + 1
  OBVIOUS
<1>. QED
  BY <1>1, <1>2, <1>3 DEF Selects

\* A line that is kept.
LEMMA SelectsNext ==
  ASSUME NEW V, NEW pts \in Seq(V), NEW lines, NEW m \in Nat, NEW since,
         Selects(pts, lines, m, since), Kept(lines[m + 1], since), lines[m + 1] \in V
  PROVE  Selects(Append(pts, lines[m + 1]), lines, m + 1, since)
<1>1. PICK g \in [1..Len(pts) -> 1..m] :
        /\ \A i, j \in 1..Len(pts) : i < j => g[i] < g[j]
        /\ \A i \in 1..Len(pts) : pts[i] = lines[g[i]] /\ Kept(lines[g[i]], since)
        /\ \A l \in 1..m : Kept(lines[l], since) => \E i \in 1..Len(pts) : g[i] = l
  BY DEF Selects
<1>2. PICK n \in Nat : n = Len(pts)
  BY LenProperties
<1>3. PICK q : q = Append(pts, lines[m + 1])
  OBVIOUS
<1>4. Len(q) = n + 1 /\ q[n + 1] = lines[m + 1] /\ \A i \in 1..n : q[i] = pts[i]
  BY <1>2, <1>3, AppendProperties
<1>5. PICK h \in [1..n + 1 -> 1..m + 1] : h[n + 1] = m + 1 /\ \A i \in 1..n : h[i] = g[i]
  <2>1. PICK h : h = [i \in 1..n + 1 |-> IF i = n + 1 THEN m + 1 ELSE g[i]]
    OBVIOUS
  <2>2. \A i \in 1..n : g[i] \in 1..m + 1 /\ i \in 1..n + 1 /\ i # n + 1
    BY <1>2
  <2>3. h \in [1..n + 1 -> 1..m + 1]
    BY <1>2, <2>1
  <2>4. h[n + 1] = m + 1 /\ \A i \in 1..n : h[i] = g[i]
    BY <2>1, <2>2
  <2>. QED BY <2>3, <2>4
<1>6. \A i \in 1..n + 1 : i \in 1..n \/ i = n + 1
  BY <1>2
<1>7. \A i \in 1..n : g[i] \in 1..m
  BY <1>2
<1>8. \A i, j \in 1..n + 1 : i < j => h[i] < h[j]
  <2> SUFFICES ASSUME NEW i \in 1..n + 1, NEW j \in 1..n + 1, i < j PROVE h[i] < h[j]
    OBVIOUS
  <2>1. i \in 1..n
    OBVIOUS
  <2>2. CASE j = n + 1
    BY <1>5, <1>7, <2>1, <2>2
  <2>3. CASE j \in 1..n
    BY <1>1, <1>2, <1>5, <2>1, <2>3
  <2>. QED BY <1>6, <2>2, <2>3
<1>9. \A i \in 1..n + 1 : q[i] = lines[h[i]] /\ Kept(lines[h[i]], since)
  BY <1>1, <1>2, <1>4, <1>5, <1>6
<1>10. ASSUME NEW l \in 1..m + 1, Kept(lines[l], since) PROVE \E i \in 1..n + 1 : h[i] = l
  <2>1. CASE l = m + 1
    BY <1>5, <2>1
  <2>2. CASE l \in 1..m
    <3>1. PICK i \in 1..n : g[i] = l
      BY <1>1, <1>2, <1>10, <2>2
    <3>2. i \in 1..n + 1 /\ h[i] = l
      BY <1>5, <3>1
    <3>. QED BY <3>2
  <2>3. l = m + 1 \/ l \in 1..m
    OBVIOUS
  <2>. QED BY <2>1, <2>2, <2>3
<1>11. Selects(q, lines, m + 1, since)
  <2>1. h \in [1..Len(q) -> 1..m + 1] /\ 1..Len(q) = 1..n + 1
    BY <1>4
  <2>2. \A i, j \in 1..Len(q) : i < j => h[i] < h[j]
    BY <1>8, <2>1
  <2>3. \A i \in 1..Len(q) : q[i] = lines[h[i]] /\ Kept(lines[h[i]], since)
    BY <1>9, <2>1
  <2>4. \A l \in 1..m + 1 : Kept(lines[l], since) => \E i \in 1..Len(q) : h[i] = l
    BY <1>10, <2>1
  <2> HIDE DEF Kept
  <2>. QED BY <2>1, <2>2, <2>3, <2>4, Zenon DEF Selects
<1>. QED
  BY <1>3, <1>11

\* One more line of the reading.
StepOf(f, lines, n, since) ==
  IF Kept(lines[n], since) THEN Append(f[n - 1], lines[n]) ELSE f[n - 1]

Reads(f, V, lines, since, m) ==
  /\ f \in [0..m -> Seq(V)]
  /\ f[0] = <<>>
  /\ \A n \in 1..m : f[n] = StepOf(f, lines, n, since)

\* The recursion of Points is well founded: reading up to any line defines a function.
LEMMA ReadingExists ==
  ASSUME NEW V, NEW lines \in Seq(V), NEW since, NEW m \in Nat, m <= Len(lines)
  PROVE  \E f : Reads(f, V, lines, since, m)
<1> DEFINE S == {l \in Nat : l <= Len(lines) => \E f : Reads(f, V, lines, since, l)}
<1>0. Len(lines) \in Nat
  BY LenProperties
<1>1. 0 \in S
  <2>1. PICK f : f = [n \in 0..0 |-> <<>>]
    OBVIOUS
  <2>2. <<>> \in Seq(V)
    BY EmptySeq
  <2>3. f \in [0..0 -> Seq(V)] /\ f[0] = <<>>
    BY <2>1, <2>2
  <2>4. 1..0 = {}
    OBVIOUS
  <2>5. Reads(f, V, lines, since, 0)
    BY <2>3, <2>4 DEF Reads
  <2>. QED BY <2>5
<1>2. ASSUME NEW l \in S, l + 1 <= Len(lines) PROVE \E f : Reads(f, V, lines, since, l + 1)
  <2>1. PICK f : Reads(f, V, lines, since, l)
    BY <1>0, <1>2
  <2>2. PICK h : h = [n \in 0..l + 1 |-> IF n = l + 1 THEN StepOf(f, lines, l + 1, since) ELSE f[n]]
    OBVIOUS
  <2>3. l \in Nat /\ l + 1 \in 1..Len(lines) /\ lines[l + 1] \in V
    BY <1>0, <1>2, ElementOfSeq
  <2>4. StepOf(f, lines, l + 1, since) \in Seq(V)
    <3>1. f[(l + 1) - 1] \in Seq(V)
      BY <2>1, <2>3 DEF Reads
    <3>. QED BY <2>3, <3>1, AppendProperties DEF StepOf
  <2>5. h \in [0..l + 1 -> Seq(V)]
    BY <2>1, <2>2, <2>3, <2>4 DEF Reads
  <2>6. h[0] = <<>>
    BY <2>1, <2>2, <2>3 DEF Reads
  <2>7. \A n \in 0..l : h[n] = f[n]
    BY <2>2, <2>3
  <2>8. h[l + 1] = StepOf(f, lines, l + 1, since)
    BY <2>2, <2>3
  <2>9. ASSUME NEW n \in 1..l + 1 PROVE h[n] = StepOf(h, lines, n, since)
    <3>1. n - 1 \in 0..l /\ h[n - 1] = f[n - 1]
      BY <2>3, <2>7
    <3>2. StepOf(h, lines, n, since) = StepOf(f, lines, n, since)
      BY <3>1 DEF StepOf
    <3>3. CASE n = l + 1
      BY <2>8, <3>2, <3>3
    <3>4. CASE n \in 1..l
      BY <2>1, <2>7, <3>2, <3>4 DEF Reads
    <3>5. n = l + 1 \/ n \in 1..l
      BY <2>3
    <3>. QED BY <3>3, <3>4, <3>5
  <2>. QED BY <2>5, <2>6, <2>9 DEF Reads
<1>3. S = Nat
  <2>1. S \subseteq Nat
    OBVIOUS
  <2>2. \A l \in S : l + 1 \in S
    BY <1>2
  <2> HIDE DEF S
  <2>. QED BY <1>1, <2>1, <2>2, InductionOverNat
<1>4. m \in S
  <2> HIDE DEF S
  <2>. QED BY <1>3
<1>. QED
  BY <1>4

\* What a reader gets: the lines that are kept, in their order.
LEMMA PointsAre ==
  ASSUME NEW V, Lines \in Seq(V), NEW since
  PROVE  Points(since) \in Seq(V) /\ Selects(Points(since), Lines, Len(Lines), since)
<1>1. PICK lines \in Seq(V) : lines = Lines
  OBVIOUS
<1>2. PICK m \in Nat : m = Len(lines)
  BY LenProperties
<1> DEFINE Reading(F) ==
      F = [n \in 0..m |->
             IF n = 0 THEN <<>>
             ELSE IF Kept(lines[n], since) THEN Append(F[n - 1], lines[n])
             ELSE F[n - 1]]
<1>3. \E F : Reading(F)
  <2>1. PICK f \in [0..m -> Seq(V)] :
          f[0] = <<>> /\ \A n \in 1..m : f[n] = StepOf(f, lines, n, since)
    <3>1. m <= Len(lines)
      BY <1>2
    <3>2. \E f : Reads(f, V, lines, since, m)
      BY <3>1, ReadingExists
    <3>. QED BY <3>2 DEF Reads
  <2>2. ASSUME NEW n \in 0..m
        PROVE  f[n] = IF n = 0 THEN <<>>
                      ELSE IF Kept(lines[n], since) THEN Append(f[n - 1], lines[n])
                      ELSE f[n - 1]
    <3>1. CASE n = 0
      BY <2>1, <3>1
    <3>2. CASE n # 0
      <4>1. n \in 1..m
        BY <3>2
      <4>2. f[n] = StepOf(f, lines, n, since)
        BY <2>1, <4>1
      <4>. QED BY <3>2, <4>2 DEF StepOf
    <3>. QED BY <3>1, <3>2
  <2>3. Reading(f)
    BY <2>2
  <2> HIDE DEF Reading
  <2>. QED BY <2>3
<1>4. PICK F : F = CHOOSE G : Reading(G)
  OBVIOUS
<1>5. Reading(F)
  <2> HIDE DEF Reading
  <2>. QED BY <1>3, <1>4
<1>6. Points(since) = F[m]
  BY <1>1, <1>2, <1>4 DEF Points
<1>7. F[0] = <<>> /\ \A n \in 1..m : F[n] = StepOf(F, lines, n, since)
  <2>1. 0 \in 0..m /\ \A n \in 1..m : n \in 0..m /\ n # 0
    BY <1>2
  <2>2. \A n \in 0..m : F[n] = IF n = 0 THEN <<>>
                             ELSE IF Kept(lines[n], since) THEN Append(F[n - 1], lines[n])
                             ELSE F[n - 1]
    BY <1>5
  <2>. QED BY <2>1, <2>2 DEF StepOf
<1> HIDE DEF Reading
<1> DEFINE S == {n \in Nat : n <= m => F[n] \in Seq(V) /\ Selects(F[n], lines, n, since)}
<1>8. 0 \in S
  BY <1>7, EmptySeq, SelectsNone
<1>9. ASSUME NEW n \in S PROVE n + 1 \in S
  <2> SUFFICES ASSUME n + 1 <= m
               PROVE  F[n + 1] \in Seq(V) /\ Selects(F[n + 1], lines, n + 1, since)
    OBVIOUS
  <2>1. n \in Nat /\ F[n] \in Seq(V) /\ Selects(F[n], lines, n, since)
    BY <1>2
  <2>2. n + 1 \in 1..m /\ (n + 1) - 1 = n
    BY <2>1
  <2>3. F[n + 1] = IF Kept(lines[n + 1], since) THEN Append(F[n], lines[n + 1]) ELSE F[n]
    BY <1>7, <2>2 DEF StepOf
  <2>4. lines[n + 1] \in V
    BY <1>2, <2>2, ElementOfSeq
  <2>5. PICK pts \in Seq(V) : pts = F[n]
    BY <2>1
  <2>6. Selects(pts, lines, n, since)
    BY <2>1, <2>5
  <2>7. CASE Kept(lines[n + 1], since)
    <3>1. F[n + 1] = Append(pts, lines[n + 1])
      BY <2>3, <2>5, <2>7
    <3>2. Selects(Append(pts, lines[n + 1]), lines, n + 1, since)
      BY <2>1, <2>4, <2>6, <2>7, SelectsNext
    <3>. QED BY <2>4, <3>1, <3>2, AppendProperties
  <2>8. CASE ~Kept(lines[n + 1], since)
    BY <2>1, <2>3, <2>5, <2>6, <2>8, SelectsSkips
  <2>. QED BY <2>7, <2>8
<1>10. m \in S
  <2>1. S \subseteq Nat
    OBVIOUS
  <2> HIDE DEF S
  <2>2. S = Nat
    BY <1>8, <1>9, <2>1, InductionOverNat
  <2>. QED BY <2>2
<1>11. F[m] \in Seq(V) /\ Selects(F[m], lines, m, since)
  BY <1>10
<1>. QED
  BY <1>1, <1>2, <1>6, <1>11

-----------------------------------------------------------------------------
(* Thinning.                                                               *)

\* A quotient rounded down, and what is left over.
LEMMA Quotient ==
  ASSUME NEW x \in Nat, NEW c \in Nat \ {0}
  PROVE  /\ x \div c \in Nat /\ x % c \in Nat
         /\ x = c * (x \div c) + (x % c) /\ x % c < c
  OBVIOUS

LEMMA Cancel ==
  ASSUME NEW a \in Int, NEW b \in Int, NEW c \in Nat \ {0}, c * a < c * b
  PROVE  a < b
<1> SUFFICES ASSUME b <= a PROVE FALSE
  OBVIOUS
<1>1. \E d \in Nat : a = b + d
  <2>1. a - b \in Nat /\ a = b + (a - b)
    OBVIOUS
  <2>. QED BY <2>1
<1>2. PICK d \in Nat : a = b + d
  BY <1>1
<1>3. c * a = c * b + c * d /\ c * d \in Nat /\ c * a \in Int /\ c * b \in Int
  BY <1>2
<1>4. PICK x \in Int, y \in Int, z \in Nat : x = c * a /\ y = c * b /\ z = c * d
  BY <1>3
<1>. QED
  BY <1>3, <1>4

\* Positions a step of n/c apart, n > c + 1, rounded down or a little further where
\* the product is whole: they differ, and by no more than the step and one.
LEMMA Spaced ==
  ASSUME NEW n \in Nat, NEW c \in Nat \ {0}, n > c + 1,
         NEW i \in Nat, NEW j \in Nat, i < j,
         NEW e \in 0..1, NEW f \in 0..1,
         e = 1 => (i * n) % c = 0, f = 1 => (j * n) % c = 0
  PROVE  /\ (i * n) \div c - e < (j * n) \div c - f
         /\ j = i + 1 => (((j * n) \div c - f) - ((i * n) \div c - e) - 1) * c <= n
<1>1. PICK x \in Nat : x = i * n
  OBVIOUS
<1>2. PICK y \in Nat : y = j * n
  OBVIOUS
<1>3. y >= x + n /\ (j = i + 1 => y = x + n)
  <2>1. (i + 1) * n = x + n
    BY <1>1
  <2>2. (i + 1) * n <= j * n
    <3>1. PICK d \in Nat : j = (i + 1) + d
      <4>1. j - (i + 1) \in Nat /\ j = (i + 1) + (j - (i + 1))
        OBVIOUS
      <4>. QED BY <4>1
    <3>2. j * n = (i + 1) * n + d * n /\ d * n \in Nat /\ (i + 1) * n \in Nat
      BY <3>1
    <3>. QED BY <3>2
  <2>. QED BY <1>2, <2>1, <2>2
<1>4. PICK p \in Nat, r \in Nat : p = x \div c /\ r = x % c
  BY Quotient
<1>5. PICK q \in Nat, s \in Nat : q = y \div c /\ s = y % c
  BY Quotient
<1>6. x = c * p + r /\ r < c /\ y = c * q + s /\ s < c
  BY <1>4, <1>5, Quotient
<1>7. (e = 1 => r = 0) /\ (f = 1 => s = 0)
  BY <1>1, <1>2, <1>4, <1>5
<1>8. PICK cp \in Nat, cq \in Nat : cp = c * p /\ cq = c * q
  OBVIOUS
<1>9. p - e < q - f
  <2>1. CASE f = 1
    <3>1. cp < cq - c
      BY <1>3, <1>6, <1>7, <1>8, <2>1
    <3>2. c * (q - 1) = cq - c
      BY <1>8
    <3>3. p < q - 1
      BY <1>8, <3>1, <3>2, Cancel
    <3>. QED BY <2>1, <3>3
  <2>2. CASE f = 0
    <3>1. cp < cq
      BY <1>3, <1>6, <1>8
    <3>2. p < q
      BY <1>8, <3>1, Cancel
    <3>. QED BY <2>2, <3>2
  <2>. QED BY <2>1, <2>2
<1>10. ASSUME j = i + 1 PROVE ((q - f) - (p - e) - 1) * c <= n
  <2>1. ((q - f) - (p - e) - 1) * c = cq - cp + (e - f - 1) * c
    BY <1>8
  <2>2. (e - f - 1) * c = IF e = 1 THEN IF f = 1 THEN - c ELSE 0
                          ELSE IF f = 1 THEN - (2 * c) ELSE - c
    OBVIOUS
  <2>3. PICK z \in Int : z = (e - f - 1) * c
    OBVIOUS
  <2>4. cq - cp + z <= n
    BY <1>3, <1>6, <1>7, <1>8, <1>10, <2>2, <2>3
  <2>. QED BY <2>1, <2>3, <2>4
<1>. QED
  BY <1>1, <1>2, <1>4, <1>5, <1>9, <1>10

\* What is kept of more points than are wanted, and more than one is: each position
\* is as Spaced has it, the last one because c * n is whole.
LEMMA ThinnedIs ==
  ASSUME NEW n \in Nat, NEW cap \in Nat, 1 < cap, cap < n, NEW kept \in Positions(n, cap)
  PROVE  /\ kept \in Seq(Int) /\ Len(kept) = cap /\ kept[cap] = n /\ kept[1] = 1
         /\ \A i \in 1..cap : \E e \in 0..1 :
              /\ kept[i] = ((i - 1) * n) \div (cap - 1) + 1 - e
              /\ e = 1 => ((i - 1) * n) % (cap - 1) = 0
<1>1. PICK c \in Nat \ {0} : c = cap - 1
  OBVIOUS
<1>2. PICK low \in SUBSET (1..cap - 2) :
        kept = [i \in 1..cap |->
                  IF i = cap THEN n
                  ELSE ((i - 1) * n) \div (cap - 1) + 1
                       - (IF (i - 1) \in low /\ ((i - 1) * n) % (cap - 1) = 0 THEN 1 ELSE 0)]
  <2>1. ~(n <= cap \/ cap = 0) /\ cap # 1
    OBVIOUS
  <2>2. kept \in {[i \in 1..cap |->
             IF i = cap THEN n
             ELSE ((i - 1) * n) \div (cap - 1) + 1
                  - (IF (i - 1) \in low /\ ((i - 1) * n) % (cap - 1) = 0 THEN 1 ELSE 0)] :
            low \in SUBSET (IF cap = 1 \/ n % (cap - 1) = 0 THEN {} ELSE 1..cap - 2)}
    BY <2>1, Zenon DEF Positions
  <2>3. PICK low \in SUBSET (IF cap = 1 \/ n % (cap - 1) = 0 THEN {} ELSE 1..cap - 2) :
          kept = [i \in 1..cap |->
                  IF i = cap THEN n
                  ELSE ((i - 1) * n) \div (cap - 1) + 1
                       - (IF (i - 1) \in low /\ ((i - 1) * n) % (cap - 1) = 0 THEN 1 ELSE 0)]
    BY <2>2, Zenon
  <2>4. low \in SUBSET (1..cap - 2)
    BY <2>3
  <2>. QED BY <2>3, <2>4, Zenon
<1>3. DOMAIN kept = 1..cap /\ kept[cap] = n
  BY <1>2
<1>4. ASSUME NEW i \in 1..cap - 1
      PROVE  \E e \in 0..1 :
               /\ kept[i] = ((i - 1) * n) \div (cap - 1) + 1 - e
               /\ e = 1 => ((i - 1) * n) % (cap - 1) = 0 /\ i - 1 \in 1..cap - 2
  <2> DEFINE low1 == (i - 1) \in low /\ ((i - 1) * n) % (cap - 1) = 0
  <2>1. kept[i] = ((i - 1) * n) \div (cap - 1) + 1 - (IF low1 THEN 1 ELSE 0)
    BY <1>2
  <2>2. PICK e \in 0..1 : e = IF low1 THEN 1 ELSE 0
    OBVIOUS
  <2>3. e = 1 => ((i - 1) * n) % (cap - 1) = 0 /\ i - 1 \in 1..cap - 2
    BY <1>2, <2>2
  <2> HIDE DEF low1
  <2>. QED BY <2>1, <2>2, <2>3
<1>5. kept[cap] = ((cap - 1) * n) \div (cap - 1) + 1 - 1 /\ ((cap - 1) * n) % (cap - 1) = 0
  <2>1. PICK y \in Nat : y = c * n
    OBVIOUS
  <2>2. PICK q \in Nat, r \in Nat : q = y \div c /\ r = y % c /\ y = c * q + r /\ r < c
    BY Quotient
  <2>3. q = n
    <3>1. PICK cq \in Nat : cq = c * q
      OBVIOUS
    <3>2. c * (n + 1) = y + c /\ c * (q + 1) = cq + c
      BY <2>1, <3>1
    <3>3. c * q < c * (n + 1) /\ c * n < c * (q + 1)
      BY <2>1, <2>2, <3>1, <3>2
    <3>4. q < n + 1 /\ n < q + 1
      BY <3>3, Cancel
    <3>. QED BY <3>4
  <2>4. r = 0
    BY <2>1, <2>2, <2>3
  <2>. QED BY <1>1, <1>3, <2>1, <2>2, <2>3, <2>4
<1>6. ASSUME NEW i \in 1..cap
      PROVE  \E e \in 0..1 : /\ kept[i] = ((i - 1) * n) \div (cap - 1) + 1 - e
                             /\ e = 1 => ((i - 1) * n) % (cap - 1) = 0
  <2>1. CASE i = cap
    BY <1>5, <2>1
  <2>2. CASE i \in 1..cap - 1
    BY <1>4, <2>2
  <2>. QED BY <2>1, <2>2
<1>7. \A i \in 1..cap : kept[i] \in Int
  <2> SUFFICES ASSUME NEW i \in 1..cap PROVE kept[i] \in Int
    OBVIOUS
  <2>1. (i - 1) * n \in Nat
    OBVIOUS
  <2>2. PICK x \in Nat : x = (i - 1) * n
    BY <2>1
  <2>3. x \div c \in Nat
    BY Quotient
  <2>. QED BY <1>1, <1>6, <2>2, <2>3
<1>8. kept \in Seq(Int) /\ Len(kept) = cap
  <2>1. kept \in [1..cap -> Int]
    BY <1>2, <1>7
  <2>. QED BY <2>1
<1>9. kept[1] = 1
  <2>1. 1 \in 1..cap - 1
    OBVIOUS
  <2>2. PICK e \in 0..1 : kept[1] = ((1 - 1) * n) \div (cap - 1) + 1 - e /\ (e = 1 => 1 - 1 \in 1..cap - 2)
    BY <1>4, <2>1
  <2>3. e = 0
    BY <2>2
  <2>4. (1 - 1) * n = 0
    OBVIOUS
  <2>5. 0 \div (cap - 1) = 0
    OBVIOUS
  <2>. QED BY <2>2, <2>3, <2>4, <2>5
<1>. QED
  BY <1>3, <1>6, <1>8, <1>9

\* Without thinning every position is kept, and with a cap of one the last.
LEMMA UnthinnedIs ==
  ASSUME NEW n \in Nat, NEW cap \in Nat, ~(1 < cap /\ cap < n), NEW kept \in Positions(n, cap)
  PROVE  /\ n <= cap \/ cap = 0 => kept = [i \in 1..n |-> i]
         /\ ~(n <= cap \/ cap = 0) => cap = 1 /\ kept = [i \in 1..1 |-> n]
<1>1. CASE n <= cap \/ cap = 0
  BY <1>1 DEF Positions
<1>2. CASE ~(n <= cap \/ cap = 0)
  <2>1. cap = 1
    BY <1>2
  <2>2. kept \in {[i \in 1..1 |->
             IF i = 1 THEN n
             ELSE ((i - 1) * n) \div (1 - 1) + 1
                  - (IF (i - 1) \in low /\ ((i - 1) * n) % (1 - 1) = 0 THEN 1 ELSE 0)] :
            low \in SUBSET {}}
    BY <1>2, <2>1 DEF Positions
  <2>3. PICK low \in SUBSET {} : kept = [i \in 1..1 |->
             IF i = 1 THEN n
             ELSE ((i - 1) * n) \div (1 - 1) + 1
                  - (IF (i - 1) \in low /\ ((i - 1) * n) % (1 - 1) = 0 THEN 1 ELSE 0)]
    BY <2>2, Zenon
  <2>4. \A i \in 1..1 : i = 1
    OBVIOUS
  <2>5. kept = [i \in 1..1 |-> n]
    BY <2>3, <2>4
  <2>. QED BY <1>2, <2>1, <2>5
<1>. QED BY <1>1, <1>2

\* The positions that are kept, whatever the cap, ascend within the points.
LEMMA KeptAscend ==
  ASSUME NEW n \in Nat, NEW cap \in Nat, NEW kept \in Positions(n, cap)
  PROVE  /\ kept \in Seq(1..n)
         /\ \A i, j \in 1..Len(kept) : i < j => kept[i] < kept[j]
<1>1. CASE 1 < cap /\ cap < n
  <2>1. /\ kept \in Seq(Int) /\ Len(kept) = cap /\ kept[cap] = n /\ kept[1] = 1
        /\ \A i \in 1..cap : \E e \in 0..1 :
              /\ kept[i] = ((i - 1) * n) \div (cap - 1) + 1 - e
              /\ e = 1 => ((i - 1) * n) % (cap - 1) = 0
    BY <1>1, ThinnedIs
  <2>2. \A i \in 1..cap : kept[i] \in Int
    BY <2>1, ElementOfSeq
  <2>3. ASSUME NEW i \in 1..cap, NEW j \in 1..cap, i < j PROVE kept[i] < kept[j]
    <3>1. PICK e \in 0..1 : kept[i] = ((i - 1) * n) \div (cap - 1) + 1 - e
                            /\ (e = 1 => ((i - 1) * n) % (cap - 1) = 0)
      BY <2>1
    <3>2. PICK f \in 0..1 : kept[j] = ((j - 1) * n) \div (cap - 1) + 1 - f
                            /\ (f = 1 => ((j - 1) * n) % (cap - 1) = 0)
      BY <2>1
    <3>3. PICK c \in Nat \ {0}, k \in Nat, l \in Nat : c = cap - 1 /\ k = i - 1 /\ l = j - 1
      BY <1>1
    <3>4. n > c + 1 /\ k < l
      BY <1>1, <2>3, <3>3
    <3>5. (k * n) \div c - e < (l * n) \div c - f
      BY <3>1, <3>2, <3>3, <3>4, Spaced
    <3>6. (k * n) \div c \in Int /\ (l * n) \div c \in Int
      BY <3>3
    <3>7. PICK p \in Int, q \in Int : p = (k * n) \div c /\ q = (l * n) \div c
      BY <3>6
    <3>. QED BY <3>1, <3>2, <3>3, <3>5, <3>7
  <2>4. ASSUME NEW i \in 1..cap PROVE kept[i] \in 1..n
    <3>1. 1 \in 1..cap /\ cap \in 1..cap
      BY <1>1
    <3>2. i = 1 \/ kept[1] < kept[i]
      BY <2>3, <3>1
    <3>3. i = cap \/ kept[i] < kept[cap]
      BY <2>3, <3>1
    <3>. QED BY <2>1, <2>2, <3>2, <3>3, <1>1
  <2>5. kept \in Seq(1..n)
    <3>1. kept \in [1..cap -> Int]
      BY <2>1
    <3>2. kept \in [1..cap -> 1..n]
      BY <2>4, <3>1
    <3>. QED BY <3>2
  <2>. QED BY <2>1, <2>3, <2>5
<1>2. CASE ~(1 < cap /\ cap < n) /\ (n <= cap \/ cap = 0)
  <2>1. kept = [i \in 1..n |-> i]
    BY <1>2, UnthinnedIs
  <2>2. kept \in [1..n -> 1..n]
    BY <2>1
  <2>3. kept \in Seq(1..n) /\ Len(kept) = n
    BY <2>2
  <2>. QED BY <2>1, <2>3
<1>3. CASE ~(1 < cap /\ cap < n) /\ ~(n <= cap \/ cap = 0)
  <2>1. kept = [i \in 1..1 |-> n] /\ n \in 1..n
    BY <1>3, UnthinnedIs
  <2>2. kept \in [1..1 -> 1..n]
    BY <2>1
  <2>3. kept \in Seq(1..n)
    BY <2>2, SeqDef
  <2>4. DOMAIN kept = 1..Len(kept) /\ Len(kept) \in Nat
    BY <2>3, LenProperties
  <2>5. 1..Len(kept) = 1..1
    BY <2>2, <2>4
  <2>6. \A i, j \in 1..1 : ~(i < j)
    OBVIOUS
  <2>. QED BY <2>3, <2>5, <2>6
<1>. QED BY <1>1, <1>2, <1>3

LEMMA MinOfTwo ==
  ASSUME NEW a \in Int, NEW b \in Int
  PROVE  Min({a, b}) = IF a <= b THEN a ELSE b
  BY DEF Min

\* A reader's share of n points.
LEMMA KeptSpaced ==
  ASSUME NEW n \in Nat, NEW cap \in Nat \ {0}, NEW kept \in Positions(n, cap)
  PROVE  /\ Len(kept) = Min({n, cap})
         /\ n > 0 => kept[Len(kept)] = n
         /\ n > 0 /\ cap > 1 => kept[1] = 1
         /\ \A i \in 1..Len(kept) - 1 :
              kept[i] < kept[i + 1] /\ (kept[i + 1] - kept[i] - 1) * (cap - 1) <= n
<1>0. kept \in Seq(1..n) /\ Len(kept) \in Nat
      /\ \A i, j \in 1..Len(kept) : i < j => kept[i] < kept[j]
  BY KeptAscend, LenProperties
<1>a. \A i \in 1..Len(kept) - 1 : kept[i] < kept[i + 1]
  <2>1. \A i \in 1..Len(kept) - 1 : i \in 1..Len(kept) /\ i + 1 \in 1..Len(kept) /\ i < i + 1
    BY <1>0
  <2>. QED BY <1>0, <2>1
<1>1. CASE 1 < cap /\ cap < n
  <2>1. /\ kept \in Seq(Int) /\ Len(kept) = cap /\ kept[cap] = n /\ kept[1] = 1
        /\ \A i \in 1..cap : \E e \in 0..1 :
              /\ kept[i] = ((i - 1) * n) \div (cap - 1) + 1 - e
              /\ e = 1 => ((i - 1) * n) % (cap - 1) = 0
    BY <1>1, ThinnedIs
  <2>2. ASSUME NEW i \in 1..cap - 1 PROVE (kept[i + 1] - kept[i] - 1) * (cap - 1) <= n
    <3>1. PICK e \in 0..1 : kept[i] = ((i - 1) * n) \div (cap - 1) + 1 - e
                            /\ (e = 1 => ((i - 1) * n) % (cap - 1) = 0)
      BY <2>1
    <3>2. PICK f \in 0..1 : kept[i + 1] = (((i + 1) - 1) * n) \div (cap - 1) + 1 - f
                            /\ (f = 1 => (((i + 1) - 1) * n) % (cap - 1) = 0)
      BY <2>1
    <3>3. PICK c \in Nat \ {0}, k \in Nat, l \in Nat :
            c = cap - 1 /\ k = i - 1 /\ l = (i + 1) - 1 /\ l = k + 1
      BY <1>1
    <3>4. n > c + 1 /\ k < l
      BY <1>1, <3>3
    <3>5. (((l * n) \div c - f) - ((k * n) \div c - e) - 1) * c <= n
      BY <3>1, <3>2, <3>3, <3>4, Spaced
    <3>6. PICK p \in Int, q \in Int : p = (k * n) \div c /\ q = (l * n) \div c
      BY <3>3
    <3>7. kept[i + 1] - kept[i] - 1 = (q - f) - (p - e) - 1
      BY <3>1, <3>2, <3>3, <3>6
    <3>. QED BY <3>3, <3>5, <3>6, <3>7
  <2>3. Min({n, cap}) = cap
    BY <1>1, MinOfTwo
  <2>. QED BY <1>a, <1>1, <2>1, <2>2, <2>3
<1>2. CASE n <= cap
  <2>1. kept = [i \in 1..n |-> i]
    BY <1>2, UnthinnedIs
  <2>2. Len(kept) = n
    BY <2>1
  <2>3. Min({n, cap}) = n
    BY <1>2, MinOfTwo
  <2>4. \A i \in 1..Len(kept) - 1 : (kept[i + 1] - kept[i] - 1) * (cap - 1) <= n
    <3> SUFFICES ASSUME NEW i \in 1..n - 1 PROVE (kept[i + 1] - kept[i] - 1) * (cap - 1) <= n
      BY <2>2
    <3>1. kept[i + 1] = i + 1 /\ kept[i] = i
      BY <2>1
    <3>2. kept[i + 1] - kept[i] - 1 = 0
      BY <3>1
    <3>. QED BY <3>2
  <2>5. n > 0 => kept[Len(kept)] = n /\ kept[1] = 1
    BY <2>1, <2>2
  <2>. QED BY <1>a, <2>2, <2>3, <2>4, <2>5
<1>3. CASE cap = 1 /\ 1 < n
  <2>1. kept = [i \in 1..1 |-> n]
    BY <1>3, UnthinnedIs
  <2>2. Len(kept) = 1 /\ kept[1] = n
    BY <2>1
  <2>3. Min({n, cap}) = 1
    BY <1>3, MinOfTwo
  <2>. QED BY <1>3, <1>a, <2>2, <2>3
<1>. QED BY <1>1, <1>2, <1>3

-----------------------------------------------------------------------------
(* The file.                                                               *)

LEMMA LinesType ==
  ASSUME TypeInv
  PROVE  /\ Lines \in Seq(Point \cup {Part})
         /\ Len(log) \in Nat /\ DOMAIN log = 1..Len(log)
         /\ tail = Nothing => Lines = log
         /\ tail # Nothing => /\ Len(Lines) = Len(log) + 1 /\ Lines[Len(log) + 1] = tail
                              /\ \A i \in 1..Len(log) : Lines[i] = log[i]
<1>1. log \in Seq(Point \cup {Part}) /\ Len(log) \in Nat /\ DOMAIN log = 1..Len(log)
  BY LenProperties DEF TypeInv
<1>2. tail # Nothing => tail \in Point \cup {Part}
  BY DEF TypeInv
<1>3. CASE tail = Nothing
  BY <1>1, <1>3 DEF Lines
<1>4. CASE tail # Nothing
  <2>1. /\ Append(log, tail) \in Seq(Point \cup {Part})
        /\ Len(Append(log, tail)) = Len(log) + 1
        /\ \A i \in 1..Len(log) : Append(log, tail)[i] = log[i]
        /\ Append(log, tail)[Len(log) + 1] = tail
    BY <1>1, <1>2, <1>4, AppendProperties
  <2>2. Lines = Append(log, tail)
    BY <1>4 DEF Lines
  <2>. QED BY <1>1, <1>4, <2>1, <2>2
<1>. QED BY <1>3, <1>4

\* Whatever a reader gets is an observation.
LEMMA PointsType ==
  ASSUME TypeInv, NEW since
  PROVE  /\ Points(since) \in Seq(Point)
         /\ Selects(Points(since), Lines, Len(Lines), since)
<1>1. PICK pts \in Seq(Point \cup {Part}) : pts = Points(since)
  BY LinesType, PointsAre
<1>2. Selects(pts, Lines, Len(Lines), since)
  BY <1>1, LinesType, PointsAre
<1>3. \A i \in 1..Len(pts) : pts[i] # Part
  BY <1>2 DEF Selects, Kept
<1>4. \A i \in 1..Len(pts) : pts[i] \in Point
  BY <1>3, ElementOfSeq
<1>5. pts \in Seq(Point)
  <2>1. Len(pts) \in Nat /\ pts \in [1..Len(pts) -> Point \cup {Part}]
    BY LenProperties
  <2>2. pts \in [1..Len(pts) -> Point]
    BY <1>4, <2>1
  <2>. QED BY <2>1, <2>2, SeqDef
<1>. QED
  BY <1>1, <1>2, <1>5

\* A line more, whether the append has been torn or not.
LEMMA LogGrows ==
  ASSUME TypeInv, NEW x \in Point \cup {Part}
  PROVE  /\ Append(log, x) \in Seq(Point \cup {Part})
         /\ DOMAIN Append(log, x) = 1..Len(log) + 1
         /\ \A i \in 1..Len(log) : Append(log, x)[i] = log[i]
         /\ Append(log, x)[Len(log) + 1] = x
         /\ Range(Append(log, x)) = Range(log) \cup {x}
<1>1. log \in Seq(Point \cup {Part}) /\ Len(log) \in Nat /\ DOMAIN log = 1..Len(log)
  BY LenProperties DEF TypeInv
<1>2. /\ Append(log, x) \in Seq(Point \cup {Part})
      /\ DOMAIN Append(log, x) = 1..Len(log) + 1
      /\ \A i \in 1..Len(log) : Append(log, x)[i] = log[i]
      /\ Append(log, x)[Len(log) + 1] = x
  BY <1>1, AppendProperties
<1>3. Range(Append(log, x)) = Range(log) \cup {x}
  <2>1. \A i \in 1..Len(log) + 1 : i \in 1..Len(log) \/ i = Len(log) + 1
    BY <1>1
  <2>2. 1..Len(log) \subseteq 1..Len(log) + 1 /\ Len(log) + 1 \in 1..Len(log) + 1
    BY <1>1
  <2>. QED BY <1>1, <1>2, <2>1, <2>2 DEF Range
<1>. QED BY <1>2, <1>3

-----------------------------------------------------------------------------
(* The invariant.                                                          *)

\* The history before the first boot.
LEMMA OlderLines ==
  ASSUME Init
  PROVE  /\ log \in Seq(Point) /\ DOMAIN log = 1..Older
         /\ \A i \in 1..Older : log[i] \in Point /\ log[i].n = i - 1 /\ log[i].t = 0
<1>1. PICK d \in ZkDifficulties :
        log = [i \in 1..Older |-> [n |-> i - 1, t |-> 0, difficulty |-> d, keyed |-> FALSE]]
  BY DEF Init
<1>2. Older \in Nat
  BY BoundsAssumption
<1>3. ASSUME NEW i \in 1..Older
      PROVE  log[i] \in Point /\ log[i].n = i - 1 /\ log[i].t = 0
  <2>1. i - 1 \in Nat /\ d \in Nat \ {0}
    BY <1>2, DifficultyAssumption
  <2>2. log[i] = [n |-> i - 1, t |-> 0, difficulty |-> d, keyed |-> FALSE]
    BY <1>1
  <2>. QED BY <2>1, <2>2 DEF Point
<1>4. log \in [1..Older -> Point]
  BY <1>1, <1>3
<1>. QED
  BY <1>1, <1>2, <1>3, <1>4, SeqDef

LEMMA Initially == Init => Inv
<1> SUFFICES ASSUME Init PROVE Inv
  OBVIOUS
<1>0. Older \in Nat /\ Part # Nothing /\ Part \notin Point /\ Nothing \notin Point
  BY BoundsAssumption, PointsAreLines
<1>1. Range(log) \subseteq Point /\ IsFiniteSet(Range(log))
  <2>1. log \in [1..Older -> Point] /\ Range(log) = {log[i] : i \in 1..Older}
    BY OlderLines DEF Range
  <2>2. IsFiniteSet(1..Older)
    BY <1>0, FS_Interval
  <2>3. log \in Surjection(1..Older, Range(log))
    BY <2>1 DEF Surjection
  <2>4. IsFiniteSet(Range(log))
    BY <2>2, <2>3, FS_Surjection
  <2>. QED BY <2>1, <2>4, OlderLines
<1>2. TypeInv
  <2>1. log \in Seq(Point \cup {Part})
    <3>1. log \in [1..Older -> Point \cup {Part}]
      BY OlderLines
    <3>. QED BY <1>0, <3>1, SeqDef
  <2>2. cache \in (Nat \ {0}) \cup {Nothing} /\ cache \in ZkDifficulties \cup {Nothing}
    BY DifficultyAssumption DEF Init
  <2>. QED BY <1>0, <1>1, <2>1, <2>2 DEF Init, TypeInv
<1>3. SeenInv
  BY <1>0, OlderLines DEF Init, SeenInv, Range
<1>4. OrderInv
  <2>1. \A i, j \in 1..Older : i < j => Before(log[i], log[j])
    BY <1>0, OlderLines DEF Before
  <2>2. \A i \in 1..Older : log[i].n < polls /\ log[i].t <= now
    BY <1>0, OlderLines DEF Init
  <2>. QED BY <1>0, <2>1, <2>2, OlderLines DEF Init, OrderInv
<1>5. acked \ Range(log) = {} /\ Debt = 0
  BY DEF Init, Debt
<1>6. LossInv
  <2>1. Cardinality(acked \ Range(log)) = 0 /\ cut = 0
    BY <1>5, FS_EmptySet DEF Init
  <2>. QED BY <1>5, <2>1 DEF LossInv
<1>. QED BY <1>2, <1>3, <1>4, <1>6 DEF Inv

\* What a poll observes is positive, and with a key a ZK difficulty.
LEMMA ObservedIsZk ==
  ASSUME TypeInv, NEW reply \in Replies, Observed(reply)
  PROVE  /\ reply.difficulty \in Nat \ {0}
         /\ rpc => reply.difficulty \in ZkDifficulties
<1>0. rpc \in BOOLEAN /\ ZkDifficulties \subseteq Nat \ {0} /\ AiDifficulties \subseteq Nat \ {0}
  BY DifficultyAssumption DEF TypeInv
<1>1. CASE ~rpc
  <2>1. PICK ds : ds = ZkDifficulties \cup {0} \cup (IF logos THEN AiDifficulties ELSE {})
    OBVIOUS
  <2>2. ds \subseteq Nat
    BY <1>0, <2>1
  <2>3. Replies = [tip : {"none"}, difficulty : ds]
    BY <1>1, <2>1 DEF Replies
  <2>4. reply.difficulty \in Nat
    BY <2>2, <2>3
  <2>. QED BY <1>1, <2>4 DEF Observed
<1>2. CASE rpc /\ ~logos
  <2>1. Replies = [tip : {"none"}, difficulty : ZkDifficulties]
    BY <1>2 DEF Replies
  <2>. QED BY <1>0, <2>1
<1>3. CASE rpc /\ logos
  <2>1. Replies = [tip : {"zk-pow"}, difficulty : ZkDifficulties]
                    \cup [tip : {"ai-pow"}, difficulty : AiDifficulties]
    BY <1>3 DEF Replies
  <2>2. reply.tip # "ai-pow"
    BY <1>3 DEF Observed
  <2>. QED BY <1>0, <2>1, <2>2
<1>. QED BY <1>0, <1>1, <1>2, <1>3

LEMMA TypeKept == TypeInv /\ [Next]_vars => TypeInv'
<1> SUFFICES ASSUME TypeInv, [Next]_vars PROVE TypeInv'
  OBVIOUS
<1>1. CASE Poll
  <2>1. PICK reply \in Replies :
          /\ Observed(reply)
          /\ cache' = Cached(reply.difficulty)
          /\ point' = [n |-> polls, t |-> now, difficulty |-> reply.difficulty, keyed |-> rpc]
    BY <1>1 DEF Poll
  <2>2. PICK d : d = reply.difficulty
    OBVIOUS
  <2>3. d \in Nat \ {0} /\ (rpc => d \in ZkDifficulties)
    BY <2>1, <2>2, ObservedIsZk
  <2>4. cache' \in {d, Nothing} /\ rpc' = rpc
    BY <1>1, <2>1, <2>2 DEF Cached, Poll
  <2>5. point' \in Point /\ point' # Nothing
    <3>1. PICK k \in BOOLEAN : k = rpc
      BY DEF TypeInv
    <3>2. point' = [n |-> polls, t |-> now, difficulty |-> d, keyed |-> k]
      BY <2>1, <2>2, <3>1
    <3>3. [n |-> polls, t |-> now, difficulty |-> d, keyed |-> k] \in Point
      BY <2>3, <3>1 DEF Point, TypeInv
    <3>. QED BY <3>2, <3>3, PointsAreLines
  <2>6. cache' \in (Nat \ {0}) \cup {Nothing} /\ (rpc' => cache' \in ZkDifficulties \cup {Nothing})
    BY <2>3, <2>4
  <2>7. /\ UNCHANGED <<up, rpc, logos, log, tail, now, acked, cut, stepped>>
        /\ writer' = "json" /\ polls' = polls + 1
    BY <1>1 DEF Poll, file
  <2>. QED BY <2>5, <2>6, <2>7 DEF TypeInv
<1>f. CASE Fork
  BY <1>f DEF Fork, TypeInv, file, append, past
<1>2. CASE WriteSome
  BY <1>2 DEF WriteSome, TypeInv, past
<1>3. CASE WriteRest
  BY <1>3 DEF WriteRest, TypeInv, past
<1>4. CASE WriteNewline
  <2>1. tail \in Point \cup {Part} /\ point \in Point
    BY <1>4 DEF WriteNewline, TypeInv
  <2>2. log' \in Seq(Point \cup {Part})
    BY <1>4, <2>1, LogGrows DEF WriteNewline
  <2>3. IsFiniteSet(acked') /\ acked' \subseteq Point
    BY <1>4, <2>1, FS_AddElement DEF WriteNewline, TypeInv
  <2>. QED BY <1>4, <2>2, <2>3 DEF WriteNewline, TypeInv
<1>5. CASE WriteFails
  BY <1>5 DEF WriteFails, TypeInv, file
<1>6. CASE Crash
  <2>1. cut' \in Nat
    BY <1>6 DEF Crash, TypeInv
  <2>2. UNCHANGED <<rpc, logos, cache, log, tail, point, now, acked, polls, stepped>>
        /\ up' = FALSE /\ writer' = "idle"
    BY <1>6 DEF Crash, file
  <2>. QED BY <2>1, <2>2 DEF TypeInv
<1>7. CASE Boot
  <2>1. cache' \in (Nat \ {0}) \cup {Nothing} /\ cache' \in ZkDifficulties \cup {Nothing}
        /\ rpc' \in BOOLEAN
    BY <1>7, DifficultyAssumption DEF Boot, Configured
  <2>2. UNCHANGED <<logos, log, tail, writer, point, now, acked, polls, cut, stepped>> /\ up' = TRUE
    BY <1>7 DEF Boot, file, append, past
  <2>. QED BY <2>1, <2>2 DEF TypeInv
<1>8. CASE ClockMoves
  <2>1. now' \in Nat
    BY <1>8, BoundsAssumption DEF ClockMoves
  <2>. QED BY <1>8, <2>1 DEF ClockMoves, TypeInv, file, append, past
<1>9. CASE UNCHANGED vars
  BY <1>9 DEF vars, TypeInv, file, append, past
<1>. QED
  BY <1>1, <1>2, <1>3, <1>4, <1>5, <1>6, <1>7, <1>8, <1>9, <1>f DEF Next

LEMMA SeenKept == TypeInv /\ SeenInv /\ [Next]_vars => SeenInv'
<1> SUFFICES ASSUME TypeInv, SeenInv, [Next]_vars PROVE SeenInv'
  OBVIOUS
<1>0. Part \notin Point /\ Nothing \notin Point
  BY PointsAreLines
<1>1. CASE Poll
  <2>1. UNCHANGED <<log, tail>> /\ observed' = observed \cup {point'}
    BY <1>1 DEF Poll, file
  <2>. QED BY <2>1 DEF SeenInv
<1>f. CASE Fork
  BY <1>f DEF Fork, SeenInv, file, append, past
<1>2. CASE WriteSome
  BY <1>0, <1>2 DEF WriteSome, SeenInv, past
<1>3. CASE WriteRest
  BY <1>3 DEF WriteRest, SeenInv, past
<1>4. CASE WriteNewline
  <2>1. /\ writer' = "idle" /\ log' = Append(log, tail) /\ tail' = Nothing
        /\ UNCHANGED observed /\ tail \in Point \cup {Part}
    BY <1>4 DEF WriteNewline, TypeInv
  <2>2. PICK m \in Nat : m = Len(log) /\ DOMAIN log = 1..m
    BY LinesType
  <2>3. PICK q : q = log'
    OBVIOUS
  <2>4. DOMAIN q = 1..m + 1 /\ q[m + 1] = tail /\ \A i \in 1..m : q[i] = log[i]
    BY <2>1, <2>2, <2>3, LogGrows
  <2>5. ASSUME NEW i \in 1..m + 1, q[i] # Part PROVE q[i] \in observed
    <3>1. CASE i \in 1..m
      BY <2>2, <2>4, <2>5, <3>1 DEF SeenInv
    <3>2. CASE i = m + 1
      BY <2>1, <2>4, <2>5, <3>2 DEF SeenInv
    <3>. QED BY <3>1, <3>2
  <2>. QED BY <1>0, <2>1, <2>3, <2>4, <2>5 DEF SeenInv
<1>5. CASE WriteFails
  BY <1>5 DEF WriteFails, SeenInv, file
<1>6. CASE Crash
  BY <1>6 DEF Crash, SeenInv, file
<1>7. CASE Boot
  BY <1>7 DEF Boot, SeenInv, file, append, past
<1>8. CASE ClockMoves
  BY <1>8 DEF ClockMoves, SeenInv, file, append, past
<1>9. CASE UNCHANGED vars
  BY <1>9 DEF vars, SeenInv, file, append, past
<1>. QED
  BY <1>1, <1>2, <1>3, <1>4, <1>5, <1>6, <1>7, <1>8, <1>9, <1>f DEF Next

\* A step that leaves the file, or does without the last line.
LEMMA OrderStays ==
  ASSUME TypeInv, OrderInv, UNCHANGED <<log, polls>>,
         tail' = tail \/ tail' \notin Point,
         ~stepped' => ~stepped /\ now' >= now, now' \in Nat,
         writer' # "idle" => writer # "idle" /\ point' = point,
         writer' = "json" => writer = "json"
  PROVE  OrderInv'
<1>1. \A i \in DOMAIN log : log[i] # Part => log[i] \in Point
  BY LinesType, ElementOfSeq DEF TypeInv
<1>2. writer # "idle" => point \in Point
  BY DEF TypeInv
<1>3. \A p \in Point : p.n \in Int /\ p.t \in Int
  BY PointsAreLines
<1>4. now \in Int /\ now' \in Int
  BY DEF TypeInv
<1>. QED
  BY <1>1, <1>2, <1>3, <1>4 DEF OrderInv, Before

LEMMA OrderKept == TypeInv /\ OrderInv /\ [Next]_vars => OrderInv'
<1> SUFFICES ASSUME TypeInv, OrderInv, [Next]_vars PROVE OrderInv'
  OBVIOUS
<1>0. Part \notin Point /\ Nothing \notin Point /\ now \in Nat
  BY PointsAreLines DEF TypeInv
<1>1. CASE Poll
  <2>1. PICK reply \in Replies :
          point' = [n |-> polls, t |-> now, difficulty |-> reply.difficulty, keyed |-> rpc]
    BY <1>1 DEF Poll
  <2>2. point'.n = polls /\ point'.t = now
    BY <2>1
  <2>3. UNCHANGED <<log, tail, now, stepped>> /\ polls' = polls + 1 /\ polls \in Nat
        /\ writer = "idle" /\ writer' = "json"
    BY <1>1 DEF Poll, file, TypeInv
  <2>4. \A i \in DOMAIN log : log[i] # Part => log[i].n \in Int
    BY LinesType, ElementOfSeq, PointsAreLines DEF TypeInv
  <2>5. tail \in Point => tail.n \in Int
    BY PointsAreLines
  <2>6. \A i \in DOMAIN log : log[i] # Part => log[i].n < polls' /\ log[i].n < point'.n
    BY <2>2, <2>3, <2>4 DEF OrderInv
  <2>7. tail \in Point => tail.n < polls' /\ tail.n < point'.n
    BY <2>2, <2>3, <2>5 DEF OrderInv
  <2>. QED BY <1>0, <2>2, <2>3, <2>6, <2>7 DEF OrderInv, Before
<1>f. CASE Fork
  BY <1>0, <1>f, OrderStays DEF Fork, file, append, past
<1>2. CASE WriteSome
  BY <1>0, <1>2, OrderStays DEF WriteSome, past
<1>3. CASE WriteRest
  <2>1. /\ writer = "rest" /\ writer' = "newline" /\ tail' = point
        /\ UNCHANGED <<log, point, now, polls, stepped>>
    BY <1>3 DEF WriteRest, past
  <2>. QED BY <2>1 DEF OrderInv, Before
<1>4. CASE WriteNewline
  <2>1. /\ writer = "newline" /\ writer' = "idle" /\ log' = Append(log, tail) /\ tail' = Nothing
        /\ UNCHANGED <<point, now, polls, stepped>> /\ tail \in Point \cup {Part}
    BY <1>4 DEF WriteNewline, TypeInv
  <2>2. PICK m \in Nat : m = Len(log) /\ DOMAIN log = 1..m
    BY LinesType
  <2>3. PICK q : q = log'
    OBVIOUS
  <2>4. DOMAIN q = 1..m + 1 /\ q[m + 1] = tail /\ \A i \in 1..m : q[i] = log[i]
    BY <2>1, <2>2, <2>3, LogGrows
  <2>5. ASSUME NEW i \in 1..m + 1, NEW j \in 1..m + 1, i < j, q[i] # Part, q[j] # Part
        PROVE  Before(q[i], q[j])
    <3>1. i \in 1..m
      BY <2>5
    <3>2. CASE j \in 1..m
      BY <2>2, <2>4, <2>5, <3>1, <3>2 DEF OrderInv
    <3>3. CASE j = m + 1
      <4>1. tail \in Point
        BY <2>1, <2>4, <2>5, <3>3
      <4>. QED BY <2>2, <2>4, <2>5, <3>1, <3>3, <4>1 DEF OrderInv
    <3>. QED BY <3>2, <3>3
  <2>6. ASSUME NEW i \in 1..m + 1, q[i] # Part
        PROVE  q[i].n < polls /\ (~stepped => q[i].t <= now)
    <3>1. CASE i \in 1..m
      BY <2>2, <2>4, <2>6, <3>1 DEF OrderInv
    <3>2. CASE i = m + 1
      BY <2>1, <2>4, <2>6, <3>2 DEF OrderInv
    <3>. QED BY <3>1, <3>2
  <2>. QED BY <1>0, <2>1, <2>3, <2>4, <2>5, <2>6 DEF OrderInv, Before
<1>5. CASE WriteFails
  BY <1>0, <1>5, OrderStays DEF WriteFails, file
<1>6. CASE Crash
  BY <1>0, <1>6, OrderStays DEF Crash, file
<1>7. CASE Boot
  BY <1>0, <1>7, OrderStays DEF Boot, file, append, past
<1>8. CASE ClockMoves
  <2>1. now' \in Nat
    BY <1>8, BoundsAssumption DEF ClockMoves
  <2>2. ~stepped' => ~stepped /\ ~(now' < now)
    <3>1. stepped' = (stepped \/ now' < now)
      BY <1>8 DEF ClockMoves
    <3>. QED BY ONLY <3>1, Zenon
  <2>3. ~stepped' => now' >= now
    <3>1. now \in Nat
      BY <1>0 DEF TypeInv
    <3>2. ~(now' < now) => now' >= now
      BY <2>1, <3>1
    <3>. QED BY ONLY <2>2, <3>2, Zenon
  <2>. QED BY <1>0, <1>8, <2>1, <2>2, <2>3, OrderStays DEF ClockMoves, file, append, past
<1>9. CASE UNCHANGED vars
  BY <1>0, <1>9, OrderStays DEF vars, file, append, past
<1>. QED
  BY <1>1, <1>2, <1>3, <1>4, <1>5, <1>6, <1>7, <1>8, <1>9, <1>f DEF Next

\* A cut append pays for whatever debt it leaves.
LEMMA CutPays ==
  ASSUME TypeInv, cut' = cut + 1
  PROVE  cut' \in Nat /\ Debt' + cut <= Debt + cut'
<1>1. PICK d \in 0..1 : d = Debt
  BY DEF Debt
<1>2. PICK d2 \in 0..1 : d2 = Debt'
  BY DEF Debt
<1>3. PICK c \in Nat : c = cut
  BY DEF TypeInv
<1>4. PICK c2 : c2 = cut'
  OBVIOUS
<1>5. c2 = c + 1
  BY <1>3, <1>4
<1>6. c2 \in Nat /\ d2 + c <= d + c2
  BY <1>5
<1>. QED
  BY <1>1, <1>2, <1>3, <1>4, <1>6

\* A step that leaves the losses as they are.
LEMMA LossStays ==
  ASSUME TypeInv, LossInv, UNCHANGED <<log, acked>>, cut' \in Nat,
         Debt' + cut <= Debt + cut'
  PROVE  LossInv'
<1>1. PICK lost \in Nat : lost = Cardinality(acked \ Range(log))
  BY FS_CardinalityType, FS_Subset DEF TypeInv
<1>2. Cardinality(acked \ Range(log))' = lost
  BY <1>1 DEF Range
<1>3. PICK d \in 0..1 : d = Debt
  BY DEF Debt
<1>4. PICK d2 \in 0..1 : d2 = Debt'
  BY DEF Debt
<1>5. PICK c \in Nat : c = cut
  BY DEF TypeInv
<1>6. PICK c2 \in Nat : c2 = cut'
  OBVIOUS
<1>7. lost + d <= c
  BY <1>1, <1>3, <1>5 DEF LossInv
<1>8. d2 + c <= d + c2
  BY <1>3, <1>4, <1>5, <1>6
<1>9. lost + d2 <= c2
  BY <1>7, <1>8
<1>. QED
  BY <1>2, <1>4, <1>6, <1>9 DEF LossInv

LEMMA LossKept == TypeInv /\ LossInv /\ [Next]_vars => LossInv'
<1> SUFFICES ASSUME TypeInv, LossInv, [Next]_vars PROVE LossInv'
  OBVIOUS
<1>0. Debt \in 0..1 /\ Debt' \in 0..1 /\ cut \in Nat /\ Part # Nothing
  BY PointsAreLines DEF Debt, TypeInv
<1>1. CASE Poll
  <2>1. Debt' = Debt /\ cut' = cut
    BY <1>1 DEF Poll, file, Debt
  <2>. QED BY <1>0, <1>1, <2>1, LossStays DEF Poll, file
<1>f. CASE Fork
  <2>1. Debt' = Debt /\ cut' = cut
    BY <1>f DEF Fork, file, append, past, Debt
  <2>. QED BY <1>0, <1>f, <2>1, LossStays DEF Fork, file, append, past
<1>2. CASE WriteSome
  <2>1. Debt' = Debt /\ cut' = cut
    BY <1>0, <1>2 DEF WriteSome, past, Debt
  <2>. QED BY <1>0, <1>2, <2>1, LossStays DEF WriteSome, past
<1>3. CASE WriteRest
  <2>1. point # Part /\ tail' = point /\ writer' = "newline" /\ cut' = cut
    BY <1>3, PointsAreLines DEF WriteRest, past, TypeInv
  <2>2. Debt' = 0
    BY <2>1 DEF Debt
  <2>. QED BY <1>0, <1>3, <2>1, <2>2, LossStays DEF WriteRest, past
<1>4. CASE WriteNewline
  <2>1. /\ writer = "newline" /\ writer' = "idle" /\ log' = Append(log, tail) /\ tail' = Nothing
        /\ acked' = acked \cup {point} /\ cut' = cut /\ tail \in {Part, point}
        /\ tail \in Point \cup {Part} /\ point \in Point
    BY <1>4 DEF WriteNewline, TypeInv
  <2>2. PICK R : R = Range(log)
    OBVIOUS
  <2>3. PICK R2 : R2 = Range(log)'
    OBVIOUS
  <2>4. R2 = R \cup {tail}
    <3>1. PICK q : q = log'
      OBVIOUS
    <3>2. Range(q) = Range(log) \cup {tail}
      BY <2>1, <3>1, LogGrows
    <3>3. R2 = Range(q)
      BY <2>3, <3>1 DEF Range
    <3>. QED BY <2>2, <3>2, <3>3
  <2>5. PICK A : A = acked \ R
    OBVIOUS
  <2>6. IsFiniteSet(A)
    BY <2>5, FS_Subset DEF TypeInv
  <2>7. PICK B : B = acked' \ R2
    OBVIOUS
  <2>8. Debt' = 0
    BY <2>1 DEF Debt
  <2>9. Cardinality(A) \in Nat
    BY <2>6, FS_CardinalityType
  <2>10. Cardinality(A) + Debt <= cut
    BY <2>2, <2>5 DEF LossInv
  <2>11. CASE tail = point
    <3>1. B \subseteq A
      BY <2>1, <2>4, <2>5, <2>7, <2>11
    <3>2. Cardinality(B) <= Cardinality(A) /\ Cardinality(B) \in Nat
      BY <2>6, <3>1, FS_Subset, FS_CardinalityType
    <3>. QED BY <1>0, <2>1, <2>3, <2>7, <2>8, <2>9, <2>10, <3>2 DEF LossInv
  <2>12. CASE tail = Part
    <3>1. B \subseteq A \cup {point}
      BY <2>1, <2>4, <2>5, <2>7
    <3>2. IsFiniteSet(A \cup {point}) /\ Cardinality(A \cup {point}) <= Cardinality(A) + 1
          /\ Cardinality(A \cup {point}) \in Nat
      BY <2>6, <2>9, FS_AddElement, FS_CardinalityType
    <3>3. Cardinality(B) <= Cardinality(A \cup {point}) /\ Cardinality(B) \in Nat
      BY <3>1, <3>2, FS_Subset, FS_CardinalityType
    <3>4. Debt = 1
      BY <1>0, <2>1, <2>12 DEF Debt
    <3>. QED BY <1>0, <2>1, <2>3, <2>7, <2>8, <2>9, <2>10, <3>2, <3>3, <3>4 DEF LossInv
  <2>. QED BY <2>1, <2>11, <2>12
<1>5. CASE WriteFails
  <2>1. UNCHANGED <<log, acked>> /\ cut' = cut + 1
    BY <1>5 DEF WriteFails, file
  <2>. QED BY <2>1, CutPays, LossStays
<1>6. CASE Crash
  <2>1. CASE writer = "idle"
    <3>1. Debt' = Debt /\ cut' = cut
      BY <1>6, <2>1 DEF Crash, file, Debt
    <3>. QED BY <1>0, <1>6, <3>1, LossStays DEF Crash, file
  <2>2. CASE writer # "idle"
    <3>1. UNCHANGED <<log, acked>> /\ cut' = cut + 1
      BY <1>6, <2>2 DEF Crash, file
    <3>. QED BY <3>1, CutPays, LossStays
  <2>. QED BY <2>1, <2>2
<1>7. CASE Boot
  <2>1. Debt' = Debt /\ cut' = cut
    BY <1>7 DEF Boot, file, append, past, Debt
  <2>. QED BY <1>0, <1>7, <2>1, LossStays DEF Boot, file, append, past
<1>8. CASE ClockMoves
  <2>1. Debt' = Debt /\ cut' = cut
    BY <1>8 DEF ClockMoves, file, append, past, Debt
  <2>. QED BY <1>0, <1>8, <2>1, LossStays DEF ClockMoves, file, append, past
<1>9. CASE UNCHANGED vars
  <2>1. Debt' = Debt /\ cut' = cut
    BY <1>9 DEF vars, file, append, past, Debt
  <2>. QED BY <1>0, <1>9, <2>1, LossStays DEF vars, file, append, past
<1>. QED
  BY <1>1, <1>2, <1>3, <1>4, <1>5, <1>6, <1>7, <1>8, <1>9, <1>f DEF Next

LEMMA Stays == Inv /\ [Next]_vars => Inv'
  BY TypeKept, SeenKept, OrderKept, LossKept DEF Inv

-----------------------------------------------------------------------------
(* What the reader relies on.                                              *)

\* ThinnedEvenly: read_history keeps the oldest and the newest point and spaces the
\* others evenly, whichever way floating point rounds a whole product, for any
\* history and any cap.
THEOREM EvenlyThinned == Spec => []ThinnedEvenly
<1>1. Inv => ThinnedEvenly
  <2> SUFFICES ASSUME TypeInv, NEW since \in 0..MaxClock, NEW cap \in Caps \ {0}
               PROVE  LET n == Len(Points(since)) IN
                      \A kept \in Positions(n, cap) :
                        /\ Len(kept) = Min({n, cap})
                        /\ n > 0 => kept[Len(kept)] = n
                        /\ n > 0 /\ cap > 1 => kept[1] = 1
                        /\ \A i \in 1..Len(kept) - 1 :
                             kept[i] < kept[i + 1] /\ (kept[i + 1] - kept[i] - 1) * (cap - 1) <= n
    BY DEF Inv, ThinnedEvenly
  <2>1. PICK n \in Nat : n = Len(Points(since))
    BY PointsType, LenProperties
  <2>2. cap \in Nat \ {0}
    BY BoundsAssumption
  <2>. QED BY <2>1, <2>2, KeptSpaced
<1>. QED
  BY <1>1, Initially, Stays, PTL DEF Spec

\* What is read is among the lines, and all the observations in them are read.
LEMMA SeenIs ==
  ASSUME TypeInv
  PROVE  /\ \A p \in Range(Points(0)) :
              p \in Point /\ \E i \in 1..Len(Lines) : Lines[i] = p
         /\ \A i \in 1..Len(Lines) : Lines[i] # Part => Lines[i] \in Range(Points(0))
<1>1. PICK pts \in Seq(Point) : pts = Points(0)
  BY PointsType
<1>2. DOMAIN pts = 1..Len(pts) /\ \A i \in 1..Len(pts) : pts[i] \in Point
  BY LenProperties, ElementOfSeq
<1>3. PICK g \in [1..Len(pts) -> 1..Len(Lines)] :
        /\ \A i \in 1..Len(pts) : pts[i] = Lines[g[i]]
        /\ \A l \in 1..Len(Lines) : Kept(Lines[l], 0) => \E i \in 1..Len(pts) : g[i] = l
  BY <1>1, PointsType DEF Selects
<1>4. \A l \in 1..Len(Lines) : Lines[l] # Part => Kept(Lines[l], 0)
  <2> SUFFICES ASSUME NEW l \in 1..Len(Lines), Lines[l] # Part PROVE Kept(Lines[l], 0)
    OBVIOUS
  <2>1. Lines[l] \in Point
    BY LinesType, ElementOfSeq
  <2>. QED BY <2>1, PointsAreLines DEF Kept
<1>5. \A p \in Range(pts) : p \in Point /\ \E i \in 1..Len(Lines) : Lines[i] = p
  BY <1>2, <1>3 DEF Range
<1>6. \A l \in 1..Len(Lines) : Lines[l] # Part => Lines[l] \in Range(pts)
  <2> SUFFICES ASSUME NEW l \in 1..Len(Lines), Lines[l] # Part PROVE Lines[l] \in Range(pts)
    OBVIOUS
  <2>1. PICK i \in 1..Len(pts) : g[i] = l
    BY <1>3, <1>4
  <2>. QED BY <1>2, <1>3, <2>1 DEF Range
<1>. QED BY <1>1, <1>5, <1>6

\* DifficultyIsZk: with a key no AI tip reaches the estimates or the history
\* (fetch_difficulty_rpc), whichever sources earlier processes polled and whenever the
\* chain forked, and without one no number that is not positive does (refresh_loop).
THEOREM ZkOnly == Spec => []DifficultyIsZk
<1>1. Inv => DifficultyIsZk
  <2> SUFFICES ASSUME TypeInv PROVE DifficultyIsZk
    BY DEF Inv
  <2>1. ASSUME NEW p \in Range(Points(0))
        PROVE  p.difficulty > 0 /\ (p.keyed => p.difficulty \in ZkDifficulties)
    <3>1. p \in Point
      BY SeenIs
    <3>2. p.keyed => p.difficulty \in ZkDifficulties
      BY <3>1 DEF Point
    <3>3. p.difficulty > 0
      BY <3>1, PointsAreLines
    <3>. QED BY <3>2, <3>3
  <2>2. cache # 0
    BY DifficultyAssumption DEF TypeInv
  <2>. QED BY <2>1, <2>2 DEF TypeInv, DifficultyIsZk
<1>. QED
  BY <1>1, Initially, Stays, PTL DEF Spec

\* The lines are in order, the last one included.
LEMMA LinesInOrder ==
  ASSUME Inv, NEW i \in 1..Len(Lines), NEW j \in 1..Len(Lines), i < j,
         Lines[i] # Part, Lines[j] # Part
  PROVE  Before(Lines[i], Lines[j])
<1>0. TypeInv /\ OrderInv
  BY DEF Inv
<1>1. PICK m \in Nat : m = Len(log) /\ DOMAIN log = 1..m
  BY <1>0, LinesType
<1>2. CASE tail = Nothing
  <2>1. Lines = log
    BY <1>0, <1>2, LinesType
  <2>. QED BY <1>0, <1>1, <2>1 DEF OrderInv
<1>3. CASE tail # Nothing
  <2>1. /\ Len(Lines) = m + 1 /\ Lines[m + 1] = tail
        /\ \A l \in 1..m : Lines[l] = log[l]
    BY <1>0, <1>1, <1>3, LinesType
  <2>2. i \in 1..m
    BY <2>1
  <2>3. CASE j \in 1..m
    BY <1>0, <1>1, <2>1, <2>2, <2>3 DEF OrderInv
  <2>4. CASE j = m + 1
    <3>1. tail \in Point
      BY <1>0, <1>3, <2>1, <2>4 DEF TypeInv
    <3>. QED BY <1>0, <1>1, <2>1, <2>2, <2>4, <3>1 DEF OrderInv
  <2>. QED BY <2>1, <2>3, <2>4
<1>. QED BY <1>2, <1>3

\* HistoryLossBounded: append_history may be cut at any write call and the next line
\* glued to what it left; each cut costs one acknowledged observation at most, and
\* nothing is read that was not observed.
THEOREM LossIsBounded == Spec => []HistoryLossBounded
<1>1. Inv => HistoryLossBounded
  <2> SUFFICES ASSUME Inv PROVE HistoryLossBounded
    OBVIOUS
  <2>0. TypeInv /\ SeenInv /\ LossInv
    BY DEF Inv
  <2>1. PICK seen : seen = Range(Points(0))
    OBVIOUS
  <2>2. PICK A : A = acked \ Range(log)
    OBVIOUS
  <2>3. PICK B : B = acked \ seen
    OBVIOUS
  <2>4. B \subseteq A
    <3>1. \A p \in acked : p \in Range(log) => p \in seen
      <4> SUFFICES ASSUME NEW p \in acked, p \in Range(log) PROVE p \in seen
        OBVIOUS
      <4>1. PICK i \in 1..Len(log) : log[i] = p
        BY <2>0, LinesType DEF Range
      <4>2. p # Part
        BY <2>0, PointsAreLines DEF TypeInv
      <4>3. i \in 1..Len(Lines) /\ Lines[i] = p
        <5>1. CASE tail = Nothing
          BY <2>0, <4>1, <5>1, LinesType
        <5>2. CASE tail # Nothing
          BY <2>0, <4>1, <5>2, LinesType
        <5>. QED BY <5>1, <5>2
      <4>. QED BY <2>0, <2>1, <4>2, <4>3, SeenIs
    <3>. QED BY <2>2, <2>3, <3>1
  <2>5. IsFiniteSet(A)
    BY <2>0, <2>2, FS_Subset DEF TypeInv
  <2>6. Cardinality(B) <= Cardinality(A) /\ Cardinality(A) \in Nat /\ Cardinality(B) \in Nat
    BY <2>4, <2>5, FS_Subset, FS_CardinalityType
  <2>7. Cardinality(A) + Debt <= cut /\ Debt \in 0..1 /\ cut \in Nat
    BY <2>0, <2>2 DEF LossInv, Debt, TypeInv
  <2>8. Cardinality(acked \ seen) <= cut
    BY <2>3, <2>6, <2>7
  <2>9. ASSUME NEW p \in seen PROVE p \in observed
    <3>1. p \in Point /\ p # Part
      BY <2>0, <2>1, SeenIs, PointsAreLines
    <3>2. PICK i \in 1..Len(Lines) : Lines[i] = p
      BY <2>0, <2>1, SeenIs
    <3>3. CASE tail = Nothing
      BY <2>0, <3>1, <3>2, <3>3, LinesType DEF SeenInv
    <3>4. CASE tail # Nothing
      <4>1. Len(Lines) = Len(log) + 1 /\ Lines[Len(log) + 1] = tail
            /\ \A l \in 1..Len(log) : Lines[l] = log[l]
        BY <2>0, <3>4, LinesType
      <4>2. DOMAIN log = 1..Len(log) /\ Len(log) \in Nat
        BY <2>0, LinesType
      <4>3. CASE i \in 1..Len(log)
        BY <2>0, <3>1, <3>2, <4>1, <4>2, <4>3 DEF SeenInv
      <4>4. CASE i = Len(log) + 1
        BY <2>0, <3>1, <3>2, <4>1, <4>4 DEF SeenInv
      <4>. QED BY <3>2, <4>1, <4>2, <4>3, <4>4
    <3>. QED BY <3>3, <3>4
  <2>. QED BY <2>1, <2>8, <2>9 DEF HistoryLossBounded
<1>. QED
  BY <1>1, Initially, Stays, PTL DEF Spec

\* OldestFirst: what read_history answers, thinned or not, is in the order in which
\* it was observed, and of its timestamps too unless the clock stepped back.
THEOREM AnsweredInOrder == Spec => []OldestFirst
<1>1. Inv => OldestFirst
  <2> SUFFICES ASSUME Inv, NEW since \in 0..MaxClock, NEW cap \in Caps,
                      NEW out \in Read(since, cap), NEW i \in DOMAIN out, NEW j \in DOMAIN out, i < j
               PROVE  out[i].n < out[j].n /\ (~stepped => out[i].t <= out[j].t)
    BY DEF OldestFirst
  <2>0. TypeInv
    BY DEF Inv
  <2>1. PICK pts \in Seq(Point) : pts = Points(since)
    BY <2>0, PointsType
  <2>2. PICK n \in Nat : n = Len(pts)
    BY LenProperties
  <2>3. PICK kept \in Positions(n, cap) : out = [l \in DOMAIN kept |-> pts[kept[l]]]
    BY <2>1, <2>2 DEF Read
  <2>4. cap \in Nat
    BY BoundsAssumption
  <2>5. kept \in Seq(1..n) /\ \A k, l \in 1..Len(kept) : k < l => kept[k] < kept[l]
    BY <2>4, KeptAscend
  <2>6. DOMAIN kept = 1..Len(kept) /\ \A l \in 1..Len(kept) : kept[l] \in 1..n
    BY <2>5, LenProperties, ElementOfSeq
  <2>7. PICK a \in 1..n : a = kept[i] /\ out[i] = pts[a]
    BY <2>3, <2>6
  <2>8. PICK b \in 1..n : b = kept[j] /\ out[j] = pts[b]
    BY <2>3, <2>6
  <2>9. a < b
    BY <2>3, <2>5, <2>6, <2>7, <2>8
  <2>10. PICK g \in [1..Len(pts) -> 1..Len(Lines)] :
           /\ \A k, l \in 1..Len(pts) : k < l => g[k] < g[l]
           /\ \A l \in 1..Len(pts) : pts[l] = Lines[g[l]]
    BY <2>0, <2>1, PointsType DEF Selects
  <2>11. pts[a] \in Point /\ pts[b] \in Point
    BY <2>2, ElementOfSeq
  <2>12. g[a] \in 1..Len(Lines) /\ g[b] \in 1..Len(Lines) /\ g[a] < g[b]
         /\ Lines[g[a]] = pts[a] /\ Lines[g[b]] = pts[b]
    BY <2>2, <2>9, <2>10
  <2>13. Before(pts[a], pts[b])
    BY <2>11, <2>12, PointsAreLines, LinesInOrder
  <2>. QED BY <2>7, <2>8, <2>13 DEF Before
<1>. QED
  BY <1>1, Initially, Stays, PTL DEF Spec
=============================================================================
