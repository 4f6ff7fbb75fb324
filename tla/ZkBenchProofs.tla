--------------------------- MODULE ZkBenchProofs ---------------------------
(***************************************************************************)
(* What holds of a client of the ZK track and the registry it benchmarks   *)
(* for, for any number of threads, proofs and other clients: the proofs of *)
(* a bundle are in place however the threads were joined (BundleInPlace),  *)
(* an honest run is refused for a reason it can be told (HonestRunIsKept), *)
(* and Registry's own promises hold with such a client (BenchKeepsBoard).  *)
(*                                                                         *)
(* The invariant adds to Registry's: which indices the joined threads      *)
(* cover (StrideInv), that a used challenge has earned a run (UsedInv),    *)
(* and what the client and its handler know of one another (OwnsInv,       *)
(* WaitsInv).                                                              *)
(***************************************************************************)
EXTENDS ZkBench, RegistryProofs

-----------------------------------------------------------------------------
(* Strides.                                                                *)

\* The q-th index of a thread's stride.
Index(t, tid, q) == tid + q * t

LEMMA IndexIsNat ==
  ASSUME NEW t \in Nat \ {0}, NEW tid \in Nat, NEW q \in Nat
  PROVE  Index(t, tid, q) \in Nat
<1>1. PICK x \in Nat : x = q * t
  OBVIOUS
<1>. QED
  BY <1>1 DEF Index

\* Further along a stride is at least a stride further.
LEMMA IndexAscends ==
  ASSUME NEW t \in Nat \ {0}, NEW tid \in Nat, NEW q \in Nat, NEW r \in Nat, q < r
  PROVE  Index(t, tid, q) + t <= Index(t, tid, r)
<1>1. PICK d \in Nat : r = q + 1 + d
  <2>1. r - q - 1 \in Nat /\ r = q + 1 + (r - q - 1)
    OBVIOUS
  <2>. QED BY <2>1
<1>2. r * t = q * t + t + d * t /\ d * t \in Nat /\ q * t \in Nat
  BY <1>1
<1>3. PICK x \in Nat, y \in Nat, z \in Nat : x = q * t /\ y = d * t /\ z = r * t
  OBVIOUS
<1>4. z = x + t + y
  BY <1>2, <1>3
<1>. QED
  BY <1>3, <1>4 DEF Index

\* An index is of one thread's stride, and there once.
LEMMA IndexIsOne ==
  ASSUME NEW t \in Nat \ {0}, NEW a \in 0..t - 1, NEW b \in 0..t - 1,
         NEW q \in Nat, NEW r \in Nat, Index(t, a, q) = Index(t, b, r)
  PROVE  a = b /\ q = r
<1>1. PICK x \in Nat : x = q * t
  OBVIOUS
<1>2. PICK y \in Nat : y = r * t
  OBVIOUS
<1>3. a + x = b + y
  BY <1>1, <1>2 DEF Index
<1>4. ~(q < r)
  <2>1. q < r => Index(t, 0, q) + t <= Index(t, 0, r)
    BY IndexAscends
  <2>2. q < r => x + t <= y
    BY <1>1, <1>2, <2>1 DEF Index
  <2>. QED BY <1>3, <2>2
<1>5. ~(r < q)
  <2>1. r < q => Index(t, 0, r) + t <= Index(t, 0, q)
    BY IndexAscends
  <2>2. r < q => y + t <= x
    BY <1>1, <1>2, <2>1 DEF Index
  <2>. QED BY <1>3, <2>2
<1>6. q = r
  BY <1>4, <1>5
<1>. QED
  BY <1>1, <1>2, <1>3, <1>6

\* Every index is of some thread's stride.
LEMMA IndexCovers ==
  ASSUME NEW t \in Nat \ {0}, NEW x \in Nat
  PROVE  \E tid \in 0..t - 1, q \in Nat : x = Index(t, tid, q)
<1>1. x \div t \in Nat /\ x % t \in Nat /\ x = t * (x \div t) + (x % t) /\ x % t < t
  OBVIOUS
<1>2. PICK q \in Nat, a \in Nat : q = x \div t /\ a = x % t
  BY <1>1
<1>3. x = t * q + a /\ a \in 0..t - 1
  BY <1>1, <1>2
<1>4. x = Index(t, a, q)
  BY <1>3 DEF Index
<1>. QED
  BY <1>3, <1>4

-----------------------------------------------------------------------------
(* Sorting.                                                                *)

\* The numbers up to n, each once, in whatever order.
Shuffled(s, n) ==
  /\ s \in Seq(Nat)
  /\ \A i \in 1..Len(s) : s[i] < n
  /\ \A i, j \in 1..Len(s) : s[i] = s[j] => i = j
  /\ \A x \in Nat : x < n => \E i \in 1..Len(s) : s[i] = x

\* A part of it that holds the numbers below m has m entries.
LEMMA Below ==
  ASSUME NEW s, NEW n \in Nat, Shuffled(s, n), NEW m \in Nat, m <= n
  PROVE  /\ IsFiniteSet({j \in 1..Len(s) : s[j] < m})
         /\ Cardinality({j \in 1..Len(s) : s[j] < m}) = m
<1>1. s \in Seq(Nat) /\ Len(s) \in Nat /\ \A i \in 1..Len(s) : s[i] \in Nat
  BY ElementOfSeq, LenProperties DEF Shuffled
<1> DEFINE B == {j \in 1..Len(s) : s[j] < m}
           f == [j \in B |-> s[j]]
<1>2. IsFiniteSet(B)
  <2>1. B \subseteq 1..Len(s) /\ IsFiniteSet(1..Len(s))
    BY <1>1, FS_Interval
  <2> HIDE DEF B
  <2>. QED BY <2>1, FS_Subset
<1>3. f \in [B -> 0..m - 1]
  BY <1>1
<1>4. \A i, j \in B : f[i] = f[j] => i = j
  BY DEF Shuffled
<1>5. \A x \in 0..m - 1 : \E j \in B : f[j] = x
  <2> SUFFICES ASSUME NEW x \in 0..m - 1 PROVE \E j \in B : f[j] = x
    OBVIOUS
  <2>1. x \in Nat /\ x < n /\ x < m
    OBVIOUS
  <2>2. PICK j \in 1..Len(s) : s[j] = x
    BY <2>1 DEF Shuffled
  <2>3. j \in B /\ f[j] = x
    BY <2>1, <2>2
  <2>. QED BY <2>3
<1> HIDE DEF f
<1>6. f \in Bijection(B, 0..m - 1)
  BY <1>3, <1>4, <1>5 DEF Bijection, Injection, Surjection, IsInjective
<1>7. ExistsBijection(B, 0..m - 1)
  BY <1>6 DEF ExistsBijection
<1> HIDE DEF B
<1>8. Cardinality(0..m - 1) = m
  BY FS_Interval
<1>9. Cardinality(B) = m
  BY <1>2, <1>7, <1>8, FS_Bijection
<1>. QED
  BY <1>2, <1>9 DEF B

\* Sorted, every number is at its own place.
LEMMA ShuffledSorts ==
  ASSUME NEW s, NEW n \in Nat, Shuffled(s, n)
  PROVE  InOrder(s) = [p \in 1..n |-> p - 1]
<1>1. s \in Seq(Nat) /\ Len(s) \in Nat /\ DOMAIN s = 1..Len(s) /\ \A i \in 1..Len(s) : s[i] \in Nat
  BY ElementOfSeq, LenProperties DEF Shuffled
<1>2. Len(s) = n
  <2>1. {j \in 1..Len(s) : s[j] < n} = 1..Len(s)
    BY DEF Shuffled
  <2>2. Cardinality(1..Len(s)) = n
    BY <2>1, Below
  <2>3. PICK l \in Nat : l = Len(s)
    BY <1>1
  <2>4. Cardinality(1..l) = l
    BY FS_Interval
  <2>. QED BY <2>2, <2>3, <2>4
<1>3. \A i \in 1..n : Place(s, i) = s[i] + 1
  <2> SUFFICES ASSUME NEW i \in 1..n PROVE Place(s, i) = s[i] + 1
    OBVIOUS
  <2>1. PICK m : m = s[i] + 1
    OBVIOUS
  <2>2. m \in Nat /\ m <= n
    BY <1>1, <1>2, <2>1 DEF Shuffled
  <2>3. {j \in DOMAIN s : s[j] < s[i] \/ (s[j] = s[i] /\ j <= i)} = {j \in 1..Len(s) : s[j] < m}
    <3>1. ASSUME NEW j \in 1..Len(s)
          PROVE  (s[j] < s[i] \/ (s[j] = s[i] /\ j <= i)) <=> s[j] < m
      BY <1>1, <1>2, <2>1 DEF Shuffled
    <3>. QED BY <1>1, <3>1
  <2>4. Cardinality({j \in 1..Len(s) : s[j] < m}) = m
    BY <2>2, Below
  <2>. QED BY <2>1, <2>3, <2>4 DEF Place
<1>4. ASSUME NEW p \in 1..n
      PROVE  s[CHOOSE i \in DOMAIN s : Place(s, i) = p] = p - 1
  <2>1. PICK i \in 1..n : s[i] = p - 1
    BY <1>2 DEF Shuffled
  <2>2. \E j \in DOMAIN s : Place(s, j) = p
    <3>1. Place(s, i) = p
      BY <1>3, <2>1
    <3>. QED BY <1>1, <1>2, <3>1
  <2>3. PICK c : c = CHOOSE j \in DOMAIN s : Place(s, j) = p
    OBVIOUS
  <2>4. c \in 1..n /\ Place(s, c) = p
    BY <1>1, <1>2, <2>2, <2>3
  <2>5. s[c] + 1 = p /\ s[c] \in Nat
    BY <1>1, <1>2, <1>3, <2>4
  <2>6. s[c] = p - 1
    BY <2>5
  <2>. QED BY <2>3, <2>6
<1>. QED
  BY <1>1, <1>2, <1>4 DEF InOrder

-----------------------------------------------------------------------------
(* The threads.                                                            *)

\* Each of t threads has made the first indices of its stride, and what is joined
\* are, once each, the indices below n of the strides that no longer run.
Strides(t, n, made, joined, running) ==
  /\ made \in [0..t - 1 -> Nat] /\ running \subseteq 0..t - 1 /\ joined \in Seq(Nat)
  /\ \A tid \in 0..t - 1, q \in Nat : q < made[tid] => Index(t, tid, q) < n
  /\ \A i \in 1..Len(joined) :
       /\ joined[i] < n
       /\ \E tid \in (0..t - 1) \ running, q \in Nat : joined[i] = Index(t, tid, q)
  /\ \A i, j \in 1..Len(joined) : joined[i] = joined[j] => i = j
  /\ \A tid \in (0..t - 1) \ running, q \in Nat :
       Index(t, tid, q) < n => \E i \in 1..Len(joined) : joined[i] = Index(t, tid, q)

LEMMA StridesBegin ==
  ASSUME NEW t \in Nat \ {0}, NEW n \in Nat
  PROVE  Strides(t, n, [tid \in 0..t - 1 |-> 0], <<>>, 0..t - 1)
<1>1. <<>> \in Seq(Nat) /\ Len(<<>>) = 0
  OBVIOUS
<1>2. [tid \in 0..t - 1 |-> 0] \in [0..t - 1 -> Nat]
  OBVIOUS
<1>. QED
  BY <1>1, <1>2 DEF Strides

\* A thread that has proved an index goes on to the next of its stride.
LEMMA StridesMade ==
  ASSUME NEW t \in Nat \ {0}, NEW n \in Nat, NEW made, NEW joined, NEW running,
         Strides(t, n, made, joined, running),
         NEW tid \in running, Index(t, tid, made[tid]) < n
  PROVE  Strides(t, n, [made EXCEPT ![tid] = @ + 1], joined, running)
<1>1. made \in [0..t - 1 -> Nat] /\ tid \in 0..t - 1
  BY DEF Strides
<1>2. PICK m2 : m2 = [made EXCEPT ![tid] = @ + 1]
  OBVIOUS
<1>3. m2 \in [0..t - 1 -> Nat] /\ \A u \in 0..t - 1 : m2[u] = IF u = tid THEN made[tid] + 1 ELSE made[u]
  BY <1>1, <1>2
<1>4. ASSUME NEW u \in 0..t - 1, NEW q \in Nat, q < m2[u]
      PROVE  Index(t, u, q) < n
  <2>1. made[tid] \in Nat /\ made[u] \in Nat
    BY <1>1
  <2>2. q < made[u] \/ (u = tid /\ q = made[tid])
    BY <1>3, <1>4, <2>1
  <2>. QED BY <2>2 DEF Strides
<1>5. Strides(t, n, m2, joined, running)
  BY <1>3, <1>4 DEF Strides
<1>. QED
  BY <1>2, <1>5

\* A thread whose next index is past the end is joined with all of its stride.
LEMMA StridesJoined ==
  ASSUME NEW t \in Nat \ {0}, NEW n \in Nat, NEW made, NEW joined, NEW running,
         Strides(t, n, made, joined, running),
         NEW tid \in running, Index(t, tid, made[tid]) >= n,
         NEW share, share = [j \in 1..made[tid] |-> Index(t, tid, j - 1)]
  PROVE  Strides(t, n, made, joined \o share, running \ {tid})
<1>1. made \in [0..t - 1 -> Nat] /\ tid \in 0..t - 1 /\ joined \in Seq(Nat) /\ running \subseteq 0..t - 1
  BY DEF Strides
<1>2. PICK m \in Nat : m = made[tid]
  BY <1>1
<1>3. PICK l \in Nat : l = Len(joined)
  BY <1>1, LenProperties
<1>4. share \in Seq(Nat) /\ Len(share) = m /\ \A j \in 1..m : share[j] = Index(t, tid, j - 1)
  <2>1. ASSUME NEW j \in 1..m PROVE Index(t, tid, j - 1) \in Nat
    <3>1. tid \in Nat /\ j - 1 \in Nat
      BY <1>1
    <3>. QED BY <3>1, IndexIsNat
  <2>2. share = [j \in 1..m |-> Index(t, tid, j - 1)]
    BY <1>2
  <2>3. share \in [1..m -> Nat]
    BY <2>1, <2>2
  <2>4. \A j \in 1..m : share[j] = Index(t, tid, j - 1)
    BY <2>2
  <2>5. share \in Seq(Nat)
    BY <2>3, SeqDef
  <2>6. Len(share) = m
    <3>1. PICK e \in Nat : e = Len(share)
      BY <2>5, LenProperties
    <3>2. 1..e = 1..m
      BY <2>3, <2>5, <3>1, LenProperties
    <3>3. Cardinality(1..e) = e /\ Cardinality(1..m) = m
      BY FS_Interval
    <3>. QED BY <3>1, <3>2, <3>3
  <2>. QED BY <2>4, <2>5, <2>6
<1>5. PICK all : all = joined \o share
  OBVIOUS
<1>6. /\ all \in Seq(Nat) /\ Len(all) = l + m
      /\ \A i \in 1..l : all[i] = joined[i]
      /\ \A i \in l + 1..l + m : all[i] = Index(t, tid, i - l - 1)
  <2>1. all \in Seq(Nat) /\ Len(all) = l + m
    BY <1>1, <1>3, <1>4, <1>5, ConcatProperties
  <2>2. \A i \in 1..l : all[i] = joined[i]
    BY <1>1, <1>3, <1>4, <1>5, ConcatProperties
  <2>3. ASSUME NEW i \in l + 1..l + m PROVE all[i] = Index(t, tid, i - l - 1)
    <3>1. i - l \in 1..m /\ i \in Nat /\ i > l /\ i <= l + m /\ (i - l) - 1 = i - l - 1
      OBVIOUS
    <3>2. all[i] = share[i - l]
      <4>1. \A e \in 1..Len(joined) + Len(share) :
              (joined \o share)[e] = IF e <= Len(joined) THEN joined[e] ELSE share[e - Len(joined)]
        BY <1>1, <1>4, ConcatProperties
      <4>2. \A e \in 1..l + m : all[e] = IF e <= l THEN joined[e] ELSE share[e - l]
        BY <1>3, <1>4, <1>5, <4>1
      <4>3. i \in 1..l + m /\ ~(i <= l)
        BY <3>1
      <4>. QED BY <4>2, <4>3
    <3>. QED BY <1>4, <3>1, <3>2
  <2>. QED BY <2>1, <2>2, <2>3
<1>7. \A i \in 1..l + m : i \in 1..l \/ (i \in l + 1..l + m /\ i - l - 1 \in Nat /\ i - l - 1 < m)
  OBVIOUS
<1>8. ASSUME NEW i \in 1..l + m
      PROVE  /\ all[i] < n
             /\ \E u \in (0..t - 1) \ (running \ {tid}), q \in Nat : all[i] = Index(t, u, q)
  <2>1. CASE i \in 1..l
    BY <1>3, <1>6, <2>1 DEF Strides
  <2>2. CASE i \in l + 1..l + m /\ i - l - 1 \in Nat /\ i - l - 1 < m
    <3>1. all[i] = Index(t, tid, i - l - 1)
      BY <1>6, <2>2
    <3>2. Index(t, tid, i - l - 1) < n
      BY <1>1, <1>2, <2>2 DEF Strides
    <3>. QED BY <1>1, <2>2, <3>1, <3>2
  <2>. QED BY <1>7, <2>1, <2>2
<1>9. ASSUME NEW i \in 1..l, NEW j \in l + 1..l + m
      PROVE  all[i] # all[j]
  <2>1. PICK u \in (0..t - 1) \ running, q \in Nat : all[i] = Index(t, u, q)
    BY <1>3, <1>6 DEF Strides
  <2>2. all[j] = Index(t, tid, j - l - 1) /\ j - l - 1 \in Nat
    BY <1>6
  <2>3. u # tid
    OBVIOUS
  <2>. QED BY <1>1, <2>1, <2>2, <2>3, IndexIsOne
<1>10. ASSUME NEW i \in 1..l + m, NEW j \in 1..l + m, all[i] = all[j]
       PROVE  i = j
  <2>1. CASE i \in 1..l /\ j \in 1..l
    BY <1>3, <1>6, <1>10, <2>1 DEF Strides
  <2>2. CASE i \in l + 1..l + m /\ j \in l + 1..l + m
    <3>1. Index(t, tid, i - l - 1) = Index(t, tid, j - l - 1) /\ i - l - 1 \in Nat /\ j - l - 1 \in Nat
      BY <1>6, <1>10, <2>2
    <3>2. i - l - 1 = j - l - 1
      BY <1>1, <3>1, IndexIsOne
    <3>. QED BY <3>2
  <2>. QED BY <1>7, <1>9, <1>10, <2>1, <2>2
<1>11. ASSUME NEW u \in (0..t - 1) \ (running \ {tid}), NEW q \in Nat, Index(t, u, q) < n
       PROVE  \E i \in 1..l + m : all[i] = Index(t, u, q)
  <2>1. CASE u = tid
    <3>1. q < m
      <4>1. SUFFICES ASSUME m <= q PROVE FALSE
        OBVIOUS
      <4>2. tid \in Nat
        BY <1>1
      <4>3. Index(t, tid, m) \in Nat /\ Index(t, tid, q) \in Nat
        BY <4>2, IndexIsNat
      <4>4. m < q => Index(t, tid, m) + t <= Index(t, tid, q)
        BY <4>2, IndexAscends
      <4>5. Index(t, tid, m) <= Index(t, tid, q)
        BY <4>1, <4>3, <4>4
      <4>. QED BY <1>2, <1>11, <2>1, <4>3, <4>5
    <3>2. l + 1 + q \in l + 1..l + m /\ (l + 1 + q) - l - 1 = q /\ l + 1 + q \in 1..l + m
      BY <3>1
    <3>3. all[l + 1 + q] = Index(t, tid, q)
      BY <1>6, <3>2
    <3>. QED BY <2>1, <3>2, <3>3
  <2>2. CASE u # tid
    <3>1. u \in (0..t - 1) \ running
      BY <2>2
    <3>2. PICK i \in 1..l : joined[i] = Index(t, u, q)
      BY <1>3, <1>11, <3>1 DEF Strides
    <3>3. i \in 1..l + m /\ all[i] = joined[i]
      BY <1>6
    <3>. QED BY <3>2, <3>3
  <2>. QED BY <2>1, <2>2
<1>12. Strides(t, n, made, all, running \ {tid})
  <2>1. running \ {tid} \subseteq 0..t - 1
    BY <1>1
  <2>2. \A u \in 0..t - 1, q \in Nat : q < made[u] => Index(t, u, q) < n
    BY DEF Strides
  <2>. QED BY <1>1, <1>6, <1>8, <1>10, <1>11, <2>1, <2>2 DEF Strides
<1>. QED
  BY <1>5, <1>12

\* When no thread runs, all the indices are there.
LEMMA StridesShuffle ==
  ASSUME NEW t \in Nat \ {0}, NEW n \in Nat, NEW made, NEW joined,
         Strides(t, n, made, joined, {})
  PROVE  Shuffled(joined, n)
<1>1. ASSUME NEW x \in Nat, x < n
      PROVE  \E i \in 1..Len(joined) : joined[i] = x
  <2>1. PICK tid \in 0..t - 1, q \in Nat : x = Index(t, tid, q)
    BY IndexCovers
  <2>. QED BY <1>1, <2>1 DEF Strides
<1>. QED
  BY <1>1 DEF Strides, Shuffled

-----------------------------------------------------------------------------
(* The inductive invariant.                                                *)

\* What becomes of a client whose challenge was minted.  It is not "rejected".
Stages == {"prove", "wait", "unsent", "submitted", "failed", "excused"}

Client ==
  [pc : Stages, nonce : Nonces, k : Ks, issued : Nat, stepped : BOOLEAN,
   threads : ThreadCounts, made : UNION {[0..t - 1 -> Nat] : t \in ThreadCounts},
   joined : Seq(Nat), running : SUBSET Nat]

BenchTypes == bench \in [pc : {"boot", "exited"}] \cup Client

StrideInv ==
  bench \in Client => Strides(bench.threads, bench.k, bench.made, bench.joined, bench.running)

\* A challenge is only ever used up by a run.
UsedIn(ker) == \A c \in ker.challenges : c.used => \E run \in ker.runs : run.nonce = c.nonce

UsedInv == UsedIn(kernel) /\ UsedIn(saved)

\* The kernel has the challenge of a nonce, minted at t.
Holds(n, t) == \E c \in kernel.challenges : c.nonce = n /\ c.issued = t

\* While no clock was set back and nothing undone, a client's challenge is there and
\* lies in the past.
OwnsInv ==
  bench.pc \in {"prove", "wait"} =>
    /\ bench.stepped \/ bench.issued <= now
    /\ rolled \/ Holds(bench.nonce, bench.issued)

\* The client's handler has the client waiting, its nonce, a time that its clock ran
\* for, and proofs that are all bound and valid.
WaitsInv ==
  req[Bench] # Idle =>
    /\ bench.pc = "wait"
    /\ req[Bench].nonce = bench.nonce
    /\ bench.stepped \/ req[Bench].elapsed <= now - bench.issued
    /\ \A i \in 1..Len(req[Bench].proofs) : req[Bench].proofs[i] = "good"

BenchInv == IndInv /\ BenchTypes /\ StrideInv /\ UsedInv /\ OwnsInv /\ WaitsInv

-----------------------------------------------------------------------------
(* Lemmas on the steps.                                                    *)

\* A client that has a challenge.
LEMMA ClientStages ==
  ASSUME BenchTypes
  PROVE  /\ bench.pc \notin {"boot", "exited"} => bench \in Client
         /\ bench \in Client => bench.pc \in Stages
BY DEF BenchTypes, Client, Stages

\* A client that only comes to another stage.
LEMMA StageMoves ==
  ASSUME bench \in Client, StrideInv, NEW x \in Stages, bench' = [bench EXCEPT !.pc = x]
  PROVE  /\ BenchTypes' /\ StrideInv' /\ bench' \in Client /\ bench'.pc = x
         /\ bench'.nonce = bench.nonce /\ bench'.issued = bench.issued
         /\ bench'.stepped = bench.stepped
<1>1. PICK b \in Client : b = bench
  OBVIOUS
<1>2. PICK b2 : b2 = [b EXCEPT !.pc = x]
  OBVIOUS
<1>3. /\ b2 \in Client /\ b2.pc = x /\ b2.nonce = b.nonce /\ b2.issued = b.issued
      /\ b2.stepped = b.stepped /\ b2.threads = b.threads /\ b2.k = b.k /\ b2.made = b.made
      /\ b2.joined = b.joined /\ b2.running = b.running
  BY <1>2 DEF Client
<1>4. b2 = bench'
  BY <1>1, <1>2
<1>. QED
  BY <1>1, <1>3, <1>4 DEF BenchTypes, StrideInv

\* The client's clock notices that the registry's was set back.
LEMMA SteppedMoves ==
  ASSUME bench \in Client, StrideInv, bench' = [bench EXCEPT !.stepped = TRUE]
  PROVE  /\ BenchTypes' /\ StrideInv' /\ bench' \in Client /\ bench'.pc = bench.pc
         /\ bench'.nonce = bench.nonce /\ bench'.issued = bench.issued
         /\ bench'.stepped
<1>1. PICK b \in Client : b = bench
  OBVIOUS
<1>2. PICK b2 : b2 = [b EXCEPT !.stepped = TRUE]
  OBVIOUS
<1>3. /\ b2 \in Client /\ b2.pc = b.pc /\ b2.nonce = b.nonce /\ b2.issued = b.issued
      /\ b2.stepped /\ b2.threads = b.threads /\ b2.k = b.k /\ b2.made = b.made
      /\ b2.joined = b.joined /\ b2.running = b.running
  BY <1>2 DEF Client
<1>4. b2 = bench'
  BY <1>1, <1>2
<1>. QED
  BY <1>1, <1>3, <1>4 DEF BenchTypes, StrideInv

\* What is recorded uses one challenge up, and that one has its run.
LEMMA RecordedKeeps ==
  ASSUME IndInv, UsedInv, NEW r \in Requests, req[r].pc = "recording",
         Accepts(req[r].nonce, req[r].elapsed),
         NEW ker, ker = Recorded(req[r].nonce, req[r].elapsed)
  PROVE  /\ UsedIn(ker)
         /\ \A c \in kernel.challenges :
              \E d \in ker.challenges : d.nonce = c.nonce /\ d.issued = c.issued
         /\ ker # kernel
<1>1. PICK n, run, open : n = req[r].nonce /\ run = RunOf(n, req[r].elapsed)
                          /\ open = [nonce |-> n, issued |-> run.issued, used |-> FALSE]
  OBVIOUS
<1>2. /\ ker.runs = kernel.runs \cup {run}
      /\ open \in kernel.challenges
      /\ ker.challenges = (kernel.challenges \ {open}) \cup {UsedBy(run)}
  BY <1>1, RecordedInv
<1>3. run.nonce = n
  BY <1>1 DEF RunOf
<1>4. /\ open.nonce = n /\ open.issued = run.issued
      /\ UsedBy(run).nonce = n /\ UsedBy(run).issued = run.issued
  BY <1>1, <1>3 DEF UsedBy
<1>5. UsedIn(ker)
  BY <1>2, <1>3, <1>4 DEF UsedInv, UsedIn
<1>6. \A c \in kernel.challenges : \E d \in ker.challenges : d.nonce = c.nonce /\ d.issued = c.issued
  BY <1>2, <1>4
<1>7. ker # kernel
  <2>1. ker.nextId = kernel.nextId + 1
    BY DEF Recorded
  <2>2. kernel.nextId \in Nat
    BY DEF IndInv, DurableInv, KernelInv, KernelState
  <2>. QED BY <2>1, <2>2
<1>. QED
  BY <1>5, <1>6, <1>7

\* However the registry steps, used challenges have their runs, and no challenge is
\* gone unless something was undone.
LEMMA KernelMoves ==
  ASSUME IndInv, UsedInv, [Next]_vars
  PROVE  /\ UsedInv'
         /\ rolled => rolled'
         /\ ~rolled' => \A c \in kernel.challenges :
                          \E d \in kernel'.challenges : d.nonce = c.nonce /\ d.issued = c.issued
<1>1. CASE UNCHANGED <<kernel, saved, rolled>>
  BY <1>1 DEF UsedInv, UsedIn
<1>2. ASSUME NEW n \in Nonces, Mint(n)
      PROVE  /\ UsedInv' /\ rolled' = rolled
             /\ \A c \in kernel.challenges : c \in kernel'.challenges
  <2>1. PICK c : c = [nonce |-> n, issued |-> now, used |-> FALSE]
    OBVIOUS
  <2>2. kernel \in KernelState
    BY DEF IndInv, DurableInv, KernelInv
  <2>3. /\ Opened(n).challenges = kernel.challenges \cup {c}
        /\ Opened(n).runs = kernel.runs
    BY <2>1, <2>2 DEF Opened, KernelState
  <2>4. kernel' = Opened(n) /\ UNCHANGED <<saved, rolled>>
    BY <1>2 DEF Mint
  <2>5. ~c.used
    BY <2>1
  <2>. QED BY <2>3, <2>4, <2>5 DEF UsedInv, UsedIn
<1>3. ASSUME NEW r \in Requests, Record(r)
      PROVE  /\ UsedInv' /\ rolled' = rolled
             /\ \A c \in kernel.challenges :
                  \E d \in kernel'.challenges : d.nonce = c.nonce /\ d.issued = c.issued
  <2>1. UNCHANGED <<saved, rolled>>
    BY <1>3 DEF Record
  <2>2. CASE Accepts(req[r].nonce, req[r].elapsed)
    <3>1. PICK ker : ker = Recorded(req[r].nonce, req[r].elapsed)
      OBVIOUS
    <3>2. kernel' = ker /\ req[r].pc = "recording"
      BY <1>3, <2>2, <3>1 DEF Record
    <3>. QED BY <2>1, <2>2, <3>1, <3>2, RecordedKeeps DEF UsedInv
  <2>3. CASE ~Accepts(req[r].nonce, req[r].elapsed)
    BY <1>3, <2>1, <2>3 DEF Record, UsedInv
  <2>. QED BY <2>2, <2>3
<1>4. CASE Checkpoint
  BY <1>4 DEF Checkpoint, UsedInv
<1>5. CASE Crash
  <2>1. kernel' = saved /\ saved' = saved /\ rolled' = (rolled \/ kernel # saved)
    BY <1>5 DEF Crash, Restored
  <2>. QED BY <2>1 DEF UsedInv
<1>6. CASE Boot \/ ClockMoves \/ Verify \/ UNCHANGED vars
  <2>1. UNCHANGED <<kernel, saved, rolled>>
    BY <1>6 DEF Boot, ClockMoves, Verify, vars, durable
  <2>. QED BY <1>1, <2>1
<1>7. ASSUME NEW r \in Requests,
             Bind(r) \/ HangUp(r)
             \/ \E n \in Nonces, elapsed \in Elapsed, proofs \in ProofLists :
                  Submit(r, n, elapsed, proofs)
      PROVE  UNCHANGED <<kernel, saved, rolled>>
  BY <1>7 DEF Bind, HangUp, Submit, durable
<1>. QED
  BY <1>1, <1>2, <1>3, <1>4, <1>5, <1>6, <1>7 DEF Next

\* The client's challenge is still its own after a step that sets no clock back, or
\* one that the client notices.
LEMMA OwnsStays ==
  ASSUME IndInv, UsedInv, OwnsInv, [Next]_vars \/ UNCHANGED <<kernel, rolled>>,
         bench'.pc \in {"prove", "wait"} =>
           /\ bench.pc \in {"prove", "wait"}
           /\ bench'.nonce = bench.nonce /\ bench'.issued = bench.issued
           /\ bench'.stepped \/ bench.issued <= now'
  PROVE  OwnsInv'
<1> SUFFICES ASSUME bench'.pc \in {"prove", "wait"}
             PROVE  /\ bench'.stepped \/ bench'.issued <= now'
                    /\ rolled' \/ \E c \in kernel'.challenges :
                                     c.nonce = bench'.nonce /\ c.issued = bench'.issued
  BY DEF OwnsInv, Holds
<1>1. PICK n, t : n = bench.nonce /\ t = bench.issued
  OBVIOUS
<1>2. bench'.nonce = n /\ bench'.issued = t /\ bench.pc \in {"prove", "wait"}
  BY <1>1
<1>3. rolled \/ \E c \in kernel.challenges : c.nonce = n /\ c.issued = t
  BY <1>1, <1>2 DEF OwnsInv, Holds
<1>4. rolled' \/ \E c \in kernel'.challenges : c.nonce = n /\ c.issued = t
  <2>1. CASE [Next]_vars
    BY <1>3, <2>1, KernelMoves
  <2>2. CASE UNCHANGED <<kernel, rolled>>
    BY <1>3, <2>2
  <2>. QED BY <2>1, <2>2
<1>5. bench'.stepped \/ t <= now'
  BY <1>1
<1>. QED
  BY <1>2, <1>4, <1>5

\* The client and its handler still agree after a step that leaves the one's stage
\* and the other's submission alone.
LEMMA WaitsStays ==
  ASSUME WaitsInv,
         req'[Bench] # Idle =>
           /\ req[Bench] # Idle
           /\ req'[Bench].nonce = req[Bench].nonce
           /\ req'[Bench].elapsed = req[Bench].elapsed
           /\ req'[Bench].proofs = req[Bench].proofs
           /\ bench'.pc = bench.pc /\ bench'.nonce = bench.nonce
           /\ bench'.stepped \/ req[Bench].elapsed <= now' - bench'.issued
  PROVE  WaitsInv'
<1> SUFFICES ASSUME req'[Bench] # Idle
             PROVE  /\ bench'.pc = "wait"
                    /\ req'[Bench].nonce = bench'.nonce
                    /\ bench'.stepped \/ req'[Bench].elapsed <= now' - bench'.issued
                    /\ \A i \in 1..Len(req'[Bench].proofs) : req'[Bench].proofs[i] = "good"
  BY DEF WaitsInv, Idle
<1>1. /\ bench.pc = "wait" /\ req[Bench].nonce = bench.nonce
      /\ \A i \in 1..Len(req[Bench].proofs) : req[Bench].proofs[i] = "good"
  BY DEF WaitsInv
<1>2. \A i \in 1..Len(req'[Bench].proofs) : req'[Bench].proofs[i] = "good"
  BY <1>1
<1>. QED
  BY <1>1, <1>2

\* The loop takes a handler on with its submission, and on.
LEMMA AfterProofKeeps ==
  ASSUME NEW q \in Active
  PROVE  /\ AfterProof(q) # Idle
         /\ AfterProof(q).nonce = q.nonce /\ AfterProof(q).elapsed = q.elapsed
         /\ AfterProof(q).proofs = q.proofs
<1>1. CASE q.at = Len(q.proofs)
  BY <1>1 DEF AfterProof, Active, Idle
<1>2. CASE q.at # Len(q.proofs)
  <2>1. PICK n : n = q.at + 1
    OBVIOUS
  <2>2. AfterProof(q) = [q EXCEPT !.pc = "binding", !.at = n]
    BY <1>2, <2>1 DEF AfterProof
  <2>. QED BY <2>2 DEF Active, Idle
<1>. QED
  BY <1>1, <1>2

\* The client's handler goes on over proofs that are all good, whatever the verifier
\* does for whom.
LEMMA LoopGoesOn ==
  ASSUME IndInv, WaitsInv, Bind(Bench) \/ Verify
  PROVE  IF req[Bench] = Idle THEN req'[Bench] = Idle
         ELSE /\ req'[Bench] # Idle
              /\ req'[Bench].nonce = req[Bench].nonce
              /\ req'[Bench].elapsed = req[Bench].elapsed
              /\ req'[Bench].proofs = req[Bench].proofs
<1>1. Bench \in Requests /\ req \in [Requests -> Active \cup {Idle}]
  BY BenchAssumption DEF IndInv, HandlersInv
<1>2. req[Bench] # Idle => req[Bench] \in Active /\ ProofOf(req[Bench]) = "good"
  BY <1>1 DEF IndInv, HandlersInv, WaitsInv, ProofOf
<1>3. CASE Bind(Bench)
  <2>1. req[Bench] # Idle
    BY <1>3 DEF Bind, Idle
  <2>2. req' = [req EXCEPT ![Bench].pc = "verifying"]
    BY <1>2, <1>3, <2>1 DEF Bind
  <2>3. PICK q \in Active : q = req[Bench]
    BY <1>2, <2>1
  <2>4. PICK q2 : q2 = [q EXCEPT !.pc = "verifying"]
    OBVIOUS
  <2>5. q2 # Idle /\ q2.nonce = q.nonce /\ q2.elapsed = q.elapsed /\ q2.proofs = q.proofs
    BY <2>4 DEF Active, Idle
  <2>6. req'[Bench] = q2
    BY <1>1, <2>2, <2>3, <2>4
  <2>. QED BY <2>1, <2>3, <2>5, <2>6
<1>4. CASE Verify
  <2>1. PICK r : r = queue[Served]
    OBVIOUS
  <2>2. CASE r # Bench
    <3>1. req' = req \/ (\E q : req' = [req EXCEPT ![r] = q])
      BY <1>4, <2>1 DEF Verify
    <3>2. req'[Bench] = req[Bench]
      BY <1>1, <2>2, <3>1
    <3>. QED BY <3>2
  <2>3. CASE r = Bench
    <3>1. r # Orphan
      BY <1>1, <2>3, HandlerAssumption
    <3>2. req[Bench].pc = "verifying"
      <4>1. Len(queue) \in Nat \ {0}
        BY <1>4, EmptySeq, LenProperties DEF Verify, IndInv, QueueInv
      <4>2. Served \in 1..Len(queue)
        BY <4>1 DEF Served
      <4>. QED BY <2>1, <2>3, <3>1, <4>2 DEF IndInv, QueueInv
    <3>3. req[Bench] # Idle
      BY <3>2 DEF Idle
    <3>4. req' = [req EXCEPT ![Bench] = AfterProof(req[Bench])]
      BY <1>2, <1>4, <2>1, <2>3, <3>1, <3>3 DEF Verify
    <3>5. req'[Bench] = AfterProof(req[Bench])
      BY <1>1, <3>4
    <3>. QED BY <1>2, <3>3, <3>5, AfterProofKeeps
  <2>. QED BY <2>2, <2>3
<1>. QED
  BY <1>3, <1>4

-----------------------------------------------------------------------------
(* The invariant is inductive.                                             *)

LEMMA BenchStart == BenchInit => BenchInv
<1> SUFFICES ASSUME BenchInit PROVE BenchInv
  OBVIOUS
<1>1. IndInv
  BY IndInit DEF BenchInit
<1>2. bench = [pc |-> "boot"]
  BY DEF BenchInit
<1>3. BenchTypes
  BY <1>2 DEF BenchTypes
<1>4. bench.pc = "boot" /\ bench \notin Client
  BY <1>2 DEF Client, Stages
<1>5. UsedInv
  BY DEF BenchInit, Init, EmptyKernel, UsedInv, UsedIn
<1>6. req[Bench] = Idle
  BY BenchAssumption DEF BenchInit, Init
<1>. QED
  BY <1>1, <1>3, <1>4, <1>5, <1>6 DEF BenchInv, StrideInv, OwnsInv, WaitsInv

\* A stutter of the registry while the client moves.
LEMMA RegistryRests ==
  ASSUME IndInv, UsedInv, UNCHANGED vars
  PROVE  IndInv' /\ UsedInv' /\ now' = now /\ req' = req
<1>1. [Next]_vars
  OBVIOUS
<1>. QED
  BY <1>1, IndStep, KernelMoves DEF vars, handlers

LEMMA FetchStep ==
  ASSUME BenchInv, NEW n \in Nonces, Fetch(n)
  PROVE  BenchInv'
<1>1. Mint(n) /\ [Next]_vars /\ bench.pc = "boot"
  BY DEF Fetch, Next
<1>2. IndInv' /\ UsedInv'
  BY <1>1, IndStep, KernelMoves DEF BenchInv
<1>3. PICK t \in ThreadCounts :
        bench' = [pc |-> "prove", nonce |-> n, k |-> k, issued |-> now, stepped |-> FALSE,
                  threads |-> t, made |-> [tid \in 0..t - 1 |-> 0],
                  joined |-> <<>>, running |-> 0..t - 1]
  BY DEF Fetch
<1>4. t \in Nat \ {0} /\ k \in Ks /\ k \in Nat /\ now \in Nat
  BY BenchAssumption, ClientAssumption, BoundsAssumption DEF BenchInv, IndInv, ScalarsInv
<1>5. bench' \in Client
  <2>1. [tid \in 0..t - 1 |-> 0] \in UNION {[0..u - 1 -> Nat] : u \in ThreadCounts}
    <3>1. [tid \in 0..t - 1 |-> 0] \in [0..t - 1 -> Nat]
      OBVIOUS
    <3>. QED BY <3>1
  <2>2. <<>> \in Seq(Nat) /\ 0..t - 1 \in SUBSET Nat
    BY <1>4
  <2>3. "prove" \in Stages
    BY DEF Stages
  <2>4. PICK m, g : m = [tid \in 0..t - 1 |-> 0] /\ g = 0..t - 1
    OBVIOUS
  <2>. QED BY <1>3, <1>4, <2>1, <2>2, <2>3, <2>4 DEF Client
<1>6. StrideInv'
  BY <1>3, <1>4, StridesBegin DEF StrideInv
<1>7. OwnsInv'
  <2>1. PICK c : c = [nonce |-> n, issued |-> now, used |-> FALSE]
    OBVIOUS
  <2>2. kernel \in KernelState
    BY DEF BenchInv, IndInv, DurableInv, KernelInv
  <2>3. Opened(n).challenges = kernel.challenges \cup {c}
    BY <2>1, <2>2 DEF Opened, KernelState
  <2>4. c \in kernel'.challenges /\ c.nonce = bench'.nonce /\ c.issued = bench'.issued
    BY <1>1, <1>3, <2>1, <2>3 DEF Mint
  <2>5. bench'.issued <= now'
    BY <1>1, <1>3, <1>4 DEF Mint
  <2>. QED BY <2>4, <2>5 DEF OwnsInv, Holds
<1>8. WaitsInv'
  <2>1. req[Bench] = Idle
    BY <1>1 DEF BenchInv, WaitsInv
  <2>2. req'[Bench] = Idle
    BY <1>1, <2>1 DEF Mint, handlers
  <2>. QED BY <2>2 DEF WaitsInv, Idle
<1>. QED
  BY <1>2, <1>5, <1>6, <1>7, <1>8 DEF BenchInv, BenchTypes

LEMMA NoChallengeStep ==
  ASSUME BenchInv, NoChallenge
  PROVE  BenchInv'
<1>1. IndInv' /\ UsedInv' /\ req' = req
  BY RegistryRests DEF BenchInv, NoChallenge
<1>2. bench \in [pc : {"boot", "exited"}] /\ bench.pc = "boot"
  BY DEF BenchInv, BenchTypes, NoChallenge, Client, Stages
<1>3. bench' \in [pc : {"boot", "exited"}] /\ bench'.pc = "exited"
  BY <1>2 DEF NoChallenge
<1>4. BenchTypes' /\ StrideInv' /\ OwnsInv'
  BY <1>3 DEF BenchTypes, StrideInv, OwnsInv, Client, Stages
<1>5. WaitsInv'
  BY <1>1, <1>2 DEF BenchInv, WaitsInv, Idle
<1>. QED
  BY <1>1, <1>4, <1>5 DEF BenchInv

\* A thread makes progress: the registry does not, nor does the client's stage.
LEMMA ThreadMoves ==
  ASSUME BenchInv, bench \in Client, UNCHANGED vars,
         NEW m, NEW j, NEW g,
         bench' = [bench EXCEPT !.made = m, !.joined = j, !.running = g],
         Strides(bench.threads, bench.k, m, j, g)
  PROVE  BenchInv'
<1>1. IndInv' /\ UsedInv' /\ req' = req /\ now' = now
  BY RegistryRests DEF BenchInv
<1>2. PICK b \in Client : b = bench
  OBVIOUS
<1>3. PICK b2 : b2 = [b EXCEPT !.made = m, !.joined = j, !.running = g]
  OBVIOUS
<1>4. /\ m \in UNION {[0..t - 1 -> Nat] : t \in ThreadCounts}
      /\ j \in Seq(Nat) /\ g \in SUBSET Nat
  <2>1. b.threads \in ThreadCounts /\ Strides(b.threads, b.k, m, j, g)
    BY <1>2 DEF Client
  <2>2. m \in [0..b.threads - 1 -> Nat] /\ j \in Seq(Nat) /\ g \subseteq 0..b.threads - 1
    BY <2>1 DEF Strides
  <2>3. g \subseteq Nat
    BY <2>1, <2>2, BenchAssumption
  <2>. QED BY <2>1, <2>2, <2>3
<1>5. /\ b2.pc = b.pc /\ b2.nonce = b.nonce /\ b2.issued = b.issued
      /\ b2.stepped = b.stepped /\ b2.threads = b.threads /\ b2.k = b.k /\ b2.made = m
      /\ b2.joined = j /\ b2.running = g
  BY <1>3 DEF Client
<1>6. b2 \in Client
  BY <1>3, <1>4 DEF Client
<1>7. b2 = bench'
  BY <1>2, <1>3
<1>8. BenchTypes' /\ StrideInv'
  BY <1>2, <1>5, <1>6, <1>7 DEF BenchTypes, StrideInv
<1>9. OwnsInv'
  <2>1. UNCHANGED <<kernel, rolled>>
    BY DEF vars, durable
  <2>2. bench'.pc = bench.pc /\ bench'.nonce = bench.nonce /\ bench'.issued = bench.issued
        /\ bench'.stepped = bench.stepped
    BY <1>2, <1>5, <1>7
  <2>. QED BY <1>1, <2>1, <2>2 DEF BenchInv, OwnsInv, Holds
<1>10. WaitsInv'
  <2>1. bench'.pc = bench.pc /\ bench'.nonce = bench.nonce /\ bench'.issued = bench.issued
        /\ bench'.stepped = bench.stepped
    BY <1>2, <1>5, <1>7
  <2>. QED BY <1>1, <2>1 DEF BenchInv, WaitsInv
<1>. QED
  BY <1>1, <1>8, <1>9, <1>10 DEF BenchInv

LEMMA ProveStep ==
  ASSUME BenchInv, NEW tid \in Nat, Prove(tid)
  PROVE  BenchInv'
<1>1. bench \in Client /\ bench.threads \in Nat \ {0} /\ bench.k \in Nat /\ UNCHANGED vars
  <2>1. bench \in Client
    BY ClientStages DEF BenchInv, Prove
  <2>. QED BY <2>1, BenchAssumption, ClientAssumption DEF Client, Prove
<1>2. PICK m : m = [bench.made EXCEPT ![tid] = @ + 1]
  OBVIOUS
<1>3. Strides(bench.threads, bench.k, m, bench.joined, bench.running)
  <2>1. Strides(bench.threads, bench.k, bench.made, bench.joined, bench.running)
    BY <1>1 DEF BenchInv, StrideInv
  <2>2. tid \in bench.running /\ Index(bench.threads, tid, bench.made[tid]) < bench.k
    BY DEF Prove, NextIndex, Index
  <2>3. PICK t, n, mm, j, g :
          /\ t \in Nat \ {0} /\ n \in Nat
          /\ t = bench.threads /\ n = bench.k /\ mm = bench.made /\ j = bench.joined /\ g = bench.running
    BY <1>1
  <2>. QED BY <1>2, <2>1, <2>2, <2>3, StridesMade
<1>4. bench' = [bench EXCEPT !.made = m, !.joined = bench.joined, !.running = bench.running]
  <2>1. PICK b \in Client : b = bench
    BY <1>1
  <2>2. [b EXCEPT !.made[tid] = @ + 1] = [b EXCEPT !.made = m, !.joined = b.joined, !.running = b.running]
    BY <1>2, <2>1 DEF Client
  <2>. QED BY <2>1, <2>2 DEF Prove
<1>. QED
  BY <1>1, <1>3, <1>4, ThreadMoves

LEMMA JoinStep ==
  ASSUME BenchInv, NEW tid \in Nat, Join(tid)
  PROVE  BenchInv'
<1>1. bench \in Client /\ bench.threads \in Nat \ {0} /\ bench.k \in Nat /\ UNCHANGED vars
  <2>1. bench \in Client
    BY ClientStages DEF BenchInv, Join
  <2>. QED BY <2>1, BenchAssumption, ClientAssumption DEF Client, Join
<1>2. PICK share : share = Proved(bench, tid)
  OBVIOUS
<1>3. PICK t, n, m, j, g :
        /\ t \in Nat \ {0} /\ n \in Nat
        /\ t = bench.threads /\ n = bench.k /\ m = bench.made /\ j = bench.joined /\ g = bench.running
  BY <1>1
<1>4. Strides(t, n, m, j \o share, g \ {tid})
  <2>1. Strides(t, n, m, j, g)
    BY <1>1, <1>3 DEF BenchInv, StrideInv
  <2>2. tid \in g /\ Index(t, tid, m[tid]) >= n
    BY <1>3 DEF Join, NextIndex, Index
  <2>3. share = [i \in 1..m[tid] |-> Index(t, tid, i - 1)]
    BY <1>2, <1>3 DEF Proved, Index
  <2>4. t \in Nat \ {0} /\ n \in Nat
    BY <1>3
  <2>. QED BY <2>1, <2>2, <2>3, <2>4, StridesJoined
<1>5. bench' = [bench EXCEPT !.made = m, !.joined = j \o share, !.running = g \ {tid}]
  <2>1. PICK b \in Client : b = bench
    BY <1>1
  <2>2. [b EXCEPT !.joined = b.joined \o share, !.running = b.running \ {tid}]
          = [b EXCEPT !.made = b.made, !.joined = b.joined \o share, !.running = b.running \ {tid}]
    BY DEF Client
  <2>. QED BY <1>2, <1>3, <2>1, <2>2 DEF Join
<1>. QED
  BY <1>1, <1>3, <1>4, <1>5, ThreadMoves

\* Every thread joined, the bundle is K proofs that the registry will find good.
LEMMA BundleIsGood ==
  ASSUME BenchTypes, StrideInv, bench.pc = "prove", bench.running = {}
  PROVE  /\ bench.k \in Nat
         /\ InOrder(bench.joined) = [p \in 1..bench.k |-> p - 1]
         /\ Bundle = [p \in 1..bench.k |-> "good"]
<1>1. bench \in Client /\ bench.threads \in Nat \ {0} /\ bench.k \in Nat
  <2>1. bench \in Client
    BY ClientStages
  <2>. QED BY <2>1, BenchAssumption, ClientAssumption DEF Client
<1>2. PICK t, n, m, j :
        /\ t \in Nat \ {0} /\ n \in Nat
        /\ t = bench.threads /\ n = bench.k /\ m = bench.made /\ j = bench.joined
  BY <1>1
<1>3. Strides(t, n, m, j, {})
  BY <1>1, <1>2 DEF StrideInv
<1>4. PICK sorted : sorted = InOrder(j)
  OBVIOUS
<1>5. sorted = [p \in 1..n |-> p - 1]
  <2>1. t \in Nat \ {0} /\ n \in Nat
    BY <1>2
  <2>2. Shuffled(j, n)
    BY <1>3, <2>1, StridesShuffle
  <2>3. InOrder(j) = [p \in 1..n |-> p - 1]
    BY <2>1, <2>2, ShuffledSorts
  <2>. QED BY <1>4, <2>3
<1>6. [p \in DOMAIN sorted |-> Bound(sorted[p], p - 1)] = [p \in 1..n |-> "good"]
  BY <1>5 DEF Bound
<1>7. Bundle = [p \in DOMAIN sorted |-> Bound(sorted[p], p - 1)]
  BY <1>2, <1>4 DEF Bundle
<1>. QED
  BY <1>2, <1>4, <1>5, <1>6, <1>7

LEMMA SubmitRunStep ==
  ASSUME BenchInv, SubmitRun
  PROVE  BenchInv'
<1>1. bench \in Client /\ bench.pc = "prove" /\ bench.running = {} /\ StrideInv
  BY ClientStages DEF BenchInv, SubmitRun
<1>2. ASSUME NEW elapsed \in Elapsed, Measured(elapsed),
             Submit(Bench, bench.nonce, elapsed, Bundle),
             bench' = [bench EXCEPT !.pc = "wait"]
      PROVE  BenchInv'
  <2>1. PICK proofs : \E n \in Nat : proofs = Bundle /\ proofs = [p \in 1..n |-> "good"]
    <3>1. bench.k \in Nat /\ Bundle = [p \in 1..bench.k |-> "good"]
      BY <1>1, BundleIsGood DEF BenchInv
    <3>2. PICK n \in Nat : n = bench.k
      BY <3>1
    <3>3. Bundle = [p \in 1..n |-> "good"]
      BY <3>1, <3>2
    <3>. QED BY <3>3
  <2>11. PICK n \in Nat : proofs = Bundle /\ proofs = [p \in 1..n |-> "good"]
    BY <2>1
  <2>2. proofs \in Seq(ProofKinds)
    <3>1. proofs \in [1..n -> ProofKinds]
      BY <2>11 DEF ProofKinds
    <3>. QED BY <3>1, SeqDef
  <2>3. bench.nonce \in Nonces
    BY <1>1 DEF Client
  <2>4. IndInv'
    BY <1>2, <2>11, <2>2, <2>3, BenchAssumption, SubmitStep DEF BenchInv
  <2>5. UNCHANGED <<kernel, saved, rolled, now>>
    BY <1>2 DEF Submit, durable
  <2>6. UsedInv'
    BY <2>5 DEF BenchInv, UsedInv
  <2>7. "wait" \in Stages
    BY DEF Stages
  <2>8. BenchTypes' /\ StrideInv' /\ bench'.pc = "wait" /\ bench'.nonce = bench.nonce
        /\ bench'.issued = bench.issued /\ bench'.stepped = bench.stepped
    BY <1>1, <1>2, <2>7, StageMoves
  <2>9. OwnsInv'
    BY <1>1, <2>5, <2>8, OwnsStays DEF BenchInv, OwnsInv
  <2>10. WaitsInv'
    <3>1. PICK q : q = [pc |-> "binding", at |-> 1, nonce |-> bench.nonce,
                        elapsed |-> elapsed, proofs |-> proofs]
      OBVIOUS
    <3>2. req'[Bench] = q
      BY <1>2, <2>11, <3>1, BenchAssumption DEF Submit, BenchInv, IndInv, HandlersInv
    <3>3. q.nonce = bench.nonce /\ q.elapsed = elapsed /\ q.proofs = proofs
      BY <3>1
    <3>4. \A i \in 1..Len(proofs) : proofs[i] = "good"
      <4>1. DOMAIN proofs = 1..Len(proofs) /\ DOMAIN proofs = 1..n
        BY <2>11, <2>2, LenProperties
      <4>. QED BY <2>11, <4>1
    <3>5. bench'.stepped \/ elapsed <= now' - bench'.issued
      BY <1>2, <2>5, <2>8 DEF Measured
    <3>. QED BY <2>8, <3>2, <3>3, <3>4, <3>5 DEF WaitsInv
  <2>. QED BY <2>4, <2>6, <2>8, <2>9, <2>10 DEF BenchInv
<1>3. ASSUME UNCHANGED vars, bench' = [bench EXCEPT !.pc = "unsent"]
      PROVE  BenchInv'
  <2>1. IndInv' /\ UsedInv' /\ req' = req
    BY <1>3, RegistryRests DEF BenchInv
  <2>2. "unsent" \in Stages
    BY DEF Stages
  <2>3. BenchTypes' /\ StrideInv' /\ bench'.pc = "unsent"
    BY <1>1, <1>3, <2>2, StageMoves
  <2>4. WaitsInv'
    BY <1>1, <2>1 DEF BenchInv, WaitsInv, Idle
  <2>. QED BY <2>1, <2>3, <2>4 DEF BenchInv, OwnsInv
<1>. QED
  BY <1>2, <1>3 DEF SubmitRun

\* A client that no step concerns.
LEMMA BenchUnmoved ==
  ASSUME BenchInv, bench' = bench
  PROVE  /\ BenchTypes' /\ StrideInv'
         /\ now' = now /\ [Next]_vars => OwnsInv'
         /\ now' = now /\ (req'[Bench] # Idle =>
                             /\ req[Bench] # Idle
                             /\ req'[Bench].nonce = req[Bench].nonce
                             /\ req'[Bench].elapsed = req[Bench].elapsed
                             /\ req'[Bench].proofs = req[Bench].proofs)
              => WaitsInv'
<1>1. BenchTypes' /\ StrideInv'
  BY DEF BenchInv, BenchTypes, StrideInv
<1>2. ASSUME now' = now, [Next]_vars PROVE OwnsInv'
  BY <1>2, OwnsStays DEF BenchInv, OwnsInv
<1>3. ASSUME now' = now,
             req'[Bench] # Idle =>
                             /\ req[Bench] # Idle
                             /\ req'[Bench].nonce = req[Bench].nonce
                             /\ req'[Bench].elapsed = req[Bench].elapsed
                             /\ req'[Bench].proofs = req[Bench].proofs
      PROVE  WaitsInv'
  BY <1>3, WaitsStays DEF BenchInv, WaitsInv
<1>. QED
  BY <1>1, <1>2, <1>3

LEMMA HandledStep ==
  ASSUME BenchInv, Handled
  PROVE  BenchInv'
<1>1. Bind(Bench) \/ Verify
  BY DEF Handled
<1>2. [Next]_vars
  BY <1>1, BenchAssumption DEF Next
<1>3. IndInv' /\ UsedInv'
  BY <1>2, IndStep, KernelMoves DEF BenchInv
<1>4. now' = now
  BY <1>1 DEF Bind, Verify
<1>5. ~HandlerGone
  BY <1>1, LoopGoesOn DEF BenchInv, HandlerGone
<1>6. bench' = bench
  BY <1>5 DEF Handled, Unheard
<1>7. WaitsInv'
  BY <1>1, <1>4, <1>6, LoopGoesOn, BenchUnmoved DEF BenchInv
<1>. QED
  BY <1>2, <1>3, <1>4, <1>6, <1>7, BenchUnmoved DEF BenchInv

\* A client done with: what it thought of the registry no longer matters.
LEMMA ClientDone ==
  ASSUME BenchInv, [Next]_vars, bench \in Client, req'[Bench] = Idle,
         NEW x \in Stages \ {"prove", "wait"}, bench' = [bench EXCEPT !.pc = x]
  PROVE  BenchInv'
<1>1. IndInv' /\ UsedInv'
  BY IndStep, KernelMoves DEF BenchInv
<1>2. BenchTypes' /\ StrideInv' /\ bench'.pc = x
  BY StageMoves DEF BenchInv
<1>3. OwnsInv' /\ WaitsInv'
  BY <1>2 DEF OwnsInv, WaitsInv, Idle
<1>. QED
  BY <1>1, <1>2, <1>3 DEF BenchInv

\* A refused client is excused: the kernel has its challenge, and nothing else about
\* its run is wrong.
LEMMA RefusedIsExcused ==
  ASSUME BenchInv, req[Bench].pc = "recording", ~Accepts(req[Bench].nonce, req[Bench].elapsed)
  PROVE  Excused
<1> SUFFICES ASSUME ~(now > bench.issued + Hour), ~bench.stepped, ~rolled,
                    ~\E run \in kernel.runs : run.nonce = bench.nonce
             PROVE  FALSE
  BY DEF Excused
<1>1. req[Bench] # Idle
  BY DEF Idle
<1>2. /\ bench.pc = "wait" /\ req[Bench].nonce = bench.nonce
      /\ req[Bench].elapsed <= now - bench.issued
  BY <1>1 DEF BenchInv, WaitsInv
<1>3. bench \in Client
  BY <1>2, ClientStages DEF BenchInv
<1>4. bench.issued <= now /\ \E c \in kernel.challenges : c.nonce = bench.nonce /\ c.issued = bench.issued
  BY <1>2 DEF BenchInv, OwnsInv, Holds
<1>5. PICK c \in kernel.challenges : c.nonce = bench.nonce /\ c.issued = bench.issued
  BY <1>4
<1>6. ~c.used
  BY <1>5 DEF BenchInv, UsedInv, UsedIn
<1>7. now \in Nat /\ bench.issued \in Nat /\ Hour \in Nat
  BY <1>3, BoundsAssumption DEF BenchInv, IndInv, ScalarsInv, Client
<1>8. now <= c.issued + Hour /\ now >= c.issued
  BY <1>4, <1>5, <1>7
<1>. QED
  BY <1>2, <1>5, <1>6, <1>8 DEF Accepts

LEMMA RecordHeardStep ==
  ASSUME BenchInv, NEW r \in Requests, RecordHeard(r)
  PROVE  BenchInv'
<1>1. Record(r) /\ [Next]_vars /\ now' = now
  BY DEF RecordHeard, Next, Record
<1>2. Bench \in Requests /\ req \in [Requests -> Active \cup {Idle}]
  BY BenchAssumption DEF BenchInv, IndInv, HandlersInv
<1>3. CASE r # Bench
  <2>1. bench' = bench
    BY <1>3 DEF RecordHeard, Unheard
  <2>2. req'[Bench] = req[Bench]
    BY <1>1, <1>2, <1>3 DEF Record
  <2>3. IndInv' /\ UsedInv'
    BY <1>1, IndStep, KernelMoves DEF BenchInv
  <2>4. WaitsInv'
    BY <1>1, <2>1, <2>2, BenchUnmoved
  <2>. QED BY <1>1, <2>1, <2>3, <2>4, BenchUnmoved DEF BenchInv
<1>4. CASE r = Bench
  <2>1. req'[Bench] = Idle /\ req[Bench].pc = "recording" /\ req[Bench] # Idle
    BY <1>1, <1>2, <1>4 DEF Record, Idle
  <2>2. bench \in Client
    BY <2>1, ClientStages DEF BenchInv, WaitsInv
  <2>3. CASE acked' # acked
    <3>1. bench' = [bench EXCEPT !.pc = "submitted"] /\ "submitted" \in Stages \ {"prove", "wait"}
      BY <1>4, <2>3 DEF RecordHeard, Stages
    <3>. QED BY <1>1, <2>1, <2>2, <3>1, ClientDone
  <2>4. CASE acked' = acked /\ kernel' # kernel
    <3>1. bench' = [bench EXCEPT !.pc = "failed"] /\ "failed" \in Stages \ {"prove", "wait"}
      BY <1>4, <2>4 DEF RecordHeard, Stages
    <3>. QED BY <1>1, <2>1, <2>2, <3>1, ClientDone
  <2>5. CASE acked' = acked /\ kernel' = kernel
    <3>1. ~Accepts(req[Bench].nonce, req[Bench].elapsed)
      <4>1. SUFFICES ASSUME Accepts(req[Bench].nonce, req[Bench].elapsed) PROVE FALSE
        OBVIOUS
      <4>2. PICK ker : ker = Recorded(req[Bench].nonce, req[Bench].elapsed)
        OBVIOUS
      <4>3. kernel' = ker
        BY <1>1, <1>4, <4>1, <4>2 DEF Record
      <4>4. ker # kernel
        BY <1>2, <2>1, <4>1, <4>2, RecordedKeeps DEF BenchInv
      <4>. QED BY <2>5, <4>3, <4>4
    <3>2. Excused
      BY <2>1, <3>1, RefusedIsExcused
    <3>3. bench' = [bench EXCEPT !.pc = "excused"] /\ "excused" \in Stages \ {"prove", "wait"}
      BY <1>4, <2>5, <3>2 DEF RecordHeard, Refused, Stages
    <3>. QED BY <1>1, <2>1, <2>2, <3>3, ClientDone
  <2>. QED BY <2>3, <2>4, <2>5
<1>. QED
  BY <1>3, <1>4

LEMMA GivesUpStep ==
  ASSUME BenchInv, GivesUp
  PROVE  BenchInv'
<1>1. HangUp(Bench) /\ Bench \in Requests /\ [Next]_vars
  BY BenchAssumption DEF GivesUp, Next
<1>2. req[Bench] # Idle /\ req'[Bench] = Idle
  BY <1>1 DEF HangUp, BenchInv, IndInv, HandlersInv
<1>3. bench \in Client
  BY <1>2, ClientStages DEF BenchInv, WaitsInv
<1>4. bench' = [bench EXCEPT !.pc = "failed"] /\ "failed" \in Stages \ {"prove", "wait"}
  BY DEF GivesUp, Stages
<1>. QED
  BY <1>1, <1>2, <1>3, <1>4, ClientDone

LEMMA DiesStep ==
  ASSUME BenchInv, Dies
  PROVE  BenchInv'
<1>1. Crash /\ [Next]_vars /\ now' = now
  BY DEF Dies, Next, Crash
<1>2. req'[Bench] = Idle
  BY <1>1, BenchAssumption DEF Crash
<1>3. CASE bench.pc = "wait"
  <2>1. bench \in Client
    BY <1>3, ClientStages DEF BenchInv
  <2>2. bench' = [bench EXCEPT !.pc = "failed"] /\ "failed" \in Stages \ {"prove", "wait"}
    BY <1>3 DEF Dies, Stages
  <2>. QED BY <1>1, <1>2, <2>1, <2>2, ClientDone
<1>4. CASE bench.pc # "wait"
  <2>1. bench' = bench
    BY <1>4 DEF Dies
  <2>2. IndInv' /\ UsedInv'
    BY <1>1, IndStep, KernelMoves DEF BenchInv
  <2>. QED BY <1>1, <1>2, <2>1, <2>2, BenchUnmoved DEF BenchInv
<1>. QED
  BY <1>3, <1>4

LEMMA TicksStep ==
  ASSUME BenchInv, Ticks
  PROVE  BenchInv'
<1>1. ClockMoves /\ [Next]_vars /\ req' = req /\ UNCHANGED <<kernel, rolled>>
  BY DEF Ticks, Next, ClockMoves, handlers, durable
<1>2. IndInv' /\ UsedInv'
  BY <1>1, IndStep, KernelMoves DEF BenchInv
<1>3. now \in Nat /\ now' \in Nat
  BY <1>2, BoundsAssumption DEF BenchInv, IndInv, ScalarsInv
<1>4. CASE bench.pc \in {"prove", "wait"} /\ now' < now
  <2>1. bench \in Client
    BY <1>4, ClientStages DEF BenchInv
  <2>2. bench' = [bench EXCEPT !.stepped = TRUE]
    BY <1>4 DEF Ticks
  <2>3. BenchTypes' /\ StrideInv' /\ bench'.pc = bench.pc /\ bench'.nonce = bench.nonce
        /\ bench'.issued = bench.issued /\ bench'.stepped
    BY <2>1, <2>2, SteppedMoves DEF BenchInv
  <2>4. OwnsInv'
    BY <1>1, <1>4, <2>3, OwnsStays DEF BenchInv
  <2>5. WaitsInv'
    BY <1>1, <2>3, WaitsStays DEF BenchInv
  <2>. QED BY <1>2, <2>3, <2>4, <2>5 DEF BenchInv
<1>5. CASE ~(bench.pc \in {"prove", "wait"} /\ now' < now)
  <2>1. bench' = bench
    BY <1>5 DEF Ticks
  <2>2. bench.pc \in {"prove", "wait"} => now' >= now /\ bench \in Client /\ bench.issued \in Nat
    BY <1>3, <1>5, ClientStages DEF BenchInv, Client
  <2>3. OwnsInv'
    <3>1. bench'.pc \in {"prove", "wait"} => bench'.stepped \/ bench.issued <= now'
      BY <1>3, <2>1, <2>2 DEF BenchInv, OwnsInv
    <3>. QED BY <1>1, <2>1, <3>1, OwnsStays DEF BenchInv
  <2>4. WaitsInv'
    <3>1. req[Bench] # Idle => bench.pc = "wait" /\ req[Bench].elapsed \in Nat
      BY BenchAssumption, ClientAssumption DEF BenchInv, WaitsInv, IndInv, HandlersInv, Active
    <3>2. req[Bench] # Idle => bench'.stepped \/ req[Bench].elapsed <= now' - bench'.issued
      BY <1>3, <2>1, <2>2, <3>1 DEF BenchInv, WaitsInv
    <3>. QED BY <1>1, <2>1, <3>2, WaitsStays DEF BenchInv
  <2>. QED BY <1>2, <2>1, <2>3, <2>4, BenchUnmoved DEF BenchInv
<1>. QED
  BY <1>4, <1>5

LEMMA OthersMoveStep ==
  ASSUME BenchInv, OthersMove
  PROVE  BenchInv'
<1>1. [Next]_vars /\ now' = now
  BY DEF OthersMove, Others, Next, Submit, Bind, HangUp, Checkpoint, Boot
<1>2. bench' = bench
  BY DEF OthersMove, Unheard
<1>3. req'[Bench] = req[Bench]
  <2>1. Bench \in Requests /\ req \in [Requests -> Active \cup {Idle}]
    BY BenchAssumption DEF BenchInv, IndInv, HandlersInv
  <2>2. ASSUME NEW r \in Others, NEW q, req' = [req EXCEPT ![r] = q]
        PROVE  req'[Bench] = req[Bench]
    BY <2>1, <2>2 DEF Others
  <2>3. ASSUME NEW r \in Others,
               \/ \E n \in Nonces, elapsed \in Elapsed, proofs \in ProofLists :
                    Submit(r, n, elapsed, proofs)
               \/ Bind(r)
               \/ HangUp(r)
        PROVE  \E q : req' = [req EXCEPT ![r] = q]
    BY <2>3 DEF Submit, Bind, HangUp
  <2>4. CASE Checkpoint \/ Boot
    BY <2>4 DEF Checkpoint, Boot, handlers
  <2>. QED BY <2>2, <2>3, <2>4 DEF OthersMove
<1>4. IndInv' /\ UsedInv'
  BY <1>1, IndStep, KernelMoves DEF BenchInv
<1>5. WaitsInv'
  BY <1>1, <1>2, <1>3, BenchUnmoved
<1>. QED
  BY <1>1, <1>2, <1>4, <1>5, BenchUnmoved DEF BenchInv

LEMMA BenchStep == BenchInv /\ [BenchNext]_benchVars => BenchInv'
<1> SUFFICES ASSUME BenchInv, [BenchNext]_benchVars PROVE BenchInv'
  OBVIOUS
<1>1. CASE UNCHANGED benchVars
  <2>1. UNCHANGED vars /\ bench' = bench
    BY <1>1 DEF benchVars
  <2>2. IndInv' /\ UsedInv' /\ now' = now /\ req' = req /\ [Next]_vars
    BY <2>1, RegistryRests DEF BenchInv
  <2>. QED BY <2>1, <2>2, BenchUnmoved DEF BenchInv
<1>2. ASSUME NEW tid \in 0..Max(ThreadCounts) - 1, Prove(tid) \/ Join(tid)
      PROVE  BenchInv'
  <2>1. tid \in Nat
    <3>1. bench \in Client
      BY <1>2, ClientStages DEF BenchInv, Prove, Join
    <3>. QED BY <1>2, <3>1 DEF Prove, Join, Client
  <2>. QED BY <1>2, <2>1, ProveStep, JoinStep
<1>. QED
  BY <1>1, <1>2, FetchStep, NoChallengeStep, SubmitRunStep, HandledStep, RecordHeardStep,
     GivesUpStep, DiesStep, TicksStep, OthersMoveStep DEF BenchNext

LEMMA BenchInvariance == BenchSpec => []BenchInv
BY BenchStart, BenchStep, PTL DEF BenchSpec

-----------------------------------------------------------------------------
(* Theorems.                                                               *)

\* ProofsInPlace: whatever the number of threads and the order they are joined in,
\* each of the K proofs of a bundle is at its index.
THEOREM BundleInPlace == BenchSpec => []ProofsInPlace
<1>1. BenchInv => ProofsInPlace
  BY BundleIsGood DEF BenchInv, ProofsInPlace
<1>. QED
  BY <1>1, BenchInvariance, PTL

\* HonestRunKept: a run of tock's is never refused for its proofs, their order or the
\* time it claims, whatever other clients, deaths and clocks do.
THEOREM HonestRunIsKept == BenchSpec => []HonestRunKept
<1>1. BenchInv => HonestRunKept
  BY DEF BenchInv, BenchTypes, Client, Stages, HonestRunKept
<1>. QED
  BY <1>1, BenchInvariance, PTL

\* Registry's promises stand with a client that sends what its threads made: no run
\* without its proofs, none that claims more time than it had, and no checkpoint lost.
THEOREM BenchKeepsBoard ==
  BenchSpec => [](RunsAreProved /\ OneRunPerNonce /\ ElapsedFits /\ CheckpointsSurvive)
<1>1. BenchInv => RunsAreProved /\ OneRunPerNonce /\ ElapsedFits /\ CheckpointsSurvive
  BY BoardStands DEF BenchInv
<1>. QED
  BY <1>1, BenchInvariance, PTL
=============================================================================
