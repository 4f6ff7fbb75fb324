------------------------------ MODULE AiTiers ------------------------------
(***************************************************************************)
(* Difficulty tiers (tock/src/aipow.rs): expected attempts per win are     *)
(* granted as powers of two, and a tier's target is found by inverting the *)
(* very function a run is scored with, one per statement.  Targets are     *)
(* single bits, 2^bit.                                                     *)
(***************************************************************************)
EXTENDS Integers, FiniteSetsExt

CONSTANTS
  MinBit, MaxBit,  \* AI_ATTEMPTS_MIN and AI_ATTEMPTS_MAX, as powers of two
  HashBits,        \* 256: bits of a jackpot hash
  Mantissa,        \* 53: bits an f64 keeps
  ScaleBits,       \* F = 2^16: what canonical-MoE multiplies a target by
  ProveRatio       \* AI_TIER_PROVE_RATIO

ASSUME TierAssumption ==
  /\ MinBit \in Nat \ {0} /\ MaxBit \in Nat /\ MinBit < MaxBit
  /\ {HashBits, Mantissa, ScaleBits} \subseteq Nat
  /\ MaxBit + Mantissa + ScaleBits < HashBits
  /\ ProveRatio \in Nat

Statements == {"dense", "canonical-moe"}

Tiers == {2^b : b \in MinBit..MaxBit}

\* Mutant: an attempt count is rounded down.
Nearest_Down(n) == Max({t \in Tiers : t <= n})

\* n is nearer to hi in log space when n^2 >= lo * hi.
Nearest(n) ==
  LET lo == Max({t \in Tiers : t <= n})
  IN IF n * n >= lo * (2 * lo) /\ n # lo THEN 2 * lo ELSE lo

\* grant_attempts
Grant(n) ==
  IF n <= 2^MinBit THEN 2^MinBit
  ELSE IF n >= 2^MaxBit THEN 2^MaxBit
  ELSE Nearest(n)

\* The threshold a jackpot is compared with: canonical-MoE scales the target.
ThresholdBit(statement, bit) == IF statement = "dense" THEN bit ELSE bit + ScaleBits

\* moe_threshold refuses a target whose scaled threshold overflows.
Scales(statement, bit) == ThresholdBit(statement, bit) < HashBits

\* expected_attempts_per_win at the target 2^bit: 2^256 / (threshold + 1), where
\* an f64 loses the 1 once the threshold fills its mantissa, and one attempt for
\* a target that does not scale.
Expected(statement, bit) ==
  LET b == ThresholdBit(statement, bit) IN
  IF ~Scales(statement, bit) THEN 1
  ELSE IF b >= Mantissa THEN 2^(HashBits - b)
  ELSE 2^HashBits \div (2^b + 1)

\* Mutant: the inversion of one statement serves both.
TargetFor_Dense(statement, attempts) ==
  Min({bit \in 0..HashBits - 1 : Expected("dense", bit) = attempts})

\* target_for_attempts: the first single-bit target that scores the tier.
TargetFor(statement, attempts) ==
  Min({bit \in 0..HashBits - 1 : Expected(statement, bit) = attempts})

\* tier_for_prove_ratio: grinding worth ProveRatio certificates per win.
TierFor(rate, proving) == Grant(rate * ProveRatio * proving)
=============================================================================
