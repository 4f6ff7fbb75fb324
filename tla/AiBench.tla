------------------------------ MODULE AiBench ------------------------------
(***************************************************************************)
(* A whole AI benchmark: the client (tock/src/main.rs, ai_bench and        *)
(* ai_bench_moe, over aipow.rs, aipow_moe.rs, aipow_gpu.rs and client.rs)  *)
(* from its flags to the submission of its wins, and the registry's checks *)
(* of the body (registry/src/http.rs, submit_ai_run, over aipow.rs and     *)
(* aipow_moe.rs).                                                          *)
(*                                                                         *)
(* The client settles on a tier before it asks for a challenge, grinds the *)
(* ordinals in order until k of them win, certifies each win and submits.  *)
(* The grind is a loop over the ordinals or, for canonical-MoE, batches on *)
(* the GPU.  One run of one client; what other submissions and a restart   *)
(* do to a challenge is AiSubmission's.                                    *)
(***************************************************************************)
EXTENDS AiTiers, Sequences, SequencesExt, FiniteSets

CONSTANTS
  None,        \* an Option's None
  Requests,    \* --attempts
  Bits,        \* --target, and the target an instance is configured with
  CpuRate, GpuRate,  \* attempts per tick of the machine
  Ks,          \* wins a client or a registry may ask for
  Batches,     \* --gpu-batch
  Ordinals,    \* how many ordinals there are: 2^32
  Setups,      \* verifier-key digests: one per pinned prover
  OwnSetup,    \* the one this client proves under
  Faults,      \* what may be wrong with a body
  Warming,     \* ticks to open a CUDA session
  Proving,     \* ticks of a certificate ...
  Reproving,   \* ... that reuses the prover cache
  Checking,    \* ticks the registry takes to verify a certificate
  Window       \* AI_WINDOW_MS

ASSUME SearchAssumption ==
  /\ Requests \subseteq Nat /\ Bits \subseteq 0..HashBits - 1 /\ {CpuRate, GpuRate} \subseteq Nat
  /\ Ks \subseteq Nat \ {0} /\ Batches \subseteq Nat \ {0} /\ Ordinals \in Nat \ {0}
  /\ OwnSetup \in Setups /\ None \notin Nat
ASSUME FaultAssumption ==
  /\ "none" \in Faults
  /\ Faults \subseteq {"none", "short", "reversed", "stale", "repeated", "relabelled",
                       "rewritten", "wrapped"}
ASSUME TimeAssumption ==
  {Warming, Proving, Reproving, Checking, Window} \subseteq Nat /\ Reproving <= Proving

VARIABLES
  pc,        \* where the run is
  cli,       \* the flags it was started with
  tier,      \* --attempts, then the tier it was resolved to; None: neither
  calibrated, \* history: the tier was measured, not asked for
  registry,  \* the registry it submits to; None: a local run
  work,      \* the AiChallenge to grind, and the ordinals that win it
  age,       \* ticks since the challenge was minted, up to Window + 1
  loop,      \* the search
  wins,      \* the wins certified so far
  body,      \* the wins submitted, of which the registry has verified `checked`
  checked,
  fault      \* what is wrong with the body

client == <<cli, registry>>
quote  == <<tier, calibrated>>
grind  == <<work, loop>>
sent   == <<body, checked, fault>>
vars   == <<pc, client, quote, grind, age, wins, sent>>

\* Work that takes d ticks.
Takes(d) == age' = Min({age + d, Window + 1})

-----------------------------------------------------------------------------
(* Before the mint.                                                        *)

\* The flags, and whether tock was built with CUDA.  Without --gpu neither that nor
\* --gpu-batch has an effect.
Flags ==
  {f \in [statement : Statements, gpu : BOOLEAN, cuda : BOOLEAN, batch : Batches \cup {None},
          target : Bits \cup {None}, k : Ks] :
     IF f.gpu THEN f.batch # None ELSE f.batch = None /\ ~f.cuda}

\* resolve_backend exits with a message rather than grind on another backend.
ResolveBackend ==
  /\ pc = "backend"
  /\ pc' = IF cli.gpu /\ (cli.statement # "canonical-moe" \/ ~cli.cuda)
           THEN "stopped" ELSE "tier"
  /\ UNCHANGED <<client, quote, grind, age, wins, sent>>

\* resolve_tier: what was asked for is granted before it is sent; a pinned target
\* needs no tier.
ResolveTier ==
  /\ pc = "tier"
  /\ \/ tier # None
     \/ cli.target # None
  /\ tier' = IF tier = None THEN None ELSE Grant(tier)
  /\ pc' = "mint"
  /\ UNCHANGED <<client, calibrated, grind, age, wins, sent>>

\* Mutant: the rate is always measured on the CPU.
Measured_OnCpu == CpuRate

\* calibrate_attempts_per_sec and its peers: the rate of the backend that will grind.
Measured == IF cli.gpu THEN GpuRate ELSE CpuRate

\* calibrate_prove_secs: a certificate that finds no cache, proved on the CPU.
Throwaway == Proving

\* Else the machine is measured.  Its clock is not a challenge's.
Calibrate ==
  /\ pc = "tier"
  /\ tier = None /\ cli.target = None
  /\ tier' = TierFor(Measured, Throwaway)
  /\ calibrated' = TRUE
  /\ pc' = "mint"
  /\ UNCHANGED <<client, grind, age, wins, sent>>

-----------------------------------------------------------------------------
(* The challenge.                                                          *)

\* Registries: one that knows the dense statement alone, one that knows both,
\* and this one, which grants tiers too.
Versions == {"dense", "statements", "tiers"}

Registries == [speaks : Versions, target : Bits, k : Ks, setup : Setups]

\* statement_from_query; the parameter means nothing to the oldest registries.
Served == IF registry.speaks = "dense" THEN "dense" ELSE cli.statement

\* attempts_from_query; nor does this one to any but the newest.
Requested == IF registry.speaks = "tiers" THEN tier ELSE None

\* new_challenge.  A grind rule goes by the name of its statement.
Answer ==
  [rule |-> Served,
   statement |-> IF registry.speaks = "dense" THEN None ELSE Served,
   target |-> IF Requested = None THEN registry.target
              ELSE TargetFor(Served, Grant(Requested)),
   k |-> registry.k]

\* Mutant: whatever the registry answers is ground.
Understood_Anything(answer) == TRUE

\* fetch_ai_challenge: the rule and the statement are the ones asked for; only
\* a dense client does without a statement.
Understood(answer) ==
  /\ answer.rule = cli.statement
  /\ answer.statement = cli.statement \/ (answer.statement = None /\ cli.statement = "dense")

\* A challenge decides which ordinals win at its target.
Ground(target, k, rule) ==
  \E winners \in SUBSET (0..Ordinals - 1) :
    work' = [rule |-> rule, target |-> target, k |-> k, winners |-> winners]

\* Mutant: the calibration is done with a challenge in hand.
FetchChallenge_ThenCalibrate ==
  /\ pc = "mint"
  /\ registry # None
  /\ Understood(Answer)
  /\ Ground(Answer.target, Answer.k, Answer.rule)
  /\ Takes(Proving)
  /\ pc' = "open"
  /\ UNCHANGED <<client, quote, loop, wins, sent>>

\* The registry's challenge, target and k override the flags.
FetchChallenge ==
  /\ pc = "mint"
  /\ registry # None
  /\ Understood(Answer)
  /\ Ground(Answer.target, Answer.k, Answer.rule)
  /\ pc' = "open"
  /\ UNCHANGED <<client, quote, age, loop, wins, sent>>

\* The answer is an error, never comes, or is not understood.
FetchFails ==
  /\ pc = "mint"
  /\ registry # None
  /\ pc' = "stopped"
  /\ UNCHANGED <<client, quote, grind, age, wins, sent>>

\* A local run grinds the pinned target, or its tier's.
ChooseLocally ==
  /\ pc = "mint"
  /\ registry = None
  /\ Ground(IF cli.target # None THEN cli.target ELSE TargetFor(cli.statement, tier),
            cli.k, cli.statement)
  /\ pc' = "open"
  /\ UNCHANGED <<client, quote, age, loop, wins, sent>>

-----------------------------------------------------------------------------
(* The search.                                                             *)

\* A target that does not scale is refused before anything is ground; a CUDA
\* session is opened before the grind's clock starts.
OpenGrind ==
  /\ pc = "open"
  /\ IF ~Scales(cli.statement, work.target)
     THEN pc' = "stopped" /\ UNCHANGED <<age, loop>>
     ELSE /\ pc' = "search"
          /\ Takes(IF cli.gpu THEN Warming ELSE 0)
          /\ loop' = [loop EXCEPT !.opened = age']
  /\ UNCHANGED <<client, quote, work, wins, sent>>

\* checked_add finds no next ordinal.
Exhausted(ordinal) == ordinal + 1 = Ordinals

\* The grind's clock stops at the k-th win.
Closed(l) ==
  IF Len(l.wins) = work.k THEN [l EXCEPT !.elapsed = Max({1, age' - l.opened})] ELSE l

\* An ordinal that wins is pushed behind the earlier ones.
Found ==
  IF loop.next \in work.winners THEN Append(loop.wins, loop.next) ELSE loop.wins

\* One turn of the loop of grind and of grind_moe.  checked_add panics after the
\* last ordinal, even when that ordinal was the k-th win.
Attempt ==
  /\ pc = "search" /\ ~cli.gpu
  /\ Takes(1)
  /\ pc' = IF Exhausted(loop.next) THEN "stopped"
           ELSE IF Len(Found) = work.k THEN "prove"
           ELSE "search"
  /\ loop' = Closed([loop EXCEPT !.wins = Found, !.next = @ + 1, !.tried = @ + 1])
  /\ UNCHANGED <<client, quote, work, wins, sent>>

\* Mutant: an exhausted scheduler hands out empty batches.
NextBatch_Empty ==
  /\ pc = "search" /\ cli.gpu
  /\ pc' = "batch"
  /\ loop' = [loop EXCEPT !.end = Min({loop.next + cli.batch, Ordinals})]
  /\ UNCHANGED <<client, quote, work, age, wins, sent>>

\* next_batch: the next ordinals, cut at the end of the space.
NextBatch ==
  /\ pc = "search" /\ cli.gpu
  /\ IF loop.next = Ordinals
     THEN pc' = "stopped" /\ UNCHANGED loop
     ELSE /\ pc' = "batch"
          /\ loop' = [loop EXCEPT !.end = Min({loop.next + cli.batch, Ordinals})]
  /\ UNCHANGED <<client, quote, work, age, wins, sent>>

\* Mutant: the search goes on behind the batch the winner was found in.
NextAfter_Batch(winner) == loop.end

\* record_winner advances to the winner's successor.
NextAfter(winner) == winner + 1

\* search_canonical returns the first winner of the batch, or none.
SearchBatch ==
  /\ pc = "batch"
  /\ Takes(1)
  /\ LET found == work.winners \cap (loop.next..loop.end - 1) IN
     \/ /\ found # {}
        /\ LET winner == Min(found)
               now == Append(loop.wins, winner)
           IN /\ pc' = IF Len(now) = work.k THEN "prove" ELSE "search"
              /\ loop' = Closed([loop EXCEPT !.wins = now, !.next = NextAfter(winner),
                                             !.tried = @ + (winner + 1 - loop.next)])
     \/ /\ found = {}
        /\ pc' = "search"
        /\ loop' = [loop EXCEPT !.next = loop.end, !.tried = @ + (loop.end - loop.next)]
  /\ UNCHANGED <<client, quote, work, wins, sent>>

-----------------------------------------------------------------------------
(* The certificates.                                                       *)

\* A win on the wire: the ordinal it is claimed for, the one its blob names, and
\* what its certificate proves, of which statement and under which setup.
Certified(ordinal) ==
  [claimed |-> ordinal, blob |-> ordinal, statement |-> cli.statement, setup |-> OwnSetup,
   proves |-> [challenge |-> "minted", ordinal |-> ordinal]]

\* prove_wins reuses the first certificate's setup; prove_moe_wins cannot.
ProveTicks ==
  IF cli.statement = "dense" /\ wins # <<>> THEN Reproving ELSE Proving

NextToProve == loop.wins[Len(wins) + 1]

ProveWin ==
  /\ pc = "prove"
  /\ Takes(ProveTicks)
  /\ wins' = Append(wins, Certified(NextToProve))
  /\ pc' = IF Len(wins') < Len(loop.wins) THEN "prove"
           ELSE IF registry = None THEN "local" ELSE "submit"
  /\ UNCHANGED <<client, quote, grind, sent>>

-----------------------------------------------------------------------------
(* The submission.                                                         *)

\* The wins with w in place of the last one.
WithLast(w) == [wins EXCEPT ![Len(wins)] = w]

\* What arrives: the wins as tock sends them, or a list of another length, in
\* another order, for another challenge, or with the first win twice: as it is,
\* under another ordinal, under another ordinal in its blob too, or under its own
\* ordinal beyond the space.
Body(f) ==
  LET first == wins[1]
      label == wins[Len(wins)].claimed
  IN CASE f = "none" -> wins
       [] f = "short" -> Front(wins)
       [] f = "reversed" -> Reverse(wins)
       [] f = "stale" -> [i \in DOMAIN wins |-> [wins[i] EXCEPT !.proves.challenge = "dev"]]
       [] f = "repeated" -> <<first>> \o Front(wins)
       [] f = "relabelled" -> WithLast([first EXCEPT !.claimed = label])
       [] f = "rewritten" -> WithLast([first EXCEPT !.claimed = label, !.blob = label])
       [] f = "wrapped" -> WithLast([first EXCEPT !.claimed = @ + Ordinals])

\* extranonces_strictly_ascending
Ascending(b) == \A i \in 1..Len(b) - 1 : b[i].claimed < b[i + 1].claimed

\* Mutant: an ordinal of any width reaches the cast.
InRange_Unchecked(b) == TRUE

\* Canonical-MoE ordinals must fit in u32.
InRange(b) == work.rule = "canonical-moe" => \A i \in DOMAIN b : b[i].claimed < Ordinals

\* The checks before any expensive work, and the challenge still pending.
Submit ==
  /\ pc = "submit"
  /\ \E f \in Faults :
       /\ fault' = f
       /\ body' = Body(f)
  /\ pc' = IF Len(body') = registry.k /\ Ascending(body') /\ InRange(body') /\ age <= Window
           THEN "check" ELSE "refused"
  /\ UNCHANGED <<client, quote, grind, age, wins, checked>>

\* What canonical-MoE's cast to u32 leaves of a claimed ordinal.
Claimed(w) == IF work.rule = "dense" THEN w.claimed ELSE w.claimed % Ordinals

\* The blob's nonce or ordinal is the win's.
Bound(w) == w.blob = Claimed(w)

\* The certificate declares the setup the registry pinned.
Pinned(w) == w.setup = registry.setup

\* The certificate is of the statement the registry minted the challenge for, and
\* for what it derives from the challenge and the blob's ordinal.
Proven(w) ==
  w.statement = work.rule /\ w.proves = [challenge |-> "minted", ordinal |-> w.blob]

\* verify_submission gates the jackpot the certificate's public inputs carry, ...
DenseVerifies(w) ==
  Bound(w) /\ Pinned(w) /\ Proven(w) /\ w.proves.ordinal \in work.winners

\* ... verify_moe_submission the one it derives for the ordinal.
MoeVerifies(w) ==
  Bound(w) /\ w.blob \in work.winners /\ Proven(w) /\ Pinned(w)

Verifies(w) == IF work.rule = "dense" THEN DenseVerifies(w) ELSE MoeVerifies(w)

\* The wins are verified one after the other; the first that fails ends it.
CheckWin ==
  /\ pc = "check"
  /\ checked < Len(body)
  /\ Takes(Checking)
  /\ IF Verifies(body[checked + 1])
     THEN pc' = pc /\ checked' = checked + 1
     ELSE pc' = "refused" /\ UNCHANGED checked
  /\ UNCHANGED <<client, quote, grind, wins, body, fault>>

\* commit_run holds the window against the clock again.
Commit ==
  /\ pc = "check"
  /\ checked = Len(body)
  /\ pc' = IF age <= Window THEN "accepted" ELSE "refused"
  /\ UNCHANGED <<client, quote, grind, age, wins, sent>>

\* The exchange fails, or takes longer than 180 s: the handler is dropped with the
\* connection.
SubmitFails ==
  /\ pc \in {"submit", "check"}
  /\ pc' = "stopped"
  /\ UNCHANGED <<client, quote, grind, age, wins, sent>>

-----------------------------------------------------------------------------
(* The board.                                                              *)

\* rates, as fractions: the expected attempts of k wins over each of the windows.
Rates(statement, k, target, window, elapsed) ==
  LET credit == k * Expected(statement, target) IN
  [verified |-> <<credit, window>>, reported |-> <<credit, elapsed>>,
   attempts |-> Expected(statement, target)]

\* to_ai_entry
Entry == Rates(work.rule, registry.k, work.target, Max({1, age}), loop.elapsed)

-----------------------------------------------------------------------------
Ended == {"local", "accepted", "refused", "stopped"}

Init ==
  /\ pc = "backend"
  /\ cli \in Flags
  /\ tier \in Requests \cup {None}
  /\ calibrated = FALSE
  /\ registry \in Registries \cup {None}
  /\ work = None
  /\ age = 0
  /\ loop = [next |-> 0, wins |-> <<>>, tried |-> 0, end |-> 0, opened |-> 0, elapsed |-> 0]
  /\ wins = <<>>
  /\ body = <<>>
  /\ checked = 0
  /\ fault = None

Next ==
  \/ ResolveBackend \/ ResolveTier \/ Calibrate
  \/ FetchChallenge \/ FetchFails \/ ChooseLocally
  \/ OpenGrind \/ Attempt \/ NextBatch \/ SearchBatch
  \/ ProveWin \/ Submit \/ CheckWin \/ Commit \/ SubmitFails

\* One thread of the client, then one handler: nothing else runs.
Spec == Init /\ [][Next]_vars /\ WF_vars(Next)

-----------------------------------------------------------------------------
(* Properties.                                                             *)

Stages == {"backend", "tier", "mint", "open", "search", "batch", "prove", "submit", "check"}

Win ==
  [claimed : 0..2 * Ordinals, blob : 0..Ordinals - 1, statement : Statements, setup : Setups,
   proves : [challenge : {"minted", "dev"}, ordinal : 0..Ordinals - 1]]

\* The types of the run.
TypeOK ==
  /\ pc \in Stages \cup Ended
  /\ tier \in Nat \cup {None} /\ calibrated \in BOOLEAN
  /\ age \in 0..Window + 1
  /\ loop.next \in 0..Ordinals /\ loop.end \in 0..Ordinals /\ loop.tried \in Nat
  /\ loop.wins \in Seq(0..Ordinals - 1)
  /\ {wins, body} \subseteq Seq(Win) /\ checked \in 0..Len(body)

\* How many times over a tier misses a request, compared without division.
Nearer(t, u, n) == Max({t, n}) * Min({u, n}) <= Max({u, n}) * Min({t, n})

\* No tier is nearer to the request, as a ratio, than the one granted: rounding
\* by n^2 >= lo * hi after the clamp against the definition of nearest.
GrantIsNearest ==
  pc = "tier" /\ tier # None => \A t \in Tiers : Nearer(Grant(tier), t, tier)

\* A run grinds a target that scores exactly the tier it settled on before it had
\* a challenge, though the registry rounds the request again and inverts the score
\* for itself; only a pinned target or a registry without tiers says otherwise.
GrindsItsTier ==
  /\ work # None
  /\ tier # None
  /\ IF registry = None THEN cli.target = None ELSE registry.speaks = "tiers"
  => Expected(cli.statement, work.target) = tier

\* However fast the backend that grinds, a win of a calibrated run takes it as long
\* to find, on average and to the rounding of tiers, as ProveRatio of its
\* certificates, the first of which is the slowest; only the hardest tier falls
\* short.  The board ranks the grind and not the CPU next to it.
GrindPaysForProof ==
  pc = "prove" /\ calibrated /\ (registry = None \/ registry.speaks = "tiers") =>
    LET expected == Expected(cli.statement, work.target)
        rate     == IF cli.gpu THEN GpuRate ELSE CpuRate
        worth    == rate * ProveRatio * ProveTicks
    IN expected = 2^MaxBit \/ 2 * expected * expected >= worth * worth

\* The wins are all the winners below the next ordinal, ascending, and an attempt
\* is counted for each of those ordinals, whatever the batch size and wherever the
\* winners fall in a batch: the score does not depend on the backend.
SearchesInOrder ==
  work # None =>
    /\ \A i \in 1..Len(loop.wins) - 1 : loop.wins[i] < loop.wins[i + 1]
    /\ Range(loop.wins) = work.winners \cap (0..loop.next - 1)
    /\ loop.tried = loop.next

ProvingTicks ==
  IF cli.statement = "dense" THEN Proving + (Len(wins) - 1) * Reproving
  ELSE Len(wins) * Proving

\* A fraction is at most another.
AtMost(f, g) == f[1] * g[2] <= g[1] * f[2]

\* The window a run is ranked over is its grind, its certificates, the registry's
\* own checks and, on a GPU, the session, to the tick: neither half of the
\* calibration is charged to it.  So the rate the board ranks is a lower bound of
\* the one the grind reports, for the same credited work.
WindowIsTheRun ==
  pc = "accepted" =>
    /\ Entry.verified[2] = (IF cli.gpu THEN Warming ELSE 0) + loop.elapsed + ProvingTicks
                           + Len(body) * Checking
    /\ AtMost(Entry.verified, Entry.reported)
    /\ ~cli.gpu => loop.elapsed = loop.tried

\* An accepted body is k different ordinals of the challenge that win it, each
\* with a certificate: no win counts twice, under whatever name.
AcceptedWinsAreDistinct ==
  pc = "accepted" =>
    LET proven == {body[i].proves : i \in DOMAIN body} IN
    /\ Cardinality(proven) = registry.k
    /\ proven \subseteq [challenge : {"minted"}, ordinal : work.winners]

\* A run of tock's, proved under the registry's own setup, is refused only when
\* its challenge has expired, whatever version the registry is: one that does not
\* know the run's statement, and would verify its wins as another, is found out
\* before anything is ground for it.
HonestRunAccepted ==
  pc = "refused" /\ fault = "none" /\ registry.setup = OwnSetup => age > Window

\* Every run ends: it has its k wins or no ordinal is left.
Terminates == <>(pc \in Ended)
=============================================================================
