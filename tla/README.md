# A verification project for nockmark

nockmark is a benchmark board for proof-of-work provers.  A *registry* (Rust
around a Hoon kernel) hands out challenges and credits runs; a command line tool,
*tock*, measures a machine and submits what it proved.  There are two tracks: the
ZK track, whose runs are K STARK proofs, and the AI track, whose runs are k
winning attempts of a matrix-multiplication puzzle, under one of two statements
(`dense`, `canonical-moe`).

This directory holds TLA+ models of the parts of that system whose correctness
depends on order, on failure or on arithmetic at a boundary, the TLC
configurations that check them, and TLAPS proofs of the theorems that matter
most.  `PROJECT.json` is the index: every definition with the source lines it
translates, every run, every property with a mutant of the code that breaks it,
the hazards, and the findings.

    tlc -workers 2 -config AiStore.cfg AiStore.tla      # a run
    tlapm AiStoreProofs.tla                             # the proofs of a component

## 1. Inventory

| Component | State | Operations | Talks to | Where it is hard |
|---|---|---|---|---|
| AI event store (`registry/src/aipow.rs`, `AiStore`) | the file `aipow-track.jsonl`; in memory: pending challenges, used nonces, runs, next id | `load`, `append`, `record_challenge`, `challenge_status`, `commit_run` | called by the AI handlers under one tokio lock | appends are several writes, never synced; an error or a death cuts them; memory is rebuilt from the file |
| AI handlers (`registry/src/http.rs`) | one future a request | `new_challenge`, `submit_ai_run` | kernel (mint), store, verifier context, blocking pool | a submission may first wait for another to build the verifier context; check and commit are seconds apart; the client may hang up at any await; a restart changes the configuration |
| Registry kernel (`hoon/registry.hoon`, `registry/src/kernel.rs`) | challenges, runs, next id; NockApp's checkpoints | `%new-challenge`, `%submit-run`, boot | poked by both tracks under one tokio lock | a death rolls it back to the last checkpoint; its clock and its subtraction |
| ZK handler (`registry/src/http.rs`, `submit_run`; `binding.rs`, `verifier.rs`) | one future a request, and the blocking tasks it leaves behind | bind, verify, K times, then record | one shared verifier behind a lock; the kernel | K suspension points; tasks outlive their handlers |
| Rate limiter (`registry/src/ratelimit.rs`) | a map from client to window start and count | `hit` | in front of both POST routes | the map is bounded by forgetting |
| Verifier contexts (`aipow.rs`, `aipow_moe.rs`, the `OnceCell`s of `http.rs`) | a blob of about 1 GB per statement and pin, its temporary file, a `OnceCell` | `load_or_build`, `build_context_by_proving`, `sweep_stale_contexts` | the file system; AI handlers | two builders, one temporary name; crash in a long write; re-pins |
| Tiers and targets (`tock/src/aipow.rs`, `aipow_moe.rs`; used by both programs) | none | `grant_attempts`, `target_for_attempts`, expected attempts | client and registry each evaluate them | integer rounding, f64 inversion, a factor of 2^16 between statements |
| AI bench and grinds (`tock/src/main.rs`, `aipow.rs`, `aipow_moe.rs`, `aipow_gpu.rs`) | tier, challenge, next ordinal, wins, attempts, certificates | calibrate, mint, `grind`, `grind_moe`, `grind_moe_gpu`, `prove_wins`, `prove_moe_wins`, submit | ai_pow's `OrderedBatchScheduler`; the registry | two loops that must agree; the end of the ordinal space; what the ranked window holds |
| Certificate verification (`aipow.rs`, `aipow_moe.rs`) | the pinned setup | `verify_submission`, `verify_moe_submission` | called by the AI handler on the blocking pool | two orders of checks around one certificate; a claimed ordinal wider than the space |
| ZK bench (`tock/src/main.rs`, `bench`) | proofs by index, one task a thread | prove every index, sort, submit | registry client | partition over threads, order of joins |
| Registry client (`tock/src/client.rs`) | none | fetch and submit, once each | registry | no retry: a lost reply is the user's to resolve; registries of other versions |
| Economics (`registry/src/economics.rs`) | a cached difficulty, `econ-history.jsonl` | `refresh_loop`, `append_history`, `read_history` | an external API; the board | appends like the store's, read while they are written; two chains' tips; thinning |
| Board (`http.rs`: `to_entry`, `to_ai_entry`; `aipow.rs`: `rates`) | none | rows computed from the runs | kernel, store | what a rate may claim |
| Pages, hardware detection, scripts, spike | none that matters here | read-only or operator tooling | | |

How a run comes to be.  A client asks `POST /challenge`; the limiter counts the
request; the kernel mints a 64-bit nonce and keeps it as a ZK challenge; on the AI
track the store records the same nonce with the time and, if the client asked for
a difficulty tier, the tier's target.  The client grinds and proves.  It posts
`/run`; the limiter counts again; the handler verifies everything it was sent; and
only then the kernel (ZK) or the store (AI) decides, under its own lock, whether
the challenge can still be credited.  Every handler is a future that is dropped
when its client disconnects, while blocking tasks it has spawned run on.  A
supervisor restarts the registry when it exits (`railway.json`); each boot sweeps
old contexts, replays the AI store, restores the kernel and reads the instance's
targets from the environment.

What makes each component correct:

- *AI store*: a challenge earns one run, inside its window, under an id of its
  own, through cut appends, deaths and replays; what was acknowledged is on the
  board of every later boot while no append was cut, and a cut append costs one
  event at most; memory is the replay of the file; a registry that dies comes back.
- *AI handlers*: a run is scored under the statement and a target its wins meet; a
  tier once told is honoured; of many submissions of a challenge one is credited;
  every submission is answered.
- *Kernel and ZK handler*: a run was proved K times before the kernel was touched;
  the time it claims fits the registry's clock; what a checkpoint holds is never
  lost; a rollback never lets a challenge be credited twice; every submission is
  answered.
- *Rate limiter*: bounded memory; an allowance per window that trimming does not
  change; advice that is honest.
- *Verifier contexts*: a blob under its final name is whole; what is left of other
  pins was paid for by something that failed; whoever waits for a context is answered.
- *Tiers*: the nearest tier is granted; what is ground scores exactly that tier; the
  tier makes a win cost as much as its certificates, on the backend that grinds.
- *AI bench and verification*: both backends find the same wins after the same
  attempts; nothing is ground that this registry would verify as another statement;
  the ranked window is the run and nothing else; an accepted body is k different winners; an
  honest body is refused only when it is late; every run ends.
- *ZK bench*: proof i is at place i; an honest run is never refused for its proofs or
  its time.
- *Board*: the window a run is ranked over is the true one, and the ranked rate never
  exceeds the reported one.
- *Economics*: with an API key only ZK difficulties reach an estimate or the history,
  and never a zero, with a key or without; a cut append costs at most itself and the
  next observation; what is read was observed, is ordered, evenly thinned and ends with
  the newest point.

## 2. Modules

| Module | Models | Notes |
|---|---|---|
| `Ledger` | what both tracks promise: opened challenges, credited runs, whether storage is intact | the abstract specification |
| `AiStore` | `struct AiStore` over its file | implements `Ledger` |
| `AiStoreProofs` | theorems about `AiStore` | |
| `AiSubmission`, `MCAiSubmission` | the AI handlers over `AiStore` | composes the store with requests and configuration |
| `AiSubmissionProofs` | theorems about `AiSubmission` | extends `AiStoreProofs` |
| `Registry`, `MCRegistry` | kernel, checkpoints, ZK handler, verifier queue, the row of a run | implements `Ledger` |
| `RegistryProofs` | theorems about `Registry` | |
| `ZkBench`, `MCZkBench` | `tock bench --submit` | extends `Registry`: composes a client with the registry |
| `ZkBenchProofs` | theorems about `ZkBench` | extends `RegistryProofs` |
| `RateLimiter`, `MCRateLimiter` | the limiter and its middleware | |
| `RateLimiterProofs` | theorems about `RateLimiter` | |
| `VerifierContext` | blob, temporary file, `OnceCell`, builders, sweep | |
| `VerifierContextProofs` | theorems about `VerifierContext` | |
| `AiTiers` | `grant_attempts`, `target_for_attempts`, `tier_for_prove_ratio`, expected attempts | pure operators, for both programs |
| `AiBench`, `MCAiBench` | `tock ai-bench` and the registry's checks of what it sends | extends `AiTiers` |
| `AiBenchProofs` | theorems about `AiBench` and `AiTiers` | |
| `Economics` | difficulty cache, history file, thinning | |
| `EconomicsProofs` | theorems about `Economics` | |

Operators named `X_Variant` are mutants: `X` as a plausible mistake would have it.
Nothing uses them; each exists to show that a property breaks when the code does
(`PROJECT.json`, "mutants").

### AiStore

The file is `log`, a sequence of lines that end in a newline, and `tail`, an
unterminated last line.  A line is an event or one of two kinds of wreck: `Junk`
(does not parse) and `Garbled` (not UTF-8).  `AppendWhole` is `append` when every
write succeeds; behind a wreck it produces a wreck, because `append` does not look
at what the file ends in.  `AppendTorn` is `append` cut short: the tail is part of
the line, or the whole of it without its newline, which a replay *will* read.  Only
run lines can end in a cut character: only they hold free text.

`RecordChallenge` and `CommitRun` are the two mutating calls, each under the store's
lock and so one step; their `...Fails` twins are the same calls when `append`
returns an error (something, or nothing, was written, and memory is unchanged).
`CrashInAppend` is a death inside `append`, `Crash` one anywhere else.  `Boot`,
`ReplayLine` and `FinishLoad` are `load`: it may die again half way through.  The
clock moves to any value at any time, as `SystemTime` may.

`acked`, `torn` and `crashes` are history: what callers were told, and how much
went wrong.

### AiSubmission

A request is `idle`, `waiting` (past the early check, holding the challenge's target
in a local, without a verifier context), `verifying`, `verified` or `refused`.
Between these steps anything else may happen: other requests, hang-ups, the clock, a
death, a boot with other targets.  `cell` has, per statement, the `OnceCell` of its
verifier context and the queue behind it: the head holds the permit and builds, and
if its build fails (`Unavailable`, 500) or its client hangs up, the next one tries.
The files the build works on are `VerifierContext`'s.

Targets are numbers, the smaller the harder, and a certificate passes at the target
its wins were ground at and at every easier one, under its own statement only, as
long as that target `Scales`: canonical-MoE multiplies it by F, and refuses it when
the product leaves 256 bits.  `Askable` are the tiers a client of a statement can be
told, which all scale.  `told` and `proved` are history: the statement and target a
client that asked for a tier was given, and what the accepted certificates prove.

The kernel's part in an AI challenge is `minted`: it never mints a nonce twice.  A
nonce is 64 bits of entropy and `~(put by challenges)` would overwrite a challenge
on a collision; we take collisions not to happen.

### Registry

`kernel` is the Hoon state, `saved` its last checkpoint, and a death sets one to the
other.  A submission is `binding` (between proofs), `verifying` (its blocking task
holds or waits for the verifier) or `recording` (about to poke).  `queue` is the
verifier's lock: tokio's is fair, so a task is served in the order it asked.
`HangUp` drops the handler and leaves its task in the queue as an `Orphan`.  What
binding and verification decide about a proof is its kind: good, unbound or
invalid.  `Accepts` is the conjunction of `%submit-run`'s checks; what they refuse
leaves the kernel as it is, and so do the crash of `sub` when the clock is behind
the mint and the panic of `D(elapsed_ms)`.

### RateLimiter

One step per request, as `hit` holds a mutex throughout: trim, wipe, count, decide.
Time is in ticks, `Second` ticks to a second, so that the fraction `as_secs` cuts
off exists.  `grants`, `wipes` and `advised` are history; the first two are logs, sets
of a tick and a number, so that what happened in a span can be counted.

### VerifierContext

File names (`blob`, `tmp`, one of each per pin) point to inodes, and `content` says
which chunks an inode holds, so that a write through an open file reaches the inode
whatever its name has become.  `Start` and `HangUp` are the `OnceCell`; `Load`,
`Prove`, `Create`, `WriteChunk` and `Rename` are a builder; `Boot` is the sweep of a
build with some pin, which may fail on any file.  `fails` and `spilt` are history: proofs
and writes that failed, and removals that failed or writes a death cut.  The dense and the MoE statement have the same two functions
over different names and do not interact: one is modelled.

### ZkBench

A client of `Registry`: it takes one of the requests and leaves the others to
`OthersMove`.  `bench` is its state: per thread how many proofs it has made, the
indices joined so far, and when its challenge was issued.  A proof is its index,
and `InOrder` is the stable sort of the bundle, each proof put where its rank says;
`Bound` is what `check_binding` says of it at a place of the bundle.  The time it
claims is at least a tick, and no more than the registry's clock has advanced
unless that clock was set, which is what rounding up to a millisecond is taken to leave
(the millisecond itself is below the model's tick: assumed, not checked).  Its
`pc` ends as what it heard: `submitted`; `failed`, when the exchange broke;
`unsent`, when the registry was down or had another K; `excused`, when there is a
reason to refuse; `rejected`, when there is none; `exited`, without a challenge.

### AiTiers and AiBench

`Grant`, `Expected`, `TargetFor` and `TierFor` are the arithmetic, over powers of
two, with the one effect of f64 that the code relies on (the `+ 1` is lost once the
threshold fills the mantissa).

`AiBench` is one run: `ResolveBackend`, then `ResolveTier` or `Calibrate`, then a
challenge from a registry of one of three versions (`Answer`) or a local one, then
the search, the certificates and the submission.  `Attempt` is a turn of `grind`
and of `grind_moe`; `NextBatch` and `SearchBatch` are a turn of `grind_moe_gpu` with
ai_pow's scheduler, modelled from its use.  A challenge decides which ordinals win:
any set of them.  `age` is the registry's clock since the mint; every piece of work
takes its ticks (`Takes`), so that what the window holds can be compared with what
was done.  `Body` is what arrives: what tock sends, or one of seven bodies that are
wrong in one way each.  `Submit`, `CheckWin` and `Commit` are `submit_ai_run`;
`DenseVerifies` and `MoeVerifies` are the two verifiers with their own order of
checks.  A certificate carries the statement it was proved under; the registry
verifies by the one it minted the challenge for: the one the client names, if it knows
statements, and dense, if it does not.  `Entry` is the row of an accepted run, its rates as fractions.

### Economics

`Poll` is a tick of `refresh_loop`: the cache, and then an append that is `WriteSome`,
`WriteRest`, `WriteNewline`, with deaths and errors between them.  A torn line swallows
the observation written behind it.  `Replies` is what the source may say: asked
without a key, any number and nothing of its tip, which after the `Fork` (Logos, at any
time) may be an AI block's; asked with a key, the tip and, since the fork, its kind.  `Observed` is
what the code lets through of that.  A point's `keyed` is history (whether a key was
set when it was taken) and not in the file; `observed` and `acked` are the points taken
and those written.  `Points` is what `read_history` parses at any moment (a recursive
function over the lines, one line at a time, as the code reads), `Positions` its
thinning: a set, as a truncated f64 product may fall one short wherever the exact
product is whole.

## 3. Runs

| Run | Question | Bounds, and why they are enough |
|---|---|---|
| `ai_store` | single credit, durability, bounded loss, replay, window, recovery, refinement of `Ledger` | two nonces, three lines, two cut appends, two deaths: a remnant can be glued, replayed and glued again after a restart; the clock has a tick inside and one outside the window |
| `ai_store_torn`, `ai_store_garbled` | two claims of the source's comments | the same |
| `ai_submission` | races of submissions over one challenge, the wait for the verifier context | two requests, so that one waits behind the other's build, inherits it or is overtaken; one challenge, a tier with a harder and an easier target configured around it, both statements, the easiest target beyond what canonical-MoE can scale; one death; appends succeed or write nothing, since `ai_store` cuts them |
| `registry_ledger` | refinement of `Ledger` and single credit | two challenges, so that ids and rollbacks of one can disturb the other; K of 1 |
| `zk_bench` | proofs in place, honest runs, proof loop, verifier queue, checkpoints, the board's window, answers | two requests, one of them the client's with two threads; K of 1 (a thread idles) and 3 (the strides interleave), changed by a restart; bundles that pass and fail at each stage; an hour of one tick on a clock of three, so that a run can be late and the clock step back; one orphan, one death |
| `rate_limiter` | bounded map, allowance, advice | three clients on a cap of one: every other request trims or wipes; the clock sees a window end and the next pass its middle; clients are symmetric and no liveness is checked |
| `rate_limiter_spray` | a claim of a comment | a standing clock and four wipes |
| `verifier_context` | whole blobs, what is left of other pins, release of the cell | two builders, two pins, two chunks, one failure, two deaths |
| `verifier_context_torn` | a claim of a comment | the same, smaller |
| `ai_bench` | tiers, search, window, the checks of the body, termination | tiers 2^2..2^5 and every request to 40; four ordinals with any of them winning, batches of one and three, k of one and three: a winner at every place of a batch and at the last ordinal; a GPU five times as fast as the CPU; a pinned target that scales and one that does not; registries of three versions, which verify by what they know, and two pinned setups; a window of 12 ticks, which a slow run misses before it submits or while it is checked |
| `economics` | provenance, loss, order and thinning of the history | five observations in the file before the first boot and three more: eight points thin to 1, 2, 5 and 7, steps of n/4 and n/6 that are fractions with whole multiples among them, so that a product may be rounded down; a cut at every write; the fork at any time, a key set and unset by a restart; a clock of two instants, which may step back; one death |

`CHECK_DEADLOCK FALSE` is given where the system may stop: a finished benchmark,
the end of the limiter's bounded requests, the end of the bounded deaths of
`verifier_context`.

The runs check one type invariant, `AiStore`'s; the types of the others are proved,
as a theorem of their own (`Registry`, `VerifierContext`) or as the first part of
the inductive invariant.

What they show, beyond that the properties hold:

- *A torn write costs the event behind it* (`ai_store_torn`), not itself.  The event
  cut was never acknowledged; the next one was.  `LossBounded` is the bound that
  does hold.
- *A write cut in a multi-byte character stops every boot* (`ai_store_garbled`).
  `Recovers` therefore excepts exactly that case.
- *Temporary files are never swept* (`verifier_context`).  The sweep removes `.bin` files
  of other pins, which `aipow.rs:648-653` calls all that stands between the volume and a
  full disk; a `.bin.tmp` that a failed or killed build left stays for good.
  `LeftoversPaid` is the bound that does hold: one such file at most for each event.
- *Canonical-MoE refuses some targets whatever is sent* (`ai_submission`): those whose
  product with F overflows.  A tier told for canonical-MoE scales, as it is found by that
  statement's score; a tier told for dense and submitted as canonical-MoE may be
  refused, and `TierHonoured` promises nothing there but the target of its score.
- *Without a key an instance is at its source's mercy* (`economics`): after the fork the
  plain GET says nothing of its tip, and an AI difficulty passes for a ZK one.
  `DifficultyIsZk` therefore speaks of keyed instances, and of keyed points of a
  history that processes with and without a key have shared.
- *A comment's bound on the limiter is too small* (`rate_limiter_spray`): each wipe
  adds an allowance, and nothing bounds the wipes of a window.
- *Write-then-rename is not enough with two builders* (`verifier_context_torn`).
  `PublishedWhole` holds as long as no client hung up on a build, and
  `MendedAtRest` says that overlapping builders that all finish leave a whole blob.
- *The kernel's one comparison carries the board* (`zk_bench`).  `elapsed <= window`
  with `elapsed > 0` makes the saturation of `da_diff_to_ms` and the floor of
  `to_entry` unreachable, and `sub` crashing on a clock set back is what keeps such
  a run off the board.  The AI store has no such check, and its window may come out
  as 1 ms; section 6.
- *Nothing of the calibration is in the ranked window* (`ai_bench`), and the rest is
  there to the tick: session, grind, certificates, the registry's own checks.
- *Strict ascent and the range check together make wins distinct* (`ai_bench`):
  whichever of the bodies arrives, what is accepted is k different winners; for
  canonical-MoE, `wrapped` is stopped by the range check alone.

## 4. Fairness

- `AiStore`: weak fairness of `Boot`, `ReplayLine`, `FinishLoad`.  The supervisor
  restarts the process (`railway.json`, restart policy), and `load` is a loop
  without waits.  No fairness of requests, failures or the clock.
- `AiSubmission`: weak fairness of `Verify` and `Commit` of each request, and for each
  statement of the end of whatever build is under way (`ContextReady` or
  `Unavailable` of some request): tokio polls every woken task, the blocking pool runs
  every closure, the permit passes on in the order it was asked for, and the store's
  lock is never held across an await.  Nothing is assumed of who builds, of whether a
  build succeeds, or of which clients stay.
- `Registry`: weak fairness of `Bind`, `Record` and of the verifier.  A task that
  waits for the verifier is served in turn because tokio's mutex is fair; weak
  fairness of `Verify` says only that whichever holds it finishes.
- `VerifierContext`: weak fairness of a builder's steps: a blocking task is not
  cancelled and runs to its end.
- `ZkBench`: `Registry`'s, and nothing is asked of the client: a submission is answered
  whether or not anybody proves on.
- `AiBench`: weak fairness of the next step: one thread of the client, then one
  handler, each a loop without waits.  `Terminates` needs the end of the ordinals.
- `Economics`: none; it has no liveness property.

## 5. Proofs

Every invariant, action property and refinement that a passing run checks is also a
theorem, for every value of the constants.  `PROJECT.json` lists them; here is how
each module's are argued.  An inductive invariant is always a conjunction of named
parts, one per concern, and each action has a lemma or a step of its own.

**`AiStoreProofs`**: `TypeCorrect`, `CreditedOnce`, `WindowKept`, `NothingLost`,
`MemoryReplayed`, `LossesAreCuts`, `StoreIsALedger`.

`OneRunPerNonce` is not inductive: it speaks of the board in memory, which a crash
empties and a replay refills from the file, so what must be known is that the *file*
never holds two runs that clash.  `IndInv` says that no two run lines of the file
share a nonce or an id, that in a serving store every closed run line is on the
board (so `used` covers it), that a run line left whole in the tail by a cut append
is the only one that may be missing there and dies as soon as anything is appended
behind it, and that a replay under way agrees with the prefix it has read.  The case
that makes it delicate is the cut append that left everything but the newline:
memory does not know the run, the file does, and the same nonce may be committed
again; the commit is then glued to the remnant and neither survives, or the remnant
is replayed and the nonce is used.

`ReplayInv` adds that a process which does not run remembers nothing.  `LossInv`
counts a remnant in the tail as a loss already owed, since the next append will be
glued to it; without that the append that loses an event would have no cut to pay
for it.  `StoreIsALedger` maps the ledger to what is readable from the file and the
board, and takes the steps of the store one by one to a step of `Ledger` or none.

**`AiSubmissionProofs`**: `StoreDriven`, `LabelledAsVerified`, `TierKept`,
`AnsweredOnce`.  `StoreDriven` is `SubSpec => Spec`: whatever the handlers do, the
store only takes steps of its own specification, so all of `AiStoreProofs` holds
under them.  `SubInv` then speaks of every line the store holds anywhere, in memory,
closed, or in the unterminated tail that a death would replay, and of every handler:
each agrees with what the client of a tier was told, and names terms some accepted
certificate proves.  A refusal of an honest client would need a told tier that does
not scale under its statement, or wins easier than it; the first cannot be told.  The tail has to be in it, or a cut commit could come back under
another configuration with nothing known of it.

**`RegistryProofs`**: `TypeCorrect`, `ProvedKTimes`, `CreditedOnce`, `TimeFits`,
`NothingLost`, `KernelIsALedger`.  `HandlersInv` and `QueueInv` say that a task with
a handler is that handler's only one, and that the handler waits for exactly it;
`LoopInv` that the proofs a handler has left behind were verified.  `KernelInv` is
the kernel's own book-keeping (a run has its used challenge, an id below the next,
its window and its K proofs) and is required of the checkpoint as well: a death
makes the checkpoint the kernel, and a property of the live kernel alone does not
survive that.  That is where single credit over a rollback comes from: what a death
undoes, it undoes together with the used flag.  `DurableInv` puts the two kernels side
by side, and adds that the live one has every run of the checkpoint.

**`ZkBenchProofs`**: `BundleInPlace`, `HonestRunIsKept`, `BenchKeepsBoard`.  The
strides of t threads partition the indices (`IndexIsOne`, `IndexCovers`); `StrideInv`
says that what was joined is exactly the strides that no longer run; and a sequence
that holds 0..K-1 once each, in whatever order, sorts to the identity
(`ShuffledSorts`).  `UsedInv` (a used challenge has earned a run), `OwnsInv` and
`WaitsInv` (what the client and its handler know of one another) leave an honest run
no reason to be refused but those it is told.

**`RateLimiterProofs`**: `MemoryStaysBounded`, by cardinalities of the survivors of a
trim; `RetryAdvised`; `AllowanceHolds`.  The last needs an invariant for each key
and span: an entry made before the span accounts for all that was let through in it,
one made in it for all but what one earlier entry, and one for each wipe, let through.

**`VerifierContextProofs`**: `TypeCorrect`, `WholeUnlessAbandoned`, `Mended`,
`LeftoversArePaid`.  `NamesApart` and `WritersOwn` keep the files of different pins apart.
`AloneInv` is the case without hang-ups: one builder works, the cell's holder, and
the temporary file is what it has written.  `MendInv` is the case with them, and
needs a witness: a file that is not whole has a writer that has written all that
comes before its own offset, the last one to truncate it, and will write the rest.
`LeftInv` is the bound on what other pins leave behind.  It counts the current pin's
temporary file too, as soon as nobody writes it: the next deployment makes it a
leftover without anything going wrong at that moment.

**`AiBenchProofs`**: `NearestGranted`, `TierGround`, `GrindPays`, `SearchOrdered`,
`WindowCounts`, `WinsDistinct`, `HonestAccepted`.  Tiers are powers of two, which the provers do not know.  2^n is shown to be a natural and to double,
from its being the number of subsets of 1..n, and induction over numbers is the
well-founded minimum of the counterexamples.  The run's invariant has a part for what was settled
before the mint (`QuoteInv`), what is ground (`WorkInv`), what the search has found
(`SearchInv`: the winners below the next ordinal, all of them, in order), the
certificates (`CertInv`), the registry's checks (`BodyInv`) and the clock
(`TimeInv`: within the window, the age of the challenge is the sum of the work done
since its mint).

**`EconomicsProofs`**: `ZkOnly`, `LossIsBounded`, `AnsweredInOrder`, `EvenlyThinned`.
`TypeInv` says what a line may be, `SeenInv` that what was written, closed or not, was
observed, `OrderInv` that observations are numbered and,
while the clock does not step back, timed in the order of the file, `LossInv` that a
torn line is a debt of one observation.  That the recursive function `Points` is
defined at all is proved by hand, as the library's theorem takes an operator.

*Assumptions.*  The named `ASSUME`s of the modules, which TLC evaluates on every run:
bounds are naturals; marks (`Untiered`, `None`, `Orphan`, `Nothing`, `Part`) are none
of the values they stand beside; clients, builders and pins are finite sets; targets
and K's are numbers of the ranges the code parses; tiers leave room below 2^256 for
the scale and the mantissa; factors of statements are positive; a ZK difficulty is not an AI difficulty, which is what
the two chains' scales amount to; a certificate that reuses the prover cache takes
no longer than the first.  There is no other.

*Model-checked only.*  Liveness under fairness, which TLAPS does not prove: `Recovers`
(`AiStore`), `Answered` (`AiSubmission`, and `Registry` in `zk_bench`),
`CellIsReleased` (`VerifierContext`) and `Terminates` (`AiBench`).  And the four
violations, which are counterexamples.

Some definitions have the form they have because the provers do not know the library's
folds, `SelectSeq` or `SortSeq`: a recursive function over the lines (`Economics`), a rank
instead of a sort (`ZkBench`), counts of logged events (`RateLimiter`).

## 6. Not modelled, and why

- Loss of power.  Nothing is ever synced, so an operating system crash can lose or
  reorder anything since the last writeback; the models take the process to die and
  the operating system to live.
- The cryptography: whether a proof or certificate is sound is its kind, or the
  target it meets.
- Sorting and lookups of the board, pages, hardware detection, wire formats, rounding
  of displayed rates, limits on the lengths of strings and blobs, scripts.
- A registry clock set back during an AI run.  `to_ai_entry` saturates the window at
  zero and floors it at a millisecond, so such a run would be ranked far too high;
  `AiStore` lets the clock step back, `AiBench` (which computes the row) does not.
- Local runs of `tock bench` and the single-proof commands `prove` and `verify`: they
  submit nothing.
- The time it takes to build a verifier context inside a submission's 180 s; a
  submission that exceeds them is `SubmitFails` (`AiBench`) or `HangUp`.
- Collisions of nonces (section 2).
- NockApp's event log, ai_pow's scheduler, tokio's primitives and the file system are
  external and modelled by what the code relies on.

## 7. Plan

Done, in this order: `Ledger` and `AiStore`; `AiSubmission`; `Registry`; `RateLimiter`;
`VerifierContext`; `AiTiers` and `AiBench`, now the whole of a benchmark; `ZkBench`
over `Registry`; `Economics`; then the proofs of each.

What is left:

1. The two tracks on one nonce: a nonce minted for the AI track is a ZK challenge too,
   and each track may credit it once.  A module would compose `AiStore` with `Registry`
   over one `minted`, and say that neither track's credit opens or blocks the other's.
2. A clock set back during an AI run (section 6), together with the row it yields.
3. Shorter proofs where a lemma about the store's lines or a handler's record would
   serve several of the steps that now repeat it.
