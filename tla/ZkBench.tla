------------------------------ MODULE ZkBench ------------------------------
(***************************************************************************)
(* A client of the ZK track, `tock bench --submit` (tock/src/main.rs,      *)
(* bench, over client.rs), together with the registry it benchmarks for.   *)
(* Its threads each prove the indices of their own stride, are joined in   *)
(* whatever order they finish, and their proofs are submitted with the     *)
(* time they took on the client's own, monotonic, clock.                   *)
(*                                                                         *)
(* The client is one of Registry's requests; the others are Registry's.    *)
(***************************************************************************)
EXTENDS Registry

CONSTANTS
  Bench,        \* the request of this client
  ThreadCounts  \* --threads

ASSUME BenchAssumption == Bench \in Requests /\ ThreadCounts \subseteq Nat \ {0}

VARIABLE bench  \* the client

benchVars == <<vars, bench>>

Others == Requests \ {Bench}

\* The indices a thread has proved so far, oldest first: its own number, then a
\* stride further each time.
Proved(b, tid) == [j \in 1..b.made[tid] |-> tid + (j - 1) * b.threads]

\* Mutant: the stride is taken for one thread fewer.
NextIndex_Short(b, tid) == tid + b.made[tid] * Max({1, b.threads - 1})

\* The index a thread proves next.
NextIndex(b, tid) == tid + b.made[tid] * b.threads

-----------------------------------------------------------------------------
(* The client.                                                             *)

\* fetch_challenge, after the kernels have booted: the registry's k overrides the
\* flag, and the clock is running.
Fetch(n) ==
  /\ bench.pc = "boot"
  /\ Mint(n)
  /\ \E threads \in ThreadCounts :
       bench' = [pc |-> "prove", nonce |-> n, k |-> k, issued |-> now, stepped |-> FALSE,
                 threads |-> threads, made |-> [tid \in 0..threads - 1 |-> 0],
                 joined |-> <<>>, running |-> 0..threads - 1]

\* fetch_challenge fails, and bench exits.
NoChallenge ==
  /\ bench.pc = "boot"
  /\ bench' = [bench EXCEPT !.pc = "exited"]
  /\ UNCHANGED vars

\* run_prove
Prove(tid) ==
  /\ bench.pc = "prove"
  /\ tid \in bench.running
  /\ NextIndex(bench, tid) < bench.k
  /\ bench' = [bench EXCEPT !.made[tid] = @ + 1]
  /\ UNCHANGED vars

\* join_next hands over a finished thread's proofs.
Join(tid) ==
  /\ bench.pc = "prove"
  /\ tid \in bench.running
  /\ NextIndex(bench, tid) >= bench.k
  /\ bench' = [bench EXCEPT !.joined = @ \o Proved(bench, tid), !.running = @ \ {tid}]
  /\ UNCHANGED vars

\* Mutant: the proofs are submitted as they were joined.
InOrder_Joined(indices) == indices

\* Where a stable sort puts the entry at i.
Place(indices, i) ==
  Cardinality({j \in DOMAIN indices :
                 indices[j] < indices[i] \/ (indices[j] = indices[i] /\ j <= i)})

\* sort_by_key
InOrder(indices) ==
  [p \in DOMAIN indices |-> indices[CHOOSE i \in DOMAIN indices : Place(indices, i) = p]]

\* check_binding of the proof of one index, submitted at another's place.
Bound(index, place) == IF index = place THEN "good" ELSE "unbound"

Bundle ==
  LET sorted == InOrder(bench.joined) IN
  [p \in DOMAIN sorted |-> Bound(sorted[p], p - 1)]

\* Proving takes a tick at least, and the client's clock ran as long as the
\* registry's unless that one was set.
Measured(elapsed) == bench.stepped \/ elapsed <= now - bench.issued

\* The registry is down, or configured with another K since.
Unsent == ~up \/ Len(Bundle) # k

\* The bundle is sent with the time it took, rounded up.
SubmitRun ==
  /\ bench.pc = "prove"
  /\ bench.running = {}
  /\ \E elapsed \in Elapsed :
       /\ Measured(elapsed)
       /\ \/ /\ Submit(Bench, bench.nonce, elapsed, Bundle)
             /\ bench' = [bench EXCEPT !.pc = "wait"]
          \/ /\ Unsent
             /\ bench' = [bench EXCEPT !.pc = "unsent"]
             /\ UNCHANGED vars

-----------------------------------------------------------------------------
(* The registry, and what the client hears of it.                          *)

\* What explains the registry's refusal when it is given.
Excused ==
  \/ now > bench.issued + Hour
  \/ bench.stepped
  \/ rolled
  \/ \E run \in kernel.runs : run.nonce = bench.nonce

\* The client's handler is done without a run.
Refused == bench' = [bench EXCEPT !.pc = IF Excused THEN "excused" ELSE "rejected"]

Unheard == UNCHANGED bench

HandlerGone == req[Bench] # Idle /\ req'[Bench] = Idle

\* check_binding and the verifier, for the client's proofs or another's.
Handled ==
  /\ Bind(Bench) \/ Verify
  /\ IF HandlerGone THEN Refused ELSE Unheard

\* The kernel's answer arrives, or the connection is gone.
RecordHeard(r) ==
  /\ Record(r)
  /\ IF r # Bench THEN Unheard
     ELSE IF acked' # acked THEN bench' = [bench EXCEPT !.pc = "submitted"]
     ELSE IF kernel' # kernel THEN bench' = [bench EXCEPT !.pc = "failed"]
     ELSE Refused

\* The client gives up after 180 s, or its connection does.
GivesUp ==
  /\ HangUp(Bench)
  /\ bench' = [bench EXCEPT !.pc = "failed"]

Dies ==
  /\ Crash
  /\ bench' = IF bench.pc = "wait" THEN [bench EXCEPT !.pc = "failed"] ELSE bench

Ticks ==
  /\ ClockMoves
  /\ bench' = IF bench.pc \in {"prove", "wait"} /\ now' < now
              THEN [bench EXCEPT !.stepped = TRUE] ELSE bench

OthersMove ==
  /\ \/ \E r \in Others :
          \/ \E n \in Nonces, elapsed \in Elapsed, proofs \in ProofLists :
               Submit(r, n, elapsed, proofs)
          \/ Bind(r)
          \/ HangUp(r)
     \/ Checkpoint
     \/ Boot
  /\ Unheard

BenchInit ==
  /\ Init
  /\ bench = [pc |-> "boot"]

BenchNext ==
  \/ \E n \in Nonces : Fetch(n)
  \/ NoChallenge
  \/ \E tid \in 0..Max(ThreadCounts) - 1 : Prove(tid) \/ Join(tid)
  \/ SubmitRun
  \/ Handled
  \/ \E r \in Requests : RecordHeard(r)
  \/ GivesUp \/ Dies \/ Ticks \/ OthersMove

\* Registry's fairness: nothing is asked of the client.
BenchSpec == BenchInit /\ [][BenchNext]_benchVars /\ Fairness

-----------------------------------------------------------------------------
(* Properties.                                                             *)

\* However the threads are scheduled and joined, proof i sits at index i of the
\* bundle, and there are K of them: none twice, none missing.
ProofsInPlace ==
  bench.pc = "prove" /\ bench.running = {} =>
    InOrder(bench.joined) = [p \in 1..bench.k |-> p - 1]

\* A run of tock's that reaches the registry is refused only when it is late, when
\* the registry's clock was set back, when a death took its challenge, or when its
\* challenge has earned a run already: never for its proofs, their order or the
\* time it claims.
HonestRunKept == bench.pc # "rejected"
=============================================================================
