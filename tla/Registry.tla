------------------------------ MODULE Registry ------------------------------
(***************************************************************************)
(* The ZK track: the registry kernel (hoon/registry.hoon, behind           *)
(* registry/src/kernel.rs) and the handler that feeds it                   *)
(* (registry/src/http.rs, submit_run).  A submission's proofs are checked  *)
(* one at a time on the blocking pool, every task queueing for the one     *)
(* verifier; only then is the kernel poked, under the kernel's own lock.   *)
(* A client that hangs up drops its handler but not the task it spawned,   *)
(* which goes on to take the verifier and keep it for a proof.             *)
(*                                                                         *)
(* The kernel persists by checkpoints that NockApp takes in its own time:  *)
(* a death loses what was poked since the last one.                        *)
(***************************************************************************)
EXTENDS Integers, Sequences, SequencesExt, FiniteSets, FiniteSetsExt

CONSTANTS
  Nonces,      \* 64-bit nonces; the entropy never repeats one
  Requests,    \* submissions in flight at once
  ProofLists,  \* what clients send: lists over ProofKinds
  Elapsed,     \* the elapsed_ms clients claim
  Ks,          \* the K an operator may configure
  Hour,        \* ~h1
  MaxClock,    \* bound: the clock stays within 0..MaxClock
  MaxOrphans,  \* bound: queued tasks whose handler is gone
  MaxCrashes   \* bound: deaths of the process

\* A proof that passes binding and verification, one bound to another challenge,
\* index or length, and one the STARK verifier rejects.
ProofKinds == {"good", "unbound", "invalid"}

\* A task whose handler is gone.
Orphan == "orphan"

ASSUME ClientAssumption ==
  ProofLists \subseteq Seq(ProofKinds) /\ Elapsed \subseteq Nat /\ Ks \subseteq Nat \ {0}
ASSUME HandlerAssumption == Orphan \notin Requests
ASSUME BoundsAssumption ==
  Hour \in Nat /\ MaxClock \in Nat /\ MaxOrphans \in Nat /\ MaxCrashes \in Nat

VARIABLES
  kernel,   \* registry-state
  saved,    \* the kernel as of the last checkpoint
  up,       \* the process is serving
  k,        \* AppState.k, fixed by the environment at boot
  now,      \* the clock, which may also step back
  req,      \* the submission handlers
  queue,    \* tasks that hold (the head) or wait for the verifier's lock
  minted,   \* history: nonces minted
  proved,   \* history: <<nonce, index>> of the proofs that verified
  acked,    \* history: runs whose submitter was answered 200
  rolled,   \* history: a death undid some poke
  crashes   \* history: deaths of the process

handlers == <<req, queue, proved>>
durable  == <<kernel, saved>>
vars     == <<durable, up, k, now, handlers, minted, acked, rolled, crashes>>

Idle == [pc |-> "idle"]

-----------------------------------------------------------------------------
(* The kernel.                                                             *)

EmptyKernel == [challenges |-> {}, runs |-> {}, nextId |-> 1]

\* %new-challenge
Opened(n) ==
  [kernel EXCEPT !.challenges = @ \cup {[nonce |-> n, issued |-> now, used |-> FALSE]}]

\* Mutant: used? is not asked.
Accepts_Used(n, elapsed) ==
  \E c \in kernel.challenges :
    /\ c.nonce = n
    /\ now <= c.issued + Hour
    /\ now >= c.issued
    /\ elapsed <= now - c.issued

\* Mutant: the claimed time is held against the hour, not against the clock.
Accepts_AnyElapsed(n, elapsed) ==
  \E c \in kernel.challenges :
    /\ c.nonce = n /\ ~c.used
    /\ now <= c.issued + Hour
    /\ elapsed <= Hour

\* %submit-run records.  Otherwise it rejects (unknown, used, stale, elapsed
\* exceeds window), crashes in `sub` when the clock is behind the mint, or is
\* never poked, D(elapsed_ms) panicking above 2^63 - 1: the kernel stays put.
Accepts(n, elapsed) ==
  \E c \in kernel.challenges :
    /\ c.nonce = n /\ ~c.used
    /\ now <= c.issued + Hour
    /\ now >= c.issued
    /\ elapsed <= now - c.issued

ChallengeOf(n) == CHOOSE c \in kernel.challenges : c.nonce = n

RunOf(n, elapsed) ==
  [id |-> kernel.nextId, nonce |-> n, k |-> k, elapsed |-> elapsed,
   issued |-> ChallengeOf(n).issued, submitted |-> now]

Recorded(n, elapsed) ==
  LET c == ChallengeOf(n) IN
  [challenges |-> (kernel.challenges \ {c}) \cup {[c EXCEPT !.used = TRUE]},
   runs |-> kernel.runs \cup {RunOf(n, elapsed)},
   nextId |-> kernel.nextId + 1]

-----------------------------------------------------------------------------
(* new_challenge                                                           *)

\* mint_challenge; whether the answer arrives changes nothing here.
Mint(n) ==
  /\ up
  /\ n \notin minted
  /\ kernel' = Opened(n)
  /\ minted' = minted \cup {n}
  /\ UNCHANGED <<saved, up, k, now, handlers, acked, rolled, crashes>>

-----------------------------------------------------------------------------
(* submit_run                                                              *)

\* The body passes the checks that need no proof.  (What they refuse changes
\* nothing.)
Submit(r, n, elapsed, proofs) ==
  /\ up
  /\ req[r] = Idle
  /\ elapsed # 0
  /\ Len(proofs) = k
  /\ req' = [req EXCEPT ![r] = [pc |-> "binding", at |-> 1, nonce |-> n,
                                elapsed |-> elapsed, proofs |-> proofs]]
  /\ UNCHANGED <<durable, up, k, now, queue, minted, proved, acked, rolled, crashes>>

ProofOf(q) == q.proofs[q.at]

\* check_binding, then spawn_blocking: the task queues for the verifier.
Bind(r) ==
  /\ req[r].pc = "binding"
  /\ \/ /\ ProofOf(req[r]) = "unbound"
        /\ req' = [req EXCEPT ![r] = Idle]
        /\ UNCHANGED queue
     \/ /\ ProofOf(req[r]) # "unbound"
        /\ req' = [req EXCEPT ![r].pc = "verifying"]
        /\ queue' = Append(queue, r)
  /\ UNCHANGED <<durable, up, k, now, minted, proved, acked, rolled, crashes>>

\* Mutant: the loop stops a proof early.
AfterProof_Early(q) ==
  IF q.at + 1 >= Len(q.proofs) THEN [q EXCEPT !.pc = "recording"]
  ELSE [q EXCEPT !.pc = "binding", !.at = @ + 1]

\* The loop over the proofs goes on, or is done.
AfterProof(q) ==
  IF q.at = Len(q.proofs) THEN [q EXCEPT !.pc = "recording"]
  ELSE [q EXCEPT !.pc = "binding", !.at = @ + 1]

\* Mutant: the newest task is served first.
Served_Newest == Len(queue)

\* The lock is fair: it goes to the task that asked first.
Served == 1

\* The verifier is done with the proof of the task that holds it.
Verify ==
  /\ queue # <<>>
  /\ queue' = RemoveAt(queue, Served)
  /\ LET r == queue[Served] IN
       \/ /\ r = Orphan
          /\ UNCHANGED <<req, proved>>
       \/ /\ r # Orphan
          /\ ProofOf(req[r]) = "good"
          /\ req' = [req EXCEPT ![r] = AfterProof(@)]
          /\ proved' = proved \cup {<<req[r].nonce, req[r].at>>}
       \/ /\ r # Orphan
          /\ ProofOf(req[r]) # "good"
          /\ req' = [req EXCEPT ![r] = Idle]
          /\ UNCHANGED proved
  /\ UNCHANGED <<durable, up, k, now, minted, acked, rolled, crashes>>

\* The kernel is poked and the answer is what its effect says.
Record(r) ==
  /\ req[r].pc = "recording"
  /\ LET n == req[r].nonce
         elapsed == req[r].elapsed
     IN \/ /\ Accepts(n, elapsed)
           /\ kernel' = Recorded(n, elapsed)
           /\ \/ acked' = acked \cup {RunOf(n, elapsed)}
              \/ UNCHANGED acked   \* the client hung up during the poke
        \/ /\ ~Accepts(n, elapsed)
           /\ UNCHANGED <<kernel, acked>>
  /\ req' = [req EXCEPT ![r] = Idle]
  /\ UNCHANGED <<saved, up, k, now, queue, minted, proved, rolled, crashes>>

Orphans == {i \in DOMAIN queue : queue[i] = Orphan}

\* The client disconnects and the handler's future is dropped; its task is not.
HangUp(r) ==
  /\ req[r] # Idle
  /\ Cardinality(Orphans) < MaxOrphans
  /\ req' = [req EXCEPT ![r] = Idle]
  /\ queue' = [i \in DOMAIN queue |-> IF queue[i] = r THEN Orphan ELSE queue[i]]
  /\ UNCHANGED <<durable, up, k, now, minted, proved, acked, rolled, crashes>>

-----------------------------------------------------------------------------
(* Checkpoints, death and boot.                                            *)

Checkpoint ==
  /\ up
  /\ saved' = kernel
  /\ UNCHANGED <<kernel, up, k, now, handlers, minted, acked, rolled, crashes>>

\* Mutant: the kernel boots in a directory of its own.
Restored_Fresh == EmptyKernel

\* Mutant: ... or finds the board there and not the counter.
Restored_NoCounter == [saved EXCEPT !.nextId = 1]

\* boot::setup over an existing data directory.
Restored == saved

Crash ==
  /\ up
  /\ crashes < MaxCrashes
  /\ up' = FALSE
  /\ kernel' = Restored
  /\ req' = [r \in Requests |-> Idle]
  /\ queue' = <<>>
  /\ rolled' = (rolled \/ kernel # saved)
  /\ crashes' = crashes + 1
  /\ UNCHANGED <<saved, k, now, minted, proved, acked>>

\* k_from_env is read again.
Boot ==
  /\ ~up
  /\ up' = TRUE
  /\ k' \in Ks
  /\ UNCHANGED <<durable, now, handlers, minted, acked, rolled, crashes>>

ClockMoves ==
  /\ now' \in 0..MaxClock
  /\ UNCHANGED <<durable, up, k, handlers, minted, acked, rolled, crashes>>

-----------------------------------------------------------------------------
(* The board.                                                              *)

\* leaderboard peeks the kernel.
Board == kernel.runs

\* da_diff_to_ms
DaDiff(issued, submitted) == Max({0, submitted - issued})

\* The window of to_entry, which a run's K proofs are ranked over.
ServerWindow(run) == Max({1, DaDiff(run.issued, run.submitted)})

-----------------------------------------------------------------------------
Init ==
  /\ kernel = EmptyKernel
  /\ saved = EmptyKernel
  /\ up = TRUE
  /\ k \in Ks
  /\ now = 0
  /\ req = [r \in Requests |-> Idle]
  /\ queue = <<>>
  /\ minted = {}
  /\ proved = {}
  /\ acked = {}
  /\ rolled = FALSE
  /\ crashes = 0

Next ==
  \/ \E n \in Nonces : Mint(n)
  \/ \E r \in Requests :
       \/ \E n \in Nonces, elapsed \in Elapsed, proofs \in ProofLists :
            Submit(r, n, elapsed, proofs)
       \/ Bind(r)
       \/ Record(r)
       \/ HangUp(r)
  \/ Verify
  \/ Checkpoint
  \/ Crash
  \/ Boot
  \/ ClockMoves

\* tokio polls every handler and the blocking pool finishes every task.
Fairness == WF_vars(Verify) /\ \A r \in Requests : WF_vars(Bind(r)) /\ WF_vars(Record(r))

Spec == Init /\ [][Next]_vars /\ Fairness

-----------------------------------------------------------------------------
(* Properties.                                                             *)

Challenge == [nonce : Nonces, issued : Nat, used : BOOLEAN]

Run ==
  [id : Nat \ {0}, nonce : Nonces, k : Ks, elapsed : Elapsed, issued : Nat, submitted : Nat]

KernelState ==
  [challenges : SUBSET Challenge, runs : SUBSET Run, nextId : Nat \ {0}]

\* The types of the kernel, the handlers and the verifier's queue.
TypeOK ==
  /\ {kernel, saved} \subseteq KernelState
  /\ k \in Ks /\ now \in 0..MaxClock
  /\ \A r \in Requests : req[r] = Idle \/ req[r].at \in 1..k
  /\ queue \in Seq(Requests \cup {Orphan})

\* Every run was proved K times over: each of the K indices it is scored for
\* had a proof bound to its challenge verified before the kernel was touched.
RunsAreProved ==
  \A run \in kernel.runs \cup saved.runs : \A i \in 1..run.k : <<run.nonce, i>> \in proved

\* A challenge earns one run, however many submissions of it verified at the
\* same time and whatever a death undid.
OneRunPerNonce ==
  \A r, s \in kernel.runs : r.nonce = s.nonce \/ r.id = s.id => r = s

\* The time a run claims fits between its mint and its submission on the
\* registry's clock, even one that stepped back: the rate the board ranks is at
\* most the one the run reports, and it is the true one, neither the saturation
\* nor the floor of the window ever having been needed.
ElapsedFits ==
  \A run \in Board :
    /\ run.elapsed <= ServerWindow(run)
    /\ ServerWindow(run) = run.submitted - run.issued

\* What a checkpoint holds is never lost, and a registry that died only at
\* checkpoints has lost nothing at all.
CheckpointsSurvive ==
  /\ saved.runs \subseteq kernel.runs
  /\ ~rolled => acked \subseteq kernel.runs

\* A submission is answered, or its client hangs up, or the registry dies: the
\* tasks of clients that hung up delay it by a proof each and no more.
Answered == \A r \in Requests : req[r] # Idle ~> req[r] = Idle

\* The ledger this kernel implements.
L == INSTANCE Ledger WITH
       opened <- {[nonce |-> c.nonce, issued |-> c.issued] : c \in kernel.challenges},
       credited <- {[id |-> r.id, nonce |-> r.nonce, issued |-> r.issued,
                     submitted |-> r.submitted] : r \in kernel.runs},
       intact <- ~rolled,
       LedgerWindow <- Hour

\* A rolled back kernel loses challenges and runs together, and never credits
\* what the ledger would not.
ImplementsLedger == L!LedgerSpec
=============================================================================
