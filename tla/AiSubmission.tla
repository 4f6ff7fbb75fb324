---------------------------- MODULE AiSubmission ----------------------------
(***************************************************************************)
(* The AI track's two handlers over the store (registry/src/http.rs,       *)
(* new_challenge and submit_ai_run).  A submission reads the challenge     *)
(* under the store's lock, gives the lock up, verifies every win on the    *)
(* blocking pool for seconds, and takes the lock again to commit; between  *)
(* the two the client may hang up, the challenge may expire or be consumed *)
(* by another submission, and the registry may die and come back           *)
(* configured with other targets.  Before it can verify, a submission      *)
(* waits for the verifier context of its statement behind those that came  *)
(* before it: one of them builds it, and may fail or hang up.              *)
(***************************************************************************)
EXTENDS AiStore

CONSTANTS
  Requests,         \* submissions in flight at once
  Statements,       \* dense, canonical-moe
  InstanceTargets,  \* what NOCKMARK_AI_TARGET and NOCKMARK_AI_MOE_TARGET may hold
  Factor,           \* what a statement multiplies a target by: dense 1, canonical-moe F
  MaxHash           \* the largest jackpot, 2^256 - 1

Targets == Tiers \cup InstanceTargets

\* Thresholds: the smaller, the harder.
ASSUME TargetAssumption == Targets \subseteq Nat
ASSUME TermsAssumption == Terms = [statement : Statements, target : Targets]
ASSUME ScaleAssumption == Factor \in [Statements -> Nat \ {0}] /\ MaxHash \in Nat

VARIABLES
  minted,   \* nonces the kernel has minted: 64 random bits, never twice
  config,   \* the instance's targets, read from the environment at boot
  req,      \* the submission handlers
  cell,     \* per statement: is its verifier context there, and who waits for it
  told,     \* history: what the clients that asked for a tier were answered
  proved    \* history: what the certificates the verifier accepted prove

handlers == <<minted, config, req, cell, told, proved>>
allVars  == <<vars, handlers>>

Idle == [pc |-> "idle"]

\* A OnceCell at boot.  The head of its queue holds the permit and builds.
EmptyCell == [ready |-> FALSE, queue |-> <<>>]

\* moe_threshold refuses a target whose scaled threshold overflows; a dense target
\* is the threshold.
Scales(s, target) == target * Factor[s] <= MaxHash

\* A handler past its early check: what it was sent (`ground` is the target the
\* wins were ground at) and the target it read.
InFlight(pc, n, s, ground, target) ==
  [pc |-> pc, nonce |-> n, statement |-> s, ground |-> ground, target |-> target]

\* A handler that answered 400 after its verification.
Refused(q) ==
  [pc |-> "refused", nonce |-> q.nonce, statement |-> q.statement, ground |-> q.ground]

\* Mutant: the run is labelled with what the instance is configured for.
TermsOf_Configured(q) == [statement |-> q.statement, target |-> config[q.statement]]

\* What commit_run is told the run was verified under.
TermsOf(q) == [statement |-> q.statement, target |-> q.target]

\* What the wins prove: every target at least as easy as the one they were ground
\* at, under their statement, of those that mean anything under it.
Proves(q) ==
  {[nonce |-> q.nonce, terms |-> [statement |-> q.statement, target |-> t]] :
     t \in {u \in Targets : q.ground <= u /\ Scales(q.statement, u)}}

-----------------------------------------------------------------------------
(* new_challenge                                                           *)

\* tier.map_or(instance_target, |(_, t)| t)
TargetTold(s, tier) == IF tier = Untiered THEN config[s] ELSE tier

\* What may be asked for under a statement: no tier, or one whose target
\* target_for_attempts found by the statement's own score, which scales.
Askable(s) == {Untiered} \cup {t \in Tiers : Scales(s, t)}

\* The kernel mints, the store records, the client is answered.
MintChallenge(n, s, tier) ==
  /\ n \notin minted
  /\ RecordChallenge(n, tier)
  /\ minted' = minted \cup {n}
  /\ told' = told \cup {[nonce |-> n, statement |-> s, target |-> TargetTold(s, tier)] :
                          t \in {tier} \ {Untiered}}
  /\ UNCHANGED <<config, req, cell, proved>>

\* The kernel minted and the append failed: the handler panics, and the nonce
\* is pending in the kernel alone.
MintStranded(n, tier) ==
  /\ n \notin minted
  /\ RecordChallengeFails(n, tier)
  /\ minted' = minted \cup {n}
  /\ UNCHANGED <<config, req, cell, told, proved>>

\* The client hung up while the handler waited for the store.
MintAbandoned(n) ==
  /\ mode = "serving"
  /\ n \notin minted
  /\ minted' = minted \cup {n}
  /\ UNCHANGED <<vars, config, req, cell, told, proved>>

-----------------------------------------------------------------------------
(* submit_ai_run                                                           *)

\* Mutant: wins are verified at what the instance is configured for now.
VerifyTarget_Configured(p, s) == config[s]

\* pending.target.unwrap_or(instance target of the chosen statement)
VerifyTarget(p, s) == IF p.tier = Untiered THEN config[s] ELSE p.tier

\* The early check passes.  (A submission it refuses changes nothing.)  The handler
\* goes on at once when the context is there and queues for it otherwise.  Either
\* statement may be submitted, whichever the challenge was asked for under.
Submit(r, n, s, ground) ==
  /\ mode = "serving"
  /\ req[r].pc \in {"idle", "refused"}
  /\ Live(n)
  /\ req' = [req EXCEPT ![r] =
               InFlight(IF cell[s].ready THEN "verifying" ELSE "waiting",
                        n, s, ground, VerifyTarget(PendingOf(n), s))]
  /\ cell' = IF cell[s].ready THEN cell
             ELSE [cell EXCEPT ![s].queue = Append(@, r)]
  /\ UNCHANGED <<vars, minted, config, told, proved>>

\* Mutant: the permit is given back at the end of a successful build alone.
Leaves_Keeps(r) == UNCHANGED cell

\* A request gives up its place in every queue; if it built, the next one does.
Leaves(r) ==
  cell' = [s \in Statements |->
             [cell[s] EXCEPT !.queue = SelectSeq(@, LAMBDA other : other # r)]]

\* get_or_try_init has the permit and runs its closure.
Builds(r, s) ==
  /\ req[r].pc = "waiting"
  /\ cell[s].queue # <<>> /\ Head(cell[s].queue) = r

\* The context is loaded or built: whoever waited for it goes on.
ContextReady(r, s) ==
  /\ Builds(r, s)
  /\ cell' = [cell EXCEPT ![s] = [ready |-> TRUE, queue |-> <<>>]]
  /\ req' = [q \in Requests |->
               IF req[q].pc = "waiting" /\ req[q].statement = s
               THEN [req[q] EXCEPT !.pc = "verifying"] ELSE req[q]]
  /\ UNCHANGED <<vars, minted, config, told, proved>>

\* It can not: 500, and the next in the queue tries for itself.
Unavailable(r, s) ==
  /\ Builds(r, s)
  /\ Leaves(r)
  /\ req' = [req EXCEPT ![r] = Idle]
  /\ UNCHANGED <<vars, minted, config, told, proved>>

\* A certificate passes when its jackpot meets the target it is checked at, be it
\* the one the wins were ground at or an easier one, and that target scales.
Accepts(q) == Scales(q.statement, q.target) /\ q.ground <= q.target

\* Every win is verified on the blocking pool; the first that fails is answered
\* 400.
Verify(r) ==
  /\ req[r].pc = "verifying"
  /\ IF Accepts(req[r])
     THEN /\ req' = [req EXCEPT ![r].pc = "verified"]
          /\ proved' = proved \cup Proves(req[r])
     ELSE /\ req' = [req EXCEPT ![r] = Refused(@)]
          /\ UNCHANGED proved
  /\ UNCHANGED <<vars, minted, config, cell, told>>

\* commit_run: 200; or its re-check refuses: 400; or the append fails: 500.
Commit(r) ==
  LET n == req[r].nonce IN
  /\ req[r].pc = "verified"
  /\ \/ CommitRun(n, TermsOf(req[r]))
     \/ CommitRunFails(n, TermsOf(req[r]))
     \/ ~Live(n) /\ UNCHANGED vars
  /\ req' = [req EXCEPT ![r] = Idle]
  /\ UNCHANGED <<minted, config, cell, told, proved>>

\* The client disconnects and the handler's future is dropped, with the permit if
\* it held one.
HangUp(r) ==
  /\ req[r].pc \in {"waiting", "verifying", "verified"}
  /\ req' = [req EXCEPT ![r] = Idle]
  /\ Leaves(r)
  /\ UNCHANGED <<vars, minted, config, told, proved>>

-----------------------------------------------------------------------------
(* Death and boot.                                                         *)

AllIdle ==
  /\ req' = [r \in Requests |-> Idle]
  /\ cell' = [s \in Statements |-> EmptyCell]

CrashInMint(n, tier) ==
  /\ n \notin minted
  /\ CrashInAppend(Mint(n, tier))
  /\ minted' = minted \cup {n}
  /\ AllIdle
  /\ UNCHANGED <<config, told, proved>>

CrashInCommit(r) ==
  /\ req[r].pc = "verified"
  /\ Live(req[r].nonce)
  /\ CrashInAppend(RunOf(req[r].nonce, TermsOf(req[r])))
  /\ AllIdle
  /\ UNCHANGED <<minted, config, told, proved>>

CrashBetween ==
  /\ Crash
  /\ AllIdle
  /\ UNCHANGED <<minted, config, told, proved>>

\* target_from_env and moe_target_from_env are read again.
BootConfigured ==
  /\ Boot
  /\ config' \in [Statements -> InstanceTargets]
  /\ UNCHANGED <<minted, req, cell, told, proved>>

StoreAlone ==
  /\ ReplayLine \/ FinishLoad \/ ClockMoves
  /\ UNCHANGED handlers

SubInit ==
  /\ Init
  /\ minted = {}
  /\ config \in [Statements -> InstanceTargets]
  /\ req = [r \in Requests |-> Idle]
  /\ cell = [s \in Statements |-> EmptyCell]
  /\ told = {}
  /\ proved = {}

SubNext ==
  \/ \E n \in Nonces, s \in Statements : \E tier \in Askable(s) :
       \/ MintChallenge(n, s, tier)
       \/ MintStranded(n, tier)
       \/ CrashInMint(n, tier)
  \/ \E n \in Nonces : MintAbandoned(n)
  \/ \E r \in Requests :
       \/ \E n \in Nonces, s \in Statements, ground \in Targets : Submit(r, n, s, ground)
       \/ \E s \in Statements : ContextReady(r, s) \/ Unavailable(r, s)
       \/ Verify(r)
       \/ Commit(r)
       \/ HangUp(r)
       \/ CrashInCommit(r)
  \/ CrashBetween
  \/ BootConfigured
  \/ StoreAlone

\* A handler that can go on does: the blocking pool runs every closure, the build
\* among them, tokio polls every woken task, and no lock is held across an await.
\* Which of the waiting requests builds, and whether clients stay, is not assumed.
SubFairness ==
  /\ \A r \in Requests : WF_allVars(Verify(r)) /\ WF_allVars(Commit(r))
  /\ \A s \in Statements :
       WF_allVars(\E r \in Requests : ContextReady(r, s) \/ Unavailable(r, s))

SubSpec == SubInit /\ [][SubNext]_allVars /\ SubFairness

-----------------------------------------------------------------------------
(* Properties.                                                             *)

\* A run on the board, or one a restart would read back, names a statement its
\* wins were verified under and a target they meet, whichever submission
\* committed it and however the registry was configured meanwhile.
CreditedAsVerified ==
  {[nonce |-> run.nonce, terms |-> run.terms] : run \in runs \cup (Readable \cap RunLine)}
    \subseteq proved

\* A client that asked for a tier under a statement, ground under it at the target
\* it was told or at a harder one, and submits under it is never refused for its
\* work: the tier survives restarts, replays and re-calibrations
\* (PendingChallenge.target).  Whatever statement it submits under, a run of its
\* challenge is scored at the target it was told.
TierHonoured ==
  \A t \in told :
    /\ \A r \in Requests :
         /\ req[r].pc = "refused"
         /\ req[r].nonce = t.nonce
         /\ req[r].statement = t.statement
         => req[r].ground > t.target
    /\ \A run \in runs : run.nonce = t.nonce => run.terms.target = t.target

\* However many submissions of one challenge are in flight, one is answered
\* 200: those that verified meanwhile fail commit_run's re-check.
OneSubmissionCredited ==
  torn = 0 => \A e, f \in AckedRuns : e.nonce = f.nonce => e = f

\* A submission whose early check passed is answered, or its client hung up, or
\* the registry died: it gets the verifier context from whoever builds it, or the
\* permit to build it, behind any number of builds that fail and builders that are
\* dropped.
Answered ==
  \A r \in Requests :
    (req[r].pc \in {"waiting", "verifying", "verified"}) ~> (req[r].pc \in {"idle", "refused"})
=============================================================================
