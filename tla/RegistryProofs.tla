--------------------------- MODULE RegistryProofs ---------------------------
(***************************************************************************)
(* What holds of the ZK track for every number of handlers, every K, hour  *)
(* and clock, and through any sequence of hang-ups, checkpoints and        *)
(* deaths:                                                                 *)
(*   - the types (TypeCorrect);                                            *)
(*   - no run without its K verified proofs (ProvedKTimes);                *)
(*   - a challenge earns one run and an id names one run (CreditedOnce);   *)
(*   - a run's claimed time fits its window (TimeFits);                    *)
(*   - a checkpoint is never lost (NothingLost);                           *)
(*   - each step is a step of the Ledger, or none (KernelIsALedger).       *)
(* The inductive invariant has three parts: the handlers and the queue,    *)
(* where a task's handler is waiting for exactly that task; the kernel's   *)
(* own book-keeping, which the checkpoint must satisfy as well, since a    *)
(* death makes it the kernel; and how checkpoint and kernel compare.       *)
(***************************************************************************)
EXTENDS Registry, FiniteSetTheorems, SequenceTheorems, TLAPS

-----------------------------------------------------------------------------
(* The inductive invariant: handlers and queue.                            *)

\* A submission in hand, of whatever proofs a client may send.
Active ==
  [pc : {"binding", "verifying", "recording"}, at : Nat \ {0}, nonce : Nonces,
   elapsed : Elapsed \ {0}, proofs : Seq(ProofKinds)]

\* A handler is idle or somewhere in its loop over as many proofs as K asks for;
\* a dead registry has none, so a boot may change K.
HandlersInv ==
  /\ req \in [Requests -> Active \cup {Idle}]
  /\ \A r \in Requests :
       req[r] # Idle => up /\ Len(req[r].proofs) = k /\ req[r].at \in 1..k

\* A task with a handler is that handler's only one, and the handler waits for it.
QueueInv ==
  /\ queue \in Seq(Requests \cup {Orphan})
  /\ \A i \in 1..Len(queue) : queue[i] # Orphan => req[queue[i]].pc = "verifying"
  /\ \A i, j \in 1..Len(queue) : queue[i] = queue[j] /\ queue[i] # Orphan => i = j

\* The proofs the loop has left behind verified; all of them when it is done.
LoopInv ==
  \A r \in Requests :
    req[r] # Idle =>
      /\ \A i \in 1..(req[r].at - 1) : <<req[r].nonce, i>> \in proved
      /\ req[r].pc = "recording" => \A i \in 1..k : <<req[r].nonce, i>> \in proved

-----------------------------------------------------------------------------
(* The inductive invariant: a kernel, the live one or the checkpoint.      *)

\* A nonce names one challenge, and is among those minted.
ChallengesInv(ker, nonces) ==
  /\ \A c \in ker.challenges : c.nonce \in nonces
  /\ \A c, d \in ker.challenges : c.nonce = d.nonce => c = d

\* The challenge a run used up.
UsedBy(run) == [nonce |-> run.nonce, issued |-> run.issued, used |-> TRUE]

\* A run has its challenge, an id that will not be handed out again, a window,
\* and K of the proofs that verified.
RunsInv(ker, proofs) ==
  \A run \in ker.runs :
    /\ UsedBy(run) \in ker.challenges
    /\ run.id < ker.nextId
    /\ run.elapsed # 0
    /\ run.elapsed <= run.submitted - run.issued
    /\ run.submitted <= run.issued + Hour
    /\ \A i \in 1..run.k : <<run.nonce, i>> \in proofs

\* Two runs share neither the challenge nor the id.
RunsApart(ker) ==
  \A r, s \in ker.runs : r.nonce = s.nonce \/ r.id = s.id => r = s

KernelInv(ker, nonces, proofs) ==
  /\ ker \in KernelState
  /\ ChallengesInv(ker, nonces)
  /\ RunsInv(ker, proofs)
  /\ RunsApart(ker)

DurableInv ==
  /\ KernelInv(kernel, minted, proved)
  /\ KernelInv(saved, minted, proved)
  /\ CheckpointsSurvive

ScalarsInv ==
  /\ up \in BOOLEAN /\ rolled \in BOOLEAN
  /\ k \in Ks /\ now \in 0..MaxClock
  /\ minted \subseteq Nonces

IndInv ==
  /\ ScalarsInv
  /\ HandlersInv
  /\ QueueInv
  /\ LoopInv
  /\ DurableInv

-----------------------------------------------------------------------------
(* Lemmas on the operators.                                                *)

\* Serving the oldest task moves the others up by one.
LEMMA ServedLeaves ==
  ASSUME NEW S, NEW q \in Seq(S), q # <<>>
  PROVE  /\ RemoveAt(q, Served) \in Seq(S)
         /\ Len(RemoveAt(q, Served)) = Len(q) - 1
         /\ \A i \in 1..(Len(q) - 1) : RemoveAt(q, Served)[i] = q[i + 1]
<1>1. SubSeq(q, 1, 0) = <<>>
  BY SubSeqEmpty
<1>2. SubSeq(q, 2, Len(q)) = Tail(q)
  BY TailIsSubSeq
<1>3. RemoveAt(q, Served) = Tail(q)
  BY <1>1, <1>2, HeadTailProperties, ConcatEmptySeq DEF RemoveAt, Served
<1>4. /\ Tail(q) \in Seq(S)
      /\ Len(Tail(q)) = Len(q) - 1
      /\ \A i \in 1..Len(Tail(q)) : Tail(q)[i] = q[i + 1]
  BY HeadTailProperties
<1>. QED
  BY <1>3, <1>4

\* The greater of zero and an integer.
LEMMA MaxWith ==
  ASSUME NEW a \in Int, NEW b \in Int
  PROVE  Max({a, b}) = IF a >= b THEN a ELSE b
<1>1. \E x \in {a, b} : \A y \in {a, b} : x >= y
  OBVIOUS
<1>2. /\ Max({a, b}) \in {a, b}
      /\ \A y \in {a, b} : Max({a, b}) >= y
  BY <1>1 DEF Max
<1>. QED
  BY <1>2

\* A kernel stays in order while more nonces are minted and more proofs verify.
LEMMA KernelInvGrows ==
  ASSUME NEW ker, NEW m1, NEW m2, NEW p1, NEW p2,
         m1 \subseteq m2, p1 \subseteq p2, KernelInv(ker, m1, p1)
  PROVE  KernelInv(ker, m2, p2)
BY DEF KernelInv, ChallengesInv, RunsInv

\* A challenge that is used up is otherwise the same.
LEMMA UsesUp ==
  ASSUME NEW c, NEW n, NEW t, NEW u, NEW v, c = [nonce |-> n, issued |-> t, used |-> u]
  PROVE  [c EXCEPT !.used = v] = [nonce |-> n, issued |-> t, used |-> v]
OBVIOUS

\* A challenge of a fresh nonce keeps the kernel in order.
LEMMA OpenedInv ==
  ASSUME IndInv, NEW n \in Nonces, n \notin minted
  PROVE  /\ KernelInv(Opened(n), minted \cup {n}, proved)
         /\ Opened(n).runs = kernel.runs
<1> DEFINE c == [nonce |-> n, issued |-> now, used |-> FALSE]
<1>1. KernelInv(kernel, minted, proved)
  BY DEF IndInv, DurableInv
<1>2. Opened(n) = [challenges |-> kernel.challenges \cup {c}, runs |-> kernel.runs, nextId |-> kernel.nextId]
  BY <1>1 DEF KernelInv, KernelState, Opened
<1>3. c \in Challenge
  BY BoundsAssumption DEF IndInv, ScalarsInv, Challenge
<1> HIDE DEF c
<1>4. Opened(n) \in KernelState
  BY <1>1, <1>2, <1>3 DEF KernelInv, KernelState
<1>5. ChallengesInv(Opened(n), minted \cup {n})
  <2>1. \A d \in kernel.challenges : d.nonce \in minted /\ d.nonce # n
    BY <1>1 DEF KernelInv, ChallengesInv
  <2>2. c.nonce = n
    BY DEF c
  <2>. QED
    BY <1>1, <1>2, <2>1, <2>2 DEF KernelInv, ChallengesInv
<1>6. RunsInv(Opened(n), proved) /\ RunsApart(Opened(n))
  BY <1>1, <1>2 DEF KernelInv, RunsInv, RunsApart
<1>. QED
  BY <1>2, <1>4, <1>5, <1>6 DEF KernelInv

\* What a kernel that accepts a run does: the one challenge of the nonce is used
\* up and the run joins the board inside its window.
LEMMA RecordedInv ==
  ASSUME IndInv, NEW r \in Requests, req[r].pc = "recording",
         Accepts(req[r].nonce, req[r].elapsed)
  PROVE  LET n == req[r].nonce
             run == RunOf(n, req[r].elapsed)
             ker == Recorded(n, req[r].elapsed)
             open == [nonce |-> n, issued |-> run.issued, used |-> FALSE]
         IN /\ KernelInv(ker, minted, proved)
            /\ ker.runs = kernel.runs \cup {run}
            /\ open \in kernel.challenges
            /\ ker.challenges = (kernel.challenges \ {open}) \cup {UsedBy(run)}
            /\ run.submitted <= run.issued + Hour
            /\ \A s \in kernel.runs : s.nonce # run.nonce /\ s.id # run.id
<1> DEFINE n == req[r].nonce
           elapsed == req[r].elapsed
           run == RunOf(n, elapsed)
           ker == Recorded(n, elapsed)
           open == [nonce |-> n, issued |-> run.issued, used |-> FALSE]
<1>1. KernelInv(kernel, minted, proved)
  BY DEF IndInv, DurableInv
<1>2. req[r] \in Active
  BY DEF IndInv, HandlersInv, Idle
<1>3. n \in Nonces /\ elapsed \in Elapsed /\ elapsed \in Nat /\ elapsed # 0
  BY <1>2, ClientAssumption DEF Active
<1>4. PICK c \in kernel.challenges :
        /\ c.nonce = n /\ ~c.used
        /\ now <= c.issued + Hour
        /\ now >= c.issued
        /\ elapsed <= now - c.issued
  BY DEF Accepts
<1>5. ChallengeOf(n) = c
  BY <1>1, <1>4 DEF ChallengeOf, KernelInv, ChallengesInv
<1>6. c \in Challenge
  BY <1>1, <1>4 DEF KernelInv, KernelState
<1>7. run = [id |-> kernel.nextId, nonce |-> n, k |-> k, elapsed |-> elapsed,
             issued |-> c.issued, submitted |-> now]
  BY <1>5 DEF RunOf
<1>8. c = open
  BY <1>4, <1>6, <1>7 DEF Challenge
<1>9. [c EXCEPT !.used = TRUE] = UsedBy(run)
  <2>1. PICK t : t = c.issued
    OBVIOUS
  <2>2. c = [nonce |-> n, issued |-> t, used |-> FALSE]
    BY <1>4, <1>6, <2>1 DEF Challenge
  <2>3. UsedBy(run) = [nonce |-> n, issued |-> t, used |-> TRUE]
    BY <1>7, <2>1 DEF UsedBy
  <2>4. \A v : [c EXCEPT !.used = v] = [nonce |-> n, issued |-> t, used |-> v]
    BY <2>2, UsesUp
  <2>. QED
    BY <2>3, <2>4, Zenon
<1>10. ker = [challenges |-> (kernel.challenges \ {c}) \cup {UsedBy(run)},
              runs |-> kernel.runs \cup {run},
              nextId |-> kernel.nextId + 1]
  BY <1>5, <1>9 DEF Recorded
<1>11. now \in Nat /\ k \in Ks /\ kernel.nextId \in Nat \ {0} /\ c.issued \in Nat
  BY <1>1, <1>6, BoundsAssumption DEF IndInv, ScalarsInv, KernelInv, KernelState, Challenge
<1>12. run \in Run /\ UsedBy(run) \in Challenge
  BY <1>3, <1>7, <1>11 DEF Run, UsedBy, Challenge
<1>13. ker \in KernelState
  BY <1>1, <1>10, <1>11, <1>12 DEF KernelInv, KernelState
<1>14. ChallengesInv(ker, minted)
  <2>1. \A d \in kernel.challenges \ {c} : d.nonce \in minted /\ d.nonce # n
    BY <1>1, <1>4 DEF KernelInv, ChallengesInv
  <2>2. UsedBy(run).nonce = n /\ n \in minted
    BY <1>1, <1>4, <1>7 DEF KernelInv, ChallengesInv, UsedBy
  <2>3. ker.challenges = (kernel.challenges \ {c}) \cup {UsedBy(run)}
    BY <1>10
  <2> HIDE DEF run, ker
  <2>. QED
    BY <1>1, <2>1, <2>2, <2>3 DEF KernelInv, ChallengesInv
<1>15. \A s \in kernel.runs : s.nonce # run.nonce /\ s.id # run.id
  <2> SUFFICES ASSUME NEW s \in kernel.runs PROVE s.nonce # run.nonce /\ s.id # run.id
    OBVIOUS
  <2>1. UsedBy(s) \in kernel.challenges /\ s.id < kernel.nextId /\ s \in Run
    BY <1>1 DEF KernelInv, RunsInv, KernelState
  <2>2. s.nonce # n
    BY <1>1, <1>4, <2>1 DEF KernelInv, ChallengesInv, UsedBy
  <2>. QED
    BY <1>7, <1>11, <2>1, <2>2 DEF Run
<1>16. RunsInv(ker, proved)
  <2>1. ASSUME NEW s \in kernel.runs
        PROVE  UsedBy(s) \in ker.challenges /\ s.id < ker.nextId
    <3>1. UsedBy(s) \in kernel.challenges /\ s.id < kernel.nextId /\ s \in Run
      BY <1>1 DEF KernelInv, RunsInv, KernelState
    <3>2. UsedBy(s) # c
      BY <1>8 DEF UsedBy
    <3>. QED
      BY <1>10, <1>11, <3>1, <3>2 DEF Run
  <2>2. UsedBy(run) \in ker.challenges /\ run.id < ker.nextId
    BY <1>7, <1>10, <1>11
  <2>3. /\ run.elapsed # 0
        /\ run.elapsed <= run.submitted - run.issued
        /\ run.submitted <= run.issued + Hour
    BY <1>3, <1>4, <1>7
  <2>4. \A i \in 1..run.k : <<run.nonce, i>> \in proved
    BY <1>2, <1>7 DEF IndInv, LoopInv, Idle, Active
  <2>5. ker.runs = kernel.runs \cup {run}
    BY <1>10
  <2>. QED
    BY <1>1, <2>1, <2>2, <2>3, <2>4, <2>5 DEF KernelInv, RunsInv
<1>17. RunsApart(ker)
  BY <1>1, <1>10, <1>15 DEF KernelInv, RunsApart
<1>18. run.submitted <= run.issued + Hour
  BY <1>4, <1>7
<1>. QED
  BY <1>4, <1>8, <1>10, <1>13, <1>14, <1>15, <1>16, <1>17, <1>18 DEF KernelInv

-----------------------------------------------------------------------------
(* The invariant is inductive.                                             *)

LEMMA IndInit == Init => IndInv
<1> SUFFICES ASSUME Init PROVE IndInv
  OBVIOUS
<1> USE BoundsAssumption DEF Init
<1>1. ScalarsInv
  <2>1. k \in Ks /\ now \in 0..MaxClock /\ minted \subseteq Nonces
    OBVIOUS
  <2>2. up \in BOOLEAN /\ rolled \in BOOLEAN
    OBVIOUS
  <2>. QED
    BY <2>1, <2>2 DEF ScalarsInv
<1>2. HandlersInv
  BY DEF HandlersInv, Idle
<1>3. QueueInv
  BY EmptySeq DEF QueueInv
<1>4. LoopInv
  BY DEF LoopInv
<1>5. KernelInv(EmptyKernel, {}, {})
  BY DEF KernelInv, KernelState, EmptyKernel, ChallengesInv, RunsInv, RunsApart
<1>6. DurableInv
  BY <1>5 DEF DurableInv, CheckpointsSurvive, EmptyKernel
<1>. QED
  BY <1>1, <1>2, <1>3, <1>4, <1>6 DEF IndInv

\* Handlers, queue and loops are as they were while none of them moves, K stays,
\* and no proof is forgotten.
LEMMA HandlersUnchanged ==
  ASSUME IndInv, UNCHANGED <<req, queue, k, up>>, proved \subseteq proved'
  PROVE  HandlersInv' /\ QueueInv' /\ LoopInv'
BY DEF IndInv, HandlersInv, QueueInv, LoopInv

\* The durable state stays in order while the kernel and its checkpoint stand.
LEMMA DurableUnchanged ==
  ASSUME IndInv, UNCHANGED <<kernel, saved, acked, rolled>>,
         minted \subseteq minted', proved \subseteq proved'
  PROVE  DurableInv'
<1>1. KernelInv(kernel, minted', proved') /\ KernelInv(saved, minted', proved')
  BY KernelInvGrows DEF IndInv, DurableInv
<1>. QED
  BY <1>1 DEF IndInv, DurableInv, CheckpointsSurvive

\* A handler that leaves, or moves on while no task waits for it, disturbs no other.
LEMMA MovesOn ==
  ASSUME IndInv, NEW r \in Requests, NEW q \in Active \cup {Idle},
         req' = [req EXCEPT ![r] = q],
         UNCHANGED <<k, up>>, proved \subseteq proved',
         q # Idle => /\ up /\ Len(q.proofs) = k /\ q.at \in 1..k
                     /\ \A i \in 1..(q.at - 1) : <<q.nonce, i>> \in proved'
                     /\ q.pc = "recording" => \A i \in 1..k : <<q.nonce, i>> \in proved'
  PROVE  HandlersInv' /\ LoopInv'
<1>1. HandlersInv'
  BY DEF IndInv, HandlersInv
<1>2. \A s \in Requests : req'[s] = IF s = r THEN q ELSE req[s]
  BY DEF IndInv, HandlersInv
<1>3. LoopInv'
  BY <1>2 DEF IndInv, LoopInv
<1>. QED
  BY <1>1, <1>3

\* The queue stays in order when the handler that moved had no task in it.
LEMMA QueueUnmoved ==
  ASSUME IndInv, NEW r \in Requests, NEW q, req[r].pc # "verifying",
         req' = [req EXCEPT ![r] = q], UNCHANGED queue
  PROVE  QueueInv'
<1>1. \A i \in 1..Len(queue) : queue[i] \in Requests \cup {Orphan} /\ queue[i] # r
  BY ElementOfSeq, HandlerAssumption DEF IndInv, QueueInv
<1>2. \A s \in Requests : s # r => req'[s] = req[s]
  BY DEF IndInv, HandlersInv
<1>. QED
  BY <1>1, <1>2 DEF IndInv, QueueInv

LEMMA MintStep ==
  ASSUME IndInv, NEW n \in Nonces, Mint(n)
  PROVE  IndInv'
<1> USE DEF Mint, handlers
<1>1. ScalarsInv'
  BY DEF IndInv, ScalarsInv
<1>2. HandlersInv' /\ QueueInv' /\ LoopInv'
  BY HandlersUnchanged
<1>3. KernelInv(kernel', minted', proved') /\ kernel'.runs = kernel.runs
  BY OpenedInv
<1>4. KernelInv(saved', minted', proved')
  BY KernelInvGrows DEF IndInv, DurableInv
<1>5. DurableInv'
  BY <1>3, <1>4 DEF IndInv, DurableInv, CheckpointsSurvive
<1>. QED
  BY <1>1, <1>2, <1>5 DEF IndInv

LEMMA SubmitStep ==
  ASSUME IndInv, NEW r \in Requests, NEW n \in Nonces, NEW elapsed \in Elapsed,
         NEW proofs \in Seq(ProofKinds), Submit(r, n, elapsed, proofs)
  PROVE  IndInv'
<1> DEFINE q == [pc |-> "binding", at |-> 1, nonce |-> n, elapsed |-> elapsed, proofs |-> proofs]
<1>1. ScalarsInv'
  BY DEF Submit, durable, IndInv, ScalarsInv
<1>2. q \in Active /\ q # Idle /\ k \in Nat \ {0}
  BY ClientAssumption DEF Submit, Active, Idle, IndInv, ScalarsInv
<1>3. HandlersInv' /\ LoopInv'
  <2>1. q.pc = "binding" /\ q.at = 1 /\ Len(q.proofs) = k
    BY DEF Submit
  <2>2. req' = [req EXCEPT ![r] = q] /\ UNCHANGED <<k, up, proved>> /\ up
    BY DEF Submit
  <2> HIDE DEF q
  <2>3. \A i \in 1..(q.at - 1) : <<q.nonce, i>> \in proved'
    BY <2>1
  <2>4. q.at \in 1..k /\ q.pc # "recording" /\ proved \subseteq proved'
    BY <1>2, <2>1, <2>2
  <2>. QED
    BY <1>2, <2>1, <2>2, <2>3, <2>4, MovesOn
<1>4. QueueInv'
  <2>1. req[r].pc # "verifying"
    BY DEF Submit, Idle
  <2>2. req' = [req EXCEPT ![r] = q] /\ UNCHANGED queue
    BY DEF Submit
  <2> HIDE DEF q
  <2>. QED
    BY <2>1, <2>2, QueueUnmoved
<1>5. DurableInv'
  BY DurableUnchanged DEF Submit, durable
<1>. QED
  BY <1>1, <1>3, <1>4, <1>5 DEF IndInv

LEMMA BindStep ==
  ASSUME IndInv, NEW r \in Requests, Bind(r)
  PROVE  IndInv'
<1> USE DEF Bind, durable
<1>1. ScalarsInv'
  BY DEF IndInv, ScalarsInv
<1>2. req[r] \in Active /\ req[r] # Idle /\ up /\ Len(req[r].proofs) = k /\ req[r].at \in 1..k
  BY DEF IndInv, HandlersInv, Idle
<1>3. CASE ProofOf(req[r]) = "unbound"
  <2>1. HandlersInv' /\ LoopInv'
    BY <1>3, MovesOn
  <2>2. QueueInv'
    BY <1>3, QueueUnmoved
  <2>. QED
    BY <1>1, <2>1, <2>2, DurableUnchanged DEF IndInv
<1>4. CASE ProofOf(req[r]) # "unbound"
  <2> DEFINE q == [req[r] EXCEPT !.pc = "verifying"]
  <2>1. /\ q \in Active
        /\ q.pc = "verifying" /\ q.at = req[r].at
        /\ q.nonce = req[r].nonce /\ q.proofs = req[r].proofs
    BY <1>2 DEF Active
  <2>2. req' = [req EXCEPT ![r] = q] /\ queue' = Append(queue, r)
    BY <1>4
  <2> HIDE DEF q
  <2>3. \A i \in 1..(q.at - 1) : <<q.nonce, i>> \in proved
    BY <1>2, <2>1 DEF IndInv, LoopInv
  <2>4. HandlersInv' /\ LoopInv'
    BY <1>2, <2>1, <2>2, <2>3, MovesOn
  <2>5. QueueInv'
    <3>1. \A i \in 1..Len(queue) : queue[i] \in Requests \cup {Orphan} /\ queue[i] # r
      BY ElementOfSeq, HandlerAssumption DEF IndInv, QueueInv
    <3>2. \A s \in Requests : req'[s] = IF s = r THEN q ELSE req[s]
      BY <2>2 DEF IndInv, HandlersInv
    <3>3. /\ queue' \in Seq(Requests \cup {Orphan})
          /\ Len(queue') = Len(queue) + 1 /\ Len(queue) \in Nat
          /\ \A i \in 1..Len(queue') : queue'[i] = IF i <= Len(queue) THEN queue[i] ELSE r
      BY <2>2, AppendProperties, LenProperties DEF IndInv, QueueInv
    <3>4. \A i \in 1..Len(queue') :
            IF i <= Len(queue) THEN i \in 1..Len(queue) ELSE i = Len(queue')
      BY <3>3
    <3>5. \A i \in 1..Len(queue') : queue'[i] # Orphan => req'[queue'[i]].pc = "verifying"
      BY <2>1, <3>1, <3>2, <3>3, <3>4 DEF IndInv, QueueInv
    <3>6. \A i, j \in 1..Len(queue') : queue'[i] = queue'[j] /\ queue'[i] # Orphan => i = j
      BY <3>1, <3>3, <3>4 DEF IndInv, QueueInv
    <3>. QED
      BY <3>3, <3>5, <3>6 DEF QueueInv
  <2>. QED
    BY <1>1, <2>4, <2>5, DurableUnchanged DEF IndInv
<1>. QED BY <1>3, <1>4

\* The verifier's answer moves the handler whose task it served, and no other
\* task is that handler's.
LEMMA VerifyStep ==
  ASSUME IndInv, Verify
  PROVE  IndInv'
<1> DEFINE r == queue[Served]
<1>1. ScalarsInv' /\ DurableInv'
  <2>1. proved \subseteq proved'
    BY DEF Verify
  <2>. QED
    BY <2>1, DurableUnchanged DEF Verify, durable, IndInv, ScalarsInv
<1>2. /\ queue' \in Seq(Requests \cup {Orphan})
      /\ Len(queue') = Len(queue) - 1 /\ Len(queue) \in Nat \ {0}
      /\ \A i \in 1..Len(queue') : queue'[i] = queue[i + 1] /\ i + 1 \in 1..Len(queue) /\ i + 1 # 1
  BY ServedLeaves, EmptySeq DEF Verify, IndInv, QueueInv
<1>3. r \in Requests \cup {Orphan} /\ r = queue[1] /\ 1 \in 1..Len(queue)
  BY <1>2, ElementOfSeq DEF IndInv, QueueInv, Served
<1>4. \A i \in 1..Len(queue') : queue'[i] # Orphan => queue'[i] # r
  BY <1>2, <1>3 DEF IndInv, QueueInv
<1>5. \A i, j \in 1..Len(queue') : queue'[i] = queue'[j] /\ queue'[i] # Orphan => i = j
  BY <1>2 DEF IndInv, QueueInv
<1>6. CASE r = Orphan
  <2>1. UNCHANGED <<req, proved, k, up>>
    BY <1>6 DEF Verify
  <2>2. HandlersInv' /\ LoopInv'
    BY <2>1 DEF IndInv, HandlersInv, LoopInv
  <2>3. QueueInv'
    BY <1>2, <1>5, <2>1 DEF IndInv, QueueInv
  <2>. QED
    BY <1>1, <2>2, <2>3 DEF IndInv
<1>7. CASE r # Orphan
  <2>1. r \in Requests /\ req[r].pc = "verifying"
    BY <1>2, <1>3, <1>7 DEF IndInv, QueueInv
  <2>2. req[r] \in Active /\ req[r] # Idle /\ up /\ Len(req[r].proofs) = k /\ req[r].at \in 1..k
    BY <2>1 DEF IndInv, HandlersInv, Idle
  <2>3. k \in Nat \ {0}
    BY ClientAssumption DEF IndInv, ScalarsInv
  <2>4. \A i \in 1..(req[r].at - 1) : <<req[r].nonce, i>> \in proved
    BY <2>1, <2>2 DEF IndInv, LoopInv
  <2>5. ASSUME NEW q, req' = [req EXCEPT ![r] = q]
        PROVE  QueueInv'
    <3>1. \A s \in Requests : s # r => req'[s] = req[s]
      BY <2>5 DEF IndInv, HandlersInv
    <3>2. \A i \in 1..Len(queue') : queue'[i] \in Requests \cup {Orphan}
      BY <1>2, ElementOfSeq
    <3>3. \A i \in 1..Len(queue') : queue'[i] # Orphan => req'[queue'[i]].pc = "verifying"
      BY <1>2, <1>4, <3>1, <3>2 DEF IndInv, QueueInv
    <3>. QED
      BY <1>2, <1>5, <3>3 DEF QueueInv
  <2>6. CASE ProofOf(req[r]) = "good"
    <3> DEFINE q == AfterProof(req[r])
    <3>1. req' = [req EXCEPT ![r] = q] /\ proved' = proved \cup {<<req[r].nonce, req[r].at>>}
          /\ UNCHANGED <<k, up>>
      BY <1>7, <2>6 DEF Verify
    <3>2. CASE req[r].at = Len(req[r].proofs)
      <4>1. q = [req[r] EXCEPT !.pc = "recording"]
        BY <3>2 DEF AfterProof
      <4>2. /\ q \in Active
            /\ q.pc = "recording" /\ q.at = k
            /\ q.nonce = req[r].nonce /\ q.proofs = req[r].proofs
        BY <2>2, <3>2, <4>1 DEF Active
      <4> HIDE DEF q
      <4>3. \A i \in 1..k : <<q.nonce, i>> \in proved'
        BY <2>2, <2>3, <2>4, <3>1, <3>2, <4>2
      <4>4. q.at \in 1..k /\ \A i \in 1..(q.at - 1) : <<q.nonce, i>> \in proved'
        BY <2>3, <4>2, <4>3
      <4>5. HandlersInv' /\ LoopInv'
        BY <2>1, <2>2, <3>1, <4>2, <4>3, <4>4, MovesOn
      <4>. QED
        BY <1>1, <2>5, <3>1, <4>5 DEF IndInv
    <3>3. CASE req[r].at # Len(req[r].proofs)
      <4>1. q = [req[r] EXCEPT !.pc = "binding", !.at = req[r].at + 1]
        BY <3>3 DEF AfterProof
      <4>2. /\ q \in Active
            /\ q.pc = "binding" /\ q.at = req[r].at + 1
            /\ q.nonce = req[r].nonce /\ q.proofs = req[r].proofs
        <5>1. req[r].at + 1 \in Nat \ {0}
          BY <2>2 DEF Active
        <5>. QED
          BY <2>2, <4>1, <5>1 DEF Active
      <4> HIDE DEF q
      <4>3. \A i \in 1..(q.at - 1) : <<q.nonce, i>> \in proved'
        BY <2>2, <2>3, <2>4, <3>1, <4>2
      <4>4. q.at \in 1..k
        BY <2>2, <2>3, <3>3, <4>2
      <4>. QED
        BY <1>1, <2>1, <2>2, <2>5, <3>1, <4>2, <4>3, <4>4, MovesOn DEF IndInv
    <3>. QED BY <3>2, <3>3
  <2>7. CASE ProofOf(req[r]) # "good"
    <3>1. req' = [req EXCEPT ![r] = Idle] /\ UNCHANGED <<proved, k, up>>
      BY <1>7, <2>7 DEF Verify
    <3>. QED
      BY <1>1, <2>1, <2>5, <3>1, MovesOn DEF IndInv
  <2>. QED BY <2>6, <2>7
<1>. QED BY <1>6, <1>7

\* Whether the kernel records or refuses, the handler is done.
LEMMA RecordStep ==
  ASSUME IndInv, NEW r \in Requests, Record(r)
  PROVE  IndInv'
<1>1. ScalarsInv'
  BY DEF Record, IndInv, ScalarsInv
<1>2. HandlersInv' /\ LoopInv'
  BY MovesOn DEF Record
<1>3. QueueInv'
  BY QueueUnmoved DEF Record
<1>4. CASE Accepts(req[r].nonce, req[r].elapsed)
  <2>1. /\ KernelInv(kernel', minted, proved)
        /\ kernel'.runs = kernel.runs \cup {RunOf(req[r].nonce, req[r].elapsed)}
    BY <1>4, RecordedInv DEF Record
  <2>2. acked' \subseteq acked \cup {RunOf(req[r].nonce, req[r].elapsed)}
    BY <1>4 DEF Record
  <2>3. UNCHANGED <<saved, minted, proved, rolled>>
    BY DEF Record
  <2>4. DurableInv'
    BY <2>1, <2>2, <2>3 DEF IndInv, DurableInv, CheckpointsSurvive
  <2>. QED
    BY <1>1, <1>2, <1>3, <2>4 DEF IndInv
<1>5. CASE ~Accepts(req[r].nonce, req[r].elapsed)
  <2>1. DurableInv'
    BY <1>5, DurableUnchanged DEF Record
  <2>. QED
    BY <1>1, <1>2, <1>3, <2>1 DEF IndInv
<1>. QED BY <1>4, <1>5

\* A client that hangs up leaves a task that is nobody's.
LEMMA HangUpStep ==
  ASSUME IndInv, NEW r \in Requests, HangUp(r)
  PROVE  IndInv'
<1>1. ScalarsInv' /\ DurableInv'
  BY DurableUnchanged DEF HangUp, durable, IndInv, ScalarsInv
<1>2. HandlersInv' /\ LoopInv'
  BY MovesOn DEF HangUp
<1>3. \A i \in 1..Len(queue) : queue[i] \in Requests \cup {Orphan}
  BY ElementOfSeq DEF IndInv, QueueInv
<1>4. DOMAIN queue = 1..Len(queue) /\ Len(queue) \in Nat
  BY LenProperties DEF IndInv, QueueInv
<1>5. queue' = [i \in 1..Len(queue) |-> IF queue[i] = r THEN Orphan ELSE queue[i]]
  BY <1>4 DEF HangUp
<1>6. queue' \in Seq(Requests \cup {Orphan}) /\ Len(queue') = Len(queue)
  BY <1>3, <1>4, <1>5
<1>7. \A s \in Requests : s # r => req'[s] = req[s]
  BY DEF HangUp, IndInv, HandlersInv
<1>8. \A i \in 1..Len(queue') : queue'[i] # Orphan => queue'[i] = queue[i] /\ queue[i] # r
  BY <1>5, <1>6
<1>9. \A i \in 1..Len(queue') : queue'[i] # Orphan => req'[queue'[i]].pc = "verifying"
  BY <1>3, <1>6, <1>7, <1>8 DEF IndInv, QueueInv
<1>10. \A i, j \in 1..Len(queue') : queue'[i] = queue'[j] /\ queue'[i] # Orphan => i = j
  BY <1>6, <1>8 DEF IndInv, QueueInv
<1>11. QueueInv'
  BY <1>6, <1>9, <1>10 DEF QueueInv
<1>. QED
  BY <1>1, <1>2, <1>11 DEF IndInv

\* A death makes the checkpoint the kernel, and drops every handler and task.
LEMMA CrashStep ==
  ASSUME IndInv, Crash
  PROVE  IndInv'
<1> USE DEF Crash, Restored
<1>1. ScalarsInv'
  BY DEF IndInv, ScalarsInv
<1>2. HandlersInv' /\ LoopInv'
  BY DEF HandlersInv, LoopInv
<1>3. QueueInv'
  BY EmptySeq DEF QueueInv
<1>4. DurableInv'
  BY DEF IndInv, DurableInv, CheckpointsSurvive
<1>. QED
  BY <1>1, <1>2, <1>3, <1>4 DEF IndInv

LEMMA IndStep == IndInv /\ [Next]_vars => IndInv'
<1> SUFFICES ASSUME IndInv, [Next]_vars PROVE IndInv'
  OBVIOUS
<1>1. CASE Checkpoint
  <2>1. ScalarsInv' /\ HandlersInv' /\ QueueInv' /\ LoopInv'
    BY <1>1, HandlersUnchanged DEF Checkpoint, handlers, IndInv, ScalarsInv
  <2>2. DurableInv'
    BY <1>1 DEF Checkpoint, handlers, IndInv, DurableInv, CheckpointsSurvive
  <2>. QED
    BY <2>1, <2>2 DEF IndInv
<1>2. CASE Boot
  <2>1. ScalarsInv' /\ HandlersInv' /\ QueueInv' /\ LoopInv'
    BY <1>2 DEF Boot, handlers, IndInv, ScalarsInv, HandlersInv, QueueInv, LoopInv
  <2>2. DurableInv'
    BY <1>2, DurableUnchanged DEF Boot, handlers, durable
  <2>. QED
    BY <2>1, <2>2 DEF IndInv
<1>3. CASE ClockMoves
  <2>1. ScalarsInv' /\ HandlersInv' /\ QueueInv' /\ LoopInv'
    BY <1>3, HandlersUnchanged DEF ClockMoves, handlers, IndInv, ScalarsInv
  <2>2. DurableInv'
    BY <1>3, DurableUnchanged DEF ClockMoves, handlers, durable
  <2>. QED
    BY <2>1, <2>2 DEF IndInv
<1>4. CASE UNCHANGED vars
  <2>1. ScalarsInv' /\ HandlersInv' /\ QueueInv' /\ LoopInv'
    BY <1>4, HandlersUnchanged DEF vars, handlers, IndInv, ScalarsInv
  <2>2. DurableInv'
    BY <1>4, DurableUnchanged DEF vars, handlers, durable
  <2>. QED
    BY <2>1, <2>2 DEF IndInv
<1>5. ProofLists \subseteq Seq(ProofKinds)
  BY ClientAssumption
<1>. QED
  BY <1>1, <1>2, <1>3, <1>4, <1>5, MintStep, SubmitStep, BindStep, VerifyStep, RecordStep, HangUpStep, CrashStep
  DEF Next

LEMMA Invariance == Spec => []IndInv
BY IndInit, IndStep, PTL DEF Spec

\* What the invariant says of the board.
LEMMA BoardStands ==
  IndInv => RunsAreProved /\ OneRunPerNonce /\ ElapsedFits /\ CheckpointsSurvive
<1> SUFFICES ASSUME IndInv
             PROVE  RunsAreProved /\ OneRunPerNonce /\ ElapsedFits /\ CheckpointsSurvive
  OBVIOUS
<1>1. RunsAreProved
  BY DEF IndInv, DurableInv, KernelInv, RunsInv, RunsAreProved
<1>2. OneRunPerNonce
  BY DEF IndInv, DurableInv, KernelInv, RunsApart, OneRunPerNonce
<1>3. ElapsedFits
  <2> SUFFICES ASSUME NEW run \in Board
               PROVE  /\ run.elapsed <= ServerWindow(run)
                      /\ ServerWindow(run) = run.submitted - run.issued
    BY DEF ElapsedFits
  <2>1. /\ run.elapsed # 0
        /\ run.elapsed <= run.submitted - run.issued
    BY DEF IndInv, DurableInv, KernelInv, RunsInv, Board
  <2>2. run.elapsed \in Nat /\ run.issued \in Nat /\ run.submitted \in Nat
    BY ClientAssumption DEF IndInv, DurableInv, KernelInv, KernelState, Run, Board
  <2>3. DaDiff(run.issued, run.submitted) = run.submitted - run.issued
    BY <2>1, <2>2, MaxWith DEF DaDiff
  <2>4. ServerWindow(run) = run.submitted - run.issued
    BY <2>1, <2>2, <2>3, MaxWith DEF ServerWindow
  <2>. QED
    BY <2>1, <2>4
<1>4. CheckpointsSurvive
  BY DEF IndInv, DurableInv
<1>. QED
  BY <1>1, <1>2, <1>3, <1>4

-----------------------------------------------------------------------------
(* Theorems.                                                               *)

\* The kernel, its checkpoint, the handlers and the verifier's queue keep their
\* types in every behaviour.
THEOREM TypeCorrect == Spec => []TypeOK
<1>1. IndInv => TypeOK
  BY DEF IndInv, ScalarsInv, HandlersInv, QueueInv, DurableInv, KernelInv, TypeOK
<1>. QED
  BY <1>1, Invariance, PTL

\* No run, on the board or in the checkpoint, without K proofs that verified, one
\* at every index, whatever hung up, queued or died meanwhile.
THEOREM ProvedKTimes == Spec => []RunsAreProved
BY BoardStands, Invariance, PTL

\* A challenge earns one run and an id names one run, for any number of
\* submissions in flight and after any rollback.
THEOREM CreditedOnce == Spec => []OneRunPerNonce
BY BoardStands, Invariance, PTL

\* The time a run claims fits between its mint and its submission, and the
\* window it is ranked over is exactly that span, though the clock may step back.
THEOREM TimeFits == Spec => []ElapsedFits
BY BoardStands, Invariance, PTL

\* What a checkpoint holds is never lost, and while every death found the kernel
\* checkpointed no acknowledged run is.
THEOREM NothingLost == Spec => []CheckpointsSurvive
BY BoardStands, Invariance, PTL

-----------------------------------------------------------------------------
(* The refinement.                                                         *)

\* How a challenge and a run appear in the ledger.
Opening(c) == [nonce |-> c.nonce, issued |-> c.issued]
Credit(r)  == [id |-> r.id, nonce |-> r.nonce, issued |-> r.issued, submitted |-> r.submitted]

Openings(ker) == {Opening(c) : c \in ker.challenges}
Credits(ker)  == {Credit(r) : r \in ker.runs}

\* LedgerNext, of the kernel.
LEMMA LedgerNextOf ==
  ASSUME rolled \in BOOLEAN, rolled' \in BOOLEAN,
         ~rolled' => /\ ~rolled
                     /\ Openings(kernel) \subseteq Openings(kernel')
                     /\ Credits(kernel) \subseteq Credits(kernel'),
         \A r \in Credits(kernel') \ Credits(kernel) :
           /\ [nonce |-> r.nonce, issued |-> r.issued] \in Openings(kernel)
           /\ r.submitted <= r.issued + Hour
           /\ \A s \in Credits(kernel') \ {r} : s.nonce # r.nonce /\ s.id # r.id,
         \A r, s \in Credits(kernel') \ Credits(kernel) : r = s
  PROVE  L!LedgerNext
BY DEF L!LedgerNext, L!Keeps, L!Eligible, Openings, Credits, Opening, Credit

LEMMA LedgerStep ==
  IndInv /\ [Next]_vars => [L!LedgerNext]_(L!ledgerVars)
<1> SUFFICES ASSUME IndInv, [Next]_vars PROVE [L!LedgerNext]_(L!ledgerVars)
  OBVIOUS
<1>1. ASSUME UNCHANGED <<kernel, rolled>> PROVE UNCHANGED L!ledgerVars
  BY <1>1 DEF L!ledgerVars
<1>2. rolled \in BOOLEAN /\ rolled' \in BOOLEAN
  BY IndStep DEF IndInv, ScalarsInv
<1>3. ASSUME NEW n \in Nonces, Mint(n) PROVE L!LedgerNext
  <2>1. kernel'.runs = kernel.runs /\ UNCHANGED rolled
    BY <1>3, OpenedInv DEF Mint
  <2>2. kernel.challenges \subseteq kernel'.challenges
    BY <1>3 DEF Mint, Opened, IndInv, DurableInv, KernelInv, KernelState
  <2>3. /\ Openings(kernel) \subseteq Openings(kernel')
        /\ Credits(kernel') = Credits(kernel)
    BY <2>1, <2>2 DEF Openings, Credits
  <2>. QED
    BY <1>2, <2>1, <2>3, LedgerNextOf
<1>4. ASSUME NEW r \in Requests, Record(r), Accepts(req[r].nonce, req[r].elapsed)
      PROVE  L!LedgerNext
  <2> DEFINE n == req[r].nonce
             run == RunOf(n, req[r].elapsed)
             open == [nonce |-> n, issued |-> run.issued, used |-> FALSE]
  <2>1. /\ kernel'.runs = kernel.runs \cup {run}
        /\ open \in kernel.challenges
        /\ kernel'.challenges = (kernel.challenges \ {open}) \cup {UsedBy(run)}
        /\ run.submitted <= run.issued + Hour
        /\ \A s \in kernel.runs : s.nonce # run.nonce /\ s.id # run.id
    BY <1>4, RecordedInv DEF Record
  <2>2. run.nonce = n
    BY DEF RunOf
  <2>3. Opening(open) = [nonce |-> run.nonce, issued |-> run.issued]
        /\ Opening(UsedBy(run)) = Opening(open)
    BY <2>2 DEF Opening, UsedBy
  <2> HIDE DEF run, open, n
  <2>4. Credits(kernel') = Credits(kernel) \cup {Credit(run)}
    BY <2>1 DEF Credits
  <2>5. Openings(kernel') = Openings(kernel)
    BY <2>1, <2>3 DEF Openings
  <2>6. Opening(open) \in Openings(kernel)
    BY <2>1 DEF Openings
  <2>7. \A s \in Credits(kernel) : s.nonce # Credit(run).nonce /\ s.id # Credit(run).id
    BY <2>1 DEF Credits, Credit
  <2>8. /\ Credit(run).nonce = run.nonce /\ Credit(run).issued = run.issued
        /\ Credit(run).submitted = run.submitted
    BY DEF Credit
  <2>9. UNCHANGED rolled
    BY <1>4 DEF Record
  <2>. QED
    BY <1>2, <2>1, <2>3, <2>4, <2>5, <2>6, <2>7, <2>8, <2>9, LedgerNextOf
<1>5. ASSUME Crash PROVE L!LedgerNext
  <2>1. kernel' = saved /\ rolled' = (rolled \/ kernel # saved)
    BY <1>5 DEF Crash, Restored
  <2>2. Credits(kernel') \subseteq Credits(kernel)
    BY <2>1 DEF IndInv, DurableInv, CheckpointsSurvive, Credits
  <2>3. ~rolled' => ~rolled /\ kernel' = kernel
    BY <1>2, <2>1
  <2>. QED
    BY <1>2, <2>2, <2>3, LedgerNextOf
<1>6. \/ \E n \in Nonces : Mint(n)
      \/ \E r \in Requests : Record(r) /\ Accepts(req[r].nonce, req[r].elapsed)
      \/ Crash
      \/ UNCHANGED <<kernel, rolled>>
  BY DEF Next, Submit, Bind, Record, HangUp, Verify, Checkpoint, Boot, ClockMoves, vars, durable, handlers
<1>. QED
  BY <1>1, <1>3, <1>4, <1>5, <1>6

\* Every behaviour of the kernel and its checkpoints is one of the ledger: runs
\* are credited one at a time, each against a challenge handed out, inside its
\* hour and once, and what was lost was lost to a rollback.
THEOREM KernelIsALedger == Spec => ImplementsLedger
<1>1. Init => L!LedgerInit
  BY DEF Init, EmptyKernel, L!LedgerInit
<1>. QED
  BY <1>1, LedgerStep, Invariance, PTL DEF Spec, ImplementsLedger, L!LedgerSpec
=============================================================================
