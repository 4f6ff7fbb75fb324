------------------------- MODULE AiSubmissionProofs -------------------------
(***************************************************************************)
(* What holds of the AI track's handlers for every number of submissions,  *)
(* every set of tiers, targets and statements, and through any cut append, *)
(* death and re-configuration:                                             *)
(*   - the handlers drive the store as AiStore allows (StoreDriven), so    *)
(*     that every theorem of AiStoreProofs holds of them;                  *)
(*   - a run is labelled with terms its wins were verified under           *)
(*     (LabelledAsVerified);                                               *)
(*   - a tier is kept from mint to score (TierKept);                       *)
(*   - one submission of a challenge is answered 200 (AnsweredOnce).       *)
(* The inductive invariant speaks of every line the store holds anywhere   *)
(* (in memory, closed, or in the unterminated tail a death would replay)   *)
(* and of every handler: each nonce was minted, and each line and handler  *)
(* agrees with what the client of a tier was told.                         *)
(***************************************************************************)
EXTENDS AiSubmission, AiStoreProofs

-----------------------------------------------------------------------------
(* The inductive invariant.                                                *)

\* A handler past its early check, and one that refused.
Flights == [pc : {"waiting", "verifying", "verified"}, nonce : Nonces,
            statement : Statements, ground : Targets, target : Targets]
Refusals == [pc : {"refused"}, nonce : Nonces, statement : Statements, ground : Targets]

\* What a run claims of its wins.
Claim(n, terms) == [nonce |-> n, terms |-> terms]

\* Everything the store holds: in memory, or where a restart would read it.
Held == pending \cup runs \cup Readable

\* A held line has a minted nonce; a run is proved, and both kinds carry the tier
\* its client was told.
GoodLine(e) ==
  /\ e \in Event
  /\ e.nonce \in minted
  /\ e \in RunLine => Claim(e.nonce, e.terms) \in proved
  /\ \A t \in told : t.nonce = e.nonce =>
       /\ e \in ChallengeLine => e.tier = t.target
       /\ e \in RunLine => e.terms.target = t.target

\* A handler has a minted nonce and the tier its client was told, what it verified
\* is proved, and what it refused under the tier's statement was below the tier.
GoodHandler(q) ==
  \/ q = Idle
  \/ /\ q \in Flights
     /\ q.nonce \in minted
     /\ q.pc = "verified" => Claim(q.nonce, TermsOf(q)) \in proved
     /\ \A t \in told : t.nonce = q.nonce => q.target = t.target
  \/ /\ q \in Refusals
     /\ q.nonce \in minted
     /\ \A t \in told :
          t.nonce = q.nonce /\ t.statement = q.statement => q.ground > t.target

SubTypes ==
  /\ minted \subseteq Nonces
  /\ config \in [Statements -> InstanceTargets]
  /\ told \subseteq [nonce : minted, statement : Statements, target : Tiers]
  /\ \A t \in told : Scales(t.statement, t.target)
  /\ proved \subseteq [nonce : Nonces, terms : Terms]
  /\ DOMAIN req = Requests

SubInv ==
  /\ SubTypes
  /\ \A e \in Held : GoodLine(e)
  /\ \A r \in Requests : GoodHandler(req[r])

-----------------------------------------------------------------------------
(* The handlers drive the store.                                           *)

\* A handler that verified its wins.
LEMMA VerifiedFlight ==
  ASSUME SubInv, NEW r \in Requests, req[r].pc = "verified"
  PROVE  /\ req[r] \in Flights
         /\ req[r].nonce \in Nonces /\ req[r].nonce \in minted
         /\ TermsOf(req[r]) \in Terms
         /\ Claim(req[r].nonce, TermsOf(req[r])) \in proved
         /\ \A t \in told : t.nonce = req[r].nonce => TermsOf(req[r]).target = t.target
<1>1. GoodHandler(req[r]) /\ req[r] # Idle /\ req[r] \notin Refusals
  BY DEF SubInv, Idle, Refusals
<1>2. req[r] \in Flights
  BY <1>1 DEF GoodHandler
<1>3. TermsOf(req[r]) \in Terms /\ TermsOf(req[r]).target = req[r].target
  BY <1>2, TermsAssumption DEF Flights, TermsOf
<1>4. req[r].nonce \in Nonces
  BY <1>2 DEF Flights
<1>. QED
  BY <1>1, <1>2, <1>3, <1>4 DEF GoodHandler

\* Each step of a handler is a step of the store, or none.
LEMMA StoreStep == SubInv /\ [SubNext]_allVars => [Next]_vars
<1> SUFFICES ASSUME SubInv, [SubNext]_allVars PROVE [Next]_vars
  OBVIOUS
<1>1. ASSUME NEW n \in Nonces, NEW s \in Statements, NEW tier \in Askable(s),
             MintChallenge(n, s, tier) \/ MintStranded(n, tier) \/ CrashInMint(n, tier)
      PROVE  Next
  BY <1>1 DEF MintChallenge, MintStranded, CrashInMint, Next, Askable
<1>2. ASSUME NEW r \in Requests, Commit(r) \/ CrashInCommit(r)
      PROVE  [Next]_vars
  <2>1. req[r].pc = "verified"
    BY <1>2 DEF Commit, CrashInCommit
  <2>2. req[r].nonce \in Nonces /\ TermsOf(req[r]) \in Terms
    BY <2>1, VerifiedFlight
  <2>. QED
    BY <1>2, <2>2 DEF Commit, CrashInCommit, Next
<1>3. ASSUME UNCHANGED vars PROVE [Next]_vars
  BY <1>3
<1>4. ASSUME CrashBetween \/ BootConfigured \/ StoreAlone PROVE [Next]_vars
  BY <1>4 DEF CrashBetween, BootConfigured, StoreAlone, Next
<1>. QED
  BY <1>1, <1>2, <1>3, <1>4
  DEF SubNext, MintAbandoned, Submit, ContextReady, Unavailable, Verify, HangUp, allVars

-----------------------------------------------------------------------------
(* What a step of the store can come to hold.                              *)

\* The file, after an append, holds the line appended and what it held.
LEMMA AppendReadable ==
  ASSUME TypeOK, NEW line \in Event, AppendWhole(line) \/ AppendTorn(line)
  PROVE  Readable' \subseteq Readable \cup {line}
<1> SUFFICES ASSUME NEW i \in 1..NumLines', LineAt(i)' \in Event, LineAt(i)' # line
             PROVE  LineAt(i)' \in Readable
  BY DEF Readable
<1>1. CASE i \in 1..Len(log)
  <2>1. LineAt(i)' = log[i]
    BY <1>1, WholeShape, TornShape DEF LineAt
  <2>2. i \in 1..NumLines /\ LineAt(i) = log[i]
    BY <1>1 DEF TypeOK, NumLines, LineAt
  <2>. QED
    BY <2>1, <2>2 DEF Readable
<1>2. CASE i \notin 1..Len(log)
  <2>1. CASE AppendWhole(line)
    <3>1. Len(log) \in Nat /\ NumLines' = Len(log) + 1 /\ LineAt(i)' = log'[i]
      BY <2>1, WholeShape DEF AppendWhole, NumLines, LineAt
    <3>2. i = Len(log) + 1
      BY <1>2, <3>1
    <3>3. LineAt(i)' \in {line, Junk, Garbled}
      BY <2>1, <3>1, <3>2 DEF AppendWhole, TypeOK, Glued
    <3>. QED
      BY <3>3 DEF Event, ChallengeLine, RunLine, Junk, Garbled
  <2>2. CASE AppendTorn(line)
    <3>1. LineAt(i)' = tail' /\ tail' \in {line, Junk, Garbled}
      BY <1>2, <2>2 DEF AppendTorn, Remnants, Glued, NumLines, LineAt, TypeOK
    <3>. QED
      BY <3>1 DEF Event, ChallengeLine, RunLine, Junk, Garbled
  <2>. QED BY <2>1, <2>2
<1>. QED BY <1>1, <1>2

\* A file left alone holds what it held.
LEMMA SameReadable == UNCHANGED disk => Readable' = Readable
BY DEF disk, Readable, NumLines, LineAt

LEMMA HeldOfMint ==
  ASSUME TypeOK, NEW n \in Nonces, NEW tier \in Tiers \cup {Untiered},
         \/ RecordChallenge(n, tier)
         \/ RecordChallengeFails(n, tier)
         \/ CrashInAppend(Mint(n, tier))
  PROVE  Held' \subseteq Held \cup {Mint(n, tier)}
<1>1. Mint(n, tier) \in Event
  BY EventTypes DEF Event
<1>2. Readable' \subseteq Readable \cup {Mint(n, tier)}
  BY <1>1, AppendReadable, SameReadable
  DEF RecordChallenge, RecordChallengeFails, CrashInAppend, AppendFails
<1>3. pending' \subseteq pending \cup {Mint(n, tier)} /\ runs' \subseteq runs
  BY DEF RecordChallenge, RecordChallengeFails, CrashInAppend, memory, Die, Forget, Put
<1>. QED
  BY <1>2, <1>3 DEF Held

LEMMA HeldOfRun ==
  ASSUME TypeOK, NEW n \in Nonces, NEW terms \in Terms, Live(n),
         \/ CommitRun(n, terms)
         \/ CommitRunFails(n, terms)
         \/ CrashInAppend(RunOf(n, terms))
  PROVE  Held' \subseteq Held \cup {RunOf(n, terms)}
<1>1. RunOf(n, terms) \in Event
  BY EventTypes DEF Event, Live
<1>2. Readable' \subseteq Readable \cup {RunOf(n, terms)}
  BY <1>1, AppendReadable, SameReadable
  DEF CommitRun, CommitRunFails, CrashInAppend, AppendFails
<1>3. pending' \subseteq pending /\ runs' \subseteq runs \cup {RunOf(n, terms)}
  BY DEF CommitRun, CommitRunFails, CrashInAppend, memory, Die, Forget, Drop
<1>. QED
  BY <1>2, <1>3 DEF Held

LEMMA HeldOtherwise ==
  ASSUME TypeOK,
         Crash \/ Boot \/ ReplayLine \/ FinishLoad \/ ClockMoves \/ UNCHANGED vars
  PROVE  Held' \subseteq Held
<1>1. UNCHANGED disk
  BY DEF Crash, Boot, ReplayLine, FinishLoad, ClockMoves, vars
<1>2. Readable' = Readable
  BY <1>1, SameReadable
<1>3. CASE ReplayLine
  <2>1. LineAt(cursor + 1) \in Line /\ cursor + 1 \in 1..NumLines
    BY <1>3 DEF ReplayLine, LineAt, NumLines, TypeOK
  <2>2. LineAt(cursor + 1).ev \in {"challenge", "run"} => LineAt(cursor + 1) \in Readable
    BY <2>1, LineKinds DEF Readable, Event
  <2>. QED
    BY <1>2, <1>3, <2>2 DEF ReplayLine, Held, Put, Drop, memory
<1>4. CASE Crash \/ Boot \/ FinishLoad \/ ClockMoves \/ UNCHANGED vars
  BY <1>2, <1>4 DEF Crash, Die, Boot, Forget, FinishLoad, ClockMoves, vars, memory, Held
<1>. QED BY <1>3, <1>4

-----------------------------------------------------------------------------
(* The invariant is inductive.                                             *)

\* Lines and handlers stay good while the histories grow, and what is told is
\* told of a fresh nonce.
Grows ==
  /\ minted \subseteq minted'
  /\ proved \subseteq proved'
  /\ \A t \in told' \ told : t.nonce \notin minted

LEMMA GoodLineKept ==
  ASSUME Grows, NEW e, GoodLine(e)
  PROVE  GoodLine(e)'
BY DEF Grows, GoodLine

LEMMA GoodHandlerKept ==
  ASSUME Grows, NEW q, GoodHandler(q)
  PROVE  GoodHandler(q)'
BY DEF Grows, GoodHandler

\* One step: a line may join and a handler may move, each into good order.
LEMMA SubInvKept ==
  ASSUME SubInv, SubTypes', Grows,
         \A e \in Held' : e \in Held \/ GoodLine(e)',
         \A r \in Requests : \A q : q = req'[r] => q = req[r] \/ GoodHandler(q)'
  PROVE  SubInv'
<1>1. \A e \in Held' : GoodLine(e)'
  BY GoodLineKept DEF SubInv
<1>2. ASSUME NEW r \in Requests PROVE GoodHandler(req[r])'
  <2>1. PICK q : q = req'[r]
    OBVIOUS
  <2>2. q = req[r] => GoodHandler(q)
    BY DEF SubInv
  <2>3. GoodHandler(q)'
    BY <2>1, <2>2, GoodHandlerKept
  <2>. QED
    BY <2>1, <2>3 DEF GoodHandler
<1>. QED
  BY <1>1, <1>2 DEF SubInv

\* The idle handler is good.
LEMMA GoodIdle == \A q : q = Idle => GoodHandler(q)'
BY DEF GoodHandler

\* A handler that ends, alone or with all the others, is idle.
LEMMA EndsIdle ==
  ASSUME SubInv, NEW r \in Requests, UNCHANGED req \/ AllIdle \/ req' = [req EXCEPT ![r] = Idle]
  PROVE  /\ \A s \in Requests : \A q : q = req'[s] => q = req[s] \/ GoodHandler(q)'
         /\ DOMAIN req' = Requests
<1>1. \A s \in Requests : req'[s] = req[s] \/ req'[s] = Idle
  BY DEF SubInv, SubTypes, AllIdle
<1>2. DOMAIN req' = Requests
  BY DEF SubInv, SubTypes, AllIdle
<1>. QED
  BY <1>1, <1>2, GoodIdle

\* A mint's line is good: its nonce is fresh, and the client is told its tier.
LEMMA MintStep ==
  ASSUME SubInv, TypeOK, NEW n \in Nonces, NEW s \in Statements, NEW tier \in Askable(s),
         MintChallenge(n, s, tier) \/ MintStranded(n, tier) \/ CrashInMint(n, tier)
  PROVE  SubInv'
<1>0. tier \in Tiers \cup {Untiered} /\ (tier # Untiered => tier \in Tiers /\ Scales(s, tier))
  BY DEF Askable
<1>1. /\ n \notin minted /\ minted' = minted \cup {n} /\ UNCHANGED <<config, proved>>
      /\ UNCHANGED req \/ AllIdle
      /\ \/ told' = told
         \/ /\ tier # Untiered
            /\ told' = told \cup {[nonce |-> n, statement |-> s, target |-> tier]}
  BY DEF MintChallenge, MintStranded, CrashInMint, TargetTold
<1>2. /\ DOMAIN req' = Requests
      /\ \A r \in Requests : \A q : q = req'[r] => q = req[r] \/ GoodHandler(q)'
  <2>1. \A r \in Requests : req'[r] = req[r] \/ req'[r] = Idle
    BY <1>1 DEF AllIdle
  <2>. QED
    BY <1>1, <2>1, GoodIdle DEF SubInv, SubTypes, AllIdle
<1>3. SubTypes' /\ Grows
  BY <1>0, <1>1, <1>2, UntieredAssumption DEF SubInv, SubTypes, Grows, Scales
<1>4. PICK line : line = Mint(n, tier)
  OBVIOUS
<1>5. Held' \subseteq Held \cup {line}
  BY <1>0, <1>4, HeldOfMint DEF MintChallenge, MintStranded, CrashInMint
<1>6. line \in Event /\ line \notin RunLine /\ line.nonce = n /\ line.tier = tier
  BY <1>0, <1>4, EventTypes DEF Event, Mint, RunLine
<1>7. \A t \in told' : t.nonce = n => tier = t.target
  BY <1>1 DEF SubInv, SubTypes
<1>8. GoodLine(line)'
  BY <1>1, <1>6, <1>7 DEF GoodLine
<1>. QED
  BY <1>2, <1>3, <1>5, <1>8, SubInvKept

\* A run's line is good: it carries what its handler verified.
LEMMA CreditStep ==
  ASSUME SubInv, TypeOK, NEW r \in Requests, Commit(r) \/ CrashInCommit(r)
  PROVE  SubInv'
<1> DEFINE q == req[r]
<1>1. /\ UNCHANGED <<minted, config, told, proved>>
      /\ req' = [req EXCEPT ![r] = Idle] \/ AllIdle
      /\ q.pc = "verified"
  BY DEF Commit, CrashInCommit
<1>2. /\ q.nonce \in Nonces /\ q.nonce \in minted
      /\ TermsOf(q) \in Terms
      /\ Claim(q.nonce, TermsOf(q)) \in proved
      /\ \A t \in told : t.nonce = q.nonce => TermsOf(q).target = t.target
  BY <1>1, VerifiedFlight
<1>3. /\ DOMAIN req' = Requests
      /\ \A s \in Requests : \A p : p = req'[s] => p = req[s] \/ GoodHandler(p)'
  BY <1>1, EndsIdle
<1>4. SubTypes' /\ Grows
  BY <1>1, <1>3 DEF SubInv, SubTypes, Grows, Scales
<1>5. CASE UNCHANGED vars
  BY <1>3, <1>4, <1>5, HeldOtherwise, SubInvKept
<1>6. CASE ~UNCHANGED vars
  <2>1. PICK line : line = RunOf(q.nonce, TermsOf(q))
    OBVIOUS
  <2>2. /\ Live(q.nonce)
        /\ \/ CommitRun(q.nonce, TermsOf(q))
           \/ CommitRunFails(q.nonce, TermsOf(q))
           \/ CrashInAppend(RunOf(q.nonce, TermsOf(q)))
    BY <1>6 DEF Commit, CrashInCommit, CommitRun, CommitRunFails
  <2>3. Held' \subseteq Held \cup {line}
    BY <1>2, <2>1, <2>2, HeldOfRun
  <2>4. line \in RunLine /\ line \in Event /\ line \notin ChallengeLine
    BY <1>2, <2>1, <2>2, EventTypes DEF Live, Event, RunLine, ChallengeLine
  <2>5. line.nonce = q.nonce /\ line.terms = TermsOf(q)
    BY <2>1 DEF RunOf
  <2>6. PICK n, terms : n = q.nonce /\ terms = TermsOf(q)
    OBVIOUS
  <2>7. GoodLine(line)'
    BY <1>1, <1>2, <2>4, <2>5, <2>6 DEF GoodLine
  <2>. QED
    BY <1>3, <1>4, <2>3, <2>7, SubInvKept
<1>. QED BY <1>5, <1>6

\* A submission reads the target its client was told from the pending challenge.
LEMMA SubmitStep ==
  ASSUME SubInv, TypeOK, NEW r \in Requests, NEW n \in Nonces, NEW s \in Statements,
         NEW ground \in Targets, Submit(r, n, s, ground)
  PROVE  SubInv'
<1> DEFINE c == PendingOf(n)
<1>1. c \in pending /\ c.nonce = n
  BY DEF Submit, Live, Pending, PendingOf
<1>2. c \in ChallengeLine /\ GoodLine(c)
  BY <1>1 DEF TypeOK, SubInv, Held
<1>3. PICK q : q = InFlight(IF cell[s].ready THEN "verifying" ELSE "waiting",
                           n, s, ground, VerifyTarget(c, s))
  OBVIOUS
<1>4. VerifyTarget(c, s) \in Targets
  BY <1>2 DEF VerifyTarget, ChallengeLine, Targets, SubInv, SubTypes
<1>5. /\ q \in Flights /\ q.nonce = n /\ q.pc # "verified" /\ q.target = VerifyTarget(c, s)
  BY <1>3, <1>4 DEF InFlight, Flights
<1>6. n \in minted
  BY <1>1, <1>2 DEF GoodLine
<1>7. \A t \in told : t.nonce = n => q.target = t.target
  BY <1>1, <1>2, <1>5, UntieredAssumption DEF GoodLine, VerifyTarget, SubInv, SubTypes
<1>8. UNCHANGED <<vars, minted, config, told, proved>> /\ req' = [req EXCEPT ![r] = q]
  BY <1>3 DEF Submit
<1>9. GoodHandler(q)'
  BY <1>5, <1>6, <1>7, <1>8 DEF GoodHandler
<1>10. \A t \in Requests : \A p : p = req'[t] => p = req[t] \/ GoodHandler(p)'
  BY <1>8, <1>9 DEF SubInv, SubTypes
<1>11. SubTypes' /\ Grows
  BY <1>8 DEF SubInv, SubTypes, Grows, Scales
<1>. QED
  BY <1>8, <1>10, <1>11, HeldOtherwise, SubInvKept

\* What a verification accepts it has proved at the target it was checked at; what
\* it refuses was ground at an easier one.
LEMMA VerifyStep ==
  ASSUME SubInv, TypeOK, NEW r \in Requests, Verify(r)
  PROVE  SubInv'
<1> DEFINE q == req[r]
<1>1. q.pc = "verifying" /\ UNCHANGED <<vars, minted, config, told>>
  BY DEF Verify
<1>2. GoodHandler(q) /\ q # Idle /\ q \notin Refusals
  BY <1>1 DEF SubInv, Idle, Refusals
<1>3. q \in Flights /\ q.nonce \in minted /\ \A t \in told : t.nonce = q.nonce => q.target = t.target
  BY <1>2 DEF GoodHandler
<1>4. q.ground \in Nat /\ q.target \in Nat /\ q.target \in Targets
  BY <1>3, TargetAssumption DEF Flights
<1>5. CASE Accepts(q)
  <2>1. PICK p : p = [q EXCEPT !.pc = "verified"]
    OBVIOUS
  <2>2. /\ p \in Flights /\ p.nonce = q.nonce /\ p.statement = q.statement /\ p.target = q.target
    BY <1>3, <2>1 DEF Flights
  <2>3. req' = [req EXCEPT ![r] = p] /\ proved' = proved \cup Proves(q)
    BY <1>5, <2>1 DEF Verify
  <2>4. Claim(p.nonce, TermsOf(p)) \in Proves(q)
    BY <1>4, <1>5, <2>2 DEF Claim, TermsOf, Proves, Accepts
  <2>5. Proves(q) \subseteq [nonce : Nonces, terms : Terms]
    BY <1>3, TermsAssumption DEF Proves, Flights
  <2>6. GoodHandler(p)'
    BY <1>1, <1>3, <2>2, <2>3, <2>4 DEF GoodHandler
  <2>7. \A t \in Requests : \A o : o = req'[t] => o = req[t] \/ GoodHandler(o)'
    BY <2>3, <2>6 DEF SubInv, SubTypes
  <2>8. SubTypes' /\ Grows
    BY <1>1, <2>3, <2>5 DEF SubInv, SubTypes, Grows, Scales
  <2>. QED
    BY <1>1, <2>7, <2>8, HeldOtherwise, SubInvKept
<1>6. CASE ~Accepts(q)
  <2>1. PICK p : p = Refused(q)
    OBVIOUS
  <2>2. p \in Refusals /\ p.nonce = q.nonce /\ p.statement = q.statement /\ p.ground = q.ground
    BY <1>3, <2>1 DEF Refused, Refusals, Flights
  <2>3. req' = [req EXCEPT ![r] = p] /\ UNCHANGED proved
    BY <1>6, <2>1 DEF Verify
  <2>4. Scales(q.statement, q.target) => p.ground > q.target
    BY <1>4, <1>6, <2>2 DEF Accepts
  <2>5. ASSUME NEW t \in told, t.nonce = p.nonce, t.statement = p.statement
        PROVE  p.ground > t.target
    <3>1. Scales(t.statement, t.target)
      BY DEF SubInv, SubTypes
    <3>. QED
      BY <1>3, <2>2, <2>4, <2>5, <3>1
  <2>8. GoodHandler(p)'
    BY <1>1, <1>3, <2>2, <2>5 DEF GoodHandler
  <2>6. \A t \in Requests : \A o : o = req'[t] => o = req[t] \/ GoodHandler(o)'
    BY <2>3, <2>8 DEF SubInv, SubTypes
  <2>7. SubTypes' /\ Grows
    BY <1>1, <2>3 DEF SubInv, SubTypes, Grows, Scales
  <2>. QED
    BY <1>1, <2>6, <2>7, HeldOtherwise, SubInvKept
<1>. QED BY <1>5, <1>6

\* A context that is ready sends the requests that waited for it on.
LEMMA ReadyStep ==
  ASSUME SubInv, TypeOK, NEW r \in Requests, NEW s \in Statements, ContextReady(r, s)
  PROVE  SubInv'
<1>1. UNCHANGED <<vars, minted, config, told, proved>> /\ DOMAIN req' = Requests
  BY DEF ContextReady
<1>2. ASSUME NEW w \in Requests, NEW p, p = req'[w] PROVE p = req[w] \/ GoodHandler(p)'
  <2>1. CASE req'[w] = req[w]
    BY <1>2, <2>1
  <2>2. CASE req'[w] # req[w]
    <3>1. req[w].pc = "waiting" /\ p = [req[w] EXCEPT !.pc = "verifying"]
      BY <1>2, <2>2 DEF ContextReady
    <3>2. GoodHandler(req[w]) /\ req[w] # Idle /\ req[w] \notin Refusals
      BY <3>1 DEF SubInv, Idle, Refusals
    <3>3. req[w] \in Flights
      BY <3>2 DEF GoodHandler
    <3>4. /\ p \in Flights /\ p.nonce = req[w].nonce /\ p.target = req[w].target
          /\ p.pc = "verifying"
      BY <3>1, <3>3 DEF Flights
    <3>. QED
      BY <1>1, <3>2, <3>4 DEF GoodHandler
  <2>. QED BY <2>1, <2>2
<1>3. SubTypes' /\ Grows
  BY <1>1 DEF SubInv, SubTypes, Grows, Scales
<1>. QED
  BY <1>1, <1>2, <1>3, HeldOtherwise, SubInvKept

LEMMA SubInit0 == SubInit => SubInv
<1> SUFFICES ASSUME SubInit PROVE SubInv
  OBVIOUS
<1>1. Held = {}
  BY DEF SubInit, Init, Held, Readable, NumLines
<1>2. SubTypes
  BY DEF SubInit, SubTypes
<1>3. \A r \in Requests : GoodHandler(req[r])
  BY DEF SubInit, GoodHandler
<1>. QED
  BY <1>1, <1>2, <1>3 DEF SubInv

LEMMA SubStep == TypeOK /\ SubInv /\ [SubNext]_allVars => SubInv'
<1> SUFFICES ASSUME TypeOK, SubInv, [SubNext]_allVars PROVE SubInv'
  OBVIOUS
<1>1. ASSUME NEW n \in Nonces, MintAbandoned(n) PROVE SubInv'
  <2>1. UNCHANGED <<vars, config, req, told, proved>> /\ minted' = minted \cup {n}
    BY <1>1 DEF MintAbandoned
  <2>2. SubTypes' /\ Grows
    BY <2>1 DEF SubInv, SubTypes, Grows, Scales
  <2>. QED
    BY <2>1, <2>2, HeldOtherwise, SubInvKept
<1>2. ASSUME NEW r \in Requests, HangUp(r) \/ \E s \in Statements : Unavailable(r, s)
      PROVE  SubInv'
  <2>1. UNCHANGED <<vars, minted, config, told, proved>> /\ req' = [req EXCEPT ![r] = Idle]
    BY <1>2 DEF Unavailable, HangUp
  <2>2. SubTypes' /\ Grows
    BY <2>1 DEF SubInv, SubTypes, Grows, Scales
  <2>. QED
    BY <2>1, <2>2, EndsIdle, HeldOtherwise, SubInvKept
<1>3. CASE CrashBetween
  <2>1. Crash /\ AllIdle /\ UNCHANGED <<minted, config, told, proved>>
    BY <1>3 DEF CrashBetween
  <2>2. SubTypes' /\ Grows
    BY <2>1 DEF SubInv, SubTypes, Grows, Scales, AllIdle
  <2>3. \A r \in Requests : \A q : q = req'[r] => GoodHandler(q)'
    BY <2>1, GoodIdle DEF AllIdle
  <2>. QED
    BY <2>1, <2>2, <2>3, HeldOtherwise, SubInvKept
<1>4. CASE BootConfigured
  <2>1. Boot /\ config' \in [Statements -> InstanceTargets] /\ UNCHANGED <<minted, req, told, proved>>
    BY <1>4 DEF BootConfigured
  <2>2. SubTypes' /\ Grows
    BY <2>1 DEF SubInv, SubTypes, Grows, Scales
  <2>. QED
    BY <2>1, <2>2, HeldOtherwise, SubInvKept
<1>5. CASE StoreAlone \/ UNCHANGED allVars
  <2>1. /\ ReplayLine \/ FinishLoad \/ ClockMoves \/ UNCHANGED vars
        /\ UNCHANGED <<minted, config, req, told, proved>>
    BY <1>5 DEF StoreAlone, handlers, allVars
  <2>2. SubTypes' /\ Grows
    BY <2>1 DEF SubInv, SubTypes, Grows, Scales
  <2>. QED
    BY <2>1, <2>2, HeldOtherwise, SubInvKept
<1>. QED
  BY <1>1, <1>2, <1>3, <1>4, <1>5, MintStep, CreditStep, SubmitStep, ReadyStep,
     VerifyStep DEF SubNext

LEMMA SubInvariance == SubSpec => [](IndInv /\ ReplayInv /\ SubInv)
<1>1. SubInit => IndInv /\ ReplayInv
  BY IndInit DEF SubInit, Init, ReplayInv, MemoryIsReplay
<1>2. IndInv => TypeOK
  BY DEF IndInv
<1>. QED
  BY <1>1, <1>2, SubInit0, StoreStep, SubStep, IndStep, ReplayStepInv, PTL DEF SubSpec

-----------------------------------------------------------------------------
(* Theorems.                                                               *)

\* The handlers, whoever hangs up, drive the store as its specification allows:
\* a submission's commit is one of a challenge and terms the store knows.
THEOREM StoreDriven == SubSpec => Spec
<1>1. SubInit => Init
  BY DEF SubInit
<1>. QED
  BY <1>1, StoreStep, SubInvariance, PTL DEF SubSpec, Spec

\* A run on the board, or one a restart would read back, carries terms that its
\* wins were verified under, whichever submission committed it and however the
\* registry was configured meanwhile.
THEOREM LabelledAsVerified == SubSpec => []CreditedAsVerified
<1>1. TypeOK /\ SubInv => CreditedAsVerified
  BY DEF TypeOK, SubInv, Held, GoodLine, Claim, CreditedAsVerified
<1>. QED
  BY <1>1, SubInvariance, PTL DEF IndInv

\* The tier a client was told is the one its wins are verified at and its run is
\* scored at, across restarts and re-calibrations: what was ground at it under its
\* statement is not refused, and under the other statement it scores as it was told.
THEOREM TierKept == SubSpec => []TierHonoured
<1>1. TypeOK /\ SubInv => TierHonoured
  <2> SUFFICES ASSUME TypeOK, SubInv, NEW t \in told
               PROVE  /\ \A r \in Requests :
                           /\ req[r].pc = "refused"
                           /\ req[r].nonce = t.nonce
                           /\ req[r].statement = t.statement
                           => req[r].ground > t.target
                      /\ \A run \in runs : run.nonce = t.nonce => run.terms.target = t.target
    BY DEF TierHonoured
  <2>1. ASSUME NEW r \in Requests, req[r].pc = "refused", req[r].nonce = t.nonce,
               req[r].statement = t.statement
        PROVE  req[r].ground > t.target
    <3>1. GoodHandler(req[r]) /\ req[r] # Idle /\ req[r] \notin Flights
      BY <2>1 DEF SubInv, Idle, Flights
    <3>. QED
      BY <2>1, <3>1 DEF GoodHandler
  <2>2. ASSUME NEW run \in runs, run.nonce = t.nonce
        PROVE  run.terms.target = t.target
    BY <2>2 DEF TypeOK, SubInv, Held, GoodLine
  <2>. QED BY <2>1, <2>2
<1>. QED
  BY <1>1, SubInvariance, PTL DEF IndInv

\* However many submissions of a challenge verified at the same time, one is
\* answered 200: two acknowledged runs of one nonce would be two lines of the file.
THEOREM AnsweredOnce == SubSpec => []OneSubmissionCredited
<1>1. IndInv => OneSubmissionCredited
  <2> SUFFICES ASSUME IndInv, torn = 0, NEW e \in AckedRuns, NEW f \in AckedRuns, e.nonce = f.nonce
               PROVE  e = f
    BY DEF OneSubmissionCredited
  <2>1. PICK i \in 1..Len(log) : log[i] = e
    BY DEF IndInv, WholeUntilTorn, AckedRuns
  <2>2. PICK j \in 1..Len(log) : log[j] = f
    BY DEF IndInv, WholeUntilTorn, AckedRuns
  <2>3. IsRun(e) /\ IsRun(f)
    BY DEF AckedRuns, RunLine, IsRun
  <2>. QED
    BY <2>1, <2>2, <2>3 DEF IndInv, ClosedDistinct, Clash
<1>. QED
  BY <1>1, SubInvariance, PTL
=============================================================================
