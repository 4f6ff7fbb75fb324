--------------------------- MODULE AiStoreProofs ---------------------------
(***************************************************************************)
(* What holds of the AI store for every set of nonces, window and bound,   *)
(* and through any sequence of cut appends and deaths:                     *)
(*   - the types (TypeCorrect);                                            *)
(*   - a challenge earns one run and an id names one run (CreditedOnce);   *)
(*   - a run was submitted inside its window (WindowKept);                 *)
(*   - without a cut append no acknowledged run is lost (NothingLost), and *)
(*     with them no more runs than there were cuts (LossesAreCuts);        *)
(*   - a serving store's memory is the replay of its file                  *)
(*     (MemoryReplayed);                                                   *)
(*   - each step is a step of the Ledger, or none (StoreIsALedger).        *)
(* The inductive invariant relates the file to the board: run lines never  *)
(* clash, and a closed run line is on the board of a serving store, so the *)
(* `used` set that guards commit_run covers the whole file.                *)
(***************************************************************************)
EXTENDS AiStore, FiniteSetTheorems, TLAPS

-----------------------------------------------------------------------------
(* Type correctness.                                                       *)

\* What TypeOK says of the variables an append writes.
DiskTypes ==
  /\ log' \in Seq(Line)
  /\ tail' \in Line \cup {Nothing}
  /\ NumLines \in Nat /\ NumLines' \in Nat
  /\ NumLines' >= NumLines
  /\ torn' \in 0..MaxTorn

\* An append leaves a file of lines behind it.
LEMMA AppendTypes ==
  ASSUME TypeOK, NEW line \in Event, AppendWhole(line) \/ AppendTorn(line)
  PROVE  DiskTypes
<1> USE BoundsAssumption DEF TypeOK, Line, NumLines, DiskTypes
<1>1. Junk \in Line /\ Garbled \in Line
  BY DEF Line
<1>2. CASE AppendWhole(line)
  BY <1>1, <1>2 DEF AppendWhole, Glued, Nothing
<1>3. CASE AppendTorn(line)
  <2>1. tail' \in Line \cup {Nothing}
    BY <1>1, <1>3 DEF AppendTorn, Remnants, Glued
  <2>2. tail # Nothing => tail' # Nothing
    BY <1>3 DEF AppendTorn, Remnants, Glued, Nothing, Junk, Garbled
  <2>. QED
    BY <1>3, <2>1, <2>2 DEF AppendTorn
<1>. QED BY <1>2, <1>3

\* So does one that returns an error.
LEMMA FailTypes ==
  ASSUME TypeOK, NEW line \in Event, AppendFails(line)
  PROVE  DiskTypes
<1>1. CASE AppendTorn(line)
  BY <1>1, AppendTypes
<1>2. CASE UNCHANGED <<disk, torn>>
  BY <1>2, BoundsAssumption DEF disk, TypeOK, DiskTypes, NumLines
<1>. QED BY <1>1, <1>2 DEF AppendFails

\* The events the store writes are events.
LEMMA EventTypes ==
  ASSUME TypeOK
  PROVE  /\ \A n \in Nonces, tier \in Tiers \cup {Untiered} : Mint(n, tier) \in ChallengeLine
         /\ \A n \in Nonces, terms \in Terms : Pending(n) => RunOf(n, terms) \in RunLine
<1>1. \A n \in Nonces, tier \in Tiers \cup {Untiered} : Mint(n, tier) \in ChallengeLine
  BY BoundsAssumption DEF Mint, ChallengeLine, TypeOK
<1>2. ASSUME NEW n \in Nonces, NEW terms \in Terms, Pending(n)
      PROVE  RunOf(n, terms) \in RunLine
  <2>1. PendingOf(n) \in pending
    BY <1>2 DEF Pending, PendingOf
  <2>2. PendingOf(n).issued \in Nat
    BY <2>1 DEF TypeOK, ChallengeLine
  <2>. QED
    BY <2>2, BoundsAssumption DEF RunOf, RunLine, TypeOK
<1>. QED BY <1>1, <1>2

LEMMA TypeInit == Init => TypeOK
BY BoundsAssumption DEF Init, TypeOK, Modes, NumLines

LEMMA TypeStep == TypeOK /\ [Next]_vars => TypeOK'
<1> SUFFICES ASSUME TypeOK, [Next]_vars PROVE TypeOK'
  OBVIOUS
<1> USE BoundsAssumption DEF Modes
<1>1. ASSUME NEW n \in Nonces, NEW tier \in Tiers \cup {Untiered}, RecordChallenge(n, tier)
      PROVE  TypeOK'
  <2>1. Mint(n, tier) \in ChallengeLine /\ Mint(n, tier) \in Event
    BY EventTypes DEF Event
  <2>2. DiskTypes
    BY <1>1, <2>1, AppendTypes DEF RecordChallenge
  <2>. QED
    BY <1>1, <2>1, <2>2 DEF RecordChallenge, DiskTypes, Put, TypeOK
<1>2. ASSUME NEW n \in Nonces, NEW tier \in Tiers \cup {Untiered}, RecordChallengeFails(n, tier)
      PROVE  TypeOK'
  <2>1. Mint(n, tier) \in Event
    BY EventTypes DEF Event
  <2>2. DiskTypes
    BY <1>2, <2>1, FailTypes DEF RecordChallengeFails
  <2>. QED
    BY <1>2, <2>1, <2>2 DEF RecordChallengeFails, DiskTypes, memory, TypeOK
<1>3. ASSUME NEW n \in Nonces, NEW terms \in Terms, CommitRun(n, terms)
      PROVE  TypeOK'
  <2>1. RunOf(n, terms) \in RunLine /\ RunOf(n, terms) \in Event
    BY <1>3, EventTypes DEF CommitRun, Live, Event
  <2>2. DiskTypes
    BY <1>3, <2>1, AppendTypes DEF CommitRun
  <2>. QED
    BY <1>3, <2>1, <2>2 DEF CommitRun, DiskTypes, Drop, TypeOK
<1>4. ASSUME NEW n \in Nonces, NEW terms \in Terms, CommitRunFails(n, terms)
      PROVE  TypeOK'
  <2>1. RunOf(n, terms) \in Event
    BY <1>4, EventTypes DEF CommitRunFails, Live, Event
  <2>2. DiskTypes
    BY <1>4, <2>1, FailTypes DEF CommitRunFails
  <2>. QED
    BY <1>4, <2>1, <2>2 DEF CommitRunFails, DiskTypes, memory, TypeOK
<1>5. ASSUME NEW line \in Event, CrashInAppend(line)
      PROVE  TypeOK'
  <2>1. DiskTypes
    BY <1>5, AppendTypes DEF CrashInAppend
  <2>. QED
    BY <1>5, <2>1 DEF CrashInAppend, Die, Forget, DiskTypes, TypeOK
<1>6. CASE Crash
  BY <1>6 DEF Crash, Die, Forget, disk, TypeOK, NumLines
<1>7. CASE Boot
  BY <1>7 DEF Boot, Forget, disk, TypeOK, NumLines
<1>8. CASE ReplayLine
  <2>1. /\ UNCHANGED <<log, tail, mode, now, acked, torn, crashes>>
        /\ cursor' \in 0..NumLines'
    BY <1>8 DEF ReplayLine, disk, TypeOK, NumLines
  <2>2. LineAt(cursor + 1) \in Line
    BY <1>8 DEF ReplayLine, LineAt, NumLines, TypeOK
  <2>3. LineAt(cursor + 1).ev = "challenge" => LineAt(cursor + 1) \in ChallengeLine
    BY <2>2 DEF Line, Event, RunLine, Junk, Garbled
  <2>4. LineAt(cursor + 1).ev = "run" => LineAt(cursor + 1) \in RunLine
    BY <2>2 DEF Line, Event, ChallengeLine, Junk, Garbled
  <2>5. /\ pending' \subseteq ChallengeLine
        /\ used' \subseteq Nonces
        /\ runs' \subseteq RunLine
        /\ nextId' \in Nat \ {0}
    <3>1. CASE LineAt(cursor + 1).ev = "challenge"
      BY <1>8, <2>3, <3>1 DEF ReplayLine, Put, TypeOK, Junk, Garbled
    <3>2. CASE LineAt(cursor + 1).ev = "run"
      <4>1. LineAt(cursor + 1).id \in Nat /\ LineAt(cursor + 1).nonce \in Nonces
        BY <2>4, <3>2 DEF RunLine
      <4>2. /\ pending' = Drop(pending, LineAt(cursor + 1).nonce)
            /\ used' = used \cup {LineAt(cursor + 1).nonce}
            /\ nextId' = NextIdAfter(LineAt(cursor + 1))
            /\ runs' = runs \cup {LineAt(cursor + 1)}
        BY <1>8, <3>2 DEF ReplayLine, Junk, Garbled
      <4>. QED
        BY <2>4, <3>2, <4>1, <4>2 DEF Drop, NextIdAfter, TypeOK
    <3>3. CASE LineAt(cursor + 1).ev \notin {"challenge", "run"}
      BY <1>8, <3>3 DEF ReplayLine, memory, TypeOK
    <3>. QED BY <3>1, <3>2, <3>3
  <2>. QED
    BY <2>1, <2>5 DEF TypeOK
<1>9. CASE FinishLoad
  BY <1>9 DEF FinishLoad, disk, memory, TypeOK, NumLines
<1>10. CASE ClockMoves
  BY <1>10 DEF ClockMoves, disk, memory, TypeOK, NumLines
<1>11. CASE UNCHANGED vars
  BY <1>11 DEF vars, disk, memory, TypeOK, NumLines
<1>12. \A n \in Nonces, tier \in Tiers \cup {Untiered} : Mint(n, tier) \in Event
  BY EventTypes DEF Event
<1>13. \A n \in Nonces, terms \in Terms : Live(n) => RunOf(n, terms) \in Event
  BY EventTypes DEF Event, Live
<1>. QED
  BY <1>1, <1>2, <1>3, <1>4, <1>5, <1>6, <1>7, <1>8, <1>9, <1>10, <1>11, <1>12, <1>13
  DEF Next

\* The file, the maps and the counters keep their types in every behaviour.
THEOREM TypeCorrect == Spec => []TypeOK
BY TypeInit, TypeStep, PTL DEF Spec

-----------------------------------------------------------------------------
(* The inductive invariant.                                                *)

IsRun(line) == line.ev = "run"

\* Two run lines that cannot both be on one board.
Clash(r, s) == r.nonce = s.nonce \/ r.id = s.id

InWindow(r) == r.submitted <= r.issued + Window

\* No two closed run lines clash.
ClosedDistinct ==
  \A i, j \in 1..Len(log) :
    IsRun(log[i]) /\ IsRun(log[j]) /\ Clash(log[i], log[j]) => i = j

\* An unterminated run line clashes with no closed one.
TailDistinct ==
  \A i \in 1..Len(log) : IsRun(tail) /\ IsRun(log[i]) => ~Clash(log[i], tail)

\* The `used` set and the id counter cover the board.
BoardMarked == \A r \in runs : r.nonce \in used /\ r.id < nextId

\* A serving store has every closed run line on its board.
ClosedOnBoard ==
  mode = "serving" => \A i \in 1..Len(log) : IsRun(log[i]) => log[i] \in runs

\* A loading store has on its board exactly the run lines it has read.
BoardRead ==
  mode = "loading" =>
    /\ \A i \in 1..cursor : IsRun(LineAt(i)) => LineAt(i) \in runs
    /\ \A r \in runs : \E i \in 1..cursor : LineAt(i) = r

\* Every run line was written inside its window.
LinesInWindow ==
  \A i \in 1..NumLines : IsRun(LineAt(i)) => InWindow(LineAt(i))

\* Until an append is cut, the file is whole and holds what was acknowledged.
WholeUntilTorn ==
  torn = 0 => /\ tail = Nothing
              /\ \A e \in acked : \E i \in 1..Len(log) : log[i] = e

IndInv ==
  /\ TypeOK
  /\ ClosedDistinct /\ TailDistinct
  /\ OneRunPerNonce /\ BoardMarked
  /\ ClosedOnBoard /\ BoardRead
  /\ RunInItsWindow /\ LinesInWindow
  /\ WholeUntilTorn

\* A line the file can take: a run line clashes with no closed run line and
\* keeps its window.
Fresh(line) ==
  IsRun(line) => /\ InWindow(line)
                 /\ \A i \in 1..Len(log) : IsRun(log[i]) => ~Clash(log[i], line)

\* The conjuncts of the invariant that speak of the file alone.
DiskInv == ClosedDistinct /\ TailDistinct /\ LinesInWindow /\ WholeUntilTorn

\* The run line commit_run is about to write is fresh: the nonce is not used
\* and the id not given, and both cover every closed run line.
LEMMA FreshRun ==
  ASSUME IndInv, mode = "serving", NEW n \in Nonces, NEW terms \in Terms, Live(n)
  PROVE  Fresh(RunOf(n, terms)) /\ InWindow(RunOf(n, terms))
<1> DEFINE r == RunOf(n, terms)
<1>1. r.nonce = n /\ r.id = nextId /\ r.submitted = now /\ r.issued = PendingOf(n).issued
  BY DEF RunOf
<1>2. InWindow(r)
  <2>1. PendingOf(n) \in pending
    BY DEF Live, Pending, PendingOf
  <2>2. PendingOf(n).issued \in Nat /\ now \in Nat
    BY <2>1, BoundsAssumption DEF IndInv, TypeOK, ChallengeLine
  <2>. HIDE DEF r
  <2>. QED
    BY <1>1, <2>2, BoundsAssumption DEF Live, Age, InWindow
<1>3. ASSUME NEW i \in 1..Len(log), IsRun(log[i])
      PROVE  ~Clash(log[i], r)
  <2>1. log[i] \in runs
    BY <1>3 DEF IndInv, ClosedOnBoard
  <2>2. log[i].nonce \in used /\ log[i].id < nextId
    BY <2>1 DEF IndInv, BoardMarked
  <2>3. log[i].id \in Nat /\ nextId \in Nat
    BY <2>1 DEF IndInv, TypeOK, RunLine
  <2>. HIDE DEF r
  <2>. QED
    BY <1>1, <2>2, <2>3 DEF Live, Clash
<1>. QED BY <1>2, <1>3 DEF Fresh

\* What a whole append does to the file, line by line.
LEMMA WholeShape ==
  ASSUME TypeOK, NEW line \in Event, AppendWhole(line)
  PROVE  /\ Len(log) \in Nat /\ Len(log') = Len(log) + 1
         /\ \A i \in 1..Len(log) : log'[i] = log[i]
         /\ tail = Nothing => log'[Len(log')] = line
         /\ IsRun(log'[Len(log')]) => log'[Len(log')] = line
         /\ ~IsRun(tail')
BY DEF AppendWhole, TypeOK, Glued, IsRun, Nothing, Junk, Garbled

\* What a cut append leaves at the end of the file.
LEMMA TornShape ==
  ASSUME TypeOK, NEW line \in Event, AppendTorn(line)
  PROVE  /\ log' = log /\ torn' # 0
         /\ IsRun(tail') => tail' = line \/ tail' = tail
BY DEF AppendTorn, TypeOK, Remnants, Glued, IsRun, Nothing, Junk, Garbled

\* An append of a fresh line keeps the file's conjuncts.
LEMMA DiskStep ==
  ASSUME IndInv, TypeOK', NEW line \in Event, Fresh(line),
         AppendWhole(line) \/ AppendTorn(line),
         acked' = acked \/ (AppendWhole(line) /\ acked' = acked \cup {line})
  PROVE  DiskInv'
<1> USE DEF IndInv
<1>1. CASE AppendWhole(line)
  <2>1. ClosedDistinct'
    <3> SUFFICES ASSUME NEW i \in 1..Len(log'), NEW j \in 1..Len(log'), i < j,
                        IsRun(log'[i]), IsRun(log'[j])
                 PROVE  ~Clash(log'[i], log'[j])
      BY DEF ClosedDistinct, Clash, TypeOK
    <3>1. i \in 1..Len(log) /\ log'[i] = log[i]
      BY <1>1, WholeShape
    <3>2. CASE j \in 1..Len(log)
      BY <1>1, <3>1, <3>2, WholeShape DEF ClosedDistinct
    <3>3. CASE j = Len(log')
      BY <1>1, <3>1, <3>3, WholeShape DEF Fresh, Clash
    <3>. QED BY <1>1, <3>2, <3>3, WholeShape
  <2>2. TailDistinct'
    BY <1>1, WholeShape DEF TailDistinct
  <2>3. LinesInWindow'
    <3> SUFFICES ASSUME NEW i \in 1..NumLines', IsRun(LineAt(i)')
                 PROVE  InWindow(LineAt(i)')
      BY DEF LinesInWindow
    <3>1. NumLines' = Len(log') /\ LineAt(i)' = log'[i]
      BY <1>1 DEF AppendWhole, NumLines, LineAt, TypeOK
    <3>2. CASE i \in 1..Len(log)
      <4>1. i \in 1..NumLines /\ LineAt(i) = log'[i]
        BY <1>1, <3>2, WholeShape DEF NumLines, LineAt
      <4>. QED BY <3>1, <4>1 DEF LinesInWindow
    <3>3. CASE i = Len(log')
      BY <1>1, <3>1, <3>3, WholeShape DEF Fresh
    <3>. QED BY <1>1, <3>1, <3>2, <3>3, WholeShape
  <2>4. WholeUntilTorn'
    <3> SUFFICES ASSUME torn = 0, NEW e \in acked'
                 PROVE  tail' = Nothing /\ \E i \in 1..Len(log') : log'[i] = e
      BY <1>1 DEF AppendWhole, WholeUntilTorn
    <3>1. tail = Nothing /\ tail' = Nothing
      BY <1>1 DEF WholeUntilTorn, AppendWhole
    <3>2. CASE e \in acked
      <4>1. PICK i \in 1..Len(log) : log[i] = e
        BY <3>2 DEF WholeUntilTorn
      <4>2. i \in 1..Len(log') /\ log'[i] = e
        BY <1>1, <4>1, WholeShape
      <4>. QED BY <3>1, <4>2
    <3>3. CASE e = line
      BY <1>1, <3>1, <3>3, WholeShape
    <3>. QED BY <3>2, <3>3
  <2>. QED BY <2>1, <2>2, <2>3, <2>4 DEF DiskInv
<1>2. CASE AppendTorn(line)
  <2>1. ClosedDistinct'
    BY <1>2, TornShape DEF ClosedDistinct
  <2>2. TailDistinct'
    BY <1>2, TornShape DEF TailDistinct, Fresh
  <2>3. LinesInWindow'
    <3> SUFFICES ASSUME NEW i \in 1..NumLines', IsRun(LineAt(i)')
                 PROVE  InWindow(LineAt(i)')
      BY DEF LinesInWindow
    <3>1. CASE i <= Len(log)
      <4>1. i \in 1..NumLines /\ LineAt(i)' = LineAt(i)
        BY <1>2, <3>1, TornShape DEF NumLines, LineAt, TypeOK
      <4>. QED BY <4>1 DEF LinesInWindow
    <3>2. CASE i > Len(log)
      <4>1. LineAt(i)' = tail'
        BY <1>2, <3>2, TornShape DEF LineAt, TypeOK
      <4>2. CASE tail' = line
        BY <4>1, <4>2 DEF Fresh
      <4>3. CASE tail' = tail
        <5>1. tail # Nothing
          BY <4>1, <4>3 DEF IsRun, Nothing
        <5>2. NumLines = Len(log) + 1 /\ LineAt(Len(log) + 1) = tail
          BY <5>1 DEF NumLines, LineAt, TypeOK
        <5>. QED BY <4>1, <4>3, <5>2 DEF LinesInWindow, TypeOK
      <4>. QED BY <1>2, <4>1, <4>2, <4>3, TornShape
    <3>. QED BY <3>1, <3>2 DEF NumLines, TypeOK
  <2>4. WholeUntilTorn'
    BY <1>2, TornShape DEF WholeUntilTorn
  <2>. QED BY <2>1, <2>2, <2>3, <2>4 DEF DiskInv
<1>. QED BY <1>1, <1>2

\* The conjuncts that relate the board to the marks and to the file.
BoardInv ==
  OneRunPerNonce /\ BoardMarked /\ ClosedOnBoard /\ BoardRead /\ RunInItsWindow

LEMMA IndInvParts == IndInv <=> TypeOK /\ DiskInv /\ BoardInv
BY DEF IndInv, DiskInv, BoardInv

\* The file's conjuncts depend on the file, `acked` and `torn` alone.
LEMMA DiskUnchanged == DiskInv /\ UNCHANGED <<disk, acked, torn>> => DiskInv'
BY DEF DiskInv, disk, ClosedDistinct, TailDistinct, LinesInWindow, WholeUntilTorn,
       NumLines, LineAt

\* An append that wrote nothing leaves file and board as they were.
LEMMA NothingChanges ==
  ASSUME IndInv, UNCHANGED <<disk, torn>>, UNCHANGED <<memory, mode, cursor, now, acked>>
  PROVE  DiskInv' /\ BoardInv'
<1>1. DiskInv'
  BY DiskUnchanged, IndInvParts DEF disk
<1>2. BoardInv'
  BY DEF IndInv, BoardInv, disk, memory, OneRunPerNonce, BoardMarked, ClosedOnBoard,
         BoardRead, RunInItsWindow, LineAt
<1>. QED BY <1>1, <1>2

\* A process that died has an empty board.
LEMMA EmptyBoard == Forget /\ mode' # "serving" => BoardInv'
BY DEF Forget, BoardInv, OneRunPerNonce, BoardMarked, ClosedOnBoard, BoardRead, RunInItsWindow

\* An append that is not a run's, or that was cut, leaves the board in step.
LEMMA BoardKept ==
  ASSUME IndInv, mode = "serving", NEW line \in Event,
         AppendTorn(line) \/ (AppendWhole(line) /\ ~IsRun(line)),
         UNCHANGED <<used, runs, nextId, mode>>
  PROVE  BoardInv'
<1>1. ClosedOnBoard'
  <2>1. CASE AppendTorn(line)
    BY <2>1, TornShape DEF IndInv, ClosedOnBoard
  <2>2. CASE AppendWhole(line) /\ ~IsRun(line)
    <3>1. \A i \in 1..Len(log') : IsRun(log'[i]) => i \in 1..Len(log) /\ log'[i] = log[i]
      BY <2>2, WholeShape DEF IndInv
    <3>. QED BY <3>1 DEF IndInv, ClosedOnBoard
  <2>. QED BY <2>1, <2>2
<1>. QED
  BY <1>1 DEF IndInv, BoardInv, OneRunPerNonce, BoardMarked, BoardRead, RunInItsWindow

LEMMA IndInit == Init => IndInv
<1> SUFFICES ASSUME Init PROVE IndInv
  OBVIOUS
<1>1. TypeOK
  BY TypeInit
<1>2. DiskInv
  BY DEF Init, DiskInv, ClosedDistinct, TailDistinct, LinesInWindow, WholeUntilTorn, NumLines
<1>3. BoardInv
  BY DEF Init, BoardInv, OneRunPerNonce, BoardMarked, ClosedOnBoard, BoardRead, RunInItsWindow
<1>. QED BY <1>1, <1>2, <1>3, IndInvParts

\* A committed run joins the board and its marks.
LEMMA CommitStep ==
  ASSUME IndInv, NEW n \in Nonces, NEW terms \in Terms, CommitRun(n, terms)
  PROVE  BoardInv'
<1> DEFINE r == RunOf(n, terms)
<1> USE DEF IndInv
<1>1. /\ mode = "serving" /\ mode' = mode /\ n \notin used /\ AppendWhole(r)
      /\ used' = used \cup {n} /\ nextId' = nextId + 1 /\ runs' = runs \cup {r}
  BY DEF CommitRun, Live
<1>2. r.nonce = n /\ r.id = nextId
  BY DEF RunOf
<1>3. r \in RunLine /\ r \in Event
  BY EventTypes DEF CommitRun, Live, Event
<1>4. InWindow(r)
  BY <1>1, FreshRun DEF CommitRun
<1> HIDE DEF r
<1>5. OneRunPerNonce'
  <2>1. \A s \in runs : s.nonce # r.nonce /\ s.id # r.id
    BY <1>1, <1>2 DEF BoardMarked, TypeOK, RunLine
  <2>. QED BY <1>1, <2>1 DEF OneRunPerNonce
<1>6. BoardMarked'
  BY <1>1, <1>2 DEF BoardMarked, TypeOK, RunLine
<1>7. ClosedOnBoard'
  <2>1. \A i \in 1..Len(log') :
          IsRun(log'[i]) => log'[i] = r \/ (i \in 1..Len(log) /\ log'[i] = log[i])
    BY <1>1, <1>3, WholeShape
  <2>. QED BY <1>1, <2>1 DEF ClosedOnBoard
<1>8. BoardRead'
  BY <1>1 DEF BoardRead
<1>9. RunInItsWindow'
  BY <1>1, <1>4 DEF RunInItsWindow, InWindow
<1>. QED BY <1>5, <1>6, <1>7, <1>8, <1>9 DEF BoardInv

\* Reading one more line keeps the board in step with the lines read.
LEMMA ReplayStep ==
  ASSUME IndInv, ReplayLine
  PROVE  BoardInv'
<1> DEFINE line == LineAt(cursor + 1)
<1> USE DEF IndInv
<1>1. /\ mode = "loading" /\ mode' = mode /\ cursor' = cursor + 1
      /\ cursor \in Nat /\ cursor + 1 \in 1..NumLines /\ NumLines \in Nat
  BY DEF ReplayLine, TypeOK, NumLines
<1>2. \A i : LineAt(i)' = LineAt(i)
  BY DEF ReplayLine, disk, LineAt
<1>3. ClosedOnBoard'
  BY <1>1 DEF ClosedOnBoard
<1>4. CASE ~IsRun(line)
  <2>1. runs' = runs /\ used' = used /\ nextId' = nextId
    BY <1>4 DEF ReplayLine, memory, IsRun
  <2>2. BoardRead'
    <3>1. \A i \in 1..cursor' : IsRun(LineAt(i)) => i \in 1..cursor
      BY <1>1, <1>4
    <3>. QED BY <1>1, <1>2, <2>1, <3>1 DEF BoardRead
  <2>. QED
    BY <1>3, <2>1, <2>2 DEF BoardInv, OneRunPerNonce, BoardMarked, RunInItsWindow
<1>5. CASE IsRun(line)
  <2>1. line \in RunLine
    BY <1>1, <1>5 DEF LineAt, NumLines, TypeOK, Line, Event, ChallengeLine, Junk, Garbled,
                      Nothing, IsRun
  <2>2. /\ runs' = runs \cup {line} /\ used' = used \cup {line.nonce}
        /\ nextId' = NextIdAfter(line)
    BY <1>5 DEF ReplayLine, IsRun, Junk, Garbled
  <2>3. InWindow(line)
    BY <1>1, <1>5 DEF LinesInWindow
  <2>4. line.id \in Nat
    BY <2>1 DEF RunLine
  <2>5. \A s \in runs : Clash(s, line) => s = line
    <3> SUFFICES ASSUME NEW s \in runs, Clash(s, line) PROVE s = line
      OBVIOUS
    <3>1. PICK i \in 1..cursor : LineAt(i) = s
      BY <1>1 DEF BoardRead
    <3>2. IsRun(LineAt(i))
      BY <3>1 DEF TypeOK, RunLine, IsRun
    <3>3. i <= Len(log) /\ LineAt(i) = log[i] /\ i \in 1..Len(log)
      BY <1>1 DEF NumLines, LineAt, TypeOK
    <3>4. CASE cursor + 1 <= Len(log)
      BY <1>1, <1>5, <3>1, <3>2, <3>3, <3>4 DEF ClosedDistinct, LineAt, TypeOK, Clash
    <3>5. CASE cursor + 1 > Len(log)
      BY <1>1, <1>5, <3>1, <3>2, <3>3, <3>5 DEF TailDistinct, LineAt, TypeOK
    <3>. QED BY <1>1, <3>4, <3>5 DEF TypeOK
  <2> HIDE DEF line
  <2>6. OneRunPerNonce'
    BY <2>2, <2>5 DEF OneRunPerNonce, Clash
  <2>7. BoardMarked'
    <3>1. nextId \in Nat /\ \A s \in runs : s.id \in Nat
      BY DEF TypeOK, RunLine
    <3>2. nextId' \in Nat /\ nextId' >= nextId /\ nextId' > line.id
      BY <2>2, <2>4, <3>1 DEF NextIdAfter
    <3>. QED BY <2>2, <2>4, <3>1, <3>2 DEF BoardMarked
  <2>8. BoardRead'
    <3>1. \A i \in 1..cursor' : i \in 1..cursor \/ LineAt(i) = line
      BY <1>1 DEF line
    <3>2. \A i \in 1..cursor : i \in 1..cursor'
      BY <1>1
    <3>3. cursor' \in 1..cursor' /\ LineAt(cursor') = line
      BY <1>1 DEF line
    <3>. QED BY <1>1, <1>2, <2>2, <3>1, <3>2, <3>3 DEF BoardRead
  <2>9. RunInItsWindow'
    BY <2>2, <2>3 DEF RunInItsWindow, InWindow
  <2>. QED BY <1>3, <2>6, <2>7, <2>8, <2>9 DEF BoardInv
<1>. QED BY <1>4, <1>5

LEMMA IndStep == IndInv /\ [Next]_vars => IndInv'
<1> SUFFICES ASSUME IndInv, [Next]_vars PROVE DiskInv' /\ BoardInv'
  BY TypeStep DEF IndInv, DiskInv, BoardInv
<1> USE IndInvParts
<1>0. TypeOK /\ TypeOK'
  BY TypeStep
<1>1. ASSUME NEW n \in Nonces, NEW tier \in Tiers \cup {Untiered}, RecordChallenge(n, tier)
      PROVE  DiskInv' /\ BoardInv'
  <2>1. Mint(n, tier) \in Event /\ ~IsRun(Mint(n, tier))
    BY <1>0, EventTypes DEF Event, Mint, IsRun
  <2>2. DiskInv'
    BY <1>0, <1>1, <2>1, DiskStep DEF RecordChallenge, Fresh
  <2>3. BoardInv'
    BY <1>1, <2>1, BoardKept DEF RecordChallenge
  <2>. QED BY <2>2, <2>3
<1>2. ASSUME NEW n \in Nonces, NEW tier \in Tiers \cup {Untiered}, RecordChallengeFails(n, tier)
      PROVE  DiskInv' /\ BoardInv'
  <2>1. Mint(n, tier) \in Event /\ ~IsRun(Mint(n, tier))
    BY <1>0, EventTypes DEF Event, Mint, IsRun
  <2>2. CASE AppendTorn(Mint(n, tier))
    <3>1. DiskInv'
      BY <1>0, <1>2, <2>1, <2>2, DiskStep DEF RecordChallengeFails, Fresh
    <3>2. BoardInv'
      BY <1>2, <2>1, <2>2, BoardKept DEF RecordChallengeFails, memory
    <3>. QED BY <3>1, <3>2
  <2>3. CASE UNCHANGED <<disk, torn>>
    BY <1>2, <2>3, NothingChanges DEF RecordChallengeFails
  <2>. QED BY <1>2, <2>2, <2>3 DEF RecordChallengeFails, AppendFails
<1>3. ASSUME NEW n \in Nonces, NEW terms \in Terms, CommitRun(n, terms)
      PROVE  DiskInv' /\ BoardInv'
  <2>1. RunOf(n, terms) \in Event /\ Fresh(RunOf(n, terms))
    BY <1>0, <1>3, EventTypes, FreshRun DEF Event, CommitRun, Live
  <2>2. DiskInv'
    BY <1>0, <1>3, <2>1, DiskStep DEF CommitRun
  <2>. QED BY <1>3, <2>2, CommitStep
<1>4. ASSUME NEW n \in Nonces, NEW terms \in Terms, CommitRunFails(n, terms)
      PROVE  DiskInv' /\ BoardInv'
  <2>1. RunOf(n, terms) \in Event /\ Fresh(RunOf(n, terms))
    BY <1>0, <1>4, EventTypes, FreshRun DEF Event, CommitRunFails, Live
  <2>2. CASE AppendTorn(RunOf(n, terms))
    <3>1. DiskInv'
      BY <1>0, <1>4, <2>1, <2>2, DiskStep DEF CommitRunFails
    <3>2. BoardInv'
      BY <1>4, <2>1, <2>2, BoardKept DEF CommitRunFails, memory
    <3>. QED BY <3>1, <3>2
  <2>3. CASE UNCHANGED <<disk, torn>>
    BY <1>4, <2>3, NothingChanges DEF CommitRunFails
  <2>. QED BY <1>4, <2>2, <2>3 DEF CommitRunFails, AppendFails
<1>5. ASSUME NEW line \in Event, Fresh(line), CrashInAppend(line)
      PROVE  DiskInv' /\ BoardInv'
  <2>1. DiskInv'
    BY <1>0, <1>5, DiskStep DEF CrashInAppend, Die
  <2>2. BoardInv'
    BY <1>5, EmptyBoard DEF CrashInAppend, Die
  <2>. QED BY <2>1, <2>2
<1>6. CASE Crash
  BY <1>6, DiskUnchanged, EmptyBoard DEF Crash, Die
<1>7. CASE Boot
  BY <1>7, DiskUnchanged, EmptyBoard DEF Boot
<1>8. CASE ReplayLine
  BY <1>8, DiskUnchanged, ReplayStep DEF ReplayLine
<1>9. CASE FinishLoad
  <2>1. DiskInv'
    BY <1>9, DiskUnchanged DEF FinishLoad
  <2>2. ClosedOnBoard'
    <3>1. \A i \in 1..Len(log) : i \in 1..cursor /\ LineAt(i) = log[i]
      BY <1>0, <1>9 DEF FinishLoad, NumLines, LineAt, TypeOK
    <3>. QED BY <1>9, <3>1 DEF FinishLoad, disk, memory, IndInv, BoardRead, ClosedOnBoard
  <2>3. BoardInv'
    BY <1>9, <2>2 DEF FinishLoad, memory, IndInv, BoardInv, OneRunPerNonce, BoardMarked,
                      BoardRead, RunInItsWindow
  <2>. QED BY <2>1, <2>3
<1>10. CASE ClockMoves
  <2>1. UNCHANGED <<disk, memory, mode, cursor, acked, torn>>
    BY <1>10 DEF ClockMoves
  <2>. QED
    BY <2>1, DiskUnchanged DEF BoardInv, disk, memory, OneRunPerNonce, BoardMarked,
         ClosedOnBoard, BoardRead, RunInItsWindow, LineAt
<1>11. CASE UNCHANGED vars
  BY <1>11, DiskUnchanged DEF vars, BoardInv, disk, memory, OneRunPerNonce, BoardMarked,
       ClosedOnBoard, BoardRead, RunInItsWindow, LineAt
<1>12. ASSUME NEW n \in Nonces, NEW tier \in Tiers \cup {Untiered}
       PROVE  Mint(n, tier) \in Event /\ Fresh(Mint(n, tier))
  BY <1>0, EventTypes DEF Event, Mint, IsRun, Fresh
<1>13. ASSUME NEW n \in Nonces, NEW terms \in Terms, Live(n), CrashInAppend(RunOf(n, terms))
       PROVE  RunOf(n, terms) \in Event /\ Fresh(RunOf(n, terms))
  BY <1>0, <1>13, EventTypes, FreshRun DEF Event, Live, CrashInAppend
<1>. QED
  BY <1>1, <1>2, <1>3, <1>4, <1>5, <1>6, <1>7, <1>8, <1>9, <1>10, <1>11, <1>12, <1>13
  DEF Next

-----------------------------------------------------------------------------
(* The results.                                                            *)

LEMMA Invariance == Spec => []IndInv
BY IndInit, IndStep, PTL DEF Spec

\* A challenge earns one run and an id names one run: commit_run's re-check
\* holds through cut appends, deaths and replays, for every number of them.
THEOREM CreditedOnce == Spec => []OneRunPerNonce
<1>1. IndInv => OneRunPerNonce
  BY DEF IndInv
<1>. QED BY <1>1, Invariance, PTL

\* Every run on the board was submitted inside the window of its challenge,
\* whatever the system clock does and wherever the mint time was read from.
THEOREM WindowKept == Spec => []RunInItsWindow
<1>1. IndInv => RunInItsWindow
  BY DEF IndInv
<1>. QED BY <1>1, Invariance, PTL

\* While no append was ever cut, no acknowledged run is lost: a serving
\* registry has it on the board, however often it died.
THEOREM NothingLost == Spec => []BoardSurvives
<1>1. IndInv => BoardSurvives
  <2> SUFFICES ASSUME IndInv, torn = 0, mode = "serving", NEW e \in AckedRuns
               PROVE  e \in runs
    BY DEF BoardSurvives
  <2>1. PICK i \in 1..Len(log) : log[i] = e
    BY DEF IndInv, WholeUntilTorn, AckedRuns
  <2>2. IsRun(log[i])
    BY <2>1 DEF AckedRuns, RunLine, IsRun
  <2>. QED BY <2>1, <2>2 DEF IndInv, ClosedOnBoard
<1>. QED BY <1>1, Invariance, PTL

-----------------------------------------------------------------------------
(* Memory is the replay of the file.                                       *)

\* A challenge line that no later line of the first k mints again or consumes.
Standing(k, i) ==
  /\ i \in 1..k
  /\ LineAt(i).ev = "challenge"
  /\ \A j \in 1..k : j > i /\ LineAt(j).ev \in {"challenge", "run"}
                      => LineAt(j).nonce # LineAt(i).nonce

\* IsReplay, an element at a time.
LEMMA ReplayMeans ==
  ASSUME NEW k
  PROVE  IsReplay(k) <=>
           /\ \A r : r \in runs <=> \E i \in 1..k : LineAt(i).ev = "run" /\ LineAt(i) = r
           /\ \A n : n \in used <=> \E r \in runs : r.nonce = n
           /\ \A p : p \in pending <=> \E i \in 1..k : Standing(k, i) /\ LineAt(i) = p
           /\ \A r \in runs : r.id < nextId
           /\ nextId = 1 \/ \E r \in runs : nextId = r.id + 1
<1>1. runs = {LineAt(i) : i \in {j \in 1..k : LineAt(j).ev = "run"}}
        <=> \A r : r \in runs <=> \E i \in 1..k : LineAt(i).ev = "run" /\ LineAt(i) = r
  OBVIOUS
<1>2. used = {r.nonce : r \in runs} <=> \A n : n \in used <=> \E r \in runs : r.nonce = n
  OBVIOUS
<1> DEFINE Events(ev) == {i \in 1..k : LineAt(i).ev = ev}
           Later(i) == {j \in Events("challenge") \cup Events("run") : j > i}
           Lasting == {c \in Events("challenge") : \A j \in Later(c) : LineAt(j).nonce # LineAt(c).nonce}
<1>3. \A i : i \in Lasting <=> Standing(k, i)
  BY DEF Standing
<1> HIDE DEF Lasting
<1>4. pending = {LineAt(i) : i \in Lasting}
        <=> \A p : p \in pending <=> \E i \in 1..k : Standing(k, i) /\ LineAt(i) = p
  BY <1>3 DEF Standing
<1>. QED
  BY <1>1, <1>2, <1>4 DEF IsReplay, Lasting

\* What a line does to memory, be it appended or read back.
Effect(line) ==
  \/ /\ line.ev = "challenge"
     /\ pending' = Put(pending, line)
     /\ UNCHANGED <<used, runs, nextId>>
  \/ /\ line.ev = "run"
     /\ pending' = Drop(pending, line.nonce)
     /\ used' = used \cup {line.nonce}
     /\ nextId' = NextIdAfter(line)
     /\ runs' = runs \cup {line}
  \/ /\ line.ev \notin {"challenge", "run"}
     /\ UNCHANGED memory

\* One more line with its effect, and memory is the replay of one more line.
LEMMA ReplayExtends ==
  ASSUME TypeOK, NEW k \in Nat, IsReplay(k), NEW line, Effect(line),
         line.ev = "run" => line \in RunLine,
         \A i \in 1..k : LineAt(i)' = LineAt(i), LineAt(k + 1)' = line
  PROVE  IsReplay(k + 1)'
<1>1. /\ \A r : r \in runs <=> \E i \in 1..k : LineAt(i).ev = "run" /\ LineAt(i) = r
      /\ \A n : n \in used <=> \E r \in runs : r.nonce = n
      /\ \A p : p \in pending <=> \E i \in 1..k : Standing(k, i) /\ LineAt(i) = p
      /\ \A r \in runs : r.id < nextId
      /\ nextId = 1 \/ \E r \in runs : nextId = r.id + 1
  BY ReplayMeans
<1>2. \A i : i \in 1..(k + 1) <=> i \in 1..k \/ i = k + 1
  OBVIOUS
<1>3. \A i \in 1..k : i < k + 1 /\ i # k + 1
  OBVIOUS
<1>4. \A r : r \in runs' <=> \E i \in 1..(k + 1) : LineAt(i)'.ev = "run" /\ LineAt(i)' = r
  BY <1>1, <1>2 DEF Effect, memory
<1>5. \A n : n \in used' <=> \E r \in runs' : r.nonce = n
  BY <1>1 DEF Effect, memory
<1>6. \A i \in 1..k : Standing(k + 1, i)' <=>
        /\ Standing(k, i)
        /\ line.ev \in {"challenge", "run"} => line.nonce # LineAt(i).nonce
  BY <1>2, <1>3 DEF Standing
<1>7. Standing(k + 1, k + 1)' <=> line.ev = "challenge"
  BY <1>2, <1>3 DEF Standing
<1>8. \A p : p \in pending' <=> \E i \in 1..(k + 1) : Standing(k + 1, i)' /\ LineAt(i)' = p
  <2>1. CASE line.ev = "challenge"
    <3>1. \A p : p \in pending' <=> p = line \/ (p \in pending /\ p.nonce # line.nonce)
      BY <2>1 DEF Effect, Put
    <3>. QED BY <1>1, <1>2, <1>6, <1>7, <2>1, <3>1
  <2>2. CASE line.ev = "run"
    <3>1. \A p : p \in pending' <=> p \in pending /\ p.nonce # line.nonce
      BY <2>2 DEF Effect, Drop
    <3>. QED BY <1>1, <1>2, <1>6, <1>7, <2>2, <3>1
  <2>3. CASE line.ev \notin {"challenge", "run"}
    <3>1. pending' = pending
      BY <2>3 DEF Effect, memory
    <3>. QED BY <1>1, <1>2, <1>6, <1>7, <2>3, <3>1
  <2>. QED BY <2>1, <2>2, <2>3
<1>9. /\ \A r \in runs' : r.id < nextId'
      /\ nextId' = 1 \/ \E r \in runs' : nextId' = r.id + 1
  <2>1. nextId \in Nat /\ \A r \in runs : r.id \in Nat
    BY DEF TypeOK, RunLine
  <2>2. CASE line.ev = "run"
    <3>1. line.id \in Nat
      BY <2>2 DEF RunLine
    <3>. QED BY <1>1, <2>1, <2>2, <3>1 DEF Effect, NextIdAfter
  <2>3. CASE line.ev # "run"
    BY <1>1, <2>3 DEF Effect, memory
  <2>. QED BY <2>2, <2>3
<1> DEFINE Events(ev) == {i \in 1..(k + 1) : LineAt(i)'.ev = ev}
           Later(i) == {j \in Events("challenge") \cup Events("run") : j > i}
           Lasting == {c \in Events("challenge") : \A j \in Later(c) : LineAt(j)'.nonce # LineAt(c)'.nonce}
<1>10. runs' = {LineAt(i)' : i \in Events("run")} /\ used' = {r.nonce : r \in runs'}
  BY <1>4, <1>5
<1>11. \A i : i \in Lasting <=> Standing(k + 1, i)'
  BY DEF Standing
<1> HIDE DEF Lasting
<1>12. pending' = {LineAt(i)' : i \in Lasting}
  BY <1>8, <1>11 DEF Standing
<1>. QED
  BY <1>9, <1>10, <1>12 DEF IsReplay, Lasting

\* A process that does not run has no memory; one that loads, or whose file was
\* never cut, has the memory its lines spell.
ReplayInv ==
  /\ mode \in {"down", "failed"} => pending = {} /\ used = {} /\ runs = {}
  /\ MemoryIsReplay

\* Nothing read, nothing remembered.
LEMMA ReplayOfNothing == Forget => IsReplay(0)'
BY DEF Forget, IsReplay

\* Lines, memory and mode as they were.
LEMMA ReplayUnchanged ==
  ReplayInv /\ UNCHANGED <<disk, memory, mode, cursor, torn>> => ReplayInv'
<1> SUFFICES ASSUME ReplayInv, UNCHANGED <<disk, memory, mode, cursor, torn>> PROVE ReplayInv'
  OBVIOUS
<1>1. \A i : LineAt(i)' = LineAt(i)
  BY DEF disk, LineAt
<1>2. NumLines' = NumLines
  BY DEF disk, NumLines
<1>3. \A i : IsReplay(i)' <=> IsReplay(i)
  BY <1>1 DEF IsReplay, memory
<1>. QED
  BY <1>2, <1>3 DEF ReplayInv, MemoryIsReplay, memory

\* Whether a line is a run's, a challenge's or neither.
LEMMA LineKinds ==
  ASSUME NEW line \in Line
  PROVE  /\ line.ev = "run" => line \in RunLine
         /\ line.ev = "challenge" => line \in ChallengeLine
         /\ line \in {Junk, Garbled} <=> line.ev \notin {"challenge", "run"}
BY DEF Line, Event, ChallengeLine, RunLine, Junk, Garbled

\* A whole append to a file never cut, with its line's effect on memory.
LEMMA ReplayAppends ==
  ASSUME IndInv, ReplayInv, mode = "serving", UNCHANGED mode, NEW line \in Event,
         AppendWhole(line), Effect(line)
  PROVE  ReplayInv'
<1> SUFFICES ASSUME torn = 0 PROVE IsReplay(NumLines)'
  BY DEF ReplayInv, MemoryIsReplay, AppendWhole
<1>1. tail = Nothing /\ tail' = Nothing
  BY DEF IndInv, WholeUntilTorn, AppendWhole
<1>2. PICK k \in Nat : k = Len(log) /\ NumLines = k /\ NumLines' = k + 1 /\ Len(log') = k + 1
  BY <1>1, WholeShape DEF NumLines, IndInv
<1>3. \A i \in 1..k : LineAt(i)' = LineAt(i)
  BY <1>1, <1>2, WholeShape DEF LineAt, IndInv
<1>4. LineAt(k + 1)' = line
  BY <1>1, <1>2, WholeShape DEF LineAt, IndInv
<1>5. IsReplay(k)
  BY <1>2 DEF ReplayInv, MemoryIsReplay
<1>6. line.ev = "run" => line \in RunLine
  BY LineKinds DEF Line
<1>7. IsReplay(k + 1)'
  BY <1>3, <1>4, <1>5, <1>6, ReplayExtends DEF IndInv
<1>. QED
  BY <1>2, <1>7 DEF IsReplay

LEMMA ReplayStepInv == IndInv /\ ReplayInv /\ [Next]_vars => ReplayInv'
<1> SUFFICES ASSUME IndInv, ReplayInv, [Next]_vars PROVE ReplayInv'
  OBVIOUS
<1>0. TypeOK
  BY DEF IndInv
<1>1. ASSUME NEW n \in Nonces, NEW tier \in Tiers \cup {Untiered}, RecordChallenge(n, tier)
      PROVE  ReplayInv'
  <2>1. Mint(n, tier) \in Event /\ Effect(Mint(n, tier))
    BY <1>0, <1>1, EventTypes DEF Event, Mint, RecordChallenge, Effect
  <2>. QED
    BY <1>1, <2>1, ReplayAppends DEF RecordChallenge
<1>2. ASSUME mode = "serving", NEW line \in Event, AppendFails(line),
             UNCHANGED <<memory, mode, cursor>>
      PROVE  ReplayInv'
  <2>1. CASE AppendTorn(line)
    BY <1>0, <1>2, <2>1, TornShape DEF ReplayInv, MemoryIsReplay
  <2>2. CASE UNCHANGED <<disk, torn>>
    BY <1>2, <2>2, ReplayUnchanged
  <2>. QED BY <1>2, <2>1, <2>2 DEF AppendFails
<1>3. ASSUME NEW n \in Nonces, NEW terms \in Terms, CommitRun(n, terms)
      PROVE  ReplayInv'
  <2>1. RunOf(n, terms) \in Event
    BY <1>0, <1>3, EventTypes DEF Event, CommitRun, Live
  <2>2. NextIdAfter(RunOf(n, terms)) = nextId + 1
    BY <1>0 DEF NextIdAfter, RunOf, TypeOK
  <2>3. RunOf(n, terms).ev = "run" /\ RunOf(n, terms).nonce = n
    BY DEF RunOf
  <2>4. Effect(RunOf(n, terms))
    BY <1>3, <2>2, <2>3 DEF CommitRun, Effect
  <2>. QED
    BY <1>3, <2>1, <2>4, ReplayAppends DEF CommitRun
<1>4. ASSUME Forget, mode' \in {"down", "failed", "loading"} PROVE ReplayInv'
  BY <1>4, ReplayOfNothing DEF Forget, ReplayInv, MemoryIsReplay
<1>5. CASE ReplayLine
  <2>1. PICK k \in Nat : k = cursor
    BY <1>0 DEF TypeOK, NumLines
  <2> DEFINE line == LineAt(k + 1)
  <2>2. /\ mode = "loading" /\ mode' = mode /\ cursor' = k + 1 /\ UNCHANGED disk
        /\ k + 1 \in 1..NumLines
    BY <1>0, <1>5, <2>1 DEF ReplayLine, TypeOK, NumLines
  <2>3. \A i : LineAt(i)' = LineAt(i)
    BY <2>2 DEF disk, LineAt
  <2>4. line \in Line
    BY <1>0, <2>2 DEF LineAt, NumLines, TypeOK
  <2>5. Effect(line)
    BY <1>5, <2>1, <2>4, LineKinds DEF ReplayLine, Effect
  <2>6. LineAt(k + 1)' = line
    BY <2>3
  <2>7. line.ev = "run" => line \in RunLine
    BY <2>4, LineKinds
  <2>8. IsReplay(k)
    BY <2>1, <2>2 DEF ReplayInv, MemoryIsReplay
  <2> HIDE DEF line
  <2>9. IsReplay(k + 1)'
    BY <1>0, <2>3, <2>5, <2>6, <2>7, <2>8, ReplayExtends
  <2>. QED
    BY <2>2, <2>9 DEF ReplayInv, MemoryIsReplay, IsReplay
<1>6. CASE FinishLoad
  <2>1. \A i : LineAt(i)' = LineAt(i)
    BY <1>6 DEF FinishLoad, disk, LineAt
  <2>2. NumLines' = NumLines /\ cursor = NumLines
    BY <1>6 DEF FinishLoad, disk, NumLines
  <2>3. IsReplay(cursor)
    BY <1>6 DEF FinishLoad, ReplayInv, MemoryIsReplay
  <2>4. PICK k : k = cursor
    OBVIOUS
  <2>5. IsReplay(k)'
    BY <1>6, <2>1, <2>3, <2>4 DEF FinishLoad, memory, IsReplay
  <2>. QED
    BY <1>6, <2>2, <2>4, <2>5 DEF FinishLoad, ReplayInv, MemoryIsReplay, IsReplay
<1>7. CASE Boot
  BY <1>4, <1>7 DEF Boot
<1>8. CASE Crash
  BY <1>4, <1>8 DEF Crash, Die
<1>9. ASSUME NEW line, CrashInAppend(line) PROVE ReplayInv'
  BY <1>4, <1>9 DEF CrashInAppend, Die
<1>10. CASE ClockMoves
  BY <1>10, ReplayUnchanged DEF ClockMoves
<1>11. CASE UNCHANGED vars
  BY <1>11, ReplayUnchanged DEF vars
<1>12. ASSUME NEW n \in Nonces, NEW tier \in Tiers \cup {Untiered}, RecordChallengeFails(n, tier)
       PROVE  ReplayInv'
  BY <1>0, <1>2, <1>12, EventTypes DEF RecordChallengeFails, Event
<1>13. ASSUME NEW n \in Nonces, NEW terms \in Terms, CommitRunFails(n, terms)
       PROVE  ReplayInv'
  BY <1>0, <1>2, <1>13, EventTypes DEF CommitRunFails, Event, Live
<1>. QED
  BY <1>1, <1>3, <1>5, <1>6, <1>7, <1>8, <1>9, <1>10, <1>11, <1>12, <1>13 DEF Next

LEMMA ReplayInvariance == Spec => [](IndInv /\ ReplayInv)
<1>1. Init => ReplayInv
  BY DEF Init, ReplayInv, MemoryIsReplay
<1>. QED
  BY <1>1, IndInit, IndStep, ReplayStepInv, PTL DEF Spec

\* A replay under way has built what the lines it read say, and the memory of a
\* serving store whose appends were never cut is the replay of its own file: load
\* undoes nothing that record_challenge and commit_run did, at any restart.
THEOREM MemoryReplayed == Spec => []MemoryIsReplay
<1>1. ReplayInv => MemoryIsReplay
  BY DEF ReplayInv
<1>. QED BY <1>1, ReplayInvariance, PTL

-----------------------------------------------------------------------------
(* What cut appends cost.                                                  *)

\* The lines that end in a newline: what no later append can spoil.
Closed == {log[i] : i \in 1..Len(log)}

\* A remnant at the end of the file is a loss still to come.
Owed == IF tail = Nothing THEN 0 ELSE 1

\* Every loss, and the one a remnant will cause, has its cut append.
LossInv ==
  /\ IsFiniteSet(acked)
  /\ Cardinality(acked \ Closed) + Owed <= torn

\* The events lost, or that a remnant hides, are finitely many.
LEMMA LostFinite ==
  ASSUME TypeOK, LossInv
  PROVE  IsFiniteSet(acked \ Closed) /\ Cardinality(acked \ Closed) \in Nat /\ torn \in Nat
<1>1. IsFiniteSet(acked \ Closed)
  <2>1. IsFiniteSet(acked)
    BY DEF LossInv
  <2>. QED BY <2>1, FS_Difference, Zenon
<1>2. Cardinality(acked \ Closed) \in Nat
  BY <1>1, FS_CardinalityType
<1>. QED
  BY <1>1, <1>2, BoundsAssumption DEF TypeOK

\* The losses of a step: the acknowledged events grow by at most one, and one
\* that is not in the file can be owed to the remnant it landed on.
LEMMA LossStep == TypeOK /\ LossInv /\ [Next]_vars => LossInv'
<1> SUFFICES ASSUME TypeOK, LossInv, [Next]_vars PROVE LossInv'
  OBVIOUS
<1> DEFINE lost == acked \ Closed
<1>0. IsFiniteSet(lost) /\ Cardinality(lost) \in Nat /\ torn \in Nat
  BY LostFinite
<1>1. ASSUME UNCHANGED <<disk, acked, torn>> PROVE LossInv'
  BY <1>1 DEF disk, LossInv, Closed, Owed
<1>2. ASSUME NEW line \in Event, AppendTorn(line), UNCHANGED acked PROVE LossInv'
  <2>1. Closed' = Closed /\ torn' = torn + 1
    BY <1>2, TornShape DEF AppendTorn, Closed
  <2>2. Owed \in {0, 1} /\ Owed' \in {0, 1}
    BY DEF Owed
  <2>. QED
    BY <1>0, <1>2, <2>1, <2>2 DEF LossInv
<1>3. ASSUME NEW line \in Event, AppendWhole(line), acked' \subseteq acked \cup {line}
      PROVE  LossInv'
  <2>1. Closed \subseteq Closed' /\ Owed' = 0 /\ torn' = torn
    BY <1>3, WholeShape DEF AppendWhole, Closed, Owed
  <2>2. IsFiniteSet(acked')
    BY <1>3, FS_AddElement, FS_Subset DEF LossInv
  <2>3. CASE tail = Nothing
    <3>1. line \in Closed'
      BY <1>3, <2>3, WholeShape DEF Closed
    <3>2. (acked \ Closed)' \subseteq lost
      BY <1>3, <2>1, <3>1
    <3>3. Cardinality(acked' \ Closed') <= Cardinality(lost) /\ Cardinality(acked' \ Closed') \in Nat
      BY <1>0, <3>2, FS_Subset, FS_CardinalityType
    <3>. QED
      BY <1>0, <2>1, <2>2, <2>3, <3>3 DEF LossInv, Owed
  <2>4. CASE tail # Nothing
    <3>1. acked' \ Closed' \subseteq lost \cup {line}
      BY <1>3, <2>1
    <3>2. /\ IsFiniteSet(lost \cup {line})
          /\ Cardinality(lost \cup {line}) <= Cardinality(lost) + 1
          /\ Cardinality(lost \cup {line}) \in Nat
      <4> HIDE DEF lost
      <4>1. /\ IsFiniteSet(lost \cup {line})
            /\ Cardinality(lost \cup {line})
                 = IF line \in lost THEN Cardinality(lost) ELSE Cardinality(lost) + 1
        BY <1>0, FS_AddElement
      <4>. QED
        BY <1>0, <4>1
    <3>3. Cardinality(acked' \ Closed') <= Cardinality(lost \cup {line})
          /\ Cardinality(acked' \ Closed') \in Nat
      BY <3>1, <3>2, FS_Subset, FS_CardinalityType
    <3>. QED
      BY <1>0, <2>1, <2>2, <2>4, <3>2, <3>3 DEF LossInv, Owed
  <2>. QED BY <2>3, <2>4
<1>4. ASSUME NEW n \in Nonces, NEW tier \in Tiers \cup {Untiered}
      PROVE  Mint(n, tier) \in Event
  BY EventTypes DEF Event
<1>5. ASSUME NEW n \in Nonces, NEW terms \in Terms, Live(n)
      PROVE  RunOf(n, terms) \in Event
  BY <1>5, EventTypes DEF Event, Live
<1>6. ASSUME NEW n \in Nonces, NEW tier \in Tiers \cup {Untiered},
             RecordChallenge(n, tier) \/ RecordChallengeFails(n, tier) \/ CrashInAppend(Mint(n, tier))
      PROVE  LossInv'
  BY <1>1, <1>2, <1>3, <1>4, <1>6
  DEF RecordChallenge, RecordChallengeFails, CrashInAppend, AppendFails, Die
<1>7. ASSUME NEW n \in Nonces, NEW terms \in Terms,
             \/ CommitRun(n, terms) \/ CommitRunFails(n, terms)
             \/ Live(n) /\ CrashInAppend(RunOf(n, terms))
      PROVE  LossInv'
  <2>1. Live(n)
    BY <1>7 DEF CommitRun, CommitRunFails
  <2>. QED
    BY <1>1, <1>2, <1>3, <1>5, <1>7, <2>1
    DEF CommitRun, CommitRunFails, CrashInAppend, AppendFails, Die
<1>8. CASE Crash \/ Boot \/ ReplayLine \/ FinishLoad \/ ClockMoves \/ UNCHANGED vars
  BY <1>1, <1>8 DEF Crash, Die, Boot, ReplayLine, FinishLoad, ClockMoves, vars
<1>. QED
  BY <1>6, <1>7, <1>8 DEF Next

\* A cut append costs at most one acknowledged event, the one glued to its
\* remnant, however many deaths and replays follow.
THEOREM LossesAreCuts == Spec => []LossBounded
<1>1. Init => LossInv
  BY FS_EmptySet DEF Init, LossInv, Owed
<1>2. TypeOK /\ LossInv => LossBounded
  <2> SUFFICES ASSUME TypeOK, LossInv PROVE Cardinality(acked \ Readable) <= torn
    BY DEF LossBounded
  <2>1. acked \ Readable \subseteq acked \ Closed
    BY DEF Readable, Closed, LineAt, NumLines, TypeOK
  <2>2. IsFiniteSet(acked \ Closed) /\ Cardinality(acked \ Closed) \in Nat /\ torn \in Nat
    BY LostFinite
  <2>3. Cardinality(acked \ Readable) <= Cardinality(acked \ Closed)
        /\ Cardinality(acked \ Readable) \in Nat
    BY <2>1, <2>2, FS_Subset, FS_CardinalityType
  <2>. QED
    BY <2>2, <2>3 DEF LossInv, Owed
<1>. QED
  BY <1>1, <1>2, LossStep, TypeCorrect, PTL DEF Spec

-----------------------------------------------------------------------------
(* The refinement of the ledger.                                           *)

\* The challenges and runs the ledger is read from, and how each appears there.
Told    == (pending \cup acked \cup Readable) \cap ChallengeLine
Boarded == runs \cup (Readable \cap RunLine)

Opening(c) == [nonce |-> c.nonce, issued |-> c.issued]
Credit(r)  == [id |-> r.id, nonce |-> r.nonce, issued |-> r.issued, submitted |-> r.submitted]

\* A step that drops nothing while the file is whole, and brings at most one run:
\* one whose challenge was told of, in its window, that clashes with none.
LEMMA LedgerNextOf ==
  ASSUME torn' = 0 => torn = 0 /\ Told \subseteq Told' /\ Boarded \subseteq Boarded',
         NEW r,
         Boarded' \subseteq Boarded \cup {r},
         r \in Boarded' \ Boarded =>
           /\ Opening(r) \in {Opening(c) : c \in Told}
           /\ InWindow(r)
           /\ \A s \in Boarded' : s = r \/ ~Clash(s, r)
  PROVE  L!LedgerNext
<1>1. /\ \A s : Credit(s).id = s.id /\ Credit(s).nonce = s.nonce
      /\ \A s : Credit(s).issued = s.issued /\ Credit(s).submitted = s.submitted
  BY DEF Credit
<1>2. Opened = {Opening(c) : c \in Told} /\ Opened' = {Opening(c) : c \in Told'}
  BY DEF Opened, Told, Opening
<1>3. Credited = {Credit(s) : s \in Boarded} /\ Credited' = {Credit(s) : s \in Boarded'}
  BY DEF Credited, Boarded, Credit
<1>4. L!Keeps
  BY <1>2, <1>3 DEF L!Keeps
<1>5. \A c \in Credited' \ Credited : c = Credit(r) /\ r \in Boarded' \ Boarded
  BY <1>3
<1>6. ASSUME NEW c \in Credited' \ Credited PROVE L!Eligible(c)
  <2>1. c = Credit(r) /\ r \in Boarded' \ Boarded
    BY <1>5
  <2>2. [nonce |-> c.nonce, issued |-> c.issued] = Opening(r)
    BY <1>1, <2>1 DEF Opening
  <2>3. c.submitted <= c.issued + Window
    BY <1>1, <2>1 DEF InWindow
  <2>4. ASSUME NEW s \in Boarded', Credit(s) # c PROVE Credit(s).nonce # c.nonce /\ Credit(s).id # c.id
    BY <1>1, <2>1, <2>4 DEF Clash
  <2>5. \A d \in Credited' \ {c} : d.nonce # c.nonce /\ d.id # c.id
    BY <1>3, <2>4
  <2>. QED
    BY <1>2, <2>1, <2>2, <2>3, <2>5 DEF L!Eligible
<1>. QED
  BY <1>4, <1>5, <1>6 DEF L!LedgerNext

\* While the file is whole, memory holds nothing the file does not.
LEMMA MemoryOnFile ==
  ASSUME IndInv, ReplayInv, torn = 0
  PROVE  pending \subseteq Readable /\ runs \subseteq Readable
<1>0. TypeOK
  BY DEF IndInv
<1>1. CASE mode \in {"down", "failed"}
  BY <1>1 DEF ReplayInv
<1>2. ASSUME NEW k \in 0..NumLines, IsReplay(k)
      PROVE  pending \subseteq Readable /\ runs \subseteq Readable
  <2>1. \A i \in 1..k : i \in 1..NumLines
    BY <1>0 DEF TypeOK, NumLines
  <2>2. ASSUME NEW e \in pending \cup runs PROVE \E i \in 1..k : LineAt(i) = e
    BY <1>2 DEF IsReplay
  <2>3. pending \subseteq Event /\ runs \subseteq Event
    BY <1>0 DEF TypeOK, Event
  <2>. QED
    BY <2>1, <2>2, <2>3 DEF Readable
<1>3. cursor \in 0..NumLines /\ NumLines \in 0..NumLines
  BY <1>0 DEF TypeOK, NumLines
<1>. QED
  BY <1>0, <1>1, <1>2, <1>3 DEF ReplayInv, MemoryIsReplay, TypeOK, Modes

\* A file never cut keeps its lines through an append.
LEMMA ReadableGrows ==
  ASSUME IndInv, NEW line \in Event, torn' = 0, AppendWhole(line) \/ AppendTorn(line)
  PROVE  torn = 0 /\ Readable \subseteq Readable'
<1>0. TypeOK
  BY DEF IndInv
<1>1. AppendWhole(line) /\ torn = 0
  BY <1>0, TornShape DEF AppendWhole
<1>2. tail = Nothing /\ tail' = Nothing
  BY <1>1 DEF IndInv, WholeUntilTorn, AppendWhole
<1>3. NumLines = Len(log) /\ NumLines' = Len(log')
  BY <1>2 DEF NumLines
<1>4. \A i \in 1..NumLines : i \in 1..NumLines' /\ LineAt(i)' = LineAt(i)
  BY <1>0, <1>1, <1>3, WholeShape DEF LineAt
<1>. QED
  BY <1>1, <1>4 DEF Readable

\* The run lines of the file after an append: the closed ones and the new one.
LEMMA RunsOnFile ==
  ASSUME IndInv, NEW line \in Event, AppendWhole(line) \/ AppendTorn(line)
  PROVE  \A r \in Readable' \cap RunLine : r = line \/ \E i \in 1..Len(log) : log[i] = r
<1>0. TypeOK
  BY DEF IndInv
<1> SUFFICES ASSUME NEW r \in RunLine, NEW i \in 1..NumLines', LineAt(i)' = r
             PROVE  r = line \/ \E j \in 1..Len(log) : log[j] = r
  BY DEF Readable
<1>1. IsRun(r)
  BY DEF IsRun, RunLine
<1>2. CASE AppendWhole(line)
  <2>1. i \in 1..Len(log') /\ r = log'[i]
    BY <1>2 DEF AppendWhole, NumLines, LineAt
  <2>. QED
    BY <1>0, <1>1, <1>2, <2>1, WholeShape
<1>3. CASE AppendTorn(line)
  <2>1. log' = log /\ (IsRun(tail') => tail' = line)
    BY <1>0, <1>3 DEF AppendTorn, Remnants, Glued, IsRun, Junk, Garbled
  <2>. QED
    BY <1>0, <1>1, <2>1 DEF NumLines, LineAt, TypeOK
<1>. QED BY <1>2, <1>3

\* The run commit_run is about to write clashes with nothing on the board or in
\* the closed lines, and its challenge is one the store has told of.
LEMMA EligibleRun ==
  ASSUME IndInv, mode = "serving", NEW n \in Nonces, NEW terms \in Terms, Live(n)
  PROVE  LET r == RunOf(n, terms) IN
         /\ r \in RunLine /\ r \in Event
         /\ Opening(r) \in {Opening(c) : c \in Told}
         /\ InWindow(r)
         /\ \A s \in runs : ~Clash(s, r)
         /\ \A i \in 1..Len(log) : log[i] \in RunLine => log[i] \in runs
<1> DEFINE r == RunOf(n, terms)
<1>0. TypeOK
  BY DEF IndInv
<1>1. r \in RunLine /\ r \in Event
  BY <1>0, EventTypes DEF Live, Event
<1>2. r.nonce = n /\ r.id = nextId /\ r.issued = PendingOf(n).issued
  BY DEF RunOf
<1>3. PendingOf(n) \in pending /\ PendingOf(n).nonce = n
  BY DEF Live, Pending, PendingOf
<1>4. PendingOf(n) \in Told
  BY <1>0, <1>3 DEF Told, TypeOK
<1>5. Opening(r) = Opening(PendingOf(n))
  BY <1>2, <1>3 DEF Opening
<1>6. InWindow(r)
  BY FreshRun
<1> HIDE DEF r
<1>7. \A s \in runs : ~Clash(s, r)
  BY <1>0, <1>2 DEF IndInv, BoardMarked, Live, Clash, TypeOK, RunLine
<1>8. \A i \in 1..Len(log) : log[i] \in RunLine => log[i] \in runs
  BY DEF IndInv, ClosedOnBoard, IsRun, RunLine
<1>. QED
  BY <1>1, <1>4, <1>5, <1>6, <1>7, <1>8 DEF r

\* An append to a whole file drops nothing from the ledger.
LEMMA AppendKeeps ==
  ASSUME IndInv, ReplayInv, NEW line \in Event, AppendWhole(line) \/ AppendTorn(line),
         acked \subseteq acked', torn' = 0
  PROVE  torn = 0 /\ Told \subseteq Told' /\ Boarded \subseteq Boarded'
<1>1. torn = 0 /\ Readable \subseteq Readable'
  BY ReadableGrows
<1>2. pending \subseteq Readable /\ runs \subseteq Readable
  BY <1>1, MemoryOnFile
<1>3. runs \subseteq RunLine
  BY DEF IndInv, TypeOK
<1>. QED
  BY <1>1, <1>2, <1>3 DEF Told, Boarded

\* The closed run lines are in the ledger.
LEMMA ClosedBoarded ==
  ASSUME TypeOK, NEW i \in 1..Len(log), log[i] \in RunLine
  PROVE  log[i] \in Boarded
<1>1. i \in 1..NumLines /\ LineAt(i) = log[i]
  BY DEF TypeOK, NumLines, LineAt
<1>. QED
  BY <1>1 DEF Boarded, Readable, Event

\* The append of a challenge is a step of the ledger.
LEMMA ChallengeLedger ==
  ASSUME IndInv, ReplayInv, NEW line \in ChallengeLine, AppendWhole(line) \/ AppendTorn(line),
         acked \subseteq acked', runs' \subseteq runs
  PROVE  L!LedgerNext
<1>1. line \in Event /\ line \notin RunLine
  BY DEF Event, ChallengeLine, RunLine
<1>2. Boarded' \subseteq Boarded
  <2>1. \A r \in Readable' \cap RunLine : \E i \in 1..Len(log) : log[i] = r
    BY <1>1, RunsOnFile
  <2>2. Readable' \cap RunLine \subseteq Boarded
    BY <2>1, ClosedBoarded DEF IndInv
  <2>. QED
    BY <2>2 DEF Boarded
<1>. QED
  BY <1>1, <1>2, AppendKeeps, LedgerNextOf

\* So is the append of a run, whole or cut, told of or not.
LEMMA RunLedger ==
  ASSUME IndInv, ReplayInv, mode = "serving", NEW n \in Nonces, NEW terms \in Terms, Live(n),
         AppendWhole(RunOf(n, terms)) \/ AppendTorn(RunOf(n, terms)),
         acked \subseteq acked', runs' \subseteq runs \cup {RunOf(n, terms)}
  PROVE  L!LedgerNext
<1> DEFINE r == RunOf(n, terms)
<1>1. /\ r \in RunLine /\ r \in Event
      /\ Opening(r) \in {Opening(c) : c \in Told}
      /\ InWindow(r)
      /\ \A s \in runs : ~Clash(s, r)
      /\ \A i \in 1..Len(log) : log[i] \in RunLine => log[i] \in runs
  BY EligibleRun
<1>2. AppendWhole(r) \/ AppendTorn(r)
  OBVIOUS
<1>3. runs' \subseteq runs \cup {r}
  OBVIOUS
<1> HIDE DEF r
<1>4. \A s \in Readable' \cap RunLine : s = r \/ s \in runs
  BY <1>1, <1>2, RunsOnFile
<1>5. \A s \in Boarded' : s = r \/ s \in runs
  BY <1>3, <1>4 DEF Boarded
<1>6. Boarded' \subseteq Boarded \cup {r}
  BY <1>5 DEF Boarded
<1>7. \A s \in Boarded' : s = r \/ ~Clash(s, r)
  BY <1>1, <1>5
<1>8. torn' = 0 => torn = 0 /\ Told \subseteq Told' /\ Boarded \subseteq Boarded'
  BY <1>1, <1>2, AppendKeeps
<1>. QED
  BY <1>1, <1>6, <1>7, <1>8, LedgerNextOf

\* Memory that comes from the file, or goes, neither credits nor, while the file is
\* whole, drops anything.
LEMMA MemoryLedger ==
  ASSUME IndInv, ReplayInv, UNCHANGED <<disk, acked, torn>>, runs' \subseteq runs \cup Readable,
         runs' \subseteq RunLine
  PROVE  L!LedgerNext
<1>1. Readable' = Readable
  BY DEF disk, Readable, NumLines, LineAt
<1>2. Boarded' \subseteq Boarded
  BY <1>1 DEF Boarded
<1>3. torn = 0 => Told \subseteq Told' /\ Boarded \subseteq Boarded'
  <2> SUFFICES ASSUME torn = 0 PROVE Told \subseteq Told' /\ Boarded \subseteq Boarded'
    OBVIOUS
  <2>1. pending \subseteq Readable /\ runs \subseteq Readable
    BY MemoryOnFile
  <2>2. runs \subseteq RunLine
    BY DEF IndInv, TypeOK
  <2>. QED
    BY <1>1, <2>1, <2>2 DEF Told, Boarded
<1>. QED
  BY <1>2, <1>3, LedgerNextOf

LEMMA LedgerStep == IndInv /\ ReplayInv /\ [Next]_vars => [L!LedgerNext]_(L!ledgerVars)
<1> SUFFICES ASSUME IndInv, ReplayInv, [Next]_vars PROVE [L!LedgerNext]_(L!ledgerVars)
  OBVIOUS
<1>0. TypeOK /\ TypeOK'
  BY TypeStep DEF IndInv
<1>1. ASSUME UNCHANGED <<disk, pending, runs, acked, torn>> PROVE UNCHANGED L!ledgerVars
  <2>1. Readable' = Readable
    BY <1>1 DEF disk, Readable, NumLines, LineAt
  <2>. QED
    BY <1>1, <2>1 DEF L!ledgerVars, Opened, Credited
<1>2. ASSUME NEW n \in Nonces, NEW tier \in Tiers \cup {Untiered},
             RecordChallenge(n, tier) \/ RecordChallengeFails(n, tier) \/ CrashInAppend(Mint(n, tier))
      PROVE  [L!LedgerNext]_(L!ledgerVars)
  <2>1. Mint(n, tier) \in ChallengeLine
    BY <1>0, EventTypes
  <2>2. CASE AppendWhole(Mint(n, tier)) \/ AppendTorn(Mint(n, tier))
    <3>1. acked \subseteq acked' /\ runs' \subseteq runs
      BY <1>2 DEF RecordChallenge, RecordChallengeFails, CrashInAppend, Die, Forget, memory
    <3>. QED
      BY <2>1, <2>2, <3>1, ChallengeLedger
  <2>3. CASE ~(AppendWhole(Mint(n, tier)) \/ AppendTorn(Mint(n, tier)))
    BY <1>1, <1>2, <2>3
    DEF RecordChallenge, RecordChallengeFails, CrashInAppend, AppendFails, memory
  <2>. QED BY <2>2, <2>3
<1>3. ASSUME NEW n \in Nonces, NEW terms \in Terms,
             \/ CommitRun(n, terms) \/ CommitRunFails(n, terms)
             \/ Live(n) /\ CrashInAppend(RunOf(n, terms))
      PROVE  [L!LedgerNext]_(L!ledgerVars)
  <2>1. Live(n) /\ mode = "serving"
    BY <1>3 DEF CommitRun, CommitRunFails, CrashInAppend
  <2>2. CASE AppendWhole(RunOf(n, terms)) \/ AppendTorn(RunOf(n, terms))
    <3>1. acked \subseteq acked' /\ runs' \subseteq runs \cup {RunOf(n, terms)}
      BY <1>3 DEF CommitRun, CommitRunFails, CrashInAppend, Die, Forget, memory
    <3>. QED
      BY <2>1, <2>2, <3>1, RunLedger
  <2>3. CASE ~(AppendWhole(RunOf(n, terms)) \/ AppendTorn(RunOf(n, terms)))
    BY <1>1, <1>3, <2>3 DEF CommitRun, CommitRunFails, CrashInAppend, AppendFails, memory
  <2>. QED BY <2>2, <2>3
<1>4. CASE Crash \/ Boot
  BY <1>4, MemoryLedger DEF Crash, Die, Boot, Forget
<1>5. CASE ReplayLine
  <2>1. LineAt(cursor + 1) \in Line /\ cursor + 1 \in 1..NumLines
    BY <1>0, <1>5 DEF ReplayLine, LineAt, NumLines, TypeOK
  <2>2. LineAt(cursor + 1).ev = "run" => LineAt(cursor + 1) \in Readable
    BY <2>1, LineKinds DEF Readable, Event
  <2>3. runs' \subseteq runs \cup Readable
    BY <1>5, <2>2 DEF ReplayLine, memory
  <2>4. UNCHANGED <<disk, acked, torn>> /\ runs' \subseteq RunLine
    BY <1>0, <1>5 DEF ReplayLine, TypeOK
  <2>. QED
    BY <2>3, <2>4, MemoryLedger
<1>6. CASE FinishLoad \/ ClockMoves \/ UNCHANGED vars
  BY <1>1, <1>6 DEF FinishLoad, ClockMoves, vars, memory
<1>. QED
  BY <1>2, <1>3, <1>4, <1>5, <1>6 DEF Next

\* The event store is a ledger: whatever is cut, dies or is replayed, runs are
\* credited one at a time, each against a challenge it told of, in its window and
\* once; and while no append was cut nothing leaves.
THEOREM StoreIsALedger == Spec => ImplementsLedger
<1>1. Init => L!LedgerInit
  <2> SUFFICES ASSUME Init PROVE L!LedgerInit
    OBVIOUS
  <2>1. Readable = {} /\ pending = {} /\ acked = {} /\ runs = {} /\ torn = 0
    BY DEF Init, Readable, NumLines
  <2>. QED
    BY <2>1 DEF L!LedgerInit, Opened, Credited
<1>. QED
  BY <1>1, LedgerStep, ReplayInvariance, PTL DEF Spec, ImplementsLedger, L!LedgerSpec
=============================================================================
