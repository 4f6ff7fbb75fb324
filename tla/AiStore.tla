------------------------------ MODULE AiStore ------------------------------
(***************************************************************************)
(* The AI track's event store (registry/src/aipow.rs, struct AiStore): an  *)
(* append-only file of JSON lines on the data volume and the maps the      *)
(* registry keeps in memory, which a boot rebuilds by replaying the file.  *)
(*                                                                         *)
(* The file is `log`, the lines that end in a newline, and `tail`, what is *)
(* left behind them without one.  An append writes in several write calls  *)
(* and never syncs, truncates or checks for a newline first, so an I/O     *)
(* error or the death of the process can cut it anywhere; the next append  *)
(* then lands on the same line.                                            *)
(***************************************************************************)
EXTENDS Integers, Sequences, FiniteSets

CONSTANTS
  Nonces,       \* the nonces the kernel may mint
  Tiers,        \* the jackpot targets a `?attempts=` mint may carry
  Untiered,     \* PendingChallenge.target = None
  Terms,        \* what a run was verified under: statement and target
  Window,       \* AI_WINDOW_MS
  MaxClock,     \* bound: the clock stays within 0..MaxClock
  MaxLog,       \* bound: lines of the file
  MaxTorn,      \* bound: appends cut short
  MaxCrashes    \* bound: deaths of the process

ASSUME UntieredAssumption == Untiered \notin Tiers
ASSUME BoundsAssumption ==
  /\ Window \in Nat /\ MaxClock \in Nat /\ MaxLog \in Nat
  /\ MaxTorn \in Nat /\ MaxCrashes \in Nat

VARIABLES
  log,      \* the lines of the file that end in a newline, in order
  tail,     \* the last line when no newline ends it, else Nothing
  pending,  \* the map of minted, unconsumed challenges: one record a nonce
  used,     \* nonces that earned a run
  runs,     \* the board
  nextId,   \* the id of the next run
  mode,     \* where the process is
  cursor,   \* lines already replayed by load
  now,      \* unix_ms(): the system clock, which may also step back
  acked,    \* history: events whose append returned Ok to the caller
  torn,     \* history: appends cut short
  crashes   \* history: deaths of the process

disk   == <<log, tail>>
memory == <<pending, used, runs, nextId>>
vars   == <<disk, memory, mode, cursor, now, acked, torn, crashes>>

-----------------------------------------------------------------------------
(* The lines of the file.                                                  *)

ChallengeLine ==
  [ev : {"challenge"}, nonce : Nonces, issued : Nat, tier : Tiers \cup {Untiered}]

RunLine ==
  [ev : {"run"}, id : Nat \ {0}, nonce : Nonces, terms : Terms,
   issued : Nat, submitted : Nat]

Event == ChallengeLine \cup RunLine

\* A line serde_json rejects: load skips it.
Junk == [ev |-> "junk"]

\* A line that is not UTF-8: an append cut inside a multi-byte character.
Garbled == [ev |-> "garbled"]

Line == Event \cup {Junk, Garbled}

\* No unterminated line.
Nothing == [ev |-> "nothing"]

\* What raw.lines() yields: the last line need not end in a newline.
NumLines == IF tail = Nothing THEN Len(log) ELSE Len(log) + 1
LineAt(i) == IF i <= Len(log) THEN log[i] ELSE tail

\* A prefix of an object followed by another object never parses, and a cut
\* character stays cut whatever follows it.
Glued(open) == IF open = Garbled THEN Garbled ELSE Junk

\* What an append of `line` can leave after `open` when it is cut short: part
\* of it, or all of it but the newline.  Only a run line holds free text
\* (hardware), hence multi-byte characters.
Remnants(open, line) ==
  IF open = Nothing
  THEN {Junk, line} \cup (IF line.ev = "run" THEN {Garbled} ELSE {})
  ELSE {Glued(open)} \cup (IF line.ev = "run" THEN {Garbled} ELSE {})

\* Mutant: the file is opened for writing instead of appending.
AppendWhole_Truncates(line) ==
  /\ log' = <<line>>
  /\ tail' = Nothing
  /\ UNCHANGED torn

\* append, when every write succeeds.
AppendWhole(line) ==
  /\ Len(log) < MaxLog
  /\ log' = Append(log, IF tail = Nothing THEN line ELSE Glued(tail))
  /\ tail' = Nothing
  /\ UNCHANGED torn

\* Mutant: a failed append takes the line before it along.
AppendTorn_EatsALine(line) ==
  /\ torn < MaxTorn
  /\ log # <<>>
  /\ log' = SubSeq(log, 1, Len(log) - 1)
  /\ tail' = Junk
  /\ torn' = torn + 1

\* append, when it stops after some of its bytes are in the file.
AppendTorn(line) ==
  /\ torn < MaxTorn
  /\ tail' \in Remnants(tail, line)
  /\ torn' = torn + 1
  /\ UNCHANGED log

\* append returns an error: it stopped part way, or before it wrote a byte.
AppendFails(line) == AppendTorn(line) \/ UNCHANGED <<disk, torn>>

-----------------------------------------------------------------------------
(* The store in memory.                                                    *)

Pending(n) == \E p \in pending : p.nonce = n
PendingOf(n) == CHOOSE p \in pending : p.nonce = n

\* HashMap::insert and HashMap::remove.
Put(map, p) == {q \in map : q.nonce # p.nonce} \cup {p}

\* Mutant: the removal is forgotten.
Drop_Keeps(map, n) == map

Drop(map, n) == {q \in map : q.nonce # n}

\* now_ms.saturating_sub(issued_at_ms)
Age(issued) == IF now > issued THEN now - issued ELSE 0

\* Mutant: a challenge never expires.
Live_NoExpiry(n) == n \notin used /\ Pending(n)

\* challenge_status returned Ok.
Live(n) ==
  /\ n \notin used
  /\ Pending(n)
  /\ Age(PendingOf(n).issued) <= Window

Mint(n, tier) == [ev |-> "challenge", nonce |-> n, issued |-> now, tier |-> tier]

\* Mutant: ids are counted from zero.
RunOf_FromZero(n, terms) ==
  [ev |-> "run", id |-> nextId - 1, nonce |-> n, terms |-> terms,
   issued |-> PendingOf(n).issued, submitted |-> now]

RunOf(n, terms) ==
  [ev |-> "run", id |-> nextId, nonce |-> n, terms |-> terms,
   issued |-> PendingOf(n).issued, submitted |-> now]

-----------------------------------------------------------------------------
(* The operations of a serving store.  Each runs under the store's lock.   *)

\* record_challenge
RecordChallenge(n, tier) ==
  /\ mode = "serving"
  /\ AppendWhole(Mint(n, tier))
  /\ pending' = Put(pending, Mint(n, tier))
  /\ acked' = acked \cup {Mint(n, tier)}
  /\ UNCHANGED <<used, runs, nextId, mode, cursor, now, crashes>>

\* record_challenge returns the append's error; its caller's expect panics the
\* request's task, and the process serves on.
RecordChallengeFails(n, tier) ==
  /\ mode = "serving"
  /\ AppendFails(Mint(n, tier))
  /\ UNCHANGED <<memory, mode, cursor, now, acked, crashes>>

\* Mutant: the early check is trusted and the challenge it returned is used.
CommitRun_Trusts(n, terms) ==
  LET run == [ev |-> "run", id |-> nextId, nonce |-> n, terms |-> terms,
              issued |-> now, submitted |-> now] IN
  /\ mode = "serving"
  /\ AppendWhole(run)
  /\ pending' = Drop(pending, n)
  /\ used' = used \cup {n}
  /\ nextId' = nextId + 1
  /\ runs' = runs \cup {run}
  /\ acked' = acked \cup {run}
  /\ UNCHANGED <<mode, cursor, now, crashes>>

\* commit_run: the check is made again, the line is appended, then memory.
CommitRun(n, terms) ==
  /\ mode = "serving"
  /\ Live(n)
  /\ AppendWhole(RunOf(n, terms))
  /\ pending' = Drop(pending, n)
  /\ used' = used \cup {n}
  /\ nextId' = nextId + 1
  /\ runs' = runs \cup {RunOf(n, terms)}
  /\ acked' = acked \cup {RunOf(n, terms)}
  /\ UNCHANGED <<mode, cursor, now, crashes>>

\* commit_run returns the append's error (the handler answers 500) and leaves
\* memory as it was: the challenge can be submitted again.
CommitRunFails(n, terms) ==
  /\ mode = "serving"
  /\ Live(n)
  /\ AppendFails(RunOf(n, terms))
  /\ UNCHANGED <<memory, mode, cursor, now, acked, crashes>>

-----------------------------------------------------------------------------
(* Death and boot.                                                         *)

Forget ==
  /\ pending' = {}
  /\ used' = {}
  /\ runs' = {}
  /\ nextId' = 1
  /\ cursor' = 0

Die ==
  /\ crashes < MaxCrashes
  /\ crashes' = crashes + 1
  /\ mode' = "down"
  /\ Forget
  /\ UNCHANGED <<now, acked>>

\* The process dies between operations, or while it boots.
Crash ==
  /\ mode \in {"loading", "serving"}
  /\ Die
  /\ UNCHANGED <<disk, torn>>

\* The process dies inside an append: the whole line may be there, and nobody
\* was told.
CrashInAppend(line) ==
  /\ mode = "serving"
  /\ AppendWhole(line) \/ AppendTorn(line)
  /\ Die

\* Mutant: the lines are parsed up front, and one that does not parse is an error of
\* load's like bytes that are not UTF-8.
Boot_Strict ==
  /\ mode = "down"
  /\ mode' = IF \E i \in 1..NumLines : LineAt(i) \in {Junk, Garbled} THEN "failed" ELSE "loading"
  /\ Forget
  /\ UNCHANGED <<disk, now, acked, torn, crashes>>

\* load opens the file.  read_to_string refuses bytes that are not UTF-8, and
\* the registry exits on that error.
Boot ==
  /\ mode = "down"
  /\ mode' = IF \E i \in 1..NumLines : LineAt(i) = Garbled THEN "failed" ELSE "loading"
  /\ Forget
  /\ UNCHANGED <<disk, now, acked, torn, crashes>>

\* Mutant: the counter is not restored.
NextIdAfter_Keeps(run) == nextId

\* next_id.max(run.id + 1)
NextIdAfter(run) == IF run.id + 1 > nextId THEN run.id + 1 ELSE nextId

\* One turn of load's loop over the lines.
ReplayLine ==
  /\ mode = "loading"
  /\ cursor < NumLines
  /\ LET line == LineAt(cursor + 1) IN
       \/ /\ line.ev = "challenge"
          /\ pending' = Put(pending, line)
          /\ UNCHANGED <<used, runs, nextId>>
       \/ /\ line.ev = "run"
          /\ pending' = Drop(pending, line.nonce)
          /\ used' = used \cup {line.nonce}
          /\ nextId' = NextIdAfter(line)
          /\ runs' = runs \cup {line}
       \/ /\ line \in {Junk, Garbled}
          /\ UNCHANGED memory
  /\ cursor' = cursor + 1
  /\ UNCHANGED <<disk, mode, now, acked, torn, crashes>>

\* load returns and the registry starts to serve.
FinishLoad ==
  /\ mode = "loading"
  /\ cursor = NumLines
  /\ mode' = "serving"
  /\ UNCHANGED <<disk, memory, cursor, now, acked, torn, crashes>>

\* SystemTime is not monotonic.
ClockMoves ==
  /\ now' \in 0..MaxClock
  /\ UNCHANGED <<disk, memory, mode, cursor, acked, torn, crashes>>

-----------------------------------------------------------------------------
\* The first boot finds no file: an empty store.
Init ==
  /\ log = <<>>
  /\ tail = Nothing
  /\ pending = {}
  /\ used = {}
  /\ runs = {}
  /\ nextId = 1
  /\ mode = "down"
  /\ cursor = 0
  /\ now = 0
  /\ acked = {}
  /\ torn = 0
  /\ crashes = 0

Next ==
  \/ \E n \in Nonces, tier \in Tiers \cup {Untiered} :
       \/ RecordChallenge(n, tier)
       \/ RecordChallengeFails(n, tier)
       \/ CrashInAppend(Mint(n, tier))
  \/ \E n \in Nonces, terms \in Terms :
       \/ CommitRun(n, terms)
       \/ CommitRunFails(n, terms)
       \/ Live(n) /\ CrashInAppend(RunOf(n, terms))
  \/ Crash
  \/ Boot
  \/ ReplayLine
  \/ FinishLoad
  \/ ClockMoves

Spec == Init /\ [][Next]_vars

\* The supervisor restarts a registry that is down, and a boot runs to its end.
Fairness == WF_vars(Boot) /\ WF_vars(ReplayLine) /\ WF_vars(FinishLoad)

FairSpec == Spec /\ Fairness
-----------------------------------------------------------------------------
(* Properties.                                                             *)

Modes == {"down", "loading", "serving", "failed"}

\* The types of the file, the maps and the counters.
TypeOK ==
  /\ log \in Seq(Line)
  /\ tail \in Line \cup {Nothing}
  /\ pending \subseteq ChallengeLine
  /\ used \subseteq Nonces
  /\ runs \subseteq RunLine
  /\ nextId \in Nat \ {0}
  /\ mode \in Modes
  /\ cursor \in 0..NumLines
  /\ now \in 0..MaxClock
  /\ acked \subseteq Event
  /\ torn \in 0..MaxTorn
  /\ crashes \in 0..MaxCrashes

\* The lines of the file that parse.
Readable == {LineAt(i) : i \in 1..NumLines} \cap Event

AckedRuns == acked \cap RunLine

\* A challenge earns one run and a run id names one run, on the board and
\* through any sequence of torn appends, crashes and replays (the re-check and
\* the `used` set of commit_run, next_id of load).
OneRunPerNonce ==
  \A r, s \in runs : r.nonce = s.nonce \/ r.id = s.id => r = s

\* While no append was ever cut, every run the submitter was told of is on the
\* board of a serving registry, however often it died: load reads back what
\* commit_run acknowledged.
BoardSurvives == torn = 0 /\ mode = "serving" => AckedRuns \subseteq runs

\* An append that is cut costs at most one acknowledged event, the one whose
\* line lands behind the remnant: no replay loses more than that.
LossBounded == Cardinality(acked \ Readable) <= torn

\* Memory is what the first k lines of the file say: the board is their runs,
\* and a challenge is pending when no later line mints or consumes its nonce.
IsReplay(k) ==
  LET Events(ev) == {i \in 1..k : LineAt(i).ev = ev}
      Later(i) == {j \in Events("challenge") \cup Events("run") : j > i}
  IN /\ runs = {LineAt(i) : i \in Events("run")}
     /\ used = {r.nonce : r \in runs}
     /\ pending = {LineAt(i) : i \in {c \in Events("challenge") :
                     \A j \in Later(c) : LineAt(j).nonce # LineAt(c).nonce}}
     /\ \A r \in runs : r.id < nextId
     /\ nextId = 1 \/ \E r \in runs : nextId = r.id + 1

\* A replay under way agrees with the lines it has read, and a serving store
\* whose appends were never cut is the replay of its own file: a restart at any
\* moment changes nothing (load against record_challenge and commit_run).
MemoryIsReplay ==
  /\ mode = "loading" => IsReplay(cursor)
  /\ mode = "serving" /\ torn = 0 => IsReplay(NumLines)

\* A run on the board was submitted within the window of its challenge, timed
\* from the mint the file records, even when the clock steps back or the mint
\* was read back from the file.
RunInItsWindow == \A r \in runs : r.submitted <= r.issued + Window

\* A registry that dies comes back to serving its board, whatever remnants and
\* glued lines its file has come to hold, and if it dies again while it reads them:
\* load skips what does not parse.  Bytes that are not UTF-8 are excepted; that they
\* stop it is TornWritesAreReadable's to show.
Recovers == [](mode = "down" => <>(mode = "serving" \/ Garbled \in {LineAt(i) : i \in 1..NumLines}))

\* The ledger this store implements: challenges it has told of, holds pending
\* or could replay, and runs on the board or in the file.
Opened ==
  {[nonce |-> c.nonce, issued |-> c.issued] :
     c \in (pending \cup acked \cup Readable) \cap ChallengeLine}

Credited ==
  {[id |-> r.id, nonce |-> r.nonce, issued |-> r.issued, submitted |-> r.submitted] :
     r \in runs \cup (Readable \cap RunLine)}

L == INSTANCE Ledger WITH opened <- Opened, credited <- Credited,
                          intact <- torn = 0, LedgerWindow <- Window

\* The store implements the ledger: cut appends may lose entries, and neither
\* they nor a replay ever credit a run the ledger would not.
ImplementsLedger == L!LedgerSpec

-----------------------------------------------------------------------------
(* Claims of the source that the code does not keep.                       *)

\* aipow.rs says that torn writes are skipped at load and its test that the
\* state is identical after a replay: an acknowledged run would then be on the
\* board of every serving registry.  The line that follows a remnant is not.
TornWritesAreSkipped == mode = "serving" => AckedRuns \subseteq runs

\* ... and no torn write would keep a registry from booting.  One that ends
\* inside a multi-byte character does.
TornWritesAreReadable == mode # "failed"
=============================================================================
