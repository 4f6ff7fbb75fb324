----------------------------- MODULE Economics -----------------------------
(***************************************************************************)
(* The difficulty an instance estimates earnings with                      *)
(* (registry/src/economics.rs): the environment sets it, a refresh loop    *)
(* polls a source for it every ten minutes and appends what it observed to *)
(* a history file, and the pages read the cache and a thinned history.     *)
(*                                                                         *)
(* An append is several write calls, so a reader may come between two of   *)
(* them and an error or a death may cut it anywhere; the next observation  *)
(* then lands on the same line.  Since the Logos fork two chains share the *)
(* source: a tip may be an AI block, whose difficulty is on another scale, *)
(* and only the source asked with an API key says so.                      *)
(***************************************************************************)
EXTENDS Integers, Sequences, SequencesExt, FiniteSets, FiniteSetsExt

CONSTANTS
  ZkDifficulties,  \* what a ZK tip, or the operator, may say
  AiDifficulties,  \* what the target of an AI tip would be taken for
  Older,           \* observations in the file before the first boot
  Caps,            \* how many points a reader wants
  MaxClock,        \* bound: the clock stays within 0..MaxClock
  MaxPolls,        \* bound: observations begun
  MaxCrashes,      \* bound: deaths of the process
  Nothing, Part    \* none, and a line no reader can parse

ASSUME DifficultyAssumption ==
  /\ ZkDifficulties \subseteq Nat \ {0} /\ AiDifficulties \subseteq Nat \ {0}
  /\ ZkDifficulties \cap AiDifficulties = {} /\ Nothing \notin Nat
ASSUME LineAssumption ==
  /\ Nothing # Part
  /\ {Nothing, Part} \cap [n : Nat, t : Nat, difficulty : Nat, keyed : BOOLEAN] = {}
ASSUME BoundsAssumption ==
  Caps \subseteq Nat /\ {Older, MaxClock, MaxPolls, MaxCrashes} \subseteq Nat

VARIABLES
  up,       \* the process serves and polls
  rpc,      \* an API key is set: the source is asked for its tip
  logos,    \* the chain has forked: a tip may be of either kind
  cache,    \* AppState.econ: the difficulty; Nothing: not configured
  log,      \* the lines of the file that end in a newline
  tail,     \* the line behind them, without one
  writer,   \* the append: "idle", then what is still to be written
  point,    \* the observation it appends
  now,      \* unix_now(), which may also step back
  observed, \* history: observations, ...
  acked,    \* ... those whose append returned Ok
  polls,    \* history: observations begun
  cut,      \* history: appends cut short
  stepped,  \* history: the clock has stepped back
  crashes   \* history: deaths of the process

file   == <<log, tail>>
append == <<writer, point>>
past   == <<observed, acked, polls, cut>>
vars   == <<up, rpc, logos, cache, file, append, now, past, stepped, crashes>>

-----------------------------------------------------------------------------
(* The source.                                                             *)

\* What a poll may come back with, errors aside.  A source asked without a key
\* answers a number that says nothing of its tip; one asked with it names the kind of
\* the tip, since there are two.
Replies ==
  LET Tip(kind, ds) == [tip : {kind}, difficulty : ds] IN
  CASE ~rpc -> Tip("none", ZkDifficulties \cup {0} \cup (IF logos THEN AiDifficulties ELSE {}))
    [] rpc /\ ~logos -> Tip("none", ZkDifficulties)
    [] rpc /\ logos -> Tip("zk-pow", ZkDifficulties) \cup Tip("ai-pow", AiDifficulties)

\* Mutant: any tip will do.
Observed_AnyTip(reply) == reply.difficulty > 0

\* fetch_difficulty_get takes any number; fetch_difficulty_rpc refuses a tip that
\* says it is not a ZK block; refresh_loop lets no number through that is not positive.
Observed(reply) ==
  /\ reply.difficulty > 0
  /\ rpc => reply.tip \in {"none", "zk-pow"}

\* Only a configured cache is refreshed.
Cached(d) == IF cache = Nothing THEN Nothing ELSE d

\* One tick of refresh_loop that observes a difficulty: the cache, then the file is
\* opened to append.  (One that does not changes nothing.)
Poll ==
  /\ up
  /\ writer = "idle"
  /\ polls < MaxPolls
  /\ \E reply \in Replies :
       /\ Observed(reply)
       /\ cache' = Cached(reply.difficulty)
       /\ point' = [n |-> polls, t |-> now, difficulty |-> reply.difficulty, keyed |-> rpc]
  /\ writer' = "json"
  /\ observed' = observed \cup {point'}
  /\ polls' = polls + 1
  /\ UNCHANGED <<up, rpc, logos, file, now, acked, cut, stepped, crashes>>

\* The Logos fork activates.
Fork ==
  /\ ~logos
  /\ logos' = TRUE
  /\ UNCHANGED <<up, rpc, cache, file, append, now, past, stepped, crashes>>

-----------------------------------------------------------------------------
(* append_history.                                                         *)

\* writeln! has written some of the line, ...
WriteSome ==
  /\ writer = "json"
  /\ writer' = IF tail = Nothing THEN "rest" ELSE "newline"
  /\ tail' = Part
  /\ UNCHANGED <<up, rpc, logos, cache, log, point, now, past, stepped, crashes>>

\* ... all of it, ...
WriteRest ==
  /\ writer = "rest"
  /\ writer' = "newline"
  /\ tail' = point
  /\ UNCHANGED <<up, rpc, logos, cache, log, point, now, past, stepped, crashes>>

\* ... and the newline: Ok.
WriteNewline ==
  /\ writer = "newline"
  /\ log' = Append(log, tail)
  /\ tail' = Nothing
  /\ writer' = "idle"
  /\ acked' = acked \cup {point}
  /\ UNCHANGED <<up, rpc, logos, cache, point, now, observed, polls, cut, stepped, crashes>>

\* A write call fails; the loop reports it and polls on.
WriteFails ==
  /\ writer # "idle"
  /\ writer' = "idle"
  /\ cut' = cut + 1
  /\ UNCHANGED <<up, rpc, logos, cache, file, point, now, observed, acked, polls, stepped, crashes>>

-----------------------------------------------------------------------------
(* Death and boot.                                                         *)

Crash ==
  /\ up
  /\ crashes < MaxCrashes
  /\ up' = FALSE
  /\ writer' = "idle"
  /\ cut' = IF writer = "idle" THEN cut ELSE cut + 1
  /\ crashes' = crashes + 1
  /\ UNCHANGED <<rpc, logos, cache, file, point, now, observed, acked, polls, stepped>>

\* from_env, and NOCKMARK_ECON_API_KEY: read again at every boot.
Configured == cache' \in ZkDifficulties \cup {Nothing} /\ rpc' \in BOOLEAN

Boot ==
  /\ ~up
  /\ up' = TRUE
  /\ Configured
  /\ UNCHANGED <<logos, file, append, now, past, stepped, crashes>>

ClockMoves ==
  /\ now' \in 0..MaxClock
  /\ stepped' = (stepped \/ now' < now)
  /\ UNCHANGED <<up, rpc, logos, cache, file, append, past, crashes>>

Init ==
  /\ up = TRUE
  /\ cache \in ZkDifficulties \cup {Nothing}
  /\ rpc \in BOOLEAN
  /\ logos = FALSE
  /\ \E d \in ZkDifficulties :
       log = [i \in 1..Older |-> [n |-> i - 1, t |-> 0, difficulty |-> d, keyed |-> FALSE]]
  /\ tail = Nothing
  /\ writer = "idle"
  /\ point = Nothing
  /\ now = 0
  /\ observed = Range(log)
  /\ acked = Range(log)
  /\ polls = Older
  /\ cut = 0
  /\ stepped = FALSE
  /\ crashes = 0

Next ==
  \/ Poll \/ Fork \/ WriteSome \/ WriteRest \/ WriteNewline \/ WriteFails
  \/ Crash \/ Boot \/ ClockMoves

Spec == Init /\ [][Next]_vars

-----------------------------------------------------------------------------
(* read_history.                                                           *)

\* Lines, the last one whether or not a newline ends it.
Lines == IF tail = Nothing THEN log ELSE Append(log, tail)

\* Mutant: the first line that does not parse ends the reading.
Points_UpToTorn(since) ==
  SelectSeq(SubSeq(Lines, 1, SelectInSeq(Append(Lines, Part), LAMBDA p : p = Part) - 1),
            LAMBDA p : p.t >= since)

\* Mutant: the newest line is answered first.
Points_NewestFirst(since) == Reverse(SelectSeq(Lines, LAMBDA p : p # Part /\ p.t >= since))

\* A line that parses, of an observation since then.
Kept(line, since) == line # Part /\ line.t >= since

\* Those lines, in the order of the file; pts[n] is what the first n leave.
Points(since) ==
  LET lines == Lines
      pts[n \in 0..Len(lines)] ==
        IF n = 0 THEN <<>>
        ELSE IF Kept(lines[n], since) THEN Append(pts[n - 1], lines[n])
        ELSE pts[n - 1]
  IN pts[Len(lines)]

\* Mutant: the last point is left to the spacing.
Positions_Spaced(n, cap) ==
  {[i \in 1..cap |-> ((i - 1) * n) \div cap + 1]}

\* The positions kept of n points for a cap: cap - 1 of them a step of n/(cap - 1)
\* apart, from the first on, and the last one.  A product that should be whole may
\* come out a little less in floating point.
Positions(n, cap) ==
  IF n <= cap \/ cap = 0 THEN {[i \in 1..n |-> i]}
  ELSE {[i \in 1..cap |->
           IF i = cap THEN n
           ELSE ((i - 1) * n) \div (cap - 1) + 1
                - (IF (i - 1) \in low /\ ((i - 1) * n) % (cap - 1) = 0 THEN 1 ELSE 0)] :
          low \in SUBSET (IF cap = 1 \/ n % (cap - 1) = 0 THEN {} ELSE 1..cap - 2)}

\* What a reader may be answered.
Read(since, cap) ==
  LET pts == Points(since) IN
  {[i \in DOMAIN kept |-> pts[kept[i]]] : kept \in Positions(Len(pts), cap)}

-----------------------------------------------------------------------------
(* Properties.                                                             *)

\* With a key nothing but ZK difficulties reaches the estimates, whenever the chain
\* forks and however the tips alternate; and what a history read by many processes
\* in turn holds of another scale was observed without one.  No estimate divides by
\* zero, with a key or without.
DifficultyIsZk ==
  /\ rpc => cache \in ZkDifficulties \cup {Nothing}
  /\ cache # 0
  /\ \A p \in Range(Points(0)) :
       p.difficulty > 0 /\ (p.keyed => p.difficulty \in ZkDifficulties)

\* Every append that is cut costs the history at most itself and one observation
\* after it, and what is read was observed: a reader between two write calls, or
\* behind a torn line, sees no more and no less.
HistoryLossBounded ==
  LET seen == Range(Points(0)) IN
  /\ Cardinality(acked \ seen) <= cut
  /\ seen \subseteq observed

\* A reader is answered the oldest and the newest of the points it asked for and,
\* evenly spaced and in their order, no more than it asked for.
ThinnedEvenly ==
  \A since \in 0..MaxClock, cap \in Caps \ {0} :
    LET n == Len(Points(since)) IN
    \A kept \in Positions(n, cap) :
      /\ Len(kept) = Min({n, cap})
      /\ n > 0 => kept[Len(kept)] = n
      /\ n > 0 /\ cap > 1 => kept[1] = 1
      /\ \A i \in 1..Len(kept) - 1 :
           kept[i] < kept[i + 1] /\ (kept[i + 1] - kept[i] - 1) * (cap - 1) <= n

\* History is answered oldest first, in the order it was observed, wherever lines
\* were torn and however it was thinned; its timestamps are in that order too unless
\* the clock stepped back.
OldestFirst ==
  \A since \in 0..MaxClock, cap \in Caps : \A out \in Read(since, cap) :
    \A i, j \in DOMAIN out :
      i < j => out[i].n < out[j].n /\ (~stepped => out[i].t <= out[j].t)
=============================================================================
