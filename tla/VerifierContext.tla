-------------------------- MODULE VerifierContext --------------------------
(***************************************************************************)
(* The verifier context of one AI statement: a blob of about 1 GB on the   *)
(* data volume, named after the pin it was built at, loaded or built by    *)
(* the first submission after a boot (registry/src/aipow.rs, load_or_build *)
(* and build_context_by_proving; aipow_moe.rs has the same two for the     *)
(* other statement, under names of its own; http.rs, the OnceCell).        *)
(*                                                                         *)
(* The OnceCell lets one handler initialise at a time.  A handler whose    *)
(* client hangs up gives the cell back, and the task it spawned builds on, *)
(* so builders can overlap; they share one temporary file.                 *)
(***************************************************************************)
EXTENDS Integers, FiniteSets

CONSTANTS
  Builders,    \* blocking tasks that run load_or_build
  Pins,        \* NOCKCHAIN_PIN of the builds that get deployed
  LastChunk,   \* a blob is written in this many writes
  None,        \* no file, no task
  MaxFails,    \* bound: proofs and writes that fail
  MaxCrashes   \* bound: deaths of the process

ASSUME TasksAssumption == IsFiniteSet(Builders) /\ IsFiniteSet(Pins)
ASSUME NoneAssumption == None \notin Builders /\ None \notin Nat
ASSUME BoundsAssumption ==
  LastChunk \in Nat \ {0} /\ MaxFails \in Nat /\ MaxCrashes \in Nat

\* Enough inodes for every open file and every name.
Inodes == 1..(Cardinality(Builders) + 2 * Cardinality(Pins))

VARIABLES
  blob,       \* the inode of aipow-verifier-context-<pin>.bin
  tmp,        \* the inode of its .bin.tmp
  content,    \* the chunks an inode holds; the others are holes or missing
  pin,        \* the deployed build's pin
  up,         \* the process is serving
  ready,      \* the OnceCell is initialised
  holder,     \* the builder whose handler holds the OnceCell's permit
  builder,    \* the tasks
  abandoned,  \* history: a handler was dropped while its task was building
  fails,      \* history: failed proofs and writes
  spilt,      \* history: removals that failed, deaths in the middle of a write
  crashes     \* history: deaths of the process

files == <<blob, tmp, content>>
cell  == <<ready, holder>>
vars  == <<files, pin, up, cell, builder, abandoned, fails, spilt, crashes>>

Resting == [pc |-> "resting"]

Whole(inode) == content[inode] = 1..LastChunk

-----------------------------------------------------------------------------
(* The OnceCell.                                                           *)

\* get_or_try_init: the cell is empty and nobody initialises it.
Start(b) ==
  /\ up /\ ~ready /\ holder = None
  /\ builder[b] = Resting
  /\ holder' = b
  /\ builder' = [builder EXCEPT ![b] = [pc |-> "loading"]]
  /\ UNCHANGED <<files, pin, up, ready, abandoned, fails, spilt, crashes>>

\* The client that waits hangs up: the permit is released, the task stays.
HangUp ==
  /\ holder # None
  /\ holder' = None
  /\ abandoned' = TRUE
  /\ UNCHANGED <<files, pin, up, ready, builder, fails, spilt, crashes>>

\* The task of b returns: its result initialises the cell or is answered 500,
\* or is dropped with the handler that waited for it.
Return(b, ok) ==
  /\ builder' = [builder EXCEPT ![b] = Resting]
  /\ holder' = IF holder = b THEN None ELSE holder
  /\ ready' = (ready \/ (holder = b /\ ok))

-----------------------------------------------------------------------------
(* load_or_build                                                           *)

\* The blob is read: decoded, or torn and refused, or not there.
Load(b) ==
  /\ builder[b].pc = "loading"
  /\ \/ /\ blob[pin] # None
        /\ Return(b, Whole(blob[pin]))
     \/ /\ blob[pin] = None
        /\ builder' = [builder EXCEPT ![b] = [pc |-> "proving"]]
        /\ UNCHANGED cell
  /\ UNCHANGED <<files, pin, up, abandoned, fails, spilt, crashes>>

\* The throwaway certificate is proved and the context serialised.
Prove(b) ==
  /\ builder[b].pc = "proving"
  /\ builder' = [builder EXCEPT ![b] = [pc |-> "creating"]]
  /\ UNCHANGED <<files, pin, up, cell, abandoned, fails, spilt, crashes>>

InUse == {blob[p] : p \in Pins} \cup {tmp[p] : p \in Pins}
           \cup {builder[b].inode : b \in {c \in Builders : builder[c].pc = "writing"}}

FreeInode == CHOOSE i \in Inodes : i \notin InUse

\* Mutant: the blob is written in its place.
Create_InPlace(b) ==
  /\ builder[b].pc = "creating"
  /\ LET inode == IF blob[pin] = None THEN FreeInode ELSE blob[pin] IN
       /\ blob' = [blob EXCEPT ![pin] = inode]
       /\ tmp' = [tmp EXCEPT ![pin] = inode]
       /\ content' = [content EXCEPT ![inode] = {}]
       /\ builder' = [builder EXCEPT ![b] = [pc |-> "writing", inode |-> inode, at |-> 1]]
  /\ UNCHANGED <<pin, up, cell, abandoned, fails, spilt, crashes>>

\* fs::write opens the temporary file: made if it is missing, else truncated,
\* whoever else has it open.
Create(b) ==
  /\ builder[b].pc = "creating"
  /\ LET inode == IF tmp[pin] = None THEN FreeInode ELSE tmp[pin] IN
       /\ tmp' = [tmp EXCEPT ![pin] = inode]
       /\ content' = [content EXCEPT ![inode] = {}]
       /\ builder' = [builder EXCEPT ![b] = [pc |-> "writing", inode |-> inode, at |-> 1]]
  /\ UNCHANGED <<blob, pin, up, cell, abandoned, fails, spilt, crashes>>

\* ... and writes its chunks one after the other at its own offset.
WriteChunk(b) ==
  /\ builder[b].pc = "writing"
  /\ builder[b].at <= LastChunk
  /\ content' = [content EXCEPT ![builder[b].inode] = @ \cup {builder[b].at}]
  /\ builder' = [builder EXCEPT ![b].at = @ + 1]
  /\ UNCHANGED <<blob, tmp, pin, up, cell, abandoned, fails, spilt, crashes>>

\* Mutant: the file is renamed a write early.
Written_Early(b) == builder[b].at >= LastChunk

Written(b) == builder[b].at > LastChunk

\* The file called .bin.tmp becomes the blob, if there still is one.
Rename(b) ==
  /\ builder[b].pc = "writing" /\ Written(b)
  /\ \/ /\ tmp[pin] # None
        /\ blob' = [blob EXCEPT ![pin] = tmp[pin]]
        /\ tmp' = [tmp EXCEPT ![pin] = None]
        /\ Return(b, TRUE)
     \/ /\ tmp[pin] = None
        /\ Return(b, FALSE)
        /\ UNCHANGED <<blob, tmp>>
  /\ UNCHANGED <<content, pin, up, abandoned, fails, spilt, crashes>>

\* Mutant: a failed task is not reported.
Fail_Silent(b) ==
  /\ builder[b].pc \in {"proving", "creating", "writing"}
  /\ fails < MaxFails
  /\ fails' = fails + 1
  /\ builder' = [builder EXCEPT ![b] = Resting]
  /\ UNCHANGED <<files, pin, up, cell, abandoned, spilt, crashes>>

\* The proof or a write fails; the temporary file stays as it is.
Fail(b) ==
  /\ builder[b].pc \in {"proving", "creating", "writing"}
  /\ fails < MaxFails
  /\ fails' = fails + 1
  /\ Return(b, FALSE)
  /\ UNCHANGED <<files, pin, up, abandoned, spilt, crashes>>

-----------------------------------------------------------------------------
(* Death and boot.                                                         *)

Crash ==
  /\ up
  /\ crashes < MaxCrashes
  /\ crashes' = crashes + 1
  /\ up' = FALSE
  /\ ready' = FALSE
  /\ holder' = None
  /\ builder' = [b \in Builders |-> Resting]
  /\ spilt' = spilt + IF \E b \in Builders : builder[b].pc = "writing" THEN 1 ELSE 0
  /\ UNCHANGED <<files, pin, abandoned, fails>>

\* Mutant: the comparison of the pins is inverted.
Stale_Inverted(current) == {current}

\* The pins whose blob a sweep removes.
Stale(current) == Pins \ {current}

\* A build is deployed: sweep_stale_contexts removes the blobs of other pins (a
\* removal that fails is logged) and no temporary file.
Boot(p) ==
  /\ ~up
  /\ up' = TRUE
  /\ pin' = p
  /\ \E stuck \in SUBSET {q \in Stale(p) : blob[q] # None} :
       /\ blob' = [q \in Pins |-> IF q \in Stale(p) \ stuck THEN None ELSE blob[q]]
       /\ spilt' = spilt + Cardinality(stuck)
  /\ UNCHANGED <<tmp, content, cell, builder, abandoned, fails, crashes>>

-----------------------------------------------------------------------------
Init ==
  /\ blob = [p \in Pins |-> None]
  /\ tmp = [p \in Pins |-> None]
  /\ content = [i \in Inodes |-> {}]
  /\ pin \in Pins
  /\ up = TRUE
  /\ ready = FALSE
  /\ holder = None
  /\ builder = [b \in Builders |-> Resting]
  /\ abandoned = FALSE
  /\ fails = 0
  /\ spilt = 0
  /\ crashes = 0

Build(b) == Load(b) \/ Prove(b) \/ Create(b) \/ WriteChunk(b) \/ Rename(b)

Next ==
  \/ \E b \in Builders : Start(b) \/ Build(b) \/ Fail(b)
  \/ HangUp
  \/ Crash
  \/ \E p \in Pins : Boot(p)

\* The blocking pool runs every task to its end.
Fairness == \A b \in Builders : WF_vars(Build(b))

Spec == Init /\ [][Next]_vars /\ Fairness

-----------------------------------------------------------------------------
(* Properties.                                                             *)

\* The types of the files, the cell and the tasks.
TypeOK ==
  /\ blob \in [Pins -> Inodes \cup {None}]
  /\ tmp \in [Pins -> Inodes \cup {None}]
  /\ content \in [Inodes -> SUBSET (1..LastChunk)]
  /\ pin \in Pins
  /\ holder \in Builders \cup {None}
  /\ \A b \in Builders :
       builder[b].pc = "writing" => builder[b].inode \in Inodes \ {blob[p] : p \in Pins \ {pin}}

\* A blob under its name is whole at every moment, through crashes and failed
\* writes, as long as no client hung up on a build: what writing to a temporary
\* file first is for.
PublishedWhole ==
  ~abandoned => \A p \in Pins : blob[p] # None => Whole(blob[p])

\* Builders that overlap may publish each other's half written file, and the
\* last to finish mends it: with no build under way, and none that failed or
\* was killed, the blob is whole.
MendedAtRest ==
  fails = 0 /\ crashes = 0 /\ (\A b \in Builders : builder[b] = Resting)
    => \A p \in Pins : blob[p] # None => Whole(blob[p])

\* Whatever was deployed, rolled back and built in whatever order, a file of another
\* pin (a gigabyte of a small volume) is there because a removal of it failed, or
\* because a build failed or was killed and left its temporary file, which no sweep
\* removes: such files never number more than these events, hang-ups and overlapping
\* builders notwithstanding.
LeftoversPaid ==
  Cardinality({p \in Pins \ {pin} : blob[p] # None})
    + Cardinality({p \in Pins \ {pin} : tmp[p] # None}) <= fails + spilt

\* A handler that waits for the context is answered: the cell is initialised or
\* the error is reported, and the next submission may try.
CellIsReleased == \A b \in Builders : holder = b ~> holder # b

-----------------------------------------------------------------------------
(* A claim of the source that the code does not keep.                      *)

\* aipow.rs says that a crash in the middle of a write cannot leave a torn blob
\* for the next boot.  It can, once a hang-up let two builders share the file.
NoTornBlobAfterCrash ==
  ~up => \A p \in Pins : blob[p] # None => Whole(blob[p])
=============================================================================
