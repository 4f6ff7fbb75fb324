----------------------- MODULE VerifierContextProofs -----------------------
(***************************************************************************)
(* What holds of the verifier context for any number of builders, pins and *)
(* chunks, and through any failure, hang-up, death and deployment:         *)
(*   - the types, and a writer never has another pin's blob open           *)
(*     (TypeCorrect);                                                      *)
(*   - while no client hung up on a build, a blob under its name is whole  *)
(*     (WholeUnlessAbandoned);                                             *)
(*   - builders that overlap mend what they tore (Mended);                 *)
(*   - files of other pins number at most what failed, was killed or could *)
(*     not be removed (LeftoversArePaid).                                  *)
(* The second needs that one builder at a time works, the cell's holder,   *)
(* and that what it has written is exactly the temporary file.  The third  *)
(* needs a witness: a file that is not whole always has a writer that has  *)
(* written everything before its own offset, the last one that truncated   *)
(* it, and who will write the rest.  The last counts the current pin's     *)
(* temporary file as soon as nobody writes it any more.                    *)
(***************************************************************************)
EXTENDS VerifierContext, FiniteSetTheorems, TLAPS

-----------------------------------------------------------------------------
(* The inductive invariants.                                               *)

\* The tasks.
BuilderStates ==
  [pc : {"resting", "loading", "proving", "creating"}]
    \cup [pc : {"writing"}, inode : Inodes, at : 1..(LastChunk + 1)]

Writing(b) == builder[b].pc = "writing"

\* An inode has one temporary name or none, and no temporary file is a blob.
NamesApart ==
  \A p, q \in Pins :
    tmp[p] # None => /\ tmp[p] # blob[q]
                     /\ tmp[p] = tmp[q] => p = q

\* A writer has no file of another pin open, and a dead process runs no task.
WritersOwn ==
  /\ \A b \in Builders, p \in Pins :
       Writing(b) /\ p # pin => builder[b].inode # blob[p] /\ builder[b].inode # tmp[p]
  /\ ~up => \A b \in Builders : builder[b] = Resting

TypeInv ==
  /\ blob \in [Pins -> Inodes \cup {None}]
  /\ tmp \in [Pins -> Inodes \cup {None}]
  /\ content \in [Inodes -> SUBSET (1..LastChunk)]
  /\ pin \in Pins
  /\ holder \in Builders \cup {None}
  /\ builder \in [Builders -> BuilderStates]
  /\ up \in BOOLEAN /\ abandoned \in BOOLEAN
  /\ fails \in Nat /\ crashes \in Nat /\ spilt \in Nat
  /\ NamesApart
  /\ WritersOwn

\* While nobody hung up, the one task at work is the holder's, and the temporary
\* file holds what it has written.
AloneInv ==
  ~abandoned =>
    /\ \A p \in Pins : blob[p] # None => Whole(blob[p])
    /\ \A b \in Builders : builder[b] # Resting => holder = b
    /\ \A b \in Builders : Writing(b) =>
         /\ tmp[pin] = builder[b].inode
         /\ content[builder[b].inode] = 1..(builder[b].at - 1)

\* A writer of the inode that has written all that comes before its offset.
Mending(c, inode) ==
  /\ Writing(c)
  /\ builder[c].inode = inode
  /\ 1..(builder[c].at - 1) \subseteq content[inode]

\* While no task failed or was killed, one pin is in play, and each of its files is
\* whole or being mended.
MendInv ==
  fails = 0 /\ crashes = 0 =>
    /\ up
    /\ \A p \in Pins : p # pin => blob[p] = None /\ tmp[p] = None
    /\ \A inode \in Inodes :
         inode = blob[pin] \/ inode = tmp[pin]
           => Whole(inode) \/ \E c \in Builders : Mending(c, inode)

\* The blobs of other pins, and the temporary files that nobody writes.
StaleBlobs == {p \in Pins \ {pin} : blob[p] # None}
Adrift == {p \in Pins : tmp[p] # None /\ (p = pin => \A b \in Builders : ~Writing(b))}

LeftInv == Cardinality(StaleBlobs) + Cardinality(Adrift) <= fails + spilt

-----------------------------------------------------------------------------
(* There is always an inode for a new temporary file.                      *)

\* A function has no more values than arguments.
LEMMA ImageBound ==
  ASSUME NEW S, IsFiniteSet(S), NEW f
  PROVE  /\ IsFiniteSet({f[x] : x \in S})
         /\ Cardinality({f[x] : x \in S}) <= Cardinality(S)
         /\ Cardinality({f[x] : x \in S}) \in Nat
<1> DEFINE T == {f[x] : x \in S}
           g == [x \in S |-> f[x]]
<1>1. g \in Surjection(S, T)
  BY DEF Surjection
<1> HIDE DEF g, T
<1>2. IsFiniteSet(T) /\ Cardinality(T) <= Cardinality(S)
  BY <1>1, FS_Surjection
<1>3. Cardinality(T) \in Nat
  BY <1>2, FS_CardinalityType
<1>. QED
  BY <1>2, <1>3 DEF T

\* Three sets of sizes a, b and c make one of at most a + b + c.
LEMMA UnionBound ==
  ASSUME NEW A, NEW B, NEW C, IsFiniteSet(A), IsFiniteSet(B), IsFiniteSet(C)
  PROVE  /\ IsFiniteSet(A \cup B \cup C)
         /\ Cardinality(A \cup B \cup C) <= Cardinality(A) + Cardinality(B) + Cardinality(C)
<1>1. /\ Cardinality(A) \in Nat /\ Cardinality(B) \in Nat /\ Cardinality(C) \in Nat
  BY FS_CardinalityType
<1>2. ASSUME NEW S, NEW T, IsFiniteSet(S), IsFiniteSet(T)
      PROVE  /\ IsFiniteSet(S \cup T)
             /\ Cardinality(S \cup T) <= Cardinality(S) + Cardinality(T)
  <2>1. IsFiniteSet(S \cap T)
    BY <1>2, FS_Subset
  <2>2. Cardinality(S) \in Nat /\ Cardinality(T) \in Nat /\ Cardinality(S \cap T) \in Nat
    BY <1>2, <2>1, FS_CardinalityType
  <2>3. /\ IsFiniteSet(S \cup T)
        /\ Cardinality(S \cup T) = Cardinality(S) + Cardinality(T) - Cardinality(S \cap T)
    BY <1>2, FS_Union
  <2>. QED
    BY <2>2, <2>3
<1>3. IsFiniteSet(A \cup B) /\ Cardinality(A \cup B) <= Cardinality(A) + Cardinality(B)
  BY <1>2
<1>4. /\ IsFiniteSet(A \cup B \cup C)
      /\ Cardinality(A \cup B \cup C) <= Cardinality(A \cup B) + Cardinality(C)
  BY <1>2, <1>3
<1>5. Cardinality(A \cup B) \in Nat /\ Cardinality(A \cup B \cup C) \in Nat
  BY <1>3, <1>4, FS_CardinalityType
<1>. QED
  BY <1>1, <1>3, <1>4, <1>5

\* A builder about to create its file leaves an inode for it: the names take two
\* for each pin, and the other builders one each.
LEMMA InodeForCreate ==
  ASSUME TypeInv, NEW b \in Builders, builder[b].pc = "creating"
  PROVE  FreeInode \in Inodes /\ FreeInode \notin InUse
<1> DEFINE writers == {c \in Builders : Writing(c)}
           B == {blob[p] : p \in Pins}
           T == {tmp[p] : p \in Pins}
           inodeOf == [c \in Builders |-> builder[c].inode]
           W == {inodeOf[c] : c \in writers}
<1>1. InUse = B \cup T \cup W
  BY DEF InUse, Writing
<1>2. /\ IsFiniteSet(B) /\ Cardinality(B) <= Cardinality(Pins) /\ Cardinality(B) \in Nat
      /\ IsFiniteSet(T) /\ Cardinality(T) <= Cardinality(Pins) /\ Cardinality(T) \in Nat
  BY ImageBound, TasksAssumption
<1>3. b \notin writers /\ writers \subseteq Builders \ {b}
  BY DEF Writing
<1>4. /\ IsFiniteSet(Builders \ {b})
      /\ Cardinality(Builders \ {b}) = Cardinality(Builders) - 1
      /\ Cardinality(Builders) \in Nat /\ Cardinality(Pins) \in Nat
  BY FS_RemoveElement, FS_CardinalityType, TasksAssumption
<1>5. IsFiniteSet(writers) /\ Cardinality(writers) <= Cardinality(Builders) - 1
      /\ Cardinality(writers) \in Nat
  BY <1>3, <1>4, FS_Subset, FS_CardinalityType
<1>6. IsFiniteSet(W) /\ Cardinality(W) <= Cardinality(writers) /\ Cardinality(W) \in Nat
  <2> HIDE DEF inodeOf, writers
  <2>. QED BY <1>5, ImageBound
<1> HIDE DEF B, T, W, writers
<1>7. /\ IsFiniteSet(InUse)
      /\ Cardinality(InUse) <= 2 * Cardinality(Pins) + Cardinality(Builders) - 1
      /\ Cardinality(InUse) \in Nat
  <2>1. /\ IsFiniteSet(B \cup T \cup W)
        /\ Cardinality(B \cup T \cup W) <= Cardinality(B) + Cardinality(T) + Cardinality(W)
    BY <1>2, <1>6, UnionBound
  <2>2. Cardinality(B \cup T \cup W) \in Nat
    BY <2>1, FS_CardinalityType
  <2>. QED
    BY <1>1, <1>2, <1>4, <1>5, <1>6, <2>1, <2>2
<1>8. Cardinality(Inodes) = Cardinality(Builders) + 2 * Cardinality(Pins)
  <2> DEFINE m == Cardinality(Builders) + 2 * Cardinality(Pins)
  <2>1. m \in Nat
    BY <1>4
  <2> HIDE DEF m
  <2>2. Cardinality(1..m) = m
    BY <2>1, FS_Interval
  <2>. QED
    BY <2>2 DEF m, Inodes
<1>9. ~(Inodes \subseteq InUse)
  <2> SUFFICES ASSUME Inodes \subseteq InUse PROVE FALSE
    OBVIOUS
  <2>1. Cardinality(Inodes) <= Cardinality(InUse)
    BY <1>7, FS_Subset
  <2>. QED
    BY <1>4, <1>7, <1>8, <2>1
<1>. QED
  BY <1>9 DEF FreeInode

-----------------------------------------------------------------------------
(* The types.                                                              *)

\* A task's record has the fields of its state.
LEMMA TaskFields ==
  ASSUME TypeInv, NEW b \in Builders
  PROVE  /\ builder[b].pc \in {"resting", "loading", "proving", "creating", "writing"}
         /\ builder[b] \in BuilderStates
         /\ Writing(b) =>
              /\ builder[b].inode \in Inodes
              /\ builder[b].at \in 1..(LastChunk + 1)
              /\ builder[b] = [pc |-> "writing", inode |-> builder[b].inode, at |-> builder[b].at]
         /\ ~Writing(b) => builder[b] = [pc |-> builder[b].pc]
  BY DEF TypeInv, BuilderStates, Writing

\* The states a task takes.
LEMMA TaskStates ==
  /\ Resting \in BuilderStates /\ Resting.pc = "resting"
  /\ [pc |-> "loading"] \in BuilderStates
  /\ [pc |-> "proving"] \in BuilderStates
  /\ [pc |-> "creating"] \in BuilderStates
  /\ \A inode \in Inodes, at \in 1..(LastChunk + 1) :
       [pc |-> "writing", inode |-> inode, at |-> at] \in BuilderStates
  BY DEF Resting, BuilderStates

\* A step of task b that opens no file and moves no name, or ends b, keeps the types.
LEMMA TaskStep ==
  ASSUME TypeInv, up, NEW b \in Builders,
         NEW state \in BuilderStates, state.pc # "writing",
         builder' = [builder EXCEPT ![b] = state],
         UNCHANGED <<blob, tmp, content, pin, up>>,
         holder' \in Builders \cup {None}, abandoned' \in BOOLEAN,
         fails' \in Nat, crashes' \in Nat, spilt' \in Nat
  PROVE  TypeInv'
<1>1. builder' \in [Builders -> BuilderStates]
  BY DEF TypeInv
<1>2. NamesApart'
  BY DEF TypeInv, NamesApart
<1>3. \A c \in Builders : Writing(c)' => Writing(c) /\ builder'[c] = builder[c]
  BY DEF TypeInv, Writing
<1>4. WritersOwn'
  BY <1>3 DEF TypeInv, WritersOwn
<1>. QED
  BY <1>1, <1>2, <1>4 DEF TypeInv

\* A task at work shows that the process is up.
LEMMA AtWork ==
  ASSUME TypeInv, NEW b \in Builders, builder[b].pc # "resting"
  PROVE  up
  BY TaskStates DEF TypeInv, WritersOwn

\* fs::write opens the file of the pin, or a new one.
LEMMA CreateKeepsTypes ==
  ASSUME TypeInv, NEW b \in Builders, Create(b)
  PROVE  TypeInv'
<1>1. PICK inode \in Inodes :
        /\ inode = tmp[pin] \/ inode \notin InUse
        /\ tmp' = [tmp EXCEPT ![pin] = inode]
        /\ content' = [content EXCEPT ![inode] = {}]
        /\ builder' = [builder EXCEPT ![b] = [pc |-> "writing", inode |-> inode, at |-> 1]]
  BY InodeForCreate DEF Create, TypeInv
<1>2. /\ UNCHANGED <<blob, pin, up, holder, abandoned, fails, spilt, crashes>>
      /\ up
  BY AtWork DEF Create, cell
<1>3. [pc |-> "writing", inode |-> inode, at |-> 1] \in BuilderStates
  BY TaskStates, BoundsAssumption
<1>4. builder' \in [Builders -> BuilderStates]
  BY <1>1, <1>3 DEF TypeInv
<1>5. \A p \in Pins : inode # blob[p] /\ (p # pin => inode # tmp[p])
  BY <1>1, NoneAssumption DEF TypeInv, NamesApart, InUse, Inodes
<1>6. NamesApart'
  BY <1>1, <1>2, <1>5 DEF TypeInv, NamesApart
<1>7. WritersOwn'
  <2>1. ASSUME NEW c \in Builders, NEW p \in Pins, Writing(c)', p # pin'
        PROVE  builder'[c].inode # blob'[p] /\ builder'[c].inode # tmp'[p]
    <3>1. CASE c = b
      BY <1>1, <1>2, <1>5, <2>1, <3>1 DEF TypeInv
    <3>2. CASE c # b
      <4>1. builder'[c] = builder[c] /\ Writing(c)
        BY <1>1, <2>1, <3>2 DEF TypeInv, Writing
      <4>. QED
        BY <1>1, <1>2, <2>1, <4>1 DEF TypeInv, WritersOwn
    <3>. QED
      BY <3>1, <3>2
  <2>. QED
    BY <1>2, <2>1 DEF WritersOwn
<1>. QED
  BY <1>1, <1>2, <1>4, <1>6, <1>7 DEF TypeInv

\* What WriteChunk(b) does to the task and to the file.
LEMMA WriteChunkEffect ==
  ASSUME TypeInv, NEW b \in Builders, WriteChunk(b)
  PROVE  /\ Writing(b) /\ Writing(b)'
         /\ builder[b].at \in 1..LastChunk
         /\ builder'[b].inode = builder[b].inode
         /\ builder'[b].at = builder[b].at + 1
         /\ builder'[b] \in BuilderStates
         /\ content' = [content EXCEPT ![builder[b].inode] = @ \cup {builder[b].at}]
         /\ \A c \in Builders : c # b => builder'[c] = builder[c]
         /\ builder' \in [Builders -> BuilderStates]
         /\ UNCHANGED <<blob, tmp, pin, up, cell, abandoned, fails, spilt, crashes>>
<1>1. Writing(b)
  BY DEF WriteChunk, Writing
<1>2. PICK inode \in Inodes, at \in 1..(LastChunk + 1) :
        builder[b] = [pc |-> "writing", inode |-> inode, at |-> at]
  BY <1>1, TaskFields
<1>3. at \in 1..LastChunk /\ at + 1 \in 1..(LastChunk + 1)
  BY <1>2, BoundsAssumption DEF WriteChunk
<1>4. builder' = [builder EXCEPT ![b] = [pc |-> "writing", inode |-> inode, at |-> at + 1]]
  <2>1. builder' = [builder EXCEPT ![b] = [builder[b] EXCEPT !.at = builder[b].at + 1]]
    BY DEF WriteChunk, TypeInv
  <2>2. [builder[b] EXCEPT !.at = builder[b].at + 1]
          = [pc |-> "writing", inode |-> inode, at |-> at + 1]
    BY <1>2
  <2>. QED
    BY <2>1, <2>2
<1>5. [pc |-> "writing", inode |-> inode, at |-> at + 1] \in BuilderStates
  BY <1>3, TaskStates
<1>. QED
  BY <1>1, <1>2, <1>3, <1>4, <1>5 DEF TypeInv, WriteChunk, Writing

LEMMA WriteKeepsTypes ==
  ASSUME TypeInv, NEW b \in Builders, WriteChunk(b)
  PROVE  TypeInv'
<1>1. content' \in [Inodes -> SUBSET (1..LastChunk)]
  BY WriteChunkEffect DEF TypeInv
<1>2. NamesApart'
  BY WriteChunkEffect DEF TypeInv, NamesApart
<1>3. up /\ UNCHANGED <<blob, tmp, pin, up>>
  BY AtWork, WriteChunkEffect DEF Writing
<1>4. \A c \in Builders : Writing(c)' => Writing(c) /\ builder'[c].inode = builder[c].inode
  BY WriteChunkEffect DEF Writing
<1>5. WritersOwn'
  BY <1>3, <1>4 DEF TypeInv, WritersOwn
<1>. QED
  BY <1>1, <1>2, <1>5, WriteChunkEffect DEF TypeInv, cell

\* The holder after a task has returned.
LEMMA ReturnReleases ==
  ASSUME TypeInv, NEW b \in Builders, NEW ok, Return(b, ok)
  PROVE  holder' \in {holder, None} /\ holder' \in Builders \cup {None}
  BY DEF TypeInv, Return

LEMMA RenameKeepsTypes ==
  ASSUME TypeInv, NEW b \in Builders, Rename(b)
  PROVE  TypeInv'
<1>1. /\ Writing(b) /\ up
      /\ builder' = [builder EXCEPT ![b] = Resting]
      /\ UNCHANGED <<content, pin, up, abandoned, fails, spilt, crashes>>
      /\ holder' \in Builders \cup {None}
  BY AtWork, ReturnReleases DEF Rename, Return, Writing
<1>2. CASE blob' = blob /\ tmp' = tmp
  BY <1>1, <1>2, TaskStates, TaskStep DEF TypeInv
<1>3. CASE /\ tmp[pin] # None
           /\ blob' = [blob EXCEPT ![pin] = tmp[pin]]
           /\ tmp' = [tmp EXCEPT ![pin] = None]
  <2>1. /\ blob' \in [Pins -> Inodes \cup {None}]
        /\ tmp' \in [Pins -> Inodes \cup {None}]
    BY <1>3 DEF TypeInv
  <2>2. builder' \in [Builders -> BuilderStates]
    BY <1>1, TaskStates DEF TypeInv
  <2>3. NamesApart'
    BY <1>3, <1>1 DEF TypeInv, NamesApart
  <2>4. \A c \in Builders : Writing(c)' => Writing(c) /\ builder'[c] = builder[c]
    BY <1>1, TaskStates DEF TypeInv, Writing
  <2>5. WritersOwn'
    BY <1>1, <1>3, <2>4 DEF TypeInv, WritersOwn
  <2>. QED
    BY <1>1, <2>1, <2>2, <2>3, <2>5 DEF TypeInv
<1>. QED
  BY <1>2, <1>3 DEF Rename

\* What a deployment removes, and how it counts what it can not.
LEMMA SpiltByBoot ==
  ASSUME NEW p \in Pins, Boot(p)
  PROVE  /\ \E swept \in SUBSET Pins :
              blob' = [q \in Pins |-> IF q \in swept THEN None ELSE blob[q]]
         /\ \E stuck \in SUBSET (Pins \ {p}) :
              /\ \A q \in Pins \ {p} : blob'[q] # None => q \in stuck
              /\ IsFiniteSet(stuck) /\ Cardinality(stuck) \in Nat
              /\ spilt' = spilt + Cardinality(stuck)
<1>1. PICK stuck \in SUBSET {q \in Stale(p) : blob[q] # None} :
        /\ blob' = [q \in Pins |-> IF q \in Stale(p) \ stuck THEN None ELSE blob[q]]
        /\ spilt' = spilt + Cardinality(stuck)
  BY DEF Boot
<1>2. stuck \subseteq Pins \ {p} /\ Stale(p) = Pins \ {p}
  BY DEF Stale
<1>3. IsFiniteSet(stuck) /\ Cardinality(stuck) \in Nat
  BY <1>2, TasksAssumption, FS_Subset, FS_CardinalityType
<1>4. \A q \in Pins \ {p} : blob'[q] # None => q \in stuck
  BY <1>1, <1>2
<1>5. Stale(p) \ stuck \in SUBSET Pins
  BY <1>2
<1>. QED
  BY <1>1, <1>2, <1>3, <1>4, <1>5

\* A deployment clears names of other pins while no task runs.
LEMMA BootKeepsTypes ==
  ASSUME TypeInv, NEW p \in Pins, Boot(p)
  PROVE  TypeInv'
<1>1. PICK swept \in SUBSET Pins :
        blob' = [q \in Pins |-> IF q \in swept THEN None ELSE blob[q]]
  BY SpiltByBoot
<1>2. blob' \in [Pins -> Inodes \cup {None}]
  BY <1>1 DEF TypeInv
<1>5. spilt' \in Nat
  BY SpiltByBoot DEF TypeInv
<1>3. NamesApart'
  BY <1>1 DEF TypeInv, NamesApart, Boot
<1>4. WritersOwn'
  BY TaskStates DEF TypeInv, WritersOwn, Boot, Writing
<1>. QED
  BY <1>2, <1>3, <1>4, <1>5 DEF TypeInv, Boot, cell

LEMMA TypesInitially == Init => TypeInv
<1> SUFFICES ASSUME Init PROVE TypeInv
  OBVIOUS
<1>1. /\ NamesApart /\ WritersOwn
  BY TaskStates DEF Init, NamesApart, WritersOwn, Writing
<1>. QED
  BY <1>1, TaskStates DEF Init, TypeInv

LEMMA TypesKept == TypeInv /\ [Next]_vars => TypeInv'
<1> SUFFICES ASSUME TypeInv, [Next]_vars PROVE TypeInv'
  OBVIOUS
<1> USE TaskStates
<1>1. ASSUME NEW b \in Builders, Start(b) PROVE TypeInv'
  BY <1>1, TaskStep DEF Start, files, TypeInv
<1>2. ASSUME NEW b \in Builders, Load(b) PROVE TypeInv'
  <2>1. up /\ UNCHANGED <<blob, tmp, content, pin, up, abandoned, fails, spilt, crashes>>
    BY <1>2, AtWork DEF Load, files
  <2>2. CASE Return(b, Whole(blob[pin]))
    <3>1. holder' \in Builders \cup {None}
      BY <2>2, ReturnReleases
    <3>. QED
      BY <2>1, <2>2, <3>1, TaskStep DEF Return, TypeInv
  <2>3. CASE builder' = [builder EXCEPT ![b] = [pc |-> "proving"]] /\ UNCHANGED cell
    BY <2>1, <2>3, TaskStep DEF cell, TypeInv
  <2>. QED
    BY <1>2, <2>2, <2>3 DEF Load
<1>3. ASSUME NEW b \in Builders, Prove(b) PROVE TypeInv'
  BY <1>3, AtWork, TaskStep DEF Prove, files, cell, TypeInv
<1>4. ASSUME NEW b \in Builders, Create(b) PROVE TypeInv'
  BY <1>4, CreateKeepsTypes
<1>5. ASSUME NEW b \in Builders, WriteChunk(b) PROVE TypeInv'
  BY <1>5, WriteKeepsTypes
<1>6. ASSUME NEW b \in Builders, Rename(b) PROVE TypeInv'
  BY <1>6, RenameKeepsTypes
<1>7. ASSUME NEW b \in Builders, Fail(b) PROVE TypeInv'
  <2>1. /\ up /\ UNCHANGED <<blob, tmp, content, pin, up, abandoned, spilt, crashes>>
        /\ fails' = fails + 1
        /\ holder' \in Builders \cup {None}
        /\ builder' = [builder EXCEPT ![b] = Resting]
    BY <1>7, AtWork, ReturnReleases DEF Fail, files, Return
  <2>2. /\ holder' \in Builders \cup {None} /\ abandoned' \in BOOLEAN
        /\ fails' \in Nat /\ crashes' \in Nat /\ spilt' \in Nat
    BY <2>1 DEF TypeInv
  <2>. QED
    BY <2>1, <2>2, TaskStep
<1>8. CASE HangUp
  BY <1>8 DEF HangUp, files, TypeInv, NamesApart, WritersOwn, Writing
<1>9. CASE Crash
  <2>1. NamesApart' /\ WritersOwn'
    BY <1>9 DEF Crash, files, TypeInv, NamesApart, WritersOwn, Writing
  <2>2. crashes' \in Nat /\ spilt' \in Nat /\ builder' \in [Builders -> BuilderStates]
    BY <1>9 DEF Crash, TypeInv
  <2>3. UNCHANGED <<blob, tmp, content, pin, abandoned, fails>> /\ holder' = None /\ up' = FALSE
    BY <1>9 DEF Crash, files
  <2>. QED
    BY <2>1, <2>2, <2>3 DEF TypeInv
<1>10. ASSUME NEW p \in Pins, Boot(p) PROVE TypeInv'
  BY <1>10, BootKeepsTypes
<1>11. CASE UNCHANGED vars
  BY <1>11 DEF vars, files, cell, TypeInv, NamesApart, WritersOwn, Writing
<1>. QED
  BY <1>1, <1>2, <1>3, <1>4, <1>5, <1>6, <1>7, <1>8, <1>9, <1>10, <1>11 DEF Next, Build

\* The types of the files, the cell and the tasks, and a writer of one build's
\* context never has the published context of another build open.
THEOREM TypeCorrect == Spec => []TypeOK
<1>1. TypeInv => TypeOK
  <2> SUFFICES ASSUME TypeInv PROVE TypeOK
    OBVIOUS
  <2>1. \A b \in Builders : Writing(b) =>
          builder[b].inode \in Inodes \ {blob[p] : p \in Pins \ {pin}}
    BY TaskFields DEF TypeInv, WritersOwn
  <2>. QED
    BY <2>1 DEF TypeInv, TypeOK, Writing
<1>. QED
  BY <1>1, TypesInitially, TypesKept, PTL DEF Spec

-----------------------------------------------------------------------------
(* One builder at a time, until a client hangs up.                         *)

LEMMA AloneInitially == Init => AloneInv
  BY TaskStates DEF Init, AloneInv, Writing

LEMMA AloneKept == TypeInv /\ AloneInv /\ [Next]_vars => AloneInv'
<1> SUFFICES ASSUME TypeInv, AloneInv, [Next]_vars, ~abandoned' PROVE AloneInv'
  BY DEF AloneInv
<1> USE TaskStates
<1>0. ~abandoned
  BY DEF Next, Start, Build, Load, Prove, Create, WriteChunk, Rename, Fail, HangUp,
         Crash, Boot, vars
<1>a. /\ \A p \in Pins : blob[p] # None => Whole(blob[p])
      /\ \A c \in Builders : builder[c] # Resting => holder = c
      /\ \A c \in Builders : Writing(c) =>
           /\ tmp[pin] = builder[c].inode
           /\ content[builder[c].inode] = 1..(builder[c].at - 1)
  BY <1>0 DEF AloneInv
\* A task's step that writes nothing.
<1>b. ASSUME NEW b \in Builders, NEW state \in BuilderStates, state.pc # "writing",
             builder' = [builder EXCEPT ![b] = state],
             UNCHANGED <<blob, tmp, content, pin>>,
             \A c \in Builders : c # b /\ holder = c => holder' = c,
             state # Resting => holder' = b
      PROVE  AloneInv'
  <2>1. \A c \in Builders : builder'[c] # Resting => holder' = c
    BY <1>a, <1>b DEF TypeInv
  <2>2. \A c \in Builders : Writing(c)' => Writing(c) /\ builder'[c] = builder[c]
    BY <1>b DEF TypeInv, Writing
  <2>. QED
    BY <1>a, <1>b, <2>1, <2>2 DEF AloneInv, Whole
<1>1. ASSUME NEW b \in Builders, Start(b) PROVE AloneInv'
  <2>1. \A c \in Builders : holder # c
    BY <1>1, NoneAssumption DEF Start
  <2>. QED
    BY <1>1, <1>b, <2>1 DEF Start, files
\* A step of the task the holder waits for.
<1>c. ASSUME NEW b \in Builders, builder[b].pc # "resting" PROVE holder = b
  BY <1>a, <1>c
<1>2. ASSUME NEW b \in Builders, Load(b) PROVE AloneInv'
  <2>1. UNCHANGED <<blob, tmp, content, pin>> /\ holder = b
    BY <1>2, <1>c DEF Load, files
  <2>2. CASE Return(b, Whole(blob[pin]))
    BY <1>b, <2>1, <2>2 DEF Return
  <2>3. CASE builder' = [builder EXCEPT ![b] = [pc |-> "proving"]] /\ UNCHANGED cell
    BY <1>b, <2>1, <2>3 DEF cell
  <2>. QED
    BY <1>2, <2>2, <2>3 DEF Load
<1>3. ASSUME NEW b \in Builders, Prove(b) PROVE AloneInv'
  BY <1>3, <1>b, <1>c DEF Prove, files, cell
<1>4. ASSUME NEW b \in Builders, Create(b) PROVE AloneInv'
  <2>1. PICK inode \in Inodes :
          /\ inode = tmp[pin] \/ inode \notin InUse
          /\ tmp' = [tmp EXCEPT ![pin] = inode]
          /\ content' = [content EXCEPT ![inode] = {}]
          /\ builder' = [builder EXCEPT ![b] = [pc |-> "writing", inode |-> inode, at |-> 1]]
    BY <1>4, InodeForCreate DEF Create, TypeInv
  <2>2. UNCHANGED <<blob, pin, holder>> /\ holder = b
    BY <1>4, <1>c DEF Create, cell
  <2>3. \A p \in Pins : inode # blob[p]
    BY <2>1, NoneAssumption DEF TypeInv, NamesApart, InUse, Inodes
  <2>4. \A p \in Pins : blob'[p] # None => Whole(blob[p])'
    BY <1>a, <2>1, <2>2, <2>3 DEF TypeInv, Whole
  <2>5. \A c \in Builders : builder'[c] # Resting => c = b
    BY <1>a, <2>1, <2>2 DEF TypeInv
  <2>6. tmp'[pin'] = builder'[b].inode /\ content'[builder'[b].inode] = 1..(builder'[b].at - 1)
    BY <2>1, <2>2 DEF TypeInv
  <2>. QED
    BY <2>2, <2>4, <2>5, <2>6 DEF AloneInv, Writing
<1>5. ASSUME NEW b \in Builders, WriteChunk(b) PROVE AloneInv'
  <2>1. /\ Writing(b) /\ holder = b
        /\ tmp[pin] = builder[b].inode
        /\ content[builder[b].inode] = 1..(builder[b].at - 1)
        /\ builder[b].inode \in Inodes
    BY <1>5, <1>a, <1>c, WriteChunkEffect, TaskFields DEF Writing
  <2>2. \A p \in Pins : builder[b].inode # blob[p]
    BY <2>1, NoneAssumption DEF TypeInv, NamesApart, Inodes
  <2>3. UNCHANGED <<blob, tmp, pin, holder>>
    BY <1>5, WriteChunkEffect DEF cell
  <2>4. \A p \in Pins : blob'[p] # None => Whole(blob[p])'
    BY <1>5, <1>a, <2>2, <2>3, WriteChunkEffect DEF TypeInv, Whole
  <2>5. \A c \in Builders : builder'[c] # Resting => c = b
    BY <1>5, <1>a, <2>1, WriteChunkEffect
  <2>6. content'[builder'[b].inode] = 1..(builder'[b].at - 1)
    <3> DEFINE at == builder[b].at
    <3>1. at \in 1..LastChunk /\ builder'[b].at = at + 1 /\ builder'[b].inode = builder[b].inode
      BY <1>5, WriteChunkEffect
    <3>2. content'[builder[b].inode] = (1..(at - 1)) \cup {at}
      BY <1>5, <2>1, WriteChunkEffect DEF TypeInv
    <3> HIDE DEF at
    <3>3. (1..(at - 1)) \cup {at} = 1..((at + 1) - 1)
      BY <3>1, BoundsAssumption
    <3>. QED
      BY <3>1, <3>2, <3>3
  <2>. QED
    BY <1>5, <2>1, <2>3, <2>4, <2>5, <2>6, WriteChunkEffect DEF AloneInv, Writing
<1>6. ASSUME NEW b \in Builders, Rename(b) PROVE AloneInv'
  <2>1. /\ Writing(b) /\ holder = b
        /\ builder' = [builder EXCEPT ![b] = Resting]
        /\ UNCHANGED <<content, pin>>
    BY <1>6, <1>c DEF Rename, Return, Writing
  <2>2. CASE blob' = blob /\ tmp' = tmp
    BY <1>b, <2>1, <2>2
  <2>3. CASE blob' = [blob EXCEPT ![pin] = tmp[pin]]
    <3>1. builder[b].at = LastChunk + 1
      <4>1. builder[b].at \in 1..(LastChunk + 1)
        BY <2>1, TaskFields
      <4>2. builder[b].at > LastChunk
        BY <1>6 DEF Rename, Written
      <4>. QED
        BY <4>1, <4>2, BoundsAssumption
    <3>2. Whole(tmp[pin])
      BY <1>a, <2>1, <3>1, BoundsAssumption DEF Whole
    <3>3. \A p \in Pins : blob'[p] # None => Whole(blob[p])'
      BY <1>a, <2>1, <2>3, <3>2 DEF TypeInv, Whole
    <3>4. \A c \in Builders : builder'[c] = Resting
      BY <1>a, <2>1 DEF TypeInv
    <3>. QED
      BY <3>3, <3>4 DEF AloneInv, Writing
  <2>. QED
    BY <1>6, <2>2, <2>3 DEF Rename
<1>7. ASSUME NEW b \in Builders, Fail(b) PROVE AloneInv'
  <2>1. holder = b
    BY <1>7, <1>c DEF Fail
  <2>. QED
    BY <1>7, <2>1, <1>b DEF Fail, files, Return
<1>8. CASE HangUp
  BY <1>8 DEF HangUp
<1>9. CASE Crash
  BY <1>9, <1>a DEF Crash, files, AloneInv, Writing, Whole
<1>10. ASSUME NEW p \in Pins, Boot(p) PROVE AloneInv'
  <2>1. PICK swept \in SUBSET Pins :
          blob' = [q \in Pins |-> IF q \in swept THEN None ELSE blob[q]]
    BY <1>10, SpiltByBoot
  <2>2. \A q \in Pins : blob'[q] # None => Whole(blob[q])'
    BY <1>10, <1>a, <2>1 DEF Boot, Whole
  <2>3. \A c \in Builders : builder'[c] = Resting
    BY <1>10 DEF Boot, TypeInv, WritersOwn
  <2>. QED
    BY <2>2, <2>3 DEF AloneInv, Writing
<1>11. CASE UNCHANGED vars
  BY <1>11, <1>a DEF vars, files, cell, AloneInv, Writing, Whole
<1>. QED
  BY <1>1, <1>2, <1>3, <1>4, <1>5, <1>6, <1>7, <1>8, <1>9, <1>10, <1>11 DEF Next, Build

\* PublishedWhole for any number of builders, pins, chunks, failures and deaths: as
\* long as no client hung up on a build, whatever bears the blob's name is whole.
THEOREM WholeUnlessAbandoned == Spec => []PublishedWhole
<1>1. AloneInv => PublishedWhole
  BY DEF AloneInv, PublishedWhole
<1>. QED
  BY <1>1, TypesInitially, TypesKept, AloneInitially, AloneKept, PTL DEF Spec

-----------------------------------------------------------------------------
(* Builders that overlap.                                                  *)

LEMMA MendInitially == Init => MendInv
  BY NoneAssumption DEF Init, MendInv, Inodes

\* An inode of the pin that is whole or being mended.
Cared(inode) == Whole(inode) \/ \E c \in Builders : Mending(c, inode)

LEMMA MendKept == TypeInv /\ MendInv /\ [Next]_vars => MendInv'
<1> SUFFICES ASSUME TypeInv, MendInv, [Next]_vars, fails' = 0, crashes' = 0 PROVE MendInv'
  BY DEF MendInv
<1> USE TaskStates
<1>0. fails = 0 /\ crashes = 0 /\ ~Crash /\ (\A b \in Builders : ~Fail(b))
  <2>1. fails \in Nat /\ crashes \in Nat
    BY DEF TypeInv
  <2>2. ~Crash /\ \A b \in Builders : ~Fail(b)
    <3>1. Crash => crashes' = crashes + 1
      BY DEF Crash
    <3>2. \A b \in Builders : Fail(b) => fails' = fails + 1
      BY DEF Fail
    <3>. QED
      BY <2>1, <3>1, <3>2
  <2>3. UNCHANGED <<fails, crashes>>
    BY <2>2 DEF Next, Start, Build, Load, Prove, Create, WriteChunk, Rename, HangUp, Boot, vars
  <2>. QED
    BY <2>2, <2>3
<1>a. /\ up
      /\ \A p \in Pins : p # pin => blob[p] = None /\ tmp[p] = None
      /\ \A inode \in Inodes : inode = blob[pin] \/ inode = tmp[pin] => Cared(inode)
  BY <1>0 DEF MendInv, Cared
<1>b. \A p \in Pins : ~Boot(p)
  BY <1>a DEF Boot
\* A step that leaves the files and every writer as they are.
<1>c. ASSUME UNCHANGED <<blob, tmp, content, pin, up>>,
             \A c \in Builders : Writing(c) => builder'[c] = builder[c]
      PROVE  MendInv'
  <2>1. ASSUME NEW inode \in Inodes, Cared(inode) PROVE Cared(inode)'
    BY <1>c, <2>1 DEF Cared, Whole, Mending, Writing
  <2>. QED
    BY <1>a, <1>c, <2>1 DEF MendInv, Cared
<1>1. ASSUME NEW b \in Builders, Start(b) PROVE MendInv'
  BY <1>1, <1>c DEF Start, files, Writing, TypeInv
<1>2. ASSUME NEW b \in Builders, Load(b) PROVE MendInv'
  BY <1>2, <1>c DEF Load, Return, files, Writing, TypeInv
<1>3. ASSUME NEW b \in Builders, Prove(b) PROVE MendInv'
  BY <1>3, <1>c DEF Prove, files, Writing, TypeInv
<1>4. ASSUME NEW b \in Builders, Create(b) PROVE MendInv'
  <2>1. PICK inode \in Inodes :
          /\ inode = tmp[pin] \/ inode \notin InUse
          /\ tmp' = [tmp EXCEPT ![pin] = inode]
          /\ content' = [content EXCEPT ![inode] = {}]
          /\ builder' = [builder EXCEPT ![b] = [pc |-> "writing", inode |-> inode, at |-> 1]]
    BY <1>4, InodeForCreate DEF Create, TypeInv
  <2>2. UNCHANGED <<blob, pin, up>> /\ ~Writing(b)
    BY <1>4 DEF Create, Writing
  <2>3. Mending(b, inode)'
    BY <2>1 DEF TypeInv, Mending, Writing
  <2>4. ASSUME NEW i \in Inodes, i # inode, Cared(i) PROVE Cared(i)'
    <3>1. content'[i] = content[i]
      BY <2>1, <2>4 DEF TypeInv
    <3>2. \A c \in Builders : Mending(c, i) => Mending(c, i)'
      BY <2>1, <2>2, <3>1 DEF TypeInv, Mending, Writing
    <3>. QED
      BY <2>4, <3>1, <3>2 DEF Cared, Whole
  <2>5. \A i \in Inodes : i = blob'[pin'] \/ i = tmp'[pin'] => Cared(i)'
    BY <1>a, <2>1, <2>2, <2>3, <2>4 DEF TypeInv, Cared
  <2>6. \A p \in Pins : p # pin' => blob'[p] = None /\ tmp'[p] = None
    BY <1>a, <2>1, <2>2 DEF TypeInv
  <2>. QED
    BY <1>a, <2>2, <2>5, <2>6 DEF MendInv, Cared
<1>5. ASSUME NEW b \in Builders, WriteChunk(b) PROVE MendInv'
  <2>1. /\ Writing(b) /\ Writing(b)'
        /\ builder[b].at \in 1..LastChunk
        /\ builder[b].inode \in Inodes
        /\ builder'[b].inode = builder[b].inode
        /\ builder'[b].at = builder[b].at + 1
        /\ content' = [content EXCEPT ![builder[b].inode] = @ \cup {builder[b].at}]
        /\ \A c \in Builders : c # b => builder'[c] = builder[c]
    BY <1>5, WriteChunkEffect, TaskFields
  <2>2. UNCHANGED <<blob, tmp, pin, up>>
    BY <1>5, WriteChunkEffect
  <2>3. ASSUME NEW i \in Inodes, Cared(i) PROVE Cared(i)'
    <3>1. content[i] \subseteq content'[i] /\ content'[i] \in SUBSET (1..LastChunk)
      BY <2>1 DEF TypeInv
    <3>2. CASE Whole(i)
      BY <3>1, <3>2 DEF Cared, Whole
    <3>3. ASSUME NEW c \in Builders, Mending(c, i) PROVE Mending(c, i)'
      <4>1. CASE c # b
        BY <2>1, <3>1, <3>3, <4>1 DEF Mending, Writing
      <4>2. CASE c = b
        <5> DEFINE at == builder[b].at
        <5>1. at \in 1..LastChunk /\ 1..(at - 1) \subseteq content[i] /\ at \in content'[i]
          BY <2>1, <3>3, <4>2 DEF Mending, TypeInv
        <5>2. builder'[c].at = at + 1 /\ builder'[c].inode = i /\ Writing(c)'
          BY <2>1, <3>3, <4>2 DEF Mending
        <5> HIDE DEF at
        <5>3. 1..((at + 1) - 1) = (1..(at - 1)) \cup {at}
          BY <5>1, BoundsAssumption
        <5>. QED
          BY <3>1, <5>1, <5>2, <5>3 DEF Mending
      <4>. QED
        BY <4>1, <4>2
    <3>. QED
      BY <2>3, <3>2, <3>3 DEF Cared
  <2>. QED
    BY <1>a, <2>2, <2>3 DEF MendInv, Cared
<1>6. ASSUME NEW b \in Builders, Rename(b) PROVE MendInv'
  <2>1. /\ Writing(b)
        /\ builder' = [builder EXCEPT ![b] = Resting]
        /\ UNCHANGED <<content, pin, up>>
    BY <1>6 DEF Rename, Return, Writing
  <2>2. builder[b].at = LastChunk + 1
    <3>1. builder[b].at \in 1..(LastChunk + 1)
      BY <2>1, TaskFields
    <3>2. builder[b].at > LastChunk
      BY <1>6 DEF Rename, Written
    <3>. QED
      BY <3>1, <3>2, BoundsAssumption
\* What the task that ends was mending is whole.
  <2>3. ASSUME NEW i \in Inodes, Cared(i) PROVE Cared(i)'
    <3>1. CASE Whole(i)
      BY <2>1, <3>1 DEF Cared, Whole
    <3>2. ASSUME NEW c \in Builders, Mending(c, i), c # b PROVE Mending(c, i)'
      BY <2>1, <3>2 DEF Mending, Writing, TypeInv
    <3>3. Mending(b, i) => Whole(i)
      <4>1. (LastChunk + 1) - 1 = LastChunk
        BY BoundsAssumption
      <4>. QED
        BY <2>2, <4>1 DEF Mending, Whole, TypeInv
    <3>. QED
      BY <2>1, <2>3, <3>1, <3>2, <3>3 DEF Cared, Whole
  <2>4. \/ UNCHANGED <<blob, tmp>>
        \/ /\ tmp[pin] # None
           /\ blob' = [blob EXCEPT ![pin] = tmp[pin]]
           /\ tmp' = [tmp EXCEPT ![pin] = None]
    BY <1>6 DEF Rename
  <2>5. \A i \in Inodes : i = blob'[pin'] \/ i = tmp'[pin'] => Cared(i)'
    BY <1>a, <2>1, <2>3, <2>4, NoneAssumption DEF TypeInv, Inodes
  <2>6. \A p \in Pins : p # pin' => blob'[p] = None /\ tmp'[p] = None
    BY <1>a, <2>1, <2>4 DEF TypeInv
  <2>. QED
    BY <1>a, <2>1, <2>5, <2>6 DEF MendInv, Cared
<1>7. CASE HangUp
  BY <1>7, <1>c DEF HangUp, files
<1>8. CASE UNCHANGED vars
  BY <1>8, <1>c DEF vars, files
<1>. QED
  BY <1>0, <1>b, <1>1, <1>2, <1>3, <1>4, <1>5, <1>6, <1>7, <1>8 DEF Next, Build

\* MendedAtRest for any number of builders: a builder may publish a file that another
\* one is still writing; when all have ended and none failed or was killed, the blob
\* is whole.
THEOREM Mended == Spec => []MendedAtRest
<1>1. TypeInv /\ MendInv => MendedAtRest
  <2> SUFFICES ASSUME TypeInv, MendInv, fails = 0, crashes = 0,
                      \A b \in Builders : builder[b] = Resting,
                      NEW p \in Pins, blob[p] # None
               PROVE  Whole(blob[p])
    BY DEF MendedAtRest
  <2>1. p = pin /\ blob[p] \in Inodes
    BY DEF MendInv, TypeInv
  <2>2. \A c \in Builders : ~Mending(c, blob[p])
    BY TaskStates DEF Mending, Writing
  <2>. QED
    BY <2>1, <2>2 DEF MendInv
<1>. QED
  BY <1>1, TypesInitially, TypesKept, MendInitially, MendKept, PTL DEF Spec

-----------------------------------------------------------------------------
(* What is left behind.                                                    *)

LEMMA LeftFinite ==
  /\ IsFiniteSet(StaleBlobs) /\ Cardinality(StaleBlobs) \in Nat
  /\ IsFiniteSet(Adrift) /\ Cardinality(Adrift) \in Nat
<1>1. StaleBlobs \subseteq Pins /\ Adrift \subseteq Pins
  BY DEF StaleBlobs, Adrift
<1>. QED
  BY <1>1, TasksAssumption, FS_Subset, FS_CardinalityType

LEMMA LeftInitially == Init => LeftInv
<1> SUFFICES ASSUME Init PROVE LeftInv
  OBVIOUS
<1>1. StaleBlobs = {} /\ Adrift = {}
  BY DEF Init, StaleBlobs, Adrift
<1>. QED
  BY <1>1, FS_EmptySet DEF Init, LeftInv

\* A step that leaves nothing more behind.
LEMMA NothingLeft ==
  ASSUME TypeInv, LeftInv, StaleBlobs' \subseteq StaleBlobs, Adrift' \subseteq Adrift,
         UNCHANGED <<fails, spilt>>
  PROVE  LeftInv'
<1>1. /\ Cardinality(StaleBlobs') <= Cardinality(StaleBlobs)
      /\ Cardinality(Adrift') <= Cardinality(Adrift)
  BY LeftFinite, FS_Subset
<1>2. Cardinality(StaleBlobs') \in Nat /\ Cardinality(Adrift') \in Nat
  BY LeftFinite, FS_Subset, FS_CardinalityType
<1>. QED
  BY <1>1, <1>2, LeftFinite DEF LeftInv, TypeInv

\* A step that counts a failure or a death, and may leave a temporary file.
LEMMA OneLeft ==
  ASSUME TypeInv, LeftInv, StaleBlobs' \subseteq StaleBlobs, Adrift' \subseteq Adrift \cup {pin},
         fails' + spilt' = fails + spilt + 1
  PROVE  LeftInv'
<1>1. Cardinality(StaleBlobs') <= Cardinality(StaleBlobs) /\ Cardinality(StaleBlobs') \in Nat
  BY LeftFinite, FS_Subset, FS_CardinalityType
<1>2. /\ IsFiniteSet(Adrift \cup {pin})
      /\ Cardinality(Adrift \cup {pin}) <= Cardinality(Adrift) + 1
      /\ Cardinality(Adrift \cup {pin}) \in Nat
  <2>1. CASE pin \in Adrift
    <3>1. Adrift \cup {pin} = Adrift
      BY <2>1
    <3>. QED
      BY <3>1, LeftFinite
  <2>2. CASE pin \notin Adrift
    <3>1. /\ IsFiniteSet(Adrift \cup {pin})
          /\ Cardinality(Adrift \cup {pin}) = Cardinality(Adrift) + 1
      BY <2>2, LeftFinite, FS_AddElement
    <3>. QED
      BY <3>1, LeftFinite
  <2>. QED BY <2>1, <2>2
<1>3. Cardinality(Adrift') <= Cardinality(Adrift) + 1 /\ Cardinality(Adrift') \in Nat
  <2>1. /\ Cardinality(Adrift') <= Cardinality(Adrift \cup {pin})
        /\ IsFiniteSet(Adrift')
    BY <1>2, FS_Subset
  <2>2. Cardinality(Adrift') \in Nat
    BY <2>1, FS_CardinalityType
  <2>. QED
    BY <1>2, <2>1, <2>2, LeftFinite
<1>. QED
  BY <1>1, <1>3, LeftFinite DEF LeftInv, TypeInv

LEMMA LeftKept == TypeInv /\ LeftInv /\ [Next]_vars => LeftInv'
<1> SUFFICES ASSUME TypeInv, LeftInv, [Next]_vars PROVE LeftInv'
  OBVIOUS
<1> USE TaskStates
\* A step that keeps the names and stops no writer.
<1>a. ASSUME UNCHANGED <<blob, tmp, pin, fails, spilt>>,
             \A c \in Builders : Writing(c) => Writing(c)'
      PROVE  LeftInv'
  BY <1>a, NothingLeft DEF StaleBlobs, Adrift
<1>1. ASSUME NEW b \in Builders, Start(b) PROVE LeftInv'
  BY <1>1, <1>a DEF Start, files, Writing, TypeInv
<1>2. ASSUME NEW b \in Builders, Load(b) PROVE LeftInv'
  BY <1>2, <1>a DEF Load, Return, files, Writing, TypeInv
<1>3. ASSUME NEW b \in Builders, Prove(b) PROVE LeftInv'
  BY <1>3, <1>a DEF Prove, files, Writing, TypeInv
\* The pin's own temporary file has a writer now.
<1>4. ASSUME NEW b \in Builders, Create(b) PROVE LeftInv'
  <2>1. /\ UNCHANGED <<blob, pin, fails, spilt>> /\ Writing(b)'
        /\ \A q \in Pins : q # pin => tmp'[q] = tmp[q]
    BY <1>4 DEF Create, Writing, TypeInv
  <2>2. StaleBlobs' \subseteq StaleBlobs /\ Adrift' \subseteq Adrift
    BY <2>1 DEF StaleBlobs, Adrift
  <2>. QED
    BY <2>1, <2>2, NothingLeft
<1>5. ASSUME NEW b \in Builders, WriteChunk(b) PROVE LeftInv'
  <2>1. UNCHANGED <<blob, tmp, pin, fails, spilt>>
    BY <1>5 DEF WriteChunk
  <2>2. \A c \in Builders : Writing(c) => Writing(c)'
    BY <1>5, WriteChunkEffect DEF Writing
  <2>. QED
    BY <2>1, <2>2, <1>a
\* Either way the pin has no temporary file afterwards.
<1>6. ASSUME NEW b \in Builders, Rename(b) PROVE LeftInv'
  <2>1. /\ UNCHANGED <<pin, fails, spilt>> /\ tmp'[pin] = None
        /\ \A q \in Pins : q # pin => tmp'[q] = tmp[q] /\ blob'[q] = blob[q]
    BY <1>6 DEF Rename, TypeInv
  <2>2. StaleBlobs' \subseteq StaleBlobs /\ Adrift' \subseteq Adrift
    BY <2>1 DEF StaleBlobs, Adrift
  <2>. QED
    BY <2>1, <2>2, NothingLeft
<1>7. ASSUME NEW b \in Builders, Fail(b) PROVE LeftInv'
  <2>1. UNCHANGED <<blob, tmp, pin, spilt>> /\ fails' = fails + 1
    BY <1>7 DEF Fail, files
  <2>2. StaleBlobs' \subseteq StaleBlobs /\ Adrift' \subseteq Adrift \cup {pin}
    BY <2>1 DEF StaleBlobs, Adrift
  <2>3. fails' + spilt' = fails + spilt + 1
    BY <2>1 DEF TypeInv
  <2>. QED
    BY <2>2, <2>3, OneLeft
<1>8. CASE HangUp
  BY <1>8, <1>a DEF HangUp, files, Writing
<1>9. CASE Crash
  <2>1. UNCHANGED <<blob, tmp, pin, fails>>
    BY <1>9 DEF Crash, files
  <2>2. CASE \E b \in Builders : Writing(b)
    <3>1. StaleBlobs' \subseteq StaleBlobs /\ Adrift' \subseteq Adrift \cup {pin}
      BY <2>1 DEF StaleBlobs, Adrift
    <3>2. fails' + spilt' = fails + spilt + 1
      BY <1>9, <2>1, <2>2 DEF Crash, Writing, TypeInv
    <3>. QED
      BY <3>1, <3>2, OneLeft
  <2>3. CASE \A b \in Builders : ~Writing(b)
    <3>1. spilt' = spilt
      BY <1>9, <2>3 DEF Crash, Writing, TypeInv
    <3>. QED
      BY <2>1, <2>3, <3>1, <1>a
  <2>. QED
    BY <2>2, <2>3
\* Nobody writes while the process is down, so that what is adrift stays as it is.
<1>10. ASSUME NEW p \in Pins, Boot(p) PROVE LeftInv'
  <2>1. /\ pin' = p /\ UNCHANGED <<tmp, builder, fails>>
        /\ \A b \in Builders : ~Writing(b) /\ ~Writing(b)'
    BY <1>10 DEF Boot, TypeInv, WritersOwn, Writing
  <2>2. Adrift' = Adrift
    BY <2>1 DEF Adrift
  <2>3. PICK stuck \in SUBSET (Pins \ {p}) :
          /\ \A q \in Pins \ {p} : blob'[q] # None => q \in stuck
          /\ IsFiniteSet(stuck) /\ Cardinality(stuck) \in Nat
          /\ spilt' = spilt + Cardinality(stuck)
    BY <1>10, SpiltByBoot
  <2>4. StaleBlobs' \subseteq stuck
    BY <2>1, <2>3 DEF StaleBlobs
  <2>5. Cardinality(StaleBlobs') <= Cardinality(stuck) /\ Cardinality(StaleBlobs') \in Nat
    BY <2>3, <2>4, FS_Subset, FS_CardinalityType
  <2>6. Cardinality(Adrift) <= fails + spilt
    BY LeftFinite DEF LeftInv, TypeInv
  <2>. QED
    BY <2>1, <2>2, <2>3, <2>5, <2>6, LeftFinite DEF LeftInv, TypeInv
<1>11. CASE UNCHANGED vars
  BY <1>11, <1>a DEF vars, files, Writing
<1>. QED
  BY <1>1, <1>2, <1>3, <1>4, <1>5, <1>6, <1>7, <1>8, <1>9, <1>10, <1>11 DEF Next, Build

\* LeftoversPaid for any set of pins and any number of builders: through any deployments,
\* overlapping builds, failures and deaths, the files of other pins number at most the
\* builds that failed or were killed while they wrote and the removals that failed.
THEOREM LeftoversArePaid == Spec => []LeftoversPaid
<1>1. TypeInv /\ LeftInv => LeftoversPaid
  <2> SUFFICES ASSUME TypeInv, LeftInv PROVE LeftoversPaid
    OBVIOUS
  <2> DEFINE temps == {p \in Pins \ {pin} : tmp[p] # None}
  <2>1. temps \subseteq Adrift
    BY DEF Adrift
  <2> HIDE DEF temps
  <2>2. Cardinality(temps) <= Cardinality(Adrift) /\ Cardinality(temps) \in Nat
    BY <2>1, LeftFinite, FS_Subset, FS_CardinalityType
  <2>3. Cardinality(StaleBlobs) + Cardinality(temps) <= fails + spilt
    BY <2>2, LeftFinite DEF LeftInv, TypeInv
  <2>. QED
    BY <2>3 DEF temps, StaleBlobs, LeftoversPaid
<1>. QED
  BY <1>1, TypesInitially, TypesKept, LeftInitially, LeftKept, PTL DEF Spec

=============================================================================
