----------------------------- MODULE FileProofs -----------------------------
(***************************************************************************)
(* What is in the files of the program.                                    *)
(*                                                                         *)
(* Checkpoints: what the recovery file and its copies hold, for any number *)
(* of modules, starts and failures, whatever scratch files a module leaves *)
(* on disk and whenever the process is killed.                             *)
(*                                                                         *)
(* Sorting: which patches and lists of patches are in the sort and stage   *)
(* files and in the buffers, for every setup, whatever the algorithms that *)
(* sort and merge do with the terms; and, if these are right, that no term *)
(* is lost or counted wrongly on its way through buffers, files and merges.*)
(***************************************************************************)
EXTENDS Checkpoint, Sort, SequenceTheorems, WellFoundedInduction, TLAPS

(***************************************************************************)
(* Checkpoints.                                                            *)
(***************************************************************************)

Working == {"module", "checkpoint", "write", "copy", "copying", "finish"}
Snapshotting == {"checkpoint", "write", "copy", "copying"}
Saved == [run : 1..MaxStarts, module : 1..Modules]

\* The types, a little sharper than TypeOK: nothing but a complete intermediate
\* file becomes the recovery file.
Types ==
  /\ recovery \in Saved \cup {Absent}
  /\ intermed \in Saved \cup {Absent, Partial}
  /\ copies \in [Files -> Points] /\ scratch \in [Files -> Points]
  /\ ondisk \in [1..Modules -> SUBSET Files]
  /\ run \in 0..MaxStarts /\ module \in 0..Modules
  /\ done_snapshot \in BOOLEAN
  /\ pc \in Working \cup {"down", "recover", "ended"}
  /\ next \in 1..Len(CopyOrder) + 1
  /\ starts \in 0..MaxStarts /\ failures \in 0..MaxFailures

\* A process that works has a number and, in the middle of a snapshot or at the
\* end, a module behind it.
Numbers ==
  /\ pc \in Working => run > 0
  /\ pc \in Snapshotting \cup {"finish"} => module > 0
  /\ pc = "recover" => recovery # Absent

\* The recovery file that a working process finds is its own: of the same
\* computation, of an earlier module, and one that it knows to have made or to
\* have been recovered from.
OwnRecoveryFile ==
  pc \in Working /\ recovery # Absent =>
    /\ done_snapshot
    /\ recovery.run = run /\ recovery.module <= module
    /\ pc \in Snapshotting => recovery.module < module

\* How far a snapshot has come.
SnapshotSoFar ==
  /\ pc \in {"copy", "copying"} => intermed = Now
  /\ pc = "copying" => /\ next <= Len(CopyOrder)
                       /\ copies[CopyOrder[next]] = Partial
                       /\ CopyOrder[next] \in ondisk[module]
  /\ pc \in Snapshotting => \A f \in ondisk[module] : scratch[f] = Now
  /\ pc \in {"copy", "copying"} =>
       \A i \in 1..next-1 : CopyOrder[i] \in ondisk[module] =>
                              copies[CopyOrder[i]] = Now

IInv == Types /\ Numbers /\ OwnRecoveryFile /\ SnapshotSoFar /\ CleanEnd

\* A snapshot that was completed can be recovered: when the recovery file gets a
\* new content all copies that this content needs are there (DoSnapshot,
\* checkpoint.c:3053-3074, the rename after the copies).
CompletedIsRecoverable ==
  [][recovery' # recovery => Recoverable']_vars

-----------------------------------------------------------------------------
LEMMA CopyOrderIs ==
  /\ Len(CopyOrder) = 3
  /\ CopyOrder[1] = "store" /\ CopyOrder[2] = "sort" /\ CopyOrder[3] = "hide"
BY DEF CopyOrder

\* A saved point is neither of the two special contents.
LEMMA SavedIsNeither ==
  Absent \notin Saved /\ Partial \notin Saved /\ Absent # Partial
BY CheckpointBounds DEF Saved, Absent, Partial, Point

LEMMA NowIsSaved ==
  ASSUME Types, run > 0, module > 0
  PROVE  Now \in Saved /\ Now.run = run /\ Now.module = module
BY CheckpointBounds DEF Types, Now, Point, Saved

LEMMA SavedArePoints == Points = Saved \cup {Absent, Partial}
BY DEF Points, Saved

-----------------------------------------------------------------------------
(* Each conjunct of IInv is kept by every step *)

LEMMA InitIInv == Init => IInv
<1> SUFFICES ASSUME Init PROVE IInv
  OBVIOUS
<1>1. Types
  <2>1. [f \in Files |-> Absent] \in [Files -> Points]
    BY SavedArePoints
  <2>2. copies \in [Files -> Points] /\ scratch \in [Files -> Points]
    BY <2>1 DEF Init
  <2>3. done_snapshot \in BOOLEAN
    BY DEF Init
  <2>4. QED
    BY <2>2, <2>3, CheckpointBounds, CopyOrderIs DEF Init, Types, Working
<1>2. Numbers /\ OwnRecoveryFile /\ SnapshotSoFar /\ CleanEnd
  BY DEF Init, Numbers, OwnRecoveryFile, SnapshotSoFar, CleanEnd, Working, Snapshotting
<1>3. QED
  BY <1>1, <1>2 DEF IInv

LEMMA TypesKept ==
  ASSUME IInv, [Next]_vars
  PROVE  Types'
<1> USE CheckpointBounds, CopyOrderIs, SavedArePoints, SavedIsNeither
<1> USE DEF IInv, Types, Working, diskvars, boundvars
<1>1. ASSUME NEW withR \in BOOLEAN, CheckRecoveryFile(withR) PROVE Types'
  <2>1. [f \in Files |-> Absent] \in [Files -> Points]
    OBVIOUS
  <2>2. scratch' \in [Files -> Points]
    BY <1>1, <2>1 DEF CheckRecoveryFile
  <2>3. done_snapshot' \in BOOLEAN
    BY <1>1 DEF CheckRecoveryFile
  <2>4. QED
    BY <1>1, <2>2, <2>3 DEF CheckRecoveryFile
<1>2. CASE DoRecovery
  <2>1. recovery \in Saved
    BY <1>2 DEF DoRecovery, Numbers
  <2>2. recovery.run \in 1..MaxStarts /\ recovery.module \in 1..Modules
    BY <2>1 DEF Saved
  <2>3. [f \in Files |-> IF f \in ondisk[recovery.module] THEN copies[f] ELSE Absent]
          \in [Files -> Points]
    OBVIOUS
  <2>4. scratch' \in [Files -> Points]
    BY <1>2, <2>3 DEF DoRecovery
  <2>5. done_snapshot' \in BOOLEAN
    BY <1>2 DEF DoRecovery, RecoveredMark
  <2>6. QED
    BY <1>2, <2>2, <2>4, <2>5 DEF DoRecovery, RecoveredMark
<1>3. CASE RunModule
  <2>1. run \in 1..MaxStarts /\ module' \in 1..Modules
    BY <1>3 DEF RunModule, Numbers
  <2>2. Point(run, module') \in Points
    BY <2>1 DEF Point, Saved
  <2>3. scratch' \in [Files -> Points]
    BY <1>3, <2>2 DEF RunModule
  <2>4. QED
    BY <1>3, <2>1, <2>3 DEF RunModule
<1>4. CASE SkipSnapshot
  BY <1>4 DEF SkipSnapshot
<1>5. CASE BeginSnapshot
  BY <1>5 DEF BeginSnapshot, OpenIntermediateFile
<1>6. CASE CloseIntermediateFile
  <2>1. Now \in Saved
    BY <1>6, NowIsSaved DEF CloseIntermediateFile, Numbers, Snapshotting
  <2>2. QED
    BY <1>6, <2>1 DEF CloseIntermediateFile
<1>7. CASE NotNeeded
  BY <1>7 DEF NotNeeded, NextFile
<1>8. CASE BeginCopy
  BY <1>8 DEF BeginCopy
<1>9. CASE EndCopy
  <2>1. next \in 1..3
    BY <1>9 DEF EndCopy, SnapshotSoFar
  <2>2. CopyOrder[next] \in Files
    BY <2>1 DEF Files
  <2>3. QED
    BY <1>9, <2>1, <2>2 DEF EndCopy, NextFile
<1>10. CASE RenameIntermediate
  <2>1. intermed \in Saved
    BY <1>10, NowIsSaved DEF RenameIntermediate, SnapshotSoFar, Numbers, Snapshotting
  <2>2. QED
    BY <1>10, <2>1 DEF RenameIntermediate
<1>11. CASE SnapshotFails
  BY <1>11 DEF SnapshotFails
<1>12. CASE DeleteRecoveryFile
  BY <1>12 DEF DeleteRecoveryFile, RemoveRecoveryFileFirst
<1>13. CASE Finish
  BY <1>13 DEF Finish
<1>14. CASE Crash
  BY <1>14 DEF Crash
<1>15. CASE UNCHANGED vars
  BY <1>15 DEF vars
<1>16. QED
  BY <1>1, <1>2, <1>3, <1>4, <1>5, <1>6, <1>7, <1>8, <1>9, <1>10, <1>11, <1>12, <1>13,
     <1>14, <1>15 DEF Next

LEMMA NumbersKept ==
  ASSUME IInv, [Next]_vars
  PROVE  Numbers'
<1> USE CheckpointBounds, SavedIsNeither
<1> USE DEF IInv, Types, Numbers, Working, Snapshotting, diskvars, boundvars
<1>1. ASSUME NEW withR \in BOOLEAN, CheckRecoveryFile(withR) PROVE Numbers'
  BY <1>1 DEF CheckRecoveryFile, Refuses
<1>2. CASE DoRecovery
  <2>1. recovery \in Saved
    BY <1>2 DEF DoRecovery
  <2>2. recovery.run \in 1..MaxStarts
    BY <2>1 DEF Saved
  <2>3. QED
    BY <1>2, <2>2 DEF DoRecovery
<1>3. CASE RunModule
  BY <1>3 DEF RunModule
<1>4. CASE Next /\ ~DoRecovery /\ ~RunModule
           /\ ~\E withR \in BOOLEAN : CheckRecoveryFile(withR)
  BY <1>4 DEF Next, SkipSnapshot, BeginSnapshot, CloseIntermediateFile, NotNeeded, BeginCopy,
              EndCopy, RenameIntermediate, SnapshotFails, DeleteRecoveryFile, Finish, Crash
<1>5. CASE UNCHANGED vars
  BY <1>5 DEF vars
<1>6. QED
  BY <1>1, <1>2, <1>3, <1>4, <1>5

\* What a step may do to the recovery file: nothing; replace it by the point that was
\* just saved; remove it at the end of its own program.
LEMMA RecoveryFileSteps ==
  ASSUME IInv, [Next]_vars
  PROVE  \/ recovery' = recovery
         \/ /\ RenameIntermediate /\ recovery' = Now /\ Now \in Saved
            /\ Now.run = run /\ Now.module = module
         \/ pc = "finish" /\ DeleteRecoveryFile /\ recovery' = Absent
<1>1. CASE RenameIntermediate
  BY <1>1, NowIsSaved DEF RenameIntermediate, IInv, Numbers, SnapshotSoFar, Working, Snapshotting
<1>2. CASE DeleteRecoveryFile
  BY <1>2 DEF DeleteRecoveryFile, RemoveRecoveryFileFirst
<1>3. CASE ~RenameIntermediate /\ ~DeleteRecoveryFile
  BY <1>3 DEF Next, vars, diskvars, CheckRecoveryFile, DoRecovery, RunModule, SkipSnapshot,
              BeginSnapshot, OpenIntermediateFile, CloseIntermediateFile, NotNeeded,
              BeginCopy, EndCopy, SnapshotFails, Finish, Crash
<1>4. QED
  BY <1>1, <1>2, <1>3

LEMMA OwnRecoveryFileKept ==
  ASSUME IInv, [Next]_vars
  PROVE  OwnRecoveryFile'
<1> USE CheckpointBounds, SavedIsNeither
<1> USE DEF IInv, Types, OwnRecoveryFile, Working, Snapshotting, diskvars, boundvars
<1>1. ASSUME NEW withR \in BOOLEAN, CheckRecoveryFile(withR) PROVE OwnRecoveryFile'
  BY <1>1 DEF CheckRecoveryFile, Refuses
<1>2. CASE DoRecovery
  <2>1. recovery \in Saved
    BY <1>2 DEF DoRecovery, Numbers
  <2>2. recovery.module \in 1..Modules
    BY <2>1 DEF Saved
  <2>3. QED
    BY <1>2, <2>2 DEF DoRecovery, RecoveredMark
<1>3. CASE RunModule
  <2>1. recovery = Absent \/ recovery.module \in 1..Modules
    BY DEF Saved
  <2>2. QED
    BY <1>3, <2>1 DEF RunModule
<1>4. CASE RenameIntermediate
  <2>1. recovery' = Now /\ Now \in Saved /\ Now.run = run /\ Now.module = module
    BY <1>4, NowIsSaved DEF RenameIntermediate, Numbers, SnapshotSoFar
  <2>2. QED
    BY <1>4, <2>1 DEF RenameIntermediate
<1>5. CASE DeleteRecoveryFile
  BY <1>5 DEF DeleteRecoveryFile, RemoveRecoveryFileFirst
<1>6. CASE \/ SkipSnapshot \/ BeginSnapshot \/ CloseIntermediateFile \/ NotNeeded
           \/ BeginCopy \/ EndCopy \/ SnapshotFails \/ Finish \/ Crash
  BY <1>6 DEF SkipSnapshot, BeginSnapshot, OpenIntermediateFile, CloseIntermediateFile,
              NotNeeded, BeginCopy, EndCopy, SnapshotFails, Finish, Crash
<1>7. CASE UNCHANGED vars
  BY <1>7 DEF vars
<1>8. QED
  BY <1>1, <1>2, <1>3, <1>4, <1>5, <1>6, <1>7 DEF Next

LEMMA SnapshotKept ==
  ASSUME IInv, [Next]_vars
  PROVE  SnapshotSoFar'
<1> USE CheckpointBounds, CopyOrderIs
<1> USE DEF IInv, Types, SnapshotSoFar, Working, Snapshotting, diskvars, boundvars
<1>1. ASSUME NEW withR \in BOOLEAN, CheckRecoveryFile(withR) PROVE SnapshotSoFar'
  BY <1>1 DEF CheckRecoveryFile
<1>2. CASE DoRecovery
  BY <1>2 DEF DoRecovery
<1>3. CASE RunModule
  <2>1. module' \in 1..Modules
    BY <1>3 DEF RunModule
  <2>2. ondisk[module'] \subseteq Files /\ ondisk' = ondisk
    BY <1>3, <2>1 DEF RunModule
  <2>3. \A f \in ondisk[module'] : scratch'[f] = Now'
    BY <1>3, <2>2 DEF RunModule, Now
  <2>4. pc' \in {"finish", "checkpoint"}
    BY <1>3 DEF RunModule
  <2>5. QED
    BY <2>2, <2>3, <2>4
<1>4. CASE SkipSnapshot
  BY <1>4 DEF SkipSnapshot
<1>5. CASE BeginSnapshot
  BY <1>5 DEF BeginSnapshot, Now
<1>6. CASE CloseIntermediateFile
  BY <1>6 DEF CloseIntermediateFile, Now
<1>7. CASE NotNeeded
  BY <1>7 DEF NotNeeded, NextFile, Now
<1>8. CASE BeginCopy
  <2>1. next \in 1..3 /\ CopyOrder[next] \in Files
    BY <1>8 DEF BeginCopy, Files
  <2>2. \A i \in 1..next-1 : CopyOrder[i] # CopyOrder[next] /\ CopyOrder[i] \in Files
    BY <2>1 DEF Files
  <2>3. QED
    BY <1>8, <2>1, <2>2 DEF BeginCopy, Now
<1>9. CASE EndCopy
  <2>1. next \in 1..3 /\ CopyOrder[next] \in Files
    BY <1>9 DEF EndCopy, Files
  <2>2. \A i \in 1..next-1 : CopyOrder[i] # CopyOrder[next] /\ CopyOrder[i] \in Files
    BY <2>1 DEF Files
  <2>3. copies'[CopyOrder[next]] = Now /\ Now' = Now
    BY <1>9, <2>1 DEF EndCopy, Now
  <2>4. \A i \in 1..next-1 : copies'[CopyOrder[i]] = copies[CopyOrder[i]]
    BY <1>9, <2>1, <2>2 DEF EndCopy
  <2>5. QED
    BY <1>9, <2>1, <2>3, <2>4 DEF EndCopy, NextFile
<1>10. CASE RenameIntermediate
  BY <1>10 DEF RenameIntermediate
<1>11. CASE SnapshotFails \/ Finish \/ Crash \/ DeleteRecoveryFile
  BY <1>11 DEF SnapshotFails, Finish, Crash, DeleteRecoveryFile
<1>12. CASE UNCHANGED vars
  BY <1>12 DEF vars, Now
<1>13. QED
  BY <1>1, <1>2, <1>3, <1>4, <1>5, <1>6, <1>7, <1>8, <1>9, <1>10, <1>11, <1>12 DEF Next

LEMMA CleanEndKept ==
  ASSUME IInv, [Next]_vars
  PROVE  CleanEnd'
<1> USE DEF IInv, CleanEnd
<1>1. CASE Finish
  BY <1>1 DEF Finish, diskvars, OwnRecoveryFile, Working
<1>2. CASE ~Finish
  BY <1>2, RecoveryFileSteps DEF Next, vars, CheckRecoveryFile, DoRecovery, RunModule, SkipSnapshot,
     BeginSnapshot, CloseIntermediateFile, NotNeeded, BeginCopy, EndCopy, RenameIntermediate,
     SnapshotFails, DeleteRecoveryFile, Crash
<1>3. QED
  BY <1>1, <1>2

\* What writing, recovering and deleting of snapshots rely on holds throughout, whatever
\* crashes and whichever copies fail.
THEOREM CheckpointInvariant == Spec => []IInv
<1>1. IInv /\ [Next]_vars => IInv'
  BY TypesKept, NumbersKept, OwnRecoveryFileKept, SnapshotKept, CleanEndKept DEF IInv
<1>2. QED
  BY InitIInv, <1>1, PTL DEF Spec

-----------------------------------------------------------------------------
(* The theorems *)

\* Every variable keeps its type.
THEOREM TypeCorrect == Spec => []TypeOK
<1>1. IInv => TypeOK
  BY SavedArePoints DEF IInv, Types, TypeOK, Working
<1>2. QED
  BY <1>1, CheckpointInvariant, PTL

\* A program that ends without error leaves no recovery file behind
\* (DeleteRecoveryFile, checkpoint.c:336, and done_snapshot set by DoRecovery, 2452).
THEOREM EndsClean == Spec => []CleanEnd
<1>1. IInv => CleanEnd
  BY DEF IInv
<1>2. QED
  BY <1>1, CheckpointInvariant, PTL

\* The recovery file gives way to a later point of the same computation only, or to
\* the end of its program (checkpoint.c:295 and 3074).
THEOREM PointIsKept == Spec => SavedPointIsKept
<1> DEFINE Kept == recovery # Absent /\ recovery' # recovery =>
                     \/ recovery' = Absent /\ pc = "finish" /\ run = recovery.run
                     \/ recovery'.run = recovery.run /\ recovery'.module > recovery.module
<1>1. IInv /\ [Next]_vars => [Kept]_vars
  <2> SUFFICES ASSUME IInv, [Next]_vars, recovery # Absent, recovery' # recovery
               PROVE  Kept
    OBVIOUS
  <2>1. CASE RenameIntermediate
    BY <2>1, RecoveryFileSteps DEF RenameIntermediate, IInv, OwnRecoveryFile, Working, Snapshotting
  <2>2. CASE pc = "finish" /\ recovery' = Absent
    BY <2>2 DEF IInv, OwnRecoveryFile, Working
  <2>3. QED
    BY <2>1, <2>2, RecoveryFileSteps
<1>2. QED
  BY <1>1, CheckpointInvariant, PTL DEF Spec, SavedPointIsKept

\* When the rename has made a snapshot the recovery file, all copies are there.
LEMMA RenameIsRecoverable ==
  ASSUME IInv, RenameIntermediate
  PROVE  Recoverable'
<1>1. recovery' = Now /\ Now.module = module /\ module \in 1..Modules
  BY RecoveryFileSteps, NowIsSaved, CheckpointBounds
     DEF RenameIntermediate, IInv, Types, Numbers, SnapshotSoFar, Working, Snapshotting
<1>2. ASSUME NEW f \in ondisk[module] PROVE copies[f] = Now
  <2>1. f \in Files
    BY <1>1, <1>2 DEF IInv, Types
  <2>2. next = 4
    BY CopyOrderIs DEF RenameIntermediate, IInv, Types
  <2>3. \E i \in 1..next-1 : f = CopyOrder[i]
    BY <2>1, <2>2, CopyOrderIs DEF Files
  <2>4. QED
    BY <1>2, <2>3 DEF RenameIntermediate, IInv, SnapshotSoFar
<1>3. QED
  BY <1>1, <1>2 DEF Recoverable, RenameIntermediate

\* A new recovery file has all its copies.
THEOREM CompletedSnapshots == Spec => CompletedIsRecoverable
<1>1. IInv /\ [Next]_vars => [recovery' # recovery => Recoverable']_vars
  <2> SUFFICES ASSUME IInv, [Next]_vars, recovery' # recovery
               PROVE  Recoverable'
    OBVIOUS
  <2>1. CASE RenameIntermediate
    BY <2>1, RenameIsRecoverable
  <2>2. CASE recovery' = Absent
    BY <2>2 DEF Recoverable
  <2>3. QED
    BY <2>1, <2>2, RecoveryFileSteps
<1>2. QED
  BY <1>1, CheckpointInvariant, PTL DEF Spec, CompletedIsRecoverable

\* The only window in which a crash can make a saved point unusable is the copying of
\* a later snapshot (checkpoint.c:3059).
THEOREM BrokenOnlyThere == Spec => BrokenOnlyByCopying
<1>1. IInv /\ [Next]_vars => [Recoverable /\ ~Recoverable' => pc = "copy"]_vars
  <2> SUFFICES ASSUME IInv, [Next]_vars, Recoverable, pc # "copy"
               PROVE  Recoverable'
    OBVIOUS
  <2> USE DEF Recoverable, diskvars, boundvars
  <2>1. ondisk' = ondisk
    BY DEF Next, vars, CheckRecoveryFile, DoRecovery, RunModule, SkipSnapshot, BeginSnapshot,
       CloseIntermediateFile, NotNeeded, BeginCopy, EndCopy, RenameIntermediate, SnapshotFails,
       DeleteRecoveryFile, Finish, Crash
  <2>2. CASE EndCopy
    <3>1. next \in 1..3 /\ CopyOrder[next] \in Files
      BY <2>2, CopyOrderIs DEF EndCopy, IInv, Types, SnapshotSoFar, Files
    <3>2. copies[CopyOrder[next]] = Partial /\ recovery' = recovery
      BY <2>2 DEF EndCopy, IInv, SnapshotSoFar
    <3>3. \A f \in Files \ {CopyOrder[next]} : copies'[f] = copies[f]
      BY <2>2, <3>1 DEF EndCopy, IInv, Types
    <3>4. ASSUME recovery \notin {Absent, Partial}, NEW f \in ondisk[recovery.module]
          PROVE  copies'[f] = recovery
      <4>1. f # CopyOrder[next]
        BY <3>2, <3>4
      <4>2. recovery.module \in 1..Modules
        BY <3>4 DEF IInv, Types, Saved
      <4>3. f \in Files
        BY <3>4, <4>2 DEF IInv, Types
      <4>4. QED
        BY <3>3, <3>4, <4>1, <4>3
    <3>5. QED
      BY <2>1, <3>2, <3>4
  <2>3. CASE DeleteRecoveryFile
    BY <2>3 DEF DeleteRecoveryFile, RemoveRecoveryFileFirst
  <2>4. CASE ~EndCopy /\ ~DeleteRecoveryFile
    <3>1. recovery' = recovery /\ copies' = copies
      BY <2>4 DEF Next, vars, CheckRecoveryFile, DoRecovery, RunModule, SkipSnapshot,
         BeginSnapshot, OpenIntermediateFile, CloseIntermediateFile, NotNeeded, BeginCopy,
         RenameIntermediate, SnapshotFails, Finish, Crash
    <3>2. QED
      BY <2>1, <3>1
  <2>5. QED
    BY <2>2, <2>3, <2>4
<1>2. QED
  BY <1>1, CheckpointInvariant, PTL DEF Spec, BrokenOnlyByCopying

(***************************************************************************)
(* Sorting.                                                                *)
(***************************************************************************)

\* A sequence of whatever, and the records of Sort: their fields have no types here, for the
\* algorithms Sorting and Merging are not known.
IsSeq(s) == s \in Seq({s[i] : i \in DOMAIN s})
IsLevel(s) ==
  /\ s \in [sBuffer : {s.sBuffer}, Patches : {s.Patches}, fPatches : {s.fPatches},
            stage4 : BOOLEAN, TermsLeft : {s.TermsLeft}]
  /\ IsSeq(s.Patches) /\ IsSeq(s.fPatches)
IsFile(f) ==
  /\ f \in [open : BOOLEAN, data : {f.data}]
  /\ IsSeq(f.data) /\ (~f.open => f.data = <<>>)

\* The patches of a level fit, in the setup st.
FitsIn(st, s) ==
  /\ IsLevel(s)
  /\ Len(s.Patches) <= st.MaxPatches
  /\ Len(s.fPatches) >= 1 /\ Len(s.fPatches) <= st.MaxFpatches + 1
Fits(s) == FitsIn(setting, s)

\* An entry of a file is a list of patches.  A group is found by the list at position p, or
\* there is none (p = 0).
IsList(e) == "patches" \in DOMAIN e
ListAt(f, p) == p + 1 \in 1..Len(f.data) /\ IsList(f.data[p + 1])
GroupAt(f, p) == p \in Nat /\ (p = 0 \/ ListAt(f, p))

\* Every list is that of a full group and leads to the group before.
FileIn(st, f) ==
  /\ IsFile(f)
  /\ \A i \in 1..Len(f.data) : IsList(f.data[i]) =>
       /\ IsSeq(f.data[i].patches) /\ GroupAt(f, f.data[i].before)
       /\ Len(f.data[i].patches) >= 2
       /\ Len(f.data[i].patches) <= st.MaxFpatches + 1
FileOK(f) == FileIn(setting, f)

SortTypes ==
  /\ setting \in Settings /\ SettingOK(setting)
  /\ sLevel \in {-1, 0, 1}
  /\ DOMAIN S = Levels /\ S = [level \in Levels |-> S[level]]
  /\ files = [f \in {"sort", "sub", "stage"} |-> files[f]]
  /\ OldPosOut \in Nat /\ OldPosIn \in Nat
  /\ merge \in [at : {"no", "newmerge", "group", "terminated"}, fin : {"sort", "sub", "stage"},
                iPatches : {merge.iPatches}]
  /\ result = [level \in Levels |-> result[level]]

LevelsFit == \A level \in Levels : Fits(S[level])
FilesOK == \A f \in {"sort", "sub", "stage"} : FileOK(files[f])

\* A nested sort has one group.
NestedIsSimple ==
  /\ ~S[1].stage4
  /\ files["sub"].open => OldPosOut = 0
  /\ sLevel < 1 => ~files["sub"].open

\* While terms are stored, and in a nested sort.
NotMergingLevel0 ==
  merge.at \in {"no", "terminated"} \/ sLevel = 1 =>
    /\ files["stage"].data = <<>>
    /\ sLevel = -1 => ~files["sort"].open
    /\ files["sort"].open => GroupAt(files["sort"], OldPosOut)
    /\ merge.at \in {"no", "terminated", "newmerge"}
    /\ merge.at = "newmerge" => merge.fin = "sub"

\* One of the two files is merged, or about to be.
BeforePass ==
  merge.at = "newmerge" /\ sLevel # 1 =>
    /\ sLevel = 0 /\ merge.fin \in {"sort", "stage"}
    /\ GroupAt(files[merge.fin], OldPosOut)
    /\ merge.fin = "sort" => files["stage"].data = <<>>
    /\ merge.fin = "stage" => ~files["sort"].open /\ Len(S[0].fPatches) >= 2

InCycle ==
  merge.at = "group" /\ sLevel # 1 =>
    /\ sLevel = 0 /\ merge.fin \in {"sort", "stage"}
    /\ GroupAt(files[merge.fin], OldPosIn)
    /\ files[OtherFile(merge.fin)].open
    /\ GroupAt(files[OtherFile(merge.fin)], OldPosOut)
    /\ Len(merge.iPatches) >= 1
    /\ Len(merge.iPatches) = 1 => merge.fin = "sort" /\ files["stage"].data = <<>>

ListsFit == IsSeq(merge.iPatches) /\ Len(merge.iPatches) <= setting.MaxFpatches + 1

SortInv == SortTypes /\ LevelsFit /\ FilesOK /\ NestedIsSimple /\ NotMergingLevel0
           /\ BeforePass /\ InCycle /\ ListsFit

-----------------------------------------------------------------------------
(* Sequences and files *)

LEMMA MaximaAreNumbers ==
  ASSUME SortTypes
  PROVE  /\ setting.MaxPatches \in Nat /\ setting.MaxPatches >= 1
         /\ setting.MaxFpatches \in Nat /\ setting.MaxFpatches >= 2
BY DEF SortTypes, SettingOK

LEMMA SequenceOf ==
  ASSUME NEW T, NEW s \in Seq(T)
  PROVE  IsSeq(s) /\ Len(s) \in Nat /\ DOMAIN s = 1..Len(s)
<1>1. Len(s) \in Nat /\ DOMAIN s = 1..Len(s)
  BY LenProperties
<1>2. s \in [1..Len(s) -> T]
  BY LenProperties
<1>3. s \in [1..Len(s) -> {s[i] : i \in DOMAIN s}]
  BY <1>1, <1>2
<1>4. QED
  BY <1>1, <1>3, SeqDef DEF IsSeq

LEMMA OneMore ==
  ASSUME NEW s, IsSeq(s), NEW e
  PROVE  /\ IsSeq(Append(s, e)) /\ Len(s) \in Nat /\ Len(Append(s, e)) = Len(s) + 1
         /\ \A i \in 1..Len(s) : Append(s, e)[i] = s[i]
         /\ Append(s, e)[Len(s) + 1] = e
<1> DEFINE T == {s[i] : i \in DOMAIN s} \cup {e}
<1>1. s \in Seq({s[i] : i \in DOMAIN s})
  BY DEF IsSeq
<1>2. s \in [1..Len(s) -> {s[i] : i \in DOMAIN s}] /\ Len(s) \in Nat
  BY <1>1, LenProperties
<1>3. s \in [1..Len(s) -> T]
  BY <1>2
<1>4. s \in Seq(T) /\ e \in T
  BY <1>2, <1>3, SeqDef
<1> HIDE DEF T
<1>5. /\ Append(s, e) \in Seq(T) /\ Len(Append(s, e)) = Len(s) + 1
      /\ \A i \in 1..Len(s) : Append(s, e)[i] = s[i]
      /\ Append(s, e)[Len(s) + 1] = e
  BY <1>4, AppendProperties
<1>6. QED
  BY <1>2, <1>5, SequenceOf

LEMMA ShortSeqs ==
  /\ IsSeq(<<>>) /\ Len(<<>>) = 0
  /\ \A x : IsSeq(<<x>>) /\ Len(<<x>>) = 1
<1>1. <<>> \in Seq({}) /\ Len(<<>>) = 0
  BY EmptySeq
<1>2. ASSUME NEW x PROVE <<x>> \in Seq({x}) /\ Len(<<x>>) = 1
  OBVIOUS
<1>3. QED
  BY <1>1, <1>2, SequenceOf

\* What is put at the end of an open file.
EntryFits(f, e) ==
  IsList(e) => /\ IsSeq(e.patches) /\ GroupAt(f, e.before)
               /\ Len(e.patches) >= 2 /\ Len(e.patches) <= setting.MaxFpatches + 1

LEMMA PutFits ==
  ASSUME NEW f, FileOK(f), f.open, NEW e, EntryFits(f, e)
  PROVE  /\ FileOK(Put(f, e)) /\ Put(f, e).open /\ End(f) \in Nat
         /\ Len(Put(f, e).data) = End(f) + 1 /\ Put(f, e).data[End(f) + 1] = e
         /\ \A p : GroupAt(f, p) => GroupAt(Put(f, e), p)
<1> DEFINE g == Put(f, e)
           n == Len(f.data)
<1>1. /\ f \in [open : BOOLEAN, data : {f.data}] /\ IsSeq(f.data)
  BY DEF FileOK, FileIn, IsFile
<1>2. /\ g.open = f.open /\ g.data = Append(f.data, e)
      /\ g \in [open : BOOLEAN, data : {g.data}]
  BY <1>1 DEF Put
<1> HIDE DEF g
<1>3. /\ IsSeq(g.data) /\ n \in Nat /\ Len(g.data) = n + 1
      /\ \A i \in 1..n : g.data[i] = f.data[i]
      /\ g.data[n + 1] = e
  BY <1>1, <1>2, OneMore
<1> HIDE DEF n
<1>4. ASSUME NEW p, GroupAt(f, p) PROVE GroupAt(g, p)
  BY <1>3, <1>4 DEF GroupAt, ListAt, n
<1>5. ASSUME NEW i \in 1..Len(g.data), IsList(g.data[i])
      PROVE  /\ IsSeq(g.data[i].patches) /\ GroupAt(g, g.data[i].before)
             /\ Len(g.data[i].patches) >= 2
             /\ Len(g.data[i].patches) <= setting.MaxFpatches + 1
  <2>1. CASE i = n + 1
    BY <1>3, <1>4, <1>5, <2>1 DEF EntryFits
  <2>2. CASE i # n + 1
    <3>1. i \in 1..Len(f.data) /\ g.data[i] = f.data[i]
      BY <1>3, <2>2 DEF n
    <3>2. /\ IsSeq(f.data[i].patches) /\ GroupAt(f, f.data[i].before)
          /\ Len(f.data[i].patches) >= 2
          /\ Len(f.data[i].patches) <= setting.MaxFpatches + 1
      BY <1>5, <3>1 DEF FileOK, FileIn
    <3>3. QED
      BY <1>4, <3>1, <3>2
  <2>3. QED
    BY <2>1, <2>2
<1>6. FileOK(g)
  BY <1>2, <1>3, <1>5 DEF FileOK, FileIn, IsFile
<1>7. QED
  BY <1>2, <1>3, <1>4, <1>6 DEF g, n, End

LEMMA NewFilesFit ==
  /\ FileOK(NoFile) /\ ~NoFile.open /\ NoFile.data = <<>>
  /\ FileOK(NewFile) /\ NewFile.open /\ NewFile.data = <<>>
<1>1. /\ NoFile.data = <<>> /\ ~NoFile.open /\ NoFile \in [open : BOOLEAN, data : {NoFile.data}]
      /\ NewFile.data = <<>> /\ NewFile.open
      /\ NewFile \in [open : BOOLEAN, data : {NewFile.data}]
  BY DEF NoFile, NewFile
<1>2. 1..Len(<<>>) = {}
  BY ShortSeqs
<1>3. QED
  BY <1>1, <1>2, ShortSeqs DEF FileOK, FileIn, IsFile

-----------------------------------------------------------------------------
(* What a call does to a level and its file *)

\* What a call works on: the patches fit and the last list in the file can be found.
ContextOK(c) ==
  /\ c \in [S : {c.S}, fout : {c.fout}, OldPosOut : Nat]
  /\ Fits(c.S) /\ FileOK(c.fout)
  /\ c.fout.open => GroupAt(c.fout, c.OldPosOut)

\* One more patch of the sort file, or of the large buffer, fits.
FileSpace(c) == Len(c.S.fPatches) <= setting.MaxFpatches
BufferSpace(c) == Len(c.S.Patches) < setting.MaxPatches

\* The context of a nested sort, which has one group.
Simple(c) == ~c.S.stage4 /\ (c.fout.open => c.OldPosOut = 0)

LEMMA LevelChanges ==
  ASSUME SortTypes, NEW s, Fits(s)
  PROVE  /\ \A b, n : Fits([s EXCEPT !.sBuffer = b, !.TermsLeft = n])
         /\ \A b : Fits([s EXCEPT !.sBuffer = b])
         /\ \A n : Fits([s EXCEPT !.TermsLeft = n])
         /\ Fits([s EXCEPT !.Patches = <<>>])
         /\ \A g \in BOOLEAN : Fits([s EXCEPT !.stage4 = g])
         /\ Fits([s EXCEPT !.fPatches = <<0>>])
         /\ \A n : Fits([s EXCEPT !.fPatches = <<n>>, !.stage4 = TRUE])
<1> DEFINE Shape(t) == t \in [sBuffer : {t.sBuffer}, Patches : {t.Patches},
                            fPatches : {t.fPatches}, stage4 : BOOLEAN,
                            TermsLeft : {t.TermsLeft}]
<1>1. /\ Shape(s) /\ IsSeq(s.Patches) /\ IsSeq(s.fPatches)
      /\ Len(s.Patches) <= setting.MaxPatches
      /\ Len(s.fPatches) >= 1 /\ Len(s.fPatches) <= setting.MaxFpatches + 1
  BY DEF Fits, FitsIn, IsLevel
<1>2. /\ IsSeq(<<>>) /\ Len(<<>>) <= setting.MaxPatches
      /\ \A n : IsSeq(<<n>>) /\ Len(<<n>>) >= 1 /\ Len(<<n>>) <= setting.MaxFpatches + 1
  BY MaximaAreNumbers, ShortSeqs
<1>3. ASSUME NEW t, Shape(t), t.Patches \in {s.Patches, <<>>},
             t.fPatches = s.fPatches \/ \E n : t.fPatches = <<n>>
      PROVE  Fits(t)
  <2>1. IsSeq(t.Patches) /\ Len(t.Patches) <= setting.MaxPatches
    BY <1>1, <1>2, <1>3
  <2>2. IsSeq(t.fPatches) /\ Len(t.fPatches) >= 1 /\ Len(t.fPatches) <= setting.MaxFpatches + 1
    BY <1>1, <1>2, <1>3
  <2>3. QED
    BY <1>3, <2>1, <2>2 DEF Fits, FitsIn, IsLevel
<1>4. \A b, n : LET t == [s EXCEPT !.sBuffer = b, !.TermsLeft = n]
                IN Shape(t) /\ t.Patches = s.Patches /\ t.fPatches = s.fPatches
  BY <1>1
<1>5. \A b : LET t == [s EXCEPT !.sBuffer = b]
             IN Shape(t) /\ t.Patches = s.Patches /\ t.fPatches = s.fPatches
  BY <1>1
<1>6. \A n : LET t == [s EXCEPT !.TermsLeft = n]
             IN Shape(t) /\ t.Patches = s.Patches /\ t.fPatches = s.fPatches
  BY <1>1
<1>7. LET t == [s EXCEPT !.Patches = <<>>]
      IN Shape(t) /\ t.Patches = <<>> /\ t.fPatches = s.fPatches
  BY <1>1
<1>8. \A g \in BOOLEAN : LET t == [s EXCEPT !.stage4 = g]
                          IN Shape(t) /\ t.Patches = s.Patches /\ t.fPatches = s.fPatches
  BY <1>1
<1>9. LET t == [s EXCEPT !.fPatches = <<0>>]
      IN Shape(t) /\ t.Patches = s.Patches /\ t.fPatches = <<0>>
  BY <1>1
<1>10. \A n : LET t == [s EXCEPT !.fPatches = <<n>>, !.stage4 = TRUE]
              IN Shape(t) /\ t.Patches = s.Patches /\ t.fPatches = <<n>>
  BY <1>1
<1> HIDE DEF Shape
<1>11. \A b, n : Fits([s EXCEPT !.sBuffer = b, !.TermsLeft = n])
  BY <1>3, <1>4
<1>12. \A b : Fits([s EXCEPT !.sBuffer = b])
  BY <1>3, <1>5
<1>13. \A n : Fits([s EXCEPT !.TermsLeft = n])
  BY <1>3, <1>6
<1>14. Fits([s EXCEPT !.Patches = <<>>])
  BY <1>3, <1>7
<1>15. \A g \in BOOLEAN : Fits([s EXCEPT !.stage4 = g])
  BY <1>3, <1>8
<1>16. Fits([s EXCEPT !.fPatches = <<0>>])
  BY <1>3, <1>9
<1>17. \A n : Fits([s EXCEPT !.fPatches = <<n>>, !.stage4 = TRUE])
  BY <1>3, <1>10
<1>18. QED
  BY <1>11, <1>12, <1>13, <1>14, <1>15, <1>16, <1>17

LEMMA MorePatches ==
  ASSUME SortTypes, NEW s, Fits(s), NEW x
  PROVE  /\ Len(s.Patches) < setting.MaxPatches =>
              Fits([s EXCEPT !.Patches = Append(s.Patches, x)])
         /\ Len(s.fPatches) <= setting.MaxFpatches =>
              /\ Fits([s EXCEPT !.fPatches = Append(s.fPatches, x)])
              /\ Len(Append(s.fPatches, x)) >= 2
<1>1. s \in [sBuffer : {s.sBuffer}, Patches : {s.Patches}, fPatches : {s.fPatches},
            stage4 : BOOLEAN, TermsLeft : {s.TermsLeft}]
      /\ IsSeq(s.Patches) /\ IsSeq(s.fPatches)
      /\ Len(s.Patches) <= setting.MaxPatches
      /\ Len(s.fPatches) >= 1 /\ Len(s.fPatches) <= setting.MaxFpatches + 1
  BY DEF Fits, FitsIn, IsLevel
<1>2. /\ IsSeq(Append(s.Patches, x)) /\ Len(Append(s.Patches, x)) = Len(s.Patches) + 1
      /\ IsSeq(Append(s.fPatches, x)) /\ Len(Append(s.fPatches, x)) = Len(s.fPatches) + 1
      /\ Len(s.Patches) \in Nat /\ Len(s.fPatches) \in Nat
  BY <1>1, OneMore
<1> DEFINE p == Append(s.Patches, x)
           q == Append(s.fPatches, x)
           sp == [s EXCEPT !.Patches = p]
           sq == [s EXCEPT !.fPatches = q]
<1> HIDE DEF p, q
<1>3. /\ sp.Patches = p /\ sp.fPatches = s.fPatches
      /\ sp \in [sBuffer : {sp.sBuffer}, Patches : {sp.Patches}, fPatches : {sp.fPatches},
            stage4 : BOOLEAN, TermsLeft : {sp.TermsLeft}]
      /\ sq.Patches = s.Patches /\ sq.fPatches = q
      /\ sq \in [sBuffer : {sq.sBuffer}, Patches : {sq.Patches}, fPatches : {sq.fPatches},
            stage4 : BOOLEAN, TermsLeft : {sq.TermsLeft}]
  BY <1>1
<1> HIDE DEF sp, sq
<1>4. /\ Len(s.Patches) < setting.MaxPatches => Len(p) <= setting.MaxPatches
      /\ Len(s.fPatches) <= setting.MaxFpatches =>
           Len(q) >= 1 /\ Len(q) <= setting.MaxFpatches + 1 /\ Len(q) >= 2
  BY <1>1, <1>2, MaximaAreNumbers DEF p, q
<1>5. Len(s.Patches) < setting.MaxPatches => Fits(sp)
  BY <1>1, <1>2, <1>3, <1>4 DEF Fits, FitsIn, IsLevel, p
<1>6. Len(s.fPatches) <= setting.MaxFpatches => Fits(sq) /\ Len(q) >= 2
  BY <1>1, <1>2, <1>3, <1>4 DEF Fits, FitsIn, IsLevel, q
<1>7. QED
  BY <1>5, <1>6 DEF sp, sq, p, q

\* The level or the file of a context changes.
LEMMA NewLevel ==
  ASSUME NEW c, ContextOK(c), NEW s, Fits(s)
  PROVE  LET d == [c EXCEPT !.S = s]
         IN ContextOK(d) /\ d.S = s /\ d.fout = c.fout /\ d.OldPosOut = c.OldPosOut
<1> DEFINE d == [c EXCEPT !.S = s]
<1>1. c \in [S : {c.S}, fout : {c.fout}, OldPosOut : Nat] /\ FileOK(c.fout)
      /\ (c.fout.open => GroupAt(c.fout, c.OldPosOut))
  BY DEF ContextOK
<1>2. /\ d \in [S : {d.S}, fout : {d.fout}, OldPosOut : Nat]
      /\ d.S = s /\ d.fout = c.fout /\ d.OldPosOut = c.OldPosOut
  BY <1>1
<1> HIDE DEF d
<1>3. ContextOK(d)
  BY <1>1, <1>2 DEF ContextOK
<1>4. QED
  BY <1>2, <1>3 DEF d

LEMMA BufferKept ==
  ASSUME SortTypes, NEW c, ContextOK(c)
  PROVE  LET d == SmallBufferSorted(c)
         IN /\ ContextOK(d) /\ d.fout = c.fout /\ d.OldPosOut = c.OldPosOut
            /\ d.S.Patches = c.S.Patches /\ d.S.fPatches = c.S.fPatches
            /\ d.S.stage4 = c.S.stage4 /\ d.S.sBuffer = Sorting(c.S.sBuffer)
<1> DEFINE ss == Sorting(c.S.sBuffer)
           n == c.S.TermsLeft - (Len(c.S.sBuffer) - Len(ss))
           s == [c.S EXCEPT !.sBuffer = ss, !.TermsLeft = n]
           d == SmallBufferSorted(c)
<1>1. Fits(c.S)
  BY DEF ContextOK
<1>2. /\ c \in [S : {c.S}, fout : {c.fout}, OldPosOut : Nat]
      /\ c.S \in [sBuffer : {c.S.sBuffer}, Patches : {c.S.Patches},
           fPatches : {c.S.fPatches}, stage4 : BOOLEAN, TermsLeft : {c.S.TermsLeft}]
  BY DEF ContextOK, Fits, FitsIn, IsLevel
<1>3. d = [c EXCEPT !.S = s]
  BY <1>2 DEF SmallBufferSorted
<1>4. /\ s.Patches = c.S.Patches /\ s.fPatches = c.S.fPatches
      /\ s.stage4 = c.S.stage4 /\ s.sBuffer = ss
  BY <1>2
<1>5. Fits(s)
  BY <1>1, LevelChanges
<1> HIDE DEF d, s
<1>6. /\ ContextOK(d) /\ d.S = s /\ d.fout = c.fout /\ d.OldPosOut = c.OldPosOut
  BY <1>3, <1>5, NewLevel
<1>7. QED
  BY <1>4, <1>6 DEF d

LEMMA AddFits ==
  ASSUME SortTypes, NEW c, ContextOK(c), BufferSpace(c)
  PROVE  LET d == AddToLargeBuffer(c)
         IN /\ ContextOK(d) /\ d.fout = c.fout /\ d.OldPosOut = c.OldPosOut
            /\ d.S.fPatches = c.S.fPatches /\ d.S.stage4 = c.S.stage4
<1> DEFINE p == Append(c.S.Patches, c.S.sBuffer)
           s1 == [c.S EXCEPT !.Patches = p]
           s == [s1 EXCEPT !.sBuffer = <<>>]
           d == AddToLargeBuffer(c)
<1>1. Fits(c.S)
  BY DEF ContextOK
<1>2. /\ c \in [S : {c.S}, fout : {c.fout}, OldPosOut : Nat]
      /\ c.S \in [sBuffer : {c.S.sBuffer}, Patches : {c.S.Patches},
           fPatches : {c.S.fPatches}, stage4 : BOOLEAN, TermsLeft : {c.S.TermsLeft}]
  BY DEF ContextOK, Fits, FitsIn, IsLevel
<1>3. d = [c EXCEPT !.S = s]
  BY <1>2 DEF AddToLargeBuffer
<1>4. s.fPatches = c.S.fPatches /\ s.stage4 = c.S.stage4
  BY <1>2
<1>5. Fits(s1)
  BY <1>1, MorePatches DEF BufferSpace
<1> HIDE DEF s1
<1>6. Fits(s)
  BY <1>5, LevelChanges
<1> HIDE DEF d, s
<1>7. /\ ContextOK(d) /\ d.S = s /\ d.fout = c.fout /\ d.OldPosOut = c.OldPosOut
  BY <1>3, <1>6, NewLevel
<1>8. QED
  BY <1>4, <1>7 DEF d

LEMMA EmptyFits ==
  ASSUME SortTypes, NEW c, ContextOK(c)
  PROVE  LET d == EmptyLargeBuffer(c)
         IN /\ ContextOK(d) /\ d.fout = c.fout /\ d.OldPosOut = c.OldPosOut
            /\ d.S.fPatches = c.S.fPatches /\ d.S.stage4 = c.S.stage4 /\ BufferSpace(d)
<1> DEFINE s == [c.S EXCEPT !.Patches = <<>>]
           d == EmptyLargeBuffer(c)
<1>1. Fits(c.S)
  BY DEF ContextOK
<1>2. /\ c \in [S : {c.S}, fout : {c.fout}, OldPosOut : Nat]
      /\ c.S \in [sBuffer : {c.S.sBuffer}, Patches : {c.S.Patches},
           fPatches : {c.S.fPatches}, stage4 : BOOLEAN, TermsLeft : {c.S.TermsLeft}]
  BY DEF ContextOK, Fits, FitsIn, IsLevel
<1>3. d = [c EXCEPT !.S = s]
  BY <1>2 DEF EmptyLargeBuffer
<1>4. s.fPatches = c.S.fPatches /\ s.stage4 = c.S.stage4 /\ s.Patches = <<>>
  BY <1>2
<1>5. Fits(s)
  BY <1>1, LevelChanges
<1> HIDE DEF d, s
<1>6. /\ ContextOK(d) /\ d.S = s /\ d.fout = c.fout /\ d.OldPosOut = c.OldPosOut
  BY <1>3, <1>5, NewLevel
<1>7. BufferSpace(d)
  BY <1>4, <1>6, MaximaAreNumbers, ShortSeqs DEF BufferSpace
<1>8. QED
  BY <1>4, <1>6, <1>7 DEF d

\* The file is made, and has no group.
LEMMA MadeFits ==
  ASSUME SortTypes, NEW c, ContextOK(c)
  PROVE  LET d == FileMake(c)
         IN /\ ContextOK(d) /\ d.fout = NewFile /\ d.fout.open /\ d.OldPosOut = 0
            /\ d.S = [c.S EXCEPT !.fPatches = <<0>>]
            /\ d.S.Patches = c.S.Patches /\ d.S.stage4 = c.S.stage4 /\ FileSpace(d)
<1> DEFINE s == [c.S EXCEPT !.fPatches = <<0>>]
           d == FileMake(c)
<1>1. Fits(c.S)
  BY DEF ContextOK
<1>2. /\ c \in [S : {c.S}, fout : {c.fout}, OldPosOut : Nat]
      /\ c.S \in [sBuffer : {c.S.sBuffer}, Patches : {c.S.Patches},
           fPatches : {c.S.fPatches}, stage4 : BOOLEAN, TermsLeft : {c.S.TermsLeft}]
  BY DEF ContextOK, Fits, FitsIn, IsLevel
<1>3. /\ d \in [S : {d.S}, fout : {d.fout}, OldPosOut : Nat]
      /\ d.S = s /\ d.fout = NewFile /\ d.OldPosOut = 0
  BY <1>2 DEF FileMake
<1>4. s.Patches = c.S.Patches /\ s.stage4 = c.S.stage4 /\ s.fPatches = <<0>>
  BY <1>2
<1>5. Fits(s)
  BY <1>1, LevelChanges
<1> HIDE DEF d
<1>6. GroupAt(d.fout, d.OldPosOut)
  BY <1>3 DEF GroupAt
<1>7. ContextOK(d) /\ d.fout.open
  BY <1>3, <1>5, <1>6, NewFilesFit DEF ContextOK
<1>8. FileSpace(d)
  BY <1>3, <1>4, MaximaAreNumbers, ShortSeqs DEF FileSpace
<1>9. QED
  BY <1>3, <1>4, <1>7, <1>8 DEF d

\* A stage makes room for a patch, and the new list leads to the group before.
LEMMA StageFits ==
  ASSUME SortTypes, NEW c, ContextOK(c), c.fout.open
  PROVE  LET d == StageSort(c)
         IN /\ ContextOK(d) /\ d.fout.open /\ FileSpace(d)
            /\ d.S.Patches = c.S.Patches
            /\ ~GroupIsFull(c.S) => d = c
<1>0. /\ c \in [S : {c.S}, fout : {c.fout}, OldPosOut : Nat]
      /\ c.S \in [sBuffer : {c.S.sBuffer}, Patches : {c.S.Patches},
           fPatches : {c.S.fPatches}, stage4 : BOOLEAN, TermsLeft : {c.S.TermsLeft}]
      /\ Fits(c.S) /\ FileOK(c.fout) /\ GroupAt(c.fout, c.OldPosOut)
      /\ IsSeq(c.S.fPatches) /\ Len(c.S.fPatches) <= setting.MaxFpatches + 1
  BY DEF ContextOK, Fits, FitsIn, IsLevel
<1>1. Len(c.S.fPatches) \in Nat
  BY <1>0, OneMore
<1>2. CASE ~GroupIsFull(c.S)
  <2>1. StageSort(c) = c
    BY <1>2 DEF StageSort
  <2>2. FileSpace(c)
    BY <1>1, <1>2, MaximaAreNumbers DEF FileSpace, GroupIsFull, fPatchN
  <2>3. QED
    BY <2>1, <2>2
<1>3. CASE GroupIsFull(c.S)
  <2> DEFINE e == [patches |-> c.S.fPatches, before |-> c.OldPosOut]
             n == End(c.fout)
             g == Put(c.fout, e)
             s == [c.S EXCEPT !.fPatches = <<n + 1>>, !.stage4 = TRUE]
             d == StageSort(c)
  <2>1. e.patches = c.S.fPatches /\ e.before = c.OldPosOut
    OBVIOUS
  <2>2. Len(c.S.fPatches) >= 2
    BY <1>1, <1>3, MaximaAreNumbers DEF GroupIsFull, fPatchN
  <2>3. EntryFits(c.fout, e)
    BY <1>0, <2>1, <2>2 DEF EntryFits
  <2>4. IsList(e)
    BY DEF IsList
  <2>5. /\ d \in [S : {d.S}, fout : {d.fout}, OldPosOut : {n}]
        /\ d.S = s /\ d.fout = g /\ d.OldPosOut = n
    BY <1>0, <1>3 DEF StageSort
  <2>6. s.fPatches = <<n + 1>> /\ s.Patches = c.S.Patches
    BY <1>0
  <2>7. Fits(s)
    BY <1>0, LevelChanges
  <2> HIDE DEF e, n, g, s, d
  <2>8. /\ FileOK(g) /\ g.open /\ n \in Nat
        /\ Len(g.data) = n + 1 /\ g.data[n + 1] = e
    BY <1>0, <2>3, PutFits DEF n, g
  <2>9. GroupAt(g, n)
    BY <2>4, <2>8 DEF GroupAt, ListAt
  <2>10. d \in [S : {d.S}, fout : {d.fout}, OldPosOut : Nat]
    BY <2>5, <2>8
  <2>11. ContextOK(d) /\ d.fout.open
    BY <2>5, <2>7, <2>8, <2>9, <2>10 DEF ContextOK
  <2>12. FileSpace(d)
    BY <2>5, <2>6, MaximaAreNumbers, ShortSeqs DEF FileSpace
  <2>13. QED
    BY <1>3, <2>5, <2>6, <2>11, <2>12 DEF d
<1>4. QED
  BY <1>2, <1>3

\* A patch is added to an open file.
LEMMA PatchFits ==
  ASSUME SortTypes, NEW c, ContextOK(c), c.fout.open, FileSpace(c), NEW terms
  PROVE  LET d == AddPatch(c, terms)
         IN /\ ContextOK(d) /\ d.fout.open /\ d.OldPosOut = c.OldPosOut
            /\ d.S.Patches = c.S.Patches /\ d.S.stage4 = c.S.stage4
            /\ Len(d.S.fPatches) >= 2
<1>0. /\ c \in [S : {c.S}, fout : {c.fout}, OldPosOut : Nat]
      /\ c.S \in [sBuffer : {c.S.sBuffer}, Patches : {c.S.Patches},
           fPatches : {c.S.fPatches}, stage4 : BOOLEAN, TermsLeft : {c.S.TermsLeft}]
      /\ Fits(c.S) /\ FileOK(c.fout) /\ GroupAt(c.fout, c.OldPosOut)
  BY DEF ContextOK, Fits, FitsIn, IsLevel
<1> DEFINE e == [terms |-> terms]
           q == Append(c.S.fPatches, End(c.fout) + 1)
           g == Put(c.fout, e)
           s == [c.S EXCEPT !.fPatches = q]
           d == AddPatch(c, terms)
<1>1. EntryFits(c.fout, e)
  BY DEF EntryFits, IsList
<1>2. Fits(s) /\ Len(q) >= 2
  BY <1>0, MorePatches DEF FileSpace
<1> HIDE DEF e, q
<1>3. /\ d \in [S : {d.S}, fout : {d.fout}, OldPosOut : Nat]
      /\ d.S = s /\ d.fout = g /\ d.OldPosOut = c.OldPosOut
  BY <1>0 DEF AddPatch, e, q
<1>4. s.fPatches = q /\ s.Patches = c.S.Patches /\ s.stage4 = c.S.stage4
  BY <1>0
<1> HIDE DEF g, s, d
<1>5. FileOK(g) /\ g.open /\ GroupAt(g, c.OldPosOut)
  BY <1>0, <1>1, PutFits DEF g
<1>6. ContextOK(d) /\ d.fout.open
  BY <1>2, <1>3, <1>5 DEF ContextOK
<1>7. QED
  BY <1>2, <1>3, <1>4, <1>6 DEF d

LEMMA ToSortFileFits ==
  ASSUME SortTypes, NEW c, ContextOK(c)
  PROVE  LET d == ToSortFile(c)
         IN /\ ContextOK(d) /\ d.fout.open /\ d.S.Patches = c.S.Patches
            /\ d.S.stage4 = c.S.stage4 /\ d.OldPosOut \in {c.OldPosOut, 0}
            /\ Simple(c) => Simple(d)
<1>1. CASE c.fout.open
  BY <1>1 DEF ToSortFile
<1>2. CASE ~c.fout.open
  BY <1>2, MadeFits DEF ToSortFile, Simple
<1>3. QED
  BY <1>1, <1>2

\* The large buffer is written; in a nested sort, where stage 4 is refused, there is still
\* one group.
LEMMA WriteFits ==
  ASSUME SortTypes, NEW c, ContextOK(c)
  PROVE  LET d == WriteLargeBuffer(c)
         IN /\ ContextOK(d) /\ d.fout.open
            /\ Simple(c) /\ ~GroupIsFull(ToSortFile(c).S) =>
                 Simple(d) /\ d.OldPosOut \in {c.OldPosOut, 0}
<1> DEFINE out == Merging(c.S.Patches).out
           less == Merging(c.S.Patches).less
           c1 == ToSortFile(c)
           c2 == StageSort(c1)
           c3 == AddPatch(c2, out)
           s == [c3.S EXCEPT !.TermsLeft = @ - less]
           d == WriteLargeBuffer(c)
<1>1. /\ ContextOK(c1) /\ c1.fout.open /\ c1.OldPosOut \in {c.OldPosOut, 0}
      /\ Simple(c) => Simple(c1)
  BY ToSortFileFits
<1> HIDE DEF c1
<1>2. /\ ContextOK(c2) /\ c2.fout.open /\ FileSpace(c2)
      /\ ~GroupIsFull(c1.S) => c2 = c1
  BY <1>1, StageFits
<1> HIDE DEF c2, out
<1>3. /\ ContextOK(c3) /\ c3.fout.open /\ c3.OldPosOut = c2.OldPosOut
      /\ c3.S.stage4 = c2.S.stage4
  BY <1>2, PatchFits
<1> HIDE DEF c3
<1>4. /\ c3 \in [S : {c3.S}, fout : {c3.fout}, OldPosOut : Nat]
      /\ c3.S \in [sBuffer : {c3.S.sBuffer}, Patches : {c3.S.Patches},
           fPatches : {c3.S.fPatches}, stage4 : BOOLEAN, TermsLeft : {c3.S.TermsLeft}]
      /\ Fits(c3.S)
  BY <1>3 DEF ContextOK, Fits, FitsIn, IsLevel
<1>5. d = [c3 EXCEPT !.S = s]
  BY <1>4 DEF WriteLargeBuffer, c1, c2, c3, out
<1>6. s.stage4 = c3.S.stage4
  BY <1>4
<1>7. Fits(s)
  BY <1>4, LevelChanges
<1> HIDE DEF d, s
<1>8. ContextOK(d) /\ d.S = s /\ d.fout = c3.fout /\ d.OldPosOut = c3.OldPosOut
  BY <1>3, <1>5, <1>7, NewLevel
<1>9. Simple(c) /\ ~GroupIsFull(c1.S) => Simple(d) /\ d.OldPosOut \in {c.OldPosOut, 0}
  <2> SUFFICES ASSUME Simple(c), ~GroupIsFull(c1.S)
               PROVE  Simple(d) /\ d.OldPosOut \in {c.OldPosOut, 0}
    OBVIOUS
  <2>1. Simple(c1) /\ c2 = c1
    BY <1>1, <1>2
  <2>2. d.OldPosOut = c1.OldPosOut /\ d.S.stage4 = c1.S.stage4
    BY <2>1, <1>3, <1>6, <1>8
  <2>3. QED
    BY <1>1, <2>1, <2>2 DEF Simple
<1>10. QED
  BY <1>3, <1>8, <1>9 DEF d, c1

\* Sorting the small buffer leaves the group of the sort file as it is.
LEMMA SameGroup ==
  ASSUME SortTypes, NEW c, ContextOK(c), NEW d, ContextOK(d), d.S.fPatches = c.S.fPatches,
         d.fout = c.fout
  PROVE  GroupIsFull(ToSortFile(d).S) = GroupIsFull(ToSortFile(c).S)
<1>1. CASE c.fout.open
  BY <1>1 DEF ToSortFile, GroupIsFull, fPatchN
<1>2. CASE ~c.fout.open
  <2>1. FileSpace(FileMake(c)) /\ FileSpace(FileMake(d))
    BY MadeFits
  <2>2. FileMake(c).S.fPatches = <<0>> /\ FileMake(d).S.fPatches = <<0>>
    <3>1. FileMake(c).S = [c.S EXCEPT !.fPatches = <<0>>]
          /\ FileMake(d).S = [d.S EXCEPT !.fPatches = <<0>>]
      BY MadeFits
    <3>2. /\ c.S \in [sBuffer : {c.S.sBuffer}, Patches : {c.S.Patches},
               fPatches : {c.S.fPatches}, stage4 : BOOLEAN, TermsLeft : {c.S.TermsLeft}]
          /\ d.S \in [sBuffer : {d.S.sBuffer}, Patches : {d.S.Patches},
               fPatches : {d.S.fPatches}, stage4 : BOOLEAN, TermsLeft : {d.S.TermsLeft}]
      BY DEF ContextOK, Fits, FitsIn, IsLevel
    <3>3. QED
      BY <3>1, <3>2
  <2>3. QED
    BY <1>2, <2>2 DEF ToSortFile, GroupIsFull, fPatchN
<1>3. QED
  BY <1>1, <1>2

LEMMA SpaceLeft ==
  ASSUME SortTypes, NEW c, ContextOK(c), NEW n, ~LargeBufferFull(c.S.Patches, n)
  PROVE  BufferSpace(c)
<1>1. ~(Len(c.S.Patches) >= setting.MaxPatches)
  BY Zenon DEF LargeBufferFull
<1>2. IsSeq(c.S.Patches)
  BY DEF ContextOK, Fits, FitsIn, IsLevel
<1>3. Len(c.S.Patches) \in Nat
  BY <1>2, OneMore
<1>4. QED
  BY <1>1, <1>3, MaximaAreNumbers DEF BufferSpace

\* Room is made for a term in the small buffer.
LEMMA RoomFits ==
  ASSUME SortTypes, NEW c, ContextOK(c)
  PROVE  LET d == MakeRoom(c)
         IN /\ ContextOK(d)
            /\ d.fout.open \/ d.fout = c.fout
            /\ c.fout.open => d.fout.open
            /\ Simple(c)
               /\ ~(GroupIsFull(ToSortFile(c).S)
                    /\ LargeBufferFull(c.S.Patches, Len(Sorting(c.S.sBuffer)))) =>
                 Simple(d) /\ d.OldPosOut \in {c.OldPosOut, 0}
<1> DEFINE c1 == SmallBufferSorted(c)
           full == LargeBufferFull(c.S.Patches, Len(c1.S.sBuffer))
           c2 == WriteLargeBuffer(c1)
           c3 == EmptyLargeBuffer(c2)
           roomy == IF full THEN c3 ELSE c1
           d == MakeRoom(c)
<1>1. /\ ContextOK(c1) /\ c1.fout = c.fout /\ c1.OldPosOut = c.OldPosOut
      /\ c1.S.Patches = c.S.Patches /\ c1.S.fPatches = c.S.fPatches
      /\ c1.S.stage4 = c.S.stage4 /\ c1.S.sBuffer = Sorting(c.S.sBuffer)
  BY BufferKept
<1>2. Simple(c) => Simple(c1)
  BY <1>1 DEF Simple
<1>3. d = AddToLargeBuffer(roomy)
  BY DEF MakeRoom
<1> HIDE DEF c1, d
<1>4. GroupIsFull(ToSortFile(c1).S) = GroupIsFull(ToSortFile(c).S)
  BY <1>1, SameGroup
<1>5. CASE full
  <2>1. /\ ContextOK(c2) /\ c2.fout.open
        /\ Simple(c1) /\ ~GroupIsFull(ToSortFile(c1).S) =>
             Simple(c2) /\ c2.OldPosOut \in {c1.OldPosOut, 0}
    BY <1>1, WriteFits
  <2> HIDE DEF c2
  <2>2. /\ ContextOK(c3) /\ c3.fout = c2.fout /\ c3.OldPosOut = c2.OldPosOut
        /\ c3.S.stage4 = c2.S.stage4 /\ BufferSpace(c3)
    BY <2>1, EmptyFits
  <2> HIDE DEF c3
  <2>3. /\ ContextOK(d) /\ d.fout = c3.fout /\ d.OldPosOut = c3.OldPosOut
        /\ d.S.stage4 = c3.S.stage4
    BY <2>2, <1>3, <1>5, AddFits
  <2>4. /\ ContextOK(d) /\ d.fout.open
        /\ d.OldPosOut = c2.OldPosOut /\ d.S.stage4 = c2.S.stage4 /\ d.fout = c2.fout
    BY <2>1, <2>2, <2>3
  <2>5. Simple(c) /\ ~GroupIsFull(ToSortFile(c).S) =>
          Simple(d) /\ d.OldPosOut \in {c.OldPosOut, 0}
    BY <1>1, <1>2, <1>4, <2>1, <2>4 DEF Simple
  <2>6. QED
    BY <1>1, <1>5, <2>4, <2>5 DEF d
<1>6. CASE ~full
  <2>1. BufferSpace(c1)
    <3>1. ~LargeBufferFull(c1.S.Patches, Len(c1.S.sBuffer))
      BY <1>1, <1>6
    <3>2. QED
      BY <3>1, <1>1, SpaceLeft
  <2>2. /\ ContextOK(d) /\ d.fout = c1.fout /\ d.OldPosOut = c1.OldPosOut
        /\ d.S.stage4 = c1.S.stage4
    BY <2>1, <1>1, <1>3, <1>6, AddFits
  <2>3. QED
    BY <1>1, <1>2, <2>2 DEF Simple, d
<1>7. QED
  BY <1>5, <1>6

\* Everything goes to the sort file at the end.
LEMMA ToFileFits ==
  ASSUME SortTypes, NEW c, ContextOK(c)
  PROVE  LET d == ToFile(c)
             c1 == SmallBufferSorted(c)
         IN /\ ContextOK(d) /\ d.fout.open
            /\ Simple(c) /\ ~GroupIsFull(ToSortFile(c).S)
               /\ ~(LargeBufferFull(c.S.Patches, Len(c1.S.sBuffer))
                    /\ GroupIsFull(WriteLargeBuffer(c1).S)) =>
                 Simple(d) /\ d.OldPosOut \in {c.OldPosOut, 0}
<1> DEFINE c1 == SmallBufferSorted(c)
           full == LargeBufferFull(c.S.Patches, Len(c1.S.sBuffer))
           c2 == WriteLargeBuffer(c1)
           c3 == EmptyLargeBuffer(c2)
           c4 == StageSort(c3)
           c5 == AddPatch(c4, c1.S.sBuffer)
           d == ToFile(c)
<1>1. /\ ContextOK(c1) /\ c1.fout = c.fout /\ c1.OldPosOut = c.OldPosOut
      /\ c1.S.Patches = c.S.Patches /\ c1.S.fPatches = c.S.fPatches
      /\ c1.S.stage4 = c.S.stage4
  BY BufferKept
<1>2. Simple(c) => Simple(c1)
  BY <1>1 DEF Simple
<1>3. /\ ~full => d = EmptyLargeBuffer(WriteLargeBuffer(AddToLargeBuffer(c1)))
      /\ full /\ c1.S.sBuffer = <<>> => d = c4
      /\ full /\ c1.S.sBuffer # <<>> => d = [c5 EXCEPT !.S.sBuffer = <<>>]
  BY DEF ToFile
<1> HIDE DEF c1, d
<1>4. GroupIsFull(ToSortFile(c1).S) = GroupIsFull(ToSortFile(c).S)
  BY <1>1, SameGroup
<1>5. CASE ~full
  <2> DEFINE a == AddToLargeBuffer(c1)
             w == WriteLargeBuffer(a)
  <2>1. BufferSpace(c1)
    <3>1. ~LargeBufferFull(c1.S.Patches, Len(c1.S.sBuffer))
      BY <1>1, <1>5
    <3>2. QED
      BY <3>1, <1>1, SpaceLeft
  <2>2. /\ ContextOK(a) /\ a.fout = c1.fout /\ a.OldPosOut = c1.OldPosOut
        /\ a.S.stage4 = c1.S.stage4 /\ a.S.fPatches = c1.S.fPatches
    BY <2>1, <1>1, AddFits
  <2>3. d = EmptyLargeBuffer(w)
    BY <1>3, <1>5
  <2> HIDE DEF a
  <2>4. GroupIsFull(ToSortFile(a).S) = GroupIsFull(ToSortFile(c).S)
    BY <2>2, <1>1, SameGroup
  <2>5. Simple(c) => Simple(a)
    BY <1>1, <2>2 DEF Simple
  <2>6. /\ ContextOK(w) /\ w.fout.open
        /\ Simple(a) /\ ~GroupIsFull(ToSortFile(a).S) =>
             Simple(w) /\ w.OldPosOut \in {a.OldPosOut, 0}
    BY <2>2, WriteFits
  <2> HIDE DEF w
  <2>7. /\ ContextOK(d) /\ d.fout = w.fout /\ d.OldPosOut = w.OldPosOut
        /\ d.S.stage4 = w.S.stage4
    BY <2>3, <2>6, EmptyFits
  <2>8. Simple(c) /\ ~GroupIsFull(ToSortFile(c).S) =>
          Simple(d) /\ d.OldPosOut \in {c.OldPosOut, 0}
    BY <1>1, <2>2, <2>4, <2>5, <2>6, <2>7 DEF Simple
  <2>9. QED
    BY <2>6, <2>7, <2>8 DEF d
<1>6. CASE full
  <2>1. /\ ContextOK(c2) /\ c2.fout.open
        /\ Simple(c1) /\ ~GroupIsFull(ToSortFile(c1).S) =>
             Simple(c2) /\ c2.OldPosOut \in {c1.OldPosOut, 0}
    BY <1>1, WriteFits
  <2> HIDE DEF c2
  <2>2. /\ ContextOK(c3) /\ c3.fout = c2.fout /\ c3.OldPosOut = c2.OldPosOut
        /\ c3.S.stage4 = c2.S.stage4 /\ c3.S.fPatches = c2.S.fPatches
    BY <2>1, EmptyFits
  <2>3. GroupIsFull(c3.S) = GroupIsFull(c2.S)
    BY <2>2 DEF GroupIsFull, fPatchN
  <2> HIDE DEF c3
  <2>4. /\ ContextOK(c4) /\ c4.fout.open /\ FileSpace(c4)
        /\ ~GroupIsFull(c3.S) => c4 = c3
    BY <2>1, <2>2, StageFits
  <2> HIDE DEF c4
  <2>5. Simple(c) /\ ~GroupIsFull(ToSortFile(c).S) /\ ~GroupIsFull(c2.S) =>
          Simple(c4) /\ c4.OldPosOut \in {c.OldPosOut, 0}
    BY <1>1, <1>2, <1>4, <2>1, <2>2, <2>3, <2>4 DEF Simple
  <2>6. ContextOK(d) /\ d.fout.open /\ (Simple(c4) => Simple(d)) /\ d.OldPosOut = c4.OldPosOut
    <3>1. CASE c1.S.sBuffer = <<>>
      BY <1>3, <1>6, <2>4, <3>1
    <3>2. CASE c1.S.sBuffer # <<>>
      <4>1. /\ ContextOK(c5) /\ c5.fout.open /\ c5.OldPosOut = c4.OldPosOut
            /\ c5.S.stage4 = c4.S.stage4
        BY <2>4, PatchFits
      <4> HIDE DEF c5
      <4> DEFINE s == [c5.S EXCEPT !.sBuffer = <<>>]
      <4>2. /\ c5 \in [S : {c5.S}, fout : {c5.fout}, OldPosOut : Nat]
            /\ c5.S \in [sBuffer : {c5.S.sBuffer}, Patches : {c5.S.Patches},
                 fPatches : {c5.S.fPatches}, stage4 : BOOLEAN,
                 TermsLeft : {c5.S.TermsLeft}]
            /\ Fits(c5.S)
        BY <4>1 DEF ContextOK, Fits, FitsIn, IsLevel
      <4>3. d = [c5 EXCEPT !.S = s]
        BY <1>3, <1>6, <3>2, <4>2
      <4>4. s.stage4 = c5.S.stage4
        BY <4>2
      <4>5. Fits(s)
        BY <4>2, LevelChanges
      <4> HIDE DEF s
      <4>6. ContextOK(d) /\ d.S = s /\ d.fout = c5.fout /\ d.OldPosOut = c5.OldPosOut
        BY <4>1, <4>3, <4>5, NewLevel
      <4>7. QED
        BY <2>4, <4>1, <4>4, <4>6 DEF Simple
    <3>3. QED
      BY <3>1, <3>2
  <2>7. Simple(c) /\ ~GroupIsFull(ToSortFile(c).S) /\ ~GroupIsFull(WriteLargeBuffer(c1).S) =>
          Simple(d) /\ d.OldPosOut \in {c.OldPosOut, 0}
    BY <2>5, <2>6 DEF c2
  <2>8. QED
    BY <1>6, <2>6, <2>7 DEF d, c1
<1>7. QED
  BY <1>5, <1>6

-----------------------------------------------------------------------------
(* The steps *)

\* What the call that is being made works on.
LEMMA ContextHere ==
  ASSUME SortInv, NEW level \in Levels, level = sLevel, merge.at = "no"
  PROVE  /\ ContextOK(Context(level))
         /\ Context(level).S = S[level] /\ Context(level).fout = files[File(level)]
         /\ Context(level).OldPosOut = OldPosOut
         /\ level = 1 => Simple(Context(level))
<1> DEFINE c == Context(level)
<1>1. SortTypes /\ LevelsFit /\ FilesOK /\ NestedIsSimple /\ NotMergingLevel0
  BY DEF SortInv
<1>2. OldPosOut \in Nat
  BY <1>1 DEF SortTypes
<1>3. /\ c \in [S : {c.S}, fout : {c.fout}, OldPosOut : Nat]
      /\ c.S = S[level] /\ c.fout = files[File(level)] /\ c.OldPosOut = OldPosOut
  BY <1>2 DEF Context
<1> HIDE DEF c
<1>4. Fits(c.S)
  BY <1>1, <1>3 DEF LevelsFit
<1>5. level \in {0, 1} /\ File(level) \in {"sort", "sub", "stage"}
      /\ (level = 0 => File(level) = "sort") /\ (level = 1 => File(level) = "sub")
  BY DEF Levels, File
<1>6. FileOK(c.fout)
  BY <1>1, <1>3, <1>5 DEF FilesOK
<1>7. CASE level = 0
  <2>1. c.fout.open => GroupAt(c.fout, c.OldPosOut)
    BY <1>1, <1>3, <1>5, <1>7 DEF NotMergingLevel0
  <2>2. QED
    BY <1>3, <1>4, <1>6, <1>7, <2>1 DEF ContextOK, c
<1>8. CASE level = 1
  <2>1. Simple(c)
    BY <1>1, <1>3, <1>5, <1>8 DEF NestedIsSimple, Simple
  <2>2. c.fout.open => GroupAt(c.fout, c.OldPosOut)
    BY <2>1 DEF Simple, GroupAt
  <2>3. QED
    BY <1>3, <1>4, <1>6, <2>1, <2>2 DEF ContextOK, c
<1>9. QED
  BY <1>5, <1>7, <1>8

\* A call keeps what it has done.
LEMMA KeepKeeps ==
  ASSUME SortInv, NEW level \in Levels, level = sLevel, merge.at = "no",
         NEW d, ContextOK(d), Keep(level, d),
         level = 1 => Simple(d) /\ d.OldPosOut \in {OldPosOut, 0},
         setting' = setting, sLevel' = sLevel
  PROVE  /\ LevelsFit' /\ FilesOK' /\ NestedIsSimple'
         /\ DOMAIN S' = Levels /\ S' = [l \in Levels |-> S'[l]]
         /\ files' = [f \in {"sort", "sub", "stage"} |-> files'[f]]
         /\ OldPosOut' \in Nat
         /\ files'["stage"] = files["stage"] /\ files'[File(level)] = d.fout
         /\ files'["sort"].open => GroupAt(files'["sort"], OldPosOut')
<1>1. SortTypes /\ LevelsFit /\ FilesOK /\ NestedIsSimple /\ NotMergingLevel0
  BY DEF SortInv
<1>2. /\ S = [l \in Levels |-> S[l]]
      /\ files = [f \in {"sort", "sub", "stage"} |-> files[f]]
  BY <1>1 DEF SortTypes
<1>3. level \in {0, 1} /\ File(level) \in {"sort", "sub"}
      /\ (level = 0 => File(level) = "sort") /\ (level = 1 => File(level) = "sub")
  BY DEF Levels, File
<1>4. /\ S' = [S EXCEPT ![level] = d.S] /\ files' = [files EXCEPT ![File(level)] = d.fout]
      /\ OldPosOut' = d.OldPosOut
  BY DEF Keep
<1>5. Fits(d.S) /\ FileOK(d.fout) /\ d.OldPosOut \in Nat
      /\ (d.fout.open => GroupAt(d.fout, d.OldPosOut))
  BY DEF ContextOK
<1>6. /\ S' = [l \in Levels |-> S'[l]] /\ DOMAIN S' = Levels
      /\ \A l \in Levels : S'[l] = IF l = level THEN d.S ELSE S[l]
  BY <1>2, <1>4
<1>7. /\ files' = [f \in {"sort", "sub", "stage"} |-> files'[f]]
      /\ \A f \in {"sort", "sub", "stage"} :
           files'[f] = IF f = File(level) THEN d.fout ELSE files[f]
  BY <1>2, <1>4
<1>8. LevelsFit'
  <2>1. ASSUME NEW l \in Levels PROVE FitsIn(setting, S'[l])
    BY <1>1, <1>5, <1>6 DEF LevelsFit, Fits
  <2>2. QED
    BY <2>1 DEF LevelsFit, Fits
<1>9. FilesOK'
  <2>1. ASSUME NEW f \in {"sort", "sub", "stage"} PROVE FileIn(setting, files'[f])
    BY <1>1, <1>5, <1>7 DEF FilesOK, FileOK
  <2>2. QED
    BY <2>1 DEF FilesOK, FileOK
<1>10. CASE level = 0
  <2>1. /\ S'[1] = S[1] /\ files'["sub"] = files["sub"] /\ files'["sort"] = d.fout
        /\ files'["stage"] = files["stage"] /\ ~files["sub"].open /\ ~S[1].stage4
    BY <1>1, <1>3, <1>6, <1>7, <1>10 DEF NestedIsSimple, Levels
  <2>2. NestedIsSimple'
    BY <2>1 DEF NestedIsSimple
  <2>3. QED
    BY <1>3, <1>4, <1>5, <1>6, <1>7, <1>8, <1>9, <1>10, <2>1, <2>2
<1>11. CASE level = 1
  <2>1. /\ S'[1] = d.S /\ files'["sub"] = d.fout /\ files'["sort"] = files["sort"]
        /\ files'["stage"] = files["stage"]
    BY <1>3, <1>6, <1>7, <1>11 DEF Levels
  <2>2. NestedIsSimple'
    BY <1>4, <1>11, <2>1 DEF NestedIsSimple, Simple
  <2>3. files["sort"].open => GroupAt(files["sort"], OldPosOut)
    BY <1>1 DEF NotMergingLevel0
  <2>4. files'["sort"].open => GroupAt(files'["sort"], OldPosOut')
    BY <1>4, <1>11, <2>1, <2>3 DEF GroupAt
  <2>5. QED
    BY <1>3, <1>4, <1>5, <1>6, <1>7, <1>8, <1>9, <1>11, <2>1, <2>2, <2>4
<1>12. QED
  BY <1>3, <1>10, <1>11

\* EndSort returns.
LEMMA ReturnKeeps ==
  ASSUME SortInv, NEW level \in Levels, level = sLevel,
         NEW s, Fits(s), level = 1 => ~s.stage4, NEW res, Return(level, s, res)
  PROVE  /\ LevelsFit' /\ ~S'[1].stage4 /\ setting' = setting
         /\ DOMAIN S' = Levels /\ S' = [l \in Levels |-> S'[l]]
         /\ result' = [l \in Levels |-> result'[l]]
         /\ sLevel' = level - 1 /\ sLevel' \in {-1, 0}
         /\ merge' = NotMerging
<1>1. SortTypes /\ LevelsFit /\ NestedIsSimple
  BY DEF SortInv
<1>2. S = [l \in Levels |-> S[l]] /\ result = [l \in Levels |-> result[l]] /\ level \in {0, 1}
  BY <1>1 DEF SortTypes, Levels
<1>3. /\ S' = [S EXCEPT ![level] = s] /\ result' = [result EXCEPT ![level] = res]
      /\ sLevel' = level - 1 /\ merge' = NotMerging /\ setting' = setting
  BY DEF Return
<1>4. /\ S' = [l \in Levels |-> S'[l]] /\ DOMAIN S' = Levels
      /\ \A l \in Levels : S'[l] = IF l = level THEN s ELSE S[l]
      /\ result' = [l \in Levels |-> result'[l]]
  BY <1>2, <1>3
<1>5. LevelsFit'
  <2>1. ASSUME NEW l \in Levels PROVE FitsIn(setting, S'[l])
    BY <1>1, <1>4 DEF LevelsFit, Fits
  <2>2. QED
    BY <1>3, <2>1 DEF LevelsFit, Fits
<1>6. ~S'[1].stage4
  BY <1>1, <1>2, <1>4 DEF NestedIsSimple, Levels
<1>7. QED
  BY <1>2, <1>3, <1>4, <1>5, <1>6

\* Nothing is being merged.
LEMMA NothingMerged ==
  /\ NotMerging.at = "no" /\ NotMerging.fin = "sort" /\ NotMerging.iPatches = <<>>
  /\ NotMerging \in [at : {"no"}, fin : {"sort"}, iPatches : {NotMerging.iPatches}]
BY DEF NotMerging

\* Nothing is merged after the step.
LEMMA Quiet ==
  ASSUME merge'.at \in {"no", "terminated"}, IsSeq(merge'.iPatches),
         Len(merge'.iPatches) <= setting'.MaxFpatches + 1,
         files'["stage"].data = <<>>, sLevel' = -1 => ~files'["sort"].open,
         files'["sort"].open => GroupAt(files'["sort"], OldPosOut')
  PROVE  NotMergingLevel0' /\ BeforePass' /\ InCycle' /\ ListsFit'
<1>1. NotMergingLevel0'
  BY DEF NotMergingLevel0
<1>2. BeforePass' /\ InCycle'
  BY DEF BeforePass, InCycle
<1>3. ListsFit'
  BY DEF ListsFit
<1>4. QED
  BY <1>1, <1>2, <1>3

LEMMA NewSortStep ==
  ASSUME SortInv, NewSort
  PROVE  SortInv'
<1>1. /\ SortTypes /\ LevelsFit /\ FilesOK /\ NestedIsSimple /\ NotMergingLevel0 /\ ListsFit
  BY DEF SortInv
<1>2. /\ merge.at = "no" /\ sLevel \in {-1, 0} /\ sLevel' = sLevel + 1
      /\ S' = [S EXCEPT ![sLevel + 1] = EmptySort]
      /\ result' = [result EXCEPT ![sLevel + 1] = NotWritten]
      /\ setting' = setting /\ files' = files /\ OldPosOut' = OldPosOut
      /\ OldPosIn' = OldPosIn /\ merge' = merge
  BY <1>1 DEF NewSort, Idle, MayBegin, SortTypes
<1>3. Fits(EmptySort) /\ ~EmptySort.stage4
  <2>1. /\ EmptySort.Patches = <<>> /\ EmptySort.fPatches = <<0>> /\ ~EmptySort.stage4
        /\ EmptySort \in [sBuffer : {EmptySort.sBuffer}, Patches : {EmptySort.Patches},
             fPatches : {EmptySort.fPatches}, stage4 : BOOLEAN,
             TermsLeft : {EmptySort.TermsLeft}]
    BY DEF EmptySort
  <2>2. QED
    BY <1>1, <2>1, MaximaAreNumbers, ShortSeqs DEF Fits, FitsIn, IsLevel
<1>4. /\ S = [l \in Levels |-> S[l]] /\ result = [l \in Levels |-> result[l]]
  BY <1>1 DEF SortTypes
<1>5. /\ S' = [l \in Levels |-> S'[l]] /\ DOMAIN S' = Levels
      /\ result' = [l \in Levels |-> result'[l]]
      /\ \A l \in Levels : S'[l] = S[l] \/ S'[l] = EmptySort
  BY <1>2, <1>4
<1>6. LevelsFit'
  <2>1. ASSUME NEW l \in Levels PROVE FitsIn(setting, S'[l])
    BY <1>1, <1>3, <1>5 DEF LevelsFit, Fits
  <2>2. QED
    BY <1>2, <2>1 DEF LevelsFit, Fits
<1>7. FilesOK'
  BY <1>1, <1>2 DEF FilesOK, FileOK
<1>8. NestedIsSimple'
  BY <1>1, <1>2, <1>3, <1>5 DEF NestedIsSimple, Levels
<1>9. SortTypes'
  BY <1>1, <1>2, <1>5 DEF SortTypes
<1>10. /\ IsSeq(merge'.iPatches) /\ Len(merge'.iPatches) <= setting'.MaxFpatches + 1
       /\ files'["stage"].data = <<>>
       /\ files'["sort"].open => GroupAt(files'["sort"], OldPosOut')
       /\ sLevel' # -1
  BY <1>1, <1>2 DEF ListsFit, NotMergingLevel0
<1>11. QED
  BY <1>2, <1>6, <1>7, <1>8, <1>9, <1>10, Quiet DEF SortInv

LEMMA TerminateStep ==
  ASSUME SortInv, merge.at = "no", Terminate
  PROVE  SortInv'
<1>1. /\ SortTypes /\ LevelsFit /\ FilesOK /\ NestedIsSimple /\ NotMergingLevel0
  BY DEF SortInv
<1>2. /\ merge' = [NotMerging EXCEPT !.at = "terminated"]
      /\ setting' = setting /\ sLevel' = sLevel /\ S' = S /\ files' = files
      /\ OldPosOut' = OldPosOut /\ OldPosIn' = OldPosIn /\ result' = result
  BY DEF Terminate
<1>3. /\ merge'.at = "terminated" /\ merge'.iPatches = <<>>
      /\ merge' \in [at : {"terminated"}, fin : {"sort"}, iPatches : {merge'.iPatches}]
  BY <1>2, NothingMerged
<1>4. SortTypes'
  BY <1>1, <1>2, <1>3 DEF SortTypes
<1>5. LevelsFit' /\ FilesOK' /\ NestedIsSimple'
  BY <1>1, <1>2 DEF LevelsFit, Fits, FilesOK, FileOK, NestedIsSimple
<1>6. /\ IsSeq(merge'.iPatches) /\ Len(merge'.iPatches) <= setting'.MaxFpatches + 1
      /\ files'["stage"].data = <<>> /\ (sLevel' = -1 => ~files'["sort"].open)
      /\ files'["sort"].open => GroupAt(files'["sort"], OldPosOut')
  BY <1>1, <1>2, <1>3, ShortSeqs, MaximaAreNumbers DEF NotMergingLevel0
<1>7. QED
  BY <1>3, <1>4, <1>5, <1>6, Quiet DEF SortInv

\* A nested sort in which stage 4 would be refused ends the program, so that it keeps one
\* group.
LEMMA StoreTermStep ==
  ASSUME SortInv, NEW term, StoreTerm(term)
  PROVE  SortInv'
<1> DEFINE c == Context(sLevel)
           full == SmallBufferFull(c)
           roomy == IF full THEN MakeRoom(c) ELSE c
           s == [roomy.S EXCEPT !.sBuffer = Append(@, term), !.TermsLeft = @ + 1]
           d == [roomy EXCEPT !.S.sBuffer = Append(@, term), !.S.TermsLeft = @ + 1]
<1>1. /\ SortTypes /\ LevelsFit /\ FilesOK /\ NestedIsSimple /\ NotMergingLevel0 /\ ListsFit
  BY DEF SortInv
<1>2. merge.at = "no" /\ sLevel >= 0
  BY DEF StoreTerm, Idle
<1>3. sLevel \in Levels /\ sLevel \in {0, 1}
  BY <1>1, <1>2 DEF SortTypes, Levels
<1>4. /\ ContextOK(c) /\ c.S = S[sLevel] /\ c.fout = files[File(sLevel)]
      /\ c.OldPosOut = OldPosOut /\ (sLevel = 1 => Simple(c))
  BY <1>2, <1>3, ContextHere
<1>5. CASE full /\ Refused(sLevel, c)
  <2>1. Terminate
    BY <1>5 DEF StoreTerm
  <2>2. QED
    BY <1>2, <2>1, TerminateStep
<1>6. CASE ~(full /\ Refused(sLevel, c))
  <2>1. /\ Keep(sLevel, d) /\ setting' = setting /\ sLevel' = sLevel
        /\ OldPosIn' = OldPosIn /\ merge' = merge /\ result' = result
    BY <1>6 DEF StoreTerm
  <2> HIDE DEF c, full
  <2>2. ContextOK(roomy) /\ (sLevel = 1 => Simple(roomy) /\ roomy.OldPosOut \in {OldPosOut, 0})
    <3>1. CASE ~full
      BY <1>4, <3>1
    <3>2. CASE full
      <4>1. sLevel = 1 => ~(GroupIsFull(ToSortFile(c).S)
                             /\ LargeBufferFull(c.S.Patches, Len(Sorting(c.S.sBuffer))))
        BY <1>6, <3>2 DEF Refused, Forbidden
      <4>2. roomy = MakeRoom(c)
        BY <3>2
      <4> HIDE DEF roomy
      <4>3. ContextOK(roomy)
        BY <1>1, <1>4, <4>2, RoomFits
      <4>4. ASSUME sLevel = 1 PROVE Simple(roomy) /\ roomy.OldPosOut \in {OldPosOut, 0}
        BY <1>1, <1>4, <4>1, <4>2, <4>4, RoomFits
      <4>5. QED
        BY <4>3, <4>4
    <3>3. QED
      BY <3>1, <3>2
  <2> HIDE DEF roomy
  <2>3. /\ roomy \in [S : {roomy.S}, fout : {roomy.fout}, OldPosOut : Nat]
        /\ roomy.S \in [sBuffer : {roomy.S.sBuffer}, Patches : {roomy.S.Patches},
             fPatches : {roomy.S.fPatches}, stage4 : BOOLEAN,
             TermsLeft : {roomy.S.TermsLeft}]
        /\ Fits(roomy.S)
    BY <2>2 DEF ContextOK, Fits, FitsIn, IsLevel
  <2>4. d = [roomy EXCEPT !.S = s]
    BY <2>3
  <2>5. s.stage4 = roomy.S.stage4
    BY <2>3
  <2>6. Fits(s)
    BY <1>1, <2>3, LevelChanges
  <2> HIDE DEF d, s
  <2>7. ContextOK(d) /\ d.S = s /\ d.fout = roomy.fout /\ d.OldPosOut = roomy.OldPosOut
    BY <2>2, <2>4, <2>6, NewLevel
  <2>8. sLevel = 1 => Simple(d) /\ d.OldPosOut \in {OldPosOut, 0}
    BY <2>2, <2>5, <2>7 DEF Simple
  <2>9. /\ LevelsFit' /\ FilesOK' /\ NestedIsSimple'
        /\ DOMAIN S' = Levels /\ S' = [l \in Levels |-> S'[l]]
        /\ files' = [f \in {"sort", "sub", "stage"} |-> files'[f]]
        /\ OldPosOut' \in Nat
        /\ files'["stage"] = files["stage"]
        /\ files'["sort"].open => GroupAt(files'["sort"], OldPosOut')
    BY <1>2, <1>3, <2>1, <2>7, <2>8, KeepKeeps
  <2>10. SortTypes'
    BY <1>1, <2>1, <2>9 DEF SortTypes
  <2>11. /\ IsSeq(merge'.iPatches) /\ Len(merge'.iPatches) <= setting'.MaxFpatches + 1
         /\ files'["stage"].data = <<>> /\ sLevel' # -1
    BY <1>1, <1>2, <1>3, <2>1, <2>9 DEF ListsFit, NotMergingLevel0
  <2>12. NotMergingLevel0' /\ BeforePass' /\ InCycle' /\ ListsFit'
    BY <1>2, <2>1, <2>9, <2>11, Quiet
  <2>13. QED
    BY <2>9, <2>10, <2>12 DEF SortInv
<1>7. QED
  BY <1>5, <1>6

\* EndSort without a file: the files stay as they are, and this level has none.
LEMMA ReturnWithoutFile ==
  ASSUME SortInv, NEW level \in Levels, level = sLevel, merge.at = "no",
         ~files[File(level)].open,
         NEW s, Fits(s), level = 1 => ~s.stage4, NEW res, Return(level, s, res),
         UNCHANGED <<files, OldPosOut, OldPosIn>>
  PROVE  SortInv'
<1>1. /\ SortTypes /\ FilesOK /\ NestedIsSimple /\ NotMergingLevel0
  BY DEF SortInv
<1>2. /\ LevelsFit' /\ ~S'[1].stage4 /\ setting' = setting
      /\ DOMAIN S' = Levels /\ S' = [l \in Levels |-> S'[l]]
      /\ result' = [l \in Levels |-> result'[l]]
      /\ sLevel' = level - 1 /\ sLevel' \in {-1, 0} /\ merge' = NotMerging
  BY ReturnKeeps
<1>3. level \in {0, 1} /\ (level = 0 => File(level) = "sort") /\ (level = 1 => File(level) = "sub")
  BY DEF Levels, File
<1>4. SortTypes'
  BY <1>1, <1>2, NothingMerged DEF SortTypes
<1>5. FilesOK'
  BY <1>1, <1>2 DEF FilesOK, FileOK
<1>6. ~files["sub"].open /\ (sLevel' = -1 => ~files["sort"].open)
  BY <1>1, <1>2, <1>3 DEF NestedIsSimple
<1>7. NestedIsSimple'
  BY <1>2, <1>6 DEF NestedIsSimple
<1>8. /\ IsSeq(merge'.iPatches) /\ Len(merge'.iPatches) <= setting'.MaxFpatches + 1
      /\ merge'.at = "no"
      /\ files'["stage"].data = <<>> /\ (sLevel' = -1 => ~files'["sort"].open)
      /\ files'["sort"].open => GroupAt(files'["sort"], OldPosOut')
  BY <1>1, <1>2, <1>6, NothingMerged, ShortSeqs, MaximaAreNumbers DEF NotMergingLevel0
<1>9. QED
  BY <1>2, <1>4, <1>5, <1>7, <1>8, Quiet DEF SortInv

LEMMA EndFromSmallBufferStep ==
  ASSUME SortInv, EndFromSmallBuffer
  PROVE  SortInv'
<1> DEFINE c == Context(sLevel)
           ss == Sorting(c.S.sBuffer)
           s == [c.S EXCEPT !.TermsLeft = IF sLevel = 0 THEN Len(ss) ELSE @]
<1>1. merge.at = "no" /\ sLevel >= 0 /\ ~c.fout.open
  BY DEF EndFromSmallBuffer, Idle
<1>2. sLevel \in Levels /\ SortTypes
  BY <1>1 DEF SortInv, SortTypes, Levels
<1>3. /\ ContextOK(c) /\ c.S = S[sLevel] /\ c.fout = files[File(sLevel)]
      /\ sLevel = 1 => Simple(c)
  BY <1>1, <1>2, ContextHere
<1>4. Return(sLevel, s, Output(ss)) /\ UNCHANGED <<files, OldPosOut, OldPosIn>>
  BY DEF EndFromSmallBuffer
<1> HIDE DEF c
<1>5. Fits(c.S) /\ c.S \in [sBuffer : {c.S.sBuffer}, Patches : {c.S.Patches},
             fPatches : {c.S.fPatches}, stage4 : BOOLEAN, TermsLeft : {c.S.TermsLeft}]
  BY <1>3 DEF ContextOK, Fits, FitsIn, IsLevel
<1>6. s.stage4 = c.S.stage4
  BY <1>5
<1>7. Fits(s)
  BY <1>2, <1>5, LevelChanges
<1> HIDE DEF s, ss
<1>8. QED
  BY <1>1, <1>2, <1>3, <1>4, <1>6, <1>7, ReturnWithoutFile DEF Simple

LEMMA EndFromLargeBufferStep ==
  ASSUME SortInv, EndFromLargeBuffer
  PROVE  SortInv'
<1> DEFINE c0 == Context(sLevel)
           c1 == SmallBufferSorted(c0)
           c == AddToLargeBuffer(c1)
           out == Merging(c.S.Patches).out
           less == Merging(c.S.Patches).less
           s == [c.S EXCEPT !.TermsLeft = @ - less]
<1>1. /\ merge.at = "no" /\ sLevel >= 0 /\ ~c.fout.open
      /\ ~LargeBufferFull(S[sLevel].Patches, Len(Last(c.S.Patches)))
      /\ Return(sLevel, s, Output(out)) /\ UNCHANGED <<files, OldPosOut, OldPosIn>>
  BY DEF EndFromLargeBuffer, Idle
<1>2. sLevel \in Levels /\ SortTypes
  BY <1>1 DEF SortInv, SortTypes, Levels
<1>3. /\ ContextOK(c0) /\ c0.S = S[sLevel] /\ c0.fout = files[File(sLevel)]
      /\ sLevel = 1 => Simple(c0)
  BY <1>1, <1>2, ContextHere
<1> HIDE DEF c0
<1>4. /\ ContextOK(c1) /\ c1.fout = c0.fout /\ c1.S.Patches = c0.S.Patches
      /\ c1.S.stage4 = c0.S.stage4
  BY <1>2, <1>3, BufferKept
<1>5. BufferSpace(c1)
  BY <1>1, <1>2, <1>3, <1>4, SpaceLeft
<1> HIDE DEF c1
<1>6. /\ ContextOK(c) /\ c.fout = c1.fout /\ c.S.stage4 = c1.S.stage4
  BY <1>2, <1>4, <1>5, AddFits
<1> HIDE DEF c, out, less
<1>7. Fits(c.S) /\ c.S \in [sBuffer : {c.S.sBuffer}, Patches : {c.S.Patches},
             fPatches : {c.S.fPatches}, stage4 : BOOLEAN, TermsLeft : {c.S.TermsLeft}]
  BY <1>6 DEF ContextOK, Fits, FitsIn, IsLevel
<1>8. s.stage4 = c.S.stage4
  BY <1>7
<1>9. Fits(s)
  BY <1>2, <1>7, LevelChanges
<1> HIDE DEF s
<1>10. sLevel = 1 => ~s.stage4
  BY <1>3, <1>4, <1>6, <1>8 DEF Simple
<1>11. ~files[File(sLevel)].open
  BY <1>1, <1>3, <1>4, <1>6
<1>12. QED
  BY <1>1, <1>2, <1>9, <1>10, <1>11, ReturnWithoutFile

LEMMA EndFromFileStep ==
  ASSUME SortInv, EndFromFile
  PROVE  SortInv'
<1> DEFINE c == Context(sLevel)
           d == ToFile(c)
<1>1. /\ SortTypes /\ NotMergingLevel0
  BY DEF SortInv
<1>2. merge.at = "no" /\ sLevel >= 0
  BY DEF EndFromFile, Idle
<1>3. sLevel \in Levels /\ sLevel \in {0, 1}
      /\ (sLevel = 0 => File(sLevel) = "sort") /\ (sLevel = 1 => File(sLevel) = "sub")
  BY <1>1, <1>2 DEF SortTypes, Levels, File
<1>4. /\ ContextOK(c) /\ c.OldPosOut = OldPosOut /\ (sLevel = 1 => Simple(c))
  BY <1>2, <1>3, ContextHere
<1>5. CASE RefusedAtEnd(sLevel, c)
  BY <1>2, <1>5, TerminateStep DEF EndFromFile
<1>6. CASE ~RefusedAtEnd(sLevel, c)
  <2>1. /\ Keep(sLevel, d) /\ merge' = [NotMerging EXCEPT !.at = "newmerge", !.fin = File(sLevel)]
        /\ setting' = setting /\ sLevel' = sLevel /\ OldPosIn' = OldPosIn /\ result' = result
    BY <1>6 DEF EndFromFile
  <2>2. sLevel = 1 => /\ ~GroupIsFull(ToSortFile(c).S)
                      /\ ~(LargeBufferFull(c.S.Patches, Len(SmallBufferSorted(c).S.sBuffer))
                           /\ GroupIsFull(WriteLargeBuffer(SmallBufferSorted(c)).S))
    BY <1>6 DEF RefusedAtEnd, Forbidden
  <2> HIDE DEF c
  <2>3. ContextOK(d) /\ d.fout.open /\ (sLevel = 1 => Simple(d) /\ d.OldPosOut \in {OldPosOut, 0})
    BY <1>1, <1>4, <2>2, ToFileFits
  <2> HIDE DEF d
  <2>4. /\ LevelsFit' /\ FilesOK' /\ NestedIsSimple'
        /\ DOMAIN S' = Levels /\ S' = [l \in Levels |-> S'[l]]
        /\ files' = [f \in {"sort", "sub", "stage"} |-> files'[f]]
        /\ OldPosOut' \in Nat
        /\ files'["stage"] = files["stage"] /\ files'[File(sLevel)] = d.fout
        /\ files'["sort"].open => GroupAt(files'["sort"], OldPosOut')
    BY <1>2, <1>3, <2>1, <2>3, KeepKeeps
  <2>5. /\ merge'.at = "newmerge" /\ merge'.fin = File(sLevel) /\ merge'.iPatches = <<>>
        /\ merge' \in [at : {"newmerge"}, fin : {File(sLevel)}, iPatches : {merge'.iPatches}]
    BY <2>1, NothingMerged
  <2>6. SortTypes'
    BY <1>1, <1>3, <2>1, <2>4, <2>5 DEF SortTypes
  <2>7. files'["stage"].data = <<>>
    BY <1>1, <1>2, <2>4 DEF NotMergingLevel0
  <2>8. NotMergingLevel0'
    BY <1>3, <2>1, <2>4, <2>5, <2>7 DEF NotMergingLevel0
  <2>9. BeforePass'
    BY <1>3, <2>1, <2>3, <2>4, <2>5, <2>7 DEF BeforePass
  <2>10. InCycle'
    BY <2>5 DEF InCycle
  <2>11. ListsFit'
    BY <1>1, <2>1, <2>5, ShortSeqs, MaximaAreNumbers DEF ListsFit
  <2>12. QED
    BY <2>4, <2>6, <2>8, <2>9, <2>10, <2>11 DEF SortInv
<1>7. QED
  BY <1>5, <1>6

\* A file is closed.
LEMMA CloseKeeps ==
  ASSUME SortTypes, FilesOK, NEW f \in {"sort", "sub", "stage"}, files' = Close(f),
         setting' = setting
  PROVE  /\ FilesOK' /\ files' = [g \in {"sort", "sub", "stage"} |-> files'[g]]
         /\ \A g \in {"sort", "sub", "stage"} : g # f => files'[g] = files[g]
         /\ ~files'[f].open /\ files'[f].data = <<>>
<1>1. files = [g \in {"sort", "sub", "stage"} |-> files[g]]
  BY DEF SortTypes
<1>2. /\ files' = [g \in {"sort", "sub", "stage"} |-> files'[g]]
      /\ \A g \in {"sort", "sub", "stage"} : files'[g] = IF g = f THEN NoFile ELSE files[g]
  BY <1>1 DEF Close
<1>3. ASSUME NEW g \in {"sort", "sub", "stage"} PROVE FileIn(setting, files'[g])
  BY <1>2, NewFilesFit DEF FilesOK, FileOK
<1>4. FilesOK'
  BY <1>3 DEF FilesOK, FileOK
<1>5. QED
  BY <1>2, <1>4, NewFilesFit

\* MergePatches ends: its file is closed, and the other one holds nothing.
LEMMA ReturnFromMerge ==
  ASSUME SortInv, NEW level \in Levels, level = sLevel,
         NEW s, Fits(s), level = 1 => ~s.stage4, NEW res, Return(level, s, res),
         NEW f \in {"sort", "sub", "stage"}, files' = Close(f), level = 1 => f = "sub",
         level = 0 => \/ f = "sort" /\ files["stage"].data = <<>>
                      \/ f = "stage" /\ ~files["sort"].open,
         UNCHANGED <<OldPosOut, OldPosIn>>
  PROVE  SortInv'
<1>1. /\ SortTypes /\ FilesOK /\ NestedIsSimple /\ NotMergingLevel0
  BY DEF SortInv
<1>2. /\ LevelsFit' /\ ~S'[1].stage4 /\ setting' = setting
      /\ DOMAIN S' = Levels /\ S' = [l \in Levels |-> S'[l]]
      /\ result' = [l \in Levels |-> result'[l]]
      /\ sLevel' = level - 1 /\ sLevel' \in {-1, 0} /\ merge' = NotMerging
  BY ReturnKeeps
<1>3. level \in {0, 1}
  BY DEF Levels
<1>4. /\ FilesOK' /\ files' = [g \in {"sort", "sub", "stage"} |-> files'[g]]
      /\ \A g \in {"sort", "sub", "stage"} : g # f => files'[g] = files[g]
      /\ ~files'[f].open /\ files'[f].data = <<>>
  BY <1>1, <1>2, CloseKeeps
<1>5. SortTypes'
  BY <1>1, <1>2, <1>4, NothingMerged DEF SortTypes
<1>6. ~files'["sub"].open /\ NestedIsSimple'
  BY <1>1, <1>2, <1>3, <1>4 DEF NestedIsSimple
<1>7. files'["stage"].data = <<>>
  BY <1>1, <1>3, <1>4 DEF NotMergingLevel0
<1>8. sLevel' = -1 => ~files'["sort"].open
  BY <1>2, <1>3, <1>4
<1>9. files'["sort"].open => GroupAt(files'["sort"], OldPosOut')
  <2>1. CASE level = 0
    BY <1>4, <2>1
  <2>2. CASE level = 1
    BY <1>1, <1>4, <2>2 DEF NotMergingLevel0
  <2>3. QED
    BY <1>3, <2>1, <2>2
<1>10. /\ IsSeq(merge'.iPatches) /\ Len(merge'.iPatches) <= setting'.MaxFpatches + 1
       /\ merge'.at = "no"
  BY <1>1, <1>2, NothingMerged, ShortSeqs, MaximaAreNumbers
<1>11. QED
  BY <1>2, <1>4, <1>5, <1>6, <1>7, <1>8, <1>9, <1>10, Quiet DEF SortInv

\* What is merged is the file of the nested sort, or one of the two files of level 0.
LEMMA WhatIsMerged ==
  ASSUME SortInv, merge.at \in {"newmerge", "group"}
  PROVE  /\ sLevel \in Levels /\ sLevel \in {0, 1}
         /\ sLevel = 1 => merge.at = "newmerge" /\ merge.fin = "sub"
         /\ sLevel = 0 => merge.fin \in {"sort", "stage"}
<1>1. SortTypes /\ NotMergingLevel0 /\ BeforePass /\ InCycle
  BY DEF SortInv
<1>2. CASE sLevel = 1
  BY <1>1, <1>2 DEF NotMergingLevel0, Levels
<1>3. CASE sLevel # 1
  BY <1>1, <1>3 DEF BeforePass, InCycle, Levels
<1>4. QED
  BY <1>2, <1>3

LEMMA LastPassStep ==
  ASSUME SortInv, LastPass
  PROVE  SortInv'
<1> DEFINE p == PatchesOf(merge.fin, S[sLevel].fPatches)
           out == Merging(p).out
           less == Merging(p).less
           s == [S[sLevel] EXCEPT !.TermsLeft = @ - less]
<1>1. /\ SortTypes /\ LevelsFit /\ NestedIsSimple /\ NotMergingLevel0 /\ BeforePass
  BY DEF SortInv
<1>2. /\ merge.at = "newmerge" /\ Return(sLevel, s, Output(out))
      /\ files' = Close(merge.fin) /\ UNCHANGED <<OldPosOut, OldPosIn>>
  BY DEF LastPass
<1>3. /\ sLevel \in Levels /\ sLevel \in {0, 1} /\ (sLevel = 1 => merge.fin = "sub")
      /\ (sLevel = 0 => merge.fin \in {"sort", "stage"})
  BY <1>2, WhatIsMerged
<1>4. Fits(S[sLevel]) /\ S[sLevel] \in
         [sBuffer : {S[sLevel].sBuffer}, Patches : {S[sLevel].Patches},
          fPatches : {S[sLevel].fPatches}, stage4 : BOOLEAN, TermsLeft : {S[sLevel].TermsLeft}]
  BY <1>1, <1>3 DEF LevelsFit, Fits, FitsIn, IsLevel
<1>5. s.stage4 = S[sLevel].stage4
  BY <1>4
<1> HIDE DEF less, out
<1>6. Fits(s)
  BY <1>1, <1>4, LevelChanges
<1> HIDE DEF s
<1>7. sLevel = 1 => ~s.stage4
  BY <1>1, <1>5 DEF NestedIsSimple
<1>8. sLevel = 0 => \/ merge.fin = "sort" /\ files["stage"].data = <<>>
                    \/ merge.fin = "stage" /\ ~files["sort"].open
  BY <1>1, <1>2 DEF BeforePass
<1>9. merge.fin \in {"sort", "sub", "stage"}
  BY <1>3
<1>10. QED
  BY <1>2, <1>3, <1>6, <1>7, <1>8, <1>9, ReturnFromMerge

LEMMA NoGroupStep ==
  ASSUME SortInv, NoGroup
  PROVE  SortInv'
<1>1. /\ SortTypes /\ LevelsFit /\ NestedIsSimple /\ InCycle
  BY DEF SortInv
<1>2. /\ merge.at = "group" /\ Len(merge.iPatches) = 1 /\ Return(sLevel, S[sLevel], NotWritten)
      /\ files' = Close(File(sLevel)) /\ UNCHANGED <<OldPosOut, OldPosIn>>
  BY DEF NoGroup
<1>3. sLevel = 0 /\ sLevel \in Levels /\ File(sLevel) = "sort"
  BY <1>2, WhatIsMerged DEF File
<1>4. files["stage"].data = <<>>
  BY <1>1, <1>2, <1>3 DEF InCycle
<1>5. Fits(S[sLevel])
  BY <1>1, <1>3 DEF LevelsFit
<1>6. QED
  BY <1>2, <1>3, <1>4, <1>5, ReturnFromMerge

\* The level and one of the files of level 0 change.
LEMMA LevelAndFile ==
  ASSUME SortInv, setting' = setting, NEW s, Fits(s), S' = [S EXCEPT ![0] = s],
         NEW f \in {"sort", "stage"}, NEW g, FileOK(g),
         NEW F, F \in [{"sort", "sub", "stage"} -> {F[h] : h \in {"sort", "sub", "stage"}}],
         \A h \in {"sort", "sub", "stage"} : FileOK(F[h]),
         files' = [F EXCEPT ![f] = g]
  PROVE  /\ LevelsFit' /\ FilesOK' /\ S'[0] = s /\ S'[1] = S[1]
         /\ DOMAIN S' = Levels /\ S' = [l \in Levels |-> S'[l]]
         /\ files' = [h \in {"sort", "sub", "stage"} |-> files'[h]]
         /\ files'[f] = g
         /\ \A h \in {"sort", "sub", "stage"} : h # f => files'[h] = F[h]
<1>1. SortTypes /\ LevelsFit
  BY DEF SortInv
<1>2. S = [l \in Levels |-> S[l]]
  BY <1>1 DEF SortTypes
<1>3. /\ S' = [l \in Levels |-> S'[l]] /\ DOMAIN S' = Levels
      /\ S'[0] = s /\ S'[1] = S[1]
      /\ \A l \in Levels : S'[l] = IF l = 0 THEN s ELSE S[l]
  <2>1. 0 \in Levels /\ 1 \in Levels
    BY DEF Levels
  <2>2. /\ S' = [l \in Levels |-> S'[l]] /\ DOMAIN S' = Levels
        /\ \A l \in Levels : S'[l] = IF l = 0 THEN s ELSE S[l]
    BY <1>2
  <2>3. QED
    BY <2>1, <2>2
<1>4. /\ files' = [h \in {"sort", "sub", "stage"} |-> files'[h]]
      /\ \A h \in {"sort", "sub", "stage"} : files'[h] = IF h = f THEN g ELSE F[h]
  OBVIOUS
<1>5. LevelsFit'
  <2>1. ASSUME NEW l \in Levels PROVE FitsIn(setting, S'[l])
    BY <1>1, <1>3 DEF LevelsFit, Fits
  <2>2. QED
    BY <2>1 DEF LevelsFit, Fits
<1>6. FilesOK'
  <2>1. ASSUME NEW h \in {"sort", "sub", "stage"} PROVE FileIn(setting, files'[h])
    BY <1>4 DEF FileOK
  <2>2. QED
    BY <2>1 DEF FilesOK, FileOK
<1>7. QED
  BY <1>3, <1>4, <1>5, <1>6

\* The other file is made, and the groups are those of the file that was written before.
LEMMA BeginCycleStep ==
  ASSUME SortInv, BeginCycle
  PROVE  SortInv'
<1> DEFINE f == OtherFile(merge.fin)
           b == [S |-> S[sLevel], fout |-> files[f], OldPosOut |-> OldPosOut]
           b0 == [S |-> S[sLevel], fout |-> NoFile, OldPosOut |-> OldPosOut]
           c == FileMake(b)
           s == [c.S EXCEPT !.stage4 = FALSE]
<1>1. /\ SortTypes /\ LevelsFit /\ FilesOK /\ NestedIsSimple /\ BeforePass
  BY DEF SortInv
<1>2. /\ merge.at = "newmerge" /\ S[sLevel].stage4
      /\ merge' = [merge EXCEPT !.at = "group", !.iPatches = S[sLevel].fPatches]
      /\ OldPosIn' = OldPosOut /\ S' = [S EXCEPT ![sLevel] = s]
      /\ files' = [files EXCEPT ![f] = c.fout] /\ OldPosOut' = c.OldPosOut
      /\ setting' = setting /\ sLevel' = sLevel /\ result' = result
  BY DEF BeginCycle
<1>3. sLevel = 0 /\ merge.fin \in {"sort", "stage"}
  BY <1>1, <1>2, WhatIsMerged DEF NestedIsSimple
<1>4. /\ f \in {"sort", "stage"} /\ f # merge.fin
      /\ (merge.fin = "sort" => f = "stage") /\ (merge.fin = "stage" => f = "sort")
  BY <1>3 DEF OtherFile
<1>5. /\ Fits(S[0]) /\ IsSeq(S[0].fPatches)
      /\ Len(S[0].fPatches) >= 1 /\ Len(S[0].fPatches) <= setting.MaxFpatches + 1
      /\ OldPosOut \in Nat
  BY <1>1 DEF LevelsFit, Levels, Fits, FitsIn, IsLevel, SortTypes
<1>6. ContextOK(b0) /\ b0.S = S[0]
  <2>1. /\ b0 \in [S : {b0.S}, fout : {b0.fout}, OldPosOut : Nat]
        /\ b0.S = S[0] /\ b0.fout = NoFile
    BY <1>3, <1>5
  <2> HIDE DEF b0
  <2>2. QED
    BY <1>5, <2>1, NewFilesFit DEF ContextOK
<1>7. c = FileMake(b0)
  BY DEF FileMake
<1> HIDE DEF b, b0, c
<1>8. /\ ContextOK(c) /\ c.fout = NewFile /\ c.OldPosOut = 0
  BY <1>1, <1>6, <1>7, MadeFits
<1>9. Fits(c.S) /\ c.S \in [sBuffer : {c.S.sBuffer}, Patches : {c.S.Patches},
             fPatches : {c.S.fPatches}, stage4 : BOOLEAN, TermsLeft : {c.S.TermsLeft}]
  BY <1>8 DEF ContextOK, Fits, FitsIn, IsLevel
<1>10. Fits(s)
  BY <1>1, <1>9, LevelChanges
<1> HIDE DEF s, f
<1>11. /\ FileOK(NewFile) /\ NewFile.open /\ NewFile.data = <<>>
       /\ \A h \in {"sort", "sub", "stage"} : FileOK(files[h])
       /\ files \in [{"sort", "sub", "stage"} -> {files[h] : h \in {"sort", "sub", "stage"}}]
  <2>1. files = [h \in {"sort", "sub", "stage"} |-> files[h]]
    BY <1>1 DEF SortTypes
  <2>2. files \in [{"sort", "sub", "stage"} -> {files[h] : h \in {"sort", "sub", "stage"}}]
    BY <2>1
  <2>3. QED
    BY <1>1, <2>2, NewFilesFit DEF FilesOK
<1>12. S' = [S EXCEPT ![0] = s] /\ files' = [files EXCEPT ![f] = NewFile]
  BY <1>2, <1>3, <1>8
<1>13. /\ LevelsFit' /\ FilesOK' /\ S'[1] = S[1]
       /\ DOMAIN S' = Levels /\ S' = [l \in Levels |-> S'[l]]
       /\ files' = [h \in {"sort", "sub", "stage"} |-> files'[h]]
       /\ files'[f] = NewFile
       /\ \A h \in {"sort", "sub", "stage"} : h # f => files'[h] = files[h]
  <2>1. /\ setting' = setting /\ f \in {"sort", "stage"} /\ FileOK(NewFile)
    BY <1>2, <1>4, <1>11
  <2>2. /\ \A h \in {"sort", "sub", "stage"} : FileOK(files[h])
        /\ files \in [{"sort", "sub", "stage"} -> {files[h] : h \in {"sort", "sub", "stage"}}]
    BY <1>11
  <2>3. QED
    BY <1>10, <1>12, <2>1, <2>2, LevelAndFile
<1>14. /\ merge'.at = "group" /\ merge'.fin = merge.fin /\ merge'.iPatches = S[0].fPatches
       /\ merge' \in [at : {"group"}, fin : {merge.fin}, iPatches : {merge'.iPatches}]
  <2>1. merge \in [at : {"no", "newmerge", "group", "terminated"}, fin : {"sort", "sub", "stage"},
                iPatches : {merge.iPatches}]
    BY <1>1 DEF SortTypes
  <2>2. QED
    BY <1>2, <1>3, <2>1
<1>15. SortTypes'
  BY <1>1, <1>2, <1>3, <1>5, <1>8, <1>13, <1>14 DEF SortTypes
<1>16. NestedIsSimple'
  BY <1>1, <1>2, <1>3, <1>4, <1>8, <1>13 DEF NestedIsSimple
<1>17. NotMergingLevel0' /\ BeforePass'
  BY <1>2, <1>3, <1>14 DEF NotMergingLevel0, BeforePass
<1>18. ListsFit'
  BY <1>2, <1>5, <1>14 DEF ListsFit
<1>19. InCycle'
  <2>1. OtherFile(merge'.fin) = f /\ files'[merge.fin] = files[merge.fin]
    BY <1>3, <1>4, <1>13, <1>14 DEF f
  <2>2. GroupAt(files'[merge'.fin], OldPosIn') /\ GroupAt(files'[f], OldPosOut')
    BY <1>1, <1>2, <1>3, <1>8, <1>14, <2>1 DEF BeforePass, GroupAt
  <2>3. Len(merge'.iPatches) = 1 => merge'.fin = "sort" /\ files'["stage"].data = <<>>
    <3>1. merge.fin = "stage" => Len(S[0].fPatches) >= 2
      BY <1>1, <1>2, <1>3 DEF BeforePass
    <3>2. QED
      BY <1>3, <1>4, <1>11, <1>13, <1>14, <3>1
  <2>4. Len(merge'.iPatches) >= 1
    BY <1>5, <1>14
  <2>5. QED
    BY <1>2, <1>3, <1>11, <1>13, <1>14, <2>1, <2>2, <2>3, <2>4 DEF InCycle
<1>20. QED
  BY <1>13, <1>15, <1>16, <1>17, <1>18, <1>19 DEF SortInv

\* A group is merged to the other file; the next one is that of the list before, which is
\* there, and after the first group the files change places.
LEMMA MergeGroupStep ==
  ASSUME SortInv, MergeGroup
  PROVE  SortInv'
<1> DEFINE f == OtherFile(merge.fin)
           p == PatchesOf(merge.fin, merge.iPatches)
           out == Merging(p).out
           less == Merging(p).less
           b == [S |-> S[sLevel], fout |-> files[f], OldPosOut |-> OldPosOut]
           c1 == StageSort(b)
           c == AddPatch(c1, out)
           s == [c.S EXCEPT !.TermsLeft = @ - less]
<1>1. /\ SortTypes /\ LevelsFit /\ FilesOK /\ NestedIsSimple /\ InCycle
  BY DEF SortInv
<1>2. /\ merge.at = "group" /\ S' = [S EXCEPT ![sLevel] = s] /\ OldPosOut' = c.OldPosOut
      /\ setting' = setting /\ sLevel' = sLevel /\ result' = result
  BY DEF MergeGroup
<1>3. \/ /\ GroupsLeft /\ merge' = [merge EXCEPT !.iPatches = NextGroup.patches]
         /\ OldPosIn' = NextGroup.before /\ files' = [files EXCEPT ![f] = c.fout]
      \/ /\ ~GroupsLeft /\ merge' = [merge EXCEPT !.at = "newmerge", !.fin = f, !.iPatches = <<>>]
         /\ OldPosIn' = OldPosIn /\ files' = [Close(merge.fin) EXCEPT ![f] = c.fout]
  BY DEF MergeGroup
<1>4. sLevel = 0 /\ merge.fin \in {"sort", "stage"}
  BY <1>2, WhatIsMerged
<1>5. /\ f \in {"sort", "stage"} /\ f # merge.fin /\ OtherFile(f) = merge.fin
      /\ (merge.fin = "sort" => f = "stage") /\ (merge.fin = "stage" => f = "sort")
  BY <1>4 DEF OtherFile
<1>6. /\ GroupAt(files[merge.fin], OldPosIn) /\ files[f].open /\ GroupAt(files[f], OldPosOut)
  BY <1>1, <1>2, <1>4 DEF InCycle
<1>7. ContextOK(b) /\ b.fout.open
  <2>1. /\ b \in [S : {b.S}, fout : {b.fout}, OldPosOut : Nat]
        /\ b.S = S[0] /\ b.fout = files[f] /\ b.OldPosOut = OldPosOut
    BY <1>1, <1>4 DEF SortTypes
  <2> HIDE DEF b
  <2>2. Fits(S[0]) /\ FileOK(files[f])
    BY <1>1, <1>5 DEF LevelsFit, Levels, FilesOK
  <2>3. QED
    BY <1>6, <2>1, <2>2 DEF ContextOK
<1> HIDE DEF b
<1>8. ContextOK(c1) /\ c1.fout.open /\ FileSpace(c1)
  BY <1>1, <1>7, StageFits
<1> HIDE DEF c1, out, less
<1>9. ContextOK(c) /\ c.fout.open /\ Len(c.S.fPatches) >= 2
  BY <1>1, <1>8, PatchFits
<1> HIDE DEF c
<1>10. /\ Fits(c.S) /\ FileOK(c.fout) /\ c.OldPosOut \in Nat
       /\ GroupAt(c.fout, c.OldPosOut)
       /\ c.S \in [sBuffer : {c.S.sBuffer}, Patches : {c.S.Patches},
             fPatches : {c.S.fPatches}, stage4 : BOOLEAN, TermsLeft : {c.S.TermsLeft}]
  BY <1>9 DEF ContextOK, Fits, FitsIn, IsLevel
<1>11. Fits(s)
  BY <1>1, <1>10, LevelChanges
<1>12. s.fPatches = c.S.fPatches
  BY <1>10
<1> HIDE DEF s, f
<1>13. /\ files = [h \in {"sort", "sub", "stage"} |-> files[h]]
       /\ merge \in [at : {"no", "newmerge", "group", "terminated"},
                     fin : {"sort", "sub", "stage"}, iPatches : {merge.iPatches}]
  BY <1>1 DEF SortTypes
<1>14. CASE GroupsLeft
  <2>1. /\ merge' = [merge EXCEPT !.iPatches = NextGroup.patches]
        /\ OldPosIn' = NextGroup.before /\ files' = [files EXCEPT ![f] = c.fout]
    BY <1>3, <1>14
  <2>2. /\ files \in [{"sort", "sub", "stage"} -> {files[h] : h \in {"sort", "sub", "stage"}}]
        /\ \A h \in {"sort", "sub", "stage"} : FileOK(files[h])
    BY <1>1, <1>13 DEF FilesOK
  <2>3. /\ LevelsFit' /\ FilesOK' /\ S'[1] = S[1]
        /\ DOMAIN S' = Levels /\ S' = [l \in Levels |-> S'[l]]
        /\ files' = [h \in {"sort", "sub", "stage"} |-> files'[h]]
        /\ files'[f] = c.fout
        /\ \A h \in {"sort", "sub", "stage"} : h # f => files'[h] = files[h]
    <3>1. S' = [S EXCEPT ![0] = s]
      BY <1>2, <1>4
    <3>2. QED
      BY <1>2, <1>5, <1>10, <1>11, <2>1, <2>2, <3>1, LevelAndFile
  <2>4. ListAt(files[merge.fin], OldPosIn)
    BY <1>6, <1>14 DEF GroupsLeft, GroupAt
  <2>5. /\ IsSeq(NextGroup.patches) /\ GroupAt(files[merge.fin], NextGroup.before)
        /\ Len(NextGroup.patches) >= 2 /\ Len(NextGroup.patches) <= setting.MaxFpatches + 1
    <3>1. FileOK(files[merge.fin])
      BY <1>1, <1>4 DEF FilesOK
    <3>2. QED
      BY <2>4, <3>1 DEF NextGroup, ListAt, FileOK, FileIn
  <2>6. NextGroup.before \in Nat
    BY <2>5 DEF GroupAt
  <2>7. /\ merge'.at = "group" /\ merge'.fin = merge.fin /\ merge'.iPatches = NextGroup.patches
        /\ merge' \in [at : {"group"}, fin : {merge.fin}, iPatches : {merge'.iPatches}]
    BY <1>2, <1>13, <2>1
  <2>8. SortTypes'
    BY <1>1, <1>2, <1>4, <1>10, <2>1, <2>3, <2>6, <2>7 DEF SortTypes
  <2>9. NestedIsSimple'
    BY <1>1, <1>2, <1>4, <1>5, <2>3 DEF NestedIsSimple
  <2>10. NotMergingLevel0' /\ BeforePass'
    BY <1>2, <1>4, <2>7 DEF NotMergingLevel0, BeforePass
  <2>11. ListsFit'
    BY <1>2, <2>5, <2>7 DEF ListsFit
  <2>12. InCycle'
    <3>1. OtherFile(merge'.fin) = f /\ files'[merge.fin] = files[merge.fin]
      BY <1>4, <1>5, <2>3, <2>7 DEF f
    <3>2. Len(merge'.iPatches) >= 1 /\ Len(merge'.iPatches) # 1
      <4>1. Len(NextGroup.patches) \in Nat
        BY <2>5, OneMore
      <4>2. Len(merge'.iPatches) = Len(NextGroup.patches)
        BY <2>7
      <4>3. Len(NextGroup.patches) >= 2
        BY <2>5
      <4>4. \A n \in Nat : n >= 2 => n >= 1 /\ n # 1
        OBVIOUS
      <4>5. QED
        BY <4>1, <4>2, <4>3, <4>4, Zenon
    <3>3. QED
      BY <1>2, <1>4, <1>9, <1>10, <2>1, <2>3, <2>5, <2>7, <3>1, <3>2 DEF InCycle
  <2>13. QED
    BY <2>3, <2>8, <2>9, <2>10, <2>11, <2>12 DEF SortInv
<1>15. CASE ~GroupsLeft
  <2> DEFINE F == Close(merge.fin)
  <2>1. /\ merge' = [merge EXCEPT !.at = "newmerge", !.fin = f, !.iPatches = <<>>]
        /\ OldPosIn' = OldPosIn /\ files' = [F EXCEPT ![f] = c.fout]
    BY <1>3, <1>15
  <2>2. /\ F = [h \in {"sort", "sub", "stage"} |-> IF h = merge.fin THEN NoFile ELSE files[h]]
    BY <1>4, <1>13 DEF Close
  <2> HIDE DEF F
  <2>3. /\ F \in [{"sort", "sub", "stage"} -> {F[h] : h \in {"sort", "sub", "stage"}}]
        /\ F[merge.fin] = NoFile /\ F["sub"] = files["sub"]
    BY <1>4, <2>2
  <2>4. \A h \in {"sort", "sub", "stage"} : FileOK(F[h])
    BY <1>1, <2>2, NewFilesFit DEF FilesOK
  <2>5. /\ LevelsFit' /\ FilesOK' /\ S'[0] = s /\ S'[1] = S[1]
        /\ DOMAIN S' = Levels /\ S' = [l \in Levels |-> S'[l]]
        /\ files' = [h \in {"sort", "sub", "stage"} |-> files'[h]]
        /\ files'[f] = c.fout
        /\ \A h \in {"sort", "sub", "stage"} : h # f => files'[h] = F[h]
    <3>1. S' = [S EXCEPT ![0] = s]
      BY <1>2, <1>4
    <3>2. QED
      BY <1>2, <1>5, <1>10, <1>11, <2>1, <2>3, <2>4, <3>1, LevelAndFile
  <2>6. /\ merge'.at = "newmerge" /\ merge'.fin = f /\ merge'.iPatches = <<>>
        /\ merge' \in [at : {"newmerge"}, fin : {f}, iPatches : {merge'.iPatches}]
    BY <1>13, <2>1
  <2>7. SortTypes'
    BY <1>1, <1>2, <1>4, <1>5, <1>10, <2>1, <2>5, <2>6 DEF SortTypes
  <2>8. /\ files'["sub"] = files["sub"] /\ files'[merge.fin] = NoFile
    BY <1>4, <1>5, <2>3, <2>5
  <2>9. NestedIsSimple'
    BY <1>1, <1>2, <1>4, <2>5, <2>8 DEF NestedIsSimple
  <2>10. NotMergingLevel0' /\ InCycle'
    BY <1>2, <1>4, <2>6 DEF NotMergingLevel0, InCycle
  <2>11. ListsFit'
    BY <1>1, <1>2, <2>6, ShortSeqs, MaximaAreNumbers DEF ListsFit
  <2>12. BeforePass'
    <3>1. S'[0].fPatches = c.S.fPatches
      BY <1>12, <2>5
    <3>2. QED
      BY <1>2, <1>4, <1>5, <1>9, <1>10, <2>5, <2>6, <2>8, <3>1, NewFilesFit DEF BeforePass
  <2>13. QED
    BY <2>5, <2>7, <2>9, <2>10, <2>11, <2>12 DEF SortInv
<1>16. QED
  BY <1>14, <1>15

LEMMA InitSortInv ==
  ASSUME InitSort
  PROVE  SortInv
<1>1. /\ setting \in Settings /\ sLevel = -1
      /\ S = [level \in Levels |-> EmptySort]
      /\ files = [f \in {"sort", "sub", "stage"} |-> NoFile]
      /\ OldPosOut = 0 /\ OldPosIn = 0 /\ merge = NotMerging
      /\ result = [level \in Levels |-> NotWritten]
  BY DEF InitSort
<1>2. SortTypes
  <2>1. SettingOK(setting)
    BY <1>1, SettingsAssumption
  <2>2. /\ DOMAIN S = Levels /\ S = [level \in Levels |-> S[level]]
        /\ files = [f \in {"sort", "sub", "stage"} |-> files[f]]
        /\ result = [level \in Levels |-> result[level]]
    BY <1>1
  <2>3. QED
    BY <1>1, <2>1, <2>2, NothingMerged DEF SortTypes
<1>3. Fits(EmptySort) /\ ~EmptySort.stage4
  <2>1. /\ EmptySort.Patches = <<>> /\ EmptySort.fPatches = <<0>> /\ ~EmptySort.stage4
        /\ EmptySort \in [sBuffer : {EmptySort.sBuffer}, Patches : {EmptySort.Patches},
             fPatches : {EmptySort.fPatches}, stage4 : BOOLEAN,
             TermsLeft : {EmptySort.TermsLeft}]
    BY DEF EmptySort
  <2>2. QED
    BY <1>2, <2>1, MaximaAreNumbers, ShortSeqs DEF Fits, FitsIn, IsLevel
<1>4. LevelsFit
  BY <1>1, <1>3 DEF LevelsFit
<1>5. \A f \in {"sort", "sub", "stage"} : files[f] = NoFile
  BY <1>1
<1>6. FilesOK
  BY <1>5, NewFilesFit DEF FilesOK
<1>7. NestedIsSimple
  BY <1>1, <1>3, <1>5, NewFilesFit DEF NestedIsSimple, Levels
<1>8. merge.at = "no" /\ merge.iPatches = <<>>
  BY <1>1, NothingMerged
<1>9. NotMergingLevel0 /\ BeforePass /\ InCycle
  BY <1>5, <1>8, NewFilesFit DEF NotMergingLevel0, BeforePass, InCycle
<1>10. ListsFit
  BY <1>2, <1>8, ShortSeqs, MaximaAreNumbers DEF ListsFit
<1>11. QED
  BY <1>2, <1>4, <1>6, <1>7, <1>9, <1>10 DEF SortInv

LEMMA SortStep ==
  ASSUME SortInv, [NextSort]_sortvars
  PROVE  SortInv'
<1>1. CASE NewSort
  BY <1>1, NewSortStep
<1>2. CASE \E term \in Terms : StoreTerm(term)
  BY <1>2, StoreTermStep
<1>3. CASE EndSort
  BY <1>3, EndFromSmallBufferStep, EndFromLargeBufferStep, EndFromFileStep DEF EndSort
<1>4. CASE MergePatches
  BY <1>4, LastPassStep, BeginCycleStep, MergeGroupStep, NoGroupStep DEF MergePatches
<1>5. CASE UNCHANGED sortvars
  <2>1. /\ setting' = setting /\ sLevel' = sLevel /\ S' = S /\ files' = files
        /\ OldPosOut' = OldPosOut /\ OldPosIn' = OldPosIn /\ merge' = merge
        /\ result' = result
    BY <1>5 DEF sortvars
  <2>2. /\ SortTypes /\ LevelsFit /\ FilesOK /\ NestedIsSimple /\ NotMergingLevel0
        /\ BeforePass /\ InCycle /\ ListsFit
    BY DEF SortInv
  <2>3. SortTypes' /\ ListsFit'
    BY <2>1, <2>2 DEF SortTypes, ListsFit
  <2>4. LevelsFit' /\ FilesOK'
    BY <2>1, <2>2 DEF LevelsFit, Fits, FilesOK, FileOK
  <2>5. NestedIsSimple' /\ NotMergingLevel0'
    BY <2>1, <2>2 DEF NestedIsSimple, NotMergingLevel0
  <2>6. BeforePass' /\ InCycle'
    BY <2>1, <2>2 DEF BeforePass, InCycle
  <2>7. QED
    BY <2>3, <2>4, <2>5, <2>6 DEF SortInv
<1>6. QED
  BY <1>1, <1>2, <1>3, <1>4, <1>5 DEF NextSort

\* The inductive invariant: every list in a file leads to the group before it, a nested sort
\* has one group, and of the two files that MergePatches changes between one holds
\* what is merged and the other what has been merged, or nothing.
THEOREM SortInvariant == SpecSort => []SortInv
<1>1. InitSort => SortInv
  BY InitSortInv
<1>2. SortInv /\ [NextSort]_sortvars => SortInv'
  BY SortStep
<1>3. QED
  BY <1>1, <1>2, PTL DEF SpecSort

\* The patches of a level never exceed the arrays of AllocSort, in whatever number of stages
\* and cycles.
THEOREM PatchesAlwaysFit == SpecSort => []PatchesFit
<1>1. SortInv => PatchesFit
  <2> SUFFICES ASSUME SortInv PROVE PatchesFit
    OBVIOUS
  <2>1. SortTypes /\ LevelsFit /\ ListsFit
    BY DEF SortInv
  <2>2. ASSUME NEW level \in Levels
        PROVE  /\ Len(S[level].Patches) <= setting.MaxPatches
               /\ fPatchN(S[level]) <= setting.MaxFpatches
    <3>1. /\ Len(S[level].Patches) <= setting.MaxPatches /\ IsSeq(S[level].fPatches)
          /\ Len(S[level].fPatches) <= setting.MaxFpatches + 1
      BY <2>1 DEF LevelsFit, Fits, FitsIn, IsLevel
    <3>2. Len(S[level].fPatches) \in Nat
      BY <3>1, OneMore
    <3>3. Len(S[level].fPatches) - 1 <= setting.MaxFpatches
      BY <2>1, <3>1, <3>2, MaximaAreNumbers
    <3>4. QED
      BY <3>1, <3>3 DEF fPatchN
  <2>3. QED
    BY <2>1, <2>2 DEF PatchesFit, ListsFit
<1>2. QED
  BY <1>1, SortInvariant, PTL

\* A sort closes its file and, but for an empty one, the stage file.
THEOREM FilesAreClosed == SpecSort => []FilesClosed
<1>1. SortInv => FilesClosed
  <2> SUFFICES ASSUME SortInv PROVE FilesClosed
    OBVIOUS
  <2>1. SortTypes /\ NestedIsSimple /\ NotMergingLevel0 /\ BeforePass /\ InCycle
    BY DEF SortInv
  <2>2. sLevel < 1 => ~files["sub"].open
    BY <2>1 DEF NestedIsSimple
  <2>3. ASSUME sLevel = -1 PROVE merge.at \in {"no", "terminated"}
    BY <2>1, <2>3 DEF SortTypes, BeforePass, InCycle
  <2>4. sLevel = -1 => ~files["sort"].open /\ files["stage"].data = <<>>
    BY <2>1, <2>3 DEF NotMergingLevel0
  <2>5. QED
    BY <2>2, <2>4 DEF FilesClosed
<1>2. QED
  BY <1>1, SortInvariant, PTL

(***************************************************************************)
(* What is sorted: the sums of the coefficients, and the number of terms.  *)
(***************************************************************************)

-----------------------------------------------------------------------------
(* Sums *)

IsSums(g, f, m) ==
  /\ g \in [0..m -> Int] /\ g[0] = 0
  /\ \A n \in 1..m : g[n] = g[n - 1] + f[n]

LEMMA SmallestNumber ==
  ASSUME NEW R \in SUBSET Nat, R # {}
  PROVE  \E i \in R : \A j \in R : i <= j
<1>1. IsWellFoundedOn(OpToRel(<, Nat), Nat)
  BY NatLessThanWellFounded
<1>2. \E x \in R : \A y \in R : <<y, x>> \notin OpToRel(<, Nat)
  BY <1>1, WFMin
<1>3. PICK x \in R : \A y \in R : ~(y < x)
  BY <1>2 DEF OpToRel
<1>4. QED
  BY <1>3

LEMMA SumsExist ==
  ASSUME NEW m \in Nat, NEW f \in [1..m -> Int], NEW n \in 0..m
  PROVE  \E g : IsSums(g, f, n)
<1> DEFINE R == {i \in Nat : i <= m /\ ~ \E g : IsSums(g, f, i)}
<1>0. n \in Nat /\ n <= m
  OBVIOUS
<1>1. SUFFICES ASSUME R # {} PROVE FALSE
  BY <1>0
<1>2. PICK i \in R : \A j \in R : i <= j
  BY <1>1, SmallestNumber
<1>3. CASE i = 0
  <2>1. IsSums([j \in 0..0 |-> 0], f, 0)
    BY DEF IsSums
  <2>2. QED
    BY <1>2, <1>3, <2>1
<1>4. CASE i # 0
  <2>1. i - 1 \in Nat /\ i - 1 <= m /\ ~(i <= i - 1) /\ i \in 1..m
    BY <1>2, <1>4
  <2>2. PICK g : IsSums(g, f, i - 1)
    BY <1>2, <2>1
  <2>3. /\ g \in [0..i - 1 -> Int] /\ g[0] = 0
        /\ \A j \in 1..i - 1 : g[j] = g[j - 1] + f[j]
    BY <2>2 DEF IsSums
  <2>4. f[i] \in Int /\ g[i - 1] \in Int
    BY <2>1, <2>3
  <2> DEFINE h == [j \in 0..i |-> IF j = i THEN g[i - 1] + f[i] ELSE g[j]]
  <2>5. IsSums(h, f, i)
    BY <2>1, <2>3, <2>4 DEF IsSums
  <2>6. QED
    BY <1>2, <2>5
<1>5. QED
  BY <1>3, <1>4

LEMMA SumsAre ==
  ASSUME NEW m \in Nat, NEW f \in [1..m -> Int]
  PROVE  IsSums(Sums(f), f, m)
<1> DEFINE e(g, n) == IF n = 0 THEN 0 ELSE g[n - 1] + f[n]
           IsIt(g) == g = [n \in 0..m |-> e(g, n)]
<1>1. Len(f) = m
  <2>1. f \in Seq(Int)
    BY SeqDef
  <2>2. QED
    BY <2>1, LenProperties
<1>2. PICK g : IsSums(g, f, m)
  BY SumsExist
<1>3. IsIt(g)
  BY <1>2 DEF IsSums
<1>4. Sums(f) = CHOOSE h : IsIt(h)
  BY <1>1 DEF Sums
<1>5. IsIt(Sums(f))
  BY <1>3, <1>4
<1> DEFINE s == Sums(f)
<1>6. /\ DOMAIN s = 0..m /\ s = [n \in 0..m |-> s[n]]
      /\ \A n \in 0..m : s[n] = e(s, n)
  <2> HIDE DEF e, s
  <2>1. s = [n \in 0..m |-> e(s, n)]
    BY <1>5 DEF s
  <2>2. QED
    BY <2>1
<1> HIDE DEF s
<1>7. s[0] = 0 /\ \A n \in 1..m : s[n] = s[n - 1] + f[n]
  <2>1. \A n \in 0..m : s[n] = IF n = 0 THEN 0 ELSE s[n - 1] + f[n]
    BY <1>6
  <2>2. 0 \in 0..m /\ \A n \in 1..m : n \in 0..m /\ n # 0
    OBVIOUS
  <2>3. QED
    BY <2>1, <2>2
<1>8. s = g
  <2> DEFINE R == {i \in Nat : i <= m /\ s[i] # g[i]}
  <2>1. /\ g \in [0..m -> Int] /\ g[0] = 0 /\ \A n \in 1..m : g[n] = g[n - 1] + f[n]
    BY <1>2 DEF IsSums
  <2>2. R = {}
    <3>1. SUFFICES ASSUME R # {} PROVE FALSE
      OBVIOUS
    <3>2. PICK i \in R : \A j \in R : i <= j
      BY <3>1, SmallestNumber
    <3>3. i # 0 /\ i \in 1..m /\ i - 1 \in Nat /\ i - 1 <= m /\ ~(i <= i - 1)
      BY <1>7, <2>1, <3>2
    <3>4. s[i - 1] = g[i - 1]
      BY <3>2, <3>3
    <3>5. QED
      BY <1>7, <2>1, <3>2, <3>3, <3>4
  <2>3. \A i \in 0..m : s[i] = g[i]
    BY <2>2
  <2>4. QED
    BY <1>6, <2>1, <2>3
<1>9. QED
  BY <1>2, <1>8 DEF s

\* The sums of a part of a sequence.
LEMMA SumsOfPart ==
  ASSUME NEW m \in Nat, NEW f \in [1..m -> Int], NEW r \in Nat, NEW g \in [1..r -> Int],
         NEW s \in Nat, s + r <= m, \A i \in 1..r : g[i] = f[s + i]
  PROVE  Sums(g)[r] = Sums(f)[s + r] - Sums(f)[s]
<1> DEFINE a == Sums(f)
           b == Sums(g)
           R == {i \in Nat : i <= r /\ b[i] # a[s + i] - a[s]}
<1>1. /\ a \in [0..m -> Int] /\ \A n \in 1..m : a[n] = a[n - 1] + f[n]
      /\ b \in [0..r -> Int] /\ b[0] = 0 /\ \A n \in 1..r : b[n] = b[n - 1] + g[n]
  BY SumsAre DEF IsSums
<1>2. SUFFICES b[r] = a[s + r] - a[s]
  OBVIOUS
<1> HIDE DEF a, b
<1>3. SUFFICES ASSUME R # {} PROVE FALSE
  <2>1. r \in Nat /\ r <= r
    OBVIOUS
  <2>2. QED
    BY <2>1
<1>4. PICK i \in R : \A j \in R : i <= j
  BY <1>3, SmallestNumber
<1>5. s \in 0..m /\ a[s] \in Int
  BY <1>1
<1>6. i # 0
  BY <1>1, <1>4, <1>5
<1>7. /\ i \in 1..r /\ i - 1 \in Nat /\ i - 1 <= r /\ ~(i <= i - 1)
      /\ s + i \in 1..m /\ s + i - 1 \in 0..m /\ s + (i - 1) = s + i - 1
  BY <1>4, <1>6
<1>8. b[i - 1] = a[s + i - 1] - a[s]
  BY <1>4, <1>7
<1>9. /\ b[i] = b[i - 1] + g[i] /\ a[s + i] = a[s + i - 1] + f[s + i] /\ g[i] = f[s + i]
  BY <1>1, <1>7
<1>10. a[s + i - 1] \in Int /\ f[s + i] \in Int
  BY <1>1, <1>7
<1>11. QED
  BY <1>4, <1>5, <1>8, <1>9, <1>10

\* One number more.
LEMMA OneMoreSummed ==
  ASSUME NEW m \in Nat, NEW f \in [1..m -> Int], NEW g \in [1..m + 1 -> Int],
         \A i \in 1..m : g[i] = f[i]
  PROVE  /\ Sums(g)[m + 1] = Sums(f)[m] + g[m + 1] /\ Sums(f)[m] \in Int
         /\ \A n \in 0..m : Sums(g)[n] = Sums(f)[n]
<1>1. m + 1 \in Nat
  OBVIOUS
<1>2. IsSums(Sums(f), f, m) /\ IsSums(Sums(g), g, m + 1)
  BY <1>1, SumsAre
<1>3. ASSUME NEW n \in 0..m PROVE Sums(g)[n] = Sums(f)[n]
  <2> DEFINE h == [i \in 1..n |-> f[i]]
  <2>1. /\ n \in Nat /\ h \in [1..n -> Int] /\ \A i \in 1..n : h[i] = f[0 + i] /\ h[i] = g[0 + i]
    OBVIOUS
  <2> HIDE DEF h
  <2>2. Sums(h)[n] = Sums(f)[0 + n] - Sums(f)[0] /\ Sums(h)[n] = Sums(g)[0 + n] - Sums(g)[0]
    <3>1. 0 \in Nat /\ 0 + n <= m /\ 0 + n <= m + 1
      OBVIOUS
    <3>2. QED
      BY <1>1, <2>1, <3>1, SumsOfPart
  <2>3. /\ Sums(f)[0] = 0 /\ Sums(g)[0] = 0 /\ Sums(f)[n] \in Int /\ Sums(g)[n] \in Int
        /\ 0 + n = n
    BY <1>2 DEF IsSums
  <2>4. QED
    BY <2>2, <2>3
<1>4. QED
  BY <1>2, <1>3 DEF IsSums

-----------------------------------------------------------------------------
(* Weights: the sum of a key, or (key -1) the number of terms *)

Measures == Nat \cup {-1}
TermWeight(k, t) == IF k = -1 THEN 1 ELSE IF t.key = k THEN t.coef ELSE 0
Weight(k, terms) == IF k = -1 THEN Len(terms) ELSE KeySum(terms, k)
PatchesWeight(k, p) == Sums([i \in DOMAIN p |-> Weight(k, p[i])])[Len(p)]

\* An entry of a file, and the entries before a position.
EntryWeight(k, e) == IF IsList(e) THEN 0 ELSE Weight(k, e.terms)
WeightBefore(k, f, n) == Sums([i \in 1..End(f) |-> EntryWeight(k, f.data[i])])[n]
FileWeight(k, f) == WeightBefore(k, f, End(f))

LEMMA MeasureFacts ==
  /\ \A k \in Nat : k # -1 /\ k \in Measures
  /\ -1 \in Measures /\ \A k \in Measures : k # -1 => k \in Nat
BY DEF Measures

LEMMA WeightOfTerms ==
  ASSUME NEW k \in Measures, NEW terms \in Seq(AnyTerm), NEW t \in AnyTerm
  PROVE  /\ Weight(k, terms) \in Int /\ TermWeight(k, t) \in Int
         /\ Weight(k, Append(terms, t)) = Weight(k, terms) + TermWeight(k, t)
<1> DEFINE n == Len(terms)
           a == Append(terms, t)
           w(x) == IF x.key = k THEN x.coef ELSE 0
           f == [i \in DOMAIN terms |-> w(terms[i])]
           g == [i \in DOMAIN a |-> w(a[i])]
<1>1. /\ n \in Nat /\ DOMAIN terms = 1..n /\ \A i \in 1..n : terms[i] \in AnyTerm
  BY LenProperties, ElementOfSeq
<1>2. /\ a \in Seq(AnyTerm) /\ Len(a) = n + 1 /\ DOMAIN a = 1..n + 1
      /\ \A i \in 1..n : a[i] = terms[i]
      /\ a[n + 1] = t
  BY AppendProperties, LenProperties
<1>3. TermWeight(k, t) \in Int
  BY DEF TermWeight, AnyTerm
<1>4. \A x \in AnyTerm : w(x) \in Int
  BY DEF AnyTerm
<1>5. \A i \in 1..n + 1 : a[i] \in AnyTerm
  BY <1>1, <1>2, ElementOfSeq
<1> HIDE DEF n, a, w
<1>6. f \in [1..n -> Int] /\ g \in [1..n + 1 -> Int]
  BY <1>1, <1>2, <1>4, <1>5
<1>7. \A i \in 1..n : g[i] = f[i]
  BY <1>1, <1>2
<1>8. g[n + 1] = w(t)
  BY <1>1, <1>2
<1> HIDE DEF f, g
<1>9. Sums(g)[n + 1] = Sums(f)[n] + w(t) /\ Sums(f)[n] \in Int
  BY <1>1, <1>6, <1>7, <1>8, OneMoreSummed
<1>10. CASE k = -1
  BY <1>1, <1>2, <1>3, <1>10 DEF Weight, TermWeight, n, a
<1>11. CASE k # -1
  <2>1. Weight(k, terms) = Sums(f)[n] /\ Weight(k, a) = Sums(g)[n + 1] /\ TermWeight(k, t) = w(t)
    BY <1>2, <1>11 DEF Weight, TermWeight, KeySum, f, g, w, n
  <2>2. QED
    BY <1>3, <1>9, <2>1 DEF a
<1>12. QED
  BY <1>10, <1>11

LEMMA NoWeight ==
  ASSUME NEW k \in Measures
  PROVE  Weight(k, <<>>) = 0 /\ PatchesWeight(k, <<>>) = 0 /\ WeightBefore(k, NewFile, 0) = 0
         /\ FileWeight(k, NewFile) = 0 /\ FileWeight(k, NoFile) = 0
<1>1. Len(<<>>) = 0 /\ DOMAIN <<>> = {} /\ 1..0 = {}
  BY EmptySeq
<1>2. ASSUME NEW f, DOMAIN f = {}, f = [x \in {} |-> f[x]] PROVE Sums(f)[0] = 0
  <2>1. f \in [1..0 -> Int]
    BY <1>1, <1>2
  <2>2. QED
    BY <2>1, SumsAre DEF IsSums
<1>3. \A e : DOMAIN [x \in {} |-> e[x]] = {}
  OBVIOUS
<1>4. KeySum(<<>>, k) = 0
  <2> DEFINE f == [i \in {} |-> IF <<>>[i].key = k THEN <<>>[i].coef ELSE 0]
  <2>1. DOMAIN f = {} /\ f = [x \in {} |-> f[x]]
    OBVIOUS
  <2>2. Sums(f)[0] = 0
    BY <1>2, <2>1
  <2>3. QED
    BY <1>1, <2>2 DEF KeySum
<1>5. PatchesWeight(k, <<>>) = 0
  <2> DEFINE f == [i \in {} |-> Weight(k, <<>>[i])]
  <2>1. DOMAIN f = {} /\ f = [x \in {} |-> f[x]]
    OBVIOUS
  <2>2. Sums(f)[0] = 0
    BY <1>2, <2>1
  <2>3. QED
    BY <1>1, <2>2 DEF PatchesWeight
<1>6. ASSUME NEW f, f.data = <<>> PROVE FileWeight(k, f) = 0 /\ WeightBefore(k, f, 0) = 0
  <2> DEFINE g == [i \in {} |-> EntryWeight(k, f.data[i])]
  <2>1. DOMAIN g = {} /\ g = [x \in {} |-> g[x]]
    OBVIOUS
  <2>2. Sums(g)[0] = 0
    BY <1>2, <2>1
  <2>3. End(f) = 0
    BY <1>1, <1>6 DEF End
  <2>4. QED
    BY <1>1, <2>2, <2>3 DEF FileWeight, WeightBefore
<1>7. QED
  BY <1>1, <1>4, <1>5, <1>6, NewFilesFit DEF Weight

LEMMA SortedAreTerms ==
  ASSUME NEW terms \in SortedTerms, NEW k \in Measures
  PROVE  terms \in Seq(AnyTerm) /\ Weight(k, terms) \in Int
<1>1. terms \in Seq(AnyTerm)
  BY DEF SortedTerms
<1>2. [key |-> 0, coef |-> 1] \in AnyTerm
  BY DEF AnyTerm
<1>3. QED
  BY <1>1, <1>2, WeightOfTerms

LEMMA WeightOfPatches ==
  ASSUME NEW k \in Measures, NEW p \in Seq(SortedTerms), NEW terms \in SortedTerms
  PROVE  /\ PatchesWeight(k, p) \in Int
         /\ PatchesWeight(k, Append(p, terms)) = PatchesWeight(k, p) + Weight(k, terms)
<1> DEFINE n == Len(p)
           a == Append(p, terms)
           f == [i \in DOMAIN p |-> Weight(k, p[i])]
           g == [i \in DOMAIN a |-> Weight(k, a[i])]
<1>1. /\ n \in Nat /\ DOMAIN p = 1..n /\ \A i \in 1..n : p[i] \in SortedTerms
  BY LenProperties, ElementOfSeq
<1>2. /\ a \in Seq(SortedTerms) /\ Len(a) = n + 1 /\ DOMAIN a = 1..n + 1
      /\ \A i \in 1..n : a[i] = p[i]
      /\ a[n + 1] = terms
  BY AppendProperties, LenProperties
<1>3. \A i \in 1..n + 1 : a[i] \in SortedTerms
  BY <1>2, ElementOfSeq
<1> HIDE DEF n, a
<1>4. f \in [1..n -> Int] /\ g \in [1..n + 1 -> Int]
  BY <1>1, <1>2, <1>3, SortedAreTerms
<1>5. \A i \in 1..n : g[i] = f[i]
  BY <1>1, <1>2
<1>6. g[n + 1] = Weight(k, terms)
  BY <1>1, <1>2
<1> HIDE DEF f, g
<1>7. Sums(g)[n + 1] = Sums(f)[n] + Weight(k, terms) /\ Sums(f)[n] \in Int
  BY <1>1, <1>4, <1>5, <1>6, OneMoreSummed
<1>8. PatchesWeight(k, p) = Sums(f)[n] /\ PatchesWeight(k, a) = Sums(g)[n + 1]
  BY <1>2 DEF PatchesWeight, f, g, n
<1>9. QED
  BY <1>7, <1>8 DEF a

\* The number of terms in patches, and what the algorithms promise, in weights.
LEMMA NumberIsWeight ==
  ASSUME NEW p PROVE NumberIn(p) = PatchesWeight(-1, p)
<1>1. [i \in DOMAIN p |-> Weight(-1, p[i])] = [i \in DOMAIN p |-> Len(p[i])]
  BY DEF Weight
<1>2. QED
  BY <1>1 DEF NumberIn, PatchesWeight

LEMMA KeysAreWeight ==
  ASSUME NEW key \in Nat
  PROVE  /\ \A terms : KeySum(terms, key) = Weight(key, terms)
         /\ \A p : Sums([i \in DOMAIN p |-> KeySum(p[i], key)])[Len(p)] = PatchesWeight(key, p)
<1>1. \A terms : KeySum(terms, key) = Weight(key, terms)
  BY MeasureFacts DEF Weight
<1>2. ASSUME NEW p
      PROVE  Sums([i \in DOMAIN p |-> KeySum(p[i], key)])[Len(p)] = PatchesWeight(key, p)
  <2>1. [i \in DOMAIN p |-> KeySum(p[i], key)] = [i \in DOMAIN p |-> Weight(key, p[i])]
    BY <1>1
  <2>2. QED
    BY <2>1 DEF PatchesWeight
<1>3. QED
  BY <1>1, <1>2

\* The count that changes with the number of terms, and is kept with the sum of a key.
Counted(k, n) == IF k = -1 THEN n ELSE 0

LEMMA SortingWeighs ==
  ASSUME AlgorithmsRight, NEW terms \in Seq(AnyTerm), NEW k \in Measures
  PROVE  LET out == Sorting(terms)
         IN /\ out \in SortedTerms /\ Len(out) <= Len(terms) /\ Len(out) \in Nat
            /\ Len(terms) \in Nat
            /\ Weight(k, out) - Counted(k, Len(out)) = Weight(k, terms) - Counted(k, Len(terms))
<1> DEFINE out == Sorting(terms)
<1>1. /\ out \in Seq(AnyTerm) /\ Sorted(out) /\ Len(out) <= Len(terms)
      /\ \A key \in Nat : KeySum(out, key) = KeySum(terms, key)
  BY DEF AlgorithmsRight, SortingIsRight
<1> HIDE DEF out
<1>2. out \in SortedTerms /\ Len(out) \in Nat /\ Len(terms) \in Nat
  BY <1>1, LenProperties DEF SortedTerms
<1>3. CASE k = -1
  BY <1>1, <1>2, <1>3 DEF Weight, Counted, out
<1>4. CASE k # -1
  <2>1. Weight(k, out) = Weight(k, terms)
    BY <1>1, <1>4, MeasureFacts, KeysAreWeight
  <2>2. QED
    BY <1>1, <1>2, <1>4, <2>1 DEF Counted, out
<1>5. QED
  BY <1>1, <1>2, <1>3, <1>4 DEF out

LEMMA MergingWeighs ==
  ASSUME AlgorithmsRight, NEW p \in Seq(SortedTerms), p # <<>>, NEW k \in Measures
  PROVE  LET m == Merging(p)
         IN /\ m.out \in SortedTerms /\ m.less \in Int
            /\ Weight(k, m.out) = PatchesWeight(k, p) - Counted(k, m.less)
            /\ Weight(k, m.out) \in Int /\ PatchesWeight(k, p) \in Int
<1> DEFINE out == Merging(p).out
           less == Merging(p).less
<1>1. /\ out \in Seq(AnyTerm) /\ Sorted(out) /\ less = NumberIn(p) - Len(out)
      /\ \A key \in Nat : KeySum(out, key) = Sums([i \in DOMAIN p |-> KeySum(p[i], key)])[Len(p)]
  BY DEF AlgorithmsRight, MergingIsRight
<1> HIDE DEF out, less
<1>2. out \in SortedTerms /\ Len(out) \in Nat
  BY <1>1, LenProperties DEF SortedTerms
<1>3. \A i \in Measures : Weight(i, out) \in Int /\ PatchesWeight(i, p) \in Int
  BY <1>2, SortedAreTerms, WeightOfPatches
<1>4. less = PatchesWeight(-1, p) - Len(out)
  BY <1>1, NumberIsWeight
<1>5. less \in Int
  BY <1>2, <1>3, <1>4, MeasureFacts
<1>6. CASE k = -1
  BY <1>2, <1>3, <1>4, <1>5, <1>6, MeasureFacts DEF Weight, Counted, out, less
<1>7. CASE k # -1
  <2>1. k \in Nat
    BY <1>7, MeasureFacts
  <2>2. Weight(k, out) = PatchesWeight(k, p)
    BY <1>1, <2>1, KeysAreWeight
  <2>3. QED
    BY <1>2, <1>3, <1>5, <1>7, <2>2 DEF Counted, out, less
<1>8. QED
  BY <1>2, <1>3, <1>5, <1>6, <1>7 DEF out, less

-----------------------------------------------------------------------------
(* What is in a file *)

\* The group with these patches, that begins behind the list at position before, or at the
\* beginning of the file (before = 0), and ends at position e.
Start(before) == IF before = 0 THEN 0 ELSE before + 1
GroupOf(f, patches, before, e) ==
  /\ before \in Nat /\ e \in Nat /\ e <= End(f)
  /\ IsSeq(patches) /\ Len(patches) >= 1 /\ Start(before) + Len(patches) = e + 1
  /\ \A i \in 1..Len(patches) : patches[i] = Start(before) + i - 1
  /\ \A i \in Start(before) + 1..e : ~IsList(f.data[i])
  /\ before # 0 => IsList(f.data[before + 1])

\* The patches are sorted, and each list is that of the group that ends there.
Contents(f) == \A i \in 1..End(f) :
  IF IsList(f.data[i]) THEN GroupOf(f, f.data[i].patches, f.data[i].before, i - 1)
  ELSE f.data[i].terms \in SortedTerms

LEMMA EntriesWeigh ==
  ASSUME NEW f, FileOK(f), Contents(f), NEW k \in Measures
  PROVE  LET w == [i \in 1..End(f) |-> EntryWeight(k, f.data[i])]
         IN /\ End(f) \in Nat /\ w \in [1..End(f) -> Int]
            /\ IsSums(Sums(w), w, End(f))
            /\ \A n \in 0..End(f) : WeightBefore(k, f, n) = Sums(w)[n]
            /\ \A n \in 0..End(f) : WeightBefore(k, f, n) \in Int
            /\ FileWeight(k, f) \in Int
<1> DEFINE w == [i \in 1..End(f) |-> EntryWeight(k, f.data[i])]
<1>1. IsSeq(f.data)
  BY DEF FileOK, FileIn, IsFile
<1>2. End(f) \in Nat
  BY <1>1, OneMore DEF End
<1>3. ASSUME NEW i \in 1..End(f) PROVE EntryWeight(k, f.data[i]) \in Int
  BY SortedAreTerms DEF Contents, EntryWeight
<1>4. w \in [1..End(f) -> Int]
  BY <1>3
<1> HIDE DEF w
<1>5. IsSums(Sums(w), w, End(f))
  BY <1>2, <1>4, SumsAre
<1>6. \A n \in 0..End(f) : WeightBefore(k, f, n) = Sums(w)[n]
  BY DEF WeightBefore, w
<1>7. \A n \in 0..End(f) : WeightBefore(k, f, n) \in Int
  BY <1>5, <1>6 DEF IsSums
<1>8. FileWeight(k, f) \in Int
  BY <1>2, <1>7 DEF FileWeight
<1>9. QED
  BY <1>2, <1>4, <1>5, <1>6, <1>7, <1>8 DEF w

\* An entry is put at the end.
LEMMA PutWeighs ==
  ASSUME NEW f, FileOK(f), f.open, Contents(f), NEW e, EntryFits(f, e),
         IF IsList(e) THEN GroupOf(f, e.patches, e.before, End(f)) ELSE e.terms \in SortedTerms
  PROVE  LET g == Put(f, e)
         IN /\ FileOK(g) /\ g.open /\ Contents(g)
            /\ End(f) \in Nat /\ End(g) = End(f) + 1 /\ g.data[End(f) + 1] = e
            /\ \A i \in 1..End(f) : g.data[i] = f.data[i]
            /\ \A p, b, x : GroupOf(f, p, b, x) => GroupOf(g, p, b, x)
            /\ \A k \in Measures : /\ FileWeight(k, g) = FileWeight(k, f) + EntryWeight(k, e)
                                   /\ EntryWeight(k, e) \in Int /\ FileWeight(k, f) \in Int
<1> DEFINE g == Put(f, e)
           n == End(f)
<1>1. /\ f \in [open : BOOLEAN, data : {f.data}] /\ IsSeq(f.data)
  BY DEF FileOK, FileIn, IsFile
<1>2. /\ FileOK(g) /\ g.open /\ n \in Nat
      /\ Len(g.data) = n + 1 /\ g.data[n + 1] = e
  BY PutFits
<1>3. \A i \in 1..n : g.data[i] = f.data[i]
  <2>1. g.data = Append(f.data, e)
    BY <1>1 DEF Put
  <2>2. QED
    BY <1>1, <2>1, OneMore DEF End
<1> HIDE DEF g
<1>4. End(g) = n + 1
  BY <1>2 DEF End
<1>5. ASSUME NEW p, NEW b, NEW x, GroupOf(f, p, b, x) PROVE GroupOf(g, p, b, x)
  <2>1. /\ b \in Nat /\ x \in Nat /\ x <= n
        /\ IsSeq(p) /\ Len(p) >= 1 /\ Start(b) + Len(p) = x + 1
        /\ \A i \in 1..Len(p) : p[i] = Start(b) + i - 1
        /\ \A i \in Start(b) + 1..x : ~IsList(f.data[i])
        /\ b # 0 => IsList(f.data[b + 1])
    BY <1>5 DEF GroupOf
  <2>2. Start(b) \in Nat /\ Len(p) \in Nat
    BY <2>1, OneMore DEF Start
  <2>3. x <= End(g)
    BY <1>2, <1>4, <2>1
  <2>4. \A i \in Start(b) + 1..x : ~IsList(g.data[i])
    BY <1>2, <1>3, <2>1, <2>2
  <2>5. b # 0 => IsList(g.data[b + 1])
    <3>1. b # 0 => b + 1 \in 1..n
      BY <1>2, <2>1, <2>2 DEF Start
    <3>2. QED
      BY <1>3, <2>1, <3>1
  <2>6. QED
    BY <2>1, <2>3, <2>4, <2>5 DEF GroupOf
<1>6. Contents(g)
  <2>1. ASSUME NEW i \in 1..n + 1
        PROVE  IF IsList(g.data[i]) THEN GroupOf(g, g.data[i].patches, g.data[i].before, i - 1)
               ELSE g.data[i].terms \in SortedTerms
    <3>1. CASE i = n + 1
      <4>1. i - 1 = n /\ g.data[i] = e
        BY <1>2, <3>1
      <4>2. QED
        BY <1>5, <4>1
    <3>2. CASE i # n + 1
      <4>1. i \in 1..n /\ g.data[i] = f.data[i]
        BY <1>2, <1>3, <3>2
      <4>2. QED
        BY <1>5, <4>1 DEF Contents
    <3>3. QED
      BY <3>1, <3>2
  <2>2. QED
    BY <1>4, <2>1 DEF Contents
<1>7. ASSUME NEW k \in Measures
      PROVE  /\ FileWeight(k, g) = FileWeight(k, f) + EntryWeight(k, e)
             /\ EntryWeight(k, e) \in Int /\ FileWeight(k, f) \in Int
  <2> DEFINE a == [i \in 1..n |-> EntryWeight(k, f.data[i])]
             b == [i \in 1..n + 1 |-> EntryWeight(k, g.data[i])]
  <2>1. /\ a \in [1..n -> Int] /\ FileWeight(k, f) = Sums(a)[n]
    BY <1>2, EntriesWeigh DEF FileWeight
  <2>2. b \in [1..n + 1 -> Int] /\ FileWeight(k, g) = Sums(b)[n + 1]
    <3>1. n + 1 \in 0..n + 1
      BY <1>2
    <3>2. /\ [i \in 1..End(g) |-> EntryWeight(k, g.data[i])] = b
      BY <1>4
    <3>3. QED
      BY <1>2, <1>4, <1>6, <3>1, <3>2, EntriesWeigh DEF FileWeight
  <2>3. \A i \in 1..n : b[i] = a[i]
    BY <1>2, <1>3
  <2>4. b[n + 1] = EntryWeight(k, e)
    BY <1>2
  <2>5. EntryWeight(k, e) \in Int
    BY SortedAreTerms DEF EntryWeight
  <2> HIDE DEF a, b, n
  <2>6. Sums(b)[n + 1] = Sums(a)[n] + b[n + 1] /\ Sums(a)[n] \in Int
    BY <1>2, <2>1, <2>2, <2>3, OneMoreSummed
  <2>7. QED
    BY <2>1, <2>2, <2>4, <2>5, <2>6
<1>8. QED
  BY <1>2, <1>3, <1>4, <1>5, <1>6, <1>7 DEF g

\* The patches of a group, and what they weigh: what is in the file before its end, but not
\* before its list.
PatchesIn(f, patches) == [i \in 1..Len(patches) - 1 |-> f.data[patches[i] + 1].terms]

LEMMA GroupWeighs ==
  ASSUME NEW f, FileOK(f), Contents(f), NEW patches, NEW before, NEW e,
         GroupOf(f, patches, before, e)
  PROVE  LET p == PatchesIn(f, patches)
         IN /\ p \in Seq(SortedTerms) /\ Len(p) = Len(patches) - 1 /\ Len(patches) \in Nat
            /\ Len(patches) >= 1
            /\ \A k \in Measures :
                 /\ PatchesWeight(k, p) = WeightBefore(k, f, e) - WeightBefore(k, f, before)
                 /\ WeightBefore(k, f, e) \in Int /\ WeightBefore(k, f, before) \in Int
                 /\ WeightBefore(k, f, 0) = 0
<1> DEFINE p == PatchesIn(f, patches)
           s == Start(before)
           r == Len(patches) - 1
<1>1. /\ before \in Nat /\ e \in Nat /\ e <= End(f)
      /\ IsSeq(patches) /\ Len(patches) >= 1 /\ s + Len(patches) = e + 1
      /\ \A i \in 1..Len(patches) : patches[i] = s + i - 1
      /\ \A i \in s + 1..e : ~IsList(f.data[i])
      /\ before # 0 => IsList(f.data[before + 1])
  BY DEF GroupOf
<1>2. Len(patches) \in Nat
  BY <1>1, OneMore
<1>3. /\ s \in Nat /\ (before # 0 => s = before + 1) /\ (before = 0 => s = 0)
  BY <1>1 DEF Start
<1> HIDE DEF s
<1>4. r \in Nat /\ s + r = e
  BY <1>1, <1>2, <1>3
<1>5. End(f) \in Nat
  BY <1>1, OneMore DEF FileOK, FileIn, IsFile, End
<1>6. ASSUME NEW i \in 1..r
      PROVE  /\ p[i] = f.data[s + i].terms /\ p[i] \in SortedTerms /\ ~IsList(f.data[s + i])
             /\ s + i \in 1..End(f)
  <2>1. i \in 1..Len(patches) /\ s + i \in s + 1..e /\ s + i \in 1..End(f) /\ s + i - 1 + 1 = s + i
    BY <1>1, <1>2, <1>3, <1>4, <1>5
  <2>2. patches[i] = s + i - 1 /\ ~IsList(f.data[s + i])
    BY <1>1, <2>1
  <2>3. p[i] = f.data[patches[i] + 1].terms
    BY DEF PatchesIn
  <2>4. QED
    BY <2>1, <2>2, <2>3 DEF Contents
<1>7. p \in [1..r -> SortedTerms]
  <2>1. p = [i \in 1..r |-> f.data[patches[i] + 1].terms]
    BY DEF PatchesIn
  <2>2. QED
    BY <1>6, <2>1
<1> HIDE DEF p, r
<1>8. p \in Seq(SortedTerms)
  BY <1>4, <1>7, SeqDef
<1>9. Len(p) = r /\ DOMAIN p = 1..r
  <2>1. DOMAIN p = 1..r /\ DOMAIN p = 1..Len(p) /\ Len(p) \in Nat
    BY <1>7, <1>8, LenProperties
  <2>2. QED
    BY <1>4, <1>7, <1>8, LenProperties
<1>10. ASSUME NEW k \in Measures
       PROVE  /\ PatchesWeight(k, p) = WeightBefore(k, f, e) - WeightBefore(k, f, before)
              /\ WeightBefore(k, f, e) \in Int /\ WeightBefore(k, f, before) \in Int
              /\ WeightBefore(k, f, 0) = 0
  <2> DEFINE w == [i \in 1..End(f) |-> EntryWeight(k, f.data[i])]
             g == [i \in 1..r |-> Weight(k, p[i])]
  <2>1. /\ w \in [1..End(f) -> Int]
        /\ IsSums(Sums(w), w, End(f))
        /\ \A n \in 0..End(f) : WeightBefore(k, f, n) = Sums(w)[n] /\ WeightBefore(k, f, n) \in Int
    BY EntriesWeigh
  <2>2. g \in [1..r -> Int]
    BY <1>6, SortedAreTerms
  <2>3. \A i \in 1..r : g[i] = w[s + i]
    BY <1>6 DEF EntryWeight
  <2>4. PatchesWeight(k, p) = Sums(g)[r]
    BY <1>9 DEF PatchesWeight
  <2>5. before # 0 => before + 1 \in 1..End(f) /\ w[before + 1] = 0
    BY <1>1, <1>3, <1>4, <1>5 DEF EntryWeight
  <2> HIDE DEF w, g
  <2>6. Sums(g)[r] = Sums(w)[s + r] - Sums(w)[s]
    <3>1. s + r <= End(f)
      BY <1>1, <1>4
    <3>2. QED
      BY <1>3, <1>4, <1>5, <2>1, <2>2, <2>3, <3>1, SumsOfPart
  <2>7. /\ Sums(w)[0] = 0 /\ \A n \in 1..End(f) : Sums(w)[n] = Sums(w)[n - 1] + w[n]
    BY <2>1 DEF IsSums
  <2>8. s \in 0..End(f) /\ before \in 0..End(f) /\ e \in 0..End(f) /\ 0 \in 0..End(f)
    BY <1>1, <1>3, <1>4, <1>5
  <2>9. Sums(w)[s] = Sums(w)[before]
    <3>1. CASE before = 0
      BY <1>3, <3>1
    <3>2. CASE before # 0
      <4>1. Sums(w)[before + 1] = Sums(w)[before + 1 - 1] + w[before + 1] /\ s = before + 1
            /\ before + 1 - 1 = before /\ w[before + 1] = 0
        BY <1>1, <1>3, <2>5, <2>7, <3>2
      <4>2. Sums(w)[before] \in Int
        BY <2>1, <2>8
      <4>3. QED
        BY <4>1, <4>2
    <3>3. QED
      BY <3>1, <3>2
  <2>10. QED
    BY <1>4, <2>1, <2>4, <2>6, <2>7, <2>8, <2>9
<1>11. QED
  BY <1>1, <1>2, <1>8, <1>9, <1>10 DEF p, r

-----------------------------------------------------------------------------
(* What a call holds, and what that weighs *)

LevelHolds(s) ==
  /\ s.sBuffer \in Seq(AnyTerm) /\ s.Patches \in Seq(SortedTerms) /\ s.TermsLeft \in Int

\* The group that is being written; the first one when there was no stage 4.
OpenGroup(c) ==
  /\ GroupOf(c.fout, c.S.fPatches, c.OldPosOut, End(c.fout))
  /\ ~c.S.stage4 => c.OldPosOut = 0

Holds(c) ==
  /\ ContextOK(c) /\ LevelHolds(c.S) /\ Contents(c.fout)
  /\ c.fout.open => OpenGroup(c)

\* What is stored is what the buffers and the file weigh, less the count TermsLeft.
LevelWeight(k, s) ==
  Weight(k, s.sBuffer) + PatchesWeight(k, s.Patches) - Counted(k, s.TermsLeft)
Balance(k, c) == LevelWeight(k, c.S) + FileWeight(k, c.fout)

LEMMA NoTermsAreTerms == <<>> \in Seq(AnyTerm) /\ <<>> \in SortedTerms /\ <<>> \in Seq(SortedTerms)
<1>1. <<>> \in Seq(AnyTerm) /\ <<>> \in Seq(SortedTerms) /\ Len(<<>>) = 0
  BY EmptySeq
<1>2. Sorted(<<>>)
  BY <1>1 DEF Sorted
<1>3. QED
  BY <1>1, <1>2 DEF SortedTerms

LEMMA WeightsAreNumbers ==
  ASSUME NEW k \in Measures
  PROVE  /\ \A s : LevelHolds(s) =>
              /\ Weight(k, s.sBuffer) \in Int /\ PatchesWeight(k, s.Patches) \in Int
              /\ Counted(k, s.TermsLeft) \in Int /\ LevelWeight(k, s) \in Int
         /\ \A c : Holds(c) => /\ LevelWeight(k, c.S) \in Int /\ FileWeight(k, c.fout) \in Int
                               /\ Balance(k, c) \in Int
<1>1. [key |-> 0, coef |-> 1] \in AnyTerm
  BY DEF AnyTerm
<1>2. ASSUME NEW s, LevelHolds(s)
      PROVE  /\ Weight(k, s.sBuffer) \in Int /\ PatchesWeight(k, s.Patches) \in Int
             /\ Counted(k, s.TermsLeft) \in Int /\ LevelWeight(k, s) \in Int
  <2>1. Weight(k, s.sBuffer) \in Int
    BY <1>1, <1>2, WeightOfTerms DEF LevelHolds
  <2>2. PatchesWeight(k, s.Patches) \in Int
    BY <1>2, WeightOfPatches, NoTermsAreTerms DEF LevelHolds
  <2>3. Counted(k, s.TermsLeft) \in Int
    BY <1>2 DEF LevelHolds, Counted
  <2>4. QED
    BY <2>1, <2>2, <2>3 DEF LevelWeight
<1>3. ASSUME NEW c, Holds(c)
      PROVE  LevelWeight(k, c.S) \in Int /\ FileWeight(k, c.fout) \in Int /\ Balance(k, c) \in Int
  <2>1. FileWeight(k, c.fout) \in Int
    BY <1>3, EntriesWeigh DEF Holds, ContextOK
  <2>2. LevelWeight(k, c.S) \in Int
    BY <1>2, <1>3 DEF Holds
  <2>3. QED
    BY <2>1, <2>2 DEF Balance
<1>4. QED
  BY <1>2, <1>3

\* The records of a context.
LEMMA ContextFields ==
  ASSUME NEW c, ContextOK(c)
  PROVE  /\ c \in [S : {c.S}, fout : {c.fout}, OldPosOut : Nat]
         /\ c.S \in [sBuffer : {c.S.sBuffer}, Patches : {c.S.Patches},
              fPatches : {c.S.fPatches}, stage4 : BOOLEAN, TermsLeft : {c.S.TermsLeft}]
         /\ Fits(c.S) /\ FileOK(c.fout) /\ IsSeq(c.S.fPatches)
         /\ IsFile(c.fout) /\ (~c.fout.open => c.fout.data = <<>>)
BY DEF ContextOK, Fits, FitsIn, IsLevel, FileOK, FileIn, IsFile

\* The file stays as it is.
LEMMA LevelOnly ==
  ASSUME NEW c, Holds(c), NEW d, ContextOK(d), LevelHolds(d.S), d.fout = c.fout,
         d.OldPosOut = c.OldPosOut, d.S.fPatches = c.S.fPatches, d.S.stage4 = c.S.stage4
  PROVE  /\ Holds(d)
         /\ \A k \in Measures : Balance(k, d) - LevelWeight(k, d.S) = Balance(k, c) - LevelWeight(k, c.S)
<1>1. Holds(d)
  BY DEF Holds, OpenGroup
<1>2. ASSUME NEW k \in Measures
      PROVE  Balance(k, d) - LevelWeight(k, d.S) = Balance(k, c) - LevelWeight(k, c.S)
  <2>1. /\ LevelWeight(k, c.S) \in Int /\ FileWeight(k, c.fout) \in Int
        /\ LevelWeight(k, d.S) \in Int
    BY <1>1, WeightsAreNumbers
  <2>2. QED
    BY <2>1 DEF Balance
<1>3. QED
  BY <1>1, <1>2

LEMMA BufferWeighs ==
  ASSUME AlgorithmsRight, SortTypes, NEW c, Holds(c)
  PROVE  LET d == SmallBufferSorted(c)
         IN /\ Holds(d) /\ d.S.sBuffer \in SortedTerms
            /\ Len(d.S.sBuffer) <= Len(c.S.sBuffer) /\ Len(d.S.sBuffer) \in Nat
            /\ Len(c.S.sBuffer) \in Nat
            /\ d.S.Patches = c.S.Patches /\ d.fout = c.fout /\ d.OldPosOut = c.OldPosOut
            /\ \A k \in Measures : Balance(k, d) = Balance(k, c)
<1> DEFINE d == SmallBufferSorted(c)
           b == c.S.sBuffer
           ss == Sorting(b)
<1>1. ContextOK(c) /\ LevelHolds(c.S)
  BY DEF Holds
<1>2. /\ ContextOK(d) /\ d.fout = c.fout /\ d.OldPosOut = c.OldPosOut
      /\ d.S.Patches = c.S.Patches /\ d.S.fPatches = c.S.fPatches
      /\ d.S.stage4 = c.S.stage4 /\ d.S.sBuffer = ss
  BY <1>1, BufferKept
<1>3. d.S.TermsLeft = c.S.TermsLeft - (Len(b) - Len(ss))
  <2> DEFINE n == c.S.TermsLeft - (Len(b) - Len(ss))
             s == [c.S EXCEPT !.sBuffer = ss, !.TermsLeft = n]
  <2>1. d = [c EXCEPT !.S = s]
    BY <1>1, ContextFields DEF SmallBufferSorted
  <2>2. s.TermsLeft = n
    BY <1>1, ContextFields
  <2> HIDE DEF s, d
  <2>3. d.S = s
    BY <1>1, <2>1, ContextFields
  <2>4. QED
    BY <2>2, <2>3
<1> HIDE DEF d
<1>4. b \in Seq(AnyTerm) /\ c.S.TermsLeft \in Int
  BY <1>1 DEF LevelHolds
<1>5. /\ ss \in SortedTerms /\ Len(ss) <= Len(b) /\ Len(ss) \in Nat /\ Len(b) \in Nat
  BY <1>4, SortingWeighs, MeasureFacts
<1>6. LevelHolds(d.S)
  <2>1. c.S.TermsLeft - (Len(b) - Len(ss)) \in Int
    <3> DEFINE m == Len(b)
               n == Len(ss)
    <3>1. m \in Nat /\ n \in Nat /\ c.S.TermsLeft \in Int
      BY <1>4, <1>5
    <3> HIDE DEF m, n
    <3>2. c.S.TermsLeft - (m - n) \in Int
      BY <3>1
    <3>3. QED
      BY <3>2 DEF m, n
  <2>2. d.S.TermsLeft \in Int
    BY <1>3, <2>1
  <2>3. ss \in Seq(AnyTerm) /\ c.S.Patches \in Seq(SortedTerms)
    BY <1>1, <1>5 DEF LevelHolds, SortedTerms
  <2>4. QED
    BY <1>2, <2>2, <2>3 DEF LevelHolds
<1>7. Holds(d)
  BY <1>2, <1>6, LevelOnly
<1>8. ASSUME NEW k \in Measures PROVE Balance(k, d) = Balance(k, c)
  <2>1. Weight(k, ss) - Counted(k, Len(ss)) = Weight(k, b) - Counted(k, Len(b))
    BY <1>4, SortingWeighs
  <2>2. /\ Weight(k, b) \in Int /\ PatchesWeight(k, c.S.Patches) \in Int /\ Weight(k, ss) \in Int
    BY <1>1, <1>2, <1>6, WeightsAreNumbers
  <2>3. LevelWeight(k, d.S) = LevelWeight(k, c.S)
    <3>1. CASE k = -1
      <4>1. Weight(k, ss) - Len(ss) = Weight(k, b) - Len(b)
        BY <2>1, <3>1 DEF Counted
      <4>2. /\ LevelWeight(k, d.S) = Weight(k, ss) + PatchesWeight(k, c.S.Patches)
                 - (c.S.TermsLeft - (Len(b) - Len(ss)))
            /\ LevelWeight(k, c.S) = Weight(k, b) + PatchesWeight(k, c.S.Patches)
                 - c.S.TermsLeft
        BY <1>2, <1>3, <3>1 DEF LevelWeight, Counted
      <4> HIDE DEF b, ss
      <4>3. QED
        BY <1>4, <1>5, <2>2, <4>1, <4>2
    <3>2. CASE k # -1
      <4>1. Weight(k, ss) - 0 = Weight(k, b) - 0
        BY <2>1, <3>2 DEF Counted
      <4>2. Weight(k, ss) = Weight(k, b)
        BY <2>2, <4>1
      <4>3. QED
        BY <1>2, <3>2, <4>2 DEF LevelWeight, Counted
    <3>3. QED
      BY <3>1, <3>2
  <2>4. QED
    BY <1>2, <2>3 DEF Balance
<1>9. QED
  BY <1>2, <1>5, <1>7, <1>8 DEF d

LEMMA AddWeighs ==
  ASSUME SortTypes, NEW c, Holds(c), c.S.sBuffer \in SortedTerms, BufferSpace(c)
  PROVE  LET d == AddToLargeBuffer(c)
         IN /\ Holds(d) /\ d.S.sBuffer = <<>> /\ d.S.Patches # <<>>
            /\ d.S.Patches = Append(c.S.Patches, c.S.sBuffer)
            /\ d.fout = c.fout /\ d.OldPosOut = c.OldPosOut
            /\ \A k \in Measures : Balance(k, d) = Balance(k, c)
<1> DEFINE d == AddToLargeBuffer(c)
           b == c.S.sBuffer
<1>1. ContextOK(c) /\ LevelHolds(c.S)
  BY DEF Holds
<1>2. /\ ContextOK(d) /\ d.fout = c.fout /\ d.OldPosOut = c.OldPosOut
      /\ d.S.fPatches = c.S.fPatches /\ d.S.stage4 = c.S.stage4
  BY <1>1, AddFits
<1>3. /\ d.S.sBuffer = <<>> /\ d.S.Patches = Append(c.S.Patches, b)
      /\ d.S.TermsLeft = c.S.TermsLeft
  BY <1>1, ContextFields DEF AddToLargeBuffer
<1>4. c.S.Patches \in Seq(SortedTerms) /\ c.S.TermsLeft \in Int
  BY <1>1 DEF LevelHolds
<1>5. d.S.Patches \in Seq(SortedTerms) /\ Len(d.S.Patches) = Len(c.S.Patches) + 1
      /\ Len(c.S.Patches) \in Nat
  BY <1>3, <1>4, AppendProperties, LenProperties
<1>6. LevelHolds(d.S)
  BY <1>3, <1>4, <1>5, NoTermsAreTerms DEF LevelHolds
<1>7. d.S.Patches # <<>>
  BY <1>5, ShortSeqs
<1> HIDE DEF d
<1>8. Holds(d)
  BY <1>2, <1>6, LevelOnly
<1>9. ASSUME NEW k \in Measures PROVE Balance(k, d) = Balance(k, c)
  <2>1. PatchesWeight(k, d.S.Patches) = PatchesWeight(k, c.S.Patches) + Weight(k, b)
    BY <1>3, <1>4, WeightOfPatches
  <2>2. /\ Weight(k, b) \in Int /\ PatchesWeight(k, c.S.Patches) \in Int
        /\ Counted(k, c.S.TermsLeft) \in Int
    BY <1>1, WeightsAreNumbers
  <2>3. Weight(k, d.S.sBuffer) = 0
    BY <1>3, NoWeight
  <2>4. LevelWeight(k, d.S) = LevelWeight(k, c.S)
    BY <1>3, <2>1, <2>2, <2>3 DEF LevelWeight
  <2>5. QED
    BY <1>2, <2>4 DEF Balance
<1>10. QED
  BY <1>2, <1>3, <1>7, <1>8, <1>9 DEF d

LEMMA EmptyWeighs ==
  ASSUME SortTypes, NEW c, Holds(c)
  PROVE  LET d == EmptyLargeBuffer(c)
         IN /\ Holds(d) /\ BufferSpace(d) /\ d.S.Patches = <<>> /\ d.S.sBuffer = c.S.sBuffer
            /\ d.fout = c.fout /\ d.OldPosOut = c.OldPosOut
            /\ d.S.fPatches = c.S.fPatches /\ d.S.stage4 = c.S.stage4
            /\ \A k \in Measures :
                 Balance(k, d) = Balance(k, c) - PatchesWeight(k, c.S.Patches)
<1> DEFINE d == EmptyLargeBuffer(c)
<1>1. ContextOK(c) /\ LevelHolds(c.S)
  BY DEF Holds
<1>2. /\ ContextOK(d) /\ d.fout = c.fout /\ d.OldPosOut = c.OldPosOut /\ BufferSpace(d)
      /\ d.S.fPatches = c.S.fPatches /\ d.S.stage4 = c.S.stage4
  BY <1>1, EmptyFits
<1>3. /\ d.S.sBuffer = c.S.sBuffer /\ d.S.Patches = <<>> /\ d.S.TermsLeft = c.S.TermsLeft
  BY <1>1, ContextFields DEF EmptyLargeBuffer
<1>4. LevelHolds(d.S)
  BY <1>1, <1>3, NoTermsAreTerms DEF LevelHolds
<1> HIDE DEF d
<1>5. Holds(d)
  BY <1>2, <1>4, LevelOnly
<1>6. ASSUME NEW k \in Measures
      PROVE  Balance(k, d) = Balance(k, c) - PatchesWeight(k, c.S.Patches)
  <2>1. /\ Weight(k, c.S.sBuffer) \in Int /\ PatchesWeight(k, c.S.Patches) \in Int
        /\ Counted(k, c.S.TermsLeft) \in Int /\ FileWeight(k, c.fout) \in Int
    BY <1>1, WeightsAreNumbers
  <2>2. PatchesWeight(k, d.S.Patches) = 0
    BY <1>3, NoWeight
  <2>3. LevelWeight(k, d.S) = LevelWeight(k, c.S) - PatchesWeight(k, c.S.Patches)
    BY <1>3, <2>1, <2>2 DEF LevelWeight
  <2>4. LevelWeight(k, c.S) \in Int
    BY <1>1, WeightsAreNumbers
  <2>5. QED
    BY <1>2, <2>1, <2>3, <2>4 DEF Balance
<1>7. QED
  BY <1>2, <1>3, <1>5, <1>6 DEF d

\* A new file holds nothing, whatever was in the one before.
LEMMA MadeWeighs ==
  ASSUME SortTypes, NEW c, ContextOK(c), LevelHolds(c.S)
  PROVE  LET d == FileMake(c)
         IN /\ Holds(d) /\ d.fout = NewFile /\ d.fout.open /\ FileSpace(d) /\ d.OldPosOut = 0
            /\ d.S = [c.S EXCEPT !.fPatches = <<0>>]
            /\ d.S.sBuffer = c.S.sBuffer /\ d.S.Patches = c.S.Patches
            /\ d.S.TermsLeft = c.S.TermsLeft /\ d.S.stage4 = c.S.stage4
            /\ \A k \in Measures : Balance(k, d) = LevelWeight(k, c.S)
<1> DEFINE d == FileMake(c)
<1>1. /\ ContextOK(d) /\ d.fout = NewFile /\ d.fout.open /\ d.OldPosOut = 0
      /\ d.S = [c.S EXCEPT !.fPatches = <<0>>]
      /\ d.S.Patches = c.S.Patches /\ d.S.stage4 = c.S.stage4 /\ FileSpace(d)
  BY MadeFits
<1> HIDE DEF d
<1>2. /\ d.S.sBuffer = c.S.sBuffer /\ d.S.TermsLeft = c.S.TermsLeft /\ d.S.fPatches = <<0>>
  BY <1>1, ContextFields
<1>3. LevelHolds(d.S)
  BY <1>1, <1>2 DEF LevelHolds
<1>4. End(d.fout) = 0 /\ 1..0 = {}
  BY <1>1, NewFilesFit, ShortSeqs DEF End
<1>5. Contents(d.fout)
  BY <1>4 DEF Contents
<1>6. GroupOf(d.fout, d.S.fPatches, d.OldPosOut, End(d.fout))
  <2>1. IsSeq(<<0>>) /\ Len(<<0>>) = 1 /\ <<0>>[1] = 0
    BY ShortSeqs
  <2>2. Start(0) = 0 /\ \A i \in 1..1 : i = 1
    BY DEF Start
  <2>3. QED
    BY <1>1, <1>2, <1>4, <2>1, <2>2 DEF GroupOf
<1>7. Holds(d)
  BY <1>1, <1>3, <1>5, <1>6 DEF Holds, OpenGroup
<1>8. ASSUME NEW k \in Measures PROVE Balance(k, d) = LevelWeight(k, c.S)
  <2>1. LevelWeight(k, d.S) = LevelWeight(k, c.S) /\ LevelWeight(k, c.S) \in Int
    BY <1>1, <1>2, WeightsAreNumbers DEF LevelWeight
  <2>2. FileWeight(k, d.fout) = 0
    BY <1>1, NoWeight
  <2>3. QED
    BY <2>1, <2>2 DEF Balance
<1>9. QED
  BY <1>1, <1>2, <1>7, <1>8 DEF d

\* A stage writes the list of the open group, which weighs nothing, and begins the next one.
LEMMA StageWeighs ==
  ASSUME SortTypes, NEW c, Holds(c), c.fout.open
  PROVE  LET d == StageSort(c)
         IN /\ Holds(d) /\ d.fout.open /\ FileSpace(d)
            /\ d.S.sBuffer = c.S.sBuffer /\ d.S.Patches = c.S.Patches
            /\ d.S.TermsLeft = c.S.TermsLeft
            /\ d = c \/ d.S.stage4
            /\ \A k \in Measures : Balance(k, d) = Balance(k, c)
<1> DEFINE d == StageSort(c)
           e == [patches |-> c.S.fPatches, before |-> c.OldPosOut]
           n == End(c.fout)
           g == Put(c.fout, e)
           s == [c.S EXCEPT !.fPatches = <<n + 1>>, !.stage4 = TRUE]
<1>1. ContextOK(c) /\ LevelHolds(c.S) /\ Contents(c.fout) /\ OpenGroup(c)
  BY DEF Holds
<1>2. ContextOK(d) /\ d.fout.open /\ FileSpace(d) /\ (~GroupIsFull(c.S) => d = c)
  BY <1>1, StageFits
<1>3. CASE ~GroupIsFull(c.S)
  BY <1>2, <1>3
<1>4. CASE GroupIsFull(c.S)
  <2>1. d.S = s /\ d.fout = g /\ d.OldPosOut = n
    BY <1>1, <1>4, ContextFields DEF StageSort
  <2>2. /\ s.fPatches = <<n + 1>> /\ s.stage4 /\ s.sBuffer = c.S.sBuffer
        /\ s.Patches = c.S.Patches /\ s.TermsLeft = c.S.TermsLeft
    BY <1>1, ContextFields
  <2>3. e.patches = c.S.fPatches /\ e.before = c.OldPosOut /\ IsList(e)
    BY DEF IsList
  <2> HIDE DEF d, e, n, g, s
  <2>4. /\ GroupOf(c.fout, e.patches, e.before, n) /\ GroupAt(c.fout, e.before)
        /\ IsSeq(e.patches) /\ Len(e.patches) \in Nat /\ Len(e.patches) >= 3
        /\ Len(e.patches) <= setting.MaxFpatches + 1 /\ FileOK(c.fout)
    <3>1. IsSeq(c.S.fPatches) /\ Fits(c.S) /\ FileOK(c.fout)
      BY <1>1, ContextFields
    <3>2. Len(c.S.fPatches) \in Nat /\ Len(c.S.fPatches) <= setting.MaxFpatches + 1
      BY <3>1, OneMore DEF Fits, FitsIn
    <3>3. Len(c.S.fPatches) >= 3
      BY <1>4, <3>2, MaximaAreNumbers DEF GroupIsFull, fPatchN
    <3>4. GroupAt(c.fout, c.OldPosOut)
      BY <1>1 DEF ContextOK
    <3>5. QED
      BY <1>1, <2>3, <3>1, <3>2, <3>3, <3>4 DEF OpenGroup, n
  <2>5. EntryFits(c.fout, e)
    BY <2>4 DEF EntryFits
  <2>6. /\ FileOK(g) /\ g.open /\ Contents(g) /\ n \in Nat /\ End(g) = n + 1 /\ g.data[n + 1] = e
        /\ \A k \in Measures : /\ FileWeight(k, g) = FileWeight(k, c.fout) + EntryWeight(k, e)
                               /\ EntryWeight(k, e) \in Int /\ FileWeight(k, c.fout) \in Int
    BY <1>1, <2>3, <2>4, <2>5, PutWeighs DEF g, n
  <2>7. n # 0
    BY <2>4 DEF GroupOf, Start
  <2>8. GroupOf(g, <<n + 1>>, n, n + 1)
    <3>1. Start(n) = n + 1 /\ (n + 1) + 1..n + 1 = {}
      BY <2>6, <2>7 DEF Start
    <3>2. IsSeq(<<n + 1>>) /\ Len(<<n + 1>>) = 1 /\ <<n + 1>>[1] = n + 1
      BY ShortSeqs
    <3>3. \A i \in 1..1 : <<n + 1>>[i] = n + 1 + i - 1
      <4>1. \A i \in 1..1 : i = 1
        OBVIOUS
      <4>2. n + 1 + 1 - 1 = n + 1
        BY <2>6
      <4>3. QED
        BY <3>2, <4>1, <4>2
    <3>4. n \in Nat /\ n + 1 \in Nat /\ n + 1 <= End(g) /\ n + 1 + 1 = (n + 1) + 1
      BY <2>6
    <3>5. QED
      BY <2>3, <2>6, <3>1, <3>2, <3>3, <3>4 DEF GroupOf
  <2>9. Holds(d)
    <3>1. LevelHolds(d.S)
      BY <1>1, <2>1, <2>2 DEF LevelHolds
    <3>2. OpenGroup(d)
      BY <2>1, <2>2, <2>6, <2>8 DEF OpenGroup
    <3>3. QED
      BY <1>2, <2>1, <2>6, <3>1, <3>2 DEF Holds, d
  <2>10. ASSUME NEW k \in Measures PROVE Balance(k, d) = Balance(k, c)
    <3>1. LevelWeight(k, d.S) = LevelWeight(k, c.S)
      BY <2>1, <2>2 DEF LevelWeight
    <3>2. FileWeight(k, g) = FileWeight(k, c.fout)
      <4>1. EntryWeight(k, e) = 0
        BY <2>3 DEF EntryWeight
      <4>2. QED
        BY <2>6, <4>1
    <3>3. QED
      BY <2>1, <3>1, <3>2 DEF Balance
  <2>11. QED
    BY <1>2, <2>1, <2>2, <2>9, <2>10 DEF d
<1>5. QED
  BY <1>3, <1>4

\* A patch is added to the open group.
LEMMA PatchWeighs ==
  ASSUME SortTypes, NEW c, Holds(c), c.fout.open, FileSpace(c), NEW terms \in SortedTerms
  PROVE  LET d == AddPatch(c, terms)
         IN /\ Holds(d) /\ d.fout.open /\ Len(d.S.fPatches) >= 2
            /\ d.S.sBuffer = c.S.sBuffer /\ d.S.Patches = c.S.Patches
            /\ d.S.TermsLeft = c.S.TermsLeft /\ d.S.stage4 = c.S.stage4
            /\ \A k \in Measures : Balance(k, d) = Balance(k, c) + Weight(k, terms)
<1> DEFINE e == [terms |-> terms]
           n == End(c.fout)
           q == Append(c.S.fPatches, n + 1)
           g == Put(c.fout, e)
           s == [c.S EXCEPT !.fPatches = q]
           d == AddPatch(c, terms)
<1>1. ContextOK(c) /\ LevelHolds(c.S) /\ Contents(c.fout) /\ OpenGroup(c)
  BY DEF Holds
<1>2. /\ ContextOK(d) /\ d.fout.open /\ d.OldPosOut = c.OldPosOut
      /\ d.S.Patches = c.S.Patches /\ d.S.stage4 = c.S.stage4
      /\ Len(d.S.fPatches) >= 2
  BY <1>1, PatchFits
<1>3. d.S = s /\ d.fout = g
  BY <1>1, ContextFields DEF AddPatch
<1>4. s.fPatches = q /\ s.sBuffer = c.S.sBuffer /\ s.TermsLeft = c.S.TermsLeft
  BY <1>1, ContextFields
<1>5. e.terms = terms /\ ~IsList(e)
  BY DEF IsList
<1> HIDE DEF d, e, g, s
<1>6. /\ FileOK(g) /\ g.open /\ Contents(g) /\ n \in Nat /\ End(g) = n + 1 /\ g.data[n + 1] = e
      /\ \A i \in 1..n : g.data[i] = c.fout.data[i]
      /\ \A k \in Measures : /\ FileWeight(k, g) = FileWeight(k, c.fout) + EntryWeight(k, e)
                             /\ EntryWeight(k, e) \in Int /\ FileWeight(k, c.fout) \in Int
  <2>1. EntryFits(c.fout, e) /\ FileOK(c.fout)
    BY <1>1, <1>5, ContextFields DEF EntryFits
  <2>2. QED
    BY <1>1, <1>5, <2>1, PutWeighs DEF g
<1> HIDE DEF n, q
<1>7. GroupOf(g, q, c.OldPosOut, n + 1)
  <2> DEFINE b == c.OldPosOut
             p == c.S.fPatches
  <2>1. /\ b \in Nat /\ IsSeq(p) /\ Len(p) >= 1 /\ Start(b) + Len(p) = n + 1
        /\ \A i \in 1..Len(p) : p[i] = Start(b) + i - 1
        /\ \A i \in Start(b) + 1..n : ~IsList(c.fout.data[i])
        /\ b # 0 => IsList(c.fout.data[b + 1])
    BY <1>1 DEF OpenGroup, GroupOf, n
  <2>2. /\ IsSeq(q) /\ Len(p) \in Nat /\ Len(q) = Len(p) + 1
        /\ \A i \in 1..Len(p) : q[i] = p[i]
        /\ q[Len(p) + 1] = n + 1
    BY <2>1, OneMore DEF q
  <2> HIDE DEF b, p
  <2>3. Start(b) \in Nat
    BY <2>1 DEF Start
  <2>4. ASSUME NEW i \in 1..Len(q) PROVE q[i] = Start(b) + i - 1
    <3>1. CASE i = Len(p) + 1
      BY <1>6, <2>1, <2>2, <2>3, <3>1
    <3>2. CASE i # Len(p) + 1
      <4>1. i \in 1..Len(p)
        BY <2>2, <3>2
      <4>2. QED
        BY <2>1, <2>2, <4>1
    <3>3. QED
      BY <3>1, <3>2
  <2>5. ASSUME NEW i \in Start(b) + 1..n + 1 PROVE ~IsList(g.data[i])
    <3>1. CASE i = n + 1
      BY <1>5, <1>6, <3>1
    <3>2. CASE i # n + 1
      <4>1. i \in Start(b) + 1..n /\ i \in 1..n
        BY <1>6, <2>3, <3>2
      <4>2. QED
        BY <1>6, <2>1, <4>1
    <3>3. QED
      BY <3>1, <3>2
  <2>6. b # 0 => IsList(g.data[b + 1])
    <3>1. b # 0 => b + 1 \in 1..n
      BY <1>6, <2>1, <2>2 DEF Start
    <3>2. QED
      BY <1>6, <2>1, <3>1
  <2>7. n + 1 \in Nat /\ n + 1 <= End(g) /\ Len(q) >= 1 /\ Start(b) + Len(q) = n + 1 + 1
    BY <1>6, <2>1, <2>2, <2>3
  <2>8. GroupOf(g, q, b, n + 1)
    BY <2>1, <2>2, <2>4, <2>5, <2>6, <2>7 DEF GroupOf
  <2>9. QED
    BY <2>8 DEF b
<1>8. Holds(d)
  <2>1. LevelHolds(d.S)
    BY <1>1, <1>2, <1>3, <1>4 DEF LevelHolds
  <2>2. OpenGroup(d)
    BY <1>1, <1>2, <1>3, <1>4, <1>6, <1>7 DEF OpenGroup
  <2>3. QED
    BY <1>2, <1>3, <1>6, <2>1, <2>2 DEF Holds
<1>9. ASSUME NEW k \in Measures PROVE Balance(k, d) = Balance(k, c) + Weight(k, terms)
  <2>1. LevelWeight(k, d.S) = LevelWeight(k, c.S)
    BY <1>2, <1>3, <1>4 DEF LevelWeight
  <2>2. EntryWeight(k, e) = Weight(k, terms)
    BY <1>5 DEF EntryWeight
  <2>3. /\ FileWeight(k, d.fout) = FileWeight(k, c.fout) + Weight(k, terms)
        /\ FileWeight(k, c.fout) \in Int /\ Weight(k, terms) \in Int
    BY <1>3, <1>6, <2>2
  <2>4. LevelWeight(k, c.S) \in Int
    BY <1>1, WeightsAreNumbers
  <2>5. QED
    BY <2>1, <2>3, <2>4 DEF Balance
<1>10. QED
  BY <1>2, <1>3, <1>4, <1>8, <1>9 DEF d

LEMMA ToSortFileWeighs ==
  ASSUME SortTypes, NEW c, Holds(c)
  PROVE  LET d == ToSortFile(c)
         IN /\ Holds(d) /\ d.fout.open
            /\ d.S.sBuffer = c.S.sBuffer /\ d.S.Patches = c.S.Patches
            /\ d.S.TermsLeft = c.S.TermsLeft
            /\ \A k \in Measures : Balance(k, d) = Balance(k, c)
<1>1. ContextOK(c) /\ LevelHolds(c.S)
  BY DEF Holds
<1>2. CASE c.fout.open
  BY <1>2 DEF ToSortFile
<1>3. CASE ~c.fout.open
  <2> DEFINE d == FileMake(c)
  <2>1. /\ Holds(d) /\ d.fout.open
        /\ d.S.sBuffer = c.S.sBuffer /\ d.S.Patches = c.S.Patches
        /\ d.S.TermsLeft = c.S.TermsLeft
        /\ \A k \in Measures : Balance(k, d) = LevelWeight(k, c.S)
    BY <1>1, MadeWeighs
  <2>2. ASSUME NEW k \in Measures PROVE Balance(k, c) = LevelWeight(k, c.S)
    <3>1. c.fout.data = NoFile.data
      BY <1>1, <1>3, ContextFields, NewFilesFit
    <3>2. FileWeight(k, c.fout) = FileWeight(k, NoFile)
      BY <3>1 DEF FileWeight, WeightBefore, End
    <3>3. FileWeight(k, c.fout) = 0 /\ LevelWeight(k, c.S) \in Int
      BY <1>1, <3>2, NoWeight, WeightsAreNumbers
    <3>4. QED
      BY <3>3 DEF Balance
  <2> HIDE DEF d
  <2>3. ToSortFile(c) = d
    BY <1>3 DEF ToSortFile, d
  <2>4. QED
    BY <2>1, <2>2, <2>3
<1>4. QED
  BY <1>2, <1>3

\* Patches are merged to a patch of the file, which may begin a group.
LEMMA MergedPatch ==
  ASSUME AlgorithmsRight, SortTypes, NEW c, Holds(c), c.fout.open,
         NEW p \in Seq(SortedTerms), p # <<>>
  PROVE  LET m == Merging(p)
             a == AddPatch(StageSort(c), m.out)
             s == [a.S EXCEPT !.TermsLeft = @ - m.less]
             d == [a EXCEPT !.S.TermsLeft = @ - m.less]
         IN /\ Holds(d) /\ d.S = s /\ d.fout = a.fout /\ d.OldPosOut = a.OldPosOut
            /\ d.fout.open /\ Len(d.S.fPatches) >= 2
            /\ d.S.sBuffer = c.S.sBuffer /\ d.S.Patches = c.S.Patches
            /\ \A k \in Measures : Balance(k, d) = Balance(k, c) + PatchesWeight(k, p)
<1> DEFINE out == Merging(p).out
           less == Merging(p).less
           b == StageSort(c)
           a == AddPatch(b, out)
           s == [a.S EXCEPT !.TermsLeft = @ - less]
           d == [a EXCEPT !.S.TermsLeft = @ - less]
<1>1. out \in SortedTerms /\ less \in Int
  BY MergingWeighs, MeasureFacts
<1>2. ASSUME NEW k \in Measures
      PROVE  /\ Weight(k, out) = PatchesWeight(k, p) - Counted(k, less)
             /\ Weight(k, out) \in Int /\ PatchesWeight(k, p) \in Int
  BY MergingWeighs
<1>3. /\ Holds(b) /\ b.fout.open /\ FileSpace(b) /\ b.S.sBuffer = c.S.sBuffer
      /\ b.S.Patches = c.S.Patches
      /\ \A k \in Measures : Balance(k, b) = Balance(k, c)
  BY StageWeighs
<1> HIDE DEF b, out, less
<1>4. /\ Holds(a) /\ a.fout.open /\ Len(a.S.fPatches) >= 2 /\ a.S.sBuffer = c.S.sBuffer
      /\ a.S.Patches = c.S.Patches
      /\ \A k \in Measures : Balance(k, a) = Balance(k, c) + Weight(k, out)
  BY <1>1, <1>3, PatchWeighs
<1> HIDE DEF a
<1>5. ContextOK(a) /\ LevelHolds(a.S) /\ Fits(a.S)
  BY <1>4, ContextFields DEF Holds
<1>6. d = [a EXCEPT !.S = s]
  BY <1>5, ContextFields
<1>7. /\ s.sBuffer = a.S.sBuffer /\ s.Patches = a.S.Patches /\ s.fPatches = a.S.fPatches
      /\ s.stage4 = a.S.stage4 /\ s.TermsLeft = a.S.TermsLeft - less
  BY <1>5, ContextFields
<1>8. Fits(s)
  BY <1>5, LevelChanges
<1> HIDE DEF s, d
<1>9. ContextOK(d) /\ d.S = s /\ d.fout = a.fout /\ d.OldPosOut = a.OldPosOut
  BY <1>5, <1>6, <1>8, NewLevel
<1>10. LevelHolds(d.S)
  BY <1>1, <1>5, <1>7, <1>9 DEF LevelHolds
<1>11. /\ Holds(d)
       /\ \A k \in Measures : Balance(k, d) - LevelWeight(k, d.S) = Balance(k, a) - LevelWeight(k, a.S)
  BY <1>4, <1>7, <1>9, <1>10, LevelOnly
<1>12. ASSUME NEW k \in Measures PROVE Balance(k, d) = Balance(k, c) + PatchesWeight(k, p)
  <2> DEFINE x == Balance(k, d)
             j == LevelWeight(k, d.S)
             y == Balance(k, a)
             i == LevelWeight(k, a.S)
             z == Balance(k, c)
             l == Counted(k, less)
             q == PatchesWeight(k, p)
  <2>1. /\ x \in Int /\ j \in Int /\ y \in Int /\ i \in Int /\ z \in Int
        /\ Weight(k, a.S.sBuffer) \in Int /\ PatchesWeight(k, a.S.Patches) \in Int
        /\ Counted(k, a.S.TermsLeft) \in Int
    BY <1>4, <1>5, <1>11, WeightsAreNumbers
  <2>2. l \in Int /\ Counted(k, d.S.TermsLeft) = Counted(k, a.S.TermsLeft) - l
    BY <1>1, <1>7, <1>9 DEF Counted
  <2>3. j = i + l
    BY <1>7, <1>9, <2>1, <2>2 DEF LevelWeight
  <2>4. y = z + (q - l) /\ q \in Int /\ x - j = y - i
    BY <1>2, <1>4, <1>11
  <2>5. /\ x \in Int /\ j \in Int /\ y \in Int /\ i \in Int /\ z \in Int /\ l \in Int /\ q \in Int
        /\ x - j = y - i /\ j = i + l /\ y = z + (q - l)
    BY <2>1, <2>2, <2>3, <2>4
  <2>6. x = z + q
    <3> HIDE DEF x, j, y, i, z, l, q
    <3>1. QED
      BY <2>5
  <2>7. QED
    BY <2>6
<1>13. QED
  BY <1>4, <1>7, <1>9, <1>11, <1>12 DEF d, s, a, b, out, less

\* The large buffer is written and emptied.
LEMMA WriteWeighs ==
  ASSUME AlgorithmsRight, SortTypes, NEW c, Holds(c), c.S.Patches # <<>>
  PROVE  LET d == EmptyLargeBuffer(WriteLargeBuffer(c))
         IN /\ Holds(d) /\ d.fout.open /\ BufferSpace(d) /\ Len(d.S.fPatches) >= 2
            /\ d.S.sBuffer = c.S.sBuffer /\ d.S.Patches = <<>>
            /\ \A k \in Measures : Balance(k, d) = Balance(k, c)
<1> DEFINE p == c.S.Patches
           m == Merging(p)
           c1 == ToSortFile(c)
           w == WriteLargeBuffer(c)
           d == EmptyLargeBuffer(w)
<1>1. p \in Seq(SortedTerms)
  BY DEF Holds, LevelHolds
<1>2. /\ Holds(c1) /\ c1.fout.open /\ c1.S.sBuffer = c.S.sBuffer /\ c1.S.Patches = p
      /\ \A k \in Measures : Balance(k, c1) = Balance(k, c)
  BY ToSortFileWeighs
<1>3. w = [AddPatch(StageSort(c1), m.out) EXCEPT !.S.TermsLeft = @ - m.less]
  BY DEF WriteLargeBuffer
<1> HIDE DEF c1, w, p
<1>4. p # <<>>
  BY DEF p
<1>5. /\ Holds(w) /\ w.fout.open /\ Len(w.S.fPatches) >= 2
      /\ w.S.sBuffer = c.S.sBuffer /\ w.S.Patches = p
      /\ \A k \in Measures : Balance(k, w) = Balance(k, c1) + PatchesWeight(k, p)
  BY <1>1, <1>2, <1>3, <1>4, MergedPatch
<1>6. /\ Holds(d) /\ BufferSpace(d) /\ d.S.Patches = <<>> /\ d.S.sBuffer = w.S.sBuffer
      /\ d.fout = w.fout /\ d.S.fPatches = w.S.fPatches
      /\ \A k \in Measures : Balance(k, d) = Balance(k, w) - PatchesWeight(k, w.S.Patches)
  BY <1>5, EmptyWeighs
<1> HIDE DEF d
<1>7. ASSUME NEW k \in Measures PROVE Balance(k, d) = Balance(k, c)
  <2>1. Balance(k, c) \in Int /\ PatchesWeight(k, w.S.Patches) \in Int
    BY <1>5, WeightsAreNumbers DEF Holds
  <2>2. Balance(k, d) = (Balance(k, c) + PatchesWeight(k, w.S.Patches)) - PatchesWeight(k, w.S.Patches)
    BY <1>2, <1>5, <1>6
  <2>3. QED
    BY <2>1, <2>2
<1>8. QED
  BY <1>5, <1>6, <1>7 DEF d, w

\* An empty large buffer has room for the terms of the small buffer.
LEMMA RoomWhenEmpty ==
  ASSUME SortTypes, NEW n \in Nat, n <= setting.TermsInSmall
  PROVE  ~LargeBufferFull(<<>>, n)
<1>1. Len(<<>>) = 0 /\ setting.MaxPatches >= 1 /\ setting.MaxPatches \in Nat
  BY ShortSeqs, MaximaAreNumbers
<1>2. /\ setting.TermsInSmall \in Nat /\ setting.LargeTerms \in Nat
      /\ setting.LargeTerms >= setting.TermsInSmall
  BY DEF SortTypes, SettingOK
<1>3. NumberIn(<<>>) = 0
  BY NumberIsWeight, NoWeight, MeasureFacts
<1>4. QED
  BY <1>1, <1>2, <1>3 DEF LargeBufferFull

\* Room is made for a term in the small buffer.
LEMMA RoomWeighs ==
  ASSUME AlgorithmsRight, SortTypes, NEW c, Holds(c), Len(c.S.sBuffer) <= setting.TermsInSmall
  PROVE  LET d == MakeRoom(c)
         IN /\ Holds(d) /\ d.S.sBuffer = <<>>
            /\ d.fout.open \/ (d.fout = c.fout /\ d.OldPosOut = c.OldPosOut)
            /\ \A k \in Measures : Balance(k, d) = Balance(k, c)
<1> DEFINE c1 == SmallBufferSorted(c)
           full == LargeBufferFull(c.S.Patches, Len(c1.S.sBuffer))
           c2 == EmptyLargeBuffer(WriteLargeBuffer(c1))
           roomy == IF full THEN c2 ELSE c1
           d == MakeRoom(c)
<1>1. /\ Holds(c1) /\ c1.S.sBuffer \in SortedTerms
      /\ Len(c1.S.sBuffer) <= Len(c.S.sBuffer) /\ Len(c1.S.sBuffer) \in Nat
      /\ Len(c.S.sBuffer) \in Nat
      /\ c1.S.Patches = c.S.Patches /\ c1.fout = c.fout /\ c1.OldPosOut = c.OldPosOut
      /\ \A k \in Measures : Balance(k, c1) = Balance(k, c)
  BY BufferWeighs
<1>2. d = AddToLargeBuffer(roomy)
  BY DEF MakeRoom
<1> HIDE DEF c1, d
<1>3. CASE full
  <2>1. c1.S.Patches # <<>>
    <3>1. Len(c1.S.sBuffer) <= setting.TermsInSmall
      BY <1>1 DEF SortTypes, SettingOK
    <3>2. QED
      BY <1>1, <1>3, <3>1, RoomWhenEmpty
  <2>2. /\ Holds(c2) /\ c2.fout.open /\ BufferSpace(c2) /\ c2.S.sBuffer = c1.S.sBuffer
        /\ \A k \in Measures : Balance(k, c2) = Balance(k, c1)
    BY <1>1, <2>1, WriteWeighs
  <2> HIDE DEF c2
  <2>3. /\ Holds(d) /\ d.S.sBuffer = <<>> /\ d.fout = c2.fout
        /\ \A k \in Measures : Balance(k, d) = Balance(k, c2)
    BY <1>1, <1>2, <1>3, <2>2, AddWeighs
  <2>4. QED
    BY <1>1, <2>2, <2>3 DEF d
<1>4. CASE ~full
  <2>1. BufferSpace(c1)
    BY <1>1, <1>4, SpaceLeft DEF Holds
  <2>2. /\ Holds(d) /\ d.S.sBuffer = <<>> /\ d.fout = c1.fout /\ d.OldPosOut = c1.OldPosOut
        /\ \A k \in Measures : Balance(k, d) = Balance(k, c1)
    BY <1>1, <1>2, <1>4, <2>1, AddWeighs
  <2>3. QED
    BY <1>1, <2>2 DEF d
<1>5. QED
  BY <1>3, <1>4

\* A patch of the file is the sorted small buffer.
LEMMA BufferToFile ==
  ASSUME SortTypes, NEW c, Holds(c), c.fout.open, FileSpace(c), c.S.sBuffer \in SortedTerms
  PROVE  LET d == [AddPatch(c, c.S.sBuffer) EXCEPT !.S.sBuffer = <<>>]
         IN /\ Holds(d) /\ d.fout.open /\ Len(d.S.fPatches) >= 2
            /\ d.S.sBuffer = <<>> /\ d.S.Patches = c.S.Patches /\ d.S.stage4 = c.S.stage4
            /\ \A k \in Measures : Balance(k, d) = Balance(k, c)
<1> DEFINE b == c.S.sBuffer
           a == AddPatch(c, b)
           s == [a.S EXCEPT !.sBuffer = <<>>]
           d == [a EXCEPT !.S.sBuffer = <<>>]
<1>1. /\ Holds(a) /\ a.fout.open /\ Len(a.S.fPatches) >= 2
      /\ a.S.sBuffer = b /\ a.S.Patches = c.S.Patches /\ a.S.stage4 = c.S.stage4
      /\ \A k \in Measures : Balance(k, a) = Balance(k, c) + Weight(k, b)
  BY PatchWeighs
<1> HIDE DEF a
<1>2. ContextOK(a) /\ LevelHolds(a.S) /\ Fits(a.S)
  BY <1>1, ContextFields DEF Holds
<1>3. d = [a EXCEPT !.S = s]
  BY <1>2, ContextFields
<1>4. /\ s.sBuffer = <<>> /\ s.Patches = a.S.Patches /\ s.fPatches = a.S.fPatches
      /\ s.stage4 = a.S.stage4 /\ s.TermsLeft = a.S.TermsLeft
  BY <1>2, ContextFields
<1>5. Fits(s)
  BY <1>2, LevelChanges
<1> HIDE DEF s, d
<1>6. ContextOK(d) /\ d.S = s /\ d.fout = a.fout /\ d.OldPosOut = a.OldPosOut
  BY <1>2, <1>3, <1>5, NewLevel
<1>7. LevelHolds(d.S)
  BY <1>2, <1>4, <1>6, NoTermsAreTerms DEF LevelHolds
<1>8. /\ Holds(d)
      /\ \A k \in Measures : Balance(k, d) - LevelWeight(k, d.S) = Balance(k, a) - LevelWeight(k, a.S)
  BY <1>1, <1>4, <1>6, <1>7, LevelOnly
<1> HIDE DEF b
<1>9. ASSUME NEW k \in Measures PROVE Balance(k, d) = Balance(k, c)
  <2> DEFINE x == Balance(k, d)
             l == LevelWeight(k, d.S)
             y == Balance(k, a)
             m == LevelWeight(k, a.S)
             z == Balance(k, c)
             w == Weight(k, b)
             p == PatchesWeight(k, a.S.Patches)
             n == Counted(k, a.S.TermsLeft)
  <2>1. /\ x \in Int /\ l \in Int /\ y \in Int /\ m \in Int /\ z \in Int /\ p \in Int /\ n \in Int
    BY <1>1, <1>2, <1>8, WeightsAreNumbers
  <2>2. w \in Int
    BY SortedAreTerms DEF b
  <2>3. m = w + p - n
    BY <1>1 DEF LevelWeight
  <2>4. l = 0 + p - n
    BY <1>4, <1>6, NoWeight DEF LevelWeight
  <2>5. x - l = y - m /\ y = z + w
    BY <1>1, <1>8
  <2> HIDE DEF x, l, y, m, z, w, p, n
  <2>6. x = z
    BY <2>1, <2>2, <2>3, <2>4, <2>5
  <2>7. QED
    BY <2>6 DEF x, z
<1>10. QED
  BY <1>1, <1>4, <1>6, <1>8, <1>9 DEF d, a, b

\* Everything goes to the sort file at the end.
LEMMA FileWeighs ==
  ASSUME AlgorithmsRight, SortTypes, NEW c, Holds(c), c.S.Patches # <<>>
  PROVE  LET d == ToFile(c)
         IN /\ Holds(d) /\ d.fout.open /\ d.S.sBuffer = <<>> /\ d.S.Patches = <<>>
            /\ ~d.S.stage4 => Len(d.S.fPatches) >= 2
            /\ \A k \in Measures : Balance(k, d) = Balance(k, c)
<1> DEFINE c1 == SmallBufferSorted(c)
           full == LargeBufferFull(c.S.Patches, Len(c1.S.sBuffer))
           c2 == EmptyLargeBuffer(WriteLargeBuffer(c1))
           c3 == StageSort(c2)
           c4 == [AddPatch(c3, c1.S.sBuffer) EXCEPT !.S.sBuffer = <<>>]
           a == AddToLargeBuffer(c1)
           e == EmptyLargeBuffer(WriteLargeBuffer(a))
           d == ToFile(c)
<1>1. /\ Holds(c1) /\ c1.S.sBuffer \in SortedTerms /\ c1.S.Patches = c.S.Patches
      /\ \A k \in Measures : Balance(k, c1) = Balance(k, c)
  BY BufferWeighs
<1>2. d = IF ~full THEN e ELSE IF c1.S.sBuffer = <<>> THEN c3 ELSE c4
  BY DEF ToFile
<1> HIDE DEF c1, d
<1>3. CASE ~full
  <2>1. BufferSpace(c1)
    BY <1>1, <1>3, SpaceLeft DEF Holds
  <2>2. /\ Holds(a) /\ a.S.sBuffer = <<>> /\ a.S.Patches # <<>>
        /\ \A k \in Measures : Balance(k, a) = Balance(k, c1)
    BY <1>1, <2>1, AddWeighs
  <2> HIDE DEF a
  <2>3. /\ Holds(e) /\ e.fout.open /\ Len(e.S.fPatches) >= 2
        /\ e.S.sBuffer = a.S.sBuffer /\ e.S.Patches = <<>>
        /\ \A k \in Measures : Balance(k, e) = Balance(k, a)
    BY <2>2, WriteWeighs
  <2> HIDE DEF e
  <2>4. QED
    BY <1>1, <1>2, <1>3, <2>2, <2>3 DEF d
<1>4. CASE full
  <2>1. /\ Holds(c2) /\ c2.fout.open /\ Len(c2.S.fPatches) >= 2
        /\ c2.S.sBuffer = c1.S.sBuffer /\ c2.S.Patches = <<>>
        /\ \A k \in Measures : Balance(k, c2) = Balance(k, c1)
    BY <1>1, WriteWeighs
  <2> HIDE DEF c2
  <2>2. /\ Holds(c3) /\ c3.fout.open /\ FileSpace(c3)
        /\ c3.S.sBuffer = c1.S.sBuffer /\ c3.S.Patches = <<>> /\ (c3 = c2 \/ c3.S.stage4)
        /\ \A k \in Measures : Balance(k, c3) = Balance(k, c2)
    BY <2>1, StageWeighs
  <2> HIDE DEF c3
  <2>3. CASE c1.S.sBuffer = <<>>
    BY <1>1, <1>2, <1>4, <2>1, <2>2, <2>3 DEF d
  <2>4. CASE c1.S.sBuffer # <<>>
    <3>1. /\ Holds(c4) /\ c4.fout.open /\ Len(c4.S.fPatches) >= 2
          /\ c4.S.sBuffer = <<>> /\ c4.S.Patches = c3.S.Patches
          /\ \A k \in Measures : Balance(k, c4) = Balance(k, c3)
      BY <1>1, <2>2, BufferToFile
    <3> HIDE DEF c4
    <3>2. QED
      BY <1>1, <1>2, <1>4, <2>1, <2>2, <2>4, <3>1 DEF d
  <2>5. QED
    BY <2>3, <2>4
<1>5. QED
  BY <1>3, <1>4

-----------------------------------------------------------------------------
(* The invariant *)

Weighed == Keys \cup {-1}
Stored(k, level) == IF k = -1 THEN 0 ELSE stored[level][k]

\* The file that a level writes, and the end of the group that is merged.
Merges(level) == level = sLevel /\ merge.at \in {"newmerge", "group"}
OutFile(level) ==
  IF ~Merges(level) THEN File(level)
  ELSE IF merge.at = "group" THEN OtherFile(merge.fin) ELSE merge.fin
Here(level) == [S |-> S[level], fout |-> files[OutFile(level)], OldPosOut |-> OldPosOut]
GroupEnd == Start(OldPosIn) + Len(merge.iPatches) - 1
Unmerged(k, level) ==
  IF level = sLevel /\ merge.at = "group" THEN WeightBefore(k, files[merge.fin], GroupEnd) ELSE 0

\* What the buffers and files of a level weigh is what was stored.
LevelAdds(level) ==
  /\ Holds(Here(level)) /\ Len(S[level].sBuffer) <= setting.TermsInSmall
  /\ \A k \in Weighed : Balance(k, Here(level)) + Unmerged(k, level) = Stored(k, level)

\* The buffers are empty, and there is something to merge.
MergeAdds ==
  /\ merge.at \in {"newmerge", "group"} => S[sLevel].sBuffer = <<>> /\ S[sLevel].Patches = <<>>
  /\ merge.at = "newmerge" =>
       files[merge.fin].open /\ (~S[sLevel].stage4 => Len(S[sLevel].fPatches) >= 2)
  /\ merge.at = "group" =>
       /\ files[OtherFile(merge.fin)].open /\ Contents(files[merge.fin])
       /\ GroupOf(files[merge.fin], merge.iPatches, OldPosIn, GroupEnd)

CounterIsRight == result[0].written => counter = Len(result[0].terms)

SumInv ==
  /\ stored \in [Levels -> [Keys -> Int]]
  /\ \A level \in Levels : level <= sLevel => LevelAdds(level)
  /\ MergeAdds /\ OutputIsTheSum /\ CounterIsRight

LEMMA WeighedAreMeasures ==
  ASSUME SortTypes
  PROVE  /\ Weighed \subseteq Measures /\ -1 \in Weighed /\ Keys \subseteq Weighed
         /\ \A k \in Weighed : k # -1 => k \in Keys /\ k \in Nat
         /\ \A key \in Keys : key # -1 /\ key \in Nat
<1>1. setting.keys \in Nat
  BY DEF SortTypes, SettingOK
<1>2. QED
  BY <1>1 DEF Weighed, Measures, Keys

LEMMA HereIs ==
  ASSUME NEW level
  PROVE  /\ Here(level).S = S[level] /\ Here(level).fout = files[OutFile(level)]
         /\ Here(level).OldPosOut = OldPosOut
         /\ ~Merges(level) => Here(level) = Context(level) /\ \A k : Unmerged(k, level) = 0
<1>1. ~Merges(level) => OutFile(level) = File(level) /\ \A k : Unmerged(k, level) = 0
  BY DEF OutFile, Unmerged, Merges
<1>2. QED
  BY <1>1 DEF Here, Context

\* What holds in one setup.
HoldsIn(st, c) ==
  /\ c \in [S : {c.S}, fout : {c.fout}, OldPosOut : Nat]
  /\ FitsIn(st, c.S) /\ FileIn(st, c.fout)
  /\ c.fout.open => GroupAt(c.fout, c.OldPosOut)
  /\ LevelHolds(c.S) /\ Contents(c.fout)
  /\ c.fout.open => OpenGroup(c)

\* What a step has to show of a level.
LEMMA LevelAddsNext ==
  ASSUME NEW level \in Levels, NEW c, Holds(c), Len(c.S.sBuffer) <= setting.TermsInSmall,
         setting' = setting, Here(level)' = c,
         \A k \in Weighed : Balance(k, c) + Unmerged(k, level)' = Stored(k, level)'
  PROVE  LevelAdds(level)'
<1>1. HoldsIn(setting, c)
  BY DEF Holds, ContextOK, Fits, FileOK, HoldsIn
<1>2. HoldsIn(setting, Here(level))'
  BY <1>1
<1>3. Holds(Here(level))'
  BY <1>2 DEF Holds, ContextOK, Fits, FileOK, HoldsIn
<1>4. S'[level] = c.S
  BY DEF Here
<1>5. Weighed' = Weighed
  BY DEF Weighed, Keys
<1>6. (\A k \in Weighed : Balance(k, Here(level)) + Unmerged(k, level) = Stored(k, level))'
  <2>1. ASSUME NEW k \in Weighed'
        PROVE  (Balance(k, Here(level)) + Unmerged(k, level) = Stored(k, level))'
    <3>1. Balance(k, Here(level))' = Balance(k, c)
      OBVIOUS
    <3>2. QED
      BY <1>5, <3>1
  <2>2. QED
    BY <2>1
<1>7. QED
  BY <1>3, <1>4, <1>6 DEF LevelAdds

\* The outer sort, while a nested sort goes on.
LEMMA OuterKept ==
  ASSUME SortInv, LevelAdds(0), ~Merges(0), ~Merges(0)', setting' = setting, S'[0] = S[0],
         files'["sort"] = files["sort"], stored'[0] = stored[0],
         NEW p, OldPosOut' = p, p = OldPosOut \/ (p = 0 /\ ~S[0].stage4)
  PROVE  LevelAdds(0)'
<1> DEFINE c == Here(0)
           d == [S |-> S[0], fout |-> files["sort"], OldPosOut |-> p]
<1>1. /\ SortTypes /\ Holds(c) /\ Len(S[0].sBuffer) <= setting.TermsInSmall
      /\ \A k \in Weighed : Balance(k, c) + Unmerged(k, 0) = Stored(k, 0)
  BY DEF SortInv, LevelAdds
<1>2. File(0) = "sort" /\ 0 \in Levels
  BY DEF File, Levels
<1>3. /\ c.S = S[0] /\ c.fout = files["sort"] /\ c.OldPosOut = OldPosOut
      /\ \A k : Unmerged(k, 0) = 0 /\ Unmerged(k, 0)' = 0
  BY <1>2, HereIs DEF OutFile, Unmerged, Merges
<1>4. Here(0)' = d
  BY <1>2 DEF Here, OutFile
<1>5. d.S = c.S /\ d.fout = c.fout /\ d.OldPosOut = p
  BY <1>3
<1> HIDE DEF c
<1>6. ContextOK(c) /\ LevelHolds(c.S) /\ Contents(c.fout) /\ (c.fout.open => OpenGroup(c))
  BY <1>1 DEF Holds
<1>7. c.fout.open => p = c.OldPosOut
  BY <1>3, <1>6 DEF OpenGroup
<1>8. Holds(d)
  <2>1. /\ c \in [S : {c.S}, fout : {c.fout}, OldPosOut : Nat]
        /\ Fits(c.S) /\ FileOK(c.fout) /\ (c.fout.open => GroupAt(c.fout, c.OldPosOut))
    BY <1>6 DEF ContextOK
  <2>2. p \in Nat
    BY <1>1 DEF SortTypes
  <2>3. ContextOK(d)
    BY <1>5, <1>7, <2>1, <2>2 DEF ContextOK
  <2>4. d.fout.open => OpenGroup(d)
    BY <1>5, <1>6, <1>7 DEF OpenGroup
  <2> HIDE DEF d
  <2>5. QED
    BY <1>5, <1>6, <2>3, <2>4 DEF Holds
<1>9. ASSUME NEW k \in Weighed PROVE Balance(k, d) + Unmerged(k, 0)' = Stored(k, 0)'
  <2>1. Balance(k, d) = Balance(k, c)
    BY <1>5 DEF Balance
  <2>2. Stored(k, 0)' = Stored(k, 0)
    BY DEF Stored
  <2>3. QED
    BY <1>1, <1>3, <2>1, <2>2
<1> HIDE DEF d
<1>10. Len(d.S.sBuffer) <= setting.TermsInSmall
  BY <1>1, <1>3, <1>5
<1>11. QED
  BY <1>2, <1>4, <1>8, <1>9, <1>10, LevelAddsNext

\* The level that stores, in a step that keeps context d.
LEMMA KeepAdds ==
  ASSUME SortInv, SortInv', SumInv, NestedKeepsGroups',
         NEW level \in Levels, level = sLevel, merge.at = "no",
         merge'.at \in {"no", "terminated"} \/ (merge'.at = "newmerge" /\ merge'.fin = File(level)),
         NEW d, Holds(d), Len(d.S.sBuffer) <= setting.TermsInSmall, Keep(level, d),
         d.fout.open \/ (d.fout = files[File(level)] /\ d.OldPosOut = OldPosOut),
         setting' = setting, sLevel' = sLevel,
         \A k \in Weighed : Balance(k, d) = Stored(k, level)',
         \A l \in Levels : l # level => stored'[l] = stored[l]
  PROVE  \A l \in Levels : l <= sLevel' => LevelAdds(l)'
<1>1. SortTypes
  BY DEF SortInv
<1>2. /\ S = [l \in Levels |-> S[l]]
      /\ files = [f \in {"sort", "sub", "stage"} |-> files[f]]
  BY <1>1 DEF SortTypes
<1>3. /\ level \in {0, 1} /\ File(level) \in {"sort", "sub"}
      /\ (level = 0 => File(level) = "sort") /\ (level = 1 => File(level) = "sub")
  BY DEF Levels, File
<1>4. /\ S' = [S EXCEPT ![level] = d.S] /\ files' = [files EXCEPT ![File(level)] = d.fout]
      /\ OldPosOut' = d.OldPosOut
  BY DEF Keep
<1>5. /\ \A l \in Levels : S'[l] = IF l = level THEN d.S ELSE S[l]
      /\ \A f \in {"sort", "sub", "stage"} :
           files'[f] = IF f = File(level) THEN d.fout ELSE files[f]
  BY <1>2, <1>4
<1>6. LevelAdds(level)'
  <2>1. OutFile(level)' = File(level) /\ \A k : Unmerged(k, level)' = 0
    <3>1. ~Merges(level)' \/ (merge'.at = "newmerge" /\ merge'.fin = File(level))
      BY DEF Merges
    <3>2. QED
      BY <3>1 DEF OutFile, Unmerged, Merges
  <2>2. Here(level)' = [S |-> d.S, fout |-> d.fout, OldPosOut |-> d.OldPosOut]
    BY <1>3, <1>4, <1>5, <2>1 DEF Here
  <2>3. d \in [S : {d.S}, fout : {d.fout}, OldPosOut : Nat]
    BY DEF Holds, ContextOK
  <2>4. Here(level)' = d
    BY <2>2, <2>3
  <2>5. \A k \in Weighed : Balance(k, d) + Unmerged(k, level)' = Stored(k, level)'
    <3>1. ASSUME NEW k \in Weighed PROVE Balance(k, d) \in Int
      BY <1>1, WeighedAreMeasures, WeightsAreNumbers
    <3>2. QED
      BY <2>1, <3>1
  <2>6. QED
    BY <2>4, <2>5, LevelAddsNext
<1>7. CASE level = 0
  <2>1. \A l \in Levels : l <= sLevel' => l = level
    BY <1>7 DEF Levels
  <2>2. QED
    BY <1>6, <2>1
<1>8. CASE level = 1
  <2>1. LevelAdds(0) /\ 0 \in Levels
    BY <1>8 DEF SumInv, Levels
  <2>2. /\ S'[0] = S[0] /\ files'["sort"] = files["sort"] /\ files'["sub"] = d.fout
        /\ stored'[0] = stored[0]
    BY <1>3, <1>5, <1>8, <2>1
  <2>3. ~Merges(0) /\ ~Merges(0)'
    BY <1>8 DEF Merges
  <2>4. d.OldPosOut = OldPosOut \/ (d.OldPosOut = 0 /\ ~S[0].stage4)
    BY <1>3, <1>4, <1>8, <2>2 DEF NestedKeepsGroups, SortInv, NestedIsSimple
  <2>5. LevelAdds(0)'
    BY <1>4, <2>1, <2>2, <2>3, <2>4, OuterKept
  <2>6. \A l \in Levels : l = 0 \/ l = level
    BY <1>8 DEF Levels
  <2>7. ASSUME NEW l \in Levels PROVE LevelAdds(l)'
    <3>1. CASE l = 0
      BY <2>5, <3>1
    <3>2. CASE l = level
      BY <1>6, <3>2
    <3>3. QED
      BY <2>6, <3>1, <3>2
  <2>8. QED
    BY <2>7
<1>9. QED
  BY <1>3, <1>7, <1>8

\* A term is added to the small buffer.
LEMMA StoreWeighs ==
  ASSUME SortTypes, NEW c, Holds(c), NEW term \in AnyTerm
  PROVE  LET d == [c EXCEPT !.S.sBuffer = Append(@, term), !.S.TermsLeft = @ + 1]
         IN /\ Holds(d) /\ d.fout = c.fout /\ d.OldPosOut = c.OldPosOut
            /\ Len(c.S.sBuffer) \in Nat /\ Len(d.S.sBuffer) = Len(c.S.sBuffer) + 1
            /\ \A k \in Measures :
                 /\ Balance(k, d) = Balance(k, c) + TermWeight(k, term) - Counted(k, 1)
                 /\ Balance(k, c) \in Int /\ TermWeight(k, term) \in Int
<1> DEFINE b == Append(c.S.sBuffer, term)
           s == [c.S EXCEPT !.sBuffer = b, !.TermsLeft = c.S.TermsLeft + 1]
           d == [c EXCEPT !.S.sBuffer = Append(@, term), !.S.TermsLeft = @ + 1]
<1>1. ContextOK(c) /\ LevelHolds(c.S) /\ Fits(c.S)
  BY ContextFields DEF Holds
<1>2. d = [c EXCEPT !.S = s]
  BY <1>1, ContextFields
<1>3. /\ s.sBuffer = b /\ s.Patches = c.S.Patches /\ s.fPatches = c.S.fPatches
      /\ s.stage4 = c.S.stage4 /\ s.TermsLeft = c.S.TermsLeft + 1
  BY <1>1, ContextFields
<1>4. Fits(s)
  BY <1>1, LevelChanges
<1>5. /\ b \in Seq(AnyTerm) /\ Len(c.S.sBuffer) \in Nat /\ Len(b) = Len(c.S.sBuffer) + 1
  BY <1>1, AppendProperties, LenProperties DEF LevelHolds
<1> HIDE DEF s, d, b
<1>6. ContextOK(d) /\ d.S = s /\ d.fout = c.fout /\ d.OldPosOut = c.OldPosOut
  BY <1>1, <1>2, <1>4, NewLevel
<1>7. LevelHolds(d.S)
  BY <1>1, <1>3, <1>5, <1>6 DEF LevelHolds
<1>8. /\ Holds(d)
      /\ \A k \in Measures : Balance(k, d) - LevelWeight(k, d.S) = Balance(k, c) - LevelWeight(k, c.S)
  BY <1>3, <1>6, <1>7, LevelOnly
<1>9. ASSUME NEW k \in Measures
      PROVE  /\ Balance(k, d) = Balance(k, c) + TermWeight(k, term) - Counted(k, 1)
             /\ Balance(k, c) \in Int /\ TermWeight(k, term) \in Int
  <2> DEFINE x == Balance(k, d)
             l == LevelWeight(k, d.S)
             y == Balance(k, c)
             m == LevelWeight(k, c.S)
             w == Weight(k, c.S.sBuffer)
             t == TermWeight(k, term)
             p == PatchesWeight(k, c.S.Patches)
             n == Counted(k, c.S.TermsLeft)
             o == Counted(k, 1)
  <2>1. /\ x \in Int /\ l \in Int /\ y \in Int /\ m \in Int /\ w \in Int /\ p \in Int /\ n \in Int
    BY <1>1, <1>8, WeightsAreNumbers
  <2>2. t \in Int /\ Weight(k, b) = w + t
    BY <1>1, WeightOfTerms DEF LevelHolds, b
  <2>3. o \in Int /\ Counted(k, c.S.TermsLeft + 1) = n + o
    BY <1>1 DEF LevelHolds, Counted
  <2>4. m = w + p - n
    BY DEF LevelWeight
  <2>5. l = (w + t) + p - (n + o)
    BY <1>3, <1>6, <2>2, <2>3 DEF LevelWeight
  <2>6. x - l = y - m
    BY <1>8
  <2> HIDE DEF x, l, y, m, w, t, p, n, o
  <2>7. x = y + t - o
    BY <2>1, <2>2, <2>3, <2>4, <2>5, <2>6
  <2>8. QED
    BY <2>1, <2>2, <2>7 DEF x, y, t, o
<1>10. QED
  BY <1>3, <1>5, <1>6, <1>8, <1>9 DEF d

\* A level that has ended, with its result.
LEMMA ReturnAdds ==
  ASSUME SortInv, SumInv, NEW level \in Levels, level = sLevel,
         NEW s, NEW res, Return(level, s, res),
         level = 1 => files'["sort"] = files["sort"], OldPosOut' = OldPosOut,
         res.written => /\ res.terms \in SortedTerms
                        /\ \A key \in Keys : Weight(key, res.terms) = stored[level][key]
                        /\ level = 0 => s.TermsLeft = Len(res.terms)
  PROVE  SumInv'
<1>1. SortTypes
  BY DEF SortInv
<1>2. /\ S = [l \in Levels |-> S[l]] /\ result = [l \in Levels |-> result[l]]
      /\ level \in {0, 1} /\ \A l \in Levels : l \in {0, 1}
  BY <1>1 DEF SortTypes, Levels
<1>3. /\ S' = [S EXCEPT ![level] = s] /\ result' = [result EXCEPT ![level] = res]
      /\ sLevel' = level - 1 /\ merge' = NotMerging /\ setting' = setting /\ stored' = stored
      /\ counter' = IF level = 0 THEN s.TermsLeft ELSE counter
  BY DEF Return
<1>4. /\ \A l \in Levels : S'[l] = IF l = level THEN s ELSE S[l]
      /\ \A l \in Levels : result'[l] = IF l = level THEN res ELSE result[l]
  BY <1>2, <1>3
<1>5. Keys' = Keys
  BY <1>3 DEF Keys
<1>6. stored \in [Levels -> [Keys -> Int]] /\ OutputIsTheSum /\ CounterIsRight
  BY DEF SumInv
<1>7. (stored \in [Levels -> [Keys -> Int]])'
  BY <1>3, <1>5, <1>6
<1>8. MergeAdds'
  BY <1>3, NothingMerged DEF MergeAdds
<1>9. ASSUME NEW l \in Levels, l <= sLevel' PROVE LevelAdds(l)'
  <2>1. level = 1 /\ l = 0
    BY <1>2, <1>3, <1>9
  <2>2. LevelAdds(0) /\ 0 \in Levels
    BY <2>1 DEF SumInv, Levels
  <2>3. ~Merges(0) /\ ~Merges(0)'
    BY <1>3, <2>1, NothingMerged DEF Merges
  <2>4. S'[0] = S[0] /\ stored'[0] = stored[0]
    BY <1>3, <1>4, <2>1, <2>2
  <2>5. LevelAdds(0)'
    <3>1. OldPosOut' = OldPosOut
      OBVIOUS
    <3>2. QED
      BY <1>3, <2>1, <2>2, <2>3, <2>4, <3>1, OuterKept
  <2>6. QED
    BY <2>1, <2>5
<1>10. OutputIsTheSum'
  <2>1. ASSUME NEW l \in Levels, result'[l].written, l > sLevel'
        PROVE  /\ Sorted(result'[l].terms)
               /\ [key \in Keys |-> KeySum(result'[l].terms, key)] = stored[l]
    <3>1. CASE l = level
      <4>1. /\ res.terms \in SortedTerms /\ result'[l].terms = res.terms
            /\ \A key \in Keys : Weight(key, res.terms) = stored[level][key]
        BY <1>4, <2>1, <3>1
      <4>2. \A key \in Keys : KeySum(res.terms, key) = stored[level][key]
        BY <1>1, <4>1, WeighedAreMeasures, KeysAreWeight
      <4>3. stored[level] = [key \in Keys |-> stored[level][key]]
        BY <1>6
      <4>4. QED
        BY <3>1, <4>1, <4>2, <4>3 DEF SortedTerms
    <3>2. CASE l # level
      <4>1. result'[l] = result[l] /\ l > sLevel
        BY <1>2, <1>3, <1>4, <2>1, <3>2
      <4>2. QED
        BY <1>6, <2>1, <4>1 DEF OutputIsTheSum, SumOf
    <3>3. QED
      BY <3>1, <3>2
  <2>2. QED
    BY <1>3, <1>5, <2>1 DEF OutputIsTheSum, SumOf
<1>11. CounterIsRight'
  <2>1. CASE level = 0
    BY <1>3, <1>4, <2>1 DEF CounterIsRight
  <2>2. CASE level = 1
    <3>1. result'[0] = result[0] /\ counter' = counter
      BY <1>3, <1>4, <2>2 DEF Levels
    <3>2. QED
      BY <1>6, <3>1 DEF CounterIsRight
  <2>3. QED
    BY <1>2, <2>1, <2>2
<1>12. QED
  BY <1>7, <1>8, <1>9, <1>10, <1>11 DEF SumInv

-----------------------------------------------------------------------------
(* The steps that store and the ends without a merge from a file *)

LEMMA InitSumInv ==
  ASSUME InitSort
  PROVE  SumInv
<1>1. /\ sLevel = -1 /\ merge = NotMerging /\ stored = [level \in Levels |-> NoTerms]
      /\ result = [level \in Levels |-> NotWritten]
  BY DEF InitSort
<1>2. stored \in [Levels -> [Keys -> Int]]
  BY <1>1 DEF NoTerms
<1>3. \A level \in Levels : ~(level <= sLevel)
  BY <1>1 DEF Levels
<1>4. MergeAdds
  BY <1>1, NothingMerged DEF MergeAdds
<1>5. \A level \in Levels : ~result[level].written
  BY <1>1 DEF NotWritten
<1>6. OutputIsTheSum /\ CounterIsRight
  BY <1>5 DEF OutputIsTheSum, CounterIsRight, Levels
<1>7. QED
  BY <1>2, <1>3, <1>4, <1>6 DEF SumInv

\* What the level in use holds, while nothing is merged.
LEMMA LevelHere ==
  ASSUME SortInv, SumInv, NEW level \in Levels, level = sLevel, merge.at = "no"
  PROVE  /\ Holds(Context(level)) /\ Len(Context(level).S.sBuffer) <= setting.TermsInSmall
         /\ Context(level).S = S[level] /\ Context(level).fout = files[File(level)]
         /\ Context(level).OldPosOut = OldPosOut
         /\ \A k \in Weighed : /\ Balance(k, Context(level)) = Stored(k, level)
                               /\ Balance(k, Context(level)) \in Int
<1>1. SortTypes /\ LevelAdds(level) /\ ~Merges(level)
  BY DEF SortInv, SumInv, SortTypes, Merges, Levels
<1>2. /\ Here(level) = Context(level) /\ \A k : Unmerged(k, level) = 0
  BY <1>1, HereIs
<1>3. Holds(Context(level)) /\ Context(level).S = S[level]
      /\ Context(level).fout = files[File(level)] /\ Context(level).OldPosOut = OldPosOut
  BY <1>1, <1>2 DEF LevelAdds, Context
<1>4. \A k \in Weighed : Balance(k, Context(level)) \in Int
  BY <1>1, <1>3, WeighedAreMeasures, WeightsAreNumbers
<1>5. QED
  BY <1>1, <1>2, <1>3, <1>4 DEF LevelAdds

\* A level that stays as it is.
LEMMA LevelSame ==
  ASSUME SortInv, NEW level \in Levels, LevelAdds(level), ~Merges(level), ~Merges(level)',
         setting' = setting, S'[level] = S[level], files' = files, OldPosOut' = OldPosOut,
         stored'[level] = stored[level]
  PROVE  LevelAdds(level)'
<1> DEFINE c == Here(level)
<1>1. /\ Holds(c) /\ Len(c.S.sBuffer) <= setting.TermsInSmall
      /\ \A k \in Weighed : Balance(k, c) + Unmerged(k, level) = Stored(k, level)
  BY HereIs DEF LevelAdds
<1>2. /\ Here(level)' = c /\ \A k : Unmerged(k, level) = 0 /\ Unmerged(k, level)' = 0
  BY HereIs DEF Here, OutFile, Unmerged, Merges
<1>3. ASSUME NEW k \in Weighed PROVE Balance(k, c) + Unmerged(k, level)' = Stored(k, level)'
  <2>1. Stored(k, level)' = Stored(k, level)
    BY DEF Stored
  <2> HIDE DEF c
  <2>2. QED
    BY <1>1, <1>2, <2>1
<1> HIDE DEF c
<1>4. QED
  BY <1>1, <1>2, <1>3, LevelAddsNext

LEMMA EmptySortFits ==
  ASSUME SortTypes
  PROVE  /\ Fits(EmptySort) /\ LevelHolds(EmptySort) /\ EmptySort.sBuffer = <<>>
         /\ EmptySort.Patches = <<>> /\ EmptySort.TermsLeft = 0 /\ ~EmptySort.stage4
<1>1. /\ EmptySort.Patches = <<>> /\ EmptySort.fPatches = <<0>> /\ ~EmptySort.stage4
      /\ EmptySort.sBuffer = <<>> /\ EmptySort.TermsLeft = 0
      /\ EmptySort \in [sBuffer : {EmptySort.sBuffer}, Patches : {EmptySort.Patches},
           fPatches : {EmptySort.fPatches}, stage4 : BOOLEAN,
           TermsLeft : {EmptySort.TermsLeft}]
  BY DEF EmptySort
<1>2. Fits(EmptySort)
  BY <1>1, MaximaAreNumbers, ShortSeqs DEF Fits, FitsIn, IsLevel
<1>3. LevelHolds(EmptySort)
  BY <1>1, NoTermsAreTerms DEF LevelHolds
<1>4. QED
  BY <1>1, <1>2, <1>3

LEMMA ClosedFile ==
  ASSUME NEW f, FileOK(f), ~f.open
  PROVE  /\ Contents(f) /\ \A k \in Measures : FileWeight(k, f) = 0
<1>1. f.data = <<>> /\ f.data = NoFile.data
  BY NewFilesFit DEF FileOK, FileIn, IsFile
<1>2. 1..End(f) = {}
  BY <1>1, ShortSeqs DEF End
<1>3. \A k : FileWeight(k, f) = FileWeight(k, NoFile)
  BY <1>1 DEF FileWeight, WeightBefore, End
<1>4. QED
  BY <1>2, <1>3, NoWeight DEF Contents

LEMMA NewSortAdds ==
  ASSUME SortInv, SumInv, NewSort
  PROVE  SumInv'
<1>1. /\ SortTypes /\ FilesOK /\ NestedIsSimple /\ NotMergingLevel0
  BY DEF SortInv
<1>2. /\ merge.at = "no" /\ sLevel \in {-1, 0} /\ sLevel' = sLevel + 1
      /\ S' = [S EXCEPT ![sLevel + 1] = EmptySort]
      /\ result' = [result EXCEPT ![sLevel + 1] = NotWritten]
      /\ stored' = [stored EXCEPT ![sLevel + 1] = NoTerms]
      /\ setting' = setting /\ files' = files /\ OldPosOut' = OldPosOut
      /\ OldPosIn' = OldPosIn /\ merge' = merge /\ counter' = counter
  BY <1>1 DEF NewSort, Idle, MayBegin, SortTypes
<1>3. PICK level \in Levels : level = sLevel + 1
  BY <1>2 DEF Levels
<1>4. /\ S = [l \in Levels |-> S[l]] /\ result = [l \in Levels |-> result[l]]
      /\ stored \in [Levels -> [Keys -> Int]]
  BY <1>1 DEF SortTypes, SumInv
<1>5. /\ \A l \in Levels : S'[l] = IF l = level THEN EmptySort ELSE S[l]
      /\ \A l \in Levels : result'[l] = IF l = level THEN NotWritten ELSE result[l]
      /\ \A l \in Levels : stored'[l] = IF l = level THEN NoTerms ELSE stored[l]
  BY <1>2, <1>3, <1>4
<1>6. Keys' = Keys
  BY <1>2 DEF Keys
<1>7. (stored \in [Levels -> [Keys -> Int]])'
  <2>1. NoTerms \in [Keys -> Int]
    BY DEF NoTerms
  <2>2. stored' \in [Levels -> [Keys -> Int]]
    BY <1>2, <1>3, <1>4, <2>1
  <2>3. QED
    BY <1>6, <2>2
<1>8. MergeAdds'
  BY <1>2 DEF MergeAdds
<1>9. LevelAdds(level)'
  <2> DEFINE f == files[File(level)]
             d == [S |-> EmptySort, fout |-> f, OldPosOut |-> OldPosOut]
  <2>1. FileOK(f) /\ ~f.open
    BY <1>1, <1>2, <1>3 DEF FilesOK, NestedIsSimple, NotMergingLevel0, File
  <2>2. /\ OutFile(level)' = File(level) /\ \A k : Unmerged(k, level)' = 0
    BY <1>2 DEF OutFile, Unmerged, Merges
  <2>3. Here(level)' = d
    BY <1>2, <1>5, <2>2 DEF Here
  <2>4. d.S = EmptySort /\ d.fout = f /\ d \in [S : {d.S}, fout : {d.fout}, OldPosOut : Nat]
    BY <1>1 DEF SortTypes
  <2> HIDE DEF d, f
  <2>5. Holds(d)
    <3>1. ContextOK(d)
      BY <1>1, <2>1, <2>4, EmptySortFits DEF ContextOK
    <3>2. QED
      BY <1>1, <2>1, <2>4, <3>1, EmptySortFits, ClosedFile DEF Holds
  <2>6. Len(d.S.sBuffer) <= setting.TermsInSmall
    BY <1>1, <2>4, EmptySortFits, ShortSeqs DEF SortTypes, SettingOK
  <2>7. ASSUME NEW k \in Weighed PROVE Balance(k, d) + Unmerged(k, level)' = Stored(k, level)'
    <3>1. k \in Measures /\ (k # -1 => k \in Keys)
      BY <1>1, WeighedAreMeasures
    <3>2. FileWeight(k, d.fout) = 0 /\ LevelWeight(k, d.S) = 0
      BY <1>1, <2>1, <2>4, <3>1, EmptySortFits, ClosedFile, NoWeight DEF LevelWeight, Counted
    <3>3. Stored(k, level)' = 0
      BY <1>5, <3>1 DEF Stored, NoTerms
    <3>4. QED
      BY <2>2, <3>2, <3>3 DEF Balance
  <2>8. QED
    BY <1>2, <2>3, <2>5, <2>6, <2>7, LevelAddsNext
<1>10. ASSUME NEW l \in Levels, l <= sLevel' PROVE LevelAdds(l)'
  <2>1. CASE l = level
    BY <1>9, <2>1
  <2>2. CASE l # level
    <3>1. l <= sLevel /\ l # sLevel'
      BY <1>2, <1>3, <1>10, <2>2 DEF Levels
    <3>2. LevelAdds(l) /\ ~Merges(l) /\ ~Merges(l)'
      BY <1>2, <3>1 DEF SumInv, Merges
    <3>3. QED
      BY <1>2, <1>5, <2>2, <3>2, LevelSame
  <2>3. QED
    BY <2>1, <2>2
<1>11. OutputIsTheSum' /\ CounterIsRight'
  <2>1. OutputIsTheSum /\ CounterIsRight
    BY DEF SumInv
  <2>2. ASSUME NEW l \in Levels, result'[l].written, l > sLevel'
        PROVE  Sorted(result'[l].terms) /\ [key \in Keys |-> KeySum(result'[l].terms, key)] = stored'[l]
    <3>1. l # level /\ l > sLevel
      BY <1>2, <1>3, <2>2 DEF Levels
    <3>2. QED
      BY <1>5, <2>1, <2>2, <3>1 DEF OutputIsTheSum, SumOf
  <2>3. OutputIsTheSum'
    BY <1>6, <2>2 DEF OutputIsTheSum, SumOf
  <2>4. result'[0].written => result'[0] = result[0]
    <3>1. 0 \in Levels /\ ~NotWritten.written
      BY DEF Levels, NotWritten
    <3>2. QED
      BY <1>5, <3>1
  <2>5. QED
    BY <1>2, <2>1, <2>3, <2>4 DEF CounterIsRight
<1>12. QED
  BY <1>7, <1>8, <1>10, <1>11 DEF SumInv

LEMMA TerminateAdds ==
  ASSUME SortInv, SumInv, merge.at = "no", Terminate
  PROVE  SumInv'
<1>1. /\ merge'.at = "terminated" /\ setting' = setting /\ sLevel' = sLevel /\ S' = S
      /\ files' = files /\ OldPosOut' = OldPosOut /\ OldPosIn' = OldPosIn /\ result' = result
      /\ counter' = counter /\ stored' = stored
  BY NothingMerged DEF Terminate
<1>2. Keys' = Keys
  BY <1>1 DEF Keys
<1>3. (stored \in [Levels -> [Keys -> Int]])'
  BY <1>1, <1>2 DEF SumInv
<1>4. MergeAdds' /\ CounterIsRight'
  BY <1>1 DEF MergeAdds, CounterIsRight, SumInv
<1>5. OutputIsTheSum'
  BY <1>1, <1>2 DEF OutputIsTheSum, SumOf, SumInv
<1>6. ASSUME NEW l \in Levels, l <= sLevel' PROVE LevelAdds(l)'
  <2>1. LevelAdds(l) /\ ~Merges(l) /\ ~Merges(l)'
    BY <1>1, <1>6 DEF SumInv, Merges
  <2>2. QED
    BY <1>1, <2>1, LevelSame
<1>7. QED
  BY <1>3, <1>4, <1>5, <1>6 DEF SumInv

\* A term is stored: the buffers hold it, or it has gone with the others to the file.
LEMMA StoreTermAdds ==
  ASSUME AlgorithmsRight, SortInv, SortInv', SumInv, NestedKeepsGroups',
         NEW term \in Terms, StoreTerm(term)
  PROVE  SumInv'
<1> DEFINE c == Context(sLevel)
           full == SmallBufferFull(c)
           roomy == IF full THEN MakeRoom(c) ELSE c
           d == [roomy EXCEPT !.S.sBuffer = Append(@, term), !.S.TermsLeft = @ + 1]
<1>1. SortTypes /\ merge.at = "no" /\ sLevel >= 0
  BY DEF SortInv, StoreTerm, Idle
<1>2. PICK level \in Levels : level = sLevel
  BY <1>1 DEF SortTypes, Levels
<1>3. /\ Holds(c) /\ Len(c.S.sBuffer) <= setting.TermsInSmall
      /\ c.fout = files[File(level)] /\ c.OldPosOut = OldPosOut
      /\ \A k \in Weighed : Balance(k, c) = Stored(k, level)
  BY <1>1, <1>2, LevelHere
<1>4. term \in AnyTerm /\ term.key \in Keys
  <2>1. term.key \in Keys /\ term.coef \in setting.coefs /\ term = [key |-> term.key, coef |-> term.coef]
    BY DEF Terms
  <2>2. term.key \in Nat /\ term.coef \in Int \ {0}
    BY <1>1, <2>1, WeighedAreMeasures DEF SortTypes, SettingOK
  <2>3. QED
    BY <2>1, <2>2 DEF AnyTerm
<1>5. CASE full /\ Refused(sLevel, c)
  <2>1. Terminate
    BY <1>5 DEF StoreTerm
  <2>2. QED
    BY <1>1, <2>1, TerminateAdds
<1>6. CASE ~(full /\ Refused(sLevel, c))
  <2>1. /\ Keep(sLevel, d) /\ setting' = setting /\ sLevel' = sLevel
        /\ stored' = [stored EXCEPT ![sLevel][term.key] = @ + term.coef]
        /\ OldPosIn' = OldPosIn /\ merge' = merge /\ result' = result /\ counter' = counter
    BY <1>6 DEF StoreTerm
  <2>2. setting.TermsInSmall \in Nat /\ setting.TermsInSmall >= 1
    BY <1>1 DEF SortTypes, SettingOK
  <2>3. full <=> Len(c.S.sBuffer) >= setting.TermsInSmall
    BY DEF SmallBufferFull
  <2> HIDE DEF c, full
  <2>4. /\ Holds(roomy) /\ Len(roomy.S.sBuffer) + 1 <= setting.TermsInSmall
        /\ roomy.fout.open \/ (roomy.fout = c.fout /\ roomy.OldPosOut = c.OldPosOut)
        /\ \A k \in Measures : Balance(k, roomy) = Balance(k, c)
    <3>1. CASE full
      <4>1. /\ Holds(roomy) /\ roomy.S.sBuffer = <<>>
            /\ roomy.fout.open \/ (roomy.fout = c.fout /\ roomy.OldPosOut = c.OldPosOut)
            /\ \A k \in Measures : Balance(k, roomy) = Balance(k, c)
        BY <1>1, <1>3, <3>1, RoomWeighs
      <4>2. QED
        BY <2>2, <4>1, ShortSeqs
    <3>2. CASE ~full
      <4>1. Len(c.S.sBuffer) \in Nat
        BY <1>3, LenProperties DEF Holds, LevelHolds
      <4>2. roomy = c /\ Len(c.S.sBuffer) + 1 <= setting.TermsInSmall
        BY <2>2, <2>3, <3>2, <4>1
      <4>3. QED
        BY <1>3, <4>2
    <3>3. QED
      BY <3>1, <3>2
  <2> HIDE DEF roomy
  <2>5. /\ Holds(d) /\ d.fout = roomy.fout /\ d.OldPosOut = roomy.OldPosOut
        /\ Len(d.S.sBuffer) = Len(roomy.S.sBuffer) + 1
        /\ \A k \in Measures :
             /\ Balance(k, d) = Balance(k, roomy) + TermWeight(k, term) - Counted(k, 1)
             /\ Balance(k, roomy) \in Int /\ TermWeight(k, term) \in Int
    BY <1>1, <1>4, <2>4, StoreWeighs
  <2> HIDE DEF d
  <2>6. stored \in [Levels -> [Keys -> Int]] /\ OutputIsTheSum /\ CounterIsRight
    BY DEF SumInv
  <2>7. /\ stored' \in [Levels -> [Keys -> Int]]
        /\ \A l \in Levels : l # level => stored'[l] = stored[l]
        /\ \A key \in Keys : stored'[level][key] =
             IF key = term.key THEN stored[level][key] + term.coef ELSE stored[level][key]
    <3>1. /\ stored' = [stored EXCEPT ![level] = [stored[level] EXCEPT ![term.key] = @ + term.coef]]
          /\ stored[level] \in [Keys -> Int] /\ term.coef \in Int
      BY <1>2, <1>4, <2>1, <2>6 DEF AnyTerm
    <3>2. QED
      BY <1>4, <2>6, <3>1
  <2>8. ASSUME NEW k \in Weighed PROVE Balance(k, d) = Stored(k, level)'
    <3>1. k \in Measures /\ (k # -1 => k \in Keys)
      BY <1>1, WeighedAreMeasures
    <3>2. /\ Balance(k, d) = Balance(k, roomy) + TermWeight(k, term) - Counted(k, 1)
          /\ Balance(k, roomy) = Stored(k, level) /\ Stored(k, level) \in Int
          /\ TermWeight(k, term) \in Int
      BY <1>3, <2>4, <2>5, <3>1
    <3>3. CASE k = -1
      BY <3>2, <3>3 DEF Stored, TermWeight, Counted
    <3>4. CASE k # -1
      <4>1. stored'[level][k] = stored[level][k] + TermWeight(k, term)
        BY <2>6, <2>7, <3>1, <3>4 DEF TermWeight
      <4>2. QED
        BY <3>2, <3>4, <4>1 DEF Stored, Counted
    <3>5. QED
      BY <3>3, <3>4
  <2>9. \A l \in Levels : l <= sLevel' => LevelAdds(l)'
    <3>1. Keep(level, d) /\ Len(d.S.sBuffer) <= setting.TermsInSmall
      BY <1>2, <2>1, <2>4, <2>5
    <3>2. d.fout.open \/ (d.fout = files[File(level)] /\ d.OldPosOut = OldPosOut)
      BY <1>3, <2>4, <2>5
    <3>3. merge'.at = "no" /\ setting' = setting /\ sLevel' = sLevel
      BY <1>1, <2>1
    <3>4. QED
      BY <1>1, <1>2, <2>5, <2>7, <2>8, <3>1, <3>2, <3>3, KeepAdds
  <2>10. Keys' = Keys
    BY <2>1 DEF Keys
  <2>11. (stored \in [Levels -> [Keys -> Int]])'
    BY <2>7, <2>10
  <2>12. MergeAdds' /\ CounterIsRight'
    BY <1>1, <2>1, <2>6 DEF MergeAdds, CounterIsRight
  <2>13. OutputIsTheSum'
    <3>1. \A l \in Levels : l > sLevel => stored'[l] = stored[l]
      <4>1. \A l \in Levels : l > sLevel => l # level
        BY <1>2 DEF Levels
      <4>2. QED
        BY <2>7, <4>1
    <3>2. QED
      BY <2>1, <2>6, <2>10, <3>1 DEF OutputIsTheSum, SumOf
  <2>14. QED
    BY <2>9, <2>11, <2>12, <2>13 DEF SumInv
<1>7. QED
  BY <1>5, <1>6

\* What is merged to the output.
LEMMA MergedIsResult ==
  ASSUME AlgorithmsRight, SortTypes, NEW p \in Seq(SortedTerms), p # <<>>,
         NEW sums, \A key \in Keys : PatchesWeight(key, p) = sums[key],
         NEW n, PatchesWeight(-1, p) = n
  PROVE  LET m == Merging(p)
         IN /\ m.out \in SortedTerms /\ Len(m.out) = n - m.less
            /\ \A key \in Keys : Weight(key, m.out) = sums[key]
<1> DEFINE out == Merging(p).out
           less == Merging(p).less
<1>1. -1 \in Measures /\ \A key \in Keys : key \in Measures /\ key # -1
  BY WeighedAreMeasures, MeasureFacts
<1>2. out \in SortedTerms /\ less \in Int
  BY <1>1, MergingWeighs
<1>3. ASSUME NEW k \in Measures
      PROVE  /\ Weight(k, out) = PatchesWeight(k, p) - Counted(k, less)
             /\ Weight(k, out) \in Int /\ PatchesWeight(k, p) \in Int
  BY MergingWeighs
<1> HIDE DEF out, less
<1>4. Len(out) = n - less
  BY <1>1, <1>2, <1>3 DEF Weight, Counted
<1>5. ASSUME NEW key \in Keys PROVE Weight(key, out) = sums[key]
  <2>1. /\ Weight(key, out) = PatchesWeight(key, p) - Counted(key, less)
        /\ PatchesWeight(key, p) \in Int /\ key # -1
    BY <1>1, <1>3
  <2>2. QED
    BY <2>1 DEF Counted
<1>6. QED
  BY <1>2, <1>4, <1>5 DEF out, less

LEMMA EndFromSmallBufferAdds ==
  ASSUME AlgorithmsRight, SortInv, SumInv, EndFromSmallBuffer
  PROVE  SumInv'
<1> DEFINE c == Context(sLevel)
           ss == Sorting(c.S.sBuffer)
           s == [c.S EXCEPT !.TermsLeft = IF sLevel = 0 THEN Len(ss) ELSE @]
           res == Output(ss)
<1>1. SortTypes /\ merge.at = "no" /\ sLevel >= 0
  BY DEF SortInv, EndFromSmallBuffer, Idle
<1>2. PICK level \in Levels : level = sLevel
  BY <1>1 DEF SortTypes, Levels
<1>3. /\ Holds(c) /\ \A k \in Weighed : Balance(k, c) = Stored(k, level)
  BY <1>1, <1>2, LevelHere
<1>4. /\ c.S.Patches = <<>> /\ ~c.fout.open /\ Return(sLevel, s, res)
      /\ files' = files /\ OldPosOut' = OldPosOut
  BY DEF EndFromSmallBuffer
<1>5. res.terms = ss
  BY DEF Output
<1>6. LevelHolds(c.S) /\ FileOK(c.fout) /\ c.S.sBuffer \in Seq(AnyTerm)
  BY <1>3, ContextFields DEF Holds, LevelHolds
<1>7. level = 0 => s.TermsLeft = Len(ss)
  BY <1>2, <1>3, ContextFields DEF Holds
<1> HIDE DEF c, s, res
<1>8. ss \in SortedTerms
  BY <1>6, MeasureFacts, SortingWeighs
<1>9. ASSUME NEW key \in Keys PROVE Weight(key, ss) = stored[level][key]
  <2>1. key \in Measures /\ key \in Weighed /\ key # -1
    BY <1>1, WeighedAreMeasures
  <2>2. Balance(key, c) = stored[level][key]
    BY <1>3, <2>1 DEF Stored
  <2>3. Weight(key, ss) = Weight(key, c.S.sBuffer)
    <3>1. Weight(key, ss) - Counted(key, Len(ss)) = Weight(key, c.S.sBuffer) - Counted(key, Len(c.S.sBuffer))
      BY <1>6, <2>1, SortingWeighs
    <3>2. Weight(key, ss) \in Int /\ Weight(key, c.S.sBuffer) \in Int
      BY <1>6, <1>8, <2>1, SortedAreTerms, WeightsAreNumbers
    <3>3. QED
      BY <2>1, <3>1, <3>2 DEF Counted
  <2>4. Balance(key, c) = Weight(key, c.S.sBuffer)
    <3>1. FileWeight(key, c.fout) = 0
      BY <1>4, <1>6, <2>1, ClosedFile
    <3>2. PatchesWeight(key, c.S.Patches) = 0
      BY <1>4, <2>1, NoWeight
    <3>3. Weight(key, c.S.sBuffer) \in Int
      BY <1>6, <2>1, WeightsAreNumbers
    <3>4. QED
      BY <2>1, <3>1, <3>2, <3>3 DEF Balance, LevelWeight, Counted
  <2>5. QED
    BY <2>2, <2>3, <2>4
<1> HIDE DEF ss
<1>10. Return(level, s, res) /\ files'["sort"] = files["sort"]
  BY <1>2, <1>4
<1>11. QED
  BY <1>2, <1>4, <1>5, <1>7, <1>8, <1>9, <1>10, ReturnAdds

LEMMA EndFromLargeBufferAdds ==
  ASSUME AlgorithmsRight, SortInv, SumInv, EndFromLargeBuffer
  PROVE  SumInv'
<1> DEFINE c0 == Context(sLevel)
           c1 == SmallBufferSorted(c0)
           c == AddToLargeBuffer(c1)
           p == c.S.Patches
           out == Merging(p).out
           less == Merging(p).less
           s == [c.S EXCEPT !.TermsLeft = @ - less]
           res == Output(out)
<1>1. SortTypes /\ merge.at = "no" /\ sLevel >= 0
  BY DEF SortInv, EndFromLargeBuffer, Idle
<1>2. PICK level \in Levels : level = sLevel
  BY <1>1 DEF SortTypes, Levels
<1>3. /\ Holds(c0) /\ c0.S = S[level]
      /\ \A k \in Weighed : Balance(k, c0) = Stored(k, level)
  BY <1>1, <1>2, LevelHere
<1>4. /\ ~c.fout.open /\ ~LargeBufferFull(S[sLevel].Patches, Len(Last(p)))
      /\ Return(sLevel, s, res) /\ files' = files /\ OldPosOut' = OldPosOut
  BY DEF EndFromLargeBuffer
<1>5. res.terms = out
  BY DEF Output
<1> HIDE DEF c0
<1>6. /\ Holds(c1) /\ c1.S.sBuffer \in SortedTerms /\ c1.S.Patches = c0.S.Patches
      /\ c1.fout = c0.fout
      /\ \A k \in Measures : Balance(k, c1) = Balance(k, c0)
  BY <1>1, <1>3, BufferWeighs
<1> HIDE DEF c1
<1>7. BufferSpace(c1)
  <2>1. ~LargeBufferFull(c1.S.Patches, Len(Last(p)))
    BY <1>2, <1>3, <1>4, <1>6
  <2> HIDE DEF p
  <2>2. QED
    BY <1>1, <1>6, <2>1, SpaceLeft DEF Holds
<1>8. /\ Holds(c) /\ c.S.sBuffer = <<>> /\ c.S.Patches # <<>> /\ c.fout = c0.fout
      /\ \A k \in Measures : Balance(k, c) = Balance(k, c0)
  BY <1>1, <1>6, <1>7, AddWeighs
<1> HIDE DEF c
<1>9. LevelHolds(c.S) /\ FileOK(c.fout) /\ p \in Seq(SortedTerms)
  BY <1>8, ContextFields DEF Holds, LevelHolds
<1>10. s.TermsLeft = c.S.TermsLeft - less
  BY <1>8, ContextFields DEF Holds
<1>11. ASSUME NEW k \in Weighed
       PROVE  PatchesWeight(k, p) = Stored(k, level) + Counted(k, c.S.TermsLeft)
  <2>1. k \in Measures
    BY <1>1, WeighedAreMeasures
  <2>2. FileWeight(k, c.fout) = 0
    BY <1>4, <1>8, <1>9, <2>1, ClosedFile
  <2>3. Weight(k, c.S.sBuffer) = 0
    BY <1>8, <2>1, NoWeight
  <2>4. PatchesWeight(k, c.S.Patches) \in Int /\ Counted(k, c.S.TermsLeft) \in Int
    BY <1>9, <2>1, WeightsAreNumbers
  <2>5. Balance(k, c) = Stored(k, level)
    BY <1>3, <1>8, <2>1
  <2>6. QED
    BY <2>2, <2>3, <2>4, <2>5 DEF Balance, LevelWeight
<1> HIDE DEF p, s, res
<1>12. PatchesWeight(-1, p) = c.S.TermsLeft
  BY <1>1, <1>9, <1>11, WeighedAreMeasures DEF Stored, Counted, LevelHolds
<1>13. ASSUME NEW key \in Keys PROVE PatchesWeight(key, p) = stored[level][key]
  <2>1. key \in Weighed /\ key # -1
    BY <1>1, WeighedAreMeasures
  <2>2. stored[level][key] \in Int
    BY DEF SumInv
  <2>3. QED
    BY <1>11, <2>1, <2>2 DEF Stored, Counted
<1>14. p # <<>>
  BY <1>8 DEF p
<1>15. /\ out \in SortedTerms /\ Len(out) = c.S.TermsLeft - less
       /\ \A key \in Keys : Weight(key, out) = stored[level][key]
  BY <1>1, <1>9, <1>12, <1>13, <1>14, MergedIsResult
<1> HIDE DEF out, less
<1>16. Return(level, s, res) /\ files'["sort"] = files["sort"]
  BY <1>2, <1>4
<1>17. QED
  BY <1>2, <1>4, <1>5, <1>10, <1>15, <1>16, ReturnAdds

LEMMA EndFromFileAdds ==
  ASSUME AlgorithmsRight, SortInv, SortInv', SumInv, NestedKeepsGroups', EndFromFile
  PROVE  SumInv'
<1> DEFINE c == Context(sLevel)
           d == ToFile(c)
<1>1. SortTypes /\ merge.at = "no" /\ sLevel >= 0
  BY DEF SortInv, EndFromFile, Idle
<1>2. PICK level \in Levels : level = sLevel
  BY <1>1 DEF SortTypes, Levels
<1>3. /\ Holds(c) /\ \A k \in Weighed : Balance(k, c) = Stored(k, level)
  BY <1>1, <1>2, LevelHere
<1>4. c.S.Patches # <<>>
  BY DEF EndFromFile
<1>5. CASE RefusedAtEnd(sLevel, c)
  <2>1. Terminate
    BY <1>5 DEF EndFromFile
  <2>2. QED
    BY <1>1, <2>1, TerminateAdds
<1>6. CASE ~RefusedAtEnd(sLevel, c)
  <2>1. /\ Keep(sLevel, d) /\ merge' = [NotMerging EXCEPT !.at = "newmerge", !.fin = File(sLevel)]
        /\ setting' = setting /\ sLevel' = sLevel /\ OldPosIn' = OldPosIn /\ result' = result
        /\ counter' = counter /\ stored' = stored
    BY <1>6 DEF EndFromFile
  <2> HIDE DEF c
  <2>2. /\ Holds(d) /\ d.fout.open /\ d.S.sBuffer = <<>> /\ d.S.Patches = <<>>
        /\ ~d.S.stage4 => Len(d.S.fPatches) >= 2
        /\ \A k \in Measures : Balance(k, d) = Balance(k, c)
    BY <1>1, <1>3, <1>4, FileWeighs
  <2> HIDE DEF d
  <2>3. merge'.at = "newmerge" /\ merge'.fin = File(level)
    BY <1>2, <2>1, NothingMerged
  <2>4. ASSUME NEW k \in Weighed PROVE Balance(k, d) = Stored(k, level)'
    <3>1. Stored(k, level)' = Stored(k, level)
      BY <2>1 DEF Stored
    <3>2. QED
      BY <1>1, <1>3, <2>2, <3>1, WeighedAreMeasures
  <2>5. \A l \in Levels : l <= sLevel' => LevelAdds(l)'
    <3>1. Keep(level, d) /\ Len(d.S.sBuffer) <= setting.TermsInSmall
      BY <1>1, <1>2, <2>1, <2>2, ShortSeqs DEF SortTypes, SettingOK
    <3>2. QED
      BY <1>1, <1>2, <2>1, <2>2, <2>3, <2>4, <3>1, KeepAdds
  <2>6. MergeAdds'
    <3>1. S' = [S EXCEPT ![level] = d.S] /\ files' = [files EXCEPT ![File(level)] = d.fout]
      BY <1>2, <2>1 DEF Keep
    <3>2. S'[level] = d.S /\ files'[File(level)] = d.fout /\ level = sLevel'
      <4>1. /\ S = [l \in Levels |-> S[l]]
            /\ files = [f \in {"sort", "sub", "stage"} |-> files[f]]
            /\ File(level) \in {"sort", "sub", "stage"}
        BY <1>1 DEF SortTypes, File
      <4>2. QED
        BY <1>2, <2>1, <3>1, <4>1
    <3>3. QED
      BY <2>2, <2>3, <3>2 DEF MergeAdds
  <2>7. Keys' = Keys
    BY <2>1 DEF Keys
  <2>8. (stored \in [Levels -> [Keys -> Int]])' /\ OutputIsTheSum' /\ CounterIsRight'
    BY <2>1, <2>7 DEF SumInv, OutputIsTheSum, SumOf, CounterIsRight
  <2>9. QED
    BY <2>5, <2>6, <2>8 DEF SumInv
<1>7. QED
  BY <1>5, <1>6

-----------------------------------------------------------------------------
(* The steps of MergePatches(0) *)

LEMMA GroupNumbers ==
  ASSUME NEW f, NEW patches, NEW before, NEW e, GroupOf(f, patches, before, e)
  PROVE  /\ before \in Nat /\ e \in Nat /\ e <= End(f)
         /\ Len(patches) \in Nat /\ Len(patches) >= 1
         /\ Start(before) + Len(patches) - 1 = e
         /\ before # 0 => before \in 1..e - 1 /\ IsList(f.data[before + 1])
         /\ before <= e
<1>1. /\ before \in Nat /\ e \in Nat /\ e <= End(f)
      /\ IsSeq(patches) /\ Len(patches) >= 1 /\ Start(before) + Len(patches) = e + 1
      /\ before # 0 => IsList(f.data[before + 1])
  BY DEF GroupOf
<1>2. Len(patches) \in Nat /\ Start(before) \in Nat
  BY <1>1, OneMore DEF Start
<1>3. Start(before) + Len(patches) - 1 = e
  BY <1>1, <1>2
<1>4. before # 0 => before \in 1..e - 1
  BY <1>1, <1>2 DEF Start
<1>5. before <= e
  BY <1>1, <1>4
<1>6. QED
  BY <1>1, <1>2, <1>3, <1>4, <1>5

\* What the level that merges holds.
LEMMA MergingHere ==
  ASSUME SortInv, SumInv, NEW level \in Levels, level = sLevel,
         merge.at \in {"newmerge", "group"}
  PROVE  LET c == Here(level)
             f == IF merge.at = "group" THEN OtherFile(merge.fin) ELSE merge.fin
         IN /\ Holds(c) /\ c.fout.open /\ c.S = S[level] /\ c.fout = files[f]
            /\ c.OldPosOut = OldPosOut
            /\ c.S.sBuffer = <<>> /\ c.S.Patches = <<>> /\ LevelHolds(c.S) /\ OpenGroup(c)
            /\ \A k \in Weighed :
                 /\ Balance(k, c) + Unmerged(k, level) = Stored(k, level)
                 /\ Balance(k, c) = FileWeight(k, c.fout) - Counted(k, c.S.TermsLeft)
                 /\ FileWeight(k, c.fout) \in Int /\ Counted(k, c.S.TermsLeft) \in Int
<1> DEFINE c == Here(level)
           f == IF merge.at = "group" THEN OtherFile(merge.fin) ELSE merge.fin
<1>1. SortTypes /\ LevelAdds(level) /\ MergeAdds
  BY DEF SortInv, SumInv, SortTypes, Levels
<1>2. /\ Holds(c) /\ c.S = S[level] /\ c.fout = files[f] /\ c.OldPosOut = OldPosOut
      /\ \A k \in Weighed : Balance(k, c) + Unmerged(k, level) = Stored(k, level)
  <2>1. OutFile(level) = f
    BY DEF OutFile, Merges
  <2>2. QED
    BY <1>1, <2>1, HereIs DEF LevelAdds
<1> HIDE DEF c
<1>3. c.fout.open /\ c.S.sBuffer = <<>> /\ c.S.Patches = <<>>
  BY <1>1, <1>2 DEF MergeAdds
<1> HIDE DEF f
<1>4. LevelHolds(c.S) /\ OpenGroup(c)
  BY <1>2, <1>3 DEF Holds
<1>5. ASSUME NEW k \in Weighed
      PROVE  /\ Balance(k, c) = FileWeight(k, c.fout) - Counted(k, c.S.TermsLeft)
             /\ FileWeight(k, c.fout) \in Int /\ Counted(k, c.S.TermsLeft) \in Int
  <2>1. k \in Measures
    BY <1>1, WeighedAreMeasures
  <2>2. FileWeight(k, c.fout) \in Int /\ Counted(k, c.S.TermsLeft) \in Int
    BY <1>2, <1>4, <2>1, WeightsAreNumbers
  <2>3. Weight(k, c.S.sBuffer) = 0 /\ PatchesWeight(k, c.S.Patches) = 0
    BY <1>3, <2>1, NoWeight
  <2>4. QED
    BY <2>2, <2>3 DEF Balance, LevelWeight
<1>6. QED
  BY <1>2, <1>3, <1>4, <1>5 DEF c, f

LEMMA LastPassAdds ==
  ASSUME AlgorithmsRight, SortInv, SumInv, LastPass
  PROVE  SumInv'
<1> DEFINE f == files[merge.fin]
           q == S[sLevel].fPatches
           p == PatchesOf(merge.fin, q)
           out == Merging(p).out
           less == Merging(p).less
           s == [S[sLevel] EXCEPT !.TermsLeft = @ - less]
           res == Output(out)
<1>1. /\ SortTypes /\ FilesOK /\ merge.at = "newmerge" /\ ~S[sLevel].stage4
      /\ Return(sLevel, s, res) /\ files' = Close(merge.fin) /\ OldPosOut' = OldPosOut
  BY DEF SortInv, LastPass
<1>2. PICK level \in Levels : level = sLevel
  BY <1>1, WhatIsMerged
<1>3. /\ level = 1 => merge.fin = "sub"
      /\ merge.fin \in {"sort", "sub", "stage"}
  BY <1>1, <1>2, WhatIsMerged DEF SortTypes
<1> DEFINE c == Here(level)
<1>4. /\ Holds(c) /\ c.fout.open /\ c.S = S[sLevel] /\ c.fout = f /\ c.OldPosOut = OldPosOut
      /\ LevelHolds(c.S) /\ OpenGroup(c)
      /\ \A k \in Weighed :
           /\ Balance(k, c) + Unmerged(k, level) = Stored(k, level)
           /\ Balance(k, c) = FileWeight(k, f) - Counted(k, c.S.TermsLeft)
           /\ FileWeight(k, f) \in Int /\ Counted(k, c.S.TermsLeft) \in Int
  BY <1>1, <1>2, MergingHere
<1>5. res.terms = out
  BY DEF Output
<1>6. s.TermsLeft = c.S.TermsLeft - less
  BY <1>4, ContextFields DEF Holds
<1> HIDE DEF c, s, res
<1>7. GroupOf(f, q, 0, End(f)) /\ Len(q) >= 2 /\ FileOK(f) /\ Contents(f)
  <2>1. Len(q) >= 2
    BY <1>1 DEF SumInv, MergeAdds
  <2>2. c.OldPosOut = 0
    BY <1>1, <1>4 DEF OpenGroup
  <2>3. QED
    BY <1>4, <2>1, <2>2, ContextFields DEF OpenGroup, Holds
<1>8. p = PatchesIn(f, q)
  BY DEF PatchesOf, PatchesIn
<1> HIDE DEF p, q, f
<1>9. /\ p \in Seq(SortedTerms) /\ p # <<>>
      /\ \A k \in Measures : PatchesWeight(k, p) = FileWeight(k, f) - 0
  <2>1. /\ p \in Seq(SortedTerms) /\ Len(p) = Len(q) - 1 /\ Len(q) \in Nat
        /\ \A k \in Measures :
             /\ PatchesWeight(k, p) = WeightBefore(k, f, End(f)) - WeightBefore(k, f, 0)
             /\ WeightBefore(k, f, 0) = 0
    BY <1>7, <1>8, GroupWeighs
  <2>2. Len(p) # 0
    BY <1>7, <2>1
  <2>3. QED
    BY <2>1, <2>2, ShortSeqs DEF FileWeight
<1>10. ASSUME NEW k \in Weighed
       PROVE  PatchesWeight(k, p) = Stored(k, level) + Counted(k, c.S.TermsLeft)
  <2>1. k \in Measures
    BY <1>1, WeighedAreMeasures
  <2>2. Unmerged(k, level) = 0
    BY <1>1 DEF Unmerged
  <2>3. QED
    BY <1>4, <1>9, <2>1, <2>2
<1>11. PatchesWeight(-1, p) = c.S.TermsLeft
  BY <1>1, <1>4, <1>10, WeighedAreMeasures DEF Stored, Counted, LevelHolds
<1>12. ASSUME NEW key \in Keys PROVE PatchesWeight(key, p) = stored[level][key]
  <2>1. key \in Weighed /\ key # -1
    BY <1>1, WeighedAreMeasures
  <2>2. stored[level][key] \in Int
    BY DEF SumInv
  <2>3. QED
    BY <1>10, <2>1, <2>2 DEF Stored, Counted
<1>13. /\ out \in SortedTerms /\ Len(out) = c.S.TermsLeft - less
       /\ \A key \in Keys : Weight(key, out) = stored[level][key]
  BY <1>1, <1>9, <1>11, <1>12, MergedIsResult
<1> HIDE DEF out, less
<1>14. level = 1 => files'["sort"] = files["sort"]
  <2>1. setting' = setting
    BY <1>1 DEF Return
  <2>2. QED
    BY <1>1, <1>3, <2>1, CloseKeeps
<1>15. Return(level, s, res)
  BY <1>1, <1>2
<1>16. QED
  BY <1>1, <1>2, <1>5, <1>6, <1>13, <1>14, <1>15, ReturnAdds

LEMMA NoGroupAdds ==
  ASSUME SortInv, SumInv, NoGroup
  PROVE  SumInv'
<1> DEFINE s == S[sLevel]
<1>1. /\ merge.at = "group" /\ Return(sLevel, s, NotWritten) /\ OldPosOut' = OldPosOut
  BY DEF NoGroup
<1> HIDE DEF s
<1>2. PICK level \in Levels : level = sLevel /\ level # 1
  BY <1>1, WhatIsMerged
<1>3. ~NotWritten.written
  BY DEF NotWritten
<1>4. Return(level, s, NotWritten)
  BY <1>1, <1>2
<1>5. QED
  BY <1>1, <1>2, <1>3, <1>4, ReturnAdds

LEMMA BeginCycleAdds ==
  ASSUME SortInv, SumInv, BeginCycle
  PROVE  SumInv'
<1> DEFINE f == OtherFile(merge.fin)
           g == files[merge.fin]
           b == [S |-> S[sLevel], fout |-> files[f], OldPosOut |-> OldPosOut]
           b0 == [S |-> S[0], fout |-> NoFile, OldPosOut |-> OldPosOut]
           a == FileMake(b0)
           s == [a.S EXCEPT !.stage4 = FALSE]
           d == [a EXCEPT !.S = s]
<1>1. SortTypes /\ LevelsFit /\ NestedIsSimple /\ merge.at = "newmerge" /\ S[sLevel].stage4
  BY DEF SortInv, BeginCycle
<1>2. /\ sLevel \in Levels /\ 0 \in Levels /\ sLevel = 0 /\ merge.fin \in {"sort", "stage"}
      /\ f \in {"sort", "stage"} /\ f # merge.fin
  BY <1>1, WhatIsMerged DEF NestedIsSimple, Levels, OtherFile
<1>3. FileMake(b) = a
  BY <1>2 DEF FileMake
<1>4. /\ merge' = [merge EXCEPT !.at = "group", !.iPatches = S[0].fPatches]
      /\ OldPosIn' = OldPosOut /\ S' = [S EXCEPT ![0] = s]
      /\ files' = [files EXCEPT ![f] = a.fout] /\ OldPosOut' = a.OldPosOut
      /\ setting' = setting /\ sLevel' = sLevel /\ result' = result /\ counter' = counter
      /\ stored' = stored
  BY <1>2, <1>3 DEF BeginCycle
<1> DEFINE c == Here(0)
<1>5. /\ Holds(c) /\ c.S = S[0] /\ c.fout = g /\ c.OldPosOut = OldPosOut
      /\ c.S.sBuffer = <<>> /\ c.S.Patches = <<>> /\ LevelHolds(c.S) /\ OpenGroup(c)
      /\ \A k \in Weighed : Balance(k, c) + Unmerged(k, 0) = Stored(k, 0)
  BY <1>1, <1>2, MergingHere
<1> HIDE DEF c
<1>6. /\ ContextOK(b0) /\ b0.S = S[0] /\ LevelHolds(b0.S)
  <2>1. Fits(S[0]) /\ OldPosOut \in Nat
    BY <1>1, <1>2 DEF LevelsFit, SortTypes
  <2>2. /\ b0.S = S[0] /\ b0.fout = NoFile /\ b0 \in [S : {b0.S}, fout : {b0.fout}, OldPosOut : Nat]
    BY <2>1
  <2> HIDE DEF b0
  <2>3. QED
    BY <1>5, <2>1, <2>2, NewFilesFit DEF ContextOK
<1> HIDE DEF b0
<1>7. /\ Holds(a) /\ a.fout = NewFile /\ a.fout.open /\ a.OldPosOut = 0
      /\ a.S.sBuffer = <<>> /\ a.S.Patches = <<>>
      /\ a.S.TermsLeft = S[0].TermsLeft
      /\ \A k \in Measures : Balance(k, a) = LevelWeight(k, S[0])
  <2>1. /\ Holds(a) /\ a.fout = NewFile /\ a.fout.open /\ a.OldPosOut = 0
        /\ a.S.sBuffer = b0.S.sBuffer /\ a.S.Patches = b0.S.Patches
        /\ a.S.TermsLeft = b0.S.TermsLeft
        /\ \A k \in Measures : Balance(k, a) = LevelWeight(k, b0.S)
    BY <1>1, <1>6, MadeWeighs
  <2>2. QED
    BY <1>5, <1>6, <2>1
<1> HIDE DEF a
<1>8. ContextOK(a) /\ LevelHolds(a.S) /\ Fits(a.S) /\ OpenGroup(a) /\ Contents(a.fout)
  BY <1>7, ContextFields DEF Holds
<1>9. /\ s.sBuffer = a.S.sBuffer /\ s.Patches = a.S.Patches /\ s.fPatches = a.S.fPatches
      /\ s.TermsLeft = a.S.TermsLeft /\ ~s.stage4
  BY <1>8, ContextFields
<1>10. Fits(s)
  BY <1>1, <1>8, LevelChanges
<1> HIDE DEF s
<1>11. ContextOK(d) /\ d.S = s /\ d.fout = a.fout /\ d.OldPosOut = a.OldPosOut
  BY <1>8, <1>10, NewLevel
<1>12. d = [S |-> s, fout |-> a.fout, OldPosOut |-> a.OldPosOut]
  BY <1>8, ContextFields
<1> HIDE DEF d
<1>13. Holds(d)
  <2>1. LevelHolds(d.S)
    BY <1>8, <1>9, <1>11 DEF LevelHolds
  <2>2. OpenGroup(d)
    BY <1>7, <1>8, <1>9, <1>11 DEF OpenGroup
  <2>3. QED
    BY <1>8, <1>11, <2>1, <2>2 DEF Holds
<1>14. \A k \in Measures : Balance(k, d) = Balance(k, a)
  BY <1>9, <1>11 DEF Balance, LevelWeight
<1>15. /\ S = [l \in Levels |-> S[l]] /\ files = [h \in {"sort", "sub", "stage"} |-> files[h]]
       /\ merge \in [at : {merge.at}, fin : {merge.fin}, iPatches : {merge.iPatches}]
  BY <1>1 DEF SortTypes
<1>16. /\ S'[0] = s /\ files'[f] = a.fout /\ files'[merge.fin] = g
       /\ merge'.at = "group" /\ merge'.fin = merge.fin /\ merge'.iPatches = S[0].fPatches
  BY <1>2, <1>4, <1>15
<1>17. GroupOf(g, S[0].fPatches, OldPosOut, End(g)) /\ Contents(g)
  BY <1>5 DEF OpenGroup, Holds
<1>18. GroupEnd' = End(g)
  <2>1. GroupEnd' = Start(OldPosOut) + Len(S[0].fPatches) - 1
    BY <1>4, <1>16 DEF GroupEnd
  <2>2. QED
    BY <1>17, <2>1, GroupNumbers
<1>19. Here(0)' = d
  <2>1. OutFile(0)' = f
    BY <1>2, <1>4, <1>16 DEF OutFile, Merges
  <2>2. QED
    BY <1>4, <1>12, <1>16, <2>1 DEF Here
<1>20. ASSUME NEW k \in Weighed PROVE Balance(k, d) + Unmerged(k, 0)' = Stored(k, 0)'
  <2>1. k \in Measures
    BY <1>1, WeighedAreMeasures
  <2>2. Unmerged(k, 0)' = FileWeight(k, g)
    <3>1. Unmerged(k, 0)' = WeightBefore(k, files'[merge'.fin], GroupEnd')
      BY <1>2, <1>4, <1>16 DEF Unmerged
    <3>2. QED
      BY <1>16, <1>18, <3>1 DEF FileWeight
  <2>3. Balance(k, c) = LevelWeight(k, S[0]) + FileWeight(k, g)
    BY <1>5 DEF Balance
  <2>4. Unmerged(k, 0) = 0 /\ Stored(k, 0)' = Stored(k, 0)
    BY <1>1, <1>4 DEF Unmerged, Stored
  <2>5. Balance(k, c) \in Int
    BY <1>5, <2>1, WeightsAreNumbers
  <2>6. QED
    BY <1>5, <1>7, <1>14, <2>1, <2>2, <2>3, <2>4, <2>5
<1>21. LevelAdds(0)'
  <2>1. Len(d.S.sBuffer) <= setting.TermsInSmall
    BY <1>1, <1>7, <1>9, <1>11, ShortSeqs DEF SortTypes, SettingOK
  <2>2. QED
    BY <1>2, <1>4, <1>13, <1>19, <1>20, <2>1, LevelAddsNext
<1>22. \A l \in Levels : l <= sLevel' => l = 0
  BY <1>2, <1>4 DEF Levels
<1>23. MergeAdds'
  <2>1. OtherFile(merge.fin)' = f
    BY <1>16 DEF OtherFile
  <2>2. files'[f].open /\ S'[sLevel'].sBuffer = <<>> /\ S'[sLevel'].Patches = <<>>
    BY <1>2, <1>4, <1>7, <1>9, <1>16
  <2>3. GroupOf(files'[merge'.fin], merge'.iPatches, OldPosIn', GroupEnd') /\ Contents(files'[merge'.fin])
    BY <1>4, <1>16, <1>17, <1>18
  <2>4. QED
    BY <1>16, <2>1, <2>2, <2>3 DEF MergeAdds
<1>24. Keys' = Keys
  BY <1>4 DEF Keys
<1>25. (stored \in [Levels -> [Keys -> Int]])' /\ OutputIsTheSum' /\ CounterIsRight'
  BY <1>4, <1>24 DEF SumInv, OutputIsTheSum, SumOf, CounterIsRight
<1>26. ASSUME NEW l \in Levels, l <= sLevel' PROVE LevelAdds(l)'
  <2>1. l = 0
    BY <1>22, <1>26
  <2>2. QED
    BY <1>21, <2>1
<1>27. QED
  BY <1>23, <1>25, <1>26 DEF SumInv

LEMMA MergeGroupAdds ==
  ASSUME AlgorithmsRight, SortInv, SumInv, MergeGroup
  PROVE  SumInv'
<1> DEFINE f == OtherFile(merge.fin)
           g == files[merge.fin]
           p == PatchesOf(merge.fin, merge.iPatches)
           m == Merging(p)
           b == [S |-> S[sLevel], fout |-> files[f], OldPosOut |-> OldPosOut]
           a == AddPatch(StageSort(b), m.out)
           s == [a.S EXCEPT !.TermsLeft = @ - m.less]
           d == [a EXCEPT !.S.TermsLeft = @ - m.less]
           c == Here(0)
<1>1. /\ SortTypes /\ FilesOK /\ merge.at = "group" /\ Len(merge.iPatches) > 1
      /\ S' = [S EXCEPT ![sLevel] = s] /\ OldPosOut' = a.OldPosOut
      /\ setting' = setting /\ sLevel' = sLevel /\ result' = result /\ counter' = counter
      /\ stored' = stored
  BY DEF SortInv, MergeGroup
<1>2. \/ /\ OldPosIn # 0 /\ merge' = [merge EXCEPT !.iPatches = NextGroup.patches]
         /\ OldPosIn' = NextGroup.before /\ files' = [files EXCEPT ![f] = a.fout]
      \/ /\ OldPosIn = 0 /\ merge' = [merge EXCEPT !.at = "newmerge", !.fin = f, !.iPatches = <<>>]
         /\ OldPosIn' = OldPosIn /\ files' = [Close(merge.fin) EXCEPT ![f] = a.fout]
  BY DEF MergeGroup, GroupsLeft
<1>3. /\ sLevel = 0 /\ 0 \in Levels /\ merge.fin \in {"sort", "stage"}
      /\ f \in {"sort", "stage"} /\ f # merge.fin
  BY <1>1, WhatIsMerged DEF Levels, OtherFile
<1>4. /\ Holds(c) /\ c.fout.open /\ c.S = S[0] /\ c.fout = files[f] /\ c.OldPosOut = OldPosOut
      /\ c.S.sBuffer = <<>> /\ c.S.Patches = <<>>
      /\ \A k \in Weighed : Balance(k, c) + Unmerged(k, 0) = Stored(k, 0)
  BY <1>1, <1>3, MergingHere
<1>5. b = c
  <2>1. OutFile(0) = f
    BY <1>1, <1>3 DEF OutFile, Merges
  <2>2. QED
    BY <1>3, <2>1 DEF Here
<1>6. /\ FileOK(g) /\ Contents(g) /\ GroupOf(g, merge.iPatches, OldPosIn, GroupEnd)
      /\ p = PatchesIn(g, merge.iPatches)
  BY <1>1, <1>3 DEF FilesOK, SumInv, MergeAdds, PatchesOf, PatchesIn
<1> HIDE DEF p, c, g
<1>7. /\ p \in Seq(SortedTerms) /\ p # <<>>
      /\ \A k \in Measures :
           /\ PatchesWeight(k, p) = WeightBefore(k, g, GroupEnd) - WeightBefore(k, g, OldPosIn)
           /\ WeightBefore(k, g, GroupEnd) \in Int /\ WeightBefore(k, g, OldPosIn) \in Int
           /\ WeightBefore(k, g, 0) = 0
  <2>1. /\ p \in Seq(SortedTerms) /\ Len(p) = Len(merge.iPatches) - 1 /\ Len(merge.iPatches) \in Nat
        /\ \A k \in Measures :
             /\ PatchesWeight(k, p) = WeightBefore(k, g, GroupEnd) - WeightBefore(k, g, OldPosIn)
             /\ WeightBefore(k, g, GroupEnd) \in Int /\ WeightBefore(k, g, OldPosIn) \in Int
             /\ WeightBefore(k, g, 0) = 0
    BY <1>6, GroupWeighs
  <2>2. Len(p) # 0
    <3>1. \A n \in Nat : n > 1 => n - 1 # 0
      OBVIOUS
    <3>2. QED
      BY <1>1, <2>1, <3>1
  <2>3. QED
    BY <2>1, <2>2, ShortSeqs
<1>8. /\ Holds(d) /\ d.S = s /\ d.fout = a.fout /\ d.OldPosOut = a.OldPosOut
      /\ d.fout.open /\ Len(d.S.fPatches) >= 2
      /\ d.S.sBuffer = <<>> /\ d.S.Patches = <<>>
      /\ \A k \in Measures : Balance(k, d) = Balance(k, c) + PatchesWeight(k, p)
  <2> DEFINE a0 == AddPatch(StageSort(c), m.out)
             s0 == [a0.S EXCEPT !.TermsLeft = @ - m.less]
             d0 == [a0 EXCEPT !.S.TermsLeft = @ - m.less]
  <2>1. SortTypes
    BY <1>1
  <2>2. /\ Holds(d0) /\ d0.S = s0 /\ d0.fout = a0.fout /\ d0.OldPosOut = a0.OldPosOut
        /\ d0.fout.open /\ Len(d0.S.fPatches) >= 2
        /\ d0.S.sBuffer = c.S.sBuffer /\ d0.S.Patches = c.S.Patches
        /\ \A k \in Measures : Balance(k, d0) = Balance(k, c) + PatchesWeight(k, p)
    BY <1>4, <1>7, <2>1, MergedPatch
  <2>3. a0 = a
    <3> HIDE DEF b
    <3>1. QED
      BY <1>5
  <2>4. s0 = s /\ d0 = d
    <3> HIDE DEF a0, a
    <3>1. QED
      BY <2>3
  <2> HIDE DEF a0, s0, d0, a, s, d
  <2>5. QED
    BY <1>4, <2>2, <2>3, <2>4
<1> HIDE DEF f, m, b, a, s, d
<1>9. d = [S |-> s, fout |-> a.fout, OldPosOut |-> a.OldPosOut]
  BY <1>8, ContextFields DEF Holds
<1>10. /\ S = [l \in Levels |-> S[l]] /\ files = [h \in {"sort", "sub", "stage"} |-> files[h]]
       /\ merge \in [at : {merge.at}, fin : {merge.fin}, iPatches : {merge.iPatches}]
  BY <1>1 DEF SortTypes
<1>11. S'[0] = s
  BY <1>1, <1>3, <1>10
\* What is left of the file that is merged, and which step comes next.
<1>12. /\ files'[f] = a.fout /\ OutFile(0)' = f /\ MergeAdds'
       /\ \A k \in Weighed : Unmerged(k, 0)' = WeightBefore(k, g, OldPosIn)
  <2>1. CASE OldPosIn # 0
    <3>1. /\ merge' = [merge EXCEPT !.iPatches = NextGroup.patches]
          /\ OldPosIn' = NextGroup.before /\ files' = [files EXCEPT ![f] = a.fout]
      BY <1>2, <2>1
    <3>2. /\ files'[f] = a.fout /\ files'[merge.fin] = g
          /\ merge'.at = "group" /\ merge'.fin = merge.fin /\ merge'.iPatches = NextGroup.patches
      BY <1>1, <1>3, <1>10, <3>1 DEF g
    <3>3. OutFile(0)' = f
      BY <1>1, <1>3, <3>2 DEF OutFile, Merges, f
    <3>4. GroupOf(g, NextGroup.patches, NextGroup.before, OldPosIn)
      <4>1. End(g) \in Nat /\ OldPosIn + 1 \in 1..End(g) /\ IsList(g.data[OldPosIn + 1])
        <5>1. End(g) \in Nat
          BY <1>6, OneMore DEF FileOK, FileIn, IsFile, End
        <5>2. /\ GroupEnd \in Nat /\ GroupEnd <= End(g) /\ OldPosIn \in 1..GroupEnd - 1
              /\ IsList(g.data[OldPosIn + 1])
          BY <1>6, <2>1, GroupNumbers
        <5>3. QED
          BY <5>1, <5>2
      <4>2. PICK i \in 1..End(g) : i = OldPosIn + 1
        BY <4>1
      <4>3. OldPosIn = i - 1
        <5>1. OldPosIn \in Int
          BY <1>1 DEF SortTypes
        <5>2. QED
          BY <4>2, <5>1
      <4>4. NextGroup = g.data[i]
        BY <1>1, <4>2 DEF NextGroup, g, SortTypes
      <4>5. IsList(g.data[i])
        BY <4>1, <4>2
      <4>6. GroupOf(g, g.data[i].patches, g.data[i].before, i - 1)
        BY <1>6, <4>5 DEF Contents
      <4> HIDE DEF g
      <4>7. QED
        BY <4>3, <4>4, <4>6
    <3>5. GroupEnd' = OldPosIn
      <4>1. GroupEnd' = Start(NextGroup.before) + Len(NextGroup.patches) - 1
        BY <3>1, <3>2 DEF GroupEnd
      <4>2. QED
        BY <3>4, <4>1, GroupNumbers
    <3>6. ASSUME NEW k \in Weighed PROVE Unmerged(k, 0)' = WeightBefore(k, g, OldPosIn)
      <4>1. Unmerged(k, 0)' = WeightBefore(k, files'[merge'.fin], GroupEnd')
        BY <1>1, <1>3, <3>2 DEF Unmerged
      <4>2. QED
        BY <3>2, <3>5, <4>1
    <3>7. MergeAdds'
      <4>1. OtherFile(merge.fin)' = f
        BY <3>2 DEF OtherFile, f
      <4>2. files'[f].open /\ S'[sLevel'].sBuffer = <<>> /\ S'[sLevel'].Patches = <<>>
        BY <1>1, <1>3, <1>8, <1>11, <3>2
      <4>3. GroupOf(files'[merge'.fin], merge'.iPatches, OldPosIn', GroupEnd') /\ Contents(files'[merge'.fin])
        BY <1>6, <3>1, <3>2, <3>4, <3>5
      <4>4. QED
        BY <3>2, <4>1, <4>2, <4>3 DEF MergeAdds
    <3>8. QED
      BY <3>2, <3>3, <3>6, <3>7
  <2>2. CASE OldPosIn = 0
    <3>1. /\ merge' = [merge EXCEPT !.at = "newmerge", !.fin = f, !.iPatches = <<>>]
          /\ files' = [Close(merge.fin) EXCEPT ![f] = a.fout]
      BY <1>2, <2>2
    <3>2. /\ files'[f] = a.fout /\ merge'.at = "newmerge" /\ merge'.fin = f
      BY <1>3, <1>10, <3>1 DEF Close
    <3>3. OutFile(0)' = f /\ \A k : Unmerged(k, 0)' = 0
      BY <1>1, <1>3, <3>2 DEF OutFile, Merges, Unmerged
    <3>4. \A k \in Weighed : WeightBefore(k, g, OldPosIn) = 0
      BY <1>1, <1>7, <2>2, WeighedAreMeasures
    <3>5. MergeAdds'
      <4>1. files'[f].open /\ S'[sLevel'].sBuffer = <<>> /\ S'[sLevel'].Patches = <<>>
            /\ Len(S'[sLevel'].fPatches) >= 2
        BY <1>1, <1>3, <1>8, <1>11, <3>2
      <4>2. QED
        BY <3>2, <4>1 DEF MergeAdds
    <3>6. QED
      BY <3>2, <3>3, <3>4, <3>5
  <2>3. QED
    BY <2>1, <2>2
<1>13. Here(0)' = d
  BY <1>1, <1>9, <1>11, <1>12 DEF Here
<1>14. ASSUME NEW k \in Weighed PROVE Balance(k, d) + Unmerged(k, 0)' = Stored(k, 0)'
  <2>1. k \in Measures
    BY <1>1, WeighedAreMeasures
  <2> DEFINE w == WeightBefore(k, g, GroupEnd)
             v == WeightBefore(k, g, OldPosIn)
             x == Balance(k, c)
             y == Balance(k, d)
             q == PatchesWeight(k, p)
  <2>2. w \in Int /\ v \in Int /\ q = w - v
    BY <1>7, <2>1
  <2>3. x \in Int /\ y = x + q
    BY <1>4, <1>8, <2>1, WeightsAreNumbers
  <2>4. Unmerged(k, 0) = w /\ Unmerged(k, 0)' = v
    BY <1>1, <1>3, <1>12 DEF Unmerged, g
  <2>5. Stored(k, 0)' = Stored(k, 0) /\ x + w = Stored(k, 0)
    BY <1>1, <1>4, <2>4 DEF Stored
  <2> HIDE DEF w, v, x, y, q
  <2>6. y + v = x + w
    BY <2>2, <2>3
  <2>7. QED
    BY <2>4, <2>5, <2>6 DEF y
<1>15. LevelAdds(0)'
  <2>1. Len(d.S.sBuffer) <= setting.TermsInSmall
    BY <1>1, <1>8, ShortSeqs DEF SortTypes, SettingOK
  <2>2. QED
    BY <1>1, <1>3, <1>8, <1>13, <1>14, <2>1, LevelAddsNext
<1>16. ASSUME NEW l \in Levels, l <= sLevel' PROVE LevelAdds(l)'
  <2>1. l = 0
    BY <1>1, <1>3, <1>16 DEF Levels
  <2>2. QED
    BY <1>15, <2>1
<1>17. Keys' = Keys
  BY <1>1 DEF Keys
<1>18. (stored \in [Levels -> [Keys -> Int]])' /\ OutputIsTheSum' /\ CounterIsRight'
  BY <1>1, <1>17 DEF SumInv, OutputIsTheSum, SumOf, CounterIsRight
<1>19. QED
  BY <1>12, <1>16, <1>18 DEF SumInv

LEMMA SumStep ==
  ASSUME AlgorithmsRight, SortInv, SortInv', SumInv, NestedKeepsGroups', [NextSort]_sortvars
  PROVE  SumInv'
<1>1. CASE NewSort
  BY <1>1, NewSortAdds
<1>2. ASSUME NEW term \in Terms, StoreTerm(term) PROVE SumInv'
  BY <1>2, StoreTermAdds
<1>3. CASE EndFromSmallBuffer
  BY <1>3, EndFromSmallBufferAdds
<1>4. CASE EndFromLargeBuffer
  BY <1>4, EndFromLargeBufferAdds
<1>5. CASE EndFromFile
  BY <1>5, EndFromFileAdds
<1>6. CASE LastPass
  BY <1>6, LastPassAdds
<1>7. CASE BeginCycle
  BY <1>7, BeginCycleAdds
<1>8. CASE MergeGroup
  BY <1>8, MergeGroupAdds
<1>9. CASE NoGroup
  BY <1>9, NoGroupAdds
<1>10. CASE UNCHANGED sortvars
  <2>1. /\ setting' = setting /\ sLevel' = sLevel /\ S' = S /\ files' = files
        /\ OldPosOut' = OldPosOut /\ OldPosIn' = OldPosIn /\ merge' = merge
        /\ result' = result /\ counter' = counter /\ stored' = stored
    BY <1>10 DEF sortvars
  <2>2. Keys' = Keys /\ Weighed' = Weighed
    BY <2>1 DEF Keys, Weighed
  <2>3. (stored \in [Levels -> [Keys -> Int]])' /\ OutputIsTheSum' /\ CounterIsRight'
    BY <2>1, <2>2 DEF SumInv, OutputIsTheSum, SumOf, CounterIsRight
  <2>4. MergeAdds'
    BY <2>1 DEF SumInv, MergeAdds, OtherFile, GroupEnd
  <2>5. ASSUME NEW l \in Levels, l <= sLevel' PROVE LevelAdds(l)'
    <3> DEFINE c == Here(l)
    <3>1. LevelAdds(l)
      BY <2>1, <2>5 DEF SumInv
    <3>2. Holds(c) /\ Len(c.S.sBuffer) <= setting.TermsInSmall
      BY <3>1, HereIs DEF LevelAdds
    <3>3. Here(l)' = c
      BY <2>1 DEF Here, OutFile, Merges, File, OtherFile
    <3>4. \A k : Unmerged(k, l)' = Unmerged(k, l) /\ Stored(k, l)' = Stored(k, l)
      BY <2>1 DEF Unmerged, Stored, GroupEnd
    <3>5. \A k \in Weighed : Balance(k, c) + Unmerged(k, l)' = Stored(k, l)'
      BY <3>1, <3>4 DEF LevelAdds
    <3> HIDE DEF c
    <3>6. QED
      BY <2>1, <3>2, <3>3, <3>5, LevelAddsNext
  <2>6. QED
    BY <2>3, <2>4, <2>5 DEF SumInv
<1>11. QED
  BY <1>1, <1>2, <1>3, <1>4, <1>5, <1>6, <1>7, <1>8, <1>9, <1>10
     DEF NextSort, EndSort, MergePatches

\* If the algorithms are right, what EndSort writes is sorted and is the sum of what was
\* stored, in whatever number of buffers, patches, stages and cycles and with whatever nested
\* sorts, as long as none of these takes the groups of the sort around it away.
THEOREM OutputIsRight ==
  ASSUME AlgorithmsRight
  PROVE  SpecSort /\ []NestedKeepsGroups => []OutputIsTheSum
<1>1. InitSort => SumInv
  BY InitSumInv
<1>2. SortInv /\ SortInv' /\ SumInv /\ NestedKeepsGroups' /\ [NextSort]_sortvars => SumInv'
  BY SumStep
<1>3. SumInv => OutputIsTheSum
  BY DEF SumInv
<1>4. QED
  BY <1>1, <1>2, <1>3, SortInvariant, PTL DEF SpecSort

-----------------------------------------------------------------------------
(* The number of terms in the groups of a file that can still be found *)

\* A function that leads from each position to one before it, as from group to group.
LeadsBack(g, a, b, m) ==
  g = [p \in 0..m |->
         IF p = 0 THEN 0 ELSE a[p] + IF b[p] \in 0..p - 1 THEN g[b[p]] ELSE 0]

LEMMA LeadsBackExists ==
  ASSUME NEW a, NEW b, NEW m \in Nat
  PROVE  \E g : LeadsBack(g, a, b, m)
<1> DEFINE R == {i \in Nat : ~ \E g : LeadsBack(g, a, b, i)}
<1>1. SUFFICES ASSUME R # {} PROVE FALSE
  OBVIOUS
<1>2. PICK i \in R : \A j \in R : i <= j
  BY <1>1, SmallestNumber
<1>3. CASE i = 0
  <2>1. LeadsBack([p \in 0..0 |-> 0], a, b, 0)
    BY DEF LeadsBack
  <2>2. QED
    BY <1>2, <1>3, <2>1
<1>4. CASE i # 0
  <2>1. i \in Nat /\ i - 1 \in Nat /\ ~(i <= i - 1)
    BY <1>2, <1>4
  <2>2. PICK g : LeadsBack(g, a, b, i - 1)
    BY <1>2, <2>1
  <2> DEFINE e(h, p) == IF p = 0 THEN 0 ELSE a[p] + IF b[p] \in 0..p - 1 THEN h[b[p]] ELSE 0
             n == [p \in 0..i |-> IF p = i THEN e(g, i) ELSE g[p]]
  <2>3. \A p \in 0..i - 1 : n[p] = g[p]
    BY <2>1
  <2>4. \A p \in 0..i - 1 : g[p] = e(g, p)
    BY <2>2 DEF LeadsBack
  <2> HIDE DEF n
  <2>5. \A p \in 0..i : e(n, p) = e(g, p)
    <3>1. ASSUME NEW p \in 0..i, p # 0, b[p] \in 0..p - 1 PROVE n[b[p]] = g[b[p]]
      BY <2>1, <2>3, <3>1
    <3>2. QED
      BY <3>1
  <2>6. n = [p \in 0..i |-> e(n, p)]
    <3>1. \A p \in 0..i : (IF p = i THEN e(g, i) ELSE g[p]) = e(n, p)
      <4> HIDE DEF e
      <4>1. QED
        BY <2>1, <2>4, <2>5
    <3> HIDE DEF e
    <3>2. QED
      BY <3>1 DEF n
  <2>7. LeadsBack(n, a, b, i)
    BY <2>6 DEF LeadsBack
  <2>8. QED
    BY <1>2, <2>7
<1>5. QED
  BY <1>3, <1>4

\* Following the lists from the last patches of a file, every term is found once.
LEMMA InFileIs ==
  ASSUME NEW f, FileOK(files[f]), Contents(files[f]), NEW patches, NEW before, NEW e,
         GroupOf(files[f], patches, before, e)
  PROVE  InFile(f, patches, before) = WeightBefore(-1, files[f], e)
<1> DEFINE m == End(files[f])
           w(p) == WeightBefore(-1, files[f], p)
           list(p) == files[f].data[p + 1]
           a == [p \in 0..m |-> NumberIn(PatchesOf(f, list(p).patches))]
           b == [p \in 0..m |-> list(p).before]
           IsIt(g) == g = [p \in 0..m |->
             IF p = 0 THEN 0
             ELSE NumberIn(PatchesOf(f, list(p).patches))
                  + IF list(p).before \in 0..p - 1 THEN g[list(p).before] ELSE 0]
           Behind == CHOOSE g : IsIt(g)
<1>1. m \in Nat /\ -1 \in Measures
  BY OneMore, MeasureFacts DEF FileOK, FileIn, IsFile, End
<1>2. ASSUME NEW q, NEW from, NEW to, GroupOf(files[f], q, from, to)
      PROVE  /\ NumberIn(PatchesOf(f, q)) = w(to) - w(from)
             /\ w(to) \in Int /\ w(from) \in Int /\ w(0) = 0
  <2>1. PatchesOf(f, q) = PatchesIn(files[f], q)
    BY DEF PatchesOf, PatchesIn
  <2>2. QED
    BY <1>1, <1>2, <2>1, GroupWeighs, NumberIsWeight
<1> HIDE DEF m, w
<1>3. IsIt(Behind)
  <2>1. PICK g : LeadsBack(g, a, b, m)
    BY <1>1, LeadsBackExists
  <2>2. \A p \in 0..m :
          (IF p = 0 THEN 0 ELSE a[p] + IF b[p] \in 0..p - 1 THEN g[b[p]] ELSE 0)
          = (IF p = 0 THEN 0
             ELSE NumberIn(PatchesOf(f, list(p).patches))
                  + IF list(p).before \in 0..p - 1 THEN g[list(p).before] ELSE 0)
    OBVIOUS
  <2>3. IsIt(g)
    <3> HIDE DEF a, b, list
    <3>1. QED
      BY <2>1, <2>2 DEF LeadsBack
  <2>4. QED
    BY <2>3
<1>4. InFile(f, patches, before) = NumberIn(PatchesOf(f, patches)) + Behind[before]
  BY DEF InFile, m
<1>5. \A p \in 0..m : Behind[p] =
        IF p = 0 THEN 0
        ELSE NumberIn(PatchesOf(f, list(p).patches))
             + IF list(p).before \in 0..p - 1 THEN Behind[list(p).before] ELSE 0
  <2> HIDE DEF Behind
  <2>1. QED
    BY <1>3
<1> HIDE DEF Behind, a, b
<1> DEFINE R == {p \in Nat : /\ p <= m /\ (p # 0 => p + 1 <= m /\ IsList(files[f].data[p + 1]))
                             /\ Behind[p] # w(p)}
<1>6. R = {}
  <2>1. SUFFICES ASSUME R # {} PROVE FALSE
    OBVIOUS
  <2>2. PICK p \in R : \A j \in R : p <= j
    BY <2>1, SmallestNumber
  <2>3. w(0) = 0 /\ Behind[0] = 0
    BY <1>1, <1>2, <1>5
  <2>4. /\ p \in 1..m /\ p + 1 \in 1..m /\ p + 1 - 1 = p /\ IsList(list(p))
    BY <1>1, <2>2, <2>3
  <2>5. GroupOf(files[f], list(p).patches, list(p).before, p)
    <3>1. PICK i \in 1..m : i = p + 1 /\ i - 1 = p
      BY <2>4
    <3>2. IsList(files[f].data[i])
      BY <2>4, <3>1
    <3>3. GroupOf(files[f], files[f].data[i].patches, files[f].data[i].before, i - 1)
      BY <3>2 DEF Contents, m
    <3>4. files[f].data[i] = list(p)
      BY <3>1
    <3> HIDE DEF list
    <3>5. QED
      BY <3>1, <3>3, <3>4
  <2> DEFINE x == list(p).before
  <2>6. /\ x \in Nat /\ x \in 0..p - 1 /\ x <= m
        /\ x # 0 => x + 1 <= m /\ IsList(files[f].data[x + 1])
    <3> HIDE DEF list
    <3>1. /\ x \in Nat /\ (x # 0 => x \in 1..p - 1 /\ IsList(files[f].data[x + 1]))
      BY <2>5, GroupNumbers
    <3>2. QED
      BY <1>1, <2>4, <3>1
  <2>7. NumberIn(PatchesOf(f, list(p).patches)) = w(p) - w(x) /\ w(p) \in Int /\ w(x) \in Int
    <3> HIDE DEF list
    <3>1. QED
      BY <1>2, <2>5
  <2>8. Behind[p] = NumberIn(PatchesOf(f, list(p).patches)) + Behind[x]
    <3> HIDE DEF list
    <3>1. QED
      BY <1>5, <2>4, <2>6
  <2> HIDE DEF x
  <2>9. Behind[x] = w(x)
    BY <2>2, <2>4, <2>6
  <2>10. Behind[p] = w(p)
    BY <2>7, <2>8, <2>9
  <2>11. QED
    BY <2>2, <2>10
<1>7. /\ before \in Nat /\ e \in Nat /\ e <= m
      /\ before # 0 => before \in 1..e - 1 /\ IsList(files[f].data[before + 1])
  BY GroupNumbers DEF m
<1>8. Behind[before] = w(before)
  BY <1>1, <1>6, <1>7
<1>9. NumberIn(PatchesOf(f, patches)) = w(e) - w(before) /\ w(e) \in Int /\ w(before) \in Int
  BY <1>2
<1>10. QED
  BY <1>4, <1>8, <1>9 DEF w

\* The file that a level writes: every term in it is counted.
LEMMA OpenFileCounted ==
  ASSUME NEW f, NEW c, Holds(c), c.fout = files[f], c.fout.open
  PROVE  InFile(f, c.S.fPatches, c.OldPosOut) = FileWeight(-1, files[f])
<1>1. /\ FileOK(files[f]) /\ Contents(files[f])
      /\ GroupOf(files[f], c.S.fPatches, c.OldPosOut, End(files[f]))
  BY DEF Holds, ContextOK, OpenGroup
<1>2. QED
  BY <1>1, InFileIs DEF FileWeight

\* What is held is what was stored.
LEMMA LevelCounts ==
  ASSUME SortInv, SumInv, NEW level \in Levels, level <= sLevel
  PROVE  S[level].TermsLeft = Held(level)
<1> DEFINE c == Here(level)
           n == Len(S[level].sBuffer)
           p == NumberIn(S[level].Patches)
           w == FileWeight(-1, c.fout)
           u == Unmerged(-1, level)
           t == S[level].TermsLeft
<1>1. /\ SortTypes /\ FilesOK /\ NestedIsSimple /\ LevelAdds(level) /\ MergeAdds
      /\ level \in {0, 1}
  BY DEF SortInv, SumInv, Levels
<1>2. /\ Holds(c) /\ c.S = S[level] /\ c.fout = files[OutFile(level)] /\ c.OldPosOut = OldPosOut
      /\ Balance(-1, c) + u = 0
  <2>1. -1 \in Weighed
    BY <1>1, WeighedAreMeasures
  <2>2. Balance(-1, c) + u = Stored(-1, level)
    BY <1>1, <2>1 DEF LevelAdds
  <2>3. QED
    BY <1>1, <2>2, HereIs DEF LevelAdds, Stored
<1>3. Balance(-1, c) = n + p - t + w
  BY <1>2, NumberIsWeight DEF Balance, LevelWeight, Weight, Counted
<1>4. n \in Int /\ p \in Int /\ t \in Int /\ w \in Int
  <2>1. -1 \in Measures /\ LevelHolds(c.S)
    BY <1>2, MeasureFacts DEF Holds
  <2>2. /\ Weight(-1, c.S.sBuffer) \in Int /\ PatchesWeight(-1, c.S.Patches) \in Int
        /\ FileWeight(-1, c.fout) \in Int /\ c.S.TermsLeft \in Int
    BY <1>2, <2>1, WeightsAreNumbers DEF LevelHolds
  <2>3. QED
    BY <1>2, <2>2, NumberIsWeight DEF Weight
<1> HIDE DEF c, n, p, w, u, t
<1>5. u \in Int => t = n + p + u + w
  BY <1>2, <1>3, <1>4
<1>6. CASE Merges(level)
  <2>1. /\ level = sLevel /\ merge.at \in {"newmerge", "group"} /\ c.fout.open
    <3>1. level = sLevel /\ merge.at \in {"newmerge", "group"}
      BY <1>6 DEF Merges
    <3>2. QED
      BY <3>1, MergingHere DEF c
  <2> DEFINE f == IF merge.at = "group" THEN OtherFile(merge.fin) ELSE merge.fin
  <2>2. OutFile(level) = f
    BY <1>6 DEF OutFile
  <2> HIDE DEF f
  <2>3. InFile(f, S[level].fPatches, OldPosOut) = w
    BY <1>2, <2>1, <2>2, OpenFileCounted DEF w
  <2>4. CASE merge.at = "group"
    <3>1. /\ Contents(files[merge.fin]) /\ FileOK(files[merge.fin])
          /\ GroupOf(files[merge.fin], merge.iPatches, OldPosIn, GroupEnd)
      BY <1>1, <2>4 DEF MergeAdds, FilesOK, SortTypes
    <3>2. u = WeightBefore(-1, files[merge.fin], GroupEnd)
      BY <2>1, <2>4 DEF u, Unmerged
    <3>3. InFile(merge.fin, merge.iPatches, OldPosIn) = u
      BY <3>1, <3>2, InFileIs
    <3>4. u \in Int
      BY <3>1, <3>2, GroupWeighs, MeasureFacts
    <3>5. Held(level) = n + p + u + w
      BY <2>1, <2>3, <2>4, <3>3 DEF Held, n, p, f
    <3>6. QED
      BY <1>5, <3>4, <3>5 DEF t
  <2>5. CASE merge.at # "group"
    <3>1. u = 0
      BY <2>5 DEF u, Unmerged
    <3>2. Held(level) = n + p + 0 + w
      BY <2>1, <2>3, <2>5 DEF Held, n, p, f
    <3>3. QED
      BY <1>5, <3>1, <3>2 DEF t
  <2>6. QED
    BY <2>4, <2>5
<1>7. CASE ~Merges(level)
  <2>1. ~(merge.at \in {"newmerge", "group"} /\ level = sLevel) /\ OutFile(level) = File(level)
    BY <1>7 DEF Merges, OutFile
  <2>2. u = 0
    BY <2>1 DEF u, Unmerged
  <2> DEFINE x == IF files[File(level)].open
                  THEN InFile(File(level), S[level].fPatches, IF level = 0 THEN OldPosOut ELSE 0)
                  ELSE 0
  <2>3. Held(level) = n + p + 0 + x
    BY <2>1 DEF Held, n, p
  <2>4. x = w
    <3>1. CASE files[File(level)].open
      <4>1. level = 1 => OldPosOut = 0
        BY <1>1, <3>1 DEF NestedIsSimple, File
      <4>2. (IF level = 0 THEN OldPosOut ELSE 0) = OldPosOut
        BY <1>1, <4>1
      <4>3. InFile(File(level), S[level].fPatches, OldPosOut) = w
        BY <1>2, <2>1, <3>1, OpenFileCounted DEF w
      <4>4. QED
        BY <3>1, <4>2, <4>3
    <3>2. CASE ~files[File(level)].open
      <4>1. FileOK(c.fout) /\ -1 \in Measures
        BY <1>2, MeasureFacts DEF Holds, ContextOK
      <4>2. w = 0
        BY <1>2, <2>1, <3>2, <4>1, ClosedFile DEF w
      <4>3. QED
        BY <3>2, <4>2
    <3>3. QED
      BY <3>1, <3>2
  <2> HIDE DEF x
  <2>5. QED
    BY <1>4, <1>5, <2>2, <2>3, <2>4 DEF t
<1>8. QED
  BY <1>6, <1>7

\* If the algorithms are right, the counter TermsLeft is at every moment the number of terms
\* that the buffers and the files hold, also in the middle of a stage or a cycle of
\* MergePatches, and the count that the expression gets is that of its terms.
THEOREM CountIsRight ==
  ASSUME AlgorithmsRight
  PROVE  SpecSort /\ []NestedKeepsGroups => []TermsLeftExact
<1>1. InitSort => SumInv
  BY InitSumInv
<1>2. SortInv /\ SortInv' /\ SumInv /\ NestedKeepsGroups' /\ [NextSort]_sortvars => SumInv'
  BY SumStep
<1>3. SortInv /\ SumInv => TermsLeftExact
  <2>1. ASSUME SortInv, SumInv PROVE \A level \in 0..sLevel : S[level].TermsLeft = Held(level)
    <3>1. \A level \in 0..sLevel : level \in Levels /\ level <= sLevel
      BY <2>1 DEF SortInv, SortTypes, Levels
    <3>2. QED
      BY <2>1, <3>1, LevelCounts
  <2>2. QED
    BY <2>1 DEF TermsLeftExact, SumInv, CounterIsRight
<1>4. QED
  BY <1>1, <1>2, <1>3, SortInvariant, PTL DEF SpecSort
=============================================================================
