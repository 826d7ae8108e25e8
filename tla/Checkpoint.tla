---------------------------- MODULE Checkpoint ----------------------------
(***************************************************************************)
(* Snapshots and recovery of FORM (form/sources/checkpoint.c): the files   *)
(* on disk that a snapshot writes and a recovery reads, over runs that may *)
(* crash between any two steps and be started again with or without -R.    *)
(*                                                                         *)
(* The content of a file is the point it was saved at: which computation,  *)
(* and after which of its modules.  A file that fopen has truncated and    *)
(* that is not written to its end has the content Partial.  This is the    *)
(* sequential program and TFORM; ParFORM sends the files of its slaves to  *)
(* the master and renames them there.                                      *)
(***************************************************************************)
EXTENDS Integers, Sequences

CONSTANTS Modules,      \* modules of the user's program
          MaxStarts,    \* bound: how often the program is started
          MaxFailures   \* bound: file operations of snapshots that fail

ASSUME CheckpointBounds ==
  Modules \in Nat \ {0} /\ MaxStarts \in Nat /\ MaxFailures \in Nat

Files == {"store", "sort", "hide"}
CopyOrder == <<"store", "sort", "hide">>   \* of DoSnapshot and DeleteRecoveryFile

VARIABLES
  recovery,       \* FORMrecv.tmp
  intermed,       \* FORMrecv.XXX
  copies,         \* FORMrecv.str, FORMrecv.out, FORMrecv.hid
  ondisk,         \* the scratch files that hold something after each module
  scratch,        \* the content of the scratch files of the running process
  run, module,    \* the computation, and the modules of it that are done
  done_snapshot,
  pc, next,       \* where the process is; the next file of CopyOrder
  starts, failures

diskvars  == <<recovery, intermed, copies>>
boundvars == <<starts, failures>>
vars == <<diskvars, ondisk, scratch, run, module, done_snapshot, pc, next, boundvars>>

Point(r, m) == [run |-> r, module |-> m]
Absent  == Point(0, 0)
Partial == Point(0, 1)
Now     == Point(run, module)

-----------------------------------------------------------------------------
(* Start-up: CheckRecoveryFile, then DoRecovery for a run with -R *)

RefusesOnlyMissingFile(withR) == withR /\ recovery = Absent

\* A recovery file without -R, and -R without a recovery file, end the run.
Refuses(withR) == withR # (recovery # Absent)

CheckRecoveryFile(withR) ==
  /\ pc \in {"down", "ended"} /\ starts < MaxStarts
  /\ starts' = starts + 1
  /\ IF Refuses(withR)
     THEN pc' = "down" /\ UNCHANGED <<run, module, scratch>>
     ELSE IF withR
     THEN pc' = "recover" /\ UNCHANGED <<run, module, scratch>>
     ELSE /\ pc' = "module"
          /\ run' = starts + 1
          /\ module' = 0
          /\ scratch' = [f \in Files |-> Absent]
  /\ done_snapshot' = FALSE
  /\ UNCHANGED <<diskvars, ondisk, next, failures>>

NoRecoveredMark == UNCHANGED done_snapshot
RecoveredMark == done_snapshot' = TRUE

\* A copy that the recovery file asks for and that is missing ends the run; one
\* with other content is taken as it is.
DoRecovery ==
  /\ pc = "recover"
  /\ LET needed == ondisk[recovery.module] IN
     IF \E f \in needed : copies[f] = Absent
     THEN pc' = "down" /\ UNCHANGED <<run, module, scratch, done_snapshot>>
     ELSE /\ pc' = "module"
          /\ run' = recovery.run /\ module' = recovery.module
          /\ scratch' = [f \in Files |-> IF f \in needed THEN copies[f] ELSE Absent]
          /\ RecoveredMark
  /\ UNCHANGED <<diskvars, ondisk, next, boundvars>>

-----------------------------------------------------------------------------
(* The modules of the program.  The last one ends with .end and makes no   *)
(* snapshot.                                                               *)

RunModule ==
  /\ pc = "module" /\ module < Modules
  /\ module' = module + 1
  /\ scratch' = [f \in Files |-> IF f \in ondisk[module'] THEN Point(run, module')
                                         ELSE Absent]
  /\ pc' = IF module' = Modules THEN "finish" ELSE "checkpoint"
  /\ UNCHANGED <<diskvars, ondisk, run, done_snapshot, next, boundvars>>

\* DoCheckpoint: the interval has not passed, the script says no, or DoSnapshot
\* cannot open its file.
SkipSnapshot ==
  /\ pc = "checkpoint" /\ pc' = "module"
  /\ UNCHANGED <<diskvars, ondisk, scratch, run, module, done_snapshot, next, boundvars>>

-----------------------------------------------------------------------------
(* DoSnapshot *)

OpenIntermediateFile == intermed' = Partial /\ UNCHANGED recovery

BeginSnapshot ==
  /\ pc = "checkpoint" /\ pc' = "write"
  /\ OpenIntermediateFile
  /\ UNCHANGED <<copies, ondisk, scratch, run, module, done_snapshot, next, boundvars>>

CloseIntermediateFile ==
  /\ pc = "write" /\ pc' = "copy"
  /\ intermed' = Now
  /\ next' = 1
  /\ UNCHANGED <<recovery, copies, ondisk, scratch, run, module, done_snapshot, boundvars>>

NextFile == next' = next + 1

NotNeeded ==
  /\ pc = "copy" /\ next <= Len(CopyOrder) /\ CopyOrder[next] \notin ondisk[module]
  /\ NextFile
  /\ UNCHANGED <<diskvars, ondisk, scratch, run, module, done_snapshot, pc, boundvars>>

\* CopyFile truncates its destination, then fills it.
BeginCopy ==
  /\ pc = "copy" /\ next <= Len(CopyOrder) /\ CopyOrder[next] \in ondisk[module]
  /\ copies' = [copies EXCEPT ![CopyOrder[next]] = Partial]
  /\ pc' = "copying"
  /\ UNCHANGED <<recovery, intermed, ondisk, scratch, run, module, done_snapshot,
                 next, boundvars>>

EndCopy ==
  /\ pc = "copying" /\ pc' = "copy"
  /\ copies' = [copies EXCEPT ![CopyOrder[next]] = scratch[CopyOrder[next]]]
  /\ NextFile
  /\ UNCHANGED <<recovery, intermed, ondisk, scratch, run, module, done_snapshot, boundvars>>

RenameIntermediate ==
  /\ pc = "copy" /\ next > Len(CopyOrder)
  /\ recovery' = intermed /\ intermed' = Absent
  /\ done_snapshot' = TRUE
  /\ pc' = "module"
  /\ UNCHANGED <<copies, ondisk, scratch, run, module, next, boundvars>>

\* Any file operation may fail; DoCheckpoint reports it and the run goes on.
SnapshotFails ==
  /\ pc \in {"write", "copy", "copying"} /\ failures < MaxFailures
  /\ failures' = failures + 1
  /\ pc' = "module"
  /\ UNCHANGED <<diskvars, ondisk, scratch, run, module, done_snapshot, next, starts>>

-----------------------------------------------------------------------------
(* The end of a successful run: CleanUp calls DeleteRecoveryFile *)

RemoveCopiesFirst ==
  IF copies # [f \in Files |-> Absent]
  THEN copies' = [f \in Files |-> Absent] /\ UNCHANGED recovery
  ELSE recovery # Absent /\ recovery' = Absent /\ UNCHANGED copies

RemoveRecoveryFileFirst ==
  IF recovery # Absent
  THEN recovery' = Absent /\ UNCHANGED copies
  ELSE /\ \E i \in DOMAIN CopyOrder :
            /\ copies[CopyOrder[i]] # Absent
            /\ \A j \in 1..i-1 : copies[CopyOrder[j]] = Absent
            /\ copies' = [copies EXCEPT ![CopyOrder[i]] = Absent]
       /\ UNCHANGED recovery

DeleteRecoveryFile ==
  /\ pc = "finish" /\ done_snapshot
  /\ RemoveRecoveryFileFirst
  /\ UNCHANGED <<intermed, ondisk, scratch, run, module, done_snapshot, pc, next, boundvars>>

Finish ==
  /\ pc = "finish"
  /\ done_snapshot => recovery = Absent /\ copies = [f \in Files |-> Absent]
  /\ pc' = "ended"
  /\ UNCHANGED <<diskvars, ondisk, scratch, run, module, done_snapshot, next, boundvars>>

\* The process is killed, or ends with an error: the files stay as they are.
Crash ==
  /\ pc \notin {"down", "ended"} /\ pc' = "down"
  /\ UNCHANGED <<diskvars, ondisk, scratch, run, module, done_snapshot, next, boundvars>>

Init ==
  /\ recovery = Absent /\ intermed = Absent
  /\ copies = [f \in Files |-> Absent]
  /\ ondisk \in [1..Modules -> SUBSET Files]
  /\ scratch = [f \in Files |-> Absent]
  /\ run = 0 /\ module = 0
  /\ done_snapshot = FALSE
  /\ pc = "down" /\ next = 1
  /\ starts = 0 /\ failures = 0

Next ==
  \/ \E withR \in BOOLEAN : CheckRecoveryFile(withR)
  \/ DoRecovery \/ RunModule \/ SkipSnapshot
  \/ BeginSnapshot \/ CloseIntermediateFile \/ NotNeeded \/ BeginCopy \/ EndCopy
  \/ RenameIntermediate \/ SnapshotFails
  \/ DeleteRecoveryFile \/ Finish \/ Crash

Spec == Init /\ [][Next]_vars

-----------------------------------------------------------------------------
Points == {Absent, Partial} \cup [run : 1..MaxStarts, module : 1..Modules]

TypeOK ==
  /\ {recovery, intermed} \subseteq Points
  /\ copies \in [Files -> Points] /\ scratch \in [Files -> Points]
  /\ ondisk \in [1..Modules -> SUBSET Files]
  /\ run \in 0..MaxStarts /\ module \in 0..Modules
  /\ done_snapshot \in BOOLEAN
  /\ pc \in {"down", "recover", "module", "checkpoint", "write", "copy", "copying",
             "finish", "ended"}
  /\ next \in 1..Len(CopyOrder) + 1
  /\ starts \in 0..MaxStarts /\ failures \in 0..MaxFailures

\* What a snapshot has saved is never lost before its program ends: whatever
\* crashes, fails or is started again, the recovery file only gives way to a later
\* point of the same computation, or to the end of the program (the rename, and
\* CheckRecoveryFile, which ends a start that was not meant to recover).
SavedPointIsKept ==
  [][recovery # Absent /\ recovery' # recovery =>
       \/ recovery' = Absent /\ pc = "finish" /\ run = recovery.run
       \/ recovery'.run = recovery.run /\ recovery'.module > recovery.module]_vars

\* A program that ends without error leaves no recovery file behind, which
\* would stop the next start without -R; also when its only snapshot was made
\* by an earlier process that it was recovered from.
CleanEnd == pc = "ended" => recovery = Absent

\* What the recovery file needs is there, with the content it had at that point.
Recoverable ==
  recovery \notin {Absent, Partial} =>
    \A f \in ondisk[recovery.module] : copies[f] = recovery

\* Only the copying of a later snapshot can make a recovery point unusable; the
\* clean-up of a successful run, killed half-way, cannot (the recovery file goes
\* before the copies it needs).
BrokenOnlyByCopying == [][Recoverable /\ ~Recoverable' => pc = "copy"]_vars

=============================================================================
