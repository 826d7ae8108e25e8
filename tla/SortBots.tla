------------------------------ MODULE SortBots ------------------------------
(***************************************************************************)
(* The sortbots of TFORM (form/sources/threads.c).  With more than two     *)
(* workers the sorted outputs of the workers are merged by a tree of extra *)
(* threads, each of which merges two streams into one; the master makes    *)
(* the last merge.  The sortbots have their own way of being available (a  *)
(* counter, no list), which shares its lock with the workers and has a     *)
(* condition variable of its own.                                          *)
(*                                                                         *)
(* A stream is the ring of blocks that SortBlocks models word by word.     *)
(* Here a block has room for one term or the end mark, so that every term  *)
(* takes a step from block to block; what a block held before stays in it. *)
(* The pool that the workers come from is modelled in ThreadPool.          *)
(***************************************************************************)
EXTENDS Integers, Sequences, FiniteSetsExt

CONSTANTS NumberOfWorkers,
          MasterNumBlocks,   \* blocks in each ring
          Inputs,            \* the outputs of the workers that are tried: functions from
                             \* workers to sorted sequences of terms <<key, coefficient>>
          MaxExpressions     \* bound: expressions sorted

ASSUME TreeAssumption ==
  /\ NumberOfWorkers \in Nat /\ NumberOfWorkers > 2
  /\ MasterNumBlocks \in Nat /\ MasterNumBlocks > 2
  /\ MaxExpressions \in Nat

Master   == 0
Workers  == 1..NumberOfWorkers
SortBots == NumberOfWorkers + 1..2 * NumberOfWorkers - 2
Readers  == SortBots \cup {Master}
Threads  == Readers \cup Workers
numberofsortbots == NumberOfWorkers - 2

\* Every worker and every sortbot writes a stream of the same number.
Streams == Workers \cup SortBots
Blocks  == Streams \X (1..MasterNumBlocks)

ASSUME InputsAssumption ==
  \A input \in Inputs :
    /\ input \in [Workers -> Seq(Nat \X Int)]
    /\ \A w \in Workers :
         /\ \A i \in DOMAIN input[w] : input[w][i][1] > 0 /\ input[w][i][2] # 0
         /\ \A i \in 2..Len(input[w]) : input[w][i-1][1] < input[w][i][1]

End     == <<0, 0>>    \* the word 0 that ends a stream
Garbage == <<0, 1>>    \* part of a term, or what was never written

\* The tree: SortBotIn1 and SortBotIn2 (n = 1, 2) of each reader, the master's last.
SortBotIn(r, n) ==
  LET k == IF r = Master THEN NumberOfWorkers - 1 ELSE r - NumberOfWorkers
  IN  2 * (k - 1) + n

VARIABLES
  pc,                    \* where each thread is
  topsortbotavailables,  \* sortbots counted as available
  wakeup,                \* signal pending for each sortbot
  numberclaimed,         \* workers that have claimed their first block
  target,                \* in the loops of the master: the thread to be woken next
  MasterBlockLock,       \* the thread that holds each block
  memory,                \* the term in each block
  FillBlock,             \* the block each stream is being written to
  full,                  \* whether that block has its term
  blin,                  \* the block each reader reads in each of its two inputs
  todo,                  \* what each worker has still to write
  input,                 \* the outputs of the workers for this expression
  output,                \* what the master has written to the output file
  expressions            \* expressions done

signals  == <<topsortbotavailables, wakeup, numberclaimed, target>>
rings    == <<MasterBlockLock, memory, FillBlock, full, blin>>
job      == <<input, output, expressions>>
vars == <<pc, signals, rings, todo, job>>

Free == -1
After(j) == IF j = MasterNumBlocks THEN 1 ELSE j + 1
Before(j) == IF j = 1 THEN MasterNumBlocks ELSE j - 1

Goto(t, place) == pc' = [pc EXCEPT ![t] = place]

IsFree(b) == MasterBlockLock[b] = Free
\* LOCK of the blocks acquired, then UNLOCK of the blocks released: nobody can tell
\* whether something happened between an acquisition and the releases after it.
Relock(t, acquired, released) ==
  MasterBlockLock' = [b \in Blocks |-> IF b \in released THEN Free
                                       ELSE IF b \in acquired THEN t
                                       ELSE MasterBlockLock[b]]

LastBlock(s)  == <<s, MasterNumBlocks>>
FirstBlock(s) == <<s, 1>>

-----------------------------------------------------------------------------
(* Waiting and waking *)

\* SortBotWait: LOCK(wakeuplocks), count under availabilitylock, and tell the master
\* when all are there.  Where pc is "tell" the thread keeps wakeuplocks[t].
EnterWait(t) ==
  /\ pc[t] = "enter"
  /\ topsortbotavailables' = topsortbotavailables + 1
  /\ Goto(t, IF topsortbotavailables' >= numberofsortbots THEN "tell" ELSE "wait")
  /\ UNCHANGED <<wakeup, numberclaimed, target, rings, todo, job>>

\* The signal reaches the master only when it sleeps on wakeupsortbotconditions.
TellMaster(t) ==
  /\ pc[t] = "tell"
  /\ pc' = [pc EXCEPT ![t] = "wait",
                      ![Master] = CASE @ = "startasleep" -> "start"
                                    [] @ = "iniasleep"   -> "waitini"
                                    [] @ = "endasleep"   -> "waitend"
                                    [] OTHER -> @]
  /\ UNCHANGED <<signals, rings, todo, job>>

\* The loop around pthread_cond_wait and the return with the signal.
TakeSignal(t) ==
  /\ pc[t] = "wait" /\ wakeup[t] # "none"
  /\ wakeup' = [wakeup EXCEPT ![t] = "none"]
  /\ Goto(t, CASE wakeup[t] = "INISORTBOT" -> "ini"
               [] wakeup[t] = "RUNSORTBOT" -> "in1"
               [] wakeup[t] = "TERMINATETHREAD" -> "ended")
  /\ UNCHANGED <<topsortbotavailables, numberclaimed, target, rings, todo, job>>

\* WakeupThread for a sortbot, inside a loop over all of them.
WakeSortBot(place, signal, after) ==
  /\ pc[Master] = place
  /\ pc[target] # "tell"
  /\ wakeup' = [wakeup EXCEPT ![target] = signal]
  /\ IF target = 2 * NumberOfWorkers - 2
     THEN target' = NumberOfWorkers + 1 /\ Goto(Master, after)
     ELSE target' = target + 1 /\ UNCHANGED pc
  /\ UNCHANGED <<topsortbotavailables, numberclaimed, rings, todo, job>>

AllButOneSortBots == topsortbotavailables >= numberofsortbots - 1   \* mutant
AllSortBots == topsortbotavailables >= numberofsortbots

\* MasterWaitAllSortBots
MasterWaitAllSortBots(place, asleep, after) ==
  /\ pc[Master] = place
  /\ Goto(Master, IF AllSortBots THEN after ELSE asleep)
  /\ UNCHANGED <<signals, rings, todo, job>>

-----------------------------------------------------------------------------
(* INISORTBOT: the first block to write in, the last blocks of both inputs *)

ClaimOwnFirstBlock(t) ==
  /\ pc[t] = "ini" /\ IsFree(FirstBlock(t))
  /\ Relock(t, {FirstBlock(t)}, {})
  /\ Goto(t, "ini1")
  /\ UNCHANGED <<signals, memory, FillBlock, full, blin, todo, job>>

ClaimLastBlock(t, n, place, after) ==
  /\ pc[t] = place /\ IsFree(LastBlock(SortBotIn(t, n)))
  /\ Relock(t, {LastBlock(SortBotIn(t, n))}, {})
  /\ Goto(t, after)

ClaimLastOfIn1(t) ==
  /\ ClaimLastBlock(t, 1, "ini1", "ini2")
  /\ UNCHANGED <<signals, memory, FillBlock, full, blin, todo, job>>

ClaimLastOfIn2(t) ==
  /\ ClaimLastBlock(t, 2, "ini2", "enter")
  /\ FillBlock' = [FillBlock EXCEPT ![t] = 1]
  /\ full' = [full EXCEPT ![t] = FALSE]
  /\ UNCHANGED <<signals, memory, blin, todo, job>>

-----------------------------------------------------------------------------
(* Writing a stream *)

NextFill(s) == IF full[s] THEN After(FillBlock[s]) ELSE FillBlock[s]

\* The contents of the blocks: a term is written, the blocks of "spoilt" are overwritten.
Write(written, term, spoilt) ==
  memory' = [b \in Blocks |-> IF b \in written THEN term
                             ELSE IF b \in spoilt THEN Garbage ELSE memory[b]]

\* PutToMaster: a full block is left when the next one has been locked.  "released" is
\* unlocked afterwards.
PutToMaster(s, term, spoilt, released) ==
  LET b == <<s, NextFill(s)>>
  IN  /\ full[s] => IsFree(b)
      /\ Relock(s, {b}, released \cup (IF full[s] THEN {<<s, FillBlock[s]>>} ELSE {}))
      /\ Write({b}, term, spoilt)
      /\ FillBlock' = [FillBlock EXCEPT ![s] = NextFill(s)]
      /\ full' = [full EXCEPT ![s] = TRUE]

\* SortBotOut: the master writes to the file.
SortBotOut(r, term, spoilt, released) ==
  IF r # Master
  THEN PutToMaster(r, term, spoilt, released) /\ UNCHANGED output
  ELSE /\ output' = IF term = End THEN output ELSE Append(output, term)
       /\ Relock(Master, {}, released)
       /\ Write({}, term, spoilt)
       /\ UNCHANGED <<FillBlock, full>>

\* FINISHEXPRESSION in a worker: claim block 1, say so, write, release the last block.
WorkerClaims(w) ==
  /\ pc[w] = "claim" /\ IsFree(FirstBlock(w))
  /\ Relock(w, {FirstBlock(w)}, {})
  /\ FillBlock' = [FillBlock EXCEPT ![w] = 1]
  /\ full' = [full EXCEPT ![w] = FALSE]
  /\ Goto(w, "claimed")
  /\ UNCHANGED <<signals, memory, blin, todo, job>>

\* ThreadClaimedBlock: the counter under availabilitylock, ...
ThreadClaimedBlock(w) ==
  /\ pc[w] = "claimed"
  /\ numberclaimed' = numberclaimed + 1
  /\ Goto(w, IF numberclaimed' >= NumberOfWorkers THEN "tellclaim" ELSE "write")
  /\ UNCHANGED <<topsortbotavailables, wakeup, target, rings, todo, job>>

\* ... the signal under wakeupmasterlock.
TellClaimed(w) ==
  /\ pc[w] = "tellclaim"
  /\ pc' = [pc EXCEPT ![w] = "write",
                      ![Master] = IF @ = "claimasleep" THEN "waitblocks" ELSE @]
  /\ UNCHANGED <<signals, rings, todo, job>>

WorkerPuts(w) ==
  /\ pc[w] = "write" /\ todo[w] # <<>>
  /\ PutToMaster(w, Head(todo[w]), {}, {})
  /\ todo' = [todo EXCEPT ![w] = Tail(@)]
  /\ UNCHANGED <<pc, signals, blin, job>>

WorkerKeepsBlock(w) ==   \* mutant: the last block is not released
  /\ pc[w] = "write" /\ todo[w] = <<>>
  /\ PutToMaster(w, End, {}, {})
  /\ Goto(w, "idle")
  /\ UNCHANGED <<signals, blin, todo, job>>

WorkerEnds(w) ==
  /\ pc[w] = "write" /\ todo[w] = <<>>
  /\ PutToMaster(w, End, {}, {<<w, NextFill(w)>>})
  /\ Goto(w, "idle")
  /\ UNCHANGED <<signals, blin, todo, job>>

-----------------------------------------------------------------------------
(* SortBotMerge, run by each sortbot and by the master *)

In(r, n)   == <<SortBotIn(r, n), blin[r][n]>>          \* the block read in input n
Behind(r, n) == <<SortBotIn(r, n), Before(blin[r][n])>>  \* the block before it

StartMerge(r) ==
  /\ pc[r] = "in1" /\ IsFree(FirstBlock(SortBotIn(r, 1)))
  /\ Relock(r, {FirstBlock(SortBotIn(r, 1))}, {})
  /\ blin' = [blin EXCEPT ![r] = <<1, 1>>]
  /\ Goto(r, "in2")
  /\ UNCHANGED <<signals, memory, FillBlock, full, todo, job>>

StartMergeIn2(r) ==
  /\ pc[r] = "in2" /\ IsFree(FirstBlock(SortBotIn(r, 2)))
  /\ Relock(r, {FirstBlock(SortBotIn(r, 2))}, {})
  /\ FillBlock' = IF r = Master THEN FillBlock ELSE [FillBlock EXCEPT ![r] = 1]
  /\ Goto(r, "merge")
  /\ UNCHANGED <<signals, memory, full, blin, todo, job>>

Term(r, n) == memory[In(r, n)]
CompareTerms(t, u) == u[1] - t[1]   \* positive when t comes first

\* Which input gives the next term: the other has ended or has a later term.
TakesFrom(r, n) ==
  LET t == Term(r, n)  u == Term(r, 3 - n)
  IN  t # End /\ (u = End \/ CompareTerms(t, u) > 0)

\* The block behind is released before the next one is waited for.
OneIsSmallest(r) ==
  /\ pc[r] = "merge" /\ TakesFrom(r, 1)
  /\ SortBotOut(r, Term(r, 1), {}, {Behind(r, 1)})
  /\ Goto(r, "next1")
  /\ UNCHANGED <<signals, blin, todo, input, expressions>>

TwoIsSmallest(r) ==
  /\ pc[r] = "merge" /\ TakesFrom(r, 2)
  /\ SortBotOut(r, Term(r, 2), {}, {Behind(r, 2)})
  /\ Goto(r, "next2")
  /\ UNCHANGED <<signals, blin, todo, input, expressions>>

EqualTerms(r) == /\ pc[r] = "merge"
                 /\ Term(r, 1) # End /\ Term(r, 2) # End
                 /\ CompareTerms(Term(r, 1), Term(r, 2)) = 0
SumOfTerms(r) == <<Term(r, 1)[1], Term(r, 1)[2] + Term(r, 2)[2]>>

\* The sum may be longer than term1 (AddArgs, poly_ratfun_add); it is then made to begin
\* before term1, in the block behind, or in block 0.
Equal(r) ==
  /\ EqualTerms(r) /\ SumOfTerms(r)[2] # 0
  /\ \E grows \in BOOLEAN :
       SortBotOut(r, SumOfTerms(r),
                  IF grows /\ blin[r][1] > 1 THEN {Behind(r, 1)} ELSE {},
                  {Behind(r, 1)})
  /\ Goto(r, "next12")
  /\ UNCHANGED <<signals, blin, todo, input, expressions>>

Cancelled(r) ==
  /\ EqualTerms(r) /\ SumOfTerms(r)[2] = 0
  /\ Relock(r, {}, {Behind(r, 1)})
  /\ Goto(r, "next12")
  /\ UNCHANGED <<signals, memory, FillBlock, full, blin, todo, job>>

\* LOCK of the next block of input n.
Advance(r, n, place, released, after) ==
  LET b == <<SortBotIn(r, n), After(blin[r][n])>>
  IN  /\ pc[r] = place /\ IsFree(b)
      /\ Relock(r, {b}, released)
      /\ blin' = [blin EXCEPT ![r][n] = After(@)]
      /\ Goto(r, after)
      /\ UNCHANGED <<signals, memory, FillBlock, full, todo, job>>

NextOfOne(r)  == Advance(r, 1, "next1", {}, "merge")
NextOfTwo(r)  == Advance(r, 2, "next2", {}, "merge")
NextOfBoth(r) == Advance(r, 1, "next12", {Behind(r, 2)}, "next2")

HeldInInputs(r) == {In(r, 1), Behind(r, 1), In(r, 2), Behind(r, 2)}

\* The end mark is passed on and all blocks are released.
EndMerge(r) ==
  /\ pc[r] = "merge" /\ Term(r, 1) = End /\ Term(r, 2) = End
  /\ SortBotOut(r, End, {},
                HeldInInputs(r) \cup (IF r = Master THEN {} ELSE {<<r, NextFill(r)>>}))
  /\ Goto(r, IF r = Master THEN "waitend" ELSE "enter")
  /\ UNCHANGED <<signals, blin, todo, input, expressions>>

-----------------------------------------------------------------------------
(* The master: SortBotMasterMerge, between MasterWaitAll of the expression and the next *)

\* The counter as it is set for a new job, without its lock.
NoneAvailable == 0

\* ThreadsProcessor has waited for all workers; AS.MasterSort is set.
BeginSortBotMasterMerge ==
  /\ pc[Master] = "idle" /\ \A w \in Workers : pc[w] = "idle"
  /\ expressions < MaxExpressions
  /\ \E in \in Inputs : input' = in /\ todo' = in
  /\ output' = <<>>
  /\ topsortbotavailables' = NoneAvailable
  /\ Goto(Master, "ini")
  /\ UNCHANGED <<wakeup, numberclaimed, target, rings, expressions>>

SendIniSortBot == WakeSortBot("ini", "INISORTBOT", "zeroclaimed")

ZeroClaimed ==
  /\ pc[Master] = "zeroclaimed"
  /\ numberclaimed' = 0
  /\ Goto(Master, "last1")
  /\ UNCHANGED <<topsortbotavailables, wakeup, target, rings, todo, job>>

MasterClaimsLastOfIn1 ==
  /\ ClaimLastBlock(Master, 1, "last1", "last2")
  /\ UNCHANGED <<signals, memory, FillBlock, full, blin, todo, job>>

MasterClaimsLastOfIn2 ==
  /\ ClaimLastBlock(Master, 2, "last2", "waitini")
  /\ UNCHANGED <<signals, memory, FillBlock, full, blin, todo, job>>

WaitForIni == MasterWaitAllSortBots("waitini", "iniasleep", "finish")

\* GetThread and WakeupThread(FINISHEXPRESSION), in a loop over all workers.
SendFinishExpression ==
  /\ pc[Master] = "finish"
  /\ LET w == target - NumberOfWorkers
     IN  IF w = NumberOfWorkers
         THEN /\ pc' = [pc EXCEPT ![w] = "claim", ![Master] = "waitblocks"]
              /\ target' = NumberOfWorkers + 1
         ELSE /\ pc' = [pc EXCEPT ![w] = "claim"]
              /\ target' = target + 1
  /\ UNCHANGED <<topsortbotavailables, wakeup, numberclaimed, rings, todo, job>>

SomeClaimed == numberclaimed >= 1   \* mutant
AllClaimed == numberclaimed >= NumberOfWorkers

\* MasterWaitAllBlocks; then the counter of the sortbots is reset once more.
MasterWaitAllBlocks ==
  /\ pc[Master] = "waitblocks"
  /\ Goto(Master, IF AllClaimed THEN "run" ELSE "claimasleep")
  /\ topsortbotavailables' = IF AllClaimed THEN NoneAvailable ELSE topsortbotavailables
  /\ UNCHANGED <<wakeup, numberclaimed, target, rings, todo, job>>

SendRunSortBot == WakeSortBot("run", "RUNSORTBOT", "in1")

\* The last statement: wait for the sortbots before the next expression.
WaitForEnd ==
  /\ MasterWaitAllSortBots("waitend", "endasleep", "done")

EndSortBotMasterMerge ==
  /\ pc[Master] = "done"
  /\ expressions' = expressions + 1
  /\ Goto(Master, "idle")
  /\ UNCHANGED <<signals, rings, todo, input, output>>

\* StartAllThreads waits for the sortbots it has made; TerminateAllThreads ends them,
\* after GetThread for every worker.
WaitForStart == MasterWaitAllSortBots("start", "startasleep", "idle")

BeginTerminate ==
  /\ pc[Master] = "idle" /\ \A w \in Workers : pc[w] = "idle"
  /\ Goto(Master, "terminate")
  /\ UNCHANGED <<signals, rings, todo, job>>

SendTerminate == WakeSortBot("terminate", "TERMINATETHREAD", "join")

Join ==
  /\ pc[Master] = "join" /\ \A t \in SortBots : pc[t] = "ended"
  /\ Goto(Master, "ended")
  /\ UNCHANGED <<signals, rings, todo, job>>

-----------------------------------------------------------------------------
Init ==
  /\ pc = [t \in Threads |-> CASE t = Master -> "start"
                               [] t \in SortBots -> "enter"
                               [] t \in Workers -> "idle"]
  /\ topsortbotavailables = 0 /\ numberclaimed = 0
  /\ wakeup = [t \in SortBots |-> "none"]
  /\ target = NumberOfWorkers + 1
  /\ MasterBlockLock = [b \in Blocks |-> Free]
  /\ memory = [b \in Blocks |-> Garbage]
  /\ FillBlock = [s \in Streams |-> 1] /\ full = [s \in Streams |-> FALSE]
  /\ blin = [r \in Readers |-> <<1, 1>>]
  /\ todo = [w \in Workers |-> <<>>] /\ input = todo
  /\ output = <<>> /\ expressions = 0

SortBotStep(t) ==
  \/ EnterWait(t) \/ TellMaster(t) \/ TakeSignal(t)
  \/ ClaimOwnFirstBlock(t) \/ ClaimLastOfIn1(t) \/ ClaimLastOfIn2(t)

MergeStep(r) ==
  \/ StartMerge(r) \/ StartMergeIn2(r)
  \/ OneIsSmallest(r) \/ TwoIsSmallest(r) \/ Equal(r) \/ Cancelled(r)
  \/ NextOfOne(r) \/ NextOfTwo(r) \/ NextOfBoth(r) \/ EndMerge(r)

WorkerStep(w) ==
  \/ WorkerClaims(w) \/ ThreadClaimedBlock(w) \/ TellClaimed(w)
  \/ WorkerPuts(w) \/ WorkerEnds(w)

MasterStep ==
  \/ WaitForStart \/ BeginSortBotMasterMerge \/ SendIniSortBot \/ ZeroClaimed
  \/ MasterClaimsLastOfIn1 \/ MasterClaimsLastOfIn2 \/ WaitForIni
  \/ SendFinishExpression \/ MasterWaitAllBlocks \/ SendRunSortBot
  \/ WaitForEnd \/ EndSortBotMasterMerge
  \/ BeginTerminate \/ SendTerminate \/ Join

Next ==
  \/ \E t \in SortBots : SortBotStep(t)
  \/ \E r \in Readers : MergeStep(r)
  \/ \E w \in Workers : WorkerStep(w)
  \/ MasterStep

Fairness ==
  /\ \A t \in SortBots : WF_vars(SortBotStep(t) \/ MergeStep(t))
  /\ WF_vars(MasterStep \/ MergeStep(Master))
  /\ \A w \in Workers : WF_vars(WorkerStep(w))

Spec == Init /\ [][Next]_vars /\ Fairness
-----------------------------------------------------------------------------
(* Properties *)

Signals == {"none", "INISORTBOT", "RUNSORTBOT", "TERMINATETHREAD"}
SortBotPlaces == {"enter", "tell", "wait", "ini", "ini1", "ini2", "in1", "in2", "merge",
                  "next1", "next2", "next12", "ended"}
WorkerPlaces == {"idle", "claim", "claimed", "tellclaim", "write"}
MasterPlaces == {"start", "startasleep", "idle", "ini", "zeroclaimed", "last1", "last2",
                 "waitini", "iniasleep", "finish", "waitblocks", "claimasleep", "run",
                 "in1", "in2", "merge", "next1", "next2", "next12", "waitend", "endasleep",
                 "done", "terminate", "join", "ended"}

\* Types and ranges; above all that no sortbot is ever counted twice.
TypeOK ==
  /\ \A t \in SortBots : pc[t] \in SortBotPlaces
  /\ \A w \in Workers : pc[w] \in WorkerPlaces
  /\ pc[Master] \in MasterPlaces
  /\ topsortbotavailables \in 0..numberofsortbots
  /\ numberclaimed \in 0..NumberOfWorkers
  /\ wakeup \in [SortBots -> Signals]
  /\ target \in SortBots \cup (NumberOfWorkers + 1..2 * NumberOfWorkers)
  /\ MasterBlockLock \in [Blocks -> Threads \cup {Free}]
  /\ FillBlock \in [Streams -> 1..MasterNumBlocks] /\ full \in [Streams -> BOOLEAN]
  /\ blin \in [Readers -> (1..MasterNumBlocks) \X (1..MasterNumBlocks)]
  /\ expressions \in 0..MaxExpressions

\* What merging must give: each key once, in order, with the sum of the coefficients of all
\* workers, and not at all when the sum is zero.
CoefficientOf(w, key) ==
  LET found == {i \in DOMAIN input[w] : input[w][i][1] = key}
  IN  IF found = {} THEN 0 ELSE input[w][Max(found)][2]
SumOf(key) == FoldSet(LAMBDA w, sum : CoefficientOf(w, key) + sum, 0, Workers)
Keys == UNION {{input[w][i][1] : i \in DOMAIN input[w]} : w \in Workers}
IsMergeOf(out) ==
  /\ \A i, j \in DOMAIN out : i < j => out[i][1] < out[j][1]
  /\ {out[i] : i \in DOMAIN out} = {<<k, SumOf(k)>> : k \in {k \in Keys : SumOf(k) # 0}}

\* When the master has written the end of the expression, the output is the sum of what all
\* workers sent: no term of an earlier expression left in a block was taken for one of this
\* (threads.c:4128, 2227-2235), no term was passed over when an input ended.
OutputIsTheSum ==
  pc[Master] \in {"waitend", "endasleep", "done"} => IsMergeOf(output)

\* The comment at threads.c:4182: no sortbot misses its initialization.  From when the
\* workers may start until the sortbots are started, each has its first block and keeps the
\* writers of its inputs out of their last blocks.
NoSortBotMissesInit ==
  pc[Master] \in {"finish", "waitblocks", "claimasleep"} =>
    \A t \in SortBots : \A b \in {FirstBlock(t)} \cup {LastBlock(SortBotIn(t, n)) : n \in {1, 2}} :
      MasterBlockLock[b] = t

\* The threads of the tree never wait for each other in a circle, and no signal is missed:
\* every run comes to its end.
EveryTreeEnds == <>(\A t \in Readers : pc[t] = "ended")
=============================================================================
