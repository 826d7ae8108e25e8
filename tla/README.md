# A TLA+ verification project for FORM as shipped with MaRTIn

This repository is the distribution of MaRTIn, a driver for the calculation of
Feynman diagrams. The driver (`martin/martin.py`) looks for directories and models and
ends in one call of `make`; the Makefile is not in the repository. What it drives is
FORM (`form/`), a symbolic manipulator in C, and QGRAF, a generator of diagrams. The
control that is hard to get right is in FORM: a pool of threads, buffers shared without a
lock or with a chain of them, processes that send messages, a sort that goes through three
levels of memory and two files, snapshots that must survive a crash, files that are written
in one module and read in another, and a preprocessor whose five stacks must stay in step.
This project models that part.

Paths below are relative to `src/`; line numbers are of `form/sources/`.

## 1. Inventory

| component | state it keeps | operations | status |
|---|---|---|---|
| pool of workers, `threads.c` | stack `listofavailables`, `wakeup[]`, `wakeupmaster`, `numberclaimed`, the mutexes and conditions of all these | `ThreadWait`, `GetAvailableThread`, `GetThread`, `WakeupThread`, `MasterWait`, `MasterWaitAll`, `MasterWaitAllBlocks`, `ThreadClaimedBlock`; the master's `StartAllThreads`, `InParallelProcessor`, `ThreadsProcessor`, `ClearAllThreads`, `TerminateAllThreads`; the worker's `RunThread`; the sortbots' `SortBotWait`, `MasterWaitAllSortBots` | modelled in two parts, workers and sortbots |
| distribution of terms, `threads.c` | the `THREADBUCKET`s: free, busy, totnum, usenum, the terms | the loop of `ThreadsProcessor`, `SendOneBucket`, `LOWESTLEVELGENERATION`, `LoadReadjusted` | modelled but for buckets of brackets |
| memory of the buckets, `threads.c`, `compcomm.c` | `AC.ThreadBucketSize`, `AM.gThreadBucketSize`, `AS.MultiThreaded`, the block of memory | `MakeThreadBuckets`, the statements `threadbucketsize`, `On threads` and `Off threads`, `.sort`, `.global`, `.store`, `.clear` | modelled |
| final sort of a parallel expression, `threads.c` | a ring of blocks per worker and per sortbot, a mutex per block | `PutToMaster`, `MasterMerge`, `SortBotMerge`, `IniSortBlocks`, `IniSortBot` | one stream word by word, the tree of merges term by term; `MasterMerge`'s own tree of more than two streams not |
| sorting, `sort.c` | small and large buffer, sort file, stage file, patches and groups of patches, the stack of sorts | `NewSort`, `StoreTerm`, `SplitMerge`, `MergePatches`, `StageSort`, `EndSort` | modelled but for what section 8 lists |
| ParFORM, `parallel.c`, `mpi.c` | buffers, ranks and tags of messages, the tree of losers | `PF_Processor`, `PF_EndSort`, `PF_GetLoser`, `PF_WaitAllSlaves`, `PF_InParallelProcessor`, messages to be printed | these modelled; broadcasts, `$`-variables, checkpoints not |
| life of expressions, `proces.c`, `execute.c`, `compcomm.c`, `comexpr.c` | `Expressions[]`, their status, position and name; input, output, hide and store file | definitions, `Skip`, `Drop`, `Hide`, `IntoHide`, `Unhide`, `InParallel`, `.sort`, `.store`, `.clear`; `Processor`, `CleanExpr`, `TestDrop`, `DOONEEXPRESSION` | modelled but for `.global`, saved files, brackets |
| spectator files, `spectator.c` | `AM.SpectatorFiles`, a file and a buffer each, the flags | the five statements, `PutInSpectator`, `GetFromSpectator`, `FlushSpectators`, `ClearSpectators` | one reader at a time, without `.global` |
| checkpoints, `checkpoint.c` | recovery file, intermediate file, copies of the store, sort and hide files | `CheckRecoveryFile`, `DoRecovery`, `DoCheckpoint`, `DoSnapshot`, `DeleteRecoveryFile` | the files modelled, their content and ParFORM's not |
| preprocessor, `pre.c`, `tools.c` | streams, `PreTypes`, levels of `#if` and `#switch`, loops, procedures, variables | `#if` to `#endif`, `#switch` to `#endswitch`, `#do`, `#breakdo`, `#continuedo`, `#procedure`, `#call`, `#include`, `#define`, `#redefine`, `#undefine`, conditions | control modelled; calculator, macros with arguments and output not |
| names, `names.c` | a balanced binary tree of names | `AddName`, `GetName`, `CompactifyTree` | planned |
| dollar variables, `dollar.c` | values shared by workers | `AssignDollar` under a lock, module options | planned |
| saved files, tables, compiler, algebra, pattern matching, optimisation, diagrams, external channels, start-up | | | not modelled, see section 8 |

### How they interact

The preprocessor reads the program, decides which lines the compiler gets and hands each
module to `DoExecute`. `Processor` goes through the array of expressions and takes each from
the file its status names; the terms of one expression are done by the process itself, by
TFORM's workers or by ParFORM's slaves.

In TFORM the master reads an expression term by term, fills buckets and gives each to a
worker that it pops from the stack (pool and distribution). A worker generates terms into its
own sort (`StoreTerm`). When all buckets are done the master sends every worker
`FINISHEXPRESSION`; each worker runs `EndSort`, whose output goes through `PutToMaster` into
the ring of blocks that the master, or a sortbot which hands on to another, reads. When
expressions are done in parallel, a whole expression is the task of one worker, which writes
its result to a file of the master.

In ParFORM the same is done by messages: slaves ask for buckets, sort, and send the sorted
stream in buffers; the master merges the streams in a tree of losers.

At the end of a module `CleanExpr` removes dropped expressions, moves the rest down the array
and flushes the spectators; then `DoCheckpoint` may write a snapshot.

### What is hard, and what makes it correct

* **Pool.** A worker lists itself *before* it waits; `wakeup[w]` holds one signal; the
  master is told only when the stack was empty or is full; `availabilitylock` and the
  worker's lock are taken in both orders. Correct: nobody is on the stack twice, who is on
  it is idle, no signal is overwritten, no data is loaded into a running worker, the
  barrier waits for all tasks, and nobody sleeps for ever.
* **Distribution.** All fields of a bucket but one are read and written by two threads
  without a lock, and load balancing takes terms from a worker that is going through them.
  Correct: each term is executed once.
* **Tree of sortbots.** Every thread of the tree reads two rings and writes one; the counter
  of waiting sortbots is set back by the master without the lock it is counted under.
  Correct: the output is the sum of what the workers had, each key once; no sortbot misses its
  initialization; nobody waits in a circle.
* **Ring of blocks.** Terms straddle blocks, the reader needs two blocks at a time, the
  last block's remainder is copied in front of the first. Correct: the reader sees the
  stream that was written, and neither side waits for ever.
* **Sorting.** Terms are merged in four places, each of which can cancel terms and must count
  the rest; arrays of patches have a fixed size; positions and the stage file are shared by
  nested sorts. Correct: the output is the sum of what was stored, `TermsLeft` is exact, no
  merge has more streams than there is room for, no file stays open.
* **ParFORM.** No barrier separates two jobs; the master receives with any tag; buffers are sent by
  reference and used again; a slave that wants something printed stops until the master
  looks. Correct: no message is taken for another, each term is done once, the result is the
  sum, no buffer changes while it is sent, every job ends.
* **Life of expressions.** Status, position, place in the array and name of an expression are
  changed in different places and must agree at the end of a module. Correct: behind each
  name is the expression that was written, with the terms it should have.
* **Preprocessor.** What is skipped is still counted, but not all of it; `#breakdo` and
  `#endprocedure` must bring five records back to what they were. Correct: what is executed
  is what the structure of the program means, and the stacks are empty at the end.
* **Checkpoints.** A crash at any step of a sequence of file operations. Correct: a saved
  point is lost only to a later one, and what is resumed is what was saved.
* **Spectators.** One buffer for reading and writing, terms that cross its end, an array
  with holes. Correct: what was sent comes back, once and in order.
* **Bucket memory.** A size that is changed by settings of four lifetimes while the memory
  is changed by one of them, and by that only while threads are on. Correct: no bucket is
  used beyond its memory (it can be, section 6).

## 2. Modules

| module | models | its actions are |
|---|---|---|
| `ThreadPool` | the pool and the program of the master around it | one per critical section of a mutex, or the code between two |
| `ThreadPoolClear` | `ThreadPool` with `.clear` | adds `ClearAllThreads` |
| `ThreadPoolProofs` | theorems about `ThreadPool` | |
| `SortBots`, `MCSortBots` | the sortbots: how they are started, the tree of merges, how they end | one per critical section, or per term moved |
| `SortBotsProofs` | theorems about `SortBots` | |
| `TermStream` | abstract: a stream of terms with an end mark, used again and again | |
| `SortBlocks` | one ring of blocks, word by word | one per lock, unlock, copy; implements `TermStream` |
| `SortBlocksProofs` | theorems about `SortBlocks`, and that it implements `TermStream` | |
| `Buckets` | distribution and load balancing | one per read or write of a shared field of a bucket whose order can matter |
| `BucketsProofs` | theorems about `Buckets` | |
| `BucketMemory` | the size of a bucket and its memory; its theorems are in `BucketsProofs` too | one per statement or end of module |
| `MCBuckets` | `Buckets`, and `BucketMemory` when its expression is done | |
| `Sort` | buffers, patches, files and stages of a sort, two levels | one per term stored, patch merged, file turned round |
| `MergeTerms`, `MCSort` | `SplitMerge` and the tree of losers of `MergePatches` as recursive operators; given to `Sort` as its constants `Sorting` and `Merging` | |
| `ParForm`, `MCParForm` | master and slaves of ParFORM | one per message sent or received, or the code between two |
| `ParFormProofs` | theorems about `ParForm` | |
| `Expressions`, `MCExpressions` | statements about expressions, `Processor` and the end of a module | one per statement, per expression processed, per end of module |
| `ExpressionsProofs` | theorems about `Expressions` | |
| `PreMeaning` | abstract: what a structured program means, by recursion over it, and its text | |
| `PreIf` | the evaluation of a condition of `#if` | |
| `Preprocessor`, `MCPreprocessor` | reading the text line by line | one per kind of instruction |
| `Checkpoint` | the files of snapshot and recovery | one per file operation, and the crash |
| `FileProofs` | theorems about `Checkpoint` and `Sort` | |
| `Spectator` | statements, calls and ends of modules | one per statement, call or end of module |
| `SpectatorProofs` | theorems about `Spectator` | |

`SortBots` composes what `ThreadPool` and `SortBlocks` treat alone: it takes the pool's
`FINISHEXPRESSION` as given and makes each block of a ring one term long. An `MC` module
holds the constants a configuration cannot write down: inputs, programs, setups, symmetry.

### Correspondence with the code

**ThreadPool.** `listofavailables`, `topofavailables`, `wakeup`, `wakeupmaster`,
`numberclaimed` are the variables of that name. `wakeuplocks[w]` is TRUE while
thread `w` holds the mutex of that name between two steps, which only `ThreadWait` does;
`availabilitylock` likewise, which only `ThreadsProcessor` (2582-2587) does. All other
critical sections contain no blocking call and are one step each. `wpc[w]` walks through
`ThreadWait` (2155-2188): `enter`, `locked` (LOCK done), `tell`, `test`, `asleep`, `woken`,
then `run`, and for `FINISHEXPRESSION` `tellclaim` and `sort`. `phase` and `mpc` are the
routine of the master and the place in it. A signal of a condition moves the sleeper to
where it takes its mutex again, and a wait may return without a signal (`SpuriousWakeup`,
`MasterSpuriousWakeup`); the loops of the code around the waits are there because of it.
A task is a number; `executed[t]` counts how often it was carried out.

**Buckets.** `bucket[b]` has the fields of a `THREADBUCKET`; the C constants `BUCKETFREE`
to `BUCKETRELEASED` and `BUCKETDOINGTERM` to `BUCKETPREPARINGTERM` are strings. The worker's
program counter goes through 1306-1438: copy a term and count it, look for
`BUCKETTERMINATED`, set busy, generate, set busy, look again, next term, leave. The master's
goes through the loop of `ThreadsProcessor` (2768-3125) and `LoadReadjusted` (3226-3440), in
which the scan of the buckets is a step per bucket and the field `busy` is read in a
step before the other fields are. `lock` is the lock of the bucket the master holds while it
decides to rob it. Where the code takes the first suitable bucket of a list whose order
changes, the model takes any.

**SortBlocks.** `memory` is the part of the sort buffer of the master that one stream uses,
`MasterBlockLock` its mutexes with their holders. The writer is `PutToMaster` (3507-3547)
with the claim of `FINISHEXPRESSION` before it; the reader is the part of `MasterMerge`
(3611-4068) or `SortBotMerge` (4207-4700) that deals with one input. A word is
`<<term, index>>`, so that the model can tell whether the reader sees the right word, a word of
another term, or a word that has not been written.

**SortBots.** Streams are numbered as in the code: workers `1..n`, sortbots `n+1..2n-2`, the
master reads the last two; `SortBotIn` is the numbering of `IniSortBlocks`. `EnterWait` and
`TellMaster` are `SortBotWait`, `topsortbotavailables` and `wakeup` its counter and signals.
The merge takes the smaller of two terms, or the sum of two equal ones, or nothing when the
sum is zero; `next1`, `next2` and `next12` are the places where the reader goes on in its first
input, its second or both, by locking the block after and releasing the block before. What a
block held for the previous expression stays in `memory`, so that a reader that locks too
early would read it.

**Sort.** A context `c` collects what one call may change: the level's struct `S`, the file
that is written and `OldPosOut`. `StageSort`, `FileMake`, `AddPatch`, `WriteLargeBuffer` are
named after the code or its comments. A file is a sequence of entries, patches and lists of
patches; a position is a number of entries. `merge.at` is where the loop of `MergePatches(0)`
stands: at a new merge, in a group, or out of both. `Forbidden` is the message "Currently
Stage 4 sorts are not allowed for function arguments or $ variables". `NoGroup` is
observation 2 of section 6.

**ParForm.** A channel per direction and slave keeps its order, as MPI does per pair.
`MPI_Isend` sends a buffer by reference: what arrives is what the buffer holds when the message
is *received*, while the message records what it held when it was *sent*; `BuffersIntact`
compares the two. `MPI_Ssend`, `Wait` and `Waitall` of a slave are the guard
`AllReceived`. `PF_GetLoser` is recursive and can stop inside for a buffer: `calls` is its
stack.

**Expressions.** `Expressions` is the array, with `value` as a history field: what the user
wrote and how many modules have been applied to it. `number` is `AC.exprnames`. A file is the
sequence of the expressions in it, `onfile` the place. `SetExprCases`, `DoExpr`,
`Process`, `DoOneExpression`, `TestDrop`, `Renumbered` are the routines of these names or the
parts of `Processor` and `CleanExpr` that the map gives. `trouble` is a history variable: the
first thing that went wrong in a way the code does not notice, with which the run ends;
`EveryExpressionIsFound` says which troubles there are not.

**Preprocessor.** `Streams`, `PreTypes`, `PreIfStack`, `PreSwitchModes`, `PreSwitchStrings`,
`DoLoops`, `Procedures`, `PreVar` are the lists of the code up to their counters. A line is a
record with `op` and what the instruction is given. `Text` of `PreMeaning` writes a
structured program as lines, and `Meaning` says by recursion which statements it executes; a
*misfit* is a program whose lines do not fit, which must be refused. `PreIfEval` works through the
objects and operators of a condition from left to right with a stack of levels, as
the code does with its array; `Value` of `PreMeaning` is the value by the grammar.

**Checkpoint.** A file's content is the point of the program it was saved at: the run and
the module. `fopen` leaves `Partial`. `ondisk`, chosen at the start, says after which modules
the store, sort and hide files exist on disk. `Crash` may happen between any two steps and
leaves the files.

**Spectator.** `SpectatorFiles` is the array of structs; `file` is a sequence of words,
`PObuffer`, `POfill`, `position`, `readpos` are those of the code, counted in words from 0.
`compiletype` keeps the order of statements in a module as `compiler.c` enforces it. `sent`
is a history variable: the terms sent since the spectator was created or emptied.

**BucketMemory.** `positions` is the number of file positions that `deferbuffer` was made
with, `threadbuffersize` the number of words of terms. `Estimate` is the integer arithmetic of
894-898. `MultiThreaded` is `AS.MultiThreaded`: `CoThreadBucket` makes new buckets only if it is
set (compcomm.c:5674), `CoOff` and `CoOn` change it (620, 881), and every module begins with it set
(`IniModule`, pre.c:923). `NewModule` is the end of a module of any kind with the beginning of the
next; of what `MakeGlobal`, `PopVariables` and `FullCleanUp` do it has the size. The three
statements are all declarations (compiler.c:191, 192, 228) and may come in any order. The
expressions of a module are not part of `BucketMemory`: a bucket may be filled in every state in which threads are
on, and `EveryTermHasItsPosition` is asked of these.

## 3. Runs

| run | expects | shows |
|---|---|---|
| `thread_pool` | pass | two workers in every interleaving of start, four tasks, two expressions and termination: stack, signals, loading, both barriers, and that every run ends |
| `sort_blocks` | pass | ring of three blocks, two expressions one after the other, both readers: the ring implements `TermStream`, the reader reads only blocks it holds and only whole terms, no expression hangs |
| `sort_bots` | pass | four workers, two sortbots, the master: the output is the sum, whatever was left in the blocks; no initialization is missed; the tree ends |
| `buckets` | pass | two workers, four buckets, four terms: no term lost or done twice with load balancing at any moment, and none left when the master is done, which it is; and in any sequence of settings from the default 500, a `threadbucketsize` given while threads are on makes room for every term |
| `sort` | pass | nine setups, up to nine terms that add and cancel: small buffer, large buffer, sort file, two cycles of stage 4, nested sorts and the refusal of stage 4 in them |
| `parform` | pass | a master and three slaves, four programs of one or two jobs of both kinds, one message printed at any time |
| `expressions` | pass | two names, five statements, four modules ended by `.sort`, `.store` or `.clear`, expressions done by workers in any order |
| `preprocessor` | pass | 18,307 programs and 10,346 conditions read line by line do what they mean |
| `checkpoint` | pass | three modules, three starts, crashes at each step, a failing snapshot |
| `spectator` | pass | three spectators, three terms, two copies in a module, removals, growing array, `.clear` |
| `thread_pool_clear` | violation | the first finding of section 6 |
| `bucket_memory` | violation | the second: `Off threads; ThreadBucketSize 800;` and the next module have too few positions |

`CHECK_DEADLOCK FALSE` is in every configuration but that of `preprocessor`, since these
models have an end: threads that are joined, processes without a job, an expression that is
finished, a bound on starts, terms or modules. That nobody is stuck *before* the end is what
`EveryRunEnds`, `EveryExpressionEnds`, `ExpressionFinishes`, `EveryTreeEnds` and
`EveryJobEnds` say. In `preprocessor` a program whose outcome is decided stutters by an action of its
own, and a line nobody handles would be a deadlock.

### Bounds, and why they are enough

* `thread_pool`: four tasks for two workers let the master find the stack empty and wait, be
  told when a worker comes back, and give the same worker a second task; `GetThread` takes a
  worker from the bottom of a full stack and closes the hole. Two expressions go through
  every signal twice and use `numberclaimed` and the emptied stack again; two spurious
  wake-ups can hit two waits at once. (With three workers and two tasks, which was checked
  too, the stack is never empty.)
* `sort_blocks`: three blocks is the least that works: with two, the writer holding one and
  the reader one, each waits for the other. (The comment in `PutToMaster` asks for four, the
  code uses ten for `MasterMerge` and half of that for a sortbot.) Blocks of 6 words are the least
  that `RingAssumption` allows with a largest term of 4 (section 5); terms of 2 and 3 words end before,
  at and after the end of a block; nine terms go round the ring once and into it again; two
  expressions check what is left by the first.
* `buckets`: with two workers there is one to be robbed and one to be given the loot; a
  bucket of three terms can be robbed of two or one; four terms leave a bucket that is
  partly filled. Statements are given when the expression is done, as the master compiles while
  nothing is executed. Of the
  sizes 39, 249, 332 and 800 two lie just below a jump of the estimate and one above the
  default 500; `bucket_memory` has each threshold (40, 90, 250) and 500 with their neighbours.
* `sort_bots`: four workers is the least with two sortbots side by side and one tree above
  them. Two expressions, of at most four terms, with equal and with cancelling terms in
  the two inputs of a sortbot and of the master, and with empty streams; rings of three blocks
  are gone round in one expression, so that the second finds old terms in every block.
* `sort`: small buffers of one, two and six terms, large buffers of three and nine,
  `MaxPatches` of 1 to 4 and `MaxFpatches` of 2 and 3 make every level overflow. (The code does not
  go below 4, `AllocSort`; with 4, a second cycle of stage 4 would need more than sixteen patches
  in the file.) Up to nine terms, with one to three keys and coefficients of both signs, add and
  cancel at every level; two expressions follow each other with and without a file left by the first; in two setups a nested sort of up to two or five terms comes at any time.
* `parform`: with three slaves the tree has three nodes, one of them with a single stream;
  buckets of two terms out of three leave a slave without any; buffers of three words
  end inside a term. The four programs have jobs with three, one and no terms, two and four
  whole expressions, and one kind after the other.
* `expressions`: two names and room for three expressions is the least with a redefined
  expression beside another; with symmetry in the names. Five statements are, for example,
  two definitions, two hidings and an unhiding, spread over up to four modules.
* `preprocessor`: eleven kinds of constructions nested three deep around fifteen
  inner instructions: each instruction that leaves a construction (`#breakdo`, `#continuedo`,
  an ending procedure, a taken `#case`) is met inside each of the others. Three nested switches
  just fit in `PreSwitchRoom` (10 in the code), so observation 6 (b) below is left out.
* `checkpoint`: three modules make two snapshots, the second over the first; three starts
  are a crash, a recovery that crashes and a second recovery, or a start without `-R`.
* `spectator`: the first array has one element (10 in the code), so that it grows to two and
  four; a buffer of three words and terms of two and three words cross its end at every
  offset.

For `thread_pool`, `sort_blocks`, `sort_bots`, `buckets`, `checkpoint`,
`expressions` and `spectator` the theorems of section 5 state every safety property of the run for
all values of the constants (`StatementMakesRoom` from a setup size of 333 on); for `sort` too, under the two hypotheses named there; for
`parform` all but that the output is the sum. For `preprocessor` the bounds are all there is.

## 4. Fairness

Each thread has weak fairness on its own steps: the operating system schedules every thread,
and a mutex that stays free is obtained. Strong fairness is nowhere needed. In `ThreadPool`
spurious wake-ups have no fairness, and the choices of the user's program (another task,
another expression, or the end) are bounded by constants and end in termination, since one
of them is always taken. In `SortBots` each of the threads has weak fairness. In `ParForm` the next-state relation
as a whole has weak fairness with respect to all variables but `next`, the slave that
`PF_WaitAllSlaves` will ask first: the master's polling loop changes nothing else when nobody
has sent anything, and is not progress. In `Buckets` the fairness of a worker says also that `Generator`
returns for every term; `MCBuckets` has no fairness for statements and ends of modules. `Sort`, `Expressions`,
`Preprocessor`, `Checkpoint` and `Spectator` are sequential programs under a user or an operator
who may do anything; only safety is stated.

## 5. Proofs

In all modules the way is the same: a conjunction `IInv` of named parts, each lemma
about one part and the steps that can disturb it, then `Spec => []IInv`, then the properties as
consequences. TLC found out cheaply what is not inductive: each invariant was checked on the instance of
the run before it was proved. All constants are arbitrary but for the assumptions named here, which
stand in the module that is modelled and which TLC evaluates in its run.

### ThreadPool

`ThreadPoolProofs` proves, for every number of workers and every bound,

* `TypeCorrect`: `Spec => []TypeOK`
* `ListedOnce`: `Spec => []NoWorkerListedTwice`
* `ListedIdle`: `Spec => []ListedAreIdle`
* `LoadingIsSafe`: `Spec => []LoadedWorkerWaits`
* `SignalsKept`: `Spec => NoSignalOverwritten` (an action property)
* `BarrierCorrect`: `Spec => []BarrierMeansDone`
* `PoolCorrect`: `Spec => []PoolInv`, the invariant below

Assumed are only `NumberOfWorkersAssumption` (at least one worker) and `BoundsAssumption`
(the bounds are natural numbers); TLC evaluates both in `thread_pool`.

**The argument.** None of the properties is inductive. That no worker is listed twice needs
that whoever enters `ThreadWait` is not listed, hence that the listed ones are in it, hence
that nobody in it is woken while listed, hence that the one the master is about to wake
is off the stack. In the dispatching routines it was popped. In the loops over all workers
it was removed, and that a worker not yet reached is idle follows only from the barrier
before the loop; that the barrier means this is a counting argument: a stack of
`NumberOfWorkers` distinct entries has every worker on it (`FullMeansIdle`, from the
pigeonhole principle in `Room`). The same argument gives the room on the stack that `TypeOK`
needs when a worker lists itself. In `ThreadsProcessor` the loop removes nobody but empties
the stack and keeps the lock, so the invariant says that while the lock is held the stack is
empty. So `PoolInv` is the conjunction of `TypeOK`, the two properties, `MasterShape`
(which routine can be where), `LockedIsEmpty`, `SignalledWaits` and `MasterHolds` (what the
master knows of the worker it deals with and those after it).

`LocksInv` ties the mutex `wakeuplocks[w]` to the place of its thread. With it
`LoadedWorkerWaits` is inductive: when the master has got through the mutex of an idle worker,
that worker is past its first look at the signal, and with no signal it cannot leave.

`OnceInv` says that each task handed out is at exactly one worker (as a signal, as a task
that runs, or about to be sent) and not carried out, or at none and carried out once.
At `choose` all workers are idle by `MasterHolds`, so all tasks are carried out: that is
`BarrierMeansDone`. `IInv == PoolInv /\ LocksInv /\ OnceInv` was checked by TLC with two
workers before it was proved; now that it is proved no run repeats it.

**Layout.** One lemma per action that does something to the stack or to the signals, one
lemma for all steps that do not (`QuietStepKeeps`), then `NextKeepsPool`, `NextKeepsLocks`,
`NextKeepsLoaded`, `NextKeepsOnce`, which go through the disjuncts of `Next`.

### BucketMemory

`BucketsProofs` also proves, with a setup size of at least 333 and terms of at least 800 bytes
(`setfile.c:385` allows no less),

* `StatementReallocates`: `SpecMemory => StatementMakesRoom`: a `threadbucketsize` given while
  threads are on leaves a position for every term, whatever went before, with threads on or off
* `PositionsSuffice`: `SpecMemory /\ [][StatementWithThreads]_memoryvars => []EveryTermHasItsPosition`:
  there is room always in a program that gives the statement only while threads are on. The
  code does not see to this; it is a hypothesis about the program, and without it the conclusion is
  false (`bucket_memory`). So the second finding of section 6 is the only way to it.

The invariant for the first, `MemoryMade`, says that the memory was made for *some* number of
terms `p`, and that the estimate of the setup size is not above that of `p`. For the second,
`SizesCompared` says the same of the estimates of the size and of that of the last `.global`, which
a statement with threads off breaks. That an estimate bounds the number
of terms by `p` needs that `p` is at least 250, beyond all the jumps of the estimate
(`LargeBucket`): an estimate as large as that of 333 terms is not reached by fewer than 250.
The number is sharp: with 332, the statement 249 followed by `.clear` leaves 250 positions for
buckets of 332 terms (found by TLC, as observation 4 was).

### Buckets

`BucketsProofs` assumes `SizesAssumption` (a worker at least, a bucket holds a term at least) and
proves, for any number of workers and terms and any size of the buckets,

* `BucketsInvariant`: `Spec => []IInv`, the invariant below
* `TypeCorrect`: `Spec => []TypeOK`
* `OneUser`: `Spec => []BucketHasOneUser`
* `MasterAlone`: `Spec => []MasterWritesAlone`
* `TermsNotLost`: `Spec => []NoTermLostOrRepeated`
* `NothingLeftBehind`: `Spec => []AllExecutedAtEnd`, the invariant in `ExpressionFinishes`

**The argument.** The fields of a bucket have no lock but one, so the invariant ties each field to the
places of the two threads that touch it. `ReadingInStep`: the bucket a worker goes through is its alone, and
`usenum` and `totnum` are what the worker counts, until the bucket is `TERMINATED` from outside;
then the worker has none of its terms left but the one it is at. `FillingInStep` says the same
for the bucket the master fills. `ScanInStep` is load balancing: what the scan saw
is old when it is used, but old in one direction only. Free buckets are filled by nobody but
the master, and the bucket to be robbed can only have fewer terms by then. That the terms
taken are not being executed rests on `DoingTermIsTrue`: a bucket that says `DOINGTERM` has a
worker in `Generator`. `EveryTermHasOnePlace` then counts terms instead of buckets: a term
that has been read and not executed is at exactly one place of one bucket that somebody will
come to. Its hardest step is `ShareOut`, which deals the loot over the free buckets; that it takes
every term and none twice (`MovedOnce`, `MovedSomewhere`) is arithmetic about the order in which
they are dealt (`ShareOfTerm`).

`NoTermLostOrRepeated` is about terms that were read. That the loop is not left before the
end of the input (3057 and after) is `NothingLeftBehind`, with a second invariant `EndReached` on top of the first:
before the end of the input buckets are free, filled or read by a worker; and when the master
goes on to load balancing the input is at its end and no bucket is filled. `FindsBucket`
is where the number of buckets counts: it gives up only when each bucket is read by a worker, which
needs as many workers as buckets, and there are twice as many buckets (`SomeBucketUnread`). At the end
all workers are idle and no place of `EveryTermHasOnePlace` is left.

### Rings of blocks

`SortBlocksProofs` assumes `RingAssumption`: two blocks at least, terms of at most `MaxTer`
words, and a block not shorter than `MaxTer + COMPINC`. `IniSortBlocks` ends the program when a block
has no room for ten terms of the largest size. A shorter block would let the remainder that is
moved in front of block 1 be more than a block. With it,

* `SortBlocksInvariant`: `Spec => []IInv`, the invariant below
* `TypeCorrect`: `Spec => []TypeOK`
* `TermsAreIntact`: `Spec => []TermIsIntact`
* `OnlyHeldBlocksAreRead`: `Spec => []ReadsOnlyHeldBlocks`
* `RingIsAStream`: `Spec => ImplementsStream`, which is `TermStream!Spec` under the refinement
  mapping: initial states map to initial states, `PutTerm`, `PutZero`, `StaysInBlock`,
  `CrossBlock` and `NextExpression` to a step of the stream, all other steps to stutters.

**The argument.** `LocksInStep` computes who holds which mutex from where writer and reader are,
so that two holders cannot meet. Addresses go round; the proof counts *positions* instead,
from the block that the reader keeps behind the one it reads, in the order of the ring.
`TermsInPlace` says that there is a function from the terms to positions such that each starts where the one
before ends, the words of those not taken are at the addresses of their positions as far as the
writer has come, the reader is at the next term and not further than its two blocks, and before
block 1 there is a copy of what the last block ends with. When the reader crosses into the next block all positions
shift by a block (`CrossBlockKeeps`); that case and `CopyWordsKeeps`, where the writer must not
come round to what is still to be read, are most of the proof.

### Sortbots

`SortBotsProofs` assumes `TreeAssumption` (three workers at least, as the code asks for sortbots;
three blocks at least) and `InputsAssumption` (each worker's output is in order, without zeros,
as `EndSort` leaves it) and proves

* `SortBotsInvariant`: `Spec => []IInv`, the invariant below
* `TypeCorrect`: `Spec => []TypeOK`
* `InitializationIsNotMissed`: `Spec => []NoSortBotMissesInit`
* `SumInvariant`: `Spec => []SumInv`, the second invariant below
* `OutputIsRight`: `Spec => []OutputIsTheSum`, for trees of any size and inputs of any length

**The argument.** `topsortbotavailables` is set to zero by the master outside the lock it is counted under.
This is harmless only because no sortbot can count itself then, and to say so one
needs what each of them does during each job of the master: `SortBotsInStep` gives it, with the
set `Called` of those that have been sent the job. Then `CountIsRight` says that while the
master may wait the counter is the number of sortbots that have finished *this* job, by an
argument about cardinalities as for the pool. `ClaimsHeld`, `WorkersInStep` and
`ClaimsCounted` say which blocks the sortbots and workers hold when the merges begin.

`SumInv` is about what flows. `StreamOK` says of each stream that its writer holds the block it
fills and its reader the block it reads and, except after it has passed on a term, the one
before, so that the writer never comes round to blocks not yet read; and that the blocks from
reader to writer hold terms in order and, once the stream has ended, the end mark (`InRing`). All other blocks may hold anything: what an
earlier expression left, or what a longer sum has overwritten (`Equal`). `WorkerOK` and `MergerOK` say that what a thread
writes next comes after what it has written last. `Rest` is what a
stream has still to give, in its blocks and with its worker, and `Conserved` says that for each key the
coefficients in the rests of all streams and in the output add up to those of the inputs. Steps of a merge move
a term from one rest to the next or to the output, or two that are
added or cancel each other (`MergeStepFlows`); a step changes three rests at most (`ConservedKept`). The order makes each key occur once in a stream, without which a
sum of coefficients would not be one of terms. When the master has done its merge, every stream
of the tree has ended: take the last that has not, its reader would be one that has not either
(`AllEnded`). Then all rests are empty and the output has everything (`AllMerged`).

The prover has no sums, and the induction over them is not in its reach as a theorem with an operator;
`Total` is therefore any function on the subsets of the streams that satisfies the equations
of a sum (`IsSum`). It exists and is unique, and a fold of the community modules, as in `SumOf`, gives the
same (`SumExists`, `SumsAgree`, `FoldIsSum`), each by taking the smallest set for which it would fail.

### Checkpoints

`FileProofs` assumes `CheckpointBounds` (the bounds are natural numbers, a module at least) and
proves, with a crash between any two steps,

* `TypeCorrect`: `Spec => []TypeOK`
* `EndsClean`: `Spec => []CleanEnd`
* `PointIsKept`: `Spec => SavedPointIsKept` (an action property)
* `BrokenOnlyThere`: `Spec => BrokenOnlyByCopying` (an action property)
* `CompletedSnapshots`: `Spec => CompletedIsRecoverable`, stated in that module: when the
  recovery file gets its content, all copies that it needs are there.

**The argument.** `OwnRecoveryFile`: the recovery file a working process finds is of its own
computation and of an earlier module, and `done_snapshot` says that it is there; without that,
the end of the program would leave a file to a later one. `SnapshotSoFar` says which copies
have been made while one is under way.

### Sorting of terms

`FileProofs` assumes of `Sort` only `SettingsAssumption` (there is room for a patch in the large buffer,
for as many terms in it as in the small buffer, and for two patches in a merge; the setups are otherwise free). It proves,
for any number of terms, keys, nested sorts and expressions, without any hypothesis about
`Sorting` and `Merging`,

* `SortInvariant`: `SpecSort => []SortInv`, the first invariant below
* `PatchesAlwaysFit`: `SpecSort => []PatchesFit`
* `FilesAreClosed`: `SpecSort => []FilesClosed`

and, if the algorithms are right,

* `OutputIsRight`: `AlgorithmsRight` implies `SpecSort /\ []NestedKeepsGroups => []OutputIsTheSum`
* `CountIsRight`: `AlgorithmsRight` implies `SpecSort /\ []NestedKeepsGroups => []TermsLeftExact`

`AlgorithmsRight` says of the constants that for all inputs they give terms in order with the
sums of their input, and `Merging` the right number of terms that disappeared. It cannot be proved of
`MergeTerms`, whose operators are recursive; `MCSort` has TLC evaluate the same two statements
(`SortingIsRightHere`, `MergingIsRightHere`) for all buffers of up to five terms and all merges of up to three or four small patches.
`NestedKeepsGroups` says that no nested sort makes a file while the sort around it is in stage 4. The
code does not see to that, and without it both properties are false: that is observation 2 (b) of section 6. It holds in
all states of the run `sort`, which has stage 4 in the outer sort and files of nested sorts, but not both in one setup.

**Patches and files.** `PatchesFit` by itself is not inductive: `MergeGroup` takes its next list from the
file, so that every list in every file has to be one of a full group and to lead to a group before
(`FileOK`), and the positions `OldPosOut` and `OldPosIn` have to lead to lists in the files they
are used with (`NotMergingLevel0`, `BeforePass`, `InCycle`), although they are shared by all levels and
`FileMake` of a nested sort overwrites them. `NestedIsSimple` says why that does no harm to the
nested sort: stage 4 is refused in it. `BeforePass` and `InCycle` say what is in the two files that the merge
changes between: the one that is merged, and one that is empty or has what has been merged, with
two positions of patches at least; so the empty last group can only be met in the first cycle (`NoGroup`), when the
file to be closed is the sort file. What one call does to a level and its file is in lemmas about contexts:
`StageFits`, `PatchFits`, `WriteFits`, `RoomFits`, `ToFileFits`.

**Sums and counts.** `SumInv` is the second invariant. It treats the sum of a key and the number
of terms as one thing, the *weight* of terms in a measure `k` (a key, or -1 for the number). `Balance` of a context
is the weight of its small buffer, its patches and its file, less `TermsLeft` in measure -1. `LevelAdds` says that
for each level the balance, with what the cycle has still to merge (`Unmerged`), is what was stored, or 0 in measure -1. A sum over a
file counts every entry, but merging goes from list to list: it reaches
all of it only if each list is that of exactly the patches before it, back to the list it leads to
(`GroupOf`, `Contents`, `OpenGroup`). Then the weights of the groups make a telescoping sum
(`GroupWeighs`), and `Unmerged` is the weight of all that lies before the end of the current group. There is one lemma
about contexts for each call (`StageWeighs`, `PatchWeighs`, `WriteWeighs`, `RoomWeighs`, `FileWeighs`, `StoreWeighs`) and one for
each action (`NewSortAdds` to `NoGroupAdds`), together in `SumStep`. At the end of a merge nothing is left in
buffers and files, so the balance is the output. `OuterKept` is where `NestedKeepsGroups` is needed: when a
nested sort sets `OldPosOut` to 0, the open group of the outer sort must be its first.
For `TermsLeftExact` it remains that following the lists from the last patches, as `InFile` does, finds
each term of the file once (`InFileIs`).
That sums exist and add up (`SumsExist`, `SumsAre`, `SumsOfPart`) is proved by the least number for which they would not, since
the prover has no induction.

### ParFORM

`ParFormProofs` assumes `ParFormAssumption` (two slaves at least, and room for a term in
buckets and buffers) and proves, for every number of slaves and any program of jobs,

* `ProtocolInvariant`: `Spec => [](Types /\ Protocol)`
* `NothingIsUnexpected`: `Spec => []NothingUnexpected`
* `BuffersAreIntact`: `Spec => []BuffersIntact`
* `ResultsAreStoredRight`: `Spec => []ResultsStoredRight`
* `EachTermIsDoneOnce`: `Spec => []EachTermOnce`

**The argument** has four layers. `Protocol` lists, for each place of the master, where each slave
can be and which messages are on the way from and to it: this is what stands for the barrier
that is not there. A slave is at most one job ahead of the master, and what it can have sent from there by then is one
request, which the next job of the master expects too. `MemoryOK` and `SBufOK` say that a buffer
which is being sent holds what was sent: the master exchanges its buffer with that of the slave whenever it sends a bucket, and a slave
takes the buffer whose turn it is only when what it held has been received. `ResultsOK` says who has which whole expression,
`TermsOK` that each term read is in the master's hand or at one slave (in a bucket on its way, in its
input, or done). Each layer uses those before it.

### Expressions

`ExpressionsProofs` assumes `ExpressionsAssumption` (the bounds are natural numbers) and proves, for
any names and programs of any length,

* `ExpressionsInvariant`: `Spec => []IInv`, the invariant below
* `TypeCorrect`: `Spec => []TypeOK`
* `ExpressionsAreFound`: `Spec => []EveryExpressionIsFound`
* `ReferencesAreOld`: `Spec => []ReferencesSeeTheOldExpression`
* `NamesLeadThere`: `Spec => []NamesFindTheirExpression`
* `WhatIsStoredIsWhole`: `Spec => []StoredIsWhole`

**The argument.** Between modules the properties are nearly inductive; inside a module they are
not. `NamesInStep`: a name leads to its expression, or to one that the expression replaces, which
is then on its way out, so that `CleanExpr` can turn the name over. `OldInStep`: the values of
the earlier modules come first in the array, and only what is defined now refers to them.
`RunInStep`: an expression still to be done is in the file its status says, at its old place, and one
that was done is in the file it will be looked for, with its new value; files only grow meanwhile.
`OldCanBeRead`: what a right-hand side names can be read as long as anything is executed, which
is why `OldOnFile` exists. At the end `CleanExpr` moves expressions down: the new place of
each is its rank among those kept (`Ranks`, `KeptFacts`), and names follow. All of this holds while
`trouble` is "none", and no run goes on after a trouble. The only trouble that a property excludes
altogether is "missing"; that of `.store` implies that two expressions are in their file in another
order than in the array (`OutOfOrder`).

### Spectators

`SpectatorProofs` assumes `SpectatorAssumption` (the buffer holds a word at least and
the largest term, and the first array has an element) and proves, for every program,

* `SpectatorInvariant`: `Spec => []IInv`, the invariant below
* `TypeCorrect`: `Spec => []TypeOK`
* `NamesAgree`: `Spec => []NamesMatch`
* `CopiesAreComplete`: `Spec => []EveryTermComesBack`

**The argument.** `NamesUnique` and `CountIsRight` are the properties of the array. The flags say
what the buffer is: behind the file while a spectator is written, a part of the file while it
is read; that it is never both rests on the order of the statements in a module
(`StatementsInOrder`, `StatementsLead`) and on `FlushSpectators` at its end. `Contents` says that
the words of file and buffer are those of the terms sent, one after the other: there is a function
`starts` from the terms to the places where they begin (`Layout`). `PutInKeeps` and `FlushKeeps` keep
it, however a term is cut by the writing of a full buffer. For a copy `CopySoFar` says that the
terms it has got are the first ones, and that the place in the file that the buffer is read at is
where the next begins; a term is taken from one buffer (`InOneBuffer`) or from two (`InTwoBuffers`).
It is in two at most since the buffer holds the largest term.

### What is only model-checked

* Liveness: `EveryRunEnds`, `EveryExpressionEnds`, `ExpressionFinishes`, `EveryTreeEnds` and
  `EveryJobEnds`. The prover does neither fairness nor ENABLED. (That all terms are executed *when* the
  master is done, the other half of `ExpressionFinishes`, is `NothingLeftBehind`.)
* `OutputIsTheSum` of `ParForm`: there a merge of whole streams is one step, defined by recursion.
  In `SortBots`, where it is made term by term, and in `Sort`, where it is a constant, it is proved.
* That `SplitMerge` and the tree of losers of `MergeTerms` do what `AlgorithmsRight` says, and
  `Preprocessor`. `MergeTerms`, `PreMeaning` and `PreIf` are recursive operators, about which no
  proof is possible with the prover used; `Sort` takes its algorithms as constants so that it
  does not depend on them.

## 6. Findings

**`.clear` breaks the barrier** (`thread_pool_clear`, threads.c:813). `ClearAllThreads`
sends `CLEARCLOCK` to workers that stay on the stack; each lists itself again on its way
back. From then on workers are on the stack twice, and `MasterWaitAll` returns while
tasks run. (The same signal goes to the sortbots, line 816, which are counted twice.)

**`threadbucketsize` with threads off** (`bucket_memory`, compcomm.c:5674). After `Off threads;`
the statement changes `AC.ThreadBucketSize` but makes no new buckets, against threads.c:879-880
("Reallocation when we change the bucket size with the threadbucketsize statement"). `On threads;`, or
the next module, which always begins with threads on (pre.c:923), has the new size and the
old buckets. The number of terms in a bucket follows the size (2607); the terms themselves are
stopped by the length of the buffer (2846), but with Keep Brackets each has its file position put
into `deferbuffer` (2860), which ends where the terms begin. `StatementReallocates` and
`PositionsSuffice` say that the same statement with threads on is right.

### Observations

What follows was met while modelling. The models either contain it as a named outcome or
exclude it by a named definition, given here; no run asks about it.

1. **A snapshot is not atomic** (checkpoint.c:3059). The rename is, but the copies of the
   scratch files are replaced one by one before it. `BrokenOnlyByCopying` shows that this is
   the only window.
2. **Sorting.** (a) At the end of a sort the large buffer may fill the last place of a group
   when all terms of the small buffer have cancelled: the new group is empty, `MergePatches`
   returns at once and writes nothing (sort.c:1066 and 4360; `NoGroup`). The stage file it has made stays open, empty,
   until the end of the module or the next use (`FilesClosed` allows this). (b) `FileMake` in a
   nested sort sets `AN.OldPosOut` to 0 although the sort around it has groups behind that
   position (sort.c:3762, against the comment at 686-687): the groups before are never
   merged. In `Sort` this needs six terms with `MaxPatches` 1 and `MaxFpatches` 2; the
   setups of the run do not combine a nested sort that makes a file with groups of the outer one.
3. **Rings.** The remainder moved in front of block 1 can be up to `COMPINC` words longer than
   block zero (threads.c:3989) when terms have the maximal size; the run has smaller ones.
4. **Memory of buckets.** Apart from the second finding: with a setup size of 100, the statements `threadbucketsize 39` and
   then 90 leave buckets of 90 terms with 40 positions (threads.c:906): the estimate in words
   is not monotone. From 333 on it cannot happen (section 5).
5. **Expressions.** (a) An expression that is unhidden and done `InParallel` is looked for in the input
   instead of the hide file (threads.c:1594 against 2499; trouble "wrong file"). (b) An expression done
   `InParallel` sets the end of the hide file to where it was read last (threads.c:1755;
   "hide file cut"): what is hidden behind is lost, and if that is unhidden in the same module,
   it is not found. With a trouble a run of the model ends. (c) `.store` takes the distance to the next
   expression of the array in the same file as a length (execute.c:100; "not stored"). (d) A
   second definition of an expression that is being hidden or unhidden, or a third one in a module,
   leaves two of one name ("two of a name"). (e) `IntoHide;` without names does nothing
   (compcomm.c:1506, against statements.tex:2832). (f) `InParallel;` also holds for later
   definitions of the module (comexpr.c:238). (g) `Hide;` sets the level of
   hiding of all expressions, hidden or not. (h) `PushHide` and `PopHide` in one module do not undo each other.
6. **Preprocessor.** (a) `#continuedo` in a procedure or included file closes that stream and
   not the one of the loop (pre.c:2793, 3187; excluded by `ContinuesInItsLoop`). (b) The list of strings of
   nested switches loses one when it grows, and an uninitialised pointer is freed (pre.c:4185;
   outcome "freed garbage", from the eleventh on). (c) `#default` before a matching `#case` wins (pre.c:4110, against
   prepro.tex:2014-2019). (d) `#break` in an `#if` of a case is "Illegal nesting" (pre.c:4051). In a case that is skipped,
   this is against prepro.tex:403-405, which has it ignored. In an `#if` that is taken, 405-407
   let it end the switch, while 2023-2026 ask for normal nesting, which the code and `PreMeaning`
   follow (`OnlyForward`; a program of the run has it). (e) Names in an `#elseif` right after the part that was
   executed are replaced, so that an undefined one ends the program. (f) `#undefine` of a global
   variable in a procedure lets a local one survive (against prepro.tex:992). (g) A missing
   `#endif` before the end is not reported. (h) In conditions `&&` and `||` are bitwise on
   numbers in parentheses, so that `(2) && (1)` is false (pre.c:4540, against
   prepro.tex:1149-1151); two `isdefined` need parentheses around each (prepro.tex:1222);
   a string in quotes alone has an uninitialised value. The conditions of the run have numbers
   in parentheses only from comparisons and strings without quotes.
7. **Spectators.** At a `.store` the names of all spectators are deleted, whatever `.global` said
   (execute.c:77, against spectators.tex:70). `EmptySpectator` after the removal of a
   spectator created earlier compares its argument with a null pointer (spectator.c:315).
8. **ParFORM.** `AN.ninterms` does not count what its comment says (parallel.c:168 and 1076). The static
   counter `finished` and the second waiting for requests are harmless. `PF_EndSort` does not
   look at the value that `PF_WaitAllSlaves` returns.

## 7. Plan

Done in this order: `ThreadPool` with its proofs, `TermStream` and `SortBlocks`, `Buckets`,
`Checkpoint`, `BucketMemory` with its proof, `Spectator`, `SortBots`, `ParForm`, `Sort`,
`Expressions`, `Preprocessor`.

Then the theorems of section 5: `FileProofs`, `BucketsProofs`, `SortBlocksProofs` with the
refinement, `SortBotsProofs`, `ParFormProofs`, `ExpressionsProofs`, `SpectatorProofs`.

Next, theorems for every value of the constants, in this order:

1. `OutputIsTheSum` of `ParForm`, from an abstract merge of sorted streams.
2. The two algorithms of `MergeTerms`, written again as recursive functions, against `AlgorithmsRight`.

Left to model, in order of importance: names (`names.c`: insertion with rotations and
compactification against a set of names); dollar variables under threads; two readers of one
spectator under `InParallel`; hide and scratch files that have gone to disk; macros with
arguments and the calculator of the preprocessor.

## 8. Not modelled, and why

The definitions translate about 10,000 of the 172,553 lines of the repository's code, 6 in 100. Most of
the rest is algebra, translation of text, and code that comes from elsewhere.

* Algebra, normal ordering, polynomials, pattern matching: terms are data here; what could be
  wrong in them is mathematics and not control.
* Compiler: translation of text, without state shared or persistent beyond a module.
* Saved files, tables and table bases: formats of bytes.
* Optimisation of output and generation of diagrams: search over data no small instance
  stands for.
* External channels, start-up, messages: calls of the operating system.
* MaRTIn's driver: one pass without state, whose work is done by a Makefile that is not in
  the repository. `richard_draw`, QGRAF, zstd: drawing, third-party, vendored.

What the modelled components leave out:

* `Sort`: a term is a key and a coefficient, so the addition of polynomial or floating-point
  coefficients, the modulus and compression (`gzip`) are not there; nor nested sorts inside a
  comparison, sorts of `$`-variables, Timsort of more than eight runs, arguments that are too
  long, and errors of writing. `LargeSize` 0 is not tried.
* `ParForm`: broadcasts at the end of a module, `$`-variables, redefined preprocessor variables,
  right-hand sides that the slaves ask the master for, checkpoints. MPI is assumed to be correct.
* `Expressions`: files are in memory; `.global`, saved files, bracket indices and expressions
  without terms under `InParallel` are not there. A right-hand side is a new expression or the
  name of one from an earlier module, and every module has an executable statement.
* `Preprocessor`: macros with arguments, the calculator, delayed substitution, loops over
  terms, `$`-variables, parts of included files, pipes, `#write` and other output; and what is
  read after the first error.
* `SortBots`: the master's own tree for fewer than three workers (`MasterMerge`), of which
  `SortBlocks` models one input.
* `Checkpoint`: the content of a snapshot and the files of ParFORM's processes.
* `Spectator`: `.global`, two readers.
