---------------------------- MODULE ThreadPool ----------------------------
(***************************************************************************)
(* The worker pool of TFORM (form/sources/threads.c): the stack of         *)
(* available workers, the wakeup signal of each worker, the one wakeup     *)
(* variable of the master, and the master's program that drives the pool   *)
(* through a run: start-up, InParallelProcessor, ThreadsProcessor with     *)
(* MasterMerge, and termination.  ThreadPoolClear adds .clear.             *)
(*                                                                         *)
(* Granularity: a step is a critical section of one mutex that blocks on   *)
(* nothing inside, or the piece of code between two of them.  Two locks    *)
(* are held across steps and are therefore variables: wakeuplocks[w],      *)
(* which ThreadWait holds from its first line until it sleeps, and         *)
(* availabilitylock, which ThreadsProcessor holds while it restarts all    *)
(* workers.  wakeupmasterlock is never held across a step.                 *)
(***************************************************************************)
EXTENDS Integers

CONSTANTS NumberOfWorkers,  \* numberofworkers
          MaxTasks,         \* bound: expressions and buckets handed to workers in a run
          MaxExprs,         \* bound: calls of ThreadsProcessor in a run
          MaxSpurious       \* bound: condition waits that return without a signal

ASSUME NumberOfWorkersAssumption == NumberOfWorkers \in Nat \ {0}
ASSUME BoundsAssumption ==
  MaxTasks \in Nat /\ MaxExprs \in Nat /\ MaxSpurious \in Nat

Workers == 1..NumberOfWorkers

VARIABLES
  listofavailables,  \* the stack; index 0 is its bottom
  topofavailables,   \* its height
  availabilitylock,  \* TRUE while the master keeps it across steps
  wakeuplocks,       \* TRUE for a worker inside ThreadWait that is not asleep
  wakeup,            \* the pending signal of each worker, "none" for 0
  wakeupmaster,      \* identity of the worker that last woke the master, or 0
  numberclaimed,     \* workers that own their first output block
  wpc,               \* where each worker is
  wsignal,           \* the signal a worker is acting on
  phase,             \* the routine of the master
  mpc,               \* where the master is in it
  mid,               \* the worker that routine is dealing with
  exprtodo,          \* per worker: the expression or bucket loaded for it
  tasks,             \* number of expressions and buckets handed out so far
  exprs,             \* calls of ThreadsProcessor so far
  executed,          \* how many times each task was carried out
  spurious           \* condition waits that returned without a signal so far

listvars   == <<listofavailables, topofavailables>>
workervars == <<wpc, wsignal, executed>>
mastervars == <<phase, mpc, mid, exprtodo, tasks, exprs>>
vars == <<listvars, availabilitylock, wakeuplocks, wakeup, wakeupmaster,
          numberclaimed, workervars, mastervars, spurious>>

Signals == {"STARTNEWEXPRESSION", "LOWESTLEVELGENERATION", "DOONEEXPRESSION",
            "FINISHEXPRESSION", "CLEANUPEXPRESSION", "CLEARCLOCK", "TERMINATETHREAD"}

-----------------------------------------------------------------------------
(* The stack of available workers *)

\* ThreadWait puts itself at the bottom: everything moves up one place.
PushBottom(w) ==
  /\ listofavailables' = [j \in DOMAIN listofavailables |->
                            IF j = 0 THEN w
                            ELSE IF j <= topofavailables THEN listofavailables[j-1]
                            ELSE listofavailables[j]]
  /\ topofavailables' = topofavailables + 1

PopTopWithoutDecrement ==
  /\ mid' = listofavailables[topofavailables - 1]
  /\ UNCHANGED listvars

PopTop ==
  /\ topofavailables' = topofavailables - 1
  /\ mid' = listofavailables[topofavailables - 1]
  /\ UNCHANGED listofavailables

Listed(w) == \E j \in 0..topofavailables-1 : listofavailables[j] = w

\* The hole that GetThread leaves at place j is closed by moving the rest down.
CloseWithoutMoving(j) == UNCHANGED listofavailables

CloseGap(j) ==
  listofavailables' = [i \in DOMAIN listofavailables |->
                         IF i >= j /\ i < topofavailables - 1
                         THEN listofavailables[i+1] ELSE listofavailables[i]]

RemoveNothing(w) == UNCHANGED listvars

RemoveFromList(w) ==
  IF Listed(w)
  THEN /\ \E j \in 0..topofavailables-1 :
            /\ listofavailables[j] = w
            /\ \A i \in 0..j-1 : listofavailables[i] # w
            /\ CloseGap(j)
       /\ topofavailables' = topofavailables - 1
  ELSE UNCHANGED listvars

-----------------------------------------------------------------------------
(* Condition variables: a signal moves a sleeper to the point where it     *)
(* takes its lock again and looks at its condition.                        *)

MasterAwake(pc) ==
  CASE pc = "masterasleep" -> "masterwait"
    [] pc = "allasleep"    -> "waitall"
    [] pc = "blocksasleep" -> "waitblocks"
    [] OTHER               -> pc

WakeMaster(w) == wakeupmaster' = w /\ mpc' = MasterAwake(mpc)

\* WakeupThread: the signal is written over whatever is there.
WakeupThread(w, s) ==
  /\ ~wakeuplocks[w]
  /\ wakeup' = [wakeup EXCEPT ![w] = s]
  /\ wpc' = [wpc EXCEPT ![w] = IF @ = "asleep" THEN "woken" ELSE @]

-----------------------------------------------------------------------------
(* A worker: ThreadWait, then the task its signal asks for *)

\* LOCK(wakeuplocks[identity])
EnterThreadWait(w) ==
  /\ wpc[w] = "enter" /\ ~wakeuplocks[w]
  /\ wakeuplocks' = [wakeuplocks EXCEPT ![w] = TRUE]
  /\ wpc' = [wpc EXCEPT ![w] = "locked"]
  /\ UNCHANGED <<listvars, availabilitylock, wakeup, wakeupmaster, numberclaimed,
                 wsignal, executed, mastervars, spurious>>

\* The master is told when the stack was empty, and when it is full.
TellsWhenEmptyOnly == topofavailables = 0

TellsMaster == topofavailables = 0 \/ topofavailables' = NumberOfWorkers

\* The section under availabilitylock.
ListMyself(w) ==
  /\ wpc[w] = "locked" /\ ~availabilitylock
  /\ PushBottom(w)
  /\ wpc' = [wpc EXCEPT ![w] = IF TellsMaster THEN "tell" ELSE "test"]
  /\ UNCHANGED <<availabilitylock, wakeuplocks, wakeup, wakeupmaster, numberclaimed,
                 wsignal, executed, mastervars, spurious>>

TellMaster(w) ==
  /\ wpc[w] = "tell"
  /\ WakeMaster(w)
  /\ wpc' = [wpc EXCEPT ![w] = "test"]
  /\ UNCHANGED <<listvars, availabilitylock, wakeuplocks, wakeup, numberclaimed,
                 wsignal, executed, phase, mid, exprtodo, tasks, exprs, spurious>>

\* pthread_cond_wait releases wakeuplocks[identity]
FallAsleep(w) ==
  /\ wpc[w] = "test" /\ wakeup[w] = "none"
  /\ wakeuplocks' = [wakeuplocks EXCEPT ![w] = FALSE]
  /\ wpc' = [wpc EXCEPT ![w] = "asleep"]
  /\ UNCHANGED <<listvars, availabilitylock, wakeup, wakeupmaster, numberclaimed,
                 wsignal, executed, mastervars, spurious>>

Reacquire(w) ==
  /\ wpc[w] = "woken" /\ ~wakeuplocks[w]
  /\ wakeuplocks' = [wakeuplocks EXCEPT ![w] = TRUE]
  /\ wpc' = [wpc EXCEPT ![w] = "test"]
  /\ UNCHANGED <<listvars, availabilitylock, wakeup, wakeupmaster, numberclaimed,
                 wsignal, executed, mastervars, spurious>>

\* POSIX lets pthread_cond_wait return without a signal.
SpuriousWakeup(w) ==
  /\ wpc[w] = "asleep" /\ spurious < MaxSpurious
  /\ spurious' = spurious + 1
  /\ wpc' = [wpc EXCEPT ![w] = "woken"]
  /\ UNCHANGED <<listvars, availabilitylock, wakeuplocks, wakeup, wakeupmaster,
                 numberclaimed, wsignal, executed, mastervars>>

TakeSignal(w) ==
  /\ wpc[w] = "test" /\ wakeup[w] # "none"
  /\ wsignal' = [wsignal EXCEPT ![w] = wakeup[w]]
  /\ wakeup' = [wakeup EXCEPT ![w] = "none"]
  /\ wakeuplocks' = [wakeuplocks EXCEPT ![w] = FALSE]
  /\ wpc' = [wpc EXCEPT ![w] = "run"]
  /\ UNCHANGED <<listvars, availabilitylock, wakeupmaster, numberclaimed, executed,
                 mastervars, spurious>>

\* The cases of RunThread that neither end the thread nor meet the master.
RunTask(w) ==
  /\ wpc[w] = "run"
  /\ wsignal[w] \notin {"FINISHEXPRESSION", "TERMINATETHREAD"}
  /\ executed' = IF wsignal[w] \in {"LOWESTLEVELGENERATION", "DOONEEXPRESSION"}
                 THEN [executed EXCEPT ![exprtodo[w]] = @ + 1]
                 ELSE executed
  /\ wpc' = [wpc EXCEPT ![w] = "enter"]
  /\ UNCHANGED <<listvars, availabilitylock, wakeuplocks, wakeup, wakeupmaster,
                 numberclaimed, wsignal, mastervars, spurious>>

\* FINISHEXPRESSION: the first block is claimed, ThreadClaimedBlock counts it.
ClaimBlock(w) ==
  /\ wpc[w] = "run" /\ wsignal[w] = "FINISHEXPRESSION" /\ ~availabilitylock
  /\ numberclaimed' = numberclaimed + 1
  /\ wpc' = [wpc EXCEPT ![w] = IF numberclaimed' >= NumberOfWorkers
                               THEN "tellclaim" ELSE "sort"]
  /\ UNCHANGED <<listvars, availabilitylock, wakeuplocks, wakeup, wakeupmaster,
                 wsignal, executed, mastervars, spurious>>

TellClaim(w) ==
  /\ wpc[w] = "tellclaim"
  /\ WakeMaster(w)
  /\ wpc' = [wpc EXCEPT ![w] = "sort"]
  /\ UNCHANGED <<listvars, availabilitylock, wakeuplocks, wakeup, numberclaimed,
                 wsignal, executed, phase, mid, exprtodo, tasks, exprs, spurious>>

\* EndSort through the blocks of the master (module SortBlocks).
FinishSort(w) ==
  /\ wpc[w] = "sort"
  /\ wpc' = [wpc EXCEPT ![w] = "enter"]
  /\ UNCHANGED <<listvars, availabilitylock, wakeuplocks, wakeup, wakeupmaster,
                 numberclaimed, wsignal, executed, mastervars, spurious>>

EndThread(w) ==
  /\ wpc[w] = "run" /\ wsignal[w] = "TERMINATETHREAD"
  /\ wpc' = [wpc EXCEPT ![w] = "dead"]
  /\ UNCHANGED <<listvars, availabilitylock, wakeuplocks, wakeup, wakeupmaster,
                 numberclaimed, wsignal, executed, mastervars, spurious>>

WorkerStep(w) ==
  \/ EnterThreadWait(w) \/ ListMyself(w) \/ TellMaster(w) \/ FallAsleep(w)
  \/ Reacquire(w) \/ TakeSignal(w) \/ RunTask(w) \/ ClaimBlock(w)
  \/ TellClaim(w) \/ FinishSort(w) \/ EndThread(w)

-----------------------------------------------------------------------------
(* The master *)

SignalOf(ph) ==
  CASE ph = "inparallel" -> "DOONEEXPRESSION"
    [] ph = "start"      -> "STARTNEWEXPRESSION"
    [] ph = "buckets"    -> "LOWESTLEVELGENERATION"
    [] ph = "finish"     -> "FINISHEXPRESSION"
    [] ph = "cleanup"    -> "CLEANUPEXPRESSION"
    [] ph = "clear"      -> "CLEARCLOCK"
    [] ph = "terminate"  -> "TERMINATETHREAD"

Goto(ph, pc) == phase' = ph /\ mpc' = pc

\* Where a loop over all workers goes on after worker mid.
NextWorker(again) ==
  IF mid < NumberOfWorkers
  THEN Goto(phase, again) /\ mid' = mid + 1
  ELSE /\ CASE phase = "start"     -> Goto("start", "unlock")
            [] phase = "finish"    -> Goto("merge", "waitblocks")
            [] phase = "cleanup"   -> Goto("cleanup", "waitall")
            [] phase = "clear"     -> Goto("idle", "choose")
            [] phase = "terminate" -> Goto("terminate", "join")
       /\ UNCHANGED mid

\* Between two instructions of the user's program.
BeginInParallel ==
  /\ mpc = "choose" /\ tasks < MaxTasks
  /\ Goto("inparallel", "get")
  /\ UNCHANGED <<listvars, availabilitylock, wakeuplocks, wakeup, wakeupmaster,
                 numberclaimed, workervars, mid, exprtodo, tasks, exprs, spurious>>

EmptyNothing == UNCHANGED topofavailables

EmptyStack == topofavailables' = 0

\* ThreadsProcessor empties the stack and keeps availabilitylock.
BeginThreadsProcessor ==
  /\ mpc = "choose" /\ exprs < MaxExprs /\ ~availabilitylock
  /\ exprs' = exprs + 1
  /\ availabilitylock' = TRUE
  /\ EmptyStack
  /\ Goto("start", "wake") /\ mid' = 1
  /\ UNCHANGED <<listofavailables, wakeuplocks, wakeup, wakeupmaster, numberclaimed,
                 workervars, exprtodo, tasks, spurious>>

BeginTerminate ==
  /\ mpc = "choose"
  /\ Goto("terminate", "remove") /\ mid' = 1
  /\ UNCHANGED <<listvars, availabilitylock, wakeuplocks, wakeup, wakeupmaster,
                 numberclaimed, workervars, exprtodo, tasks, exprs, spurious>>

UnlockAvailability ==
  /\ mpc = "unlock"
  /\ availabilitylock' = FALSE
  /\ Goto("start", "waitall")
  /\ UNCHANGED <<listvars, wakeuplocks, wakeup, wakeupmaster, numberclaimed,
                 workervars, mid, exprtodo, tasks, exprs, spurious>>

\* The loops of InParallelProcessor and of the buckets in ThreadsProcessor.
DispatchAnother ==
  /\ mpc = "loop" /\ tasks < MaxTasks
  /\ Goto(phase, "get")
  /\ UNCHANGED <<listvars, availabilitylock, wakeuplocks, wakeup, wakeupmaster,
                 numberclaimed, workervars, mid, exprtodo, tasks, exprs, spurious>>

LeaveLoop ==
  /\ mpc = "loop"
  /\ Goto(phase, "waitall")
  /\ UNCHANGED <<listvars, availabilitylock, wakeuplocks, wakeup, wakeupmaster,
                 numberclaimed, workervars, mid, exprtodo, tasks, exprs, spurious>>

GetAvailableThread ==
  /\ mpc = "get" /\ ~availabilitylock
  /\ IF topofavailables > 0
     THEN PopTop /\ Goto(phase, "sync")
     ELSE Goto(phase, "masterwait") /\ UNCHANGED <<listvars, mid>>
  /\ UNCHANGED <<availabilitylock, wakeuplocks, wakeup, wakeupmaster,
                 numberclaimed, workervars, exprtodo, tasks, exprs, spurious>>

NotChecked(w) == TRUE

OutsideThreadWaitLock(w) == ~wakeuplocks[w]

\* GetAvailableThread takes and returns the lock of the worker it found.
SyncWithWorker ==
  /\ mpc = "sync" /\ OutsideThreadWaitLock(mid)
  /\ Goto(phase, "load")
  /\ UNCHANGED <<listvars, availabilitylock, wakeuplocks, wakeup, wakeupmaster,
                 numberclaimed, workervars, mid, exprtodo, tasks, exprs, spurious>>

\* LoadOneThread and the assignment to exprtodo, or to threadbuck.
LoadThread ==
  /\ mpc = "load"
  /\ tasks' = tasks + 1
  /\ exprtodo' = [exprtodo EXCEPT ![mid] = tasks']
  /\ Goto(phase, "wake")
  /\ UNCHANGED <<listvars, availabilitylock, wakeuplocks, wakeup, wakeupmaster,
                 numberclaimed, workervars, mid, exprs, spurious>>

Wake ==
  /\ mpc = "wake"
  /\ WakeupThread(mid, SignalOf(phase))
  /\ CASE phase \in {"inparallel", "buckets"} -> Goto(phase, "loop") /\ UNCHANGED mid
       [] phase \in {"start", "clear"}        -> NextWorker("wake")
       [] OTHER                               -> NextWorker("remove")
  /\ UNCHANGED <<listvars, availabilitylock, wakeuplocks, wakeupmaster, numberclaimed,
                 wsignal, executed, exprtodo, tasks, exprs, spurious>>

\* GetThread(mid); only the clean-up loop looks at its result.
GetThread ==
  /\ mpc = "remove" /\ ~availabilitylock
  /\ RemoveFromList(mid)
  /\ IF phase = "cleanup" /\ ~Listed(mid)
     THEN NextWorker("remove")
     ELSE Goto(phase, "wake") /\ UNCHANGED mid
  /\ UNCHANGED <<availabilitylock, wakeuplocks, wakeup, wakeupmaster, numberclaimed,
                 workervars, exprtodo, tasks, exprs, spurious>>

MasterWait ==
  /\ mpc = "masterwait"
  /\ wakeupmaster' = 0
  /\ Goto(phase, IF wakeupmaster = 0 THEN "masterasleep" ELSE "get")
  /\ UNCHANGED <<listvars, availabilitylock, wakeuplocks, wakeup, numberclaimed,
                 workervars, mid, exprtodo, tasks, exprs, spurious>>

AllButOneAvailable == topofavailables >= NumberOfWorkers - 1

AllAvailable == topofavailables >= NumberOfWorkers

MasterWaitAll ==
  /\ mpc = "waitall"
  /\ IF ~AllAvailable
     THEN Goto(phase, "allasleep") /\ UNCHANGED <<mid, numberclaimed>>
     ELSE /\ CASE phase = "start"   -> Goto("buckets", "loop")
               [] phase = "buckets" -> Goto("finish", "remove")
               [] phase = "merge"   -> Goto("cleanup", "remove")
               [] phase = "clear"   -> Goto("clear", "wake")
               [] OTHER             -> Goto("idle", "choose")
          /\ mid' = IF phase \in {"buckets", "merge", "clear"} THEN 1 ELSE mid
          /\ numberclaimed' = IF phase = "buckets" THEN 0 ELSE numberclaimed
  /\ UNCHANGED <<listvars, availabilitylock, wakeuplocks, wakeup, wakeupmaster,
                 workervars, exprtodo, tasks, exprs, spurious>>

MasterWaitAllBlocks ==
  /\ mpc = "waitblocks"
  /\ Goto("merge", IF numberclaimed < NumberOfWorkers THEN "blocksasleep" ELSE "waitall")
  /\ UNCHANGED <<listvars, availabilitylock, wakeuplocks, wakeup, wakeupmaster,
                 numberclaimed, workervars, mid, exprtodo, tasks, exprs, spurious>>

\* The same freedom of pthread_cond_wait, for the master.
MasterSpuriousWakeup ==
  /\ mpc \in {"masterasleep", "allasleep", "blocksasleep"} /\ spurious < MaxSpurious
  /\ spurious' = spurious + 1
  /\ mpc' = MasterAwake(mpc)
  /\ UNCHANGED <<listvars, availabilitylock, wakeuplocks, wakeup, wakeupmaster,
                 numberclaimed, workervars, phase, mid, exprtodo, tasks, exprs>>

JoinAll ==
  /\ mpc = "join" /\ \A w \in Workers : wpc[w] = "dead"
  /\ Goto("end", "end")
  /\ UNCHANGED <<listvars, availabilitylock, wakeuplocks, wakeup, wakeupmaster,
                 numberclaimed, workervars, mid, exprtodo, tasks, exprs, spurious>>

MasterStep ==
  \/ BeginInParallel \/ BeginThreadsProcessor \/ BeginTerminate
  \/ UnlockAvailability \/ DispatchAnother \/ LeaveLoop
  \/ GetAvailableThread \/ SyncWithWorker \/ LoadThread \/ Wake \/ GetThread
  \/ MasterWait \/ MasterWaitAll \/ MasterWaitAllBlocks \/ JoinAll

-----------------------------------------------------------------------------
\* StartAllThreads: the threads exist and initialise, the master waits for all.
Init ==
  /\ listofavailables = [j \in 0..NumberOfWorkers+1 |-> 0]
  /\ topofavailables = 0
  /\ availabilitylock = FALSE
  /\ wakeuplocks = [w \in Workers |-> FALSE]
  /\ wakeup = [w \in Workers |-> "none"]
  /\ wakeupmaster = 0
  /\ numberclaimed = 0
  /\ wpc = [w \in Workers |-> "enter"]
  /\ wsignal = [w \in Workers |-> "none"]
  /\ phase = "startup" /\ mpc = "waitall" /\ mid = 1
  /\ exprtodo = [w \in Workers |-> 0]
  /\ tasks = 0 /\ exprs = 0
  /\ executed = [t \in 1..MaxTasks |-> 0]
  /\ spurious = 0

Next ==
  \/ \E w \in Workers : WorkerStep(w) \/ SpuriousWakeup(w)
  \/ MasterStep \/ MasterSpuriousWakeup

\* Every thread that can run does: the operating system schedules each of them,
\* and a mutex that is free is obtained.
Fairness == WF_vars(MasterStep) /\ \A w \in Workers : WF_vars(WorkerStep(w))

Spec == Init /\ [][Next]_vars
FairSpec == Spec /\ Fairness

-----------------------------------------------------------------------------
(* Properties *)

InThreadWait == {"tell", "test", "asleep", "woken"}

TypeOK ==
  /\ listofavailables \in [0..NumberOfWorkers+1 -> 0..NumberOfWorkers]
  /\ topofavailables \in 0..NumberOfWorkers
  /\ availabilitylock \in BOOLEAN
  /\ wakeuplocks \in [Workers -> BOOLEAN]
  /\ wakeup \in [Workers -> Signals \cup {"none"}]
  /\ wakeupmaster \in 0..NumberOfWorkers
  /\ numberclaimed \in Nat
  /\ wpc \in [Workers -> InThreadWait \cup
                {"enter", "locked", "run", "tellclaim", "sort", "dead"}]
  /\ wsignal \in [Workers -> Signals \cup {"none"}]
  /\ phase \in {"startup", "idle", "inparallel", "start", "buckets", "finish",
                "merge", "cleanup", "terminate", "end"}
  /\ mpc \in {"choose", "get", "sync", "load", "wake", "remove", "unlock", "loop",
              "masterwait", "masterasleep", "waitall", "allasleep",
              "waitblocks", "blocksasleep", "join", "end"}
  /\ mid \in Workers
  /\ exprtodo \in [Workers -> 0..MaxTasks]
  /\ tasks \in 0..MaxTasks /\ exprs \in 0..MaxExprs
  /\ executed \in [1..MaxTasks -> Nat] /\ spurious \in 0..MaxSpurious

\* A worker stands on the stack of available workers at most once, so that it
\* cannot be given a second task before it has come back from the first.
NoWorkerListedTwice ==
  \A i, j \in 0..topofavailables-1 :
     listofavailables[i] = listofavailables[j] => i = j

\* "If a thread is available it is taken from the stack": a worker on the stack
\* is inside ThreadWait and no signal is on its way to it.
ListedAreIdle ==
  \A j \in 0..topofavailables-1 :
     /\ listofavailables[j] \in Workers
     /\ wpc[listofavailables[j]] \in InThreadWait
     /\ wakeup[listofavailables[j]] = "none"

\* "Make sure the thread is indeed waiting and not between saying that it is
\* available and starting to wait": LoadOneThread writes the private data of a
\* worker only while that worker is asleep, or past its first test of the signal.
LoadedWorkerWaits ==
  mpc \in {"load", "wake"} /\ phase \in {"inparallel", "buckets"} =>
     /\ wpc[mid] \in {"asleep", "woken", "test"}
     /\ wakeup[mid] = "none"

\* When MasterWaitAll has let the master go on to the next instruction, every
\* expression and bucket handed out has been carried out exactly once.
BarrierMeansDone ==
  mpc = "choose" => \A t \in 1..MaxTasks : executed[t] = IF t <= tasks THEN 1 ELSE 0

\* WakeupThread stores into wakeup[id] unconditionally: no step may replace a
\* signal that its worker has not taken.
NoSignalOverwritten ==
  [][\A w \in Workers : wakeup[w] # "none" => wakeup'[w] \in {wakeup[w], "none"}]_vars

\* Nobody waits for ever: every run ends with all threads joined, whatever the
\* order in which signals, tests and lock sections interleave.
EveryRunEnds == <>(phase = "end")
=============================================================================
