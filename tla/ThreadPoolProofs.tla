------------------------- MODULE ThreadPoolProofs -------------------------
(***************************************************************************)
(* Theorems about ThreadPool, for every number of workers and every bound. *)
(***************************************************************************)
EXTENDS ThreadPool, FiniteSetTheorems, TLAPS

-----------------------------------------------------------------------------
(* The inductive invariant *)

\* Worker w is in ThreadWait and no signal is on its way to it.
Idle(w) == wpc[w] \in InThreadWait /\ wakeup[w] = "none"

Unlisted(w) == \A j \in 0..topofavailables-1 : listofavailables[j] # w

DispatchPhases == {"inparallel", "buckets"}   \* a task for whoever is available
RemovePhases   == {"finish", "cleanup", "terminate"}   \* GetThread for each worker

\* Which routine of the master can be at which place.
MasterShape ==
  /\ mpc = "choose" => phase = "idle"
  /\ mpc \in {"get", "sync", "load", "loop", "masterwait", "masterasleep"} =>
       phase \in DispatchPhases
  /\ mpc = "wake" => phase \in DispatchPhases \cup RemovePhases \cup {"start"}
  /\ mpc = "remove" => phase \in RemovePhases
  /\ mpc = "unlock" => phase = "start"
  /\ mpc \in {"waitall", "allasleep"} =>
       phase \in DispatchPhases \cup {"startup", "start", "merge", "cleanup"}
  /\ mpc \in {"waitblocks", "blocksasleep"} => phase = "merge"
  /\ mpc \in {"get", "sync", "load", "masterwait", "masterasleep"} => tasks < MaxTasks

\* While the master holds availabilitylock the stack is empty.
LockedIsEmpty ==
  /\ availabilitylock <=> (phase = "start" /\ mpc \in {"wake", "unlock"})
  /\ availabilitylock => topofavailables = 0

\* Only a worker in ThreadWait has a signal it has not taken.
SignalledWaits == \A w \in Workers : wakeup[w] # "none" => wpc[w] \in InThreadWait

\* The worker the master deals with, and in a loop over all workers those it
\* still has to deal with, are idle; the one it is about to wake is off the stack.
MasterHolds ==
  /\ mpc = "choose" => \A w \in Workers : Idle(w)
  /\ mpc \in {"sync", "load", "wake"} => Idle(mid) /\ Unlisted(mid)
  /\ mpc \in {"wake", "remove"} /\ phase \notin DispatchPhases =>
       \A w \in mid..NumberOfWorkers : Idle(w)

PoolInv ==
  TypeOK /\ NoWorkerListedTwice /\ ListedAreIdle /\ MasterShape /\ LockedIsEmpty
  /\ SignalledWaits /\ MasterHolds

\* Who holds wakeuplocks[w] is worker w between entering ThreadWait and sleeping.
LocksInv == \A w \in Workers : wakeuplocks[w] <=> wpc[w] \in {"locked", "tell", "test"}

\* Worker w has a task that it has not carried out.
Work == {"LOWESTLEVELGENERATION", "DOONEEXPRESSION"}
Pending(w) ==
  \/ wakeup[w] \in Work
  \/ wpc[w] = "run" /\ wsignal[w] \in Work
  \/ mpc = "wake" /\ phase \in DispatchPhases /\ mid = w

\* A task handed out is either pending, at one worker, or carried out once.
OnceInv ==
  /\ \A w \in Workers : Pending(w) => exprtodo[w] \in 1..tasks
  /\ \A v, w \in Workers : Pending(v) /\ Pending(w) /\ exprtodo[v] = exprtodo[w] => v = w
  /\ \A w \in Workers : Pending(w) => executed[exprtodo[w]] = 0
  /\ \A t \in 1..tasks : (\A w \in Workers : Pending(w) => exprtodo[w] # t) => executed[t] = 1
  /\ \A t \in 1..MaxTasks : t > tasks => executed[t] = 0

IInv == PoolInv /\ LocksInv /\ OnceInv

-----------------------------------------------------------------------------
(* The stack *)

StackTypeOK ==
  /\ NumberOfWorkers \in Nat
  /\ listofavailables \in [0..NumberOfWorkers+1 -> 0..NumberOfWorkers]
  /\ topofavailables \in 0..NumberOfWorkers

\* Distinct entries from 1..n leave room for one more when some x is missing.
LEMMA Room ==
  ASSUME NEW n \in Nat, NEW m \in Nat, NEW f, NEW x \in 1..n,
         \A i \in 0..m-1 : f[i] \in 1..n /\ f[i] # x,
         \A i, j \in 0..m-1 : f[i] = f[j] => i = j
  PROVE  m < n
<1>1. SUFFICES ASSUME m >= n PROVE FALSE
  OBVIOUS
<1> DEFINE S == 0..m-1
           T == (1..n) \ {x}
           g == [i \in S |-> f[i]]
<1>2. IsFiniteSet(S) /\ Cardinality(S) = m
  BY FS_Interval, 0 \in Int, m-1 \in Int
<1>3. IsFiniteSet(1..n) /\ Cardinality(1..n) = n
  BY FS_Interval, 1 \in Int, n \in Int
<1>4. IsFiniteSet(T) /\ Cardinality(T) = n - 1
  BY <1>3, FS_RemoveElement
<1>5. g \in [S -> T]
  OBVIOUS
<1>6. Cardinality(T) < Cardinality(S)
  BY <1>1, <1>2, <1>4
<1>7. \E i, j \in S : i # j /\ g[i] = g[j]
  <2> HIDE DEF S, T, g
  <2>1. QED
    BY <1>2, <1>4, <1>5, <1>6, FS_PigeonHole
<1>8. QED
  BY <1>7

\* A worker that is not on the stack finds room there.
LEMMA RoomOnStack ==
  ASSUME StackTypeOK, NoWorkerListedTwice, ListedAreIdle, NEW w \in Workers, Unlisted(w)
  PROVE  topofavailables < NumberOfWorkers
<1>1. NumberOfWorkers \in Nat /\ topofavailables \in Nat
  BY DEF StackTypeOK
<1>2. w \in 1..NumberOfWorkers
  BY DEF Workers
<1>3. \A i \in 0..topofavailables-1 :
         listofavailables[i] \in 1..NumberOfWorkers /\ listofavailables[i] # w
  BY DEF ListedAreIdle, Unlisted, Workers
<1>4. \A i, j \in 0..topofavailables-1 :
         listofavailables[i] = listofavailables[j] => i = j
  BY DEF NoWorkerListedTwice
<1>5. QED
  BY <1>1, <1>2, <1>3, <1>4, Room

\* When the stack is full every worker is on it, and idle.
LEMMA FullMeansIdle ==
  ASSUME StackTypeOK, NoWorkerListedTwice, ListedAreIdle, AllAvailable, NEW w \in Workers
  PROVE  Idle(w)
<1>1. ~Unlisted(w)
  <2>1. SUFFICES ASSUME Unlisted(w) PROVE FALSE
    OBVIOUS
  <2>2. topofavailables < NumberOfWorkers
    BY <2>1, RoomOnStack
  <2>3. QED
    BY <2>2 DEF AllAvailable, StackTypeOK
<1>2. QED
  BY <1>1 DEF Unlisted, ListedAreIdle, Idle

\* ThreadWait of a worker that is not listed keeps the stack well formed: nobody is
\* listed twice, and apart from that worker the same ones are listed.
LEMMA PushKeepsStack ==
  ASSUME StackTypeOK, NoWorkerListedTwice, ListedAreIdle,
         NEW w \in Workers, Unlisted(w), PushBottom(w)
  PROVE  /\ listofavailables' \in [0..NumberOfWorkers+1 -> 0..NumberOfWorkers]
         /\ topofavailables' \in 0..NumberOfWorkers
         /\ NoWorkerListedTwice'
         /\ \A j \in 0..topofavailables'-1 :
              \/ listofavailables'[j] = w
              \/ \E i \in 0..topofavailables-1 : listofavailables'[j] = listofavailables[i]
<1>1. topofavailables < NumberOfWorkers
  BY RoomOnStack
<1>2. topofavailables' = topofavailables + 1 /\ topofavailables' \in 0..NumberOfWorkers
  BY <1>1 DEF PushBottom, StackTypeOK
<1>3. listofavailables' \in [0..NumberOfWorkers+1 -> 0..NumberOfWorkers]
  <2>1. w \in 0..NumberOfWorkers
    BY DEF Workers
  <2>2. \A j \in 1..topofavailables : listofavailables[j-1] \in 0..NumberOfWorkers
    BY <1>1 DEF StackTypeOK
  <2>3. DOMAIN listofavailables = 0..NumberOfWorkers+1
    BY DEF StackTypeOK
  <2>4. ASSUME NEW j \in 0..NumberOfWorkers+1
        PROVE  (IF j = 0 THEN w ELSE IF j <= topofavailables THEN listofavailables[j-1]
                ELSE listofavailables[j]) \in 0..NumberOfWorkers
    <3>1. CASE j = 0
      BY <2>1, <3>1
    <3>2. CASE j # 0 /\ j <= topofavailables
      <4>1. j \in 1..topofavailables
        BY <3>2 DEF StackTypeOK
      <4>2. QED
        BY <2>2, <3>2, <4>1
    <3>3. CASE j # 0 /\ ~(j <= topofavailables)
      BY <3>3 DEF StackTypeOK
    <3>4. QED
      BY <3>1, <3>2, <3>3
  <2>5. QED
    BY <2>3, <2>4 DEF PushBottom
<1>4. \A j \in 0..topofavailables :
         listofavailables'[j] = IF j = 0 THEN w ELSE listofavailables[j-1]
  BY <1>1 DEF PushBottom, StackTypeOK
<1>5. NoWorkerListedTwice'
  <2>1. SUFFICES ASSUME NEW i \in 0..topofavailables, NEW j \in 0..topofavailables,
                        listofavailables'[i] = listofavailables'[j]
                 PROVE  i = j
    BY <1>2 DEF NoWorkerListedTwice, StackTypeOK
  <2>2. CASE i = 0 \/ j = 0
    BY <1>4, <2>1, <2>2 DEF Unlisted, StackTypeOK
  <2>3. CASE i # 0 /\ j # 0
    <3>1. i-1 \in 0..topofavailables-1 /\ j-1 \in 0..topofavailables-1
      BY <2>3 DEF StackTypeOK
    <3>2. listofavailables[i-1] = listofavailables[j-1]
      BY <1>4, <2>1, <2>3
    <3>3. i-1 = j-1
      BY <3>1, <3>2 DEF NoWorkerListedTwice
    <3>4. QED
      BY <3>3
  <2>4. QED
    BY <2>2, <2>3
<1>6. ASSUME NEW j \in 0..topofavailables, listofavailables'[j] # w
      PROVE  \E i \in 0..topofavailables-1 : listofavailables'[j] = listofavailables[i]
  <2>1. j # 0 /\ listofavailables'[j] = listofavailables[j-1]
    BY <1>4, <1>6
  <2>2. j-1 \in 0..topofavailables-1
    BY <2>1 DEF StackTypeOK
  <2>3. QED
    BY <2>1, <2>2
<1>7. topofavailables' - 1 = topofavailables
  BY <1>2 DEF StackTypeOK
<1>8. QED
  BY <1>2, <1>3, <1>5, <1>6, <1>7

\* GetThread(w) takes w off the stack and closes the gap; it lists nobody twice.
LEMMA RemoveKeepsStack ==
  ASSUME StackTypeOK, NoWorkerListedTwice, NEW w \in Workers, RemoveFromList(w)
  PROVE  /\ listofavailables' \in [0..NumberOfWorkers+1 -> 0..NumberOfWorkers]
         /\ topofavailables' \in 0..topofavailables
         /\ NoWorkerListedTwice'
         /\ Unlisted(w)'
         /\ \A j \in 0..topofavailables'-1 :
              \E i \in 0..topofavailables-1 : listofavailables'[j] = listofavailables[i]
<1>1. CASE ~Listed(w)
  <2>1. UNCHANGED listvars
    BY <1>1 DEF RemoveFromList
  <2>2. QED
    BY <1>1, <2>1 DEF listvars, Listed, Unlisted, NoWorkerListedTwice, StackTypeOK
<1>2. CASE Listed(w)
  <2>1. PICK k \in 0..topofavailables-1 : listofavailables[k] = w /\ CloseGap(k)
    BY <1>2 DEF RemoveFromList
  <2>2. topofavailables' = topofavailables - 1 /\ topofavailables' \in 0..topofavailables
    BY <1>2, <2>1 DEF RemoveFromList, StackTypeOK
  <2>3. listofavailables' \in [0..NumberOfWorkers+1 -> 0..NumberOfWorkers]
    BY <2>1 DEF CloseGap, StackTypeOK
  <2>4. \A j \in 0..topofavailables-2 :
           listofavailables'[j] = listofavailables[IF j >= k THEN j+1 ELSE j]
    BY <2>1 DEF CloseGap, StackTypeOK
  <2>5. NoWorkerListedTwice'
    <3>1. SUFFICES ASSUME NEW i \in 0..topofavailables-2, NEW j \in 0..topofavailables-2,
                          listofavailables'[i] = listofavailables'[j]
                   PROVE  i = j
      BY <2>2 DEF NoWorkerListedTwice, StackTypeOK
    <3> DEFINE old(x) == IF x >= k THEN x+1 ELSE x
    <3>2. old(i) \in 0..topofavailables-1 /\ old(j) \in 0..topofavailables-1
      BY DEF StackTypeOK
    <3>3. listofavailables[old(i)] = listofavailables[old(j)]
      BY <2>4, <3>1
    <3>4. old(i) = old(j)
      <4> HIDE DEF old
      <4>1. QED
        BY <3>2, <3>3 DEF NoWorkerListedTwice
    <3>5. QED
      BY <3>4
  <2>6. Unlisted(w)'
    <3>1. SUFFICES ASSUME NEW j \in 0..topofavailables-2, listofavailables'[j] = w
                   PROVE  FALSE
      BY <2>2 DEF Unlisted, StackTypeOK
    <3> DEFINE old == IF j >= k THEN j+1 ELSE j
    <3>2. old \in 0..topofavailables-1 /\ old # k
      BY DEF StackTypeOK
    <3>3. listofavailables[old] = listofavailables[k]
      BY <2>1, <2>4, <3>1
    <3>4. QED
      <4> HIDE DEF old
      <4>1. QED
        BY <3>2, <3>3 DEF NoWorkerListedTwice
  <2>7. ASSUME NEW j \in 0..topofavailables-2
        PROVE  \E i \in 0..topofavailables-1 : listofavailables'[j] = listofavailables[i]
    <3>1. (IF j >= k THEN j+1 ELSE j) \in 0..topofavailables-1
      BY DEF StackTypeOK
    <3>2. QED
      BY <2>4, <3>1
  <2>8. topofavailables' - 1 = topofavailables - 2
    BY <2>2 DEF StackTypeOK
  <2>9. QED
    BY <2>2, <2>3, <2>5, <2>6, <2>7, <2>8
<1>3. QED
  BY <1>1, <1>2

-----------------------------------------------------------------------------
(* Steps of the workers *)

\* The type invariant in the form the lemmas about the stack ask for.
LEMMA StackTyped ==
  ASSUME TypeOK
  PROVE  StackTypeOK
BY NumberOfWorkersAssumption DEF TypeOK, StackTypeOK

\* A step that moves nothing on the stack, leaves the master's program where it is
\* (or lets it leave a condition wait) and disturbs no idle worker.
QuietStep ==
  /\ UNCHANGED <<listofavailables, topofavailables, availabilitylock, phase, mid, tasks>>
  /\ mpc' = mpc \/ mpc' = MasterAwake(mpc)
  /\ \A v \in Workers : Idle(v) => Idle(v)'

\* A step that leaves the stack and the master alone, and after which every idle
\* worker is still idle, keeps the invariant of the pool.
LEMMA QuietStepKeeps ==
  ASSUME PoolInv, QuietStep
  PROVE  NoWorkerListedTwice' /\ ListedAreIdle' /\ MasterShape' /\ LockedIsEmpty'
         /\ MasterHolds'
<1> USE DEF PoolInv
<1>1. NoWorkerListedTwice'
  BY DEF QuietStep, NoWorkerListedTwice
<1>2. ListedAreIdle'
  BY DEF QuietStep, ListedAreIdle, Idle
<1>3. MasterShape' /\ LockedIsEmpty'
  BY DEF QuietStep, MasterAwake, MasterShape, LockedIsEmpty, DispatchPhases
<1>4. mid \in Workers /\ mid..NumberOfWorkers \subseteq Workers
  BY NumberOfWorkersAssumption DEF TypeOK, Workers
<1>5. mpc' = mpc \/ mpc' \notin {"choose", "sync", "load", "wake", "remove"}
  BY DEF QuietStep, MasterAwake
<1>6. Unlisted(mid) => Unlisted(mid)'
  BY DEF QuietStep, Unlisted
<1>7. MasterHolds'
  BY <1>4, <1>5, <1>6 DEF QuietStep, MasterHolds
<1>8. QED
  BY <1>1, <1>2, <1>3, <1>7

\* The section of ThreadWait under availabilitylock: the worker was not listed before,
\* because listed workers are past it, so the stack has room for it.
LEMMA ListMyselfKeepsPool ==
  ASSUME PoolInv, NEW w \in Workers, ListMyself(w)
  PROVE  PoolInv'
<1> USE DEF PoolInv
<1>1. wpc[w] = "locked" /\ wakeup[w] = "none" /\ ~availabilitylock /\ PushBottom(w)
  BY DEF ListMyself, SignalledWaits, InThreadWait
<1>2. wpc' = [wpc EXCEPT ![w] = wpc'[w]] /\ wpc'[w] \in {"tell", "test"}
  BY DEF ListMyself, TypeOK
<1>3. UNCHANGED <<availabilitylock, wakeuplocks, wakeup, wakeupmaster, numberclaimed,
                  wsignal, executed, phase, mpc, mid, exprtodo, tasks, exprs, spurious>>
  BY DEF ListMyself, mastervars
<1>4. Unlisted(w)
  BY <1>1 DEF ListedAreIdle, Unlisted, InThreadWait
<1>5. /\ listofavailables' \in [0..NumberOfWorkers+1 -> 0..NumberOfWorkers]
      /\ topofavailables' \in 0..NumberOfWorkers
      /\ NoWorkerListedTwice'
      /\ \A j \in 0..topofavailables'-1 :
           \/ listofavailables'[j] = w
           \/ \E i \in 0..topofavailables-1 : listofavailables'[j] = listofavailables[i]
  BY <1>1, <1>4, StackTyped, PushKeepsStack
<1>6. TypeOK'
  BY <1>2, <1>3, <1>5 DEF TypeOK, InThreadWait
<1>7. \A v \in Workers : Idle(v) => Idle(v)' /\ v # w
  BY <1>1, <1>2, <1>3 DEF Idle, InThreadWait, TypeOK
<1>8. Idle(w)'
  BY <1>1, <1>2, <1>3 DEF Idle, InThreadWait, TypeOK
<1>9. ListedAreIdle'
  <2>1. ASSUME NEW j \in 0..topofavailables'-1
        PROVE  \E v \in Workers : listofavailables'[j] = v /\ Idle(v)'
    <3>1. CASE listofavailables'[j] = w
      BY <3>1, <1>8
    <3>2. CASE \E i \in 0..topofavailables-1 : listofavailables'[j] = listofavailables[i]
      <4>1. PICK i \in 0..topofavailables-1 : listofavailables'[j] = listofavailables[i]
        BY <3>2
      <4>2. listofavailables[i] \in Workers /\ Idle(listofavailables[i])
        BY DEF ListedAreIdle, Idle
      <4>3. QED
        BY <4>1, <4>2, <1>7
    <3>3. QED
      BY <3>1, <3>2, <1>5
  <2>2. QED
    BY <2>1 DEF ListedAreIdle, Idle
<1>10. MasterShape' /\ LockedIsEmpty'
  BY <1>1, <1>3 DEF MasterShape, LockedIsEmpty
<1>11. SignalledWaits'
  BY <1>1, <1>2, <1>3 DEF SignalledWaits, TypeOK
<1>12. MasterHolds'
  <2>1. mid \in Workers /\ mid..NumberOfWorkers \subseteq Workers
    BY NumberOfWorkersAssumption DEF TypeOK, Workers
  <2>2. Idle(mid) /\ Unlisted(mid) => Unlisted(mid)'
    BY <2>1, <1>3, <1>5, <1>7 DEF Unlisted
  <2>3. QED
    BY <1>3, <1>7, <2>1, <2>2 DEF MasterHolds
<1>13. QED
  BY <1>5, <1>6, <1>9, <1>10, <1>11, <1>12

\* Every step of a worker keeps the invariant of the pool.
LEMMA WorkerKeepsPool ==
  ASSUME PoolInv, NEW w \in Workers, WorkerStep(w) \/ SpuriousWakeup(w)
  PROVE  PoolInv'
<1> USE DEF PoolInv, workervars, listvars, mastervars
<1>0. w \in 0..NumberOfWorkers
  BY NumberOfWorkersAssumption DEF Workers
<1>1. SUFFICES ASSUME ~ListMyself(w)
               PROVE  TypeOK' /\ SignalledWaits' /\ QuietStep
  BY ListMyselfKeepsPool, QuietStepKeeps
<1>2. CASE EnterThreadWait(w)
  <2>1. TypeOK'
    BY <1>2 DEF EnterThreadWait, TypeOK
  <2>2. SignalledWaits' /\ QuietStep
    BY <1>2 DEF EnterThreadWait, SignalledWaits, QuietStep, Idle, InThreadWait, TypeOK
  <2>3. QED
    BY <2>1, <2>2
<1>3. CASE TellMaster(w)
  <2>1. TypeOK'
    BY <1>0, <1>3 DEF TellMaster, WakeMaster, MasterAwake, TypeOK, InThreadWait
  <2>2. SignalledWaits' /\ QuietStep
    BY <1>3 DEF TellMaster, WakeMaster, SignalledWaits, QuietStep, Idle, InThreadWait, TypeOK
  <2>3. QED
    BY <2>1, <2>2
<1>4. CASE FallAsleep(w)
  <2>1. TypeOK'
    BY <1>4 DEF FallAsleep, TypeOK, InThreadWait
  <2>2. SignalledWaits' /\ QuietStep
    BY <1>4 DEF FallAsleep, SignalledWaits, QuietStep, Idle, InThreadWait, TypeOK
  <2>3. QED
    BY <2>1, <2>2
<1>5. CASE Reacquire(w)
  <2>1. TypeOK'
    BY <1>5 DEF Reacquire, TypeOK, InThreadWait
  <2>2. SignalledWaits' /\ QuietStep
    BY <1>5 DEF Reacquire, SignalledWaits, QuietStep, Idle, InThreadWait, TypeOK
  <2>3. QED
    BY <2>1, <2>2
<1>6. CASE TakeSignal(w)
  <2>1. TypeOK'
    BY <1>6 DEF TakeSignal, TypeOK
  <2>2. SignalledWaits' /\ QuietStep
    BY <1>6 DEF TakeSignal, SignalledWaits, QuietStep, Idle, InThreadWait, TypeOK
  <2>3. QED
    BY <2>1, <2>2
<1>7. CASE RunTask(w)
  <2>1. executed' \in [1..MaxTasks -> Nat]
    <3>1. executed \in [1..MaxTasks -> Nat]
      BY DEF TypeOK
    <3>2. \/ executed' = executed
          \/ executed' = [executed EXCEPT ![exprtodo[w]] = @ + 1]
      BY <1>7 DEF RunTask
    <3>3. QED
      BY <3>1, <3>2
  <2>2. TypeOK'
    BY <2>1, <1>7 DEF RunTask, TypeOK
  <2>3. SignalledWaits' /\ QuietStep
    BY <1>7 DEF RunTask, SignalledWaits, QuietStep, Idle, InThreadWait, TypeOK
  <2>4. QED
    BY <2>2, <2>3
<1>8. CASE ClaimBlock(w)
  <2>1. numberclaimed' \in Nat /\ wpc' = [wpc EXCEPT ![w] = wpc'[w]]
        /\ wpc'[w] \in {"tellclaim", "sort"}
    BY <1>8 DEF ClaimBlock, TypeOK
  <2>2. TypeOK'
    BY <2>1, <1>8 DEF ClaimBlock, TypeOK
  <2>3. SignalledWaits' /\ QuietStep
    BY <2>1, <1>8 DEF ClaimBlock, SignalledWaits, QuietStep, Idle, InThreadWait, TypeOK
  <2>4. QED
    BY <2>2, <2>3
<1>9. CASE TellClaim(w)
  <2>1. TypeOK'
    BY <1>0, <1>9 DEF TellClaim, WakeMaster, MasterAwake, TypeOK
  <2>2. SignalledWaits' /\ QuietStep
    BY <1>9 DEF TellClaim, WakeMaster, SignalledWaits, QuietStep, Idle, InThreadWait, TypeOK
  <2>3. QED
    BY <2>1, <2>2
<1>10. CASE FinishSort(w)
  <2>1. TypeOK'
    BY <1>10 DEF FinishSort, TypeOK
  <2>2. SignalledWaits' /\ QuietStep
    BY <1>10 DEF FinishSort, SignalledWaits, QuietStep, Idle, InThreadWait, TypeOK
  <2>3. QED
    BY <2>1, <2>2
<1>11. CASE EndThread(w)
  <2>1. TypeOK'
    BY <1>11 DEF EndThread, TypeOK
  <2>2. SignalledWaits' /\ QuietStep
    BY <1>11 DEF EndThread, SignalledWaits, QuietStep, Idle, InThreadWait, TypeOK
  <2>3. QED
    BY <2>1, <2>2
<1>12. CASE SpuriousWakeup(w)
  <2>1. spurious' \in 0..MaxSpurious
    BY <1>12, BoundsAssumption DEF SpuriousWakeup, TypeOK
  <2>2. TypeOK'
    BY <2>1, <1>12 DEF SpuriousWakeup, TypeOK, InThreadWait
  <2>3. SignalledWaits' /\ QuietStep
    BY <1>12 DEF SpuriousWakeup, SignalledWaits, QuietStep, Idle, InThreadWait, TypeOK
  <2>4. QED
    BY <2>2, <2>3
<1>13. QED
  BY <1>1, <1>2, <1>3, <1>4, <1>5, <1>6, <1>7, <1>8, <1>9, <1>10, <1>11, <1>12
     DEF WorkerStep

-----------------------------------------------------------------------------
(* Steps of the master *)

\* Worker numbers are integers between 1 and NumberOfWorkers.
LEMMA WorkersRange ==
  ASSUME TypeOK
  PROVE  /\ NumberOfWorkers \in Nat \ {0}
         /\ 1 \in Workers /\ mid \in Workers /\ mid \in 1..NumberOfWorkers
         /\ Workers = 1..NumberOfWorkers
         /\ mid..NumberOfWorkers \subseteq Workers
BY NumberOfWorkersAssumption DEF TypeOK, Workers

\* Steps that touch neither the stack nor a worker.
LEMMA MasterAloneKeeps ==
  ASSUME PoolInv, UNCHANGED <<listofavailables, topofavailables, wakeup, wpc>>
  PROVE  /\ NoWorkerListedTwice' /\ ListedAreIdle' /\ SignalledWaits'
         /\ \A v \in Workers : Idle(v)' = Idle(v) /\ Unlisted(v)' = Unlisted(v)
BY DEF PoolInv, NoWorkerListedTwice, ListedAreIdle, SignalledWaits, Idle, Unlisted

\* Emptying the stack at the start of ThreadsProcessor forgets nobody: the master is
\* between two instructions, when all workers are idle.
LEMMA BeginThreadsProcessorKeepsPool ==
  ASSUME PoolInv, BeginThreadsProcessor
  PROVE  PoolInv'
<1> USE DEF PoolInv, BeginThreadsProcessor, EmptyStack, Goto, workervars
<1>1. TypeOK'
  BY WorkersRange, BoundsAssumption DEF TypeOK
<1>2. NoWorkerListedTwice' /\ ListedAreIdle'
  BY DEF NoWorkerListedTwice, ListedAreIdle
<1>3. MasterShape' /\ LockedIsEmpty' /\ SignalledWaits'
  BY DEF MasterShape, LockedIsEmpty, SignalledWaits
<1>4. \A v \in Workers : Idle(v)' /\ Unlisted(v)'
  BY DEF MasterHolds, Idle, Unlisted
<1>5. MasterHolds'
  BY <1>1, <1>4, WorkersRange DEF MasterHolds
<1>6. QED
  BY <1>1, <1>2, <1>3, <1>5

\* The loop over all workers of TerminateAllThreads starts while all of them are idle.
LEMMA BeginTerminateKeepsPool ==
  ASSUME PoolInv, BeginTerminate
  PROVE  PoolInv'
<1> USE DEF PoolInv, BeginTerminate, Goto, workervars, listvars
<1>1. TypeOK'
  BY WorkersRange DEF TypeOK
<1>2. NoWorkerListedTwice' /\ ListedAreIdle' /\ SignalledWaits'
  BY MasterAloneKeeps
<1>3. MasterShape' /\ LockedIsEmpty'
  BY DEF MasterShape, LockedIsEmpty, RemovePhases
<1>4. \A v \in Workers : Idle(v)'
  BY DEF MasterHolds, Idle
<1>5. MasterHolds'
  BY <1>4, WorkersRange DEF MasterHolds
<1>6. QED
  BY <1>1, <1>2, <1>3, <1>5

\* The worker popped from the stack is idle and no longer listed.
LEMMA GetAvailableThreadKeepsPool ==
  ASSUME PoolInv, GetAvailableThread
  PROVE  PoolInv'
<1> USE DEF PoolInv
<1>1. UNCHANGED <<listofavailables, availabilitylock, wakeuplocks, wakeup, wakeupmaster,
                  numberclaimed, wpc, wsignal, executed, phase, exprtodo, tasks, exprs,
                  spurious>>
      /\ mpc = "get" /\ phase \in DispatchPhases /\ tasks < MaxTasks
      /\ ~availabilitylock
  BY DEF GetAvailableThread, PopTop, Goto, workervars, listvars, MasterShape
<1>2. CASE topofavailables > 0
  <2> DEFINE top == topofavailables - 1
  <2>1. topofavailables' = top /\ mid' = listofavailables[top] /\ mpc' = "sync"
    BY <1>2 DEF GetAvailableThread, PopTop, Goto
  <2>2. top \in 0..topofavailables-1 /\ top \in 0..NumberOfWorkers
        /\ 0..top-1 \subseteq 0..topofavailables-1 /\ top \notin 0..top-1
    BY <1>2, WorkersRange DEF TypeOK
  <2>3. listofavailables[top] \in Workers /\ Idle(listofavailables[top])
    BY <2>2 DEF ListedAreIdle, Idle
  <2> HIDE DEF top
  <2>4. TypeOK'
    BY <1>1, <2>1, <2>2, <2>3 DEF TypeOK
  <2>5. NoWorkerListedTwice' /\ ListedAreIdle' /\ SignalledWaits'
    BY <1>1, <2>1, <2>2 DEF NoWorkerListedTwice, ListedAreIdle, SignalledWaits
  <2>6. MasterShape' /\ LockedIsEmpty'
    BY <1>1, <2>1 DEF MasterShape, LockedIsEmpty
  <2>7. Unlisted(mid)' /\ Idle(mid)'
    BY <1>1, <2>1, <2>2, <2>3 DEF Unlisted, NoWorkerListedTwice, Idle
  <2>8. MasterHolds'
    BY <1>1, <2>1, <2>7 DEF MasterHolds
  <2>9. QED
    BY <2>4, <2>5, <2>6, <2>8
<1>3. CASE ~(topofavailables > 0)
  <2>1. UNCHANGED <<topofavailables, mid>> /\ mpc' = "masterwait"
    BY <1>3 DEF GetAvailableThread, Goto, listvars
  <2>2. TypeOK'
    BY <1>1, <2>1 DEF TypeOK
  <2>3. NoWorkerListedTwice' /\ ListedAreIdle' /\ SignalledWaits'
    BY <1>1, <2>1, MasterAloneKeeps
  <2>4. MasterShape' /\ LockedIsEmpty' /\ MasterHolds'
    BY <1>1, <2>1 DEF MasterShape, LockedIsEmpty, MasterHolds
  <2>5. QED
    BY <2>2, <2>3, <2>4
<1>4. QED
  BY <1>2, <1>3

\* Where NextWorker leads, seen from the end of the step that takes it.
NextWorkerDone(again) ==
  \/ /\ mid < NumberOfWorkers /\ mid' = mid + 1 /\ phase' = phase /\ mpc' = again
  \/ /\ mid' = mid
     /\ \/ phase = "start" /\ phase' = "start" /\ mpc' = "unlock"
        \/ phase = "finish" /\ phase' = "merge" /\ mpc' = "waitblocks"
        \/ phase = "cleanup" /\ phase' = "cleanup" /\ mpc' = "waitall"
        \/ phase = "terminate" /\ phase' = "terminate" /\ mpc' = "join"

\* Where a loop over all workers can go from one of them.
LEMMA NextWorkerCases ==
  ASSUME NEW again, TypeOK, phase \in RemovePhases \cup {"start"}, NextWorker(again)
  PROVE  /\ NextWorkerDone(again)
         /\ mid' \in Workers
         /\ mid' = mid \/ mid'..NumberOfWorkers \subseteq (mid..NumberOfWorkers) \ {mid}
<1>1. NextWorkerDone(again)
  BY WorkersRange DEF NextWorker, Goto, RemovePhases, NextWorkerDone
<1>2. mid' \in Workers
  BY <1>1, WorkersRange DEF NextWorkerDone
<1>3. mid' = mid \/ mid' = mid + 1
  BY <1>1 DEF NextWorkerDone
<1>4. QED
  BY <1>1, <1>2, <1>3, WorkersRange

\* The signal goes to an idle, unlisted worker, and the next one of the loop is idle.
LEMMA WakeKeepsPool ==
  ASSUME PoolInv, Wake
  PROVE  PoolInv'
<1> USE DEF PoolInv
<1>1. /\ mpc = "wake" /\ ~wakeuplocks[mid]
      /\ wakeup' = [wakeup EXCEPT ![mid] = SignalOf(phase)]
      /\ wpc' = [wpc EXCEPT ![mid] = IF @ = "asleep" THEN "woken" ELSE @]
      /\ UNCHANGED <<listofavailables, topofavailables, availabilitylock, wakeuplocks,
                     wakeupmaster, numberclaimed, wsignal, executed, exprtodo, tasks,
                     exprs, spurious>>
  BY DEF Wake, WakeupThread, listvars
<1>2. mid \in Workers /\ Idle(mid) /\ Unlisted(mid)
  BY <1>1, WorkersRange DEF MasterHolds
<1>3. phase \in DispatchPhases \cup RemovePhases \cup {"start"}
  BY <1>1 DEF MasterShape
<1>4. SignalOf(phase) \in Signals
  BY <1>3 DEF SignalOf, Signals, DispatchPhases, RemovePhases
<1>5. \/ phase \in DispatchPhases /\ mpc' = "loop" /\ phase' = phase /\ mid' = mid
      \/ phase = "start" /\ NextWorker("wake")
      \/ phase \in RemovePhases /\ NextWorker("remove")
  BY <1>3 DEF Wake, Goto, DispatchPhases, RemovePhases
<1>6. /\ mid' \in Workers
      /\ \/ phase \in DispatchPhases /\ mpc' = "loop" /\ phase' = phase
         \/ phase = "start" /\ NextWorkerDone("wake")
         \/ phase \in RemovePhases /\ NextWorkerDone("remove")
      /\ mid' = mid \/ mid'..NumberOfWorkers \subseteq (mid..NumberOfWorkers) \ {mid}
  BY <1>2, <1>5, NextWorkerCases
<1>7. TypeOK'
  <2>1. wakeup' \in [Workers -> Signals \cup {"none"}]
    BY <1>1, <1>2, <1>4 DEF TypeOK
  <2>2. wpc' \in [Workers -> InThreadWait \cup
                    {"enter", "locked", "run", "tellclaim", "sort", "dead"}]
    BY <1>1, <1>2 DEF TypeOK, InThreadWait
  <2>3. /\ phase' \in {"startup", "idle", "inparallel", "start", "buckets", "finish",
                       "merge", "cleanup", "terminate", "end"}
        /\ mpc' \in {"choose", "get", "sync", "load", "wake", "remove", "unlock", "loop",
                     "masterwait", "masterasleep", "waitall", "allasleep",
                     "waitblocks", "blocksasleep", "join", "end"}
    BY <1>6 DEF NextWorkerDone, DispatchPhases, RemovePhases
  <2>4. QED
    BY <1>1, <1>6, <2>1, <2>2, <2>3 DEF TypeOK
<1>8. \A v \in Workers : v # mid => (Idle(v)' <=> Idle(v))
  BY <1>1, <1>2 DEF Idle, TypeOK
<1>9. NoWorkerListedTwice'
  BY <1>1 DEF NoWorkerListedTwice
<1>10. ListedAreIdle'
  <2>1. \A j \in 0..topofavailables-1 : listofavailables[j] # mid
    BY <1>2 DEF Unlisted
  <2>2. QED
    BY <1>1, <1>8, <2>1 DEF ListedAreIdle, Idle
<1>11. MasterShape' /\ LockedIsEmpty'
  BY <1>1, <1>6 DEF NextWorkerDone, MasterShape, LockedIsEmpty, DispatchPhases, RemovePhases
<1>12. SignalledWaits'
  BY <1>1, <1>2 DEF SignalledWaits, Idle, InThreadWait, TypeOK
<1>13. MasterHolds'
  <2>1. CASE mid' = mid
    BY <1>6, <2>1, WorkersRange DEF NextWorkerDone, MasterHolds, DispatchPhases, RemovePhases
  <2>2. CASE mid' # mid
    <3>1. mid'..NumberOfWorkers \subseteq (mid..NumberOfWorkers) \ {mid}
          /\ phase' = phase /\ phase \notin DispatchPhases
          /\ mpc' = IF phase = "start" THEN "wake" ELSE "remove"
      BY <1>5, <1>6, <2>2 DEF NextWorkerDone, DispatchPhases, RemovePhases
    <3>2. \A v \in mid'..NumberOfWorkers : Idle(v)'
      BY <1>1, <1>8, <3>1, WorkersRange DEF MasterHolds
    <3>3. mid' \in mid'..NumberOfWorkers
      BY <1>6, WorkersRange
    <3>4. phase = "start" => Unlisted(mid)'
      BY <1>1, <1>6 DEF LockedIsEmpty, Unlisted
    <3>5. QED
      BY <3>1, <3>2, <3>3, <3>4 DEF MasterHolds
  <2>3. QED
    BY <2>1, <2>2
<1>14. QED
  BY <1>7, <1>9, <1>10, <1>11, <1>12, <1>13

\* GetThread leaves the worker it is called for off the stack, and idle.
LEMMA GetThreadKeepsPool ==
  ASSUME PoolInv, GetThread
  PROVE  PoolInv'
<1> USE DEF PoolInv
<1>1. /\ mpc = "remove" /\ ~availabilitylock /\ RemoveFromList(mid)
      /\ UNCHANGED <<availabilitylock, wakeuplocks, wakeup, wakeupmaster, numberclaimed,
                     wpc, wsignal, executed, exprtodo, tasks, exprs, spurious>>
  BY DEF GetThread, workervars
<1>2. mid \in Workers /\ phase \in RemovePhases
  BY <1>1, WorkersRange DEF MasterShape
<1> PICK w \in Workers : w = mid
  BY <1>2
<1>3. /\ listofavailables' \in [0..NumberOfWorkers+1 -> 0..NumberOfWorkers]
      /\ topofavailables' \in 0..topofavailables
      /\ NoWorkerListedTwice'
      /\ Unlisted(w)'
      /\ \A j \in 0..topofavailables'-1 :
           \E i \in 0..topofavailables-1 : listofavailables'[j] = listofavailables[i]
  <2>1. RemoveFromList(w) /\ StackTypeOK
    BY <1>1, StackTyped
  <2>2. QED
    BY <2>1, RemoveKeepsStack
<1>4. \/ mpc' = "wake" /\ phase' = phase /\ mid' = mid
      \/ phase = "cleanup" /\ NextWorker("remove")
  BY DEF GetThread, Goto
<1>5. /\ mid' \in Workers
      /\ \/ mpc' = "wake" /\ phase' = phase /\ mid' = mid
         \/ phase = "cleanup" /\ NextWorkerDone("remove")
      /\ mid' = mid \/ mid'..NumberOfWorkers \subseteq (mid..NumberOfWorkers) \ {mid}
  BY <1>2, <1>4, NextWorkerCases
<1>6. TypeOK'
  <2>1. topofavailables' \in 0..NumberOfWorkers
    BY <1>3, WorkersRange DEF TypeOK
  <2>2. /\ phase' \in {"startup", "idle", "inparallel", "start", "buckets", "finish",
                       "merge", "cleanup", "terminate", "end"}
        /\ mpc' \in {"choose", "get", "sync", "load", "wake", "remove", "unlock", "loop",
                     "masterwait", "masterasleep", "waitall", "allasleep",
                     "waitblocks", "blocksasleep", "join", "end"}
    BY <1>2, <1>5 DEF NextWorkerDone, RemovePhases
  <2>3. QED
    BY <1>1, <1>3, <1>5, <2>1, <2>2 DEF TypeOK
<1>7. \A v \in Workers : Idle(v)' = Idle(v)
  BY <1>1 DEF Idle
<1>8. ListedAreIdle'
  BY <1>1, <1>3 DEF ListedAreIdle
<1>9. MasterShape' /\ LockedIsEmpty' /\ SignalledWaits'
  BY <1>1, <1>2, <1>5 DEF NextWorkerDone, MasterShape, LockedIsEmpty, SignalledWaits,
                          RemovePhases
<1>10. MasterHolds'
  <2>1. mpc' \notin {"choose", "sync", "load"} /\ (mpc' = "wake" => mid' = w)
    BY <1>2, <1>5 DEF NextWorkerDone, RemovePhases
  <2>2. \A v \in mid..NumberOfWorkers : Idle(v)'
    BY <1>1, <1>2, <1>7, WorkersRange DEF MasterHolds, RemovePhases, DispatchPhases
  <2>3. mid'..NumberOfWorkers \subseteq mid..NumberOfWorkers
    BY <1>5
  <2>4. mid \in mid..NumberOfWorkers
    BY WorkersRange
  <2>5. QED
    BY <1>3, <2>1, <2>2, <2>3, <2>4 DEF MasterHolds
<1>11. QED
  BY <1>3, <1>6, <1>8, <1>9, <1>10

\* MasterWaitAll lets the master go on when the stack is full: every worker is idle.
LEMMA MasterWaitAllKeepsPool ==
  ASSUME PoolInv, MasterWaitAll
  PROVE  PoolInv'
<1> USE DEF PoolInv
<1>1. /\ mpc = "waitall"
      /\ UNCHANGED <<listofavailables, topofavailables, availabilitylock, wakeuplocks,
                     wakeup, wakeupmaster, wpc, wsignal, executed, exprtodo, tasks,
                     exprs, spurious>>
  BY DEF MasterWaitAll, listvars, workervars
<1>2. NoWorkerListedTwice' /\ ListedAreIdle' /\ SignalledWaits'
      /\ \A v \in Workers : Idle(v)' = Idle(v)
  BY <1>1, MasterAloneKeeps
<1>3. phase \in {"startup", "inparallel", "start", "buckets", "merge", "cleanup"}
  BY <1>1 DEF MasterShape, DispatchPhases
<1>4. CASE ~AllAvailable
  <2>1. phase' = phase /\ mpc' = "allasleep" /\ mid' = mid /\ numberclaimed' = numberclaimed
    BY <1>4 DEF MasterWaitAll, Goto
  <2>2. TypeOK'
    BY <1>1, <2>1 DEF TypeOK
  <2>3. MasterShape' /\ LockedIsEmpty' /\ MasterHolds'
    BY <1>1, <2>1 DEF MasterShape, LockedIsEmpty, MasterHolds
  <2>4. QED
    BY <1>2, <2>2, <2>3
<1>5. CASE AllAvailable
  <2>1. /\ \/ phase' = "buckets" /\ mpc' = "loop"
           \/ phase' \in {"finish", "cleanup"} /\ mpc' = "remove"
           \/ phase' = "idle" /\ mpc' = "choose"
        /\ mid' \in {1, mid} /\ numberclaimed' \in {0, numberclaimed}
    BY <1>3, <1>5 DEF MasterWaitAll, Goto
  <2>2. TypeOK'
    BY <1>1, <2>1, WorkersRange DEF TypeOK
  <2>3. MasterShape' /\ LockedIsEmpty'
    BY <1>1, <2>1 DEF MasterShape, LockedIsEmpty, DispatchPhases, RemovePhases
  <2>4. \A v \in Workers : Idle(v)
    BY <1>5, StackTyped, FullMeansIdle
  <2>5. MasterHolds'
    BY <1>2, <2>1, <2>2, <2>4, WorkersRange DEF MasterHolds
  <2>6. QED
    BY <1>2, <2>2, <2>3, <2>5
<1>6. QED
  BY <1>4, <1>5

\* Every step of the master keeps the invariant of the pool.
LEMMA MasterKeepsPool ==
  ASSUME PoolInv, MasterStep \/ MasterSpuriousWakeup
  PROVE  PoolInv'
<1> USE DEF PoolInv, workervars, listvars, mastervars
<1>1. CASE BeginInParallel
  <2>1. TypeOK'
    BY <1>1 DEF BeginInParallel, Goto, TypeOK
  <2>2. MasterShape' /\ LockedIsEmpty' /\ MasterHolds'
    BY <1>1 DEF BeginInParallel, Goto, MasterShape, LockedIsEmpty, MasterHolds, DispatchPhases
  <2>3. QED
    BY <1>1, <2>1, <2>2, MasterAloneKeeps DEF BeginInParallel
<1>2. CASE UnlockAvailability
  <2>1. TypeOK'
    BY <1>2 DEF UnlockAvailability, Goto, TypeOK
  <2>2. MasterShape' /\ LockedIsEmpty' /\ MasterHolds'
    BY <1>2 DEF UnlockAvailability, Goto, MasterShape, LockedIsEmpty, MasterHolds
  <2>3. QED
    BY <1>2, <2>1, <2>2, MasterAloneKeeps DEF UnlockAvailability
<1>3. CASE DispatchAnother
  <2>1. TypeOK'
    BY <1>3 DEF DispatchAnother, Goto, TypeOK
  <2>2. MasterShape' /\ LockedIsEmpty' /\ MasterHolds'
    BY <1>3 DEF DispatchAnother, Goto, MasterShape, LockedIsEmpty, MasterHolds, DispatchPhases
  <2>3. QED
    BY <1>3, <2>1, <2>2, MasterAloneKeeps DEF DispatchAnother
<1>4. CASE LeaveLoop
  <2>1. TypeOK'
    BY <1>4 DEF LeaveLoop, Goto, TypeOK
  <2>2. MasterShape' /\ LockedIsEmpty' /\ MasterHolds'
    BY <1>4 DEF LeaveLoop, Goto, MasterShape, LockedIsEmpty, MasterHolds, DispatchPhases
  <2>3. QED
    BY <1>4, <2>1, <2>2, MasterAloneKeeps DEF LeaveLoop
<1>5. CASE SyncWithWorker
  <2>1. TypeOK'
    BY <1>5 DEF SyncWithWorker, Goto, TypeOK
  <2>2. MasterShape' /\ LockedIsEmpty'
    BY <1>5 DEF SyncWithWorker, Goto, MasterShape, LockedIsEmpty, DispatchPhases
  <2>3. MasterHolds'
    BY <1>5 DEF SyncWithWorker, Goto, MasterHolds, Idle, Unlisted
  <2>4. QED
    BY <1>5, <2>1, <2>2, <2>3, MasterAloneKeeps DEF SyncWithWorker
<1>6. CASE LoadThread
  <2>1. tasks' = tasks + 1 /\ tasks' \in 0..MaxTasks
    BY <1>6, BoundsAssumption DEF LoadThread, MasterShape, TypeOK
  <2>2. exprtodo' \in [Workers -> 0..MaxTasks]
    BY <1>6, <2>1 DEF LoadThread, TypeOK
  <2>3. TypeOK'
    BY <1>6, <2>1, <2>2 DEF LoadThread, Goto, TypeOK
  <2>4. MasterShape' /\ LockedIsEmpty'
    BY <1>6 DEF LoadThread, Goto, MasterShape, LockedIsEmpty, DispatchPhases
  <2>5. MasterHolds'
    BY <1>6 DEF LoadThread, Goto, MasterHolds, MasterShape, Idle, Unlisted
  <2>6. QED
    BY <1>6, <2>3, <2>4, <2>5, MasterAloneKeeps DEF LoadThread
<1>7. CASE MasterWait
  <2>1. mpc' \in {"masterasleep", "get"} /\ phase' = phase /\ wakeupmaster' = 0
    BY <1>7 DEF MasterWait, Goto
  <2>2. TypeOK'
    BY <1>7, <2>1, WorkersRange DEF MasterWait, TypeOK
  <2>3. MasterShape' /\ LockedIsEmpty' /\ MasterHolds'
    BY <1>7, <2>1 DEF MasterWait, MasterShape, LockedIsEmpty, MasterHolds, DispatchPhases
  <2>4. QED
    BY <1>7, <2>2, <2>3, MasterAloneKeeps DEF MasterWait
<1>8. CASE MasterWaitAllBlocks
  <2>1. TypeOK'
    BY <1>8 DEF MasterWaitAllBlocks, Goto, TypeOK
  <2>2. MasterShape' /\ LockedIsEmpty' /\ MasterHolds'
    BY <1>8 DEF MasterWaitAllBlocks, Goto, MasterShape, LockedIsEmpty, MasterHolds
  <2>3. QED
    BY <1>8, <2>1, <2>2, MasterAloneKeeps DEF MasterWaitAllBlocks
<1>9. CASE JoinAll
  <2>1. TypeOK'
    BY <1>9 DEF JoinAll, Goto, TypeOK
  <2>2. MasterShape' /\ LockedIsEmpty' /\ MasterHolds'
    BY <1>9 DEF JoinAll, Goto, MasterShape, LockedIsEmpty, MasterHolds
  <2>3. QED
    BY <1>9, <2>1, <2>2, MasterAloneKeeps DEF JoinAll
<1>10. CASE MasterSpuriousWakeup
  <2>1. spurious' \in 0..MaxSpurious /\ mpc' \in {"masterwait", "waitall", "waitblocks"}
    BY <1>10, BoundsAssumption DEF MasterSpuriousWakeup, MasterAwake, TypeOK
  <2>2. TypeOK'
    BY <1>10, <2>1 DEF MasterSpuriousWakeup, TypeOK
  <2>3. SignalledWaits' /\ QuietStep
    BY <1>10 DEF MasterSpuriousWakeup, SignalledWaits, QuietStep, Idle
  <2>4. QED
    BY <2>2, <2>3, QuietStepKeeps
<1>11. QED
  BY <1>1, <1>2, <1>3, <1>4, <1>5, <1>6, <1>7, <1>8, <1>9, <1>10,
     BeginThreadsProcessorKeepsPool, BeginTerminateKeepsPool,
     GetAvailableThreadKeepsPool, WakeKeepsPool, GetThreadKeepsPool,
     MasterWaitAllKeepsPool DEF MasterStep

-----------------------------------------------------------------------------
(* The pool invariant and what follows from it *)

\* At start-up all workers are on their way to ThreadWait and the stack is empty.
LEMMA InitPool ==
  ASSUME Init
  PROVE  PoolInv
<1> USE DEF Init
<1>1. TypeOK
  <2>1. NumberOfWorkers \in Nat /\ 0 \in 0..NumberOfWorkers /\ 1 \in Workers
    BY NumberOfWorkersAssumption DEF Workers
  <2>2. 0 \in 0..MaxTasks /\ 0 \in 0..MaxExprs /\ 0 \in 0..MaxSpurious
    BY BoundsAssumption
  <2>3. listofavailables \in [0..NumberOfWorkers+1 -> 0..NumberOfWorkers]
    BY <2>1
  <2>4. wpc \in [Workers -> InThreadWait \cup
                   {"enter", "locked", "run", "tellclaim", "sort", "dead"}]
    OBVIOUS
  <2>5. executed \in [1..MaxTasks -> Nat] /\ exprtodo \in [Workers -> 0..MaxTasks]
    BY <2>2
  <2>6. QED
    BY <2>1, <2>2, <2>3, <2>4, <2>5 DEF TypeOK
<1>2. NoWorkerListedTwice /\ ListedAreIdle
  BY DEF NoWorkerListedTwice, ListedAreIdle
<1>3. MasterShape /\ LockedIsEmpty /\ SignalledWaits /\ MasterHolds
  BY DEF MasterShape, LockedIsEmpty, SignalledWaits, MasterHolds
<1>4. QED
  BY <1>1, <1>2, <1>3 DEF PoolInv

\* The invariant of the pool is inductive.
LEMMA NextKeepsPool ==
  ASSUME PoolInv, [Next]_vars
  PROVE  PoolInv'
<1>1. CASE Next
  BY <1>1, WorkerKeepsPool, MasterKeepsPool DEF Next
<1>2. CASE UNCHANGED vars
  BY <1>2 DEF vars, listvars, workervars, mastervars, PoolInv, TypeOK,
       NoWorkerListedTwice, ListedAreIdle, MasterShape, LockedIsEmpty, SignalledWaits,
       MasterHolds, Idle, Unlisted
<1>3. QED
  BY <1>1, <1>2

\* PoolInv holds in every reachable state of the pool.
THEOREM PoolCorrect == Spec => []PoolInv
<1>1. Init => PoolInv
  BY InitPool
<1>2. PoolInv /\ [Next]_vars => PoolInv'
  BY NextKeepsPool
<1>3. QED
  BY <1>1, <1>2, PTL DEF Spec

\* The variables keep their types: no worker number, place on the stack or task
\* counter ever leaves its range, for any number of workers.
THEOREM TypeCorrect == Spec => []TypeOK
<1>1. PoolInv => TypeOK
  BY DEF PoolInv
<1>2. QED
  BY <1>1, PoolCorrect, PTL

\* No interleaving of ThreadWait, GetAvailableThread, GetThread and the restart of
\* ThreadsProcessor puts a worker on the stack twice.
THEOREM ListedOnce == Spec => []NoWorkerListedTwice
<1>1. PoolInv => NoWorkerListedTwice
  BY DEF PoolInv
<1>2. QED
  BY <1>1, PoolCorrect, PTL

\* Whoever stands on the stack is in ThreadWait without a signal.
THEOREM ListedIdle == Spec => []ListedAreIdle
<1>1. PoolInv => ListedAreIdle
  BY DEF PoolInv
<1>2. QED
  BY <1>1, PoolCorrect, PTL

\* WakeupThread never writes over a signal that its worker has not taken.
THEOREM SignalsKept == Spec => NoSignalOverwritten
<1>1. ASSUME PoolInv, [Next]_vars, NEW w \in Workers, wakeup[w] # "none"
      PROVE  wakeup'[w] \in {wakeup[w], "none"}
  <2> USE DEF listvars, workervars, mastervars
  <2>1. wakeup \in [Workers -> Signals \cup {"none"}]
    BY <1>1 DEF PoolInv, TypeOK
  <2>2. CASE Wake
    <3>1. w # mid
      BY <1>1, <2>2 DEF Wake, PoolInv, MasterHolds, Idle
    <3>2. QED
      BY <1>1, <2>1, <2>2, <3>1 DEF Wake, WakeupThread
  <2>3. CASE \E v \in Workers : TakeSignal(v)
    BY <2>1, <2>3 DEF TakeSignal
  <2>4. CASE \E v \in Workers : (WorkerStep(v) /\ ~TakeSignal(v)) \/ SpuriousWakeup(v)
    <3>1. wakeup' = wakeup
      BY <2>4 DEF WorkerStep, SpuriousWakeup, EnterThreadWait, ListMyself, TellMaster,
           FallAsleep, Reacquire, RunTask, ClaimBlock, TellClaim, FinishSort, EndThread
    <3>2. QED
      BY <3>1
  <2>5. CASE (MasterStep /\ ~Wake) \/ MasterSpuriousWakeup
    <3>1. wakeup' = wakeup
      BY <2>5 DEF MasterStep, MasterSpuriousWakeup, BeginInParallel,
           BeginThreadsProcessor, BeginTerminate, UnlockAvailability, DispatchAnother,
           LeaveLoop, GetAvailableThread, SyncWithWorker, LoadThread, GetThread,
           MasterWait, MasterWaitAll, MasterWaitAllBlocks, JoinAll
    <3>2. QED
      BY <3>1
  <2>6. CASE UNCHANGED vars
    BY <2>6 DEF vars
  <2>7. QED
    BY <1>1, <2>2, <2>3, <2>4, <2>5, <2>6 DEF Next
<1>2. PoolInv /\ PoolInv' /\ [Next]_vars =>
        [\A w \in Workers : wakeup[w] # "none" => wakeup'[w] \in {wakeup[w], "none"}]_vars
  BY <1>1
<1>3. QED
  BY <1>2, PoolCorrect, PTL DEF Spec, NoSignalOverwritten

-----------------------------------------------------------------------------
(* The lock of a worker, and the worker that is being loaded *)

\* The lock of a worker is held by the worker itself, from its first line in
\* ThreadWait until it sleeps; the invariant is inductive together with PoolInv.
LEMMA NextKeepsLocks ==
  ASSUME PoolInv, LocksInv, [Next]_vars
  PROVE  LocksInv'
<1> USE DEF LocksInv
<1>1. wakeuplocks \in [Workers -> BOOLEAN] /\ wpc = [v \in Workers |-> wpc[v]]
  BY DEF PoolInv, TypeOK
<1>2. ASSUME NEW w \in Workers, WorkerStep(w) \/ SpuriousWakeup(w)
      PROVE  LocksInv'
  BY <1>1, <1>2 DEF WorkerStep, SpuriousWakeup, EnterThreadWait, ListMyself, TellMaster,
       FallAsleep, Reacquire, TakeSignal, RunTask, ClaimBlock, TellClaim, FinishSort, EndThread
<1>3. CASE Wake
  BY <1>1, <1>3 DEF Wake, WakeupThread
<1>4. CASE (MasterStep /\ ~Wake) \/ MasterSpuriousWakeup
  <2>1. wakeuplocks' = wakeuplocks /\ wpc' = wpc
    BY <1>4 DEF workervars, MasterStep, MasterSpuriousWakeup, BeginInParallel,
         BeginThreadsProcessor, BeginTerminate, UnlockAvailability, DispatchAnother,
         LeaveLoop, GetAvailableThread, SyncWithWorker, LoadThread, GetThread,
         MasterWait, MasterWaitAll, MasterWaitAllBlocks, JoinAll
  <2>2. QED
    BY <2>1
<1>5. CASE UNCHANGED vars
  BY <1>5 DEF vars, workervars
<1>6. QED
  BY <1>2, <1>3, <1>4, <1>5 DEF Next

\* Between GetAvailableThread and WakeupThread the worker found cannot leave
\* ThreadWait, since only the master can send it a signal.
LEMMA NextKeepsLoaded ==
  ASSUME PoolInv, LocksInv, LoadedWorkerWaits, [Next]_vars
  PROVE  LoadedWorkerWaits'
<1> USE DEF PoolInv, LoadedWorkerWaits
<1>1. mid \in Workers /\ wpc \in [Workers -> InThreadWait \cup
                       {"enter", "locked", "run", "tellclaim", "sort", "dead"}]
  BY DEF TypeOK
<1>2. ASSUME NEW w \in Workers, WorkerStep(w) \/ SpuriousWakeup(w)
      PROVE  LoadedWorkerWaits'
  <2>1. mid' = mid /\ phase' = phase
        /\ (mpc' = mpc \/ mpc' \notin {"load", "wake"})
    BY <1>2 DEF WorkerStep, SpuriousWakeup, EnterThreadWait, ListMyself, TellMaster,
         FallAsleep, Reacquire, TakeSignal, RunTask, ClaimBlock, TellClaim, FinishSort,
         EndThread, mastervars, WakeMaster, MasterAwake
  <2>2. ASSUME wpc[mid] \in {"asleep", "woken", "test"}, wakeup[mid] = "none"
        PROVE  wpc'[mid] \in {"asleep", "woken", "test"} /\ wakeup'[mid] = "none"
    <3>1. CASE w # mid
      BY <1>1, <1>2, <2>2, <3>1 DEF WorkerStep, SpuriousWakeup, EnterThreadWait,
           ListMyself, TellMaster, FallAsleep, Reacquire, TakeSignal, RunTask, ClaimBlock,
           TellClaim, FinishSort, EndThread, TypeOK
    <3>2. CASE w = mid
      <4>1. FallAsleep(w) \/ Reacquire(w) \/ SpuriousWakeup(w)
        BY <1>2, <2>2, <3>2 DEF WorkerStep, EnterThreadWait, ListMyself, TellMaster,
             TakeSignal, RunTask, ClaimBlock, TellClaim, FinishSort, EndThread
      <4>2. QED
        BY <1>1, <2>2, <3>2, <4>1 DEF FallAsleep, Reacquire, SpuriousWakeup
    <3>3. QED
      BY <3>1, <3>2
  <2>3. QED
    BY <2>1, <2>2
<1>3. CASE SyncWithWorker
  <2>1. wpc[mid] \in InThreadWait \ {"tell", "test"} /\ wakeup[mid] = "none"
    BY <1>1, <1>3 DEF SyncWithWorker, OutsideThreadWaitLock, MasterHolds, Idle, LocksInv
  <2>2. QED
    BY <1>3, <2>1 DEF SyncWithWorker, workervars, InThreadWait
<1>4. CASE LoadThread
  BY <1>4 DEF LoadThread, Goto, MasterShape, workervars, DispatchPhases
<1>5. CASE Wake
  <2>1. mpc' # "load" /\ (mpc' = "wake" => phase' \notin DispatchPhases)
    <3>1. CASE phase \in DispatchPhases
      BY <1>5, <3>1 DEF Wake, Goto, DispatchPhases
    <3>2. CASE phase \in RemovePhases \cup {"start"}
      <4>1. NextWorker("wake") \/ NextWorker("remove")
        BY <1>5, <3>2 DEF Wake, RemovePhases
      <4>2. NextWorkerDone("wake") \/ NextWorkerDone("remove")
        BY <3>2, <4>1, NextWorkerCases
      <4>3. QED
        BY <3>2, <4>2 DEF NextWorkerDone, DispatchPhases, RemovePhases
    <3>3. QED
      BY <1>5, <3>1, <3>2 DEF Wake, MasterShape
  <2>2. QED
    BY <2>1 DEF DispatchPhases
<1>6. CASE BeginThreadsProcessor \/ GetThread
  <2>1. mpc' # "load" /\ (mpc' = "wake" => phase' \notin DispatchPhases)
    BY <1>6 DEF BeginThreadsProcessor, GetThread, Goto, NextWorker, MasterShape,
         DispatchPhases, RemovePhases
  <2>2. QED
    BY <2>1 DEF DispatchPhases
<1>7. CASE MasterSpuriousWakeup
  BY <1>7 DEF MasterSpuriousWakeup, MasterAwake
<1>8. CASE BeginInParallel \/ BeginTerminate \/ UnlockAvailability \/ DispatchAnother
           \/ LeaveLoop \/ GetAvailableThread \/ MasterWait \/ MasterWaitAllBlocks \/ JoinAll
  BY <1>8 DEF BeginInParallel, BeginTerminate, UnlockAvailability, DispatchAnother,
       LeaveLoop, GetAvailableThread, MasterWait, MasterWaitAllBlocks, JoinAll, Goto
<1>9. CASE MasterWaitAll
  <2>1. phase \in DispatchPhases \cup {"startup", "start", "merge", "cleanup"}
    BY <1>9 DEF MasterWaitAll, MasterShape
  <2>2. mpc' \notin {"load", "wake"}
    BY <1>9, <2>1 DEF MasterWaitAll, Goto, DispatchPhases
  <2>3. QED
    BY <2>2
<1>10. CASE UNCHANGED vars
  BY <1>10 DEF vars, workervars, mastervars
<1>11. QED
  BY <1>2, <1>3, <1>4, <1>5, <1>6, <1>7, <1>8, <1>9, <1>10 DEF Next, MasterStep

\* GetAvailableThread really synchronises with the worker it returns: the private
\* data of a worker are only written while the worker cannot be reading them.
THEOREM LoadingIsSafe == Spec => []LoadedWorkerWaits
<1>1. Init => LocksInv /\ LoadedWorkerWaits
  BY DEF Init, LocksInv, LoadedWorkerWaits
<1>2. PoolInv /\ LocksInv /\ LoadedWorkerWaits /\ [Next]_vars
        => LocksInv' /\ LoadedWorkerWaits'
  BY NextKeepsLocks, NextKeepsLoaded
<1>3. QED
  BY <1>1, <1>2, PoolCorrect, PTL DEF Spec

-----------------------------------------------------------------------------
(* Every task is carried out exactly once *)

SameTasks ==
  /\ UNCHANGED <<exprtodo, tasks, executed>>
  /\ \A v \in Workers : Pending(v)' <=> Pending(v)

\* A step that changes neither tasks nor who has one pending keeps their accounts.
LEMMA SameTasksKeeps ==
  ASSUME OnceInv, SameTasks
  PROVE  OnceInv'
BY DEF OnceInv, SameTasks

\* A step of the master that hands out nothing leaves the pending tasks as they are.
LEMMA MasterElsewhere ==
  ASSUME UNCHANGED <<wakeup, wpc, wsignal, exprtodo, tasks, executed>>,
         ~(mpc = "wake" /\ phase \in DispatchPhases),
         ~(mpc' = "wake" /\ phase' \in DispatchPhases)
  PROVE  SameTasks
<1>1. ASSUME NEW v \in Workers PROVE Pending(v)' <=> Pending(v)
  BY DEF Pending
<1>2. QED
  BY <1>1 DEF SameTasks

\* A worker carries out its task: it was pending there, and is no longer.
LEMMA RunTaskKeepsOnce ==
  ASSUME PoolInv, OnceInv, NEW w \in Workers, RunTask(w)
  PROVE  OnceInv'
<1> USE DEF PoolInv, mastervars
<1>1. /\ wpc[w] = "run" /\ wpc' = [wpc EXCEPT ![w] = "enter"]
      /\ UNCHANGED <<wakeup, wsignal, phase, mpc, mid, exprtodo, tasks>>
      /\ wakeup[w] = "none"
  BY DEF RunTask, SignalledWaits, InThreadWait
<1>2. ~(mpc = "wake" /\ phase \in DispatchPhases /\ mid = w)
  BY <1>1 DEF MasterHolds, Idle, InThreadWait
<1>3. \A v \in Workers : v # w => (Pending(v)' <=> Pending(v))
  BY <1>1 DEF Pending, TypeOK
<1>4. ~Pending(w)'
  BY <1>1, <1>2 DEF Pending, TypeOK, Work
<1>5. CASE wsignal[w] \in Work
  <2> DEFINE e == exprtodo[w]
  <2>1. Pending(w)
    BY <1>1, <1>5 DEF Pending
  <2>2. e \in 1..tasks /\ e \in 1..MaxTasks /\ executed[e] = 0
    BY <2>1 DEF OnceInv, TypeOK
  <2>3. executed' = [executed EXCEPT ![e] = executed[e] + 1]
    BY <1>5 DEF RunTask, Work
  <2>4. executed'[e] = 1 /\ \A t \in 1..MaxTasks : t # e => executed'[t] = executed[t]
    BY <2>2, <2>3 DEF TypeOK
  <2>5. \A v \in Workers : Pending(v)' => Pending(v) /\ v # w /\ exprtodo[v] # e
    BY <1>3, <1>4, <2>1 DEF OnceInv
  <2>6. \A v \in Workers : Pending(v)' => exprtodo'[v] \in 1..tasks' /\ executed'[exprtodo'[v]] = 0
    <3>1. 1..tasks \subseteq 1..MaxTasks
      BY BoundsAssumption DEF TypeOK
    <3>2. QED
      BY <1>1, <2>4, <2>5, <3>1 DEF OnceInv
  <2>7. ASSUME NEW t \in 1..tasks', \A v \in Workers : Pending(v)' => exprtodo'[v] # t
        PROVE  executed'[t] = 1
    <3>1. t \in 1..MaxTasks /\ t \in 1..tasks
      BY <1>1, BoundsAssumption DEF TypeOK
    <3>2. CASE t = e
      BY <3>2, <2>4
    <3>3. CASE t # e
      <4>1. \A v \in Workers : Pending(v) => exprtodo[v] # t
        BY <1>1, <1>3, <2>7, <3>3
      <4>2. QED
        BY <2>4, <3>1, <3>3, <4>1 DEF OnceInv
    <3>4. QED
      BY <3>2, <3>3
  <2>8. \A t \in 1..MaxTasks : t > tasks' => executed'[t] = 0
    BY <1>1, <2>2, <2>4 DEF OnceInv, TypeOK
  <2>9. \A u, v \in Workers : Pending(u)' /\ Pending(v)' /\ exprtodo'[u] = exprtodo'[v] => u = v
    BY <1>1, <2>5 DEF OnceInv
  <2>10. QED
    BY <2>6, <2>7, <2>8, <2>9 DEF OnceInv
<1>6. CASE wsignal[w] \notin Work
  <2>1. executed' = executed
    BY <1>6 DEF RunTask, Work
  <2>2. ~Pending(w)
    BY <1>1, <1>2, <1>6 DEF Pending, Work
  <2>3. SameTasks
    BY <1>1, <1>3, <1>4, <2>1, <2>2 DEF SameTasks
  <2>4. QED
    BY <2>3, SameTasksKeeps
<1>7. QED
  BY <1>5, <1>6

\* The master assigns a fresh task to the idle worker it is about to wake.
LEMMA LoadThreadKeepsOnce ==
  ASSUME PoolInv, OnceInv, LoadThread
  PROVE  OnceInv'
<1> USE DEF PoolInv, workervars
<1>1. /\ mpc = "load" /\ mpc' = "wake" /\ phase' = phase /\ mid' = mid
      /\ phase \in DispatchPhases
      /\ tasks' = tasks + 1 /\ tasks < MaxTasks
      /\ exprtodo' = [exprtodo EXCEPT ![mid] = tasks + 1]
      /\ UNCHANGED <<wakeup, wpc, wsignal, executed>>
  BY DEF LoadThread, Goto, MasterShape
<1>2. mid \in Workers /\ Idle(mid)
  BY <1>1, WorkersRange DEF MasterHolds
<1> PICK w \in Workers : w = mid
  BY <1>2
<1>3. ~Pending(w) /\ Pending(w)'
  BY <1>1, <1>2 DEF Pending, Idle, InThreadWait, Work
<1>4. \A v \in Workers : v # w => (Pending(v)' <=> Pending(v)) /\ exprtodo'[v] = exprtodo[v]
  BY <1>1 DEF Pending, TypeOK
<1>5. exprtodo'[w] = tasks + 1 /\ tasks \in Nat /\ tasks + 1 \in 1..MaxTasks
  BY <1>1, <1>2, BoundsAssumption DEF TypeOK
<1>6. executed[tasks + 1] = 0
  BY <1>5 DEF OnceInv
<1>7. \A v \in Workers : Pending(v)' /\ v # w =>
        exprtodo'[v] = exprtodo[v] /\ Pending(v) /\ exprtodo[v] \in 1..tasks
  BY <1>4 DEF OnceInv
<1>8. \A v \in Workers : Pending(v)' => exprtodo'[v] \in 1..tasks' /\ executed'[exprtodo'[v]] = 0
  BY <1>1, <1>5, <1>6, <1>7 DEF OnceInv
<1>9. \A u, v \in Workers : Pending(u)' /\ Pending(v)' /\ exprtodo'[u] = exprtodo'[v] => u = v
  BY <1>5, <1>7 DEF OnceInv
<1>10. ASSUME NEW t \in 1..tasks', \A v \in Workers : Pending(v)' => exprtodo'[v] # t
       PROVE  executed'[t] = 1
  <2>1. t # tasks + 1
    BY <1>3, <1>5, <1>10
  <2>2. t \in 1..tasks
    BY <1>1, <1>5, <2>1
  <2>3. \A v \in Workers : Pending(v) => exprtodo[v] # t
    BY <1>3, <1>4, <1>10
  <2>4. QED
    BY <1>1, <2>2, <2>3 DEF OnceInv
<1>11. \A t \in 1..MaxTasks : t > tasks' => executed'[t] = 0
  BY <1>1, <1>5 DEF OnceInv
<1>12. QED
  BY <1>8, <1>9, <1>10, <1>11 DEF OnceInv

\* The task passes from the master to the worker together with the signal.
LEMMA WakeKeepsTasks ==
  ASSUME PoolInv, Wake
  PROVE  SameTasks
<1> USE DEF PoolInv
<1>1. /\ mpc = "wake" /\ mid \in Workers
      /\ wakeup' = [wakeup EXCEPT ![mid] = SignalOf(phase)]
      /\ wpc' = [wpc EXCEPT ![mid] = IF @ = "asleep" THEN "woken" ELSE @]
      /\ UNCHANGED <<wsignal, exprtodo, tasks, executed>>
  BY WorkersRange DEF Wake, WakeupThread
<1>2. Idle(mid) /\ wpc[mid] # "run" /\ wpc'[mid] # "run" /\ wakeup[mid] \notin Work
  BY <1>1 DEF MasterHolds, Idle, InThreadWait, Work, TypeOK
<1>3. wakeup'[mid] = SignalOf(phase)
  BY <1>1 DEF TypeOK
<1>4. phase \in DispatchPhases \cup RemovePhases \cup {"start"}
  BY <1>1 DEF MasterShape
<1>5. SignalOf(phase) \in Work <=> phase \in DispatchPhases
  BY <1>4 DEF SignalOf, Work, DispatchPhases, RemovePhases
<1>6. ~(mpc' = "wake" /\ phase' \in DispatchPhases)
  <2>1. CASE phase \in DispatchPhases
    BY <2>1 DEF Wake, Goto, DispatchPhases
  <2>2. CASE phase \in RemovePhases \cup {"start"}
    <3>1. NextWorker("wake") \/ NextWorker("remove")
      BY <2>2 DEF Wake, RemovePhases
    <3>2. NextWorkerDone("wake") \/ NextWorkerDone("remove")
      BY <2>2, <3>1, NextWorkerCases
    <3>3. QED
      BY <2>2, <3>2 DEF NextWorkerDone, DispatchPhases, RemovePhases
  <2>3. QED
    BY <1>4, <2>1, <2>2
<1>7. ASSUME NEW v \in Workers PROVE Pending(v)' <=> Pending(v)
  <2>1. CASE v = mid
    <3>1. Pending(v) <=> phase \in DispatchPhases
      BY <1>1, <1>2, <2>1 DEF Pending
    <3>2. Pending(v)' <=> SignalOf(phase) \in Work
      BY <1>2, <1>3, <1>6, <2>1 DEF Pending
    <3>3. QED
      BY <3>1, <3>2, <1>5
  <2>2. CASE v # mid
    <3>1. wakeup'[v] = wakeup[v] /\ wpc'[v] = wpc[v]
      BY <1>1, <2>2 DEF TypeOK
    <3>2. QED
      BY <1>1, <1>6, <2>2, <3>1 DEF Pending
  <2>3. QED
    BY <2>1, <2>2
<1>8. QED
  BY <1>1, <1>7 DEF SameTasks

\* No step loses a task or has it carried out twice.
LEMMA NextKeepsOnce ==
  ASSUME PoolInv, OnceInv, [Next]_vars
  PROVE  OnceInv'
<1> USE DEF PoolInv
<1>1. wpc \in [Workers -> InThreadWait \cup
                 {"enter", "locked", "run", "tellclaim", "sort", "dead"}]
      /\ wakeup \in [Workers -> Signals \cup {"none"}]
      /\ wsignal \in [Workers -> Signals \cup {"none"}]
  BY DEF TypeOK
<1>2. ASSUME NEW w \in Workers, WorkerStep(w) \/ SpuriousWakeup(w), ~RunTask(w)
      PROVE  SameTasks
  <2>1. UNCHANGED <<exprtodo, tasks, executed, phase, mid>>
        /\ (mpc' = mpc \/ (mpc' # "wake" /\ mpc # "wake"))
    BY <1>2 DEF WorkerStep, SpuriousWakeup, EnterThreadWait, ListMyself, TellMaster,
         FallAsleep, Reacquire, TakeSignal, ClaimBlock, TellClaim, FinishSort,
         EndThread, mastervars, WakeMaster, MasterAwake
  <2>2. CASE TakeSignal(w)
    BY <1>1, <2>1, <2>2 DEF TakeSignal, SameTasks, Pending, Work
  <2>3. CASE EndThread(w)
    BY <1>1, <2>1, <2>3 DEF EndThread, SameTasks, Pending, Work
  <2>4. CASE ClaimBlock(w)
    BY <1>1, <2>1, <2>4 DEF ClaimBlock, SameTasks, Pending, Work
  <2>5. CASE ~TakeSignal(w) /\ ~EndThread(w) /\ ~ClaimBlock(w)
    <3>1. UNCHANGED <<wakeup, wsignal>>
      BY <1>2, <2>5 DEF WorkerStep, SpuriousWakeup, EnterThreadWait, ListMyself,
           TellMaster, FallAsleep, Reacquire, TellClaim, FinishSort
    <3>2. wpc' = [wpc EXCEPT ![w] = wpc'[w]] /\ wpc[w] # "run" /\ wpc'[w] # "run"
      BY <1>1, <1>2, <2>5 DEF WorkerStep, SpuriousWakeup, EnterThreadWait, ListMyself,
           TellMaster, FallAsleep, Reacquire, TellClaim, FinishSort
    <3>3. QED
      BY <1>1, <2>1, <3>1, <3>2 DEF SameTasks, Pending
  <2>6. QED
    BY <2>2, <2>3, <2>4, <2>5
<1>3. CASE BeginThreadsProcessor \/ GetThread
  <2>1. mpc # "wake" /\ ~(mpc' = "wake" /\ phase' \in DispatchPhases)
    BY <1>3 DEF BeginThreadsProcessor, GetThread, Goto, NextWorker, MasterShape,
         DispatchPhases, RemovePhases
  <2>2. QED
    BY <1>3, <2>1, MasterElsewhere, SameTasksKeeps DEF BeginThreadsProcessor, GetThread, workervars
<1>4. CASE MasterWaitAll
  <2>1. phase \in DispatchPhases \cup {"startup", "start", "merge", "cleanup"}
    BY <1>4 DEF MasterWaitAll, MasterShape
  <2>2. mpc # "wake" /\ mpc' # "wake"
    BY <1>4, <2>1 DEF MasterWaitAll, Goto, DispatchPhases
  <2>3. QED
    BY <1>4, <2>2, MasterElsewhere, SameTasksKeeps DEF MasterWaitAll, workervars
<1>5. CASE BeginInParallel \/ BeginTerminate \/ UnlockAvailability \/ DispatchAnother
           \/ LeaveLoop \/ GetAvailableThread \/ SyncWithWorker \/ MasterWait
           \/ MasterWaitAllBlocks \/ JoinAll
  <2>1. mpc # "wake" /\ mpc' # "wake" /\ UNCHANGED <<wakeup, workervars, exprtodo, tasks>>
    BY <1>5 DEF BeginInParallel, BeginTerminate, UnlockAvailability, DispatchAnother,
         LeaveLoop, GetAvailableThread, SyncWithWorker, MasterWait, MasterWaitAllBlocks,
         JoinAll, Goto
  <2>2. QED
    BY <2>1, MasterElsewhere, SameTasksKeeps DEF workervars
<1>6. CASE MasterSpuriousWakeup
  BY <1>6, MasterElsewhere, SameTasksKeeps DEF MasterSpuriousWakeup, MasterAwake, workervars
<1>7. CASE UNCHANGED vars
  <2>1. UNCHANGED <<wakeup, wpc, wsignal, exprtodo, tasks, executed, mpc, phase, mid>>
    BY <1>7 DEF vars, workervars, mastervars
  <2>2. ASSUME NEW v \in Workers PROVE Pending(v)' <=> Pending(v)
    BY <2>1 DEF Pending
  <2>3. QED
    BY <2>1, <2>2, SameTasksKeeps DEF SameTasks
<1>8. QED
  BY <1>2, <1>3, <1>4, <1>5, <1>6, <1>7, SameTasksKeeps, RunTaskKeepsOnce,
     LoadThreadKeepsOnce, WakeKeepsTasks DEF Next, MasterStep

\* When MasterWaitAll lets the master go on, every expression and every bucket that
\* was handed to a worker has been carried out exactly once, for any number of
\* workers and tasks.
THEOREM BarrierCorrect == Spec => []BarrierMeansDone
<1>1. Init => OnceInv
  BY BoundsAssumption DEF Init, OnceInv, Pending, Work
<1>2. PoolInv /\ OnceInv /\ [Next]_vars => OnceInv'
  BY NextKeepsOnce
<1>3. PoolInv /\ OnceInv => BarrierMeansDone
  <2>1. SUFFICES ASSUME PoolInv, OnceInv, mpc = "choose", NEW t \in 1..MaxTasks
                 PROVE  executed[t] = IF t <= tasks THEN 1 ELSE 0
    BY DEF BarrierMeansDone
  <2>2. \A w \in Workers : ~Pending(w)
    BY <2>1 DEF PoolInv, MasterHolds, Idle, Pending, InThreadWait, Work
  <2>3. tasks \in Nat
    BY <2>1 DEF PoolInv, TypeOK
  <2>4. QED
    BY <2>1, <2>2, <2>3 DEF OnceInv
<1>4. QED
  BY <1>1, <1>2, <1>3, PoolCorrect, PTL DEF Spec
=============================================================================
