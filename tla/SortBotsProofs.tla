--------------------------- MODULE SortBotsProofs ---------------------------
(***************************************************************************)
(* The sortbots for any number of workers, blocks and expressions: the     *)
(* counter of available sortbots is right whenever the master waits for    *)
(* it, so that none of them misses its initialization, and what the tree   *)
(* writes is the sum of what the workers sent.                             *)
(***************************************************************************)
EXTENDS SortBots, FiniteSetTheorems, WellFoundedInduction, TLAPS

\* What the master is doing, and what it has told the sortbots to do.
AtMaster     == pc[Master]
Starting     == AtMaster \in {"start", "startasleep"}
Initialising == AtMaster \in {"ini", "zeroclaimed", "last1", "last2", "waitini", "iniasleep"}
Initialised  == AtMaster \in {"finish", "waitblocks", "claimasleep"}
Merging      == AtMaster \in {"run", "in1", "in2", "merge", "next1", "next2", "next12",
                              "waitend", "endasleep"}
Ending       == AtMaster \in {"terminate", "join", "ended"}

Job == IF Starting THEN "START" ELSE IF Initialising THEN "INISORTBOT"
       ELSE IF Merging THEN "RUNSORTBOT" ELSE IF Ending THEN "TERMINATETHREAD" ELSE "none"

\* The sortbots that have been sent the signal for it; started sortbots need none.
Called == IF AtMaster \in {"ini", "run", "terminate"} THEN {t \in SortBots : t < target}
          ELSE IF Job = "none" THEN {} ELSE SortBots

AtRest(t) == pc[t] \in {"tell", "wait"} /\ wakeup[t] = "none"

IniPlaces   == {"ini", "ini1", "ini2", "enter"}
MergePlaces == {"in1", "in2", "merge", "next1", "next2", "next12", "enter"}

Working(t) ==
  \/ pc[t] = "wait" /\ Job # "START" /\ wakeup[t] = Job
  \/ /\ wakeup[t] = "none"
     /\ \/ Job = "START" /\ pc[t] = "enter"
        \/ Job = "INISORTBOT" /\ pc[t] \in IniPlaces
        \/ Job = "RUNSORTBOT" /\ pc[t] \in MergePlaces
        \/ Job = "TERMINATETHREAD" /\ pc[t] = "ended"

\* A sortbot that has not been called rests; one that has been is at work or has finished.
InStep(t) == IF t \in Called THEN (Job # "TERMINATETHREAD" /\ AtRest(t)) \/ Working(t)
             ELSE AtRest(t)
Finished == {t \in Called : AtRest(t)}

SortBotsInStep == \A t \in SortBots : InStep(t)

\* While the master may wait for it, the counter is the number of sortbots that have
\* finished this job.
CountIsRight ==
  /\ topsortbotavailables \in 0..numberofsortbots
  /\ Job \in {"START", "INISORTBOT", "RUNSORTBOT"} => topsortbotavailables = Cardinality(Finished)

IniBlocks(t) == {FirstBlock(t), LastBlock(SortBotIn(t, 1)), LastBlock(SortBotIn(t, 2))}
Claimed(t) == IF pc[t] = "ini1" THEN {FirstBlock(t)}
              ELSE IF pc[t] = "ini2" THEN {FirstBlock(t), LastBlock(SortBotIn(t, 1))}
              ELSE IF pc[t] = "enter" \/ AtRest(t) THEN IniBlocks(t) ELSE {}

ClaimsHeld ==
  /\ Initialising => \A t \in Called : \A b \in Claimed(t) : MasterBlockLock[b] = t
  /\ Initialised => \A t \in SortBots : \A b \in IniBlocks(t) : MasterBlockLock[b] = t

\* The workers start one by one when the sortbots are ready; one that writes holds the block
\* it fills, until the master lets the merges begin.
WorkersInStep ==
  /\ Starting \/ Initialising => \A w \in Workers : pc[w] = "idle"
  /\ AtMaster = "finish" => \A w \in Workers : w >= target - NumberOfWorkers => pc[w] = "idle"
  /\ Initialised => \A w \in Workers :
       pc[w] \in {"claimed", "tellclaim", "write"} => MasterBlockLock[<<w, FillBlock[w]>>] = w

\* The workers that will still count themselves in numberclaimed.
Unclaimed == {w \in Workers : \/ pc[w] \in {"claim", "claimed"}
                              \/ AtMaster \in {"last1", "last2", "waitini", "iniasleep"}
                              \/ AtMaster = "finish" /\ w >= target - NumberOfWorkers}
ClaimsCounted ==
  numberclaimed \in Nat /\ numberclaimed + Cardinality(Unclaimed) <= NumberOfWorkers

Types ==
  /\ pc = [x \in Threads |-> pc[x]]
  /\ \A t \in SortBots : pc[t] \in SortBotPlaces
  /\ \A w \in Workers : pc[w] \in WorkerPlaces
  /\ AtMaster \in MasterPlaces
  /\ wakeup \in [SortBots -> Signals]
  /\ IF AtMaster = "finish" THEN target \in NumberOfWorkers + 1..2 * NumberOfWorkers
     ELSE target \in SortBots
  /\ AtMaster \notin {"ini", "run", "terminate", "finish"} => target = NumberOfWorkers + 1
  /\ expressions \in 0..MaxExpressions
  /\ Initialising \/ Initialised \/ Merging \/ AtMaster = "done" => expressions < MaxExpressions

RingTypes ==
  /\ MasterBlockLock \in [Blocks -> Threads \cup {Free}]
  /\ FillBlock \in [Streams -> 1..MasterNumBlocks]
  /\ blin \in [Readers -> (1..MasterNumBlocks) \X (1..MasterNumBlocks)]

FullTypes == full \in [Streams -> BOOLEAN]

IInv == /\ Types /\ RingTypes /\ FullTypes /\ SortBotsInStep /\ CountIsRight /\ ClaimsHeld /\ WorkersInStep
        /\ ClaimsCounted

-----------------------------------------------------------------------------
(* The threads *)

LEMMA ThreadFacts ==
  /\ NumberOfWorkers \in Nat /\ NumberOfWorkers > 2 /\ MasterNumBlocks \in Nat
  /\ MasterNumBlocks > 2 /\ MaxExpressions \in Nat
  /\ Master \notin SortBots /\ Master \notin Workers /\ Master \in Readers
  /\ \A t \in SortBots : t \notin Workers /\ t \in Int
  /\ SortBots \subseteq Readers /\ Readers \subseteq Threads /\ Workers \subseteq Threads
  /\ SortBots \subseteq Streams /\ Workers \subseteq Streams /\ Streams \subseteq Threads
  /\ NumberOfWorkers + 1 \in SortBots
  /\ \A t \in SortBots : NumberOfWorkers + 1 <= t /\ t <= 2 * NumberOfWorkers - 2
  /\ \A t \in SortBots : t # 2 * NumberOfWorkers - 2 => t + 1 \in SortBots
  /\ Free \notin Threads
BY TreeAssumption DEF Master, SortBots, Workers, Readers, Threads, Streams, Free

LEMMA Cardinalities ==
  /\ IsFiniteSet(SortBots) /\ Cardinality(SortBots) = numberofsortbots
  /\ IsFiniteSet(Workers) /\ Cardinality(Workers) = NumberOfWorkers
  /\ numberofsortbots \in Nat /\ numberofsortbots > 0
<1>1. NumberOfWorkers \in Nat /\ NumberOfWorkers > 2
  BY TreeAssumption
<1>2. \A a, b \in Int : /\ IsFiniteSet(a..b)
                        /\ Cardinality(a..b) = IF a > b THEN 0 ELSE b - a + 1
  BY FS_Interval
<1>3. NumberOfWorkers + 1 \in Int /\ 2 * NumberOfWorkers - 2 \in Int
  BY <1>1
<1>4. IsFiniteSet(SortBots) /\ Cardinality(SortBots) = numberofsortbots
  <2>1. /\ IsFiniteSet(NumberOfWorkers + 1..2 * NumberOfWorkers - 2)
        /\ Cardinality(NumberOfWorkers + 1..2 * NumberOfWorkers - 2)
             = IF NumberOfWorkers + 1 > 2 * NumberOfWorkers - 2 THEN 0
               ELSE (2 * NumberOfWorkers - 2) - (NumberOfWorkers + 1) + 1
    BY <1>2, <1>3
  <2>2. (2 * NumberOfWorkers - 2) - (NumberOfWorkers + 1) + 1 = NumberOfWorkers - 2
        /\ ~(NumberOfWorkers + 1 > 2 * NumberOfWorkers - 2)
    BY <1>1
  <2>3. QED
    BY <2>1, <2>2 DEF SortBots, numberofsortbots
<1>5. IsFiniteSet(Workers) /\ Cardinality(Workers) = NumberOfWorkers
  <2>1. IsFiniteSet(1..NumberOfWorkers) /\ Cardinality(1..NumberOfWorkers)
             = IF 1 > NumberOfWorkers THEN 0 ELSE NumberOfWorkers - 1 + 1
    BY <1>1, <1>2
  <2>2. QED
    BY <1>1, <2>1 DEF Workers
<1>6. QED
  BY <1>1, <1>4, <1>5 DEF numberofsortbots

LEMMA InitIInv == Init => IInv
<1> SUFFICES ASSUME Init PROVE IInv
  OBVIOUS
<1> USE DEF Init
<1>1. /\ pc = [x \in Threads |-> pc[x]]
      /\ pc[Master] = "start"
      /\ \A t \in SortBots : pc[t] = "enter" /\ wakeup[t] = "none"
      /\ \A w \in Workers : pc[w] = "idle"
  <2> DEFINE f == [t \in Threads |-> CASE t = Master -> "start"
                                       [] t \in SortBots -> "enter"
                                       [] t \in Workers -> "idle"]
  <2>0. pc = f
    OBVIOUS
  <2>1. pc = f /\ f = [x \in Threads |-> f[x]]
    <3> DEFINE e(t) == CASE t = Master -> "start"
                         [] t \in SortBots -> "enter"
                         [] t \in Workers -> "idle"
    <3>1. f = [t \in Threads |-> e(t)]
      OBVIOUS
    <3> HIDE DEF e, f
    <3>2. f = [x \in Threads |-> f[x]]
      BY <3>1
    <3>3. QED
      BY <2>0, <3>2
  <2>2. Master \in Threads /\ Master \notin SortBots /\ Master \notin Workers
    BY ThreadFacts
  <2>3. f[Master] = "start"
    BY <2>2
  <2>4. ASSUME NEW t \in SortBots PROVE f[t] = "enter" /\ wakeup[t] = "none"
    <3>1. t \in Threads /\ t # Master /\ t \notin Workers
      BY ThreadFacts
    <3>2. QED
      BY <3>1
  <2>5. ASSUME NEW w \in Workers PROVE f[w] = "idle"
    <3>1. w \in Threads /\ w # Master /\ w \notin SortBots
      BY ThreadFacts
    <3>2. QED
      BY <3>1
  <2> HIDE DEF f
  <2>6. QED
    BY <2>1, <2>3, <2>4, <2>5
<1>2. AtMaster = "start" /\ Starting /\ Job = "START" /\ ~Initialising /\ ~Initialised
      /\ Called = SortBots /\ Finished = {}
  BY <1>1 DEF AtMaster, Starting, Initialising, Initialised, Job, Called, Finished, AtRest
<1>3. Types
  <2>1. wakeup \in [SortBots -> Signals]
    BY DEF Signals
  <2>2. /\ \A t \in SortBots : pc[t] \in SortBotPlaces
        /\ \A w \in Workers : pc[w] \in WorkerPlaces
        /\ AtMaster \in MasterPlaces
    BY <1>1, <1>2 DEF SortBotPlaces, WorkerPlaces, MasterPlaces
  <2>3. expressions \in 0..MaxExpressions /\ target \in SortBots /\ target = NumberOfWorkers + 1
    BY ThreadFacts
  <2>4. QED
    BY <1>1, <1>2, <2>1, <2>2, <2>3
     DEF Types, Initialising, Initialised, Merging
<1>4. RingTypes /\ FullTypes
  BY ThreadFacts DEF RingTypes, FullTypes, Blocks
<1>5. SortBotsInStep
  BY <1>1, <1>2 DEF SortBotsInStep, InStep, Working
<1>6. CountIsRight
  BY <1>2, Cardinalities, FS_EmptySet DEF CountIsRight
<1>7. ClaimsHeld /\ WorkersInStep
  BY <1>1, <1>2 DEF ClaimsHeld, WorkersInStep
<1>8. ClaimsCounted
  <2>1. Unclaimed = {}
    BY <1>1, <1>2 DEF Unclaimed
  <2>2. QED
    BY <2>1, FS_EmptySet, ThreadFacts DEF ClaimsCounted
<1>9. QED
  BY <1>3, <1>4, <1>5, <1>6, <1>7, <1>8 DEF IInv

-----------------------------------------------------------------------------
(* The rings: types only *)

LEMMA RelockTypes ==
  ASSUME RingTypes, NEW t \in Threads, NEW acquired, NEW released, Relock(t, acquired, released)
  PROVE  /\ MasterBlockLock' \in [Blocks -> Threads \cup {Free}]
         /\ \A b \in Blocks : MasterBlockLock'[b] = IF b \in released THEN Free
                                                    ELSE IF b \in acquired THEN t
                                                    ELSE MasterBlockLock[b]
BY DEF RingTypes, Relock

LEMMA PutTypes ==
  ASSUME RingTypes, FullTypes, NEW s \in Streams, NEW term, NEW spoilt, NEW released,
         PutToMaster(s, term, spoilt, released)
  PROVE  /\ MasterBlockLock' \in [Blocks -> Threads \cup {Free}]
         /\ FillBlock' \in [Streams -> 1..MasterNumBlocks] /\ full' \in [Streams -> BOOLEAN]
<1>1. MasterBlockLock' \in [Blocks -> Threads \cup {Free}]
  BY ThreadFacts, RelockTypes DEF PutToMaster
<1>2. NextFill(s) \in 1..MasterNumBlocks
  BY ThreadFacts DEF RingTypes, NextFill, After
<1>3. FillBlock' \in [Streams -> 1..MasterNumBlocks]
  BY <1>2 DEF PutToMaster, RingTypes
<1>4. full' \in [Streams -> BOOLEAN]
  BY DEF PutToMaster, FullTypes
<1>5. QED
  BY <1>1, <1>3, <1>4

LEMMA OutTypes ==
  ASSUME RingTypes, FullTypes, NEW r \in Readers, NEW term, NEW spoilt, NEW released,
         SortBotOut(r, term, spoilt, released)
  PROVE  /\ MasterBlockLock' \in [Blocks -> Threads \cup {Free}]
         /\ FillBlock' \in [Streams -> 1..MasterNumBlocks] /\ full' \in [Streams -> BOOLEAN]
<1>1. CASE r = Master
  BY <1>1, ThreadFacts, RelockTypes DEF SortBotOut, RingTypes, FullTypes
<1>2. CASE r # Master
  <2>1. r \in SortBots /\ r \in Streams
    BY <1>2, ThreadFacts DEF Readers
  <2>2. QED
    BY <1>2, <2>1, PutTypes DEF SortBotOut
<1>3. QED
  BY <1>1, <1>2

LEMMA RingTypesKept ==
  ASSUME RingTypes, FullTypes, [Next]_vars
  PROVE  RingTypes' /\ FullTypes'
<1> USE ThreadFacts
<1>0. ASSUME UNCHANGED rings PROVE RingTypes' /\ FullTypes'
  BY <1>0 DEF RingTypes, FullTypes, rings
<1>1. ASSUME NEW t \in SortBots, SortBotStep(t) PROVE RingTypes' /\ FullTypes'
  <2>1. CASE EnterWait(t) \/ TellMaster(t) \/ TakeSignal(t)
    BY <1>0, <2>1 DEF EnterWait, TellMaster, TakeSignal, job
  <2>2. CASE ClaimOwnFirstBlock(t) \/ ClaimLastOfIn1(t)
    <3>1. MasterBlockLock' \in [Blocks -> Threads \cup {Free}]
      BY <2>2, RelockTypes DEF ClaimOwnFirstBlock, ClaimLastOfIn1, ClaimLastBlock
    <3>2. QED
      BY <2>2, <3>1 DEF ClaimOwnFirstBlock, ClaimLastOfIn1, job, RingTypes, FullTypes
  <2>3. CASE ClaimLastOfIn2(t)
    <3>1. MasterBlockLock' \in [Blocks -> Threads \cup {Free}]
      BY <2>3, RelockTypes DEF ClaimLastOfIn2, ClaimLastBlock
    <3>2. 1 \in 1..MasterNumBlocks
      OBVIOUS
    <3>3. FillBlock' \in [Streams -> 1..MasterNumBlocks]
      BY <2>3, <3>2 DEF ClaimLastOfIn2, RingTypes
    <3>4. full' \in [Streams -> BOOLEAN]
      BY <2>3 DEF ClaimLastOfIn2, FullTypes
    <3>5. QED
      BY <2>3, <3>1, <3>3, <3>4 DEF ClaimLastOfIn2, job, RingTypes, FullTypes
  <2>4. QED
    BY <1>1, <2>1, <2>2, <2>3 DEF SortBotStep
<1>2. ASSUME NEW r \in Readers, MergeStep(r) PROVE RingTypes' /\ FullTypes'
  <2>0. r \in Threads /\ 1 \in 1..MasterNumBlocks
    OBVIOUS
  <2>1. CASE StartMerge(r)
    <3>1. MasterBlockLock' \in [Blocks -> Threads \cup {Free}]
      BY <2>0, <2>1, RelockTypes DEF StartMerge
    <3>2. blin' \in [Readers -> (1..MasterNumBlocks) \X (1..MasterNumBlocks)]
      BY <2>0, <2>1 DEF StartMerge, RingTypes
    <3>3. QED
      BY <2>1, <3>1, <3>2 DEF StartMerge, job, RingTypes, FullTypes
  <2>2. CASE StartMergeIn2(r)
    <3>1. MasterBlockLock' \in [Blocks -> Threads \cup {Free}]
      BY <2>0, <2>2, RelockTypes DEF StartMergeIn2
    <3>2. FillBlock' \in [Streams -> 1..MasterNumBlocks]
      BY <2>0, <2>2 DEF StartMergeIn2, RingTypes
    <3>3. QED
      BY <2>2, <3>1, <3>2 DEF StartMergeIn2, job, RingTypes, FullTypes
  <2>3. CASE OneIsSmallest(r) \/ TwoIsSmallest(r) \/ Equal(r) \/ EndMerge(r)
    <3>1. /\ MasterBlockLock' \in [Blocks -> Threads \cup {Free}]
          /\ FillBlock' \in [Streams -> 1..MasterNumBlocks] /\ full' \in [Streams -> BOOLEAN]
      BY <2>0, <2>3, OutTypes DEF OneIsSmallest, TwoIsSmallest, Equal, EndMerge
    <3>2. UNCHANGED <<blin, expressions>>
      BY <2>3 DEF OneIsSmallest, TwoIsSmallest, Equal, EndMerge
    <3>3. QED
      BY <3>1, <3>2 DEF RingTypes, FullTypes
  <2>4. CASE Cancelled(r)
    <3>1. MasterBlockLock' \in [Blocks -> Threads \cup {Free}]
      BY <2>0, <2>4, RelockTypes DEF Cancelled
    <3>2. QED
      BY <2>4, <3>1 DEF Cancelled, job, RingTypes, FullTypes
  <2>5. ASSUME NEW n \in {1, 2}, NEW place, NEW released, NEW after,
               Advance(r, n, place, released, after)
        PROVE  RingTypes' /\ FullTypes'
    <3>1. MasterBlockLock' \in [Blocks -> Threads \cup {Free}]
      BY <2>0, <2>5, RelockTypes DEF Advance
    <3>2. blin[r] \in (1..MasterNumBlocks) \X (1..MasterNumBlocks)
      BY DEF RingTypes
    <3>3. blin[r][n] \in 1..MasterNumBlocks
      BY <3>2
    <3>4. After(blin[r][n]) \in 1..MasterNumBlocks
      BY <3>3 DEF After
    <3>5. [blin[r] EXCEPT ![n] = After(@)] \in (1..MasterNumBlocks) \X (1..MasterNumBlocks)
      BY <3>2, <3>4
    <3>6. blin' = [blin EXCEPT ![r] = [blin[r] EXCEPT ![n] = After(@)]]
      BY <2>5 DEF Advance
    <3>7. blin' \in [Readers -> (1..MasterNumBlocks) \X (1..MasterNumBlocks)]
      BY <3>5, <3>6 DEF RingTypes
    <3>8. QED
      BY <2>5, <3>1, <3>7 DEF Advance, job, RingTypes, FullTypes
  <2>6. QED
    BY <1>2, <2>1, <2>2, <2>3, <2>4, <2>5 DEF MergeStep, NextOfOne, NextOfTwo, NextOfBoth
<1>3. ASSUME NEW w \in Workers, WorkerStep(w) PROVE RingTypes' /\ FullTypes'
  <2>0. w \in Streams /\ w \in Threads /\ 1 \in 1..MasterNumBlocks
    OBVIOUS
  <2>1. CASE WorkerClaims(w)
    <3>1. MasterBlockLock' \in [Blocks -> Threads \cup {Free}]
      BY <2>0, <2>1, RelockTypes DEF WorkerClaims
    <3>2. FillBlock' \in [Streams -> 1..MasterNumBlocks]
      BY <2>0, <2>1 DEF WorkerClaims, RingTypes
    <3>3. full' \in [Streams -> BOOLEAN]
      BY <2>1 DEF WorkerClaims, FullTypes
    <3>4. QED
      BY <2>1, <3>1, <3>2, <3>3 DEF WorkerClaims, job, RingTypes, FullTypes
  <2>2. CASE ThreadClaimedBlock(w) \/ TellClaimed(w)
    BY <1>0, <2>2 DEF ThreadClaimedBlock, TellClaimed, job
  <2>3. CASE WorkerPuts(w) \/ WorkerEnds(w)
    <3>1. /\ MasterBlockLock' \in [Blocks -> Threads \cup {Free}]
          /\ FillBlock' \in [Streams -> 1..MasterNumBlocks] /\ full' \in [Streams -> BOOLEAN]
      BY <2>0, <2>3, PutTypes DEF WorkerPuts, WorkerEnds
    <3>2. UNCHANGED <<blin, expressions>>
      BY <2>3 DEF WorkerPuts, WorkerEnds, job
    <3>3. QED
      BY <3>1, <3>2 DEF RingTypes, FullTypes
  <2>4. QED
    BY <1>3, <2>1, <2>2, <2>3 DEF WorkerStep
<1>4. CASE MasterStep
  <2>1. CASE MasterClaimsLastOfIn1 \/ MasterClaimsLastOfIn2
    <3>1. MasterBlockLock' \in [Blocks -> Threads \cup {Free}]
      BY <2>1, RelockTypes DEF MasterClaimsLastOfIn1, MasterClaimsLastOfIn2, ClaimLastBlock
    <3>2. QED
      BY <2>1, <3>1 DEF MasterClaimsLastOfIn1, MasterClaimsLastOfIn2, job, RingTypes, FullTypes
  <2>2. CASE WaitForStart \/ SendIniSortBot \/ ZeroClaimed \/ WaitForIni
             \/ SendFinishExpression \/ MasterWaitAllBlocks \/ SendRunSortBot \/ WaitForEnd
             \/ BeginTerminate \/ SendTerminate \/ Join
    BY <1>0, <2>2 DEF WaitForStart, SendIniSortBot, ZeroClaimed, WaitForIni,
       SendFinishExpression, MasterWaitAllBlocks, SendRunSortBot, WaitForEnd, BeginTerminate,
       SendTerminate, Join, WakeSortBot, MasterWaitAllSortBots, job
  <2>3. CASE BeginSortBotMasterMerge \/ EndSortBotMasterMerge
    BY <1>0, <2>3 DEF BeginSortBotMasterMerge, EndSortBotMasterMerge
  <2>4. QED
    BY <1>4, <2>1, <2>2, <2>3 DEF MasterStep
<1>5. CASE UNCHANGED vars
  BY <1>0, <1>5 DEF vars, job
<1>6. QED
  BY <1>1, <1>2, <1>3, <1>4, <1>5 DEF Next

\* The blocks that a sortbot claims to begin with exist.
LEMMA TreeFacts ==
  ASSUME NEW t \in SortBots
  PROVE  /\ FirstBlock(t) \in Blocks /\ LastBlock(SortBotIn(t, 1)) \in Blocks
         /\ LastBlock(SortBotIn(t, 2)) \in Blocks /\ IniBlocks(t) \subseteq Blocks
<1>1. t \in Streams /\ SortBotIn(t, 1) \in Streams /\ SortBotIn(t, 2) \in Streams
  BY TreeAssumption DEF SortBotIn, SortBots, Streams, Workers, Master
<1>2. 1 \in 1..MasterNumBlocks /\ MasterNumBlocks \in 1..MasterNumBlocks
  BY TreeAssumption
<1>3. QED
  BY <1>1, <1>2 DEF IniBlocks, FirstBlock, LastBlock, Blocks

-----------------------------------------------------------------------------
(* Steps of the sortbots *)

LEMMA GotoFacts ==
  ASSUME pc = [x \in Threads |-> pc[x]], NEW t \in Threads, NEW place, Goto(t, place)
  PROVE  /\ pc' = [x \in Threads |-> pc'[x]] /\ pc'[t] = place
         /\ \A x \in Threads : x # t => pc'[x] = pc[x]
BY DEF Goto

LEMMA SamePhase ==
  ASSUME AtMaster' = AtMaster, target' = target
  PROVE  /\ Starting' = Starting /\ Initialising' = Initialising /\ Initialised' = Initialised
         /\ Merging' = Merging /\ Ending' = Ending /\ Job' = Job /\ Called' = Called
BY DEF Starting, Initialising, Initialised, Merging, Ending, Job, Called

LEMMA PhaseFacts ==
  /\ Starting => Job = "START" /\ ~Initialising /\ ~Initialised /\ ~Merging
  /\ Initialising => Job = "INISORTBOT" /\ ~Starting /\ ~Initialised /\ ~Merging
  /\ Initialised => Job = "none" /\ ~Starting /\ ~Initialising /\ ~Merging
  /\ Merging => Job = "RUNSORTBOT" /\ ~Starting /\ ~Initialised /\ ~Initialising
  /\ Ending => Job = "TERMINATETHREAD" /\ ~Starting /\ ~Initialising /\ ~Initialised /\ ~Merging
  /\ Job = "INISORTBOT" => Initialising
  /\ Job = "RUNSORTBOT" => Merging
  /\ Job = "START" => Starting
  /\ Job = "none" => Called = {}
  /\ Called \subseteq SortBots
  /\ Job \in {"START", "INISORTBOT", "RUNSORTBOT", "TERMINATETHREAD", "none"}
BY DEF Starting, Initialising, Initialised, Merging, Ending, Job, Called

\* Only a sortbot that has been called and has not finished makes a step of its own.
LEMMA WhoMoves ==
  ASSUME IInv, NEW t \in SortBots
  PROVE  /\ pc[t] = "enter" => /\ t \in Called /\ ~AtRest(t) /\ wakeup[t] = "none"
                               /\ Job \in {"START", "INISORTBOT", "RUNSORTBOT"}
         /\ pc[t] \in {"ini", "ini1", "ini2"} => /\ t \in Called /\ ~AtRest(t)
                                                 /\ wakeup[t] = "none" /\ Job = "INISORTBOT"
         /\ pc[t] \in {"in1", "in2", "merge", "next1", "next2", "next12"} =>
              t \in Called /\ ~AtRest(t) /\ wakeup[t] = "none" /\ Job = "RUNSORTBOT"
         /\ pc[t] = "wait" /\ wakeup[t] # "none" =>
              /\ t \in Called /\ ~AtRest(t) /\ wakeup[t] = Job
              /\ Job \in {"INISORTBOT", "RUNSORTBOT", "TERMINATETHREAD"}
<1>1. InStep(t) /\ (Job = "none" => Called = {}) /\ pc[t] \in SortBotPlaces
      /\ Job \in {"START", "INISORTBOT", "RUNSORTBOT", "TERMINATETHREAD", "none"}
  BY PhaseFacts DEF IInv, SortBotsInStep, Types
<1>2. QED
  BY <1>1 DEF InStep, Working, AtRest, IniPlaces, MergePlaces, SortBotPlaces

\* What a step of one sortbot leaves alone, and when it counts.
SortBotMove(t) ==
  /\ t \in Called /\ ~AtRest(t) /\ Goto(t, pc'[t]) /\ pc'[t] \in SortBotPlaces
  /\ target' = target /\ numberclaimed' = numberclaimed /\ expressions' = expressions
  /\ wakeup' \in [SortBots -> Signals] /\ \A x \in SortBots : x # t => wakeup'[x] = wakeup[x]
  /\ InStep(t)'
  /\ IF AtRest(t)' THEN /\ topsortbotavailables' = topsortbotavailables + 1
                        /\ Job \in {"START", "INISORTBOT", "RUNSORTBOT"}
     ELSE topsortbotavailables' = topsortbotavailables

\* Steps of a sortbot change no place of the master, so its job and who is called stay.
LEMMA OneMoves ==
  ASSUME IInv, NEW t \in SortBots, Goto(t, pc'[t]), target' = target
  PROVE  /\ AtMaster' = AtMaster /\ Job' = Job /\ Called' = Called
         /\ Starting' = Starting /\ Initialising' = Initialising /\ Initialised' = Initialised
         /\ Merging' = Merging
         /\ pc' = [x \in Threads |-> pc'[x]]
         /\ \A x \in Threads : x # t => pc'[x] = pc[x]
<1>1. t \in Threads /\ Master \in Threads /\ Master # t /\ pc = [x \in Threads |-> pc[x]]
  BY ThreadFacts DEF IInv, Types
<1>2. pc' = [x \in Threads |-> pc'[x]] /\ \A x \in Threads : x # t => pc'[x] = pc[x]
  BY <1>1, GotoFacts
<1>3. AtMaster' = AtMaster
  BY <1>1, <1>2 DEF AtMaster
<1>4. QED
  BY <1>2, <1>3, SamePhase

LEMMA MoveKeeps ==
  ASSUME IInv, NEW t \in SortBots, SortBotMove(t)
  PROVE  Types' /\ SortBotsInStep' /\ CountIsRight' /\ ClaimsCounted'
<1>0. Goto(t, pc'[t]) /\ target' = target
  BY DEF SortBotMove
<1>1. /\ AtMaster' = AtMaster /\ Job' = Job /\ Called' = Called
      /\ Initialising' = Initialising /\ Initialised' = Initialised /\ Merging' = Merging
      /\ pc' = [x \in Threads |-> pc'[x]]
      /\ \A x \in Threads : x # t => pc'[x] = pc[x]
  BY <1>0, OneMoves
<1>2. /\ \A w \in Workers : pc'[w] = pc[w]
      /\ \A x \in SortBots : x # t => pc'[x] = pc[x] /\ wakeup'[x] = wakeup[x]
  BY <1>1, ThreadFacts DEF SortBotMove
<1>3. Types'
  <2>1. \A x \in SortBots : pc'[x] \in SortBotPlaces
    BY <1>2 DEF SortBotMove, IInv, Types
  <2>2. \A w \in Workers : pc'[w] \in WorkerPlaces
    BY <1>2 DEF IInv, Types
  <2>3. UNCHANGED <<target, expressions>> /\ wakeup' \in [SortBots -> Signals]
    BY DEF SortBotMove
  <2>4. QED
    BY <1>1, <2>1, <2>2, <2>3 DEF IInv, Types
<1>4. \A x \in SortBots : x # t => (AtRest(x)' <=> AtRest(x)) /\ (InStep(x)' <=> InStep(x))
  BY <1>1, <1>2 DEF AtRest, InStep, Working
<1>5. SortBotsInStep'
  BY <1>4 DEF SortBotsInStep, SortBotMove, IInv
<1>6. /\ Finished \subseteq SortBots /\ IsFiniteSet(Finished) /\ t \notin Finished
      /\ Finished' = IF AtRest(t)' THEN Finished \cup {t} ELSE Finished
  <2>1. Finished \subseteq SortBots
    BY PhaseFacts DEF Finished
  <2>2. t \notin Finished /\ t \in Called
    BY DEF SortBotMove, Finished
  <2>3. Finished' = IF AtRest(t)' THEN Finished \cup {t} ELSE Finished
    BY <1>1, <1>4, <2>2, PhaseFacts DEF Finished
  <2>4. QED
    BY <2>1, <2>2, <2>3, FS_Subset, Cardinalities
<1>7. CountIsRight'
  <2>1. CASE ~AtRest(t)'
    BY <1>1, <1>6, <2>1 DEF SortBotMove, IInv, CountIsRight
  <2>2. CASE AtRest(t)'
    <3>1. /\ topsortbotavailables' = topsortbotavailables + 1
          /\ topsortbotavailables = Cardinality(Finished)
      BY <2>2 DEF SortBotMove, IInv, CountIsRight
    <3>2. Finished' = Finished \cup {t} /\ Cardinality(Finished') = Cardinality(Finished) + 1
      BY <1>6, <2>2, FS_AddElement
    <3>3. Finished' \subseteq SortBots /\ IsFiniteSet(SortBots)
      BY <1>6, <3>2, Cardinalities
    <3>4. Cardinality(Finished') <= Cardinality(SortBots)
      BY <3>3, FS_Subset
    <3>5. QED
      BY <1>1, <3>1, <3>2, <3>4, Cardinalities DEF IInv, CountIsRight
  <2>3. QED
    BY <2>1, <2>2
<1>8. ClaimsCounted'
  <2>1. Unclaimed' = Unclaimed
    BY <1>1, <1>2 DEF Unclaimed, SortBotMove
  <2>2. QED
    BY <2>1 DEF ClaimsCounted, SortBotMove, IInv
<1>9. QED
  BY <1>3, <1>5, <1>7, <1>8

\* A sortbot that moves is never in the phase in which the workers start.
LEMMA MoveKeepsWorkers ==
  ASSUME IInv, NEW t \in SortBots, SortBotMove(t)
  PROVE  WorkersInStep' /\ ~Initialised' /\ Initialising' = Initialising /\ Called' = Called
         /\ \A x \in SortBots : x # t => Claimed(x)' = Claimed(x)
<1>1. Goto(t, pc'[t]) /\ target' = target /\ t \in Called
  BY DEF SortBotMove
<1>2. /\ Starting' = Starting /\ Initialising' = Initialising /\ Initialised' = Initialised
      /\ Called' = Called
      /\ \A x \in Threads : x # t => pc'[x] = pc[x]
  BY <1>1, OneMoves
<1>3. ~Initialised
  BY <1>1, PhaseFacts
<1>4. \A w \in Workers : pc'[w] = pc[w]
  BY <1>2, ThreadFacts
<1>5. WorkersInStep'
  BY <1>2, <1>3, <1>4 DEF WorkersInStep, IInv, Initialised
<1>6. ASSUME NEW x \in SortBots, x # t PROVE Claimed(x)' = Claimed(x)
  <2>1. pc'[x] = pc[x] /\ wakeup'[x] = wakeup[x]
    BY <1>2, <1>6, ThreadFacts DEF SortBotMove
  <2>2. IniBlocks(x)' = IniBlocks(x)
    BY DEF IniBlocks, FirstBlock, LastBlock, SortBotIn
  <2>3. QED
    BY <2>1, <2>2 DEF Claimed, AtRest, FirstBlock, LastBlock, SortBotIn
<1>7. QED
  BY <1>2, <1>3, <1>5, <1>6

\* The blocks of the initialization are taken one after the other.
LEMMA ClaimKeeps ==
  ASSUME IInv, NEW t \in SortBots, NEW b \in Blocks, IsFree(b), Relock(t, {b}, {}),
         SortBotMove(t), Claimed(t)' \subseteq Claimed(t) \cup {b}
  PROVE  ClaimsHeld'
<1>1. MasterBlockLock' = [c \in Blocks |-> IF c = b THEN t ELSE MasterBlockLock[c]]
  BY DEF Relock
<1>2. /\ ~Initialised' /\ Initialising' = Initialising /\ Called' = Called /\ t \in Called
      /\ \A x \in SortBots : x # t => Claimed(x)' = Claimed(x)
  BY MoveKeepsWorkers DEF SortBotMove
<1>3. ASSUME Initialising', NEW x \in Called', NEW c \in Claimed(x)'
      PROVE  MasterBlockLock'[c] = x
  <2>1. x \in SortBots /\ x \in Called /\ Initialising
    BY <1>2, <1>3, PhaseFacts
  <2>2. \A d \in Claimed(x) : MasterBlockLock[d] = x
    BY <2>1 DEF IInv, ClaimsHeld
  <2>3. x # Free /\ x \in Threads
    BY <2>1, ThreadFacts
  <2>4. CASE c = b
    <3>1. MasterBlockLock[b] # x
      BY <2>3 DEF IsFree
    <3>2. c \notin Claimed(x)
      BY <2>2, <2>4, <3>1
    <3>3. x = t
      BY <1>2, <1>3, <2>1, <3>2
    <3>4. QED
      BY <1>1, <2>4, <3>3
  <2>5. CASE c # b
    <3>1. c \in Claimed(x)
      BY <1>2, <1>3, <2>1, <2>5
    <3>2. c \in Blocks
      <4>1. MasterBlockLock[c] = x
        BY <2>2, <3>1
      <4>2. c \in IniBlocks(x)
        BY <3>1 DEF Claimed, IniBlocks
      <4>3. QED
        BY <2>1, <4>2, TreeFacts
    <3>3. QED
      BY <1>1, <2>2, <2>5, <3>1, <3>2
  <2>6. QED
    BY <2>4, <2>5
<1>4. QED
  BY <1>2, <1>3 DEF ClaimsHeld

\* What every step has to show, apart from the types of the rings.
Kept == Types' /\ SortBotsInStep' /\ CountIsRight' /\ ClaimsHeld' /\ WorkersInStep' /\ ClaimsCounted'

\* SortBotWait and the claims.
LEMMA SortBotStepKeeps ==
  ASSUME IInv, NEW t \in SortBots, SortBotStep(t), ~TellMaster(t)
  PROVE  Kept
<1>0. /\ pc = [x \in Threads |-> pc[x]] /\ wakeup \in [SortBots -> Signals] /\ t \in Threads
      /\ Master \notin SortBots
  BY ThreadFacts DEF IInv, Types
<1>1. ASSUME SortBotMove(t), ClaimsHeld' PROVE Kept
  BY <1>1, MoveKeeps, MoveKeepsWorkers DEF Kept
<1>2. CASE EnterWait(t)
  <2>1. /\ pc[t] = "enter" /\ t \in Called /\ ~AtRest(t) /\ wakeup[t] = "none"
        /\ Job \in {"START", "INISORTBOT", "RUNSORTBOT"}
    BY <1>2, WhoMoves DEF EnterWait
  <2>2. /\ Goto(t, pc'[t]) /\ pc'[t] \in {"tell", "wait"} /\ wakeup' = wakeup
        /\ target' = target /\ numberclaimed' = numberclaimed /\ expressions' = expressions
        /\ topsortbotavailables' = topsortbotavailables + 1 /\ MasterBlockLock' = MasterBlockLock
    BY <1>0, <1>2 DEF EnterWait, Goto, rings, job
  <2>3. AtRest(t)' /\ Job' = Job /\ Called' = Called
    BY <2>1, <2>2, OneMoves DEF AtRest
  <2>4. InStep(t)'
    BY <2>1, <2>3 DEF InStep
  <2>5. SortBotMove(t)
    BY <1>0, <2>1, <2>2, <2>3, <2>4 DEF SortBotMove, SortBotPlaces
  <2>6. /\ ~Initialised' /\ Initialising' = Initialising /\ Called' = Called
        /\ \A x \in SortBots : x # t => Claimed(x)' = Claimed(x)
    BY <2>5, MoveKeepsWorkers
  <2>7. Claimed(t)' \subseteq Claimed(t)
    <3>1. IniBlocks(t)' = IniBlocks(t)
      BY DEF IniBlocks, FirstBlock, LastBlock, SortBotIn
    <3>2. Claimed(t) = IniBlocks(t)
      BY <2>1 DEF Claimed
    <3>3. Claimed(t)' \subseteq IniBlocks(t)
      BY <2>2, <3>1 DEF Claimed
    <3>4. QED
      BY <3>2, <3>3
  <2>8. ClaimsHeld'
    BY <2>2, <2>6, <2>7, PhaseFacts DEF ClaimsHeld, IInv
  <2>9. QED
    BY <1>1, <2>5, <2>8
<1>3. CASE TakeSignal(t)
  <2>1. /\ pc[t] = "wait" /\ t \in Called /\ ~AtRest(t) /\ wakeup[t] = Job
        /\ Job \in {"INISORTBOT", "RUNSORTBOT", "TERMINATETHREAD"}
    BY <1>3, WhoMoves DEF TakeSignal
  <2>2. /\ Goto(t, pc'[t]) /\ wakeup' = [wakeup EXCEPT ![t] = "none"]
        /\ pc'[t] = CASE Job = "INISORTBOT" -> "ini"
                      [] Job = "RUNSORTBOT" -> "in1"
                      [] Job = "TERMINATETHREAD" -> "ended"
        /\ target' = target /\ numberclaimed' = numberclaimed /\ expressions' = expressions
        /\ topsortbotavailables' = topsortbotavailables /\ MasterBlockLock' = MasterBlockLock
    BY <1>0, <1>3, <2>1 DEF TakeSignal, Goto, rings, job
  <2>3. pc'[t] \in {"ini", "in1", "ended"}
    BY <2>1, <2>2
  <2>4. ~AtRest(t)' /\ Job' = Job /\ Called' = Called /\ wakeup'[t] = "none"
    BY <1>0, <2>2, <2>3, OneMoves DEF AtRest
  <2>5. InStep(t)'
    <3>1. CASE Job = "INISORTBOT"
      BY <2>1, <2>2, <2>4, <3>1 DEF InStep, Working, IniPlaces
    <3>2. CASE Job = "RUNSORTBOT"
      BY <2>1, <2>2, <2>4, <3>2 DEF InStep, Working, MergePlaces
    <3>3. CASE Job = "TERMINATETHREAD"
      BY <2>1, <2>2, <2>4, <3>3 DEF InStep, Working
    <3>4. QED
      BY <2>1, <3>1, <3>2, <3>3
  <2>6. wakeup' \in [SortBots -> Signals] /\ \A x \in SortBots : x # t => wakeup'[x] = wakeup[x]
    BY <1>0, <2>2 DEF Signals
  <2>7. SortBotMove(t)
    BY <2>1, <2>2, <2>3, <2>4, <2>5, <2>6 DEF SortBotMove, SortBotPlaces
  <2>8. /\ ~Initialised' /\ Initialising' = Initialising /\ Called' = Called
        /\ \A x \in SortBots : x # t => Claimed(x)' = Claimed(x)
    BY <2>7, MoveKeepsWorkers
  <2>9. Claimed(t)' = {}
    BY <2>3, <2>4 DEF Claimed
  <2>10. ClaimsHeld'
    BY <2>2, <2>8, <2>9, PhaseFacts DEF ClaimsHeld, IInv
  <2>11. QED
    BY <1>1, <2>7, <2>10
<1>4. ASSUME ClaimOwnFirstBlock(t) \/ ClaimLastOfIn1(t) \/ ClaimLastOfIn2(t)
      PROVE  Kept
  <2>1. /\ pc[t] \in {"ini", "ini1", "ini2"} /\ t \in Called /\ ~AtRest(t)
        /\ wakeup[t] = "none" /\ Job = "INISORTBOT"
    BY <1>4, WhoMoves DEF ClaimOwnFirstBlock, ClaimLastOfIn1, ClaimLastOfIn2, ClaimLastBlock
  <2>2. /\ Goto(t, pc'[t]) /\ wakeup' = wakeup
        /\ pc'[t] \in {"ini1", "ini2", "enter"}
        /\ target' = target /\ numberclaimed' = numberclaimed /\ expressions' = expressions
        /\ topsortbotavailables' = topsortbotavailables
    BY <1>0, <1>4 DEF ClaimOwnFirstBlock, ClaimLastOfIn1, ClaimLastOfIn2, ClaimLastBlock, Goto,
                      signals, job
  <2>3. ~AtRest(t)' /\ Job' = Job /\ Called' = Called
    BY <2>2, OneMoves DEF AtRest
  <2>4. InStep(t)'
    BY <2>1, <2>2, <2>3 DEF InStep, Working, IniPlaces
  <2>5. SortBotMove(t)
    BY <1>0, <2>1, <2>2, <2>3, <2>4 DEF SortBotMove, SortBotPlaces
  <2>6. CASE ClaimOwnFirstBlock(t)
    <3>1. pc'[t] = "ini1" /\ IsFree(FirstBlock(t)) /\ Relock(t, {FirstBlock(t)}, {})
      BY <1>0, <2>6 DEF ClaimOwnFirstBlock, Goto
    <3>2. Claimed(t)' \subseteq Claimed(t) \cup {FirstBlock(t)}
      BY <3>1 DEF Claimed, FirstBlock
    <3>3. QED
      BY <1>1, <2>5, <3>1, <3>2, ClaimKeeps, TreeFacts
  <2>7. CASE ClaimLastOfIn1(t)
    <3> DEFINE b == LastBlock(SortBotIn(t, 1))
    <3>1. pc[t] = "ini1" /\ pc'[t] = "ini2" /\ IsFree(b) /\ Relock(t, {b}, {})
      BY <1>0, <2>7 DEF ClaimLastOfIn1, ClaimLastBlock, Goto
    <3>2. Claimed(t)' \subseteq Claimed(t) \cup {b}
      BY <3>1 DEF Claimed, FirstBlock, LastBlock, SortBotIn
    <3>3. b \in Blocks
      BY TreeFacts
    <3>4. QED
      BY <1>1, <2>5, <3>1, <3>2, <3>3, ClaimKeeps
  <2>8. CASE ClaimLastOfIn2(t)
    <3> DEFINE b == LastBlock(SortBotIn(t, 2))
    <3>1. pc[t] = "ini2" /\ pc'[t] = "enter" /\ IsFree(b) /\ Relock(t, {b}, {})
      BY <1>0, <2>8 DEF ClaimLastOfIn2, ClaimLastBlock, Goto
    <3>2. Claimed(t)' \subseteq Claimed(t) \cup {b}
      BY <3>1 DEF Claimed, IniBlocks, FirstBlock, LastBlock, SortBotIn
    <3>3. b \in Blocks
      BY TreeFacts
    <3>4. QED
      BY <1>1, <2>5, <3>1, <3>2, <3>3, ClaimKeeps
  <2>9. QED
    BY <1>4, <2>6, <2>7, <2>8
<1>5. QED
  BY <1>2, <1>3, <1>4 DEF SortBotStep

\* SortBotMerge in a sortbot.
LEMMA MergeStepKeeps ==
  ASSUME IInv, NEW t \in SortBots, MergeStep(t)
  PROVE  Kept
<1>0. /\ pc = [x \in Threads |-> pc[x]] /\ wakeup \in [SortBots -> Signals] /\ t \in Threads
      /\ Master \notin SortBots /\ t # Master
  BY ThreadFacts DEF IInv, Types
<1>1. /\ pc[t] \in {"in1", "in2", "merge", "next1", "next2", "next12"} /\ Goto(t, pc'[t])
      /\ pc'[t] \in {"in2", "merge", "next1", "next2", "next12", "enter"}
      /\ UNCHANGED <<topsortbotavailables, wakeup, numberclaimed, target, expressions>>
  BY <1>0 DEF MergeStep, StartMerge, StartMergeIn2, OneIsSmallest, TwoIsSmallest, Equal,
     EqualTerms, Cancelled, NextOfOne, NextOfTwo, NextOfBoth, Advance, EndMerge, Goto, signals, job
<1>2. t \in Called /\ ~AtRest(t) /\ wakeup[t] = "none" /\ Job = "RUNSORTBOT"
  BY <1>1, WhoMoves
<1>3. ~AtRest(t)' /\ Job' = Job /\ Called' = Called
  BY <1>1, OneMoves DEF AtRest
<1>4. InStep(t)'
  BY <1>1, <1>2, <1>3 DEF InStep, Working, MergePlaces
<1>5. SortBotMove(t)
  BY <1>0, <1>1, <1>2, <1>3, <1>4 DEF SortBotMove, SortBotPlaces
<1>6. ~Initialised' /\ ~Initialising'
  BY <1>2, <1>5, MoveKeepsWorkers, PhaseFacts
<1>7. ClaimsHeld'
  BY <1>6 DEF ClaimsHeld
<1>8. QED
  BY <1>5, <1>7, MoveKeeps, MoveKeepsWorkers DEF Kept

\* The last sortbot tells the master: that may wake it, and changes nothing else.
LEMMA TellMasterKeeps ==
  ASSUME IInv, NEW t \in SortBots, TellMaster(t)
  PROVE  Kept
<1>0. /\ pc = [x \in Threads |-> pc[x]] /\ wakeup \in [SortBots -> Signals] /\ t \in Threads
      /\ Master \notin SortBots /\ t # Master /\ Master \in Threads
  BY ThreadFacts DEF IInv, Types
<1>1. /\ pc' = [x \in Threads |-> pc'[x]] /\ pc[t] = "tell" /\ pc'[t] = "wait"
      /\ pc'[Master] = CASE AtMaster = "startasleep" -> "start"
                         [] AtMaster = "iniasleep"   -> "waitini"
                         [] AtMaster = "endasleep"   -> "waitend"
                         [] OTHER -> AtMaster
      /\ \A x \in Threads : x # t /\ x # Master => pc'[x] = pc[x]
      /\ UNCHANGED <<topsortbotavailables, wakeup, numberclaimed, target, expressions,
                     MasterBlockLock, FillBlock>>
  BY <1>0 DEF TellMaster, AtMaster, signals, rings, job
<1>2. \/ AtMaster' = AtMaster
      \/ AtMaster = "startasleep" /\ AtMaster' = "start"
      \/ AtMaster = "iniasleep" /\ AtMaster' = "waitini"
      \/ AtMaster = "endasleep" /\ AtMaster' = "waitend"
  BY <1>1 DEF AtMaster
<1>3. /\ Starting' = Starting /\ Initialising' = Initialising /\ Initialised' = Initialised
      /\ Merging' = Merging /\ Ending' = Ending
  BY <1>2 DEF Starting, Initialising, Initialised, Merging, Ending
<1>4. Job' = Job
  BY <1>3 DEF Job
<1>5. Called' = Called
  BY <1>1, <1>2, <1>4 DEF Called
<1>6. /\ \A x \in SortBots : x # t => pc'[x] = pc[x]
      /\ \A w \in Workers : pc'[w] = pc[w]
  BY <1>1, ThreadFacts
<1>7. wakeup[t] = "none"
  BY <1>1 DEF IInv, SortBotsInStep, InStep, Working, AtRest, IniPlaces, MergePlaces
<1>8. \A x \in SortBots : (AtRest(x)' <=> AtRest(x)) /\ (InStep(x)' <=> InStep(x))
  <2> TAKE x \in SortBots
  <2>1. CASE x # t
    BY <1>1, <1>4, <1>5, <1>6, <2>1 DEF AtRest, InStep, Working
  <2>2. CASE x = t
    BY <1>1, <1>4, <1>5, <1>7, <2>2 DEF AtRest, InStep, Working, IniPlaces, MergePlaces
  <2>3. QED
    BY <2>1, <2>2
<1>9. SortBotsInStep'
  BY <1>8 DEF SortBotsInStep, IInv
<1>10. CountIsRight'
  <2>1. Finished' = Finished
    BY <1>5, <1>8, PhaseFacts DEF Finished
  <2>2. QED
    BY <1>1, <1>4, <2>1 DEF CountIsRight, IInv
<1>11. Types'
  <2>1. AtMaster' \in MasterPlaces
    BY <1>2 DEF IInv, Types, MasterPlaces
  <2>2. /\ \A x \in SortBots : pc'[x] \in SortBotPlaces
        /\ \A w \in Workers : pc'[w] \in WorkerPlaces
    BY <1>1, <1>6 DEF IInv, Types, SortBotPlaces
  <2>3. /\ IF AtMaster' = "finish" THEN target \in NumberOfWorkers + 1..2 * NumberOfWorkers
           ELSE target \in SortBots
        /\ AtMaster' \notin {"ini", "run", "terminate", "finish"} => target = NumberOfWorkers + 1
    BY <1>2 DEF IInv, Types
  <2>4. Initialising' \/ Initialised' \/ Merging' \/ AtMaster' = "done" => expressions < MaxExpressions
    BY <1>2, <1>3 DEF IInv, Types
  <2>5. expressions \in 0..MaxExpressions
    BY DEF IInv, Types
  <2>6. QED
    BY <1>0, <1>1, <2>1, <2>2, <2>3, <2>4, <2>5 DEF Types
<1>12. \A x \in SortBots : Claimed(x)' = Claimed(x) /\ IniBlocks(x)' = IniBlocks(x)
  <2> TAKE x \in SortBots
  <2>1. IniBlocks(x)' = IniBlocks(x) /\ FirstBlock(x)' = FirstBlock(x)
        /\ LastBlock(SortBotIn(x, 1))' = LastBlock(SortBotIn(x, 1))
    BY DEF IniBlocks, FirstBlock, LastBlock, SortBotIn
  <2>2. \/ pc'[x] = pc[x]
        \/ pc[x] = "tell" /\ pc'[x] = "wait"
    BY <1>1, <1>6
  <2>3. (pc'[x] = "ini1" <=> pc[x] = "ini1") /\ (pc'[x] = "ini2" <=> pc[x] = "ini2")
        /\ (pc'[x] = "enter" <=> pc[x] = "enter")
    BY <2>2
  <2>4. AtRest(x)' <=> AtRest(x)
    BY <1>8
  <2>5. QED
    BY <2>1, <2>3, <2>4 DEF Claimed
<1>13. ClaimsHeld'
  BY <1>1, <1>3, <1>5, <1>12, PhaseFacts DEF ClaimsHeld, IInv
<1>14. WorkersInStep'
  BY <1>1, <1>2, <1>3, <1>6 DEF WorkersInStep, IInv
<1>15. ClaimsCounted'
  <2>1. Unclaimed' = Unclaimed
    BY <1>1, <1>2, <1>6 DEF Unclaimed
  <2>2. QED
    BY <1>1, <2>1 DEF ClaimsCounted, IInv
<1>16. QED
  BY <1>9, <1>10, <1>11, <1>13, <1>14, <1>15 DEF Kept

-----------------------------------------------------------------------------
(* Steps that leave the sortbots alone *)

LEMMA SortBotsStay ==
  ASSUME IInv, Job' = Job, Called' = Called, topsortbotavailables' = topsortbotavailables,
         \A t \in SortBots : pc'[t] = pc[t] /\ wakeup'[t] = wakeup[t]
  PROVE  /\ SortBotsInStep' /\ CountIsRight'
         /\ \A t \in SortBots : Claimed(t)' = Claimed(t) /\ IniBlocks(t)' = IniBlocks(t)
<1>1. \A t \in SortBots : (AtRest(t)' <=> AtRest(t)) /\ (InStep(t)' <=> InStep(t))
  BY DEF AtRest, InStep, Working
<1>2. SortBotsInStep'
  BY <1>1 DEF SortBotsInStep, IInv
<1>3. Finished' = Finished
  BY <1>1, PhaseFacts DEF Finished
<1>4. CountIsRight'
  BY <1>3 DEF CountIsRight, IInv
<1>5. ASSUME NEW t \in SortBots PROVE Claimed(t)' = Claimed(t) /\ IniBlocks(t)' = IniBlocks(t)
  <2>1. IniBlocks(t)' = IniBlocks(t) /\ FirstBlock(t)' = FirstBlock(t)
        /\ LastBlock(SortBotIn(t, 1))' = LastBlock(SortBotIn(t, 1))
    BY DEF IniBlocks, FirstBlock, LastBlock, SortBotIn
  <2>2. QED
    BY <1>1, <2>1 DEF Claimed
<1>6. QED
  BY <1>2, <1>4, <1>5

\* Workers that have counted themselves leave room for those that have not.
LEMMA FewerUnclaimed ==
  ASSUME IInv, numberclaimed' = numberclaimed, Unclaimed' \subseteq Unclaimed
  PROVE  ClaimsCounted'
<1>1. Unclaimed \subseteq Workers /\ IsFiniteSet(Unclaimed)
  <2>1. Unclaimed \subseteq Workers
    BY DEF Unclaimed
  <2>2. QED
    BY <2>1, FS_Subset, Cardinalities
<1>2. /\ IsFiniteSet(Unclaimed') /\ Cardinality(Unclaimed') <= Cardinality(Unclaimed)
  BY <1>1, FS_Subset
<1>3. Cardinality(Unclaimed) \in Nat /\ Cardinality(Unclaimed') \in Nat
  BY <1>1, <1>2, FS_CardinalityType
<1>4. QED
  BY <1>2, <1>3, ThreadFacts DEF IInv, ClaimsCounted

\* The blocks of a stream are written by its own thread: what others hold stays theirs.
LEMMA PutKeepsOthers ==
  ASSUME IInv, NEW w \in Workers, NEW term, NEW released, PutToMaster(w, term, {}, released),
         released \subseteq {<<w, NextFill(w)>>}, MasterBlockLock[<<w, FillBlock[w]>>] = w
  PROVE  /\ \A b \in Blocks : MasterBlockLock[b] \notin {Free, w} =>
                               MasterBlockLock'[b] = MasterBlockLock[b]
         /\ \A v \in Workers : v # w => FillBlock'[v] = FillBlock[v]
         /\ released = {} => MasterBlockLock'[<<w, FillBlock'[w]>>] = w
<1>1. w \in Streams /\ w \in Threads /\ MasterNumBlocks \in Nat /\ MasterNumBlocks > 2
      /\ FillBlock[w] \in 1..MasterNumBlocks
  BY ThreadFacts DEF IInv, RingTypes
<1>2. /\ NextFill(w) \in 1..MasterNumBlocks
      /\ NextFill(w) = IF full[w] THEN After(FillBlock[w]) ELSE FillBlock[w]
      /\ full[w] => NextFill(w) # FillBlock[w]
  BY <1>1 DEF NextFill, After
<1>3. <<w, NextFill(w)>> \in Blocks
  BY <1>1, <1>2 DEF Blocks
<1>4. /\ MasterBlockLock[<<w, NextFill(w)>>] \in {Free, w}
      /\ \A b \in Blocks : MasterBlockLock'[b] =
           IF b \in released \cup (IF full[w] THEN {<<w, FillBlock[w]>>} ELSE {}) THEN Free
           ELSE IF b = <<w, NextFill(w)>> THEN w ELSE MasterBlockLock[b]
      /\ FillBlock' = [FillBlock EXCEPT ![w] = NextFill(w)]
  BY <1>2 DEF PutToMaster, IsFree, Relock
<1>5. FillBlock'[w] = NextFill(w) /\ \A v \in Workers : v # w => FillBlock'[v] = FillBlock[v]
  BY <1>1, <1>4, ThreadFacts DEF IInv, RingTypes
<1>6. ASSUME NEW b \in Blocks, MasterBlockLock[b] \notin {Free, w}
      PROVE  MasterBlockLock'[b] = MasterBlockLock[b]
  <2>1. b # <<w, NextFill(w)>> /\ b # <<w, FillBlock[w]>>
    BY <1>4, <1>6
  <2>2. QED
    BY <1>4, <2>1
<1>7. ASSUME released = {} PROVE MasterBlockLock'[<<w, NextFill(w)>>] = w
  <2>1. <<w, NextFill(w)>> \notin (IF full[w] THEN {<<w, FillBlock[w]>>} ELSE {})
    BY <1>2
  <2>2. QED
    BY <1>3, <1>4, <1>7, <2>1
<1>8. QED
  BY <1>5, <1>6, <1>7

\* A worker: it only moves after the sortbots have taken their blocks, and takes none of them.
LEMMA WorkerStepKeeps ==
  ASSUME IInv, NEW w \in Workers, WorkerStep(w)
  PROVE  Kept
<1>0. /\ pc = [x \in Threads |-> pc[x]] /\ wakeup \in [SortBots -> Signals] /\ w \in Threads
      /\ w # Master /\ Master \in Threads /\ w \notin SortBots
  BY ThreadFacts DEF IInv, Types
<1>1. pc[w] \in {"claim", "claimed", "tellclaim", "write"} /\ ~Starting /\ ~Initialising
  BY DEF WorkerStep, WorkerClaims, ThreadClaimedBlock, TellClaimed, WorkerPuts, WorkerEnds,
         IInv, WorkersInStep
<1>2. /\ pc' = [x \in Threads |-> pc'[x]]
      /\ \A x \in Threads : x # w /\ x # Master => pc'[x] = pc[x]
      /\ pc'[w] \in WorkerPlaces
      /\ \/ pc'[Master] = pc[Master]
         \/ pc[Master] = "claimasleep" /\ pc'[Master] = "waitblocks"
  <2>1. CASE TellClaimed(w)
    <3>1. pc' = [pc EXCEPT ![w] = "write",
                           ![Master] = IF @ = "claimasleep" THEN "waitblocks" ELSE @]
      BY <2>1 DEF TellClaimed
    <3>2. pc' = [x \in Threads |-> pc'[x]]
      BY <1>0, <3>1
    <3>3. pc'[w] = "write" /\ \A x \in Threads : x # w /\ x # Master => pc'[x] = pc[x]
      BY <1>0, <3>1
    <3>4. pc'[Master] = IF pc[Master] = "claimasleep" THEN "waitblocks" ELSE pc[Master]
      BY <1>0, <3>1
    <3>5. QED
      BY <3>2, <3>3, <3>4 DEF WorkerPlaces
  <2>2. ASSUME Goto(w, pc'[w]), pc'[w] \in WorkerPlaces
        PROVE  /\ pc' = [x \in Threads |-> pc'[x]]
               /\ \A x \in Threads : x # w /\ x # Master => pc'[x] = pc[x]
               /\ pc'[Master] = pc[Master]
    <3>1. /\ pc' = [x \in Threads |-> pc'[x]]
          /\ \A x \in Threads : x # w => pc'[x] = pc[x]
      BY <1>0, <2>2, GotoFacts
    <3>2. QED
      BY <1>0, <3>1
  <2>3. CASE WorkerPuts(w)
    <3>1. pc' = pc
      BY <2>3 DEF WorkerPuts
    <3>2. QED
      BY <1>0, <1>1, <3>1 DEF WorkerPlaces
  <2>4. ASSUME WorkerClaims(w) \/ ThreadClaimedBlock(w) \/ WorkerEnds(w)
        PROVE  Goto(w, pc'[w]) /\ pc'[w] \in WorkerPlaces
    BY <1>0, <2>4 DEF WorkerClaims, ThreadClaimedBlock, WorkerEnds, Goto, WorkerPlaces
  <2>5. QED
    BY <2>1, <2>2, <2>3, <2>4 DEF WorkerStep
<1>3. UNCHANGED <<topsortbotavailables, wakeup, target, expressions>>
  BY DEF WorkerStep, WorkerClaims, ThreadClaimedBlock, TellClaimed, WorkerPuts, WorkerEnds,
         signals, job
<1>4. /\ Starting' = Starting /\ Initialising' = Initialising /\ Initialised' = Initialised
      /\ Merging' = Merging /\ Ending' = Ending
  BY <1>2 DEF Starting, Initialising, Initialised, Merging, Ending, AtMaster
<1>5. Job' = Job
  BY <1>4 DEF Job
<1>6. Called' = Called
  BY <1>2, <1>3, <1>5 DEF Called, AtMaster
<1>7. /\ \A t \in SortBots : pc'[t] = pc[t] /\ wakeup'[t] = wakeup[t]
      /\ \A v \in Workers : v # w => pc'[v] = pc[v]
  BY <1>0, <1>2, <1>3, ThreadFacts
<1>8. /\ SortBotsInStep' /\ CountIsRight'
      /\ \A t \in SortBots : IniBlocks(t)' = IniBlocks(t)
  BY <1>3, <1>5, <1>6, <1>7, SortBotsStay
<1>9. Types'
  <2>1. AtMaster' \in MasterPlaces /\ \A t \in SortBots : pc'[t] \in SortBotPlaces
    BY <1>2, <1>7 DEF IInv, Types, AtMaster, MasterPlaces
  <2>2. \A v \in Workers : pc'[v] \in WorkerPlaces
    BY <1>2, <1>7 DEF IInv, Types
  <2>3. /\ IF AtMaster' = "finish" THEN target \in NumberOfWorkers + 1..2 * NumberOfWorkers
           ELSE target \in SortBots
        /\ AtMaster' \notin {"ini", "run", "terminate", "finish"} => target = NumberOfWorkers + 1
        /\ AtMaster' = "done" => AtMaster = "done"
    BY <1>2 DEF IInv, Types, AtMaster
  <2>4. Initialising' \/ Initialised' \/ Merging' \/ AtMaster' = "done" => expressions < MaxExpressions
    BY <1>4, <2>3 DEF IInv, Types
  <2>5. expressions \in 0..MaxExpressions
    BY DEF IInv, Types
  <2>6. QED
    BY <1>0, <1>2, <1>3, <2>1, <2>2, <2>3, <2>4, <2>5 DEF Types
<1>10. ASSUME Initialised
       PROVE  /\ \A b \in Blocks : MasterBlockLock[b] \notin {Free, w} =>
                                   MasterBlockLock'[b] = MasterBlockLock[b]
              /\ \A v \in Workers : v # w => FillBlock'[v] = FillBlock[v]
              /\ pc'[w] \in {"claimed", "tellclaim", "write"} =>
                   MasterBlockLock'[<<w, FillBlock'[w]>>] = w
  <2>0. pc[w] \in {"claimed", "tellclaim", "write"} => MasterBlockLock[<<w, FillBlock[w]>>] = w
    BY <1>10 DEF IInv, WorkersInStep
  <2>1. CASE WorkerClaims(w)
    <3>1. FirstBlock(w) = <<w, 1>> /\ <<w, 1>> \in Blocks /\ w \in Streams
      BY ThreadFacts DEF FirstBlock, Blocks
    <3>2. /\ IsFree(<<w, 1>>) /\ FillBlock' = [FillBlock EXCEPT ![w] = 1]
          /\ MasterBlockLock' = [b \in Blocks |-> IF b = <<w, 1>> THEN w ELSE MasterBlockLock[b]]
      BY <2>1, <3>1 DEF WorkerClaims, Relock
    <3>3. FillBlock'[w] = 1 /\ \A v \in Workers : v # w => FillBlock'[v] = FillBlock[v]
      BY <3>1, <3>2, ThreadFacts DEF IInv, RingTypes
    <3>4. \A b \in Blocks : MasterBlockLock[b] \notin {Free, w} =>
                                   MasterBlockLock'[b] = MasterBlockLock[b]
      BY <3>1, <3>2 DEF IsFree
    <3>5. QED
      BY <3>1, <3>2, <3>3, <3>4
  <2>2. CASE ThreadClaimedBlock(w) \/ TellClaimed(w)
    <3>1. UNCHANGED <<MasterBlockLock, FillBlock>> /\ pc[w] \in {"claimed", "tellclaim"}
      BY <2>2 DEF ThreadClaimedBlock, TellClaimed, rings
    <3>2. QED
      BY <2>0, <3>1
  <2>3. CASE WorkerPuts(w)
    <3>1. pc[w] = "write" /\ PutToMaster(w, Head(todo[w]), {}, {})
      BY <2>3 DEF WorkerPuts
    <3>2. QED
      BY <2>0, <3>1, PutKeepsOthers
  <2>4. CASE WorkerEnds(w)
    <3>1. pc[w] = "write" /\ PutToMaster(w, End, {}, {<<w, NextFill(w)>>}) /\ pc'[w] = "idle"
      BY <1>0, <2>4 DEF WorkerEnds, Goto
    <3>2. QED
      BY <2>0, <3>1, PutKeepsOthers
  <2>5. QED
    BY <2>1, <2>2, <2>3, <2>4 DEF WorkerStep
<1>11. ClaimsHeld'
  <2>1. ~Initialising'
    BY <1>1, <1>4
  <2>2. ASSUME Initialised', NEW t \in SortBots, NEW b \in IniBlocks(t)'
        PROVE  MasterBlockLock'[b] = t
    <3>1. b \in IniBlocks(t) /\ b \in Blocks
      BY <1>8, <2>2, TreeFacts
    <3>2. MasterBlockLock[b] = t /\ t \notin {Free, w}
      BY <1>0, <1>4, <2>2, <3>1, ThreadFacts DEF IInv, ClaimsHeld
    <3>3. QED
      BY <1>4, <1>10, <2>2, <3>1, <3>2
  <2>3. QED
    BY <2>1, <2>2 DEF ClaimsHeld
<1>12. WorkersInStep'
  <2>1. ~Starting' /\ ~Initialising'
    BY <1>1, <1>4
  <2>2. ASSUME Initialised', NEW v \in Workers, pc'[v] \in {"claimed", "tellclaim", "write"}
        PROVE  MasterBlockLock'[<<v, FillBlock'[v]>>] = v
    <3>1. CASE v = w
      BY <1>4, <1>10, <2>2, <3>1
    <3>2. CASE v # w
      <4>1. MasterBlockLock[<<v, FillBlock[v]>>] = v /\ FillBlock'[v] = FillBlock[v]
        BY <1>4, <1>7, <1>10, <2>2, <3>2 DEF IInv, WorkersInStep
      <4>2. <<v, FillBlock[v]>> \in Blocks /\ v \notin {Free, w}
        BY <3>2, ThreadFacts DEF IInv, RingTypes, Blocks
      <4>3. QED
        BY <1>4, <1>10, <2>2, <4>1, <4>2
    <3>3. QED
      BY <3>1, <3>2
  <2>3. ASSUME AtMaster' = "finish", NEW v \in Workers, v >= target - NumberOfWorkers
        PROVE  pc'[v] = "idle"
    <3>1. AtMaster = "finish" /\ pc[v] = "idle"
      BY <1>2, <2>3 DEF AtMaster, IInv, WorkersInStep
    <3>2. QED
      BY <1>1, <1>7, <3>1
  <2>4. QED
    BY <1>3, <2>1, <2>2, <2>3 DEF WorkersInStep
<1>13. ClaimsCounted'
  <2>1. CASE ThreadClaimedBlock(w)
    <3>1. /\ pc[w] = "claimed" /\ pc'[w] \in {"tellclaim", "write"} /\ AtMaster' = AtMaster
          /\ numberclaimed' = numberclaimed + 1
      BY <1>0, <2>1 DEF ThreadClaimedBlock, Goto, AtMaster
    <3>2. ~(AtMaster \in {"last1", "last2", "waitini", "iniasleep"})
          /\ ~(AtMaster = "finish" /\ w >= target - NumberOfWorkers)
      BY <1>1, <3>1 DEF Initialising, IInv, WorkersInStep
    <3>3. Unclaimed' = Unclaimed \ {w} /\ w \in Unclaimed
      BY <1>3, <1>7, <3>1, <3>2 DEF Unclaimed
    <3>4. IsFiniteSet(Unclaimed)
      <4>1. Unclaimed \subseteq Workers
        BY DEF Unclaimed
      <4>2. QED
        BY <4>1, FS_Subset, Cardinalities
    <3>5. Cardinality(Unclaimed') = Cardinality(Unclaimed) - 1 /\ Cardinality(Unclaimed) \in Nat
      BY <3>3, <3>4, FS_RemoveElement, FS_CardinalityType
    <3>6. QED
      BY <3>1, <3>5, ThreadFacts DEF IInv, ClaimsCounted
  <2>2. CASE ~ThreadClaimedBlock(w)
    <3>1. numberclaimed' = numberclaimed
      BY <2>2 DEF WorkerStep, WorkerClaims, TellClaimed, WorkerPuts, WorkerEnds, signals
    <3>2. \/ pc[w] = "claim" /\ pc'[w] = "claimed"
          \/ pc'[w] \in {"write", "idle"}
      BY <1>0, <2>2 DEF WorkerStep, WorkerClaims, TellClaimed, WorkerPuts, WorkerEnds, Goto
    <3>3. AtMaster' \in {"last1", "last2", "waitini", "iniasleep", "finish"} => AtMaster' = AtMaster
      BY <1>2 DEF AtMaster
    <3>4. Unclaimed' \subseteq Unclaimed
      BY <1>3, <1>7, <3>2, <3>3 DEF Unclaimed
    <3>5. QED
      BY <3>1, <3>4, FewerUnclaimed
  <2>3. QED
    BY <2>1, <2>2
<1>14. QED
  BY <1>8, <1>9, <1>11, <1>12, <1>13 DEF Kept

-----------------------------------------------------------------------------
(* Steps of the master *)

\* The master goes to a place; the others stay where they are.
LEMMA MasterGoes ==
  ASSUME IInv, NEW place, Goto(Master, place)
  PROVE  /\ pc' = [x \in Threads |-> pc'[x]] /\ AtMaster' = place
         /\ \A t \in SortBots : pc'[t] = pc[t]
         /\ \A w \in Workers : pc'[w] = pc[w]
<1>1. pc = [x \in Threads |-> pc[x]] /\ Master \in Threads
  BY ThreadFacts DEF IInv, Types
<1>2. /\ pc' = [x \in Threads |-> pc'[x]] /\ pc'[Master] = place
      /\ \A x \in Threads : x # Master => pc'[x] = pc[x]
  BY <1>1, GotoFacts
<1>3. QED
  BY <1>2, ThreadFacts DEF AtMaster

LEMMA MasterTypes ==
  ASSUME IInv, NEW place \in MasterPlaces, Goto(Master, place),
         wakeup' \in [SortBots -> Signals],
         IF place = "finish" THEN target' \in NumberOfWorkers + 1..2 * NumberOfWorkers
         ELSE target' \in SortBots,
         place \notin {"ini", "run", "terminate", "finish"} => target' = NumberOfWorkers + 1,
         expressions' \in 0..MaxExpressions,
         place \in {"idle", "start", "startasleep", "terminate", "join", "ended"}
           \/ expressions' < MaxExpressions
  PROVE  Types'
<1>1. /\ pc' = [x \in Threads |-> pc'[x]] /\ AtMaster' = place
      /\ \A t \in SortBots : pc'[t] = pc[t]
      /\ \A w \in Workers : pc'[w] = pc[w]
  BY MasterGoes
<1>2. /\ \A t \in SortBots : pc'[t] \in SortBotPlaces
      /\ \A w \in Workers : pc'[w] \in WorkerPlaces
  BY <1>1 DEF IInv, Types
<1>3. Initialising' \/ Initialised' \/ Merging' \/ AtMaster' = "done" => expressions' < MaxExpressions
  BY <1>1 DEF Initialising, Initialised, Merging
<1>4. QED
  BY <1>1, <1>2, <1>3 DEF Types

\* All sortbots rest, and none is told to do anything yet.
LEMMA AllRest ==
  ASSUME IInv, \A t \in SortBots : AtRest(t) /\ pc'[t] = pc[t] /\ wakeup'[t] = wakeup[t],
         Called' = {}, topsortbotavailables' \in 0..numberofsortbots,
         Job' \in {"START", "INISORTBOT", "RUNSORTBOT"} => topsortbotavailables' = 0
  PROVE  SortBotsInStep' /\ CountIsRight'
<1>1. \A t \in SortBots : AtRest(t)'
  BY DEF AtRest
<1>2. SortBotsInStep'
  BY <1>1 DEF SortBotsInStep, InStep
<1>3. Finished' = {}
  BY DEF Finished
<1>4. QED
  BY <1>2, <1>3, FS_EmptySet DEF CountIsRight

\* When the counter has come to its limit every sortbot has finished.
LEMMA CountedAll ==
  ASSUME IInv, AllSortBots, Job \in {"START", "INISORTBOT", "RUNSORTBOT"}
  PROVE  \A t \in SortBots : AtRest(t) /\ t \in Called
<1>1. Finished \subseteq SortBots /\ Cardinality(Finished) >= Cardinality(SortBots)
      /\ IsFiniteSet(SortBots)
  <2>1. Finished \subseteq SortBots
    BY PhaseFacts DEF Finished
  <2>2. topsortbotavailables = Cardinality(Finished) /\ topsortbotavailables >= numberofsortbots
    BY DEF IInv, CountIsRight, AllSortBots
  <2>3. QED
    BY <2>1, <2>2, Cardinalities
<1>2. Cardinality(Finished) <= Cardinality(SortBots)
      /\ (Cardinality(Finished) = Cardinality(SortBots) => Finished = SortBots)
  BY <1>1, FS_Subset
<1>3. Cardinality(Finished) \in Nat /\ Cardinality(SortBots) \in Nat
  BY <1>1, FS_Subset, FS_CardinalityType
<1>4. Finished = SortBots
  BY <1>1, <1>2, <1>3
<1>5. QED
  BY <1>4 DEF Finished

\* Outside a job every sortbot rests.
LEMMA NoJobAllRest ==
  ASSUME IInv, Job = "none" PROVE \A t \in SortBots : AtRest(t)
BY PhaseFacts DEF IInv, SortBotsInStep, InStep

\* MasterWaitAllSortBots, before the workers start and after the merges.
LEMMA WaitKeeps ==
  ASSUME IInv, WaitForStart \/ WaitForIni \/ WaitForEnd
  PROVE  Kept
<1>1. /\ UNCHANGED <<topsortbotavailables, wakeup, numberclaimed, target, MasterBlockLock,
                     FillBlock, expressions>>
      /\ \/ AtMaster = "start" /\ ~AllSortBots /\ Goto(Master, "startasleep")
         \/ AtMaster = "start" /\ AllSortBots /\ Goto(Master, "idle")
         \/ AtMaster = "waitini" /\ ~AllSortBots /\ Goto(Master, "iniasleep")
         \/ AtMaster = "waitini" /\ AllSortBots /\ Goto(Master, "finish")
         \/ AtMaster = "waitend" /\ ~AllSortBots /\ Goto(Master, "endasleep")
         \/ AtMaster = "waitend" /\ AllSortBots /\ Goto(Master, "done")
  BY DEF WaitForStart, WaitForIni, WaitForEnd, MasterWaitAllSortBots, AtMaster, signals, rings, job
<1>2. PICK place \in {"startasleep", "idle", "iniasleep", "finish", "endasleep", "done"} :
        /\ Goto(Master, place)
        /\ \/ AtMaster = "start" /\ place = "startasleep"
           \/ AtMaster = "start" /\ AllSortBots /\ place = "idle"
           \/ AtMaster = "waitini" /\ place = "iniasleep"
           \/ AtMaster = "waitini" /\ AllSortBots /\ place = "finish"
           \/ AtMaster = "waitend" /\ place = "endasleep"
           \/ AtMaster = "waitend" /\ AllSortBots /\ place = "done"
  BY <1>1
<1>3. /\ AtMaster' = place /\ \A t \in SortBots : pc'[t] = pc[t] /\ wakeup'[t] = wakeup[t]
      /\ \A w \in Workers : pc'[w] = pc[w]
  BY <1>1, <1>2, MasterGoes
<1>4. Types'
  <2>1. /\ target = NumberOfWorkers + 1 /\ wakeup \in [SortBots -> Signals]
        /\ expressions \in 0..MaxExpressions
        /\ AtMaster # "start" => expressions < MaxExpressions
    BY <1>2 DEF IInv, Types, Initialising, Merging
  <2>2. place \in MasterPlaces
    BY <1>2 DEF MasterPlaces
  <2>3. target \in NumberOfWorkers + 1..2 * NumberOfWorkers /\ target \in SortBots
    BY <2>1, ThreadFacts
  <2>4. place \in {"idle", "start", "startasleep", "terminate", "join", "ended"}
           \/ expressions < MaxExpressions
    BY <1>2, <2>1
  <2>5. QED
    BY <1>1, <1>2, <2>1, <2>2, <2>3, <2>4, MasterTypes
<1>5. CASE place \in {"startasleep", "iniasleep", "endasleep"}
  <2>1. /\ Starting' = Starting /\ Initialising' = Initialising /\ Initialised' = Initialised
        /\ Merging' = Merging /\ Ending' = Ending
    BY <1>2, <1>3, <1>5 DEF Starting, Initialising, Initialised, Merging, Ending
  <2>2. Job' = Job
    BY <2>1 DEF Job
  <2>3. Called' = Called
    BY <1>1, <1>2, <1>3, <1>5, <2>2 DEF Called
  <2>4. /\ SortBotsInStep' /\ CountIsRight'
        /\ \A t \in SortBots : Claimed(t)' = Claimed(t) /\ IniBlocks(t)' = IniBlocks(t)
    BY <1>1, <1>3, <2>2, <2>3, SortBotsStay
  <2>5. ClaimsHeld'
    BY <1>1, <2>1, <2>3, <2>4, PhaseFacts DEF ClaimsHeld, IInv
  <2>6. WorkersInStep'
    BY <1>1, <1>3, <1>5, <2>1 DEF WorkersInStep, IInv
  <2>7. Unclaimed' = Unclaimed
    BY <1>1, <1>2, <1>3, <1>5 DEF Unclaimed
  <2>8. ClaimsCounted'
    BY <1>1, <2>7 DEF ClaimsCounted, IInv
  <2>9. QED
    BY <1>4, <2>4, <2>5, <2>6, <2>8 DEF Kept
<1>6. CASE place \in {"idle", "finish", "done"}
  <2>1. AllSortBots /\ Job \in {"START", "INISORTBOT", "RUNSORTBOT"}
        /\ (place = "finish" => AtMaster = "waitini" /\ Initialising /\ Job = "INISORTBOT")
    BY <1>2, <1>6, PhaseFacts DEF Starting, Initialising, Merging
  <2>2. \A t \in SortBots : AtRest(t) /\ t \in Called
    BY <2>1, CountedAll
  <2>3. ~Starting' /\ ~Initialising' /\ ~Merging' /\ ~Ending' /\ (Initialised' => place = "finish")
    BY <1>3, <1>6 DEF Starting, Initialising, Merging, Ending, Initialised
  <2>4. Job' = "none" /\ Called' = {}
    BY <1>3, <1>6, <2>3 DEF Job, Called
  <2>5. SortBotsInStep' /\ CountIsRight'
    BY <1>1, <1>3, <2>2, <2>4, AllRest DEF IInv, CountIsRight
  <2>6. ClaimsHeld'
    <3>1. ASSUME Initialised', NEW t \in SortBots, NEW b \in IniBlocks(t)'
          PROVE  MasterBlockLock'[b] = t
      <4>1. Initialising /\ t \in Called /\ AtRest(t) /\ pc[t] \in {"tell", "wait"}
        BY <2>1, <2>2, <2>3, <3>1 DEF AtRest
      <4>2. Claimed(t) = IniBlocks(t)
        BY <4>1 DEF Claimed
      <4>3. b \in IniBlocks(t)
        BY <3>1 DEF IniBlocks, FirstBlock, LastBlock, SortBotIn
      <4>4. MasterBlockLock[b] = t
        BY <4>1, <4>2, <4>3 DEF IInv, ClaimsHeld
      <4>5. QED
        BY <1>1, <4>4
    <3>2. QED
      BY <2>3, <3>1 DEF ClaimsHeld
  <2>7. WorkersInStep'
    <3>1. place = "finish" => \A w \in Workers : pc'[w] = "idle"
      BY <1>3, <2>1 DEF IInv, WorkersInStep
    <3>2. QED
      BY <1>3, <1>6, <2>3, <3>1 DEF WorkersInStep
  <2>8. Unclaimed' \subseteq Unclaimed
    <3>1. Unclaimed' \subseteq {w \in Workers : pc[w] \in {"claim", "claimed"} \/ place = "finish"}
      BY <1>1, <1>3, <1>6 DEF Unclaimed
    <3>2. place = "finish" => Unclaimed = Workers
      BY <2>1 DEF Unclaimed
    <3>3. QED
      BY <3>1, <3>2 DEF Unclaimed
  <2>9. ClaimsCounted'
    BY <1>1, <2>8, FewerUnclaimed
  <2>10. QED
    BY <1>4, <2>5, <2>6, <2>7, <2>9 DEF Kept
<1>7. QED
  BY <1>5, <1>6

\* The master's own merge stays within its phase.
LEMMA MasterMergeKeeps ==
  ASSUME IInv, MergeStep(Master)
  PROVE  Kept
<1>1. /\ AtMaster \in {"in1", "in2", "merge", "next1", "next2", "next12"}
      /\ \E place \in {"in2", "merge", "next1", "next2", "next12", "waitend"} : Goto(Master, place)
      /\ UNCHANGED <<topsortbotavailables, wakeup, numberclaimed, target, expressions>>
  BY DEF MergeStep, StartMerge, StartMergeIn2, OneIsSmallest, TwoIsSmallest, Equal,
     EqualTerms, Cancelled, NextOfOne, NextOfTwo, NextOfBoth, Advance, EndMerge, signals, job, AtMaster
<1>2. PICK place \in {"in2", "merge", "next1", "next2", "next12", "waitend"} : Goto(Master, place)
  BY <1>1
<1>3. /\ AtMaster' = place /\ \A t \in SortBots : pc'[t] = pc[t] /\ wakeup'[t] = wakeup[t]
      /\ \A w \in Workers : pc'[w] = pc[w]
  BY <1>1, <1>2, MasterGoes
<1>4. /\ Merging /\ Merging' /\ ~Starting' /\ ~Initialising' /\ ~Initialised'
  BY <1>1, <1>3 DEF Merging, Starting, Initialising, Initialised
<1>5. Job' = "RUNSORTBOT" /\ Job = "RUNSORTBOT"
  BY <1>4 DEF Job, Starting, Initialising, Merging
<1>6. Called' = SortBots /\ Called = SortBots
  BY <1>1, <1>3, <1>5 DEF Called
<1>7. SortBotsInStep' /\ CountIsRight'
  BY <1>1, <1>3, <1>5, <1>6, SortBotsStay
<1>8. ClaimsHeld' /\ WorkersInStep'
  BY <1>3, <1>4 DEF ClaimsHeld, WorkersInStep
<1>9. Unclaimed' \subseteq Unclaimed
  BY <1>3 DEF Unclaimed
<1>10. Types'
  <2>1. /\ target = NumberOfWorkers + 1 /\ wakeup \in [SortBots -> Signals]
        /\ expressions \in 0..MaxExpressions /\ expressions < MaxExpressions
    BY <1>1, <1>4 DEF IInv, Types
  <2>2. place \in MasterPlaces /\ place # "finish"
    BY DEF MasterPlaces
  <2>3. QED
    BY <1>1, <1>2, <2>1, <2>2, ThreadFacts, MasterTypes
<1>11. QED
  BY <1>1, <1>7, <1>8, <1>9, <1>10, FewerUnclaimed DEF Kept

\* The master locks the last blocks of its own inputs; the counter of the claims is reset.
LEMMA MasterClaimsKeep ==
  ASSUME IInv, ZeroClaimed \/ MasterClaimsLastOfIn1 \/ MasterClaimsLastOfIn2
  PROVE  Kept
<1>1. /\ UNCHANGED <<topsortbotavailables, wakeup, target, FillBlock, expressions>>
      /\ \/ AtMaster = "zeroclaimed" /\ Goto(Master, "last1")
         \/ AtMaster = "last1" /\ Goto(Master, "last2")
         \/ AtMaster = "last2" /\ Goto(Master, "waitini")
  BY DEF ZeroClaimed, MasterClaimsLastOfIn1, MasterClaimsLastOfIn2, ClaimLastBlock, AtMaster,
         signals, rings, job
<1>2. PICK place \in {"last1", "last2", "waitini"} : Goto(Master, place)
  BY <1>1
<1>3. /\ AtMaster' = place /\ \A t \in SortBots : pc'[t] = pc[t] /\ wakeup'[t] = wakeup[t]
      /\ \A w \in Workers : pc'[w] = pc[w]
  BY <1>1, <1>2, MasterGoes
<1>4. /\ Initialising /\ Initialising' /\ ~Starting' /\ ~Initialised'
  BY <1>1, <1>3 DEF Starting, Initialising, Initialised
<1>5. Job' = "INISORTBOT" /\ Job = "INISORTBOT"
  BY <1>4 DEF Job, Starting, Initialising
<1>6. Called' = SortBots /\ Called = SortBots
  BY <1>1, <1>3, <1>5 DEF Called
<1>7. /\ SortBotsInStep' /\ CountIsRight'
      /\ \A t \in SortBots : Claimed(t)' = Claimed(t) /\ IniBlocks(t)' = IniBlocks(t)
  BY <1>1, <1>3, <1>5, <1>6, SortBotsStay
<1>8. ASSUME NEW b \in Blocks, MasterBlockLock[b] # Free PROVE MasterBlockLock'[b] = MasterBlockLock[b]
  <2>1. CASE ZeroClaimed
    BY <2>1 DEF ZeroClaimed, rings
  <2>2. CASE MasterClaimsLastOfIn1 \/ MasterClaimsLastOfIn2
    BY <1>8, <2>2 DEF MasterClaimsLastOfIn1, MasterClaimsLastOfIn2, ClaimLastBlock, Relock, IsFree
  <2>3. QED
    BY <2>1, <2>2
<1>9. ClaimsHeld'
  <2>1. ASSUME NEW t \in SortBots, NEW b \in Claimed(t)' PROVE MasterBlockLock'[b] = t
    <3>1. b \in Claimed(t)
      BY <1>7, <2>1
    <3>2. MasterBlockLock[b] = t
      BY <1>4, <1>6, <3>1 DEF IInv, ClaimsHeld
    <3>3. b \in IniBlocks(t)
      BY <3>1 DEF Claimed, IniBlocks
    <3>4. b \in Blocks
      BY <3>3, TreeFacts
    <3>5. t # Free
      BY ThreadFacts
    <3>6. QED
      BY <1>8, <3>2, <3>4, <3>5
  <2>2. QED
    BY <1>4, <1>6, <2>1 DEF ClaimsHeld
<1>10. \A w \in Workers : pc[w] = "idle" /\ pc'[w] = "idle"
  BY <1>3, <1>4 DEF IInv, WorkersInStep
<1>11. WorkersInStep'
  BY <1>3, <1>4, <1>10 DEF WorkersInStep
<1>12. ClaimsCounted'
  <2>1. CASE ZeroClaimed
    <3>1. numberclaimed' = 0
      BY <2>1 DEF ZeroClaimed
    <3>2. Unclaimed' \subseteq Workers
      BY DEF Unclaimed
    <3>3. Cardinality(Unclaimed') <= NumberOfWorkers /\ Cardinality(Unclaimed') \in Nat
      BY <3>2, FS_Subset, FS_CardinalityType, Cardinalities
    <3>4. QED
      BY <3>1, <3>3, ThreadFacts DEF ClaimsCounted
  <2>2. CASE MasterClaimsLastOfIn1 \/ MasterClaimsLastOfIn2
    <3>1. AtMaster \in {"last1", "last2"} /\ numberclaimed' = numberclaimed
      BY <2>2 DEF MasterClaimsLastOfIn1, MasterClaimsLastOfIn2, ClaimLastBlock, AtMaster, signals
    <3>2. Unclaimed' \subseteq Unclaimed
      BY <3>1 DEF Unclaimed
    <3>3. QED
      BY <3>1, <3>2, FewerUnclaimed
  <2>3. QED
    BY <2>1, <2>2
<1>13. Types'
  <2>1. /\ target = NumberOfWorkers + 1 /\ wakeup \in [SortBots -> Signals]
        /\ expressions \in 0..MaxExpressions /\ expressions < MaxExpressions
    BY <1>1, <1>4 DEF IInv, Types
  <2>2. place \in MasterPlaces /\ place # "finish"
    BY DEF MasterPlaces
  <2>3. QED
    BY <1>1, <1>2, <2>1, <2>2, ThreadFacts, MasterTypes
<1>14. QED
  BY <1>7, <1>9, <1>11, <1>12, <1>13 DEF Kept

\* Between the jobs.
LEMMA BetweenJobsKeeps ==
  ASSUME IInv, EndSortBotMasterMerge \/ BeginTerminate \/ BeginSortBotMasterMerge
  PROVE  Kept
<1>1. /\ UNCHANGED <<wakeup, numberclaimed, target>>
      /\ topsortbotavailables' \in {0, topsortbotavailables}
      /\ \/ /\ AtMaster = "done" /\ Goto(Master, "idle") /\ expressions' = expressions + 1
         \/ /\ AtMaster = "idle" /\ Goto(Master, "terminate") /\ expressions' = expressions
         \/ /\ AtMaster = "idle" /\ Goto(Master, "ini") /\ topsortbotavailables' = 0
            /\ expressions' = expressions /\ expressions < MaxExpressions
            /\ \A w \in Workers : pc[w] = "idle"
  BY DEF EndSortBotMasterMerge, BeginTerminate, BeginSortBotMasterMerge, AtMaster, signals, job,
         NoneAvailable
<1>2. PICK place \in {"idle", "terminate", "ini"} :
        /\ Goto(Master, place)
        /\ \/ AtMaster = "done" /\ place = "idle" /\ expressions' = expressions + 1
           \/ AtMaster = "idle" /\ place = "terminate" /\ expressions' = expressions
           \/ /\ AtMaster = "idle" /\ place = "ini" /\ topsortbotavailables' = 0
              /\ expressions' = expressions /\ expressions < MaxExpressions
              /\ \A w \in Workers : pc[w] = "idle"
  BY <1>1
<1>3. /\ AtMaster' = place /\ \A t \in SortBots : pc'[t] = pc[t] /\ wakeup'[t] = wakeup[t]
      /\ \A w \in Workers : pc'[w] = pc[w]
  BY <1>1, <1>2, MasterGoes
<1>4. Job = "none"
  BY <1>2 DEF Job, Starting, Initialising, Merging, Ending
<1>5. Job' \in {"none", "TERMINATETHREAD", "INISORTBOT"} /\ ~Starting' /\ ~Initialised'
      /\ (Job' = "INISORTBOT" => place = "ini") /\ (place = "idle" => Job' = "none")
      /\ (Initialising' => place = "ini")
  BY <1>3 DEF Job, Starting, Initialising, Initialised, Merging, Ending
<1>6. target = NumberOfWorkers + 1 /\ \A t \in SortBots : ~(t < NumberOfWorkers + 1)
  BY <1>2, ThreadFacts DEF IInv, Types
<1>7. Called' = {}
  BY <1>1, <1>3, <1>5, <1>6 DEF Called
<1>8. topsortbotavailables' \in 0..numberofsortbots
  BY <1>1, Cardinalities DEF IInv, CountIsRight
<1>9. SortBotsInStep' /\ CountIsRight'
  BY <1>2, <1>3, <1>4, <1>5, <1>7, <1>8, NoJobAllRest, AllRest
<1>10. ClaimsHeld'
  BY <1>5, <1>7 DEF ClaimsHeld
<1>11. WorkersInStep'
  BY <1>2, <1>3, <1>5 DEF WorkersInStep
<1>12. Unclaimed' \subseteq Unclaimed
  BY <1>3 DEF Unclaimed
<1>13. Types'
  <2>1. /\ wakeup \in [SortBots -> Signals] /\ expressions \in 0..MaxExpressions
        /\ (AtMaster = "done" => expressions < MaxExpressions)
    BY DEF IInv, Types
  <2>2. expressions' \in 0..MaxExpressions
        /\ (place \in {"idle", "start", "startasleep", "terminate", "join", "ended"}
              \/ expressions' < MaxExpressions)
    BY <1>2, <2>1, ThreadFacts
  <2>3. place \in MasterPlaces /\ place # "finish"
    BY DEF MasterPlaces
  <2>4. target' = NumberOfWorkers + 1 /\ target' \in SortBots /\ wakeup' \in [SortBots -> Signals]
    BY <1>1, <1>6, <2>1, ThreadFacts
  <2>5. QED
    BY <1>2, <2>2, <2>3, <2>4, MasterTypes
<1>14. QED
  BY <1>1, <1>9, <1>10, <1>11, <1>12, <1>13, FewerUnclaimed DEF Kept

\* The workers are sent off one after the other.
SendsFinish(w) ==
  /\ w \in Workers /\ w \in Threads /\ w # Master /\ w \notin SortBots
  /\ w = target - NumberOfWorkers /\ AtMaster = "finish" /\ Initialised
  /\ target \in NumberOfWorkers + 1..2 * NumberOfWorkers
  /\ pc' = [x \in Threads |-> pc'[x]] /\ pc'[w] = "claim"
  /\ AtMaster' = IF w = NumberOfWorkers THEN "waitblocks" ELSE "finish"
  /\ target' = IF w = NumberOfWorkers THEN NumberOfWorkers + 1 ELSE target + 1
  /\ \A x \in Threads : x # w /\ x # Master => pc'[x] = pc[x]
  /\ UNCHANGED <<topsortbotavailables, wakeup, numberclaimed, rings, todo, job>>

LEMMA SendFinishEffect ==
  ASSUME IInv, SendFinishExpression
  PROVE  \E w \in Workers : SendsFinish(w)
<1> DEFINE w == target - NumberOfWorkers
<1>0. /\ pc = [x \in Threads |-> pc[x]] /\ Master \in Threads
      /\ AtMaster = "finish" /\ Initialised
      /\ target \in NumberOfWorkers + 1..2 * NumberOfWorkers
  BY ThreadFacts DEF IInv, Types, SendFinishExpression, AtMaster, Initialised
<1>1. w \in Workers /\ w \in Threads /\ w # Master /\ w \notin SortBots
  BY <1>0, ThreadFacts DEF Workers, Master
<1>2. /\ pc' = [x \in Threads |-> pc'[x]] /\ pc'[w] = "claim"
      /\ AtMaster' = IF w = NumberOfWorkers THEN "waitblocks" ELSE "finish"
      /\ target' = IF w = NumberOfWorkers THEN NumberOfWorkers + 1 ELSE target + 1
      /\ \A x \in Threads : x # w /\ x # Master => pc'[x] = pc[x]
  <2>1. CASE w = NumberOfWorkers
    <3>1. /\ pc' = [pc EXCEPT ![w] = "claim", ![Master] = "waitblocks"]
          /\ target' = NumberOfWorkers + 1
      BY <2>1 DEF SendFinishExpression
    <3> HIDE DEF w
    <3>2. pc'[w] = "claim" /\ pc'[Master] = "waitblocks"
      BY <1>0, <1>1, <3>1
    <3>3. pc' = [x \in Threads |-> pc'[x]]
      BY <1>0, <3>1
    <3>4. \A x \in Threads : x # w /\ x # Master => pc'[x] = pc[x]
      BY <1>0, <3>1
    <3>5. QED
      BY <2>1, <3>1, <3>2, <3>3, <3>4 DEF AtMaster
  <2>2. CASE w # NumberOfWorkers
    <3>1. pc' = [pc EXCEPT ![w] = "claim"] /\ target' = target + 1
      BY <2>2 DEF SendFinishExpression
    <3> HIDE DEF w
    <3>2. /\ pc' = [x \in Threads |-> pc'[x]] /\ pc'[w] = "claim"
          /\ \A x \in Threads : x # w => pc'[x] = pc[x]
      BY <1>0, <1>1, <3>1
    <3>3. QED
      BY <1>0, <1>1, <2>2, <3>1, <3>2 DEF AtMaster
  <2>3. QED
    BY <2>1, <2>2
<1>3. UNCHANGED <<topsortbotavailables, wakeup, numberclaimed, rings, todo, job>>
  BY DEF SendFinishExpression
<1>4. SendsFinish(w)
  BY <1>0, <1>1, <1>2, <1>3 DEF SendsFinish
<1>5. QED
  BY <1>1, <1>4

LEMMA SendFinishKeeps ==
  ASSUME IInv, SendFinishExpression
  PROVE  Kept
<1>0. PICK w \in Workers : SendsFinish(w)
  BY SendFinishEffect
<1>1. /\ AtMaster = "finish" /\ Initialised /\ w = target - NumberOfWorkers
      /\ target \in NumberOfWorkers + 1..2 * NumberOfWorkers
  BY <1>0 DEF SendsFinish
<1>2. w \in Workers /\ w \in Threads /\ w # Master /\ w \notin SortBots
  BY <1>0 DEF SendsFinish
<1>3. /\ pc' = [x \in Threads |-> pc'[x]] /\ pc'[w] = "claim"
      /\ AtMaster' = IF w = NumberOfWorkers THEN "waitblocks" ELSE "finish"
      /\ target' = IF w = NumberOfWorkers THEN NumberOfWorkers + 1 ELSE target + 1
      /\ \A x \in Threads : x # w /\ x # Master => pc'[x] = pc[x]
  BY <1>0 DEF SendsFinish
<1>4. UNCHANGED <<topsortbotavailables, wakeup, numberclaimed, MasterBlockLock, FillBlock, expressions>>
  BY <1>0 DEF SendsFinish, rings, job
<1>5. /\ \A t \in SortBots : pc'[t] = pc[t] /\ wakeup'[t] = wakeup[t]
      /\ \A v \in Workers : v # w => pc'[v] = pc[v]
  BY <1>2, <1>3, <1>4, ThreadFacts
<1>6. Initialised' /\ ~Starting' /\ ~Initialising' /\ Job' = "none" /\ Job = "none"
      /\ Called' = {} /\ Called = {} /\ ~Merging' /\ AtMaster' # "done"
  BY <1>1, <1>3 DEF Starting, Initialising, Initialised, Merging, Ending, Job, Called
<1>7. /\ SortBotsInStep' /\ CountIsRight' /\ \A t \in SortBots : IniBlocks(t)' = IniBlocks(t)
  BY <1>4, <1>5, <1>6, SortBotsStay
<1>8. ClaimsHeld'
  BY <1>1, <1>4, <1>6, <1>7 DEF ClaimsHeld, IInv
<1>9. WorkersInStep'
  <2>1. ASSUME AtMaster' = "finish", NEW v \in Workers, v >= target' - NumberOfWorkers
        PROVE  pc'[v] = "idle"
    <3>1. v \in Nat /\ v >= target + 1 - NumberOfWorkers /\ v # w /\ v >= w
      BY <1>1, <1>3, <2>1, ThreadFacts DEF Workers
    <3>2. QED
      BY <1>1, <1>5, <3>1 DEF IInv, WorkersInStep
  <2>2. ASSUME NEW v \in Workers, pc'[v] \in {"claimed", "tellclaim", "write"}
        PROVE  MasterBlockLock'[<<v, FillBlock'[v]>>] = v
    <3>1. v # w /\ pc'[v] = pc[v]
      BY <1>3, <1>5, <2>2
    <3>2. QED
      BY <1>1, <1>4, <2>2, <3>1 DEF IInv, WorkersInStep
  <2>3. QED
    BY <1>6, <2>1, <2>2 DEF WorkersInStep
<1>10. ClaimsCounted'
  <2>1. w \in Unclaimed
    <3>1. w >= target - NumberOfWorkers
      BY <1>1, ThreadFacts
    <3>2. QED
      BY <1>1, <1>2, <3>1 DEF Unclaimed
  <2>2. ASSUME NEW v \in Unclaimed', v # w PROVE v \in Unclaimed
    <3>1. v \in Workers /\ pc'[v] = pc[v]
      BY <1>5, <2>2 DEF Unclaimed
    <3>2. CASE pc[v] \in {"claim", "claimed"}
      BY <3>1, <3>2 DEF Unclaimed
    <3>3. CASE AtMaster' = "finish" /\ v >= target' - NumberOfWorkers
      <4>1. v \in Nat /\ v >= w
        BY <1>1, <1>3, <3>1, <3>3, ThreadFacts DEF Workers
      <4>2. QED
        BY <1>1, <3>1, <4>1 DEF Unclaimed
    <3>4. QED
      BY <1>3, <2>2, <3>1, <3>2, <3>3 DEF Unclaimed
  <2>3. Unclaimed' \subseteq Unclaimed
    BY <2>1, <2>2
  <2>4. QED
    BY <1>4, <2>3, FewerUnclaimed
<1>11. Types'
  <2>1. AtMaster' \in MasterPlaces
    BY <1>3 DEF MasterPlaces
  <2>2. \A t \in SortBots : pc'[t] \in SortBotPlaces
    BY <1>5 DEF IInv, Types
  <2>3. \A v \in Workers : pc'[v] \in WorkerPlaces
    BY <1>3, <1>5 DEF IInv, Types, WorkerPlaces
  <2>4. /\ IF AtMaster' = "finish" THEN target' \in NumberOfWorkers + 1..2 * NumberOfWorkers
           ELSE target' \in SortBots
        /\ AtMaster' \notin {"ini", "run", "terminate", "finish"} => target' = NumberOfWorkers + 1
    BY <1>1, <1>3, ThreadFacts
  <2>5. /\ expressions \in 0..MaxExpressions /\ expressions < MaxExpressions
        /\ wakeup \in [SortBots -> Signals]
    BY <1>1 DEF IInv, Types
  <2>6. QED
    BY <1>3, <1>4, <2>1, <2>2, <2>3, <2>4, <2>5 DEF Types
<1>12. QED
  BY <1>7, <1>8, <1>9, <1>10, <1>11 DEF Kept

\* The sortbots are told to run when all workers have claimed a block.
LEMMA WaitBlocksKeeps ==
  ASSUME IInv, MasterWaitAllBlocks
  PROVE  Kept
<1>1. /\ UNCHANGED <<wakeup, numberclaimed, target, MasterBlockLock, FillBlock, expressions>>
      /\ AtMaster = "waitblocks"
      /\ \/ Goto(Master, "run") /\ topsortbotavailables' = 0
         \/ Goto(Master, "claimasleep") /\ topsortbotavailables' = topsortbotavailables
  BY DEF MasterWaitAllBlocks, AtMaster, rings, job, NoneAvailable
<1>2. PICK place \in {"run", "claimasleep"} :
        /\ Goto(Master, place)
        /\ topsortbotavailables' = IF place = "run" THEN 0 ELSE topsortbotavailables
  BY <1>1
<1>3. /\ AtMaster' = place /\ \A t \in SortBots : pc'[t] = pc[t] /\ wakeup'[t] = wakeup[t]
      /\ \A w \in Workers : pc'[w] = pc[w]
  BY <1>1, <1>2, MasterGoes
<1>4. Initialised /\ Job = "none" /\ ~Starting' /\ ~Initialising'
      /\ (Initialised' => place = "claimasleep") /\ target = NumberOfWorkers + 1
      /\ Job' \in {"none", "RUNSORTBOT"} /\ (Job' = "RUNSORTBOT" => place = "run")
  BY <1>1, <1>3 DEF Starting, Initialising, Initialised, Merging, Ending, Job, IInv, Types
<1>5. Called' = {}
  <2>1. \A t \in SortBots : ~(t < NumberOfWorkers + 1)
    BY ThreadFacts
  <2>2. place = "claimasleep" => Job' = "none"
    BY <1>4
  <2>3. QED
    BY <1>1, <1>3, <1>4, <2>1, <2>2 DEF Called
<1>6. topsortbotavailables' \in 0..numberofsortbots
  BY <1>2, Cardinalities DEF IInv, CountIsRight
<1>7. SortBotsInStep' /\ CountIsRight'
  BY <1>2, <1>3, <1>4, <1>5, <1>6, NoJobAllRest, AllRest
<1>8. ClaimsHeld'
  <2>1. \A t \in SortBots : IniBlocks(t)' = IniBlocks(t)
    BY DEF IniBlocks, FirstBlock, LastBlock, SortBotIn
  <2>2. QED
    BY <1>1, <1>4, <2>1 DEF ClaimsHeld, IInv
<1>9. WorkersInStep'
  BY <1>1, <1>3, <1>4 DEF WorkersInStep, IInv
<1>10. Unclaimed' \subseteq Unclaimed
  BY <1>3 DEF Unclaimed
<1>11. Types'
  <2>1. /\ wakeup \in [SortBots -> Signals] /\ expressions \in 0..MaxExpressions
        /\ expressions < MaxExpressions
    BY <1>4 DEF IInv, Types
  <2>2. place \in MasterPlaces /\ place # "finish"
    BY DEF MasterPlaces
  <2>3. QED
    BY <1>1, <1>2, <1>4, <2>1, <2>2, ThreadFacts, MasterTypes
<1>12. QED
  BY <1>1, <1>7, <1>8, <1>9, <1>10, <1>11, FewerUnclaimed DEF Kept

\* WakeupThread for a sortbot that waits for it.
Wakes(t, signal, next) ==
  /\ t = target /\ AtRest(t) /\ pc[t] = "wait" /\ t \notin Called /\ Called' = Called \cup {t}
  /\ wakeup' \in [SortBots -> Signals] /\ wakeup'[t] = signal
  /\ \A x \in SortBots : x # t => wakeup'[x] = wakeup[x]
  /\ \/ AtMaster = "ini" /\ next \in {"ini", "zeroclaimed"} /\ signal = "INISORTBOT"
     \/ AtMaster = "run" /\ next \in {"run", "in1"} /\ signal = "RUNSORTBOT"
     \/ AtMaster = "terminate" /\ next \in {"terminate", "join"} /\ signal = "TERMINATETHREAD"
  /\ IF next = AtMaster THEN target # 2 * NumberOfWorkers - 2 /\ target' = target + 1
     ELSE target' = NumberOfWorkers + 1
  /\ Goto(Master, next) /\ AtMaster' = next
  /\ \A x \in SortBots : pc'[x] = pc[x]
  /\ \A w \in Workers : pc'[w] = pc[w]
  /\ Job = signal /\ Job' = signal /\ ~Starting' /\ ~Initialised' /\ ~Starting /\ ~Initialised
  /\ Initialising' = Initialising
  /\ UNCHANGED <<topsortbotavailables, numberclaimed, rings, todo, job>>

LEMMA WakeEffect ==
  ASSUME IInv, SendIniSortBot \/ SendRunSortBot \/ SendTerminate
  PROVE  \E t \in SortBots : \E signal, next : Wakes(t, signal, next)
<1>1. PICK place, signal, after :
        /\ \/ place = "ini" /\ signal = "INISORTBOT" /\ after = "zeroclaimed"
           \/ place = "run" /\ signal = "RUNSORTBOT" /\ after = "in1"
           \/ place = "terminate" /\ signal = "TERMINATETHREAD" /\ after = "join"
        /\ WakeSortBot(place, signal, after)
  BY DEF SendIniSortBot, SendRunSortBot, SendTerminate
<1>2. /\ AtMaster = place /\ pc[target] # "tell" /\ wakeup' = [wakeup EXCEPT ![target] = signal]
      /\ UNCHANGED <<topsortbotavailables, numberclaimed, rings, todo, job>>
      /\ \/ /\ target = 2 * NumberOfWorkers - 2 /\ target' = NumberOfWorkers + 1
            /\ Goto(Master, after)
         \/ target # 2 * NumberOfWorkers - 2 /\ target' = target + 1 /\ Goto(Master, place)
  <2>1. UNCHANGED pc => Goto(Master, pc[Master])
    BY ThreadFacts DEF Goto, IInv, Types
  <2>2. QED
    BY <1>1, <2>1 DEF WakeSortBot, AtMaster
<1>3. target \in SortBots /\ wakeup \in [SortBots -> Signals]
  BY <1>1, <1>2 DEF IInv, Types
<1>4. PICK next : /\ Goto(Master, next)
                  /\ \/ /\ target = 2 * NumberOfWorkers - 2 /\ target' = NumberOfWorkers + 1
                        /\ next = after
                     \/ /\ target # 2 * NumberOfWorkers - 2 /\ target' = target + 1
                        /\ next = place
  BY <1>2
<1>5. /\ AtMaster' = next
      /\ \A t \in SortBots : pc'[t] = pc[t]
      /\ \A w \in Workers : pc'[w] = pc[w]
  BY <1>4, MasterGoes
<1>6. /\ Job = signal /\ Job' = signal /\ ~Starting' /\ ~Initialised' /\ ~Starting /\ ~Initialised
      /\ Initialising' = Initialising
  BY <1>1, <1>2, <1>4, <1>5 DEF Starting, Initialising, Initialised, Merging, Ending, Job
<1>7. Called = {t \in SortBots : t < target}
  BY <1>1, <1>2 DEF Called
<1>8. Called' = Called \cup {target} /\ target \notin Called
  <2>1. CASE next = after
    <3>1. Called' = SortBots
      BY <1>1, <1>5, <1>6, <2>1 DEF Called
    <3>2. target = 2 * NumberOfWorkers - 2
      BY <1>1, <1>4, <2>1
    <3>3. \A t \in SortBots : t < target \/ t = target
      BY <3>2, ThreadFacts
    <3>4. ~(target < target)
      BY <1>3, ThreadFacts
    <3>5. QED
      BY <1>3, <1>7, <3>1, <3>3, <3>4
  <2>2. CASE next = place
    <3>1. target' = target + 1
      BY <1>1, <1>4, <2>2
    <3>2. Called' = {t \in SortBots : t < target + 1}
      BY <1>1, <1>5, <2>2, <3>1 DEF Called
    <3>3. \A t \in SortBots : t < target + 1 <=> t < target \/ t = target
      BY <1>3, ThreadFacts
    <3>4. ~(target < target)
      BY <1>3, ThreadFacts
    <3>5. QED
      BY <1>3, <1>7, <3>2, <3>3, <3>4
  <2>3. QED
    BY <1>4, <2>1, <2>2
<1>9. PICK t \in SortBots : t = target
  BY <1>3
<1>10. /\ AtRest(t) /\ pc[t] = "wait" /\ t \notin Called /\ Called' = Called \cup {t}
       /\ t \in Called'
  <2>1. t \notin Called /\ Called' = Called \cup {t}
    BY <1>8, <1>9
  <2>2. AtRest(t)
    BY <2>1 DEF IInv, SortBotsInStep, InStep
  <2>3. QED
    BY <1>2, <1>9, <2>1, <2>2 DEF AtRest
<1>11. /\ wakeup' \in [SortBots -> Signals] /\ wakeup'[t] = signal
       /\ \A x \in SortBots : x # t => wakeup'[x] = wakeup[x]
  <2>1. signal \in Signals
    BY <1>1 DEF Signals
  <2>2. QED
    BY <1>2, <1>3, <1>9, <2>1
<1>12. place = AtMaster /\ (next = AtMaster \/ (next = after /\ next # AtMaster))
  BY <1>1, <1>2, <1>4
<1>13. Wakes(t, signal, next)
  <2>1. IF next = AtMaster THEN target # 2 * NumberOfWorkers - 2 /\ target' = target + 1
        ELSE target' = NumberOfWorkers + 1
    BY <1>1, <1>4, <1>12
  <2>2. \/ AtMaster = "ini" /\ next \in {"ini", "zeroclaimed"} /\ signal = "INISORTBOT"
        \/ AtMaster = "run" /\ next \in {"run", "in1"} /\ signal = "RUNSORTBOT"
        \/ AtMaster = "terminate" /\ next \in {"terminate", "join"} /\ signal = "TERMINATETHREAD"
    BY <1>1, <1>12
  <2>3. QED
    BY <1>2, <1>4, <1>5, <1>6, <1>9, <1>10, <1>11, <2>1, <2>2 DEF Wakes
<1>14. QED
  BY <1>13

LEMMA WakeKeeps ==
  ASSUME IInv, SendIniSortBot \/ SendRunSortBot \/ SendTerminate
  PROVE  Kept
<1>1. PICK t \in SortBots : \E signal, next : Wakes(t, signal, next)
  BY WakeEffect
<1>2. PICK signal, next : Wakes(t, signal, next)
  BY <1>1
<1>3. /\ t = target /\ AtRest(t) /\ pc[t] = "wait" /\ t \notin Called /\ Called' = Called \cup {t}
      /\ wakeup' \in [SortBots -> Signals] /\ wakeup'[t] = signal
      /\ \A x \in SortBots : x # t => wakeup'[x] = wakeup[x]
  BY <1>2 DEF Wakes
<1>4. /\ \/ AtMaster = "ini" /\ next \in {"ini", "zeroclaimed"} /\ signal = "INISORTBOT"
         \/ AtMaster = "run" /\ next \in {"run", "in1"} /\ signal = "RUNSORTBOT"
         \/ AtMaster = "terminate" /\ next \in {"terminate", "join"} /\ signal = "TERMINATETHREAD"
      /\ IF next = AtMaster THEN target # 2 * NumberOfWorkers - 2 /\ target' = target + 1
         ELSE target' = NumberOfWorkers + 1
  BY <1>2 DEF Wakes
<1>5. /\ Goto(Master, next) /\ AtMaster' = next
      /\ \A x \in SortBots : pc'[x] = pc[x]
      /\ \A w \in Workers : pc'[w] = pc[w]
  BY <1>2 DEF Wakes
<1>6. /\ Job = signal /\ Job' = signal /\ ~Starting' /\ ~Initialised' /\ ~Starting /\ ~Initialised
      /\ Initialising' = Initialising
  BY <1>2 DEF Wakes
<1>7. UNCHANGED <<topsortbotavailables, numberclaimed, MasterBlockLock, FillBlock, expressions>>
  BY <1>2 DEF Wakes, rings, job
<1>8. /\ expressions \in 0..MaxExpressions
      /\ AtMaster # "terminate" => expressions < MaxExpressions
  <2>1. (AtMaster = "ini" => Initialising) /\ (AtMaster = "run" => Merging)
    BY DEF Initialising, Merging
  <2>2. QED
    BY <1>4, <2>1 DEF IInv, Types
<1>10. t \in Called'
  BY <1>3
<1>12. ~AtRest(t)' /\ InStep(t)'
  <2>1. wakeup'[t] # "none" /\ Job' # "START" /\ pc'[t] = "wait" /\ wakeup'[t] = Job'
    BY <1>3, <1>4, <1>5, <1>6
  <2>2. QED
    BY <1>3, <1>10, <2>1 DEF AtRest, InStep, Working
<1>13. \A x \in SortBots : x # t => (AtRest(x)' <=> AtRest(x)) /\ (InStep(x)' <=> InStep(x))
  BY <1>3, <1>5, <1>6 DEF AtRest, InStep, Working
<1>14. SortBotsInStep'
  BY <1>12, <1>13 DEF SortBotsInStep, IInv
<1>15. CountIsRight'
  <2>1. Finished' = Finished
    BY <1>3, <1>12, <1>13, PhaseFacts DEF Finished
  <2>2. QED
    BY <1>6, <1>7, <2>1 DEF CountIsRight, IInv
<1>16. ClaimsHeld'
  <2>1. ASSUME Initialising', NEW x \in Called', NEW b \in Claimed(x)'
        PROVE  MasterBlockLock'[b] = x
    <3>1. x # t
      <4>1. pc'[t] = "wait" /\ ~AtRest(t)'
        BY <1>3, <1>5, <1>12
      <4>2. Claimed(t)' = {}
        BY <4>1 DEF Claimed
      <4>3. QED
        BY <2>1, <4>2
    <3>2. x \in Called /\ x \in SortBots
      BY <1>3, <2>1, <3>1, PhaseFacts
    <3>3. /\ IniBlocks(x)' = IniBlocks(x) /\ FirstBlock(x)' = FirstBlock(x)
          /\ LastBlock(SortBotIn(x, 1))' = LastBlock(SortBotIn(x, 1))
      BY DEF IniBlocks, FirstBlock, LastBlock, SortBotIn
    <3>4. Claimed(x)' = Claimed(x)
      BY <1>5, <1>13, <3>1, <3>2, <3>3 DEF Claimed
    <3>5. QED
      BY <1>6, <1>7, <2>1, <3>2, <3>4 DEF IInv, ClaimsHeld
  <2>2. QED
    BY <1>6, <2>1 DEF ClaimsHeld
<1>17. WorkersInStep'
  <2>1. AtMaster' # "finish"
    BY <1>6 DEF Initialised
  <2>2. QED
    BY <1>5, <1>6, <2>1 DEF WorkersInStep, IInv
<1>18. Unclaimed' \subseteq Unclaimed
  BY <1>4, <1>5 DEF Unclaimed
<1>19. Types'
  <2>1. next \in MasterPlaces /\ next # "finish"
    BY <1>4 DEF MasterPlaces
  <2>2. target' \in SortBots
    BY <1>3, <1>4, ThreadFacts
  <2>3. next \notin {"ini", "run", "terminate", "finish"} => target' = NumberOfWorkers + 1
    BY <1>4
  <2>4. next \in {"idle", "start", "startasleep", "terminate", "join", "ended"}
          \/ expressions' < MaxExpressions
    BY <1>4, <1>7, <1>8
  <2>5. QED
    BY <1>3, <1>5, <1>7, <1>8, <2>1, <2>2, <2>3, <2>4, MasterTypes
<1>20. QED
  BY <1>7, <1>14, <1>15, <1>16, <1>17, <1>18, <1>19, FewerUnclaimed DEF Kept

\* The threads are joined; nothing changes but the place of the master.
LEMMA JoinKeeps ==
  ASSUME IInv, Join
  PROVE  Kept
<1>1. /\ UNCHANGED <<topsortbotavailables, wakeup, numberclaimed, target, expressions>>
      /\ AtMaster = "join" /\ Goto(Master, "ended")
  BY DEF Join, AtMaster, signals, job
<1>2. /\ AtMaster' = "ended" /\ \A t \in SortBots : pc'[t] = pc[t] /\ wakeup'[t] = wakeup[t]
      /\ \A w \in Workers : pc'[w] = pc[w]
  BY <1>1, MasterGoes
<1>3. /\ Job' = Job /\ Job = "TERMINATETHREAD" /\ ~Starting' /\ ~Initialising' /\ ~Initialised'
  BY <1>1, <1>2 DEF Starting, Initialising, Initialised, Merging, Ending, Job
<1>4. Called' = Called
  BY <1>1, <1>2, <1>3 DEF Called
<1>5. SortBotsInStep' /\ CountIsRight'
  BY <1>1, <1>2, <1>3, <1>4, SortBotsStay
<1>6. ClaimsHeld' /\ WorkersInStep'
  BY <1>2, <1>3 DEF ClaimsHeld, WorkersInStep
<1>7. Unclaimed' \subseteq Unclaimed
  BY <1>2 DEF Unclaimed
<1>8. Types'
  <2>1. /\ target = NumberOfWorkers + 1 /\ wakeup \in [SortBots -> Signals]
        /\ expressions \in 0..MaxExpressions
    BY <1>1 DEF IInv, Types
  <2>2. "ended" \in MasterPlaces
    BY DEF MasterPlaces
  <2>3. QED
    BY <1>1, <2>1, <2>2, ThreadFacts, MasterTypes
<1>9. QED
  BY <1>1, <1>5, <1>6, <1>7, <1>8, FewerUnclaimed DEF Kept

LEMMA NothingKeeps ==
  ASSUME IInv, UNCHANGED vars
  PROVE  Kept
<1>1. UNCHANGED <<pc, topsortbotavailables, wakeup, numberclaimed, target, MasterBlockLock,
                  FillBlock, expressions>>
  BY DEF vars, signals, rings, job
<1>2. AtMaster' = AtMaster
  BY <1>1 DEF AtMaster
<1>3. /\ Starting' = Starting /\ Initialising' = Initialising /\ Initialised' = Initialised
      /\ Merging' = Merging /\ Job' = Job /\ Called' = Called
  BY <1>1, <1>2, SamePhase
<1>4. /\ SortBotsInStep' /\ CountIsRight'
      /\ \A t \in SortBots : Claimed(t)' = Claimed(t) /\ IniBlocks(t)' = IniBlocks(t)
  BY <1>1, <1>3, SortBotsStay
<1>5. ClaimsHeld'
  BY <1>1, <1>3, <1>4, PhaseFacts DEF ClaimsHeld, IInv
<1>6. WorkersInStep' /\ Types'
  BY <1>1, <1>2, <1>3 DEF WorkersInStep, Types, IInv
<1>7. Unclaimed' \subseteq Unclaimed
  BY <1>1, <1>2 DEF Unclaimed
<1>8. QED
  BY <1>1, <1>4, <1>5, <1>6, <1>7, FewerUnclaimed DEF Kept

LEMMA NextIInv ==
  ASSUME IInv, [Next]_vars
  PROVE  IInv'
<1>1. RingTypes' /\ FullTypes'
  BY RingTypesKept DEF IInv
<1>2. ASSUME NEW t \in SortBots, SortBotStep(t) PROVE Kept
  BY <1>2, SortBotStepKeeps, TellMasterKeeps
<1>3. ASSUME NEW r \in Readers, MergeStep(r) PROVE Kept
  BY <1>3, MergeStepKeeps, MasterMergeKeeps DEF Readers
<1>4. ASSUME NEW w \in Workers, WorkerStep(w) PROVE Kept
  BY <1>4, WorkerStepKeeps
<1>5. ASSUME MasterStep PROVE Kept
  <2>1. ASSUME WaitForStart \/ WaitForIni \/ WaitForEnd PROVE Kept
    BY <2>1, WaitKeeps
  <2>2. ASSUME EndSortBotMasterMerge \/ BeginTerminate \/ BeginSortBotMasterMerge PROVE Kept
    BY <2>2, BetweenJobsKeeps
  <2>3. ASSUME SendIniSortBot \/ SendRunSortBot \/ SendTerminate PROVE Kept
    BY <2>3, WakeKeeps
  <2>4. ASSUME ZeroClaimed \/ MasterClaimsLastOfIn1 \/ MasterClaimsLastOfIn2 PROVE Kept
    BY <2>4, MasterClaimsKeep
  <2>5. ASSUME SendFinishExpression \/ MasterWaitAllBlocks \/ Join PROVE Kept
    BY <2>5, SendFinishKeeps, WaitBlocksKeeps, JoinKeeps
  <2>6. QED
    BY <1>5, <2>1, <2>2, <2>3, <2>4, <2>5 DEF MasterStep
<1>6. Kept
  <2>1. CASE Next
    BY <1>2, <1>3, <1>4, <1>5, <2>1 DEF Next
  <2>2. CASE UNCHANGED vars
    BY <2>2, NothingKeeps
  <2>3. QED
    BY <2>1, <2>2
<1>7. QED
  BY <1>1, <1>6 DEF IInv, Kept

-----------------------------------------------------------------------------
(* Sums over finite sets *)

IsSum(h, f, S) ==
  /\ h \in [SUBSET S -> Int] /\ h[{}] = 0
  /\ \A s \in SUBSET S : \A x \in s : h[s] = f[x] + h[s \ {x}]
Total(f, S) == (CHOOSE h : IsSum(h, f, S))[S]

LEMMA SmallestNumber ==
  ASSUME NEW R \in SUBSET Nat, R # {}
  PROVE  \E i \in R : \A j \in R : i <= j
<1>1. IsWellFoundedOn(OpToRel(<, Nat), Nat)
  BY NatLessThanWellFounded
<1>2. \E x \in R : \A y \in R : <<y, x>> \notin OpToRel(<, Nat)
  BY <1>1, WFMin
<1>3. PICK x \in R : \A y \in R : ~(y < x)
  BY <1>2 DEF OpToRel
<1>4. QED
  BY <1>3

LEMMA OneLess ==
  ASSUME NEW S, IsFiniteSet(S), NEW s \in SUBSET S, NEW x \in s
  PROVE  /\ IsFiniteSet(s) /\ Cardinality(s) \in Nat /\ Cardinality(s) > 0
         /\ s \ {x} \in SUBSET S /\ Cardinality(s \ {x}) = Cardinality(s) - 1
<1>1. IsFiniteSet(s)
  BY FS_Subset
<1>2. Cardinality(s \ {x}) = Cardinality(s) - 1
  BY <1>1, FS_RemoveElement
<1>3. Cardinality(s) \in Nat /\ IsFiniteSet(s \ {x})
  BY <1>1, FS_CardinalityType, FS_Subset
<1>4. Cardinality(s \ {x}) \in Nat
  BY <1>3, FS_CardinalityType
<1>5. QED
  BY <1>1, <1>2, <1>3, <1>4

\* The sums of the subsets with n elements at most.
SumUpTo(h, f, S, n) ==
  /\ h \in [SUBSET S -> Int] /\ h[{}] = 0
  /\ \A s \in SUBSET S : \A x \in s : Cardinality(s) <= n => h[s] = f[x] + h[s \ {x}]

LEMMA SumOfOneMore ==
  ASSUME NEW S, IsFiniteSet(S), NEW f \in [S -> Int], NEW m \in Nat, NEW h, SumUpTo(h, f, S, m)
  PROVE  \E g : SumUpTo(g, f, S, m + 1)
<1> DEFINE c(s) == CHOOSE x \in s : TRUE
           g == [s \in SUBSET S |-> IF Cardinality(s) = m + 1 THEN f[c(s)] + h[s \ {c(s)}]
                                    ELSE h[s]]
<1>0. /\ h \in [SUBSET S -> Int] /\ h[{}] = 0
      /\ \A s \in SUBSET S : \A x \in s : Cardinality(s) <= m => h[s] = f[x] + h[s \ {x}]
  BY DEF SumUpTo
<1>1. \A s \in SUBSET S : s # {} => c(s) \in s
  OBVIOUS
<1>2. Cardinality({}) = 0
  BY FS_EmptySet
<1> HIDE DEF c
<1>3. ASSUME NEW s \in SUBSET S, Cardinality(s) = m + 1
      PROVE  s # {} /\ c(s) \in s /\ s \ {c(s)} \in SUBSET S
  BY <1>1, <1>2, <1>3
<1>4. g \in [SUBSET S -> Int]
  <2>1. ASSUME NEW s \in SUBSET S, Cardinality(s) = m + 1
        PROVE  f[c(s)] + h[s \ {c(s)}] \in Int
    <3>1. c(s) \in S /\ s \ {c(s)} \in SUBSET S
      BY <1>3, <2>1
    <3>2. f[c(s)] \in Int /\ h[s \ {c(s)}] \in Int
      BY <1>0, <3>1
    <3>3. QED
      BY <3>2
  <2>2. QED
    BY <1>0, <2>1
<1>5. g[{}] = 0
  BY <1>0, <1>2
<1>6. ASSUME NEW s \in SUBSET S, NEW x \in s, Cardinality(s) <= m + 1
      PROVE  g[s] = f[x] + g[s \ {x}]
  <2>1. /\ Cardinality(s) \in Nat /\ s \ {x} \in SUBSET S
        /\ Cardinality(s \ {x}) = Cardinality(s) - 1
    BY OneLess
  <2>2. g[s \ {x}] = h[s \ {x}]
    BY <1>6, <2>1
  <2>3. CASE Cardinality(s) <= m
    <3>1. g[s] = h[s]
      BY <2>1, <2>3
    <3>2. QED
      BY <1>0, <2>2, <2>3, <3>1
  <2>4. CASE Cardinality(s) = m + 1
    <3> DEFINE y == c(s)
    <3>1. y \in s /\ g[s] = f[y] + h[s \ {y}]
      BY <1>3, <2>4
    <3> HIDE DEF y, g
    <3>2. CASE x = y
      BY <2>2, <3>1, <3>2
    <3>3. CASE x # y
      <4>1. /\ x \in s \ {y} /\ y \in s \ {x} /\ s \ {y} \in SUBSET S
            /\ (s \ {y}) \ {x} = (s \ {x}) \ {y} /\ (s \ {x}) \ {y} \in SUBSET S
        BY <3>1, <3>3
      <4>2. Cardinality(s \ {y}) <= m /\ Cardinality(s \ {x}) <= m
        <5>1. Cardinality(s \ {y}) = Cardinality(s) - 1
          BY <3>1, OneLess
        <5>2. QED
          BY <2>1, <2>4, <5>1
      <4>3. h[s \ {y}] = f[x] + h[(s \ {y}) \ {x}] /\ h[s \ {x}] = f[y] + h[(s \ {x}) \ {y}]
        BY <1>0, <2>1, <4>1, <4>2
      <4>4. f[x] \in Int /\ f[y] \in Int /\ h[(s \ {x}) \ {y}] \in Int
        BY <1>0, <3>1, <4>1
      <4>5. h[s \ {y}] = f[x] + h[(s \ {x}) \ {y}]
        BY <4>1, <4>3
      <4>6. f[y] + h[s \ {y}] = f[x] + h[s \ {x}]
        BY <4>3, <4>4, <4>5
      <4>7. QED
        BY <2>2, <3>1, <4>6
    <3>4. QED
      BY <3>2, <3>3
  <2>5. QED
    BY <1>6, <2>1, <2>3, <2>4
<1> HIDE DEF g
<1>7. SumUpTo(g, f, S, m + 1)
  BY <1>4, <1>5, <1>6 DEF SumUpTo
<1>8. QED
  BY <1>7

LEMMA SumUpToAny ==
  ASSUME NEW S, IsFiniteSet(S), NEW f \in [S -> Int], NEW n \in Nat
  PROVE  \E h : SumUpTo(h, f, S, n)
<1> DEFINE R == {m \in Nat : ~ \E h : SumUpTo(h, f, S, m)}
<1>1. SUFFICES R = {}
  OBVIOUS
<1>2. SUFFICES ASSUME R # {} PROVE FALSE
  OBVIOUS
<1>3. PICK m \in R : \A j \in R : m <= j
  BY <1>2, SmallestNumber
<1>4. CASE m = 0
  <2> DEFINE h == [s \in SUBSET S |-> 0]
  <2>1. ASSUME NEW s \in SUBSET S, NEW x \in s PROVE ~(Cardinality(s) <= 0)
    <3>1. Cardinality(s) \in Nat /\ Cardinality(s) > 0
      BY OneLess
    <3>2. QED
      BY <3>1
  <2>2. SumUpTo(h, f, S, 0)
    BY <2>1 DEF SumUpTo
  <2>3. QED
    BY <1>3, <1>4, <2>2
<1>5. CASE m # 0
  <2>1. m \in Nat /\ m - 1 \in Nat /\ ~(m <= m - 1) /\ m - 1 + 1 = m
    BY <1>3, <1>5
  <2>2. m - 1 \notin R
    BY <1>3, <2>1
  <2>3. PICK h : SumUpTo(h, f, S, m - 1)
    BY <2>1, <2>2
  <2>4. \E g : SumUpTo(g, f, S, m - 1 + 1)
    BY <2>1, <2>3, SumOfOneMore
  <2>5. QED
    BY <1>3, <2>1, <2>4
<1>6. QED
  BY <1>4, <1>5

LEMMA SumExists ==
  ASSUME NEW S, IsFiniteSet(S), NEW f \in [S -> Int]
  PROVE  \E h : IsSum(h, f, S)
<1>1. Cardinality(S) \in Nat
  BY FS_CardinalityType
<1>2. PICK h : SumUpTo(h, f, S, Cardinality(S))
  BY <1>1, SumUpToAny
<1>3. ASSUME NEW s \in SUBSET S PROVE Cardinality(s) <= Cardinality(S)
  BY FS_Subset
<1>4. IsSum(h, f, S)
  BY <1>2, <1>3 DEF IsSum, SumUpTo
<1>5. QED
  BY <1>4

\* Two functions that agree on the set have the same sums.
LEMMA SumsAgree ==
  ASSUME NEW S, IsFiniteSet(S), NEW f \in [S -> Int], NEW g \in [S -> Int],
         NEW h, IsSum(h, f, S), NEW k, IsSum(k, g, S), NEW T \in SUBSET S,
         \A x \in T : f[x] = g[x]
  PROVE  h[T] = k[T]
<1> DEFINE R == {n \in Nat : \E s \in SUBSET T : Cardinality(s) = n /\ h[s] # k[s]}
<1>0. /\ h[{}] = 0 /\ k[{}] = 0
      /\ \A s \in SUBSET S : \A x \in s : h[s] = f[x] + h[s \ {x}] /\ k[s] = g[x] + k[s \ {x}]
  BY DEF IsSum
<1>1. Cardinality(T) \in Nat
  BY FS_Subset, FS_CardinalityType
<1>2. R = {}
  <2>1. SUFFICES ASSUME R # {} PROVE FALSE
    OBVIOUS
  <2>2. PICK n \in R : \A j \in R : n <= j
    BY <2>1, SmallestNumber
  <2>3. PICK s \in SUBSET T : Cardinality(s) = n /\ h[s] # k[s]
    BY <2>2
  <2>4. s # {}
    BY <1>0, <2>3
  <2>5. PICK x \in s : TRUE
    BY <2>4
  <2>6. /\ s \in SUBSET S /\ s \ {x} \in SUBSET T
        /\ Cardinality(s \ {x}) = n - 1 /\ n \in Nat /\ n > 0
    BY <2>3, OneLess
  <2>7. n - 1 \in Nat /\ ~(n <= n - 1)
    BY <2>6
  <2>8. h[s \ {x}] = k[s \ {x}]
    BY <2>2, <2>6, <2>7
  <2>9. h[s] = f[x] + h[s \ {x}] /\ k[s] = g[x] + k[s \ {x}] /\ f[x] = g[x]
    BY <1>0, <2>3, <2>6
  <2>10. QED
    BY <2>3, <2>8, <2>9
<1>3. QED
  BY <1>1, <1>2

LEMMA TotalIsSum ==
  ASSUME NEW S, IsFiniteSet(S), NEW f \in [S -> Int]
  PROVE  \E h : IsSum(h, f, S) /\ Total(f, S) = h[S]
<1>1. \E h : IsSum(h, f, S)
  BY SumExists
<1>2. IsSum(CHOOSE h : IsSum(h, f, S), f, S)
  BY <1>1
<1>3. QED
  BY <1>2 DEF Total

\* One value changes.
LEMMA TotalChanges ==
  ASSUME NEW S, IsFiniteSet(S), NEW f \in [S -> Int], NEW g \in [S -> Int], NEW x \in S,
         \A y \in S : y # x => g[y] = f[y]
  PROVE  Total(f, S) \in Int /\ Total(g, S) = Total(f, S) - f[x] + g[x]
<1>1. \A y \in S \ {x} : f[y] = g[y]
  OBVIOUS
<1>2. PICK h : IsSum(h, f, S) /\ Total(f, S) = h[S]
  BY TotalIsSum
<1>3. PICK k : IsSum(k, g, S) /\ Total(g, S) = k[S]
  BY <1>1, TotalIsSum
<1>4. h[S \ {x}] = k[S \ {x}]
  <2>1. S \ {x} \in SUBSET S
    OBVIOUS
  <2>2. QED
    BY <1>1, <1>2, <1>3, <2>1, SumsAgree
<1>5. /\ h[S] = f[x] + h[S \ {x}] /\ k[S] = g[x] + k[S \ {x}]
      /\ h[S \ {x}] \in Int /\ h[S] \in Int
  BY <1>2, <1>3 DEF IsSum
<1>6. f[x] \in Int /\ g[x] \in Int
  OBVIOUS
<1>7. QED
  BY <1>2, <1>3, <1>4, <1>5, <1>6

LEMMA TotalOfZeros ==
  ASSUME NEW S, IsFiniteSet(S), NEW f \in [S -> Int], \A x \in S : f[x] = 0
  PROVE  Total(f, S) = 0
<1> DEFINE z == [s \in SUBSET S |-> 0]
<1>1. PICK h : IsSum(h, f, S) /\ Total(f, S) = h[S]
  BY TotalIsSum
<1>2. IsSum(z, f, S)
  BY DEF IsSum
<1>3. h[S] = z[S]
  <2>1. S \in SUBSET S
    OBVIOUS
  <2> HIDE DEF z
  <2>2. QED
    BY <1>1, <1>2, <2>1, SumsAgree
<1>4. QED
  BY <1>1, <1>3

\* The streams of the sortbots add nothing.
LEMMA ZerosAddNothing ==
  ASSUME NEW S, IsFiniteSet(S), NEW f \in [S -> Int], NEW h, IsSum(h, f, S), NEW T \in SUBSET S,
         \A x \in S \ T : f[x] = 0
  PROVE  h[S] = h[T]
<1> DEFINE R == {n \in Nat : \E s \in SUBSET S : T \subseteq s /\ Cardinality(s) = n /\ h[s] # h[T]}
<1>0. /\ \A s \in SUBSET S : \A x \in s : h[s] = f[x] + h[s \ {x}]
      /\ h \in [SUBSET S -> Int]
  BY DEF IsSum
<1>1. Cardinality(S) \in Nat
  BY FS_CardinalityType
<1>2. SUFFICES ASSUME R # {} PROVE FALSE
  BY <1>1
<1>3. PICK n \in R : \A j \in R : n <= j
  BY <1>2, SmallestNumber
<1>4. PICK s \in SUBSET S : T \subseteq s /\ Cardinality(s) = n /\ h[s] # h[T]
  BY <1>3
<1>5. PICK x \in s : x \notin T
  BY <1>4
<1>6. /\ s \ {x} \in SUBSET S /\ T \subseteq s \ {x}
      /\ Cardinality(s \ {x}) = n - 1 /\ n \in Nat /\ n > 0
  BY <1>4, <1>5, OneLess
<1>7. n - 1 \in Nat /\ ~(n <= n - 1)
  BY <1>6
<1>8. h[s \ {x}] = h[T]
  BY <1>3, <1>6, <1>7
<1>9. f[x] = 0 /\ h[s] = f[x] + h[s \ {x}] /\ h[s \ {x}] \in Int
  BY <1>0, <1>5, <1>6
<1>10. QED
  BY <1>4, <1>8, <1>9

\* A fold with any choice of the next element is a sum.
IsFold(i, f, T) ==
  i = [s \in SUBSET T |-> IF s = {} THEN 0
                         ELSE f[CHOOSE x \in s : TRUE] + i[s \ {CHOOSE x \in s : TRUE}]]

LEMMA FoldIsSum ==
  ASSUME NEW S, IsFiniteSet(S), NEW f \in [S -> Int], NEW h, IsSum(h, f, S), NEW T \in SUBSET S,
         NEW i, IsFold(i, f, T)
  PROVE  i[T] = h[T]
<1> DEFINE R == {n \in Nat : \E s \in SUBSET T : Cardinality(s) = n /\ h[s] # i[s]}
           c(s) == CHOOSE x \in s : TRUE
<1>0. /\ h[{}] = 0 /\ \A s \in SUBSET S : \A x \in s : h[s] = f[x] + h[s \ {x}]
  BY DEF IsSum
<1>1. Cardinality(T) \in Nat
  BY FS_Subset, FS_CardinalityType
<1>2. \A s \in SUBSET T : i[s] = IF s = {} THEN 0 ELSE f[c(s)] + i[s \ {c(s)}]
  <2> DEFINE e(g, s) == IF s = {} THEN 0
                      ELSE f[CHOOSE x \in s : TRUE] + g[s \ {CHOOSE x \in s : TRUE}]
  <2>1. i = [s \in SUBSET T |-> e(i, s)]
    BY DEF IsFold
  <2> HIDE DEF e
  <2>2. \A s \in SUBSET T : i[s] = e(i, s)
    BY <2>1
  <2>3. QED
    BY <2>2 DEF e
<1>3. \A s : s # {} => c(s) \in s
  OBVIOUS
<1> HIDE DEF c
<1>4. SUFFICES ASSUME R # {} PROVE FALSE
  BY <1>1
<1>5. PICK n \in R : \A j \in R : n <= j
  BY <1>4, SmallestNumber
<1>6. PICK s \in SUBSET T : Cardinality(s) = n /\ h[s] # i[s]
  BY <1>5
<1>7. s # {}
  BY <1>0, <1>2, <1>6
<1>8. PICK x \in s : x = c(s)
  BY <1>3, <1>7
<1>9. /\ s \in SUBSET S /\ s \ {x} \in SUBSET T
      /\ Cardinality(s \ {x}) = n - 1 /\ n \in Nat /\ n > 0
  BY <1>6, OneLess
<1>10. n - 1 \in Nat /\ ~(n <= n - 1)
  BY <1>9
<1>11. h[s \ {x}] = i[s \ {x}]
  BY <1>5, <1>9, <1>10
<1>12. h[s] = f[x] + h[s \ {x}] /\ i[s] = f[x] + i[s \ {x}]
  BY <1>0, <1>2, <1>7, <1>8, <1>9
<1>13. QED
  BY <1>6, <1>11, <1>12

LEMMA StreamsFinite == IsFiniteSet(Streams) /\ Workers \in SUBSET Streams
BY Cardinalities, FS_Union DEF Streams

LEMMA SumOfIsTotal ==
  ASSUME NEW key, NEW f \in [Streams -> Int],
         \A w \in Workers : f[w] = CoefficientOf(w, key),
         \A s \in Streams \ Workers : f[s] = 0
  PROVE  Total(f, Streams) = SumOf(key)
<1> DEFINE c(s) == CHOOSE x \in s : TRUE
           Q(g) == g = [s \in SUBSET Workers |-> IF s = {} THEN 0
                          ELSE CoefficientOf(CHOOSE x \in s : TRUE, key)
                               + g[s \ {CHOOSE x \in s : TRUE}]]
           iter == CHOOSE g : Q(g)
<1>1. SumOf(key) = iter[Workers]
  BY Zenon DEF SumOf, FoldSet, MapThenFoldSet
<1>2. PICK h : IsSum(h, f, Streams) /\ Total(f, Streams) = h[Streams]
  BY StreamsFinite, TotalIsSum
<1>3. /\ h[{}] = 0
      /\ \A s \in SUBSET Streams : \A x \in s : h[s] = f[x] + h[s \ {x}]
  BY <1>2 DEF IsSum
<1>4. \A s : s # {} => c(s) \in s
  OBVIOUS
<1> DEFINE k == [s \in SUBSET Workers |-> h[s]]
           e(g, s) == IF s = {} THEN 0 ELSE CoefficientOf(c(s), key) + g[s \ {c(s)}]
           d(g, s) == IF s = {} THEN 0 ELSE f[c(s)] + g[s \ {c(s)}]
<1>5. \A g : Q(g) <=> g = [s \in SUBSET Workers |-> e(g, s)]
  OBVIOUS
<1> HIDE DEF c, Q
<1>6. \A g : \A s \in SUBSET Workers : e(g, s) = d(g, s)
  <2>1. ASSUME NEW s \in SUBSET Workers, s # {} PROVE CoefficientOf(c(s), key) = f[c(s)]
    BY <1>4, <2>1
  <2>2. QED
    BY <2>1
<1>7. \A s \in SUBSET Workers : k[s] = d(k, s)
  <2>1. ASSUME NEW s \in SUBSET Workers PROVE k[s] = d(k, s)
    <3>1. k[s] = h[s] /\ s \in SUBSET Streams /\ k[s \ {c(s)}] = h[s \ {c(s)}]
      BY StreamsFinite
    <3>2. s # {} => h[s] = f[c(s)] + h[s \ {c(s)}]
      BY <1>3, <1>4, <3>1
    <3>3. QED
      BY <1>3, <3>1, <3>2
  <2>2. QED
    BY <2>1
<1>8. Q(k)
  <2>1. k = [s \in SUBSET Workers |-> e(k, s)]
    <3>1. \A s \in SUBSET Workers : k[s] = e(k, s)
      BY <1>6, <1>7
    <3>2. k = [s \in SUBSET Workers |-> k[s]]
      OBVIOUS
    <3> HIDE DEF k, e
    <3>3. QED
      BY <3>1, <3>2
  <2>2. QED
    BY <1>5, <2>1
<1>9. Q(iter)
  BY <1>8
<1> HIDE DEF iter
<1>10. iter = [s \in SUBSET Workers |-> d(iter, s)]
  <2>1. iter = [s \in SUBSET Workers |-> e(iter, s)]
    BY <1>5, <1>9
  <2> HIDE DEF e, d
  <2>2. QED
    BY <1>6, <2>1
<1>11. iter[Workers] = h[Workers]
  <2>1. IsFold(iter, f, Workers)
    BY <1>10 DEF c, IsFold
  <2>2. /\ IsFiniteSet(Streams) /\ f \in [Streams -> Int] /\ IsSum(h, f, Streams)
        /\ Workers \in SUBSET Streams
    BY <1>2, StreamsFinite
  <2>3. QED
    BY <2>1, <2>2, FoldIsSum
<1>12. h[Streams] = h[Workers]
  BY <1>2, StreamsFinite, ZerosAddNothing
<1>13. QED
  BY <1>1, <1>2, <1>11, <1>12
-----------------------------------------------------------------------------
(* Places in a ring, counted from the place p of the reader *)

At(p, i)   == IF p + i > MasterNumBlocks THEN p + i - MasterNumBlocks ELSE p + i
Dist(p, q) == IF q < p THEN q - p + MasterNumBlocks ELSE q - p
Places     == 1..MasterNumBlocks

LEMMA RingFacts ==
  /\ MasterNumBlocks \in Nat /\ MasterNumBlocks > 2 /\ 1 \in Places
  /\ \A p \in Places : /\ At(p, 0) = p /\ After(p) \in Places /\ Before(p) \in Places
                       /\ After(p) # p /\ Before(p) # p /\ After(p) # Before(p)
                       /\ Before(After(p)) = p /\ After(Before(p)) = p
                       /\ Dist(p, p) = 0
  /\ \A p, q \in Places : /\ Dist(p, q) \in 0..MasterNumBlocks - 1 /\ At(p, Dist(p, q)) = q
                          /\ After(p) = q <=> p = Before(q)
                          /\ p # q => Dist(p, q) > 0
BY TreeAssumption DEF At, Dist, Places, After, Before

LEMMA PlacesApart ==
  ASSUME NEW p \in Places, NEW i \in 0..MasterNumBlocks - 1
  PROVE  /\ At(p, i) \in Places
         /\ \A j \in 0..MasterNumBlocks - 1 : i # j => At(p, i) # At(p, j)
BY TreeAssumption DEF At, Places

LEMMA WriterSteps ==
  ASSUME NEW p \in Places, NEW q \in Places, After(q) # p
  PROVE  /\ Dist(p, After(q)) = Dist(p, q) + 1
         /\ \A i \in 0..Dist(p, q) : At(p, i) # After(q)
BY TreeAssumption DEF At, Dist, Places, After

LEMMA ReaderSteps ==
  ASSUME NEW p \in Places, NEW q \in Places, p # q
  PROVE  /\ Dist(After(p), q) = Dist(p, q) - 1 /\ Dist(p, q) \in 1..MasterNumBlocks - 1
         /\ \A i \in 0..Dist(After(p), q) : At(After(p), i) = At(p, i + 1)
BY TreeAssumption DEF At, Dist, Places, After

\* The block behind the reader is not between reader and writer.
LEMMA BehindIsOutside ==
  ASSUME NEW p \in Places, NEW q \in Places, q # Before(p)
  PROVE  \A i \in 0..Dist(p, q) : At(p, i) # Before(p)
BY TreeAssumption DEF At, Dist, Places, Before

-----------------------------------------------------------------------------
(* The contents of a ring m between reader, at p, and writer, at q *)

IsTerm(t) == t \in (Nat \ {0}) \X (Int \ {0})

LEMMA TermFacts ==
  /\ ~IsTerm(End)
  /\ \A t : IsTerm(t) => /\ t[1] \in Nat /\ t[1] > 0 /\ t[2] \in Int /\ t[2] # 0 /\ t # End
                         /\ t = <<t[1], t[2]>>
BY DEF IsTerm, End

\* Terms in order, and the end mark when the stream has ended.
InRing(m, s, p, q, ended) ==
  /\ \A i \in 0..Dist(p, q) : IF i = Dist(p, q) /\ ended THEN m[<<s, At(p, i)>>] = End
                              ELSE IsTerm(m[<<s, At(p, i)>>])
  /\ \A i, j \in 0..Dist(p, q) :
       i < j => m[<<s, At(p, j)>>] = End \/ m[<<s, At(p, i)>>][1] < m[<<s, At(p, j)>>][1]

\* The terms that the reader has still to take, when it has taken the first "taken".
Window(m, s, p, q, taken) == {m[<<s, At(p, i)>>] : i \in taken..Dist(p, q)} \ {End}

SameBetween(m, mm, s, p, q) ==
  \A i \in 0..Dist(p, q) : mm[<<s, At(p, i)>>] = m[<<s, At(p, i)>>]

LEMMA RingUnchanged ==
  ASSUME NEW m, NEW mm, NEW s, NEW p \in Places, NEW q \in Places, NEW ended, NEW taken \in {0, 1},
         SameBetween(m, mm, s, p, q)
  PROVE  /\ InRing(mm, s, p, q, ended) <=> InRing(m, s, p, q, ended)
         /\ Window(mm, s, p, q, taken) = Window(m, s, p, q, taken)
<1>1. Dist(p, q) \in Nat
  BY RingFacts
<1>2. InRing(mm, s, p, q, ended) <=> InRing(m, s, p, q, ended)
  BY DEF InRing, SameBetween
<1>3. Window(mm, s, p, q, taken) = Window(m, s, p, q, taken)
  <2>1. taken..Dist(p, q) \subseteq 0..Dist(p, q)
    BY <1>1
  <2>2. QED
    BY <2>1 DEF Window, SameBetween
<1>4. QED
  BY <1>2, <1>3

\* What is in the block of the reader, and in the block of the writer.
LEMMA RingEnds ==
  ASSUME NEW m, NEW s, NEW p \in Places, NEW q \in Places, NEW ended \in BOOLEAN,
         InRing(m, s, p, q, ended)
  PROVE  /\ m[<<s, p>>] = End <=> p = q /\ ended
         /\ m[<<s, p>>] = End \/ IsTerm(m[<<s, p>>])
         /\ ended => m[<<s, q>>] = End
         /\ ~ended => IsTerm(m[<<s, q>>])
<1>1. /\ Dist(p, q) \in Nat /\ At(p, 0) = p /\ At(p, Dist(p, q)) = q
      /\ Dist(p, q) = 0 <=> p = q
  BY RingFacts
<1>2. 0 \in 0..Dist(p, q) /\ Dist(p, q) \in 0..Dist(p, q)
  BY <1>1
<1>3. IF 0 = Dist(p, q) /\ ended THEN m[<<s, At(p, 0)>>] = End ELSE IsTerm(m[<<s, At(p, 0)>>])
  BY <1>2 DEF InRing
<1>4. IF ended THEN m[<<s, q>>] = End ELSE IsTerm(m[<<s, q>>])
  BY <1>1, <1>2 DEF InRing
<1>5. QED
  BY <1>1, <1>3, <1>4, TermFacts

\* The terms that wait are in order: after the one of the reader, before the one of the writer.
LEMMA WindowOrder ==
  ASSUME NEW m, NEW s, NEW p \in Places, NEW q \in Places, NEW ended \in BOOLEAN,
         InRing(m, s, p, q, ended)
  PROVE  /\ \A u \in Window(m, s, p, q, 0) : IsTerm(u)
         /\ \A u \in Window(m, s, p, q, 1) : IsTerm(u) /\ u[1] > m[<<s, p>>][1]
         /\ ~ended => \A u \in Window(m, s, p, q, 0) : u[1] <= m[<<s, q>>][1]
         /\ \A u, v \in Window(m, s, p, q, 0) : u[1] = v[1] => u = v
<1>0. /\ Dist(p, q) \in Nat /\ At(p, 0) = p /\ At(p, Dist(p, q)) = q
      /\ 0 \in 0..Dist(p, q) /\ Dist(p, q) \in 0..Dist(p, q) /\ 1..Dist(p, q) \subseteq 0..Dist(p, q)
  BY RingFacts
<1> DEFINE x(i) == m[<<s, At(p, i)>>]
<1>1. /\ \A i \in 0..Dist(p, q) : x(i) = End \/ IsTerm(x(i))
      /\ \A i, j \in 0..Dist(p, q) : i < j => x(j) = End \/ x(i)[1] < x(j)[1]
      /\ ~ended => IsTerm(x(Dist(p, q)))
  BY <1>0 DEF InRing
<1>2. /\ Window(m, s, p, q, 0) = {x(i) : i \in 0..Dist(p, q)} \ {End}
      /\ Window(m, s, p, q, 1) = {x(i) : i \in 1..Dist(p, q)} \ {End}
      /\ x(0) = m[<<s, p>>] /\ x(Dist(p, q)) = m[<<s, q>>]
  BY <1>0 DEF Window
<1> HIDE DEF x
<1>3. \A u \in Window(m, s, p, q, 0) : IsTerm(u)
  BY <1>1, <1>2
<1>4. ASSUME NEW u \in Window(m, s, p, q, 1) PROVE IsTerm(u) /\ u[1] > m[<<s, p>>][1]
  <2>1. PICK i \in 1..Dist(p, q) : u = x(i) /\ u # End
    BY <1>2
  <2>2. i \in 0..Dist(p, q) /\ 0 < i
    BY <1>0
  <2>3. IsTerm(u) /\ x(0)[1] < x(i)[1]
    BY <1>0, <1>1, <2>1, <2>2
  <2>4. IsTerm(x(0))
    <3>1. x(0) # End
      <4>1. ~(0 = Dist(p, q) /\ ended)
        BY <1>0, <2>2
      <4>2. IsTerm(x(0))
        BY <1>0, <4>1 DEF InRing, x
      <4>3. QED
        BY <4>2, TermFacts
    <3>2. QED
      BY <1>0, <1>1, <3>1
  <2>5. QED
    BY <1>2, <2>1, <2>3, <2>4, TermFacts
<1>5. ASSUME ~ended, NEW u \in Window(m, s, p, q, 0) PROVE u[1] <= m[<<s, q>>][1]
  <2>1. PICK i \in 0..Dist(p, q) : u = x(i) /\ u # End
    BY <1>2
  <2>2. IsTerm(u) /\ IsTerm(x(Dist(p, q))) /\ x(Dist(p, q)) # End
    BY <1>0, <1>1, <1>5, <2>1, TermFacts
  <2>3. i = Dist(p, q) \/ i < Dist(p, q)
    BY <1>0
  <2>4. i = Dist(p, q) \/ x(i)[1] < x(Dist(p, q))[1]
    BY <1>0, <1>1, <2>2, <2>3
  <2>5. QED
    BY <1>2, <2>1, <2>2, <2>4, TermFacts
<1>6. ASSUME NEW u \in Window(m, s, p, q, 0), NEW v \in Window(m, s, p, q, 0), u[1] = v[1]
      PROVE  u = v
  <2>1. PICK i \in 0..Dist(p, q) : u = x(i) /\ u # End
    BY <1>2
  <2>2. PICK j \in 0..Dist(p, q) : v = x(j) /\ v # End
    BY <1>2
  <2>3. IsTerm(u) /\ IsTerm(v)
    BY <1>3
  <2>4. i < j => u[1] < v[1]
    BY <1>1, <2>1, <2>2
  <2>5. j < i => v[1] < u[1]
    BY <1>1, <2>1, <2>2
  <2>6. u[1] \in Nat /\ v[1] \in Nat
    BY <2>3, TermFacts
  <2>7. i = j
    BY <1>0, <1>6, <2>4, <2>5, <2>6
  <2>8. QED
    BY <2>1, <2>2, <2>7
<1>7. QED
  BY <1>3, <1>4, <1>5, <1>6

\* A term or the end mark is written in the block after the last.
Put(m, mm, s, p, q, term, ended) ==
  /\ After(q) # p /\ InRing(m, s, p, q, FALSE)
  /\ mm[<<s, After(q)>>] = term /\ SameBetween(m, mm, s, p, q)
  /\ ended => term = End
  /\ ~ended => IsTerm(term) /\ term[1] > m[<<s, q>>][1]

LEMMA RingPut ==
  ASSUME NEW m, NEW mm, NEW s, NEW p \in Places, NEW q \in Places, NEW term,
         NEW ended \in BOOLEAN, Put(m, mm, s, p, q, term, ended)
  PROVE  InRing(mm, s, p, After(q), ended)
<1> USE DEF Put
<1> DEFINE d == Dist(p, q)
           x(i) == m[<<s, At(p, i)>>]
           y(i) == mm[<<s, At(p, i)>>]
<1>0. /\ d \in Nat /\ Dist(p, After(q)) = d + 1 /\ After(q) \in Places
      /\ At(p, d) = q /\ At(p, d + 1) = After(q)
  <2>1. d \in Nat /\ After(q) \in Places /\ At(p, d) = q /\ At(p, Dist(p, After(q))) = After(q)
    BY RingFacts
  <2>2. Dist(p, After(q)) = d + 1
    BY WriterSteps
  <2>3. QED
    BY <2>1, <2>2
<1>1. /\ \A i \in 0..d : y(i) = x(i) /\ IsTerm(x(i))
      /\ \A i, j \in 0..d : i < j => x(j) = End \/ x(i)[1] < x(j)[1]
      /\ y(d + 1) = term /\ x(d) = m[<<s, q>>]
  BY <1>0 DEF InRing, SameBetween
<1>2. /\ InRing(mm, s, p, After(q), ended) <=>
           /\ \A i \in 0..d + 1 : IF i = d + 1 /\ ended THEN y(i) = End ELSE IsTerm(y(i))
           /\ \A i, j \in 0..d + 1 : i < j => y(j) = End \/ y(i)[1] < y(j)[1]
  BY <1>0 DEF InRing
<1> HIDE DEF x, y, d
<1>3. \A i \in 0..d + 1 : i = d + 1 \/ i \in 0..d
  BY <1>0
<1>4. ASSUME NEW i \in 0..d + 1
      PROVE  IF i = d + 1 /\ ended THEN y(i) = End ELSE IsTerm(y(i))
  <2>1. i = d + 1 => i \notin 0..d
    BY <1>0
  <2>2. QED
    BY <1>0, <1>1, <1>3, <2>1
<1>5. ASSUME NEW i \in 0..d + 1, NEW j \in 0..d + 1, i < j
      PROVE  y(j) = End \/ y(i)[1] < y(j)[1]
  <2>1. i \in 0..d
    BY <1>0, <1>5
  <2>2. CASE j \in 0..d
    <3>1. y(i) = x(i) /\ y(j) = x(j)
      BY <1>1, <2>1, <2>2
    <3>2. x(j) = End \/ x(i)[1] < x(j)[1]
      BY <1>1, <1>5, <2>1, <2>2
    <3>3. QED
      BY <3>1, <3>2
  <2>3. CASE j = d + 1 /\ ~ended
    <3>1. d \in 0..d /\ (i = d \/ i < d)
      BY <1>0, <2>1
    <3>2. y(i) = x(i) /\ IsTerm(x(i)) /\ IsTerm(x(d))
      BY <1>1, <2>1, <3>1
    <3>3. i = d \/ x(i)[1] < x(d)[1]
      BY <1>1, <2>1, <3>1, <3>2, TermFacts
    <3>4. IsTerm(term) /\ term[1] > x(d)[1] /\ y(j) = term
      BY <1>1, <2>3
    <3>5. x(i)[1] \in Nat /\ x(d)[1] \in Nat /\ term[1] \in Nat
      BY <3>2, <3>4, TermFacts
    <3>6. x(i)[1] < term[1]
      BY <3>3, <3>4, <3>5
    <3>7. QED
      BY <3>2, <3>4, <3>6
  <2>4. CASE j = d + 1 /\ ended
    BY <1>1, <2>4
  <2>5. QED
    BY <1>3, <2>2, <2>3, <2>4
<1>6. QED
  BY <1>2, <1>4, <1>5

With(P, t) == P \cup ({t} \ {End})

LEMMA WindowPut ==
  ASSUME NEW m, NEW mm, NEW s, NEW p \in Places, NEW q \in Places, NEW term,
         NEW ended \in BOOLEAN, Put(m, mm, s, p, q, term, ended), NEW taken \in {0, 1}
  PROVE  Window(mm, s, p, After(q), taken) = With(Window(m, s, p, q, taken), term)
<1> USE DEF Put
<1> DEFINE d == Dist(p, q)
           x(i) == m[<<s, At(p, i)>>]
           y(i) == mm[<<s, At(p, i)>>]
<1>0. /\ d \in Nat /\ Dist(p, After(q)) = d + 1 /\ After(q) \in Places
      /\ At(p, d) = q /\ At(p, d + 1) = After(q)
  <2>1. d \in Nat /\ After(q) \in Places /\ At(p, d) = q /\ At(p, Dist(p, After(q))) = After(q)
    BY RingFacts
  <2>2. Dist(p, After(q)) = d + 1
    BY WriterSteps
  <2>3. QED
    BY <2>1, <2>2
<1>1. /\ \A i \in 0..d : y(i) = x(i) /\ IsTerm(x(i))
      /\ \A i, j \in 0..d : i < j => x(j) = End \/ x(i)[1] < x(j)[1]
      /\ y(d + 1) = term /\ x(d) = m[<<s, q>>]
  BY <1>0 DEF InRing, SameBetween
<1>2. /\ Window(mm, s, p, After(q), taken) = {y(i) : i \in taken..d + 1} \ {End}
      /\ Window(m, s, p, q, taken) = {x(i) : i \in taken..d} \ {End}
  BY <1>0 DEF Window
<1> HIDE DEF x, y, d
<1>3. {y(i) : i \in taken..d + 1} = {x(i) : i \in taken..d} \cup {term}
  <2>1. /\ taken..d + 1 = (taken..d) \cup {d + 1}
        /\ taken..d \subseteq 0..d
    BY <1>0
  <2>2. QED
    BY <1>1, <2>1
<1>4. QED
  BY <1>2, <1>3 DEF With

\* The first term, or the end mark at once.
LEMMA RingFirst ==
  ASSUME NEW m, NEW s, NEW p \in Places, NEW term, m[<<s, p>>] = term, NEW ended \in BOOLEAN,
         IF ended THEN term = End ELSE IsTerm(term)
  PROVE  InRing(m, s, p, p, ended) /\ Window(m, s, p, p, 0) = {term} \ {End}
<1>1. Dist(p, p) = 0 /\ At(p, 0) = p /\ 0..0 = {0}
  BY RingFacts
<1>2. QED
  BY <1>1 DEF InRing, Window

\* The reader takes the term at its place, or goes on to the next.
LEMMA RingTake ==
  ASSUME NEW m, NEW s, NEW p \in Places, NEW q \in Places, NEW ended \in BOOLEAN,
         InRing(m, s, p, q, ended)
  PROVE  Window(m, s, p, q, 0) = Window(m, s, p, q, 1) \cup ({m[<<s, p>>]} \ {End})
<1>1. Dist(p, q) \in Nat /\ At(p, 0) = p
  BY RingFacts
<1>2. 0..Dist(p, q) = {0} \cup (1..Dist(p, q))
  BY <1>1
<1>3. QED
  BY <1>1, <1>2 DEF Window

LEMMA RingAdvance ==
  ASSUME NEW m, NEW s, NEW p \in Places, NEW q \in Places, NEW ended \in BOOLEAN,
         InRing(m, s, p, q, ended), p # q
  PROVE  /\ InRing(m, s, After(p), q, ended)
         /\ Window(m, s, After(p), q, 0) = Window(m, s, p, q, 1)
         /\ m[<<s, After(p)>>] = End \/ m[<<s, After(p)>>][1] > m[<<s, p>>][1]
<1> DEFINE d == Dist(p, q)
           x(i) == m[<<s, At(p, i)>>]
           z(i) == m[<<s, At(After(p), i)>>]
<1>0. /\ d \in Nat /\ d >= 1 /\ Dist(After(p), q) = d - 1
      /\ \A i \in 0..d - 1 : z(i) = x(i + 1)
      /\ z(0) = m[<<s, After(p)>>] /\ x(0) = m[<<s, p>>]
  <2>1. /\ Dist(After(p), q) = d - 1 /\ d \in 1..MasterNumBlocks - 1 /\ MasterNumBlocks \in Nat
        /\ \A i \in 0..Dist(After(p), q) : At(After(p), i) = At(p, i + 1)
    BY ReaderSteps, RingFacts
  <2>2. At(After(p), 0) = After(p) /\ At(p, 0) = p
    BY RingFacts
  <2>3. QED
    BY <2>1, <2>2
<1>1. /\ \A i \in 0..d : IF i = d /\ ended THEN x(i) = End ELSE IsTerm(x(i))
      /\ \A i, j \in 0..d : i < j => x(j) = End \/ x(i)[1] < x(j)[1]
      /\ Window(m, s, p, q, 1) = {x(i) : i \in 1..d} \ {End}
  BY DEF InRing, Window
<1>2. /\ InRing(m, s, After(p), q, ended) <=>
           /\ \A i \in 0..d - 1 : IF i = d - 1 /\ ended THEN z(i) = End ELSE IsTerm(z(i))
           /\ \A i, j \in 0..d - 1 : i < j => z(j) = End \/ z(i)[1] < z(j)[1]
      /\ Window(m, s, After(p), q, 0) = {z(i) : i \in 0..d - 1} \ {End}
  BY <1>0 DEF InRing, Window
<1> HIDE DEF x, z, d
<1>3. \A i \in 0..d - 1 : i + 1 \in 1..d /\ i + 1 \in 0..d
  BY <1>0
<1>4. ASSUME NEW i \in 0..d - 1 PROVE IF i = d - 1 /\ ended THEN z(i) = End ELSE IsTerm(z(i))
  <2>1. z(i) = x(i + 1) /\ i + 1 \in 0..d /\ (i = d - 1 <=> i + 1 = d)
    BY <1>0, <1>3
  <2>2. QED
    BY <1>1, <2>1
<1>5. ASSUME NEW i \in 0..d - 1, NEW j \in 0..d - 1, i < j PROVE z(j) = End \/ z(i)[1] < z(j)[1]
  <2>1. /\ z(i) = x(i + 1) /\ z(j) = x(j + 1) /\ i + 1 < j + 1
        /\ i + 1 \in 0..d /\ j + 1 \in 0..d
    BY <1>0, <1>3, <1>5
  <2>2. QED
    BY <1>1, <2>1
<1>6. {z(i) : i \in 0..d - 1} = {x(i) : i \in 1..d}
  <2>1. ASSUME NEW i \in 1..d PROVE i - 1 \in 0..d - 1 /\ x(i) = z(i - 1)
    <3>1. i - 1 \in 0..d - 1 /\ i - 1 + 1 = i
      BY <1>0
    <3>2. QED
      BY <1>0, <3>1
  <2>2. \A i \in 0..d - 1 : z(i) \in {x(j) : j \in 1..d}
    BY <1>0, <1>3
  <2>3. QED
    BY <2>1, <2>2
<1>7. z(0) = End \/ z(0)[1] > x(0)[1]
  <2>1. 0 \in 0..d /\ 1 \in 0..d /\ 0 < 1 /\ z(0) = x(0 + 1) /\ 0 + 1 = 1 /\ 0 \in 0..d - 1
    BY <1>0
  <2>2. x(1) = End \/ x(0)[1] < x(1)[1]
    BY <1>1, <2>1
  <2>3. x(1) = End \/ IsTerm(x(1))
    BY <1>1, <2>1
  <2>4. IsTerm(x(0))
    BY <1>0, <1>1, <2>1
  <2>5. QED
    BY <2>1, <2>2, <2>3, <2>4, TermFacts
<1>8. QED
  BY <1>0, <1>1, <1>2, <1>4, <1>5, <1>6, <1>7
-----------------------------------------------------------------------------
(* Streams, their writers and their readers *)

ReaderOf(s) == IF (s + 1) \div 2 = NumberOfWorkers - 1 THEN Master
               ELSE NumberOfWorkers + (s + 1) \div 2
InputNo(s) == IF s % 2 = 1 THEN 1 ELSE 2

\* The loop of SortBotMerge, and whether the reader of a stream is in it.
Loop == {"merge", "next1", "next2", "next12"}
ReaderIn(s) == \/ pc[ReaderOf(s)] \in Loop
               \/ pc[ReaderOf(s)] = "in2" /\ InputNo(s) = 1
ReadAt(s) == IF ReaderIn(s) THEN blin[ReaderOf(s)][InputNo(s)] ELSE 1
Front(s) == memory[<<s, ReadAt(s)>>]

\* The term at the place of the reader has been taken; the block behind is still held.
Consumed(s) == pc[ReaderOf(s)] \in (IF InputNo(s) = 1 THEN {"next1", "next12"}
                                    ELSE {"next2", "next12"})
HoldsBehind(s) == pc[ReaderOf(s)] \notin (IF InputNo(s) = 1 THEN {"next1", "next12"}
                                          ELSE {"next2"})

\* The writer of a stream has not yet begun; it has written the end mark.
Unstarted(s) == /\ s \in Workers
                /\ \/ pc[s] = "claim"
                   \/ AtMaster = "finish" /\ s >= target - NumberOfWorkers
Ended(s) ==
  IF s \in Workers THEN pc[s] = "idle" /\ ~Unstarted(s)
  ELSE Merging /\ s \in Called /\ wakeup[s] = "none" /\ pc[s] \in {"enter", "tell", "wait"}
MergeDone(r)  == IF r = Master THEN AtMaster \in {"waitend", "endasleep"} ELSE Ended(r)
ReaderDone(s) == MergeDone(ReaderOf(s))

WriterOK(s) ==
  ~Unstarted(s) =>
    /\ ~Ended(s) => MasterBlockLock[<<s, FillBlock[s]>>] = s
    /\ HoldsBehind(s) => FillBlock[s] # Before(ReadAt(s))
    /\ ~full[s] => FillBlock[s] = 1 /\ ~Ended(s)
    /\ full[s] => InRing(memory, s, ReadAt(s), FillBlock[s], Ended(s))

ReaderOK(s) ==
  /\ HoldsBehind(s) => MasterBlockLock[<<s, Before(ReadAt(s))>>] = ReaderOf(s)
  /\ ReaderIn(s) => /\ MasterBlockLock[<<s, ReadAt(s)>>] = ReaderOf(s)
                    /\ full[s] /\ ~Unstarted(s)
  /\ Consumed(s) => Front(s) # End

StreamOK(s) == IF ReaderDone(s) THEN Ended(s) ELSE WriterOK(s) /\ ReaderOK(s)

\* The terms that a stream has still to give to its reader.
Pending(s) == IF Unstarted(s) \/ ReaderDone(s) \/ ~full[s] THEN {}
              ELSE Window(memory, s, ReadAt(s), FillBlock[s], IF Consumed(s) THEN 1 ELSE 0)
Elements(sequence) == {sequence[i] : i \in DOMAIN sequence}
Todo(s) == IF s \in Workers THEN Elements(todo[s]) ELSE {}
Rest(s) == Pending(s) \cup Todo(s)

\* The key of the last term that has been written.
LastKey(s) == IF full[s] THEN memory[<<s, FillBlock[s]>>][1] ELSE 0
LastOut(r) == IF r # Master THEN LastKey(r)
              ELSE IF output = <<>> THEN 0 ELSE output[Len(output)][1]

InOrder(sequence) ==
  /\ \A i \in DOMAIN sequence : IsTerm(sequence[i])
  /\ \A i, j \in DOMAIN sequence : i < j => sequence[i][1] < sequence[j][1]

\* What a worker has written comes before what it will write.
WorkerOK(w) ==
  /\ todo[w] \in Seq(Nat \X Int) /\ InOrder(todo[w])
  /\ ~Unstarted(w) /\ ~Ended(w) => \A t \in Elements(todo[w]) : t[1] > LastKey(w)
  /\ Ended(w) => todo[w] = <<>>

\* What a merge has written comes before what it has not yet taken.
FrontOK(s) == IF Consumed(s) THEN Front(s)[1] >= LastOut(ReaderOf(s))
              ELSE Front(s) = End \/ Front(s)[1] > LastOut(ReaderOf(s))
NothingWritten(r) == IF r = Master THEN output = <<>> ELSE ~full[r] /\ FillBlock[r] = 1
MergerOK(r) ==
  /\ pc[r] \in Loop => \A n \in {1, 2} : FrontOK(SortBotIn(r, n))
  /\ pc[r] \notin Loop /\ ~MergeDone(r) => NothingWritten(r)
  /\ pc[r] = "in2" => blin[r] = <<1, 1>>

\* For each key nothing gets lost and nothing is added.
Coef(P, k) == IF \E t \in P : t[1] = k THEN (CHOOSE t \in P : t[1] = k)[2] ELSE 0
Rests(k) == [s \in Streams |-> Coef(Rest(s), k)]
Conserved ==
  \A k \in Nat \ {0} : Total(Rests(k), Streams) + Coef(Elements(output), k) = SumOf(k)

\* While the sortbots are initialized, and once the workers may write.
Prepared ==
  /\ input \in Inputs /\ todo = input /\ output = <<>>
  /\ \A t \in Called : pc[t] = "enter" \/ AtRest(t) => FillBlock[t] = 1 /\ ~full[t]
  /\ AtMaster \in {"last2", "waitini", "iniasleep"} =>
       MasterBlockLock[LastBlock(SortBotIn(Master, 1))] = Master
  /\ AtMaster \in {"waitini", "iniasleep"} =>
       MasterBlockLock[LastBlock(SortBotIn(Master, 2))] = Master

Active == Initialised \/ Merging
Flowing ==
  /\ input \in Inputs /\ output \in Seq(Nat \X Int) /\ InOrder(output)
  /\ \A s \in Streams : StreamOK(s)
  /\ \A w \in Workers : WorkerOK(w)
  /\ \A r \in Readers : MergerOK(r)

Stores == /\ DOMAIN todo = Workers
          /\ Merging => \A w \in Workers : pc[w] # "claim"
          /\ ~Active => \A w \in Workers : pc[w] = "idle"

SumInv ==
  /\ Stores
  /\ Initialising => Prepared
  /\ Active => Flowing /\ Conserved
  /\ AtMaster = "done" => IsMergeOf(output)
-----------------------------------------------------------------------------
(* The tree of streams *)

LEMMA StreamNumbers == Streams = 1..2 * NumberOfWorkers - 2
BY TreeAssumption DEF Streams, Workers, SortBots

LEMMA HalfOf ==
  ASSUME NEW s \in Nat
  PROVE  \E k \in Nat : /\ (s + 1) \div 2 = k
                        /\ s = 2 * (k - 1) + (IF s % 2 = 1 THEN 1 ELSE 2)
OBVIOUS

LEMMA TreeShape ==
  ASSUME NEW s \in Streams
  PROVE  /\ ReaderOf(s) \in Readers /\ InputNo(s) \in {1, 2} /\ ReaderOf(s) # s
         /\ SortBotIn(ReaderOf(s), InputNo(s)) = s
         /\ ReaderOf(s) = Master \/ (ReaderOf(s) \in SortBots /\ ReaderOf(s) > s)
<1>1. s \in Nat /\ 1 <= s /\ s <= 2 * NumberOfWorkers - 2
      /\ NumberOfWorkers \in Nat /\ NumberOfWorkers > 2
  BY StreamNumbers, TreeAssumption
<1>2. PICK k \in Nat : (s + 1) \div 2 = k /\ s = 2 * (k - 1) + (IF s % 2 = 1 THEN 1 ELSE 2)
  BY <1>1, HalfOf
<1>3. s = 2 * (k - 1) + InputNo(s) /\ InputNo(s) \in {1, 2}
  BY <1>2 DEF InputNo
<1> HIDE DEF InputNo
<1>4. k >= 1 /\ k <= NumberOfWorkers - 1
  BY <1>1, <1>3
<1>5. ReaderOf(s) = IF k = NumberOfWorkers - 1 THEN Master ELSE NumberOfWorkers + k
  BY <1>2 DEF ReaderOf
<1>6. CASE k = NumberOfWorkers - 1
  <2>1. ReaderOf(s) = Master /\ Master \in Readers /\ Master # s
    BY <1>1, <1>5, <1>6, ThreadFacts DEF Master
  <2>2. SortBotIn(Master, InputNo(s)) = s
    BY <1>1, <1>3, <1>6 DEF SortBotIn
  <2>3. QED
    BY <1>3, <2>1, <2>2
<1>7. CASE k # NumberOfWorkers - 1
  <2>1. ReaderOf(s) = NumberOfWorkers + k /\ NumberOfWorkers + k \in SortBots
        /\ NumberOfWorkers + k > s /\ NumberOfWorkers + k # Master
    BY <1>1, <1>3, <1>4, <1>5, <1>7 DEF SortBots, Master
  <2>2. SortBotIn(NumberOfWorkers + k, InputNo(s)) = s
    BY <1>1, <1>3, <2>1 DEF SortBotIn
  <2>3. QED
    BY <1>1, <1>3, <2>1, <2>2, ThreadFacts
<1>8. QED
  BY <1>6, <1>7

LEMMA InputShape ==
  ASSUME NEW r \in Readers, NEW n \in {1, 2}
  PROVE  /\ SortBotIn(r, n) \in Streams /\ SortBotIn(r, n) # r
         /\ ReaderOf(SortBotIn(r, n)) = r /\ InputNo(SortBotIn(r, n)) = n
         /\ SortBotIn(r, 1) # SortBotIn(r, 2)
         /\ \A s \in Streams : ReaderOf(s) = r => s = SortBotIn(r, 1) \/ s = SortBotIn(r, 2)
<1> DEFINE k == IF r = Master THEN NumberOfWorkers - 1 ELSE r - NumberOfWorkers
<1>1. NumberOfWorkers \in Nat /\ NumberOfWorkers > 2 /\ k \in Nat /\ k >= 1 /\ k <= NumberOfWorkers - 1
      /\ (r = Master <=> k = NumberOfWorkers - 1) /\ (r # Master => r = NumberOfWorkers + k)
  BY TreeAssumption DEF Readers, SortBots, Master
<1>2. \A i \in {1, 2} : SortBotIn(r, i) = 2 * (k - 1) + i
  BY DEF SortBotIn
<1> HIDE DEF k
<1>3. \A i \in {1, 2} : /\ 2 * (k - 1) + i \in Nat /\ (2 * (k - 1) + i + 1) \div 2 = k
                        /\ ((2 * (k - 1) + i) % 2 = 1 <=> i = 1)
  BY <1>1
<1>4. SortBotIn(r, n) \in Streams
  BY <1>1, <1>2, StreamNumbers
<1>5. ReaderOf(SortBotIn(r, n)) = r
  <2>1. (SortBotIn(r, n) + 1) \div 2 = k
    BY <1>2, <1>3
  <2>2. QED
    BY <1>1, <2>1 DEF ReaderOf
<1>6. InputNo(SortBotIn(r, n)) = n
  BY <1>2, <1>3 DEF InputNo
<1>7. SortBotIn(r, n) # r
  BY <1>4, <1>5, TreeShape
<1>8. SortBotIn(r, 1) # SortBotIn(r, 2)
  BY <1>1, <1>2
<1>9. ASSUME NEW s \in Streams, ReaderOf(s) = r PROVE s = SortBotIn(r, 1) \/ s = SortBotIn(r, 2)
  BY <1>9, TreeShape
<1>10. QED
  BY <1>4, <1>5, <1>6, <1>7, <1>8, <1>9

-----------------------------------------------------------------------------
(* A stream that a step leaves alone *)

SameReading(s) == /\ ReaderIn(s)' <=> ReaderIn(s)
                  /\ Consumed(s)' <=> Consumed(s)
                  /\ HoldsBehind(s)' <=> HoldsBehind(s)
                  /\ ReadAt(s)' = ReadAt(s)
                  /\ ReaderDone(s)' <=> ReaderDone(s)
SameWriting(s) == /\ Unstarted(s)' <=> Unstarted(s)
                  /\ Ended(s)' <=> Ended(s)
SameFill(s) == FillBlock'[s] = FillBlock[s] /\ full'[s] = full[s]
SameBlocks(s) == \A j \in Places : /\ memory'[<<s, j>>] = memory[<<s, j>>]
                                   /\ MasterBlockLock'[<<s, j>>] = MasterBlockLock[<<s, j>>]
Untouched(s) == SameReading(s) /\ SameWriting(s) /\ SameFill(s) /\ SameBlocks(s)

LEMMA StreamTypes ==
  ASSUME RingTypes, FullTypes, NEW s \in Streams
  PROVE  /\ ReadAt(s) \in Places /\ FillBlock[s] \in Places /\ full[s] \in BOOLEAN
         /\ Ended(s) \in BOOLEAN /\ Unstarted(s) \in BOOLEAN /\ Consumed(s) \in BOOLEAN
         /\ Consumed(s) => ReaderIn(s)
<1>1. blin[ReaderOf(s)] \in Places \X Places /\ InputNo(s) \in {1, 2} /\ 1 \in Places
  BY TreeShape, RingFacts DEF RingTypes, Places
<1>2. ReadAt(s) \in Places
  BY <1>1 DEF ReadAt
<1>3. FillBlock[s] \in Places /\ full[s] \in BOOLEAN
  BY DEF RingTypes, FullTypes, Places
<1>4. Ended(s) \in BOOLEAN /\ Unstarted(s) \in BOOLEAN /\ Consumed(s) \in BOOLEAN
  <2>1. Unstarted(s) \in BOOLEAN /\ Consumed(s) \in BOOLEAN
    BY DEF Unstarted, Consumed
  <2>2. Ended(s) \in BOOLEAN
    BY DEF Ended
  <2>3. QED
    BY <2>1, <2>2
<1>5. Consumed(s) => ReaderIn(s)
  BY DEF Consumed, ReaderIn, Loop
<1>6. QED
  BY <1>2, <1>3, <1>4, <1>5

LEMMA UntouchedKept ==
  ASSUME RingTypes, FullTypes, NEW s \in Streams, Untouched(s)
  PROVE  /\ Front(s)' = Front(s) /\ Pending(s)' = Pending(s) /\ LastKey(s)' = LastKey(s)
         /\ StreamOK(s) => StreamOK(s)'
<1>1. ReadAt(s) \in Places /\ FillBlock[s] \in Places /\ Before(ReadAt(s)) \in Places
  BY StreamTypes, RingFacts
<1>2. SameBetween(memory, memory', s, ReadAt(s), FillBlock[s])
  <2>1. Dist(ReadAt(s), FillBlock[s]) \in 0..MasterNumBlocks - 1
    BY <1>1, RingFacts
  <2>2. \A i \in 0..Dist(ReadAt(s), FillBlock[s]) : At(ReadAt(s), i) \in Places
    <3>1. ReadAt(s) \in Places /\ \A i \in 0..Dist(ReadAt(s), FillBlock[s]) : i \in 0..MasterNumBlocks - 1
      BY <1>1, <2>1, RingFacts
    <3>2. QED
      BY <3>1, PlacesApart
  <2>3. QED
    BY <2>2 DEF Untouched, SameBlocks, SameBetween
<1>3. /\ ReadAt(s)' = ReadAt(s) /\ (FillBlock[s])' = FillBlock[s] /\ full'[s] = full[s]
      /\ ReaderIn(s)' <=> ReaderIn(s)
      /\ Consumed(s)' <=> Consumed(s)
      /\ HoldsBehind(s)' <=> HoldsBehind(s)
      /\ ReaderDone(s)' <=> ReaderDone(s)
      /\ Unstarted(s)' <=> Unstarted(s)
      /\ Ended(s)' <=> Ended(s)
  BY DEF Untouched, SameReading, SameWriting, SameFill
<1>4. /\ MasterBlockLock'[<<s, FillBlock[s]>>] = MasterBlockLock[<<s, FillBlock[s]>>]
      /\ MasterBlockLock'[<<s, ReadAt(s)>>] = MasterBlockLock[<<s, ReadAt(s)>>]
      /\ MasterBlockLock'[<<s, Before(ReadAt(s))>>] = MasterBlockLock[<<s, Before(ReadAt(s))>>]
      /\ memory'[<<s, ReadAt(s)>>] = memory[<<s, ReadAt(s)>>]
  BY <1>1 DEF Untouched, SameBlocks
<1>5. Front(s)' = Front(s)
  BY <1>3, <1>4 DEF Front
<1>6. \A taken \in {0, 1} : Window(memory', s, ReadAt(s), FillBlock[s], taken)
                             = Window(memory, s, ReadAt(s), FillBlock[s], taken)
  BY <1>1, <1>2, RingUnchanged
<1>7. InRing(memory', s, ReadAt(s), FillBlock[s], Ended(s)) <=> InRing(memory, s, ReadAt(s), FillBlock[s], Ended(s))
  BY <1>1, <1>2, RingUnchanged
<1>8. InRing(memory, s, ReadAt(s), FillBlock[s], Ended(s))' <=> InRing(memory, s, ReadAt(s), FillBlock[s], Ended(s))
  <2>1. Ended(s) \in BOOLEAN /\ Ended(s)' \in BOOLEAN
    BY DEF Ended
  <2>2. Ended(s)' = Ended(s)
    BY <1>3, <2>1
  <2>3. QED
    BY <1>3, <1>7, <2>2
<1>9. Pending(s)' = Pending(s)
  BY <1>3, <1>6 DEF Pending
<1>10. WriterOK(s) => WriterOK(s)'
  BY <1>3, <1>4, <1>8 DEF WriterOK
<1>11. ReaderOK(s) => ReaderOK(s)'
  BY <1>3, <1>4, <1>5 DEF ReaderOK
<1>12. LastKey(s)' = LastKey(s)
  BY <1>1, <1>3 DEF LastKey, Untouched, SameBlocks
<1>13. QED
  BY <1>3, <1>5, <1>9, <1>10, <1>11, <1>12 DEF StreamOK
-----------------------------------------------------------------------------
(* Coefficients *)

LEMMA SumOfSame ==
  ASSUME input' = input, NEW k
  PROVE  SumOf(k)' = SumOf(k)
<1>1. \A w : CoefficientOf(w, k)' = CoefficientOf(w, k)
  BY DEF CoefficientOf
<1> DEFINE c(s) == CHOOSE x \in s : TRUE
           F(g) == g = [s \in SUBSET Workers |-> IF s = {} THEN 0
                          ELSE CoefficientOf(c(s), k) + g[s \ {c(s)}]]
           G(g) == g = [s \in SUBSET Workers |-> IF s = {} THEN 0
                          ELSE CoefficientOf(c(s), k)' + g[s \ {c(s)}]]
<1>2. SumOf(k) = (CHOOSE g : F(g))[Workers]
  BY Zenon DEF SumOf, FoldSet, MapThenFoldSet
<1>3. SumOf(k)' = (CHOOSE g : G(g))[Workers]
  BY Zenon DEF SumOf, FoldSet, MapThenFoldSet
<1>4. \A g : F(g) <=> G(g)
  BY <1>1
<1> HIDE DEF F, G
<1>5. (CHOOSE g : F(g)) = (CHOOSE g : G(g))
  BY <1>4
<1>6. QED
  BY <1>2, <1>3, <1>5

LEMMA CoefType ==
  ASSUME NEW P, \A u \in P : IsTerm(u), NEW k
  PROVE  Coef(P, k) \in Int
<1>1. CASE \E t \in P : t[1] = k
  <2>1. (CHOOSE t \in P : t[1] = k) \in P
    BY <1>1
  <2>2. QED
    BY <1>1, <2>1, TermFacts DEF Coef
<1>2. CASE ~ \E t \in P : t[1] = k
  BY <1>2 DEF Coef
<1>3. QED
  BY <1>1, <1>2

LEMMA CoefOfNone == \A k : Coef({}, k) = 0
BY DEF Coef

\* A term with a new key.
LEMMA CoefOfMore ==
  ASSUME NEW P, NEW t, \A u \in P : u[1] # t[1], NEW k
  PROVE  /\ Coef(P \cup {t}, k) = IF k = t[1] THEN t[2] ELSE Coef(P, k)
         /\ k = t[1] => Coef(P, k) = 0
<1>1. CASE k = t[1]
  <2>1. \A u : u \in P \cup {t} /\ u[1] = k <=> u = t
    BY <1>1
  <2>2. (CHOOSE u \in P \cup {t} : u[1] = k) = t
    BY <2>1
  <2>3. QED
    BY <1>1, <2>1, <2>2 DEF Coef
<1>2. CASE k # t[1]
  <2>1. \A u : u \in P \cup {t} /\ u[1] = k <=> u \in P /\ u[1] = k
    BY <1>2
  <2>2. (CHOOSE u : u \in P \cup {t} /\ u[1] = k) = (CHOOSE u : u \in P /\ u[1] = k)
    BY <2>1
  <2>3. (CHOOSE u \in P \cup {t} : u[1] = k) = (CHOOSE u \in P : u[1] = k)
    BY <2>2
  <2>4. QED
    BY <1>2, <2>1, <2>3 DEF Coef
<1>3. QED
  BY <1>1, <1>2

RestsAreTerms == \A s \in Streams : \A u \in Rest(s) : IsTerm(u)

LEMMA RestsType ==
  ASSUME RestsAreTerms, NEW k
  PROVE  Rests(k) \in [Streams -> Int] /\ \A s \in Streams : Rests(k)[s] = Coef(Rest(s), k)
<1>1. \A s \in Streams : Coef(Rest(s), k) \in Int
  BY CoefType DEF RestsAreTerms
<1>2. QED
  BY <1>1 DEF Rests

\* The coefficients of three streams and of the output change, with the same sum.
LEMMA ConservedKept ==
  ASSUME Conserved, RestsAreTerms, RestsAreTerms', input' = input,
         NEW a \in Streams, NEW b \in Streams, NEW c \in Streams, a # b, a # c, b # c,
         \A s \in Streams \ {a, b, c} : Rest(s)' = Rest(s),
         \A u \in Elements(output) : IsTerm(u), \A u \in Elements(output') : IsTerm(u),
         \A k \in Nat \ {0} :
           Coef(Rest(a)', k) + Coef(Rest(b)', k) + Coef(Rest(c)', k) + Coef(Elements(output'), k)
             = Coef(Rest(a), k) + Coef(Rest(b), k) + Coef(Rest(c), k) + Coef(Elements(output), k)
  PROVE  Conserved'
<1> SUFFICES ASSUME NEW k \in Nat \ {0}
             PROVE  Total(Rests(k)', Streams) + Coef(Elements(output'), k) = SumOf(k)'
  BY DEF Conserved
<1>1. Total(Rests(k), Streams) + Coef(Elements(output), k) = SumOf(k)
  BY DEF Conserved
<1> DEFINE f == Rests(k)
           g == Rests(k)'
           f1 == [f EXCEPT ![a] = g[a]]
           f2 == [f1 EXCEPT ![b] = g[b]]
           f3 == [f2 EXCEPT ![c] = g[c]]
<1>2. f \in [Streams -> Int] /\ \A s \in Streams : f[s] = Coef(Rest(s), k)
  BY RestsType
<1>3. g \in [Streams -> Int] /\ \A s \in Streams : g[s] = Coef(Rest(s)', k)
  <2>1. \A s \in Streams : Coef(Rest(s)', k) \in Int
    BY CoefType DEF RestsAreTerms
  <2>2. QED
    BY <2>1 DEF Rests
<1> HIDE DEF f, g
<1>4. f1 \in [Streams -> Int] /\ f2 \in [Streams -> Int] /\ f3 = g
  <2>1. f1 \in [Streams -> Int] /\ f2 \in [Streams -> Int] /\ f3 \in [Streams -> Int]
    BY <1>2, <1>3
  <2>2. \A s \in Streams : f3[s] = g[s]
    BY <1>2, <1>3
  <2>3. QED
    BY <1>3, <2>1, <2>2
<1>5. f1[b] = f[b] /\ f2[c] = f[c]
  BY <1>2, <1>4
<1>6. Total(f, Streams) \in Int /\ Total(f1, Streams) = Total(f, Streams) - f[a] + g[a]
  <2>1. /\ f \in [Streams -> Int] /\ f1 \in [Streams -> Int] /\ f1[a] = g[a]
        /\ \A y \in Streams : y # a => f1[y] = f[y]
    BY <1>2, <1>3, <1>4
  <2> HIDE DEF f1
  <2>2. QED
    BY <2>1, StreamsFinite, TotalChanges
<1>7. Total(f1, Streams) \in Int /\ Total(f2, Streams) = Total(f1, Streams) - f1[b] + g[b]
  <2>1. /\ f1 \in [Streams -> Int] /\ f2 \in [Streams -> Int] /\ f2[b] = g[b]
        /\ \A y \in Streams : y # b => f2[y] = f1[y]
    BY <1>2, <1>3, <1>4
  <2> HIDE DEF f1, f2
  <2>2. QED
    BY <2>1, StreamsFinite, TotalChanges
<1>8. Total(f2, Streams) \in Int /\ Total(f3, Streams) = Total(f2, Streams) - f2[c] + g[c]
  <2>1. /\ f2 \in [Streams -> Int] /\ f3 \in [Streams -> Int] /\ f3[c] = g[c]
        /\ \A y \in Streams : y # c => f3[y] = f2[y]
    BY <1>2, <1>3, <1>4
  <2> HIDE DEF f2, f3
  <2>2. QED
    BY <2>1, StreamsFinite, TotalChanges
<1> HIDE DEF f1, f2, f3
<1>9. /\ f[a] \in Int /\ f[b] \in Int /\ f[c] \in Int /\ g[a] \in Int /\ g[b] \in Int /\ g[c] \in Int
      /\ Coef(Elements(output), k) \in Int /\ Coef(Elements(output'), k) \in Int
  BY <1>2, <1>3, CoefType
<1>10. g[a] + g[b] + g[c] + Coef(Elements(output'), k) = f[a] + f[b] + f[c] + Coef(Elements(output), k)
  BY <1>2, <1>3
<1>11. Total(g, Streams) = Total(f, Streams) - f[a] + g[a] - f[b] + g[b] - f[c] + g[c]
  BY <1>4, <1>5, <1>6, <1>7, <1>8, <1>9
<1>12. Total(g, Streams) + Coef(Elements(output'), k) = SumOf(k)
  BY <1>1, <1>6, <1>9, <1>10, <1>11 DEF f
<1>13. QED
  BY <1>12, SumOfSame DEF g
-----------------------------------------------------------------------------
(* Steps of one stream *)

LEMMA NotTheReader ==
  ASSUME NEW s \in Streams
  PROVE  /\ ReaderOf(s) # s /\ ReaderOf(s) # Free /\ s # Free
         /\ ~ReaderIn(s) => HoldsBehind(s) /\ ~Consumed(s) /\ ReadAt(s) = 1
BY TreeShape, ThreadFacts DEF ReaderIn, HoldsBehind, Consumed, ReadAt, Loop

\* The writer puts a term or the end mark.
LEMMA PutStream ==
  ASSUME RingTypes, FullTypes, NEW s \in Streams, StreamOK(s), ~ReaderDone(s), ~Unstarted(s),
         ~Ended(s), SameReading(s), ~Unstarted(s)', NEW term,
         full[s] => IsFree(<<s, NextFill(s)>>),
         FillBlock'[s] = NextFill(s), full'[s] = TRUE, memory'[<<s, NextFill(s)>>] = term,
         \A j \in Places : j # NextFill(s) => memory'[<<s, j>>] = memory[<<s, j>>],
         ~Ended(s)' => MasterBlockLock'[<<s, NextFill(s)>>] = s,
         \A j \in Places : j # NextFill(s) /\ j # FillBlock[s] =>
                             MasterBlockLock'[<<s, j>>] = MasterBlockLock[<<s, j>>],
         IF Ended(s)' THEN term = End ELSE IsTerm(term) /\ term[1] > LastKey(s)
  PROVE  /\ StreamOK(s)' /\ Pending(s)' = Pending(s) \cup ({term} \ {End})
         /\ ReaderIn(s) => Front(s)' = Front(s)
         /\ LastKey(s)' = term[1]
         /\ \A u \in Pending(s) : u[1] <= LastKey(s)
<1> DEFINE p == ReadAt(s)
           q == FillBlock[s]
           qq == NextFill(s)
           taken == IF Consumed(s) THEN 1 ELSE 0
<1>1. p \in Places /\ q \in Places /\ full[s] \in BOOLEAN /\ Ended(s)' \in BOOLEAN
      /\ Before(p) \in Places /\ taken \in {0, 1} /\ (Consumed(s) => ReaderIn(s))
  <2>1. Ended(s)' \in BOOLEAN
    BY DEF Ended
  <2>2. QED
    BY <2>1, StreamTypes, RingFacts
<1>2. WriterOK(s) /\ ReaderOK(s)
  BY DEF StreamOK
<1>3. MasterBlockLock[<<s, q>>] = s /\ (HoldsBehind(s) => q # Before(p))
      /\ (~full[s] => q = 1) /\ (full[s] => InRing(memory, s, p, q, Ended(s)))
  BY <1>2 DEF WriterOK
<1>4. /\ HoldsBehind(s) => MasterBlockLock[<<s, Before(p)>>] = ReaderOf(s)
      /\ ReaderIn(s) => MasterBlockLock[<<s, p>>] = ReaderOf(s) /\ full[s]
      /\ Consumed(s) => Front(s) # End
  BY <1>2 DEF ReaderOK
<1>5. qq = (IF full[s] THEN After(q) ELSE q) /\ qq \in Places
  BY <1>1, RingFacts DEF NextFill
<1>6. /\ ReaderIn(s) => p # q /\ p # qq
      /\ HoldsBehind(s) => Before(p) # q /\ Before(p) # qq
      /\ full[s] => After(q) # p
  <2>1. ReaderIn(s) => p # q
    BY <1>3, <1>4, NotTheReader
  <2>2. full[s] => MasterBlockLock[<<s, qq>>] = Free
    BY DEF IsFree
  <2>3. ReaderIn(s) => p # qq
    BY <1>4, <2>2, NotTheReader
  <2>4. HoldsBehind(s) => Before(p) # q /\ Before(p) # qq
    BY <1>3, <1>4, <1>5, <2>2, NotTheReader
  <2>5. full[s] => After(q) # p
    BY <1>1, <1>5, <2>3, <2>4, NotTheReader, RingFacts
  <2>6. QED
    BY <2>1, <2>3, <2>4, <2>5
<1>7. Front(s)' = memory'[<<s, p>>]
  BY DEF Front, SameReading
<1>8. ReaderIn(s) => Front(s)' = Front(s)
  BY <1>1, <1>6, <1>7 DEF Front
<1>9. /\ InRing(memory', s, p, qq, Ended(s)')
      /\ Window(memory', s, p, qq, taken) = Pending(s) \cup ({term} \ {End})
  <2>1. CASE full[s]
    <3>1. \A i \in 0..Dist(p, q) : memory'[<<s, At(p, i)>>] = memory[<<s, At(p, i)>>]
      <4>1. \A i \in 0..Dist(p, q) : At(p, i) # After(q)
        BY <1>1, <1>6, <2>1, WriterSteps
      <4>2. \A i \in 0..Dist(p, q) : i \in 0..MasterNumBlocks - 1
        BY <1>1, RingFacts
      <4>3. \A i \in 0..Dist(p, q) : At(p, i) \in Places
        BY <1>1, <4>2, PlacesApart
      <4>4. QED
        BY <1>5, <2>1, <4>1, <4>3
    <3>2. InRing(memory, s, p, q, FALSE)
      <4>1. Ended(s) = FALSE
        BY StreamTypes
      <4>2. QED
        BY <1>3, <2>1, <4>1
    <3>3. IF Ended(s)' THEN term = End ELSE IsTerm(term) /\ term[1] > memory[<<s, q>>][1]
      BY <2>1 DEF LastKey
    <3>4. After(q) # p /\ qq = After(q) /\ memory'[<<s, After(q)>>] = term
      BY <1>5, <1>6, <2>1
    <3>5. /\ InRing(memory', s, p, After(q), Ended(s)')
          /\ Window(memory', s, p, After(q), taken) = Window(memory, s, p, q, taken) \cup ({term} \ {End})
      <4> DEFINE ended == Ended(s)'
                 mm == memory'
      <4>1. /\ p \in Places /\ q \in Places /\ taken \in {0, 1} /\ ended \in BOOLEAN
            /\ Put(memory, mm, s, p, q, term, ended)
        BY <1>1, <3>1, <3>2, <3>3, <3>4 DEF SameBetween, Put
      <4> HIDE DEF p, q, qq, taken, ended, mm
      <4>2. /\ InRing(mm, s, p, After(q), ended)
            /\ Window(mm, s, p, After(q), taken) = Window(memory, s, p, q, taken) \cup ({term} \ {End})
        <5>1. InRing(mm, s, p, After(q), ended)
          BY <4>1, RingPut
        <5>2. Window(mm, s, p, After(q), taken) = Window(memory, s, p, q, taken) \cup ({term} \ {End})
          <6>1. Window(mm, s, p, After(q), taken) = With(Window(memory, s, p, q, taken), term)
            BY <4>1, WindowPut
          <6>2. QED
            BY <6>1 DEF With
        <5>3. QED
          BY <5>1, <5>2
      <4>3. QED
        BY <4>2 DEF ended, mm
    <3>6. Pending(s) = Window(memory, s, p, q, taken)
      BY <2>1 DEF Pending
    <3>7. QED
      BY <3>4, <3>5, <3>6
  <2>2. CASE ~full[s]
    <3>1. ~ReaderIn(s) /\ p = 1 /\ q = 1 /\ qq = 1 /\ ~Consumed(s) /\ taken = 0
      BY <1>3, <1>4, <1>5, <2>2, NotTheReader
    <3>2. Pending(s) = {}
      BY <2>2 DEF Pending
    <3>3. memory'[<<s, p>>] = term
      BY <3>1
    <3>4. InRing(memory', s, p, p, Ended(s)') /\ Window(memory', s, p, p, 0) = {term} \ {End}
      <4> HIDE DEF p, q, taken
      <4>1. QED
        BY <1>1, <3>3, RingFirst
    <3>5. QED
      BY <3>1, <3>2, <3>4
  <2>3. QED
    BY <1>1, <2>1, <2>2
<1>10. /\ ReadAt(s)' = p /\ (FillBlock[s])' = qq /\ full'[s] /\ ~ReaderDone(s)' /\ ~Unstarted(s)'
       /\ ReaderIn(s)' <=> ReaderIn(s)
       /\ Consumed(s)' <=> Consumed(s)
       /\ HoldsBehind(s)' <=> HoldsBehind(s)
  BY DEF SameReading
<1>11. Pending(s)' = Pending(s) \cup ({term} \ {End})
  BY <1>9, <1>10 DEF Pending
<1>12. WriterOK(s)'
  BY <1>6, <1>9, <1>10 DEF WriterOK
<1>13. ReaderOK(s)'
  <2>1. HoldsBehind(s) => MasterBlockLock'[<<s, Before(p)>>] = ReaderOf(s)
    BY <1>1, <1>4, <1>6
  <2>2. ReaderIn(s) => MasterBlockLock'[<<s, p>>] = ReaderOf(s)
    BY <1>1, <1>4, <1>6
  <2>3. Consumed(s) => Front(s)' # End
    BY <1>1, <1>4, <1>8
  <2>4. QED
    BY <1>10, <2>1, <2>2, <2>3 DEF ReaderOK
<1>14. StreamOK(s)'
  BY <1>10, <1>12, <1>13 DEF StreamOK
<1>15. LastKey(s)' = term[1]
  BY <1>10 DEF LastKey
<1>16. \A u \in Pending(s) : u[1] <= LastKey(s)
  <2>1. CASE full[s]
    <3>1. Pending(s) \subseteq Window(memory, s, p, q, 0)
      <4>1. Pending(s) = Window(memory, s, p, q, taken)
        BY <2>1 DEF Pending
      <4>2. taken..Dist(p, q) \subseteq 0..Dist(p, q)
        BY <1>1, RingFacts
      <4>3. QED
        BY <4>1, <4>2 DEF Window
    <3>2. InRing(memory, s, p, q, FALSE) /\ FALSE \in BOOLEAN
      <4>1. Ended(s) = FALSE
        BY StreamTypes
      <4>2. QED
        BY <1>3, <2>1, <4>1
    <3>3. \A u \in Window(memory, s, p, q, 0) : u[1] <= memory[<<s, q>>][1]
      <4> HIDE DEF p, q
      <4>1. QED
        BY <1>1, <3>2, WindowOrder
    <3>4. QED
      BY <2>1, <3>1, <3>3 DEF LastKey
  <2>2. CASE ~full[s]
    BY <2>2 DEF Pending
  <2>3. QED
    BY <1>1, <2>1, <2>2
<1>17. QED
  BY <1>8, <1>11, <1>14, <1>15, <1>16
\* The first block of a stream is claimed by its writer, a worker.
LEMMA StartStream ==
  ASSUME RingTypes, FullTypes, NEW s \in Streams, StreamOK(s), ~ReaderDone(s), Unstarted(s),
         SameReading(s), ~Unstarted(s)', ~Ended(s)',
         FillBlock'[s] = 1, full'[s] = FALSE, MasterBlockLock'[<<s, 1>>] = s,
         \A j \in Places : memory'[<<s, j>>] = memory[<<s, j>>],
         \A j \in Places : j # 1 => MasterBlockLock'[<<s, j>>] = MasterBlockLock[<<s, j>>]
  PROVE  StreamOK(s)' /\ Pending(s)' = Pending(s) /\ ~ReaderIn(s) /\ LastKey(s)' = 0
<1>1. ReaderOK(s) /\ ~ReaderIn(s)
  BY DEF StreamOK, ReaderOK
<1>2. ~Consumed(s) /\ HoldsBehind(s) /\ ReadAt(s) = 1
  BY <1>1, NotTheReader
<1>3. Before(1) \in Places /\ Before(1) # 1
  BY RingFacts
<1>4. /\ ReadAt(s)' = 1 /\ (FillBlock[s])' = 1 /\ ~full'[s] /\ ~ReaderDone(s)' /\ ~Unstarted(s)'
      /\ ~ReaderIn(s)' /\ ~Consumed(s)' /\ HoldsBehind(s)' /\ ~Ended(s)'
  BY <1>1, <1>2 DEF SameReading
<1>5. WriterOK(s)'
  BY <1>3, <1>4 DEF WriterOK
<1>6. ReaderOK(s)'
  BY <1>1, <1>2, <1>3, <1>4 DEF ReaderOK
<1>7. Pending(s)' = {} /\ Pending(s) = {}
  BY <1>4 DEF Pending
<1>8. LastKey(s)' = 0
  BY <1>4 DEF LastKey
<1>9. QED
  BY <1>1, <1>4, <1>5, <1>6, <1>7, <1>8 DEF StreamOK

\* The reader locks the first block: its writer has left it.
LEMMA EnterStream ==
  ASSUME RingTypes, FullTypes, NEW s \in Streams, StreamOK(s), ~ReaderDone(s), ~Unstarted(s),
         ~ReaderIn(s), ReaderIn(s)', ReadAt(s)' = 1, ~Consumed(s)', ~ReaderDone(s)',
         IsFree(FirstBlock(s)), SameWriting(s), SameFill(s),
         MasterBlockLock'[<<s, 1>>] = ReaderOf(s),
         \A j \in Places : memory'[<<s, j>>] = memory[<<s, j>>],
         \A j \in Places : j # 1 => MasterBlockLock'[<<s, j>>] = MasterBlockLock[<<s, j>>]
  PROVE  /\ StreamOK(s)' /\ Pending(s)' = Pending(s)
         /\ Front(s)' = End \/ IsTerm(Front(s)')
<1> DEFINE q == FillBlock[s]
<1>1. WriterOK(s) /\ ReaderOK(s) /\ ~Consumed(s) /\ HoldsBehind(s) /\ ReadAt(s) = 1
  BY NotTheReader DEF StreamOK
<1>2. 1 \in Places /\ q \in Places /\ Before(1) \in Places /\ Before(1) # 1
      /\ Ended(s) \in BOOLEAN /\ full[s] \in BOOLEAN
  BY StreamTypes, RingFacts
<1>3. MasterBlockLock[<<s, 1>>] = Free /\ s # Free
  BY NotTheReader DEF IsFree, FirstBlock
<1>4. full[s] /\ InRing(memory, s, 1, q, Ended(s)) /\ q # Before(1)
      /\ (~Ended(s) => MasterBlockLock[<<s, q>>] = s /\ q # 1)
  BY <1>1, <1>2, <1>3 DEF WriterOK
<1>5. SameBetween(memory, memory', s, 1, q)
  <2>1. \A i \in 0..Dist(1, q) : i \in 0..MasterNumBlocks - 1
    BY <1>2, RingFacts
  <2>2. \A i \in 0..Dist(1, q) : At(1, i) \in Places
    BY <1>2, <2>1, PlacesApart
  <2>3. QED
    BY <2>2 DEF SameBetween
<1>6. /\ (FillBlock[s])' = q /\ full'[s] /\ ~Unstarted(s)' /\ (Ended(s)' <=> Ended(s))
      /\ Ended(s)' = Ended(s) /\ HoldsBehind(s)' \in BOOLEAN /\ ReaderOf(s)' = ReaderOf(s)
  <2>1. Ended(s)' \in BOOLEAN
    BY DEF Ended
  <2>2. ReaderOf(s)' = ReaderOf(s)
    BY DEF ReaderOf
  <2>3. HoldsBehind(s)' \in BOOLEAN
    BY DEF HoldsBehind
  <2>4. QED
    BY <1>2, <1>4, <2>1, <2>2, <2>3 DEF SameWriting, SameFill
<1>7. /\ InRing(memory', s, 1, q, Ended(s))
      /\ Window(memory', s, 1, q, 0) = Window(memory, s, 1, q, 0)
  <2> HIDE DEF q
  <2>1. QED
    BY <1>2, <1>4, <1>5, RingUnchanged
<1>8. WriterOK(s)'
  BY <1>2, <1>4, <1>6, <1>7 DEF WriterOK
<1>9. ReaderOK(s)'
  BY <1>1, <1>2, <1>6 DEF ReaderOK
<1>10. Pending(s)' = Pending(s)
  BY <1>1, <1>4, <1>6, <1>7 DEF Pending
<1>11. Front(s)' = End \/ IsTerm(Front(s)')
  <2>1. Front(s)' = memory[<<s, 1>>]
    BY <1>2 DEF Front
  <2>2. memory[<<s, 1>>] = End \/ IsTerm(memory[<<s, 1>>])
    <3> HIDE DEF q
    <3>1. QED
      BY <1>2, <1>4, RingEnds
  <2>3. QED
    BY <2>1, <2>2
<1>12. QED
  BY <1>8, <1>9, <1>10, <1>11 DEF StreamOK

\* The term at the place of the reader has been taken, and the block behind may be released.
LEMMA TakeStream ==
  ASSUME RingTypes, FullTypes, NEW s \in Streams, StreamOK(s), ~ReaderDone(s),
         ReaderIn(s), Front(s) # End, HoldsBehind(s),
         ReaderIn(s)', Consumed(s)', ReadAt(s)' = ReadAt(s), ~ReaderDone(s)',
         SameWriting(s), SameFill(s),
         \A j \in Places : j # Before(ReadAt(s)) => memory'[<<s, j>>] = memory[<<s, j>>],
         \A j \in Places : j # Before(ReadAt(s)) \/ HoldsBehind(s)' =>
                             MasterBlockLock'[<<s, j>>] = MasterBlockLock[<<s, j>>]
  PROVE  /\ StreamOK(s)' /\ Front(s)' = Front(s) /\ LastKey(s)' = LastKey(s)
         /\ Pending(s)' = Window(memory, s, ReadAt(s), FillBlock[s], 1)
<1> DEFINE p == ReadAt(s)
           q == FillBlock[s]
<1>1. WriterOK(s) /\ ReaderOK(s)
  BY DEF StreamOK
<1>2. p \in Places /\ q \in Places /\ Before(p) \in Places /\ Before(p) # p
      /\ Ended(s) \in BOOLEAN /\ full[s] \in BOOLEAN
  BY StreamTypes, RingFacts
<1>3. /\ full[s] /\ ~Unstarted(s) /\ MasterBlockLock[<<s, p>>] = ReaderOf(s)
      /\ MasterBlockLock[<<s, Before(p)>>] = ReaderOf(s)
  BY <1>1 DEF ReaderOK
<1>4. InRing(memory, s, p, q, Ended(s)) /\ q # Before(p) /\ (~Ended(s) => MasterBlockLock[<<s, q>>] = s)
  BY <1>1, <1>3 DEF WriterOK
<1>5. SameBetween(memory, memory', s, p, q)
  <2>1. \A i \in 0..Dist(p, q) : i \in 0..MasterNumBlocks - 1
    BY <1>2, RingFacts
  <2>2. \A i \in 0..Dist(p, q) : At(p, i) \in Places
    BY <1>2, <2>1, PlacesApart
  <2>3. \A i \in 0..Dist(p, q) : At(p, i) # Before(p)
    BY <1>2, <1>4, BehindIsOutside
  <2>4. QED
    BY <2>2, <2>3 DEF SameBetween
<1>6. /\ (FillBlock[s])' = q /\ full'[s] /\ ~Unstarted(s)' /\ Ended(s)' = Ended(s)
      /\ ReaderOf(s)' = ReaderOf(s) /\ ReadAt(s)' = p
  <2>1. Ended(s)' \in BOOLEAN
    BY DEF Ended
  <2>2. ReaderOf(s)' = ReaderOf(s)
    BY DEF ReaderOf
  <2>3. QED
    BY <1>2, <1>3, <2>1, <2>2 DEF SameWriting, SameFill
<1>7. /\ InRing(memory', s, p, q, Ended(s))
      /\ Window(memory', s, p, q, 1) = Window(memory, s, p, q, 1)
  <2> HIDE DEF p, q
  <2>1. QED
    BY <1>2, <1>4, <1>5, RingUnchanged
<1>8. Front(s)' = Front(s)
  BY <1>2, <1>6 DEF Front
<1>9. WriterOK(s)'
  BY <1>2, <1>4, <1>6, <1>7 DEF WriterOK
<1>10. ReaderOK(s)'
  BY <1>2, <1>3, <1>6, <1>8 DEF ReaderOK
<1>11. Pending(s)' = Window(memory, s, p, q, 1)
  BY <1>6, <1>7 DEF Pending
<1>12. LastKey(s)' = LastKey(s)
  BY <1>2, <1>3, <1>4, <1>6 DEF LastKey
<1>13. QED
  BY <1>8, <1>9, <1>10, <1>11, <1>12 DEF StreamOK

\* The reader locks the next block and goes on to it.
LEMMA AdvanceStream ==
  ASSUME RingTypes, FullTypes, NEW s \in Streams, StreamOK(s), ~ReaderDone(s),
         ReaderIn(s), Consumed(s), ReaderIn(s)', ~Consumed(s)', ReadAt(s)' = After(ReadAt(s)),
         ~ReaderDone(s)', IsFree(<<s, After(ReadAt(s))>>), SameWriting(s), SameFill(s),
         \A j \in Places : memory'[<<s, j>>] = memory[<<s, j>>],
         MasterBlockLock'[<<s, After(ReadAt(s))>>] = ReaderOf(s),
         \A j \in Places : j # After(ReadAt(s)) =>
                             MasterBlockLock'[<<s, j>>] = MasterBlockLock[<<s, j>>]
  PROVE  /\ StreamOK(s)' /\ Pending(s)' = Pending(s)
         /\ Front(s)' = End \/ (IsTerm(Front(s)') /\ Front(s)'[1] > Front(s)[1])
<1> DEFINE p == ReadAt(s)
           q == FillBlock[s]
<1>1. WriterOK(s) /\ ReaderOK(s)
  BY DEF StreamOK
<1>2. /\ p \in Places /\ q \in Places /\ After(p) \in Places /\ After(p) # p /\ Before(After(p)) = p
      /\ Ended(s) \in BOOLEAN /\ full[s] \in BOOLEAN
  BY StreamTypes, RingFacts
<1>3. /\ full[s] /\ ~Unstarted(s) /\ MasterBlockLock[<<s, p>>] = ReaderOf(s) /\ Front(s) # End
  BY <1>1 DEF ReaderOK
<1>4. InRing(memory, s, p, q, Ended(s)) /\ (~Ended(s) => MasterBlockLock[<<s, q>>] = s)
  BY <1>1, <1>3 DEF WriterOK
<1>5. p # q
  <2>1. CASE Ended(s)
    <3>1. memory[<<s, q>>] = End
      <4> HIDE DEF p, q
      <4>1. QED
        BY <1>2, <1>4, <2>1, RingEnds
    <3>2. QED
      BY <1>3, <3>1 DEF Front
  <2>2. CASE ~Ended(s)
    BY <1>3, <1>4, <2>2, NotTheReader
  <2>3. QED
    BY <2>1, <2>2
<1>6. ~Ended(s) => q # After(p)
  BY <1>4, NotTheReader DEF IsFree
<1>7. /\ (FillBlock[s])' = q /\ full'[s] /\ ~Unstarted(s)' /\ Ended(s)' = Ended(s)
      /\ ReaderOf(s)' = ReaderOf(s) /\ ReadAt(s)' = After(p)
  <2>1. Ended(s)' \in BOOLEAN
    BY DEF Ended
  <2>2. ReaderOf(s)' = ReaderOf(s)
    BY DEF ReaderOf
  <2>3. QED
    BY <1>2, <1>3, <2>1, <2>2 DEF SameWriting, SameFill
<1>8. SameBetween(memory, memory', s, After(p), q)
  <2>1. \A i \in 0..Dist(After(p), q) : i \in 0..MasterNumBlocks - 1
    BY <1>2, RingFacts
  <2>2. \A i \in 0..Dist(After(p), q) : At(After(p), i) \in Places
    BY <1>2, <2>1, PlacesApart
  <2>3. QED
    BY <2>2 DEF SameBetween
<1>9. /\ InRing(memory, s, After(p), q, Ended(s))
      /\ Window(memory, s, After(p), q, 0) = Window(memory, s, p, q, 1)
      /\ memory[<<s, After(p)>>] = End \/ memory[<<s, After(p)>>][1] > memory[<<s, p>>][1]
  <2> HIDE DEF p, q
  <2>1. QED
    BY <1>2, <1>4, <1>5, RingAdvance
<1>16. memory[<<s, After(p)>>] = End \/ IsTerm(memory[<<s, After(p)>>])
  <2> HIDE DEF p, q
  <2>1. QED
    BY <1>2, <1>9, RingEnds
<1>10. /\ InRing(memory', s, After(p), q, Ended(s))
       /\ Window(memory', s, After(p), q, 0) = Window(memory, s, After(p), q, 0)
  <2> HIDE DEF p, q
  <2>1. QED
    BY <1>2, <1>8, <1>9, RingUnchanged
<1>11. Front(s)' = memory[<<s, After(p)>>]
  BY <1>2, <1>7 DEF Front
<1>12. WriterOK(s)'
  BY <1>2, <1>4, <1>5, <1>6, <1>7, <1>10 DEF WriterOK
<1>13. ReaderOK(s)'
  BY <1>2, <1>3, <1>7 DEF ReaderOK
<1>14. Pending(s)' = Pending(s)
  BY <1>3, <1>7, <1>9, <1>10 DEF Pending
<1>15. QED
  BY <1>9, <1>11, <1>12, <1>13, <1>14, <1>16 DEF StreamOK, Front
-----------------------------------------------------------------------------
(* What a stream has still to give *)

LEMMA InOrderFacts ==
  ASSUME NEW sequence, InOrder(sequence)
  PROVE  \A u \in Elements(sequence) : IsTerm(u)
BY DEF InOrder, Elements

LEMMA RestIsTerms ==
  ASSUME RingTypes, FullTypes, NEW s \in Streams, StreamOK(s), s \in Workers => WorkerOK(s)
  PROVE  \A u \in Rest(s) : IsTerm(u)
<1>1. \A u \in Todo(s) : IsTerm(u)
  BY InOrderFacts DEF Todo, WorkerOK
<1>2. \A u \in Pending(s) : IsTerm(u)
  <2>1. CASE Unstarted(s) \/ ReaderDone(s) \/ ~full[s]
    BY <2>1 DEF Pending
  <2>2. CASE ~Unstarted(s) /\ ~ReaderDone(s) /\ full[s]
    <3> DEFINE p == ReadAt(s)
               q == FillBlock[s]
               ended == Ended(s)
    <3>1. p \in Places /\ q \in Places /\ ended \in BOOLEAN
      BY StreamTypes
    <3>2. InRing(memory, s, p, q, ended)
      BY <2>2 DEF StreamOK, WriterOK
    <3>3. Pending(s) \subseteq Window(memory, s, p, q, 0)
      <4>1. Dist(p, q) \in Nat
        BY <3>1, RingFacts
      <4>2. \A taken \in {0, 1} : taken..Dist(p, q) \subseteq 0..Dist(p, q)
        BY <4>1
      <4>3. QED
        BY <2>2, <4>2 DEF Pending, Window
    <3> HIDE DEF p, q, ended
    <3>4. \A u \in Window(memory, s, p, q, 0) : IsTerm(u)
      BY <3>1, <3>2, WindowOrder
    <3>5. QED
      BY <3>3, <3>4
  <2>3. QED
    BY <2>1, <2>2
<1>3. QED
  BY <1>1, <1>2 DEF Rest

\* The term at the place of the reader is the first of them.
Behind1(s) == Window(memory, s, ReadAt(s), FillBlock[s], 1) \cup Todo(s)

LEMMA FrontIsFirst ==
  ASSUME RingTypes, FullTypes, NEW s \in Streams, StreamOK(s), ~ReaderDone(s), ReaderIn(s),
         s \in Workers => WorkerOK(s)
  PROVE  /\ Front(s) = End => Ended(s) /\ (~Consumed(s) => Rest(s) = {})
         /\ Front(s) # End => /\ IsTerm(Front(s))
                              /\ \A u \in Behind1(s) : IsTerm(u) /\ u[1] > Front(s)[1]
                              /\ ~Consumed(s) => Rest(s) = Behind1(s) \cup {Front(s)}
         /\ Consumed(s) => Rest(s) = Behind1(s) /\ Front(s) # End
<1> DEFINE p == ReadAt(s)
           q == FillBlock[s]
           ended == Ended(s)
<1>1. p \in Places /\ q \in Places /\ ended \in BOOLEAN /\ Consumed(s) \in BOOLEAN
  BY StreamTypes
<1>2. full[s] /\ ~Unstarted(s) /\ InRing(memory, s, p, q, ended) /\ (Consumed(s) => Front(s) # End)
  BY DEF StreamOK, WriterOK, ReaderOK
<1>3. Pending(s) = IF Consumed(s) THEN Window(memory, s, p, q, 1) ELSE Window(memory, s, p, q, 0)
  BY <1>2 DEF Pending
<1>4. Front(s) = memory[<<s, p>>]
  BY DEF Front
<1>5. ended => Todo(s) = {}
  BY DEF Todo, WorkerOK, Elements
<1>6. ~ended => \A u \in Todo(s) : u[1] > memory[<<s, q>>][1]
  BY <1>2 DEF Todo, WorkerOK, LastKey
<1>7. \A u \in Todo(s) : IsTerm(u)
  BY InOrderFacts DEF Todo, WorkerOK
<1>8. Rest(s) = Pending(s) \cup Todo(s) /\ Behind1(s) = Window(memory, s, p, q, 1) \cup Todo(s)
  BY DEF Rest, Behind1
<1>9. ended = Ended(s)
  OBVIOUS
<1> HIDE DEF p, q, ended
<1>10. /\ Front(s) = End <=> p = q /\ ended
       /\ Front(s) = End \/ IsTerm(Front(s))
       /\ ended => memory[<<s, q>>] = End
       /\ ~ended => IsTerm(memory[<<s, q>>])
  BY <1>1, <1>2, <1>4, RingEnds
<1>11. /\ \A u \in Window(memory, s, p, q, 0) : IsTerm(u)
       /\ \A u \in Window(memory, s, p, q, 1) : IsTerm(u) /\ u[1] > Front(s)[1]
       /\ ~ended => \A u \in Window(memory, s, p, q, 0) : u[1] <= memory[<<s, q>>][1]
  BY <1>1, <1>2, <1>4, WindowOrder
<1>12. Window(memory, s, p, q, 0) = Window(memory, s, p, q, 1) \cup ({Front(s)} \ {End})
  BY <1>1, <1>2, <1>4, RingTake
<1>13. ASSUME Front(s) = End PROVE Ended(s) /\ (~Consumed(s) => Rest(s) = {})
  <2>1. p = q /\ ended
    BY <1>10, <1>13
  <2>2. Window(memory, s, p, q, 1) = {}
    <3>1. 1..Dist(p, q) = {}
      BY <1>1, <2>1, RingFacts
    <3>2. QED
      BY <3>1 DEF Window
  <2>3. QED
    BY <1>3, <1>5, <1>8, <1>9, <1>12, <1>13, <2>1, <2>2
<1>14. ASSUME Front(s) # End
       PROVE  /\ IsTerm(Front(s))
              /\ \A u \in Behind1(s) : IsTerm(u) /\ u[1] > Front(s)[1]
              /\ ~Consumed(s) => Rest(s) = Behind1(s) \cup {Front(s)}
  <2>1. IsTerm(Front(s))
    BY <1>10, <1>14
  <2>2. ASSUME NEW u \in Todo(s) PROVE IsTerm(u) /\ u[1] > Front(s)[1]
    <3>1. ~ended
      BY <1>5
    <3>2. Front(s) \in Window(memory, s, p, q, 0)
      BY <1>12, <1>14
    <3>3. u[1] > memory[<<s, q>>][1] /\ Front(s)[1] <= memory[<<s, q>>][1]
      BY <1>6, <1>11, <3>1, <3>2
    <3>4. IsTerm(u) /\ IsTerm(memory[<<s, q>>])
      BY <1>7, <1>10, <3>1
    <3>5. u[1] \in Nat /\ memory[<<s, q>>][1] \in Nat /\ Front(s)[1] \in Nat
      BY <2>1, <3>4, TermFacts
    <3>6. QED
      BY <3>3, <3>4, <3>5
  <2>3. \A u \in Behind1(s) : IsTerm(u) /\ u[1] > Front(s)[1]
    BY <1>8, <1>11, <2>2
  <2>4. ~Consumed(s) => Rest(s) = Behind1(s) \cup {Front(s)}
    BY <1>3, <1>8, <1>12, <1>14
  <2>5. QED
    BY <2>1, <2>3, <2>4
<1>15. Consumed(s) => Rest(s) = Behind1(s) /\ Front(s) # End
  BY <1>2, <1>3, <1>8
<1>16. QED
  BY <1>13, <1>14, <1>15

\* Taking the first term takes its coefficient away.
LEMMA CoefTaken ==
  ASSUME RingTypes, FullTypes, NEW s \in Streams, StreamOK(s), ~ReaderDone(s), ReaderIn(s),
         s \in Workers => WorkerOK(s), Front(s) # End, ~Consumed(s), NEW k
  PROVE  /\ Coef(Rest(s), k) = IF k = Front(s)[1] THEN Front(s)[2] ELSE Coef(Behind1(s), k)
         /\ k = Front(s)[1] => Coef(Behind1(s), k) = 0
<1>1. /\ Rest(s) = Behind1(s) \cup {Front(s)} /\ IsTerm(Front(s))
      /\ \A u \in Behind1(s) : IsTerm(u) /\ u[1] > Front(s)[1]
  BY FrontIsFirst
<1>2. \A u \in Behind1(s) : u[1] # Front(s)[1]
  BY <1>1, TermFacts
<1>3. QED
  BY <1>1, <1>2, CoefOfMore
-----------------------------------------------------------------------------
(* A step of one thread while the streams flow *)

MergePhases == {"in1", "in2", "merge", "next1", "next2", "next12", "waitend"}
Moves(x) ==
  /\ Active /\ Goto(x, pc'[x]) /\ wakeup' = wakeup /\ target' = target
  /\ x = Master => AtMaster \in MergePhases /\ AtMaster' \in MergePhases

LEMMA MoveStatus ==
  ASSUME IInv, NEW x \in Threads, Moves(x)
  PROVE  /\ Active' /\ ~Initialising' /\ AtMaster' # "done" /\ Called' = Called
         /\ (Merging' <=> Merging) /\ (Initialised' <=> Initialised)
         /\ \A y \in Threads : y # x => pc'[y] = pc[y]
         /\ \A s \in Streams : s # x => SameWriting(s)
         /\ \A s \in Streams : ReaderOf(s) # x /\ blin'[ReaderOf(s)] = blin[ReaderOf(s)] =>
                                 SameReading(s)
<1>1. /\ pc = [y \in Threads |-> pc[y]] /\ pc' = [y \in Threads |-> pc'[y]]
      /\ \A y \in Threads : y # x => pc'[y] = pc[y]
  BY GotoFacts DEF IInv, Types, Moves
<1>2. /\ AtMaster' = AtMaster \/ (AtMaster \in MergePhases /\ AtMaster' \in MergePhases)
      /\ (x # Master => AtMaster' = AtMaster) /\ Master \in Threads
  BY <1>1, ThreadFacts DEF Moves, AtMaster
<1>3. /\ (Merging' <=> Merging) /\ (Initialised' <=> Initialised) /\ Called' = Called
      /\ (Initialising' <=> Initialising)
      /\ (AtMaster' = "finish" <=> AtMaster = "finish")
  <2>1. CASE AtMaster' = AtMaster
    BY <2>1, SamePhase DEF Moves
  <2>2. CASE AtMaster \in MergePhases /\ AtMaster' \in MergePhases
    <3>1. /\ Merging /\ Merging' /\ ~Starting /\ ~Starting' /\ ~Initialising /\ ~Initialising'
          /\ ~Initialised /\ ~Initialised' /\ AtMaster # "finish" /\ AtMaster' # "finish"
          /\ AtMaster \notin {"ini", "run", "terminate"} /\ AtMaster' \notin {"ini", "run", "terminate"}
      BY <2>2 DEF MergePhases, Merging, Starting, Initialising, Initialised
    <3>2. Called = SortBots /\ Called' = SortBots
      BY <3>1 DEF Called, Job
    <3>3. QED
      BY <3>1, <3>2
  <2>3. QED
    BY <1>2, <2>1, <2>2
<1>4. Active /\ ~Initialising /\ AtMaster # "done"
  BY DEF Moves, Active, Initialised, Merging, Initialising
<1>5. Active' /\ ~Initialising' /\ AtMaster' # "done"
  <2>1. Active' /\ ~Initialising'
    BY <1>3, <1>4 DEF Active
  <2>2. AtMaster' # "done"
    BY <1>2, <1>4 DEF MergePhases
  <2>3. QED
    BY <2>1, <2>2
<1>6. ASSUME NEW s \in Streams, s # x PROVE SameWriting(s)
  <2>1. pc'[s] = pc[s] /\ target' = target /\ wakeup' = wakeup
    BY <1>1, <1>6, ThreadFacts DEF Moves
  <2>2. Unstarted(s)' <=> Unstarted(s)
    BY <1>3, <2>1 DEF Unstarted
  <2>3. Ended(s)' <=> Ended(s)
    BY <1>3, <2>1, <2>2 DEF Ended
  <2>4. QED
    BY <2>2, <2>3 DEF SameWriting
<1>7. ASSUME NEW s \in Streams, ReaderOf(s) # x, blin'[ReaderOf(s)] = blin[ReaderOf(s)]
      PROVE  SameReading(s)
  <2> DEFINE r == ReaderOf(s)
  <2>1. r \in Threads /\ r \in Readers /\ pc'[r] = pc[r]
    BY <1>1, <1>7, TreeShape, ThreadFacts
  <2>2. ReaderIn(s)' <=> ReaderIn(s)
    BY <2>1 DEF ReaderIn, ReaderOf, InputNo
  <2>3. Consumed(s)' <=> Consumed(s)
    BY <2>1 DEF Consumed, ReaderOf, InputNo
  <2>4. HoldsBehind(s)' <=> HoldsBehind(s)
    BY <2>1 DEF HoldsBehind, ReaderOf, InputNo
  <2>5. ReadAt(s)' = ReadAt(s)
    BY <1>7, <2>2 DEF ReadAt, ReaderOf, InputNo
  <2>6. ReaderDone(s)' <=> ReaderDone(s)
    <3>1. CASE r = Master
      <4>1. AtMaster' = AtMaster
        BY <1>2, <1>7, <3>1
      <4>2. QED
        BY <3>1, <4>1 DEF ReaderDone, MergeDone, ReaderOf
    <3>2. CASE r # Master
      <4>1. r \in Streams /\ SameWriting(r)
        BY <1>6, <1>7, <2>1, <3>2, ThreadFacts DEF Readers
      <4>2. QED
        BY <3>2, <4>1 DEF ReaderDone, MergeDone, ReaderOf, SameWriting
    <3>3. QED
      BY <3>1, <3>2
  <2>7. QED
    BY <2>2, <2>3, <2>4, <2>5, <2>6 DEF SameReading
<1>8. QED
  BY <1>1, <1>3, <1>5, <1>6, <1>7

\* What the step may change: the thread's own stream, and its place in its inputs.
MovesOnly(x) ==
  /\ Moves(x)
  /\ \A r \in Readers : r # x => blin'[r] = blin[r]
  /\ \A w \in Workers : w # x => todo'[w] = todo[w]
  /\ x # Master => output' = output
  /\ input' = input
  /\ \A s \in Streams : s # x /\ ReaderOf(s) # x => SameFill(s) /\ SameBlocks(s)

LEMMA OthersUntouched ==
  ASSUME IInv, NEW x \in Threads, MovesOnly(x), NEW s \in Streams, s # x, ReaderOf(s) # x
  PROVE  /\ Untouched(s) /\ Front(s)' = Front(s) /\ Pending(s)' = Pending(s)
         /\ Rest(s)' = Rest(s) /\ LastKey(s)' = LastKey(s) /\ (StreamOK(s) => StreamOK(s)')
<1>1. SameWriting(s) /\ SameReading(s) /\ SameFill(s) /\ SameBlocks(s)
  BY MoveStatus, TreeShape DEF MovesOnly
<1>2. Untouched(s) /\ RingTypes /\ FullTypes
  BY <1>1 DEF Untouched, IInv
<1>3. /\ Front(s)' = Front(s) /\ Pending(s)' = Pending(s)
      /\ LastKey(s)' = LastKey(s) /\ (StreamOK(s) => StreamOK(s)')
  BY <1>2, UntouchedKept
<1>4. Rest(s)' = Rest(s)
  BY <1>3 DEF MovesOnly, Rest, Todo
<1>5. QED
  BY <1>2, <1>3, <1>4

LEMMA FlowingKept ==
  ASSUME IInv, Flowing, NEW x \in Threads, MovesOnly(x),
         \A s \in Streams : s = x \/ ReaderOf(s) = x => StreamOK(s)',
         \A s \in Streams : ReaderOf(s) = x => SameFill(s) /\ LastKey(s)' = LastKey(s),
         x \in Streams /\ ReaderIn(x) => Front(x)' = Front(x),
         x \in Workers => WorkerOK(x)', x \in Readers => MergerOK(x)',
         output' \in Seq(Nat \X Int), InOrder(output')
  PROVE  Flowing'
<1>1. ASSUME NEW s \in Streams PROVE StreamOK(s)'
  <2>1. CASE s = x \/ ReaderOf(s) = x
    BY <2>1
  <2>2. CASE s # x /\ ReaderOf(s) # x
    BY <2>2, OthersUntouched DEF Flowing
  <2>3. QED
    BY <2>1, <2>2
<1>2. ASSUME NEW s \in Streams, s # x PROVE SameFill(s) /\ LastKey(s)' = LastKey(s)
  <2>1. CASE ReaderOf(s) = x
    BY <2>1
  <2>2. CASE ReaderOf(s) # x
    BY <1>2, <2>2, OthersUntouched DEF Untouched
  <2>3. QED
    BY <2>1, <2>2
<1>3. ASSUME NEW w \in Workers PROVE WorkerOK(w)'
  <2>1. CASE w = x
    BY <2>1
  <2>2. CASE w # x
    <3>1. w \in Streams /\ SameWriting(w) /\ LastKey(w)' = LastKey(w) /\ todo'[w] = todo[w]
      BY <1>2, <2>2, MoveStatus, ThreadFacts DEF MovesOnly
    <3>2. WorkerOK(w)
      BY DEF Flowing
    <3>3. QED
      BY <3>1, <3>2 DEF WorkerOK, SameWriting
  <2>3. QED
    BY <2>1, <2>2
<1>4. ASSUME NEW r \in Readers PROVE MergerOK(r)'
  <2>1. CASE r = x
    BY <2>1
  <2>2. CASE r # x
    <3>0. r \in Threads /\ pc'[r] = pc[r] /\ blin'[r] = blin[r] /\ MergerOK(r)
      BY <2>2, MoveStatus, ThreadFacts DEF MovesOnly, Flowing
    <3>1. LastOut(r)' = LastOut(r) /\ (NothingWritten(r) => NothingWritten(r)')
          /\ (MergeDone(r)' <=> MergeDone(r))
      <4>1. CASE r = Master
        <5>1. output' = output /\ AtMaster' = AtMaster
          BY <2>2, <3>0, <4>1 DEF MovesOnly, AtMaster
        <5>2. QED
          BY <4>1, <5>1 DEF LastOut, NothingWritten, MergeDone
      <4>2. CASE r # Master
        <5>1. r \in Streams
          BY <4>2, ThreadFacts DEF Readers
        <5>2. SameFill(r) /\ LastKey(r)' = LastKey(r) /\ SameWriting(r)
          BY <1>2, <2>2, <5>1, MoveStatus DEF MovesOnly
        <5>3. QED
          BY <4>2, <5>1, <5>2 DEF LastOut, NothingWritten, MergeDone, SameFill, SameWriting
      <4>3. QED
        BY <4>1, <4>2
    <3>2. ASSUME NEW n \in {1, 2}, pc[r] \in Loop PROVE FrontOK(SortBotIn(r, n))'
      <4> DEFINE s == SortBotIn(r, n)
      <4>1. s \in Streams /\ ReaderOf(s) = r
        BY InputShape
      <4>2. ReaderIn(s)
        BY <3>2, <4>1 DEF ReaderIn
      <4>3. Front(s)' = Front(s)
        <5>1. CASE s = x
          BY <4>1, <4>2, <5>1
        <5>2. CASE s # x
          BY <2>2, <4>1, <5>2, OthersUntouched
        <5>3. QED
          BY <5>1, <5>2
      <4>4. Consumed(s)' <=> Consumed(s)
        <5>1. SameReading(s)
          BY <2>2, <3>0, <4>1, MoveStatus DEF MovesOnly
        <5>2. QED
          BY <5>1 DEF SameReading
      <4>5. FrontOK(s)
        BY <3>0, <3>2 DEF MergerOK
      <4>6. LastOut(ReaderOf(s))' = LastOut(ReaderOf(s))
        <5>1. ReaderOf(s)' = ReaderOf(s)
          BY DEF ReaderOf
        <5>2. LastOut(ReaderOf(s))' = LastOut(r)' /\ LastOut(ReaderOf(s)) = LastOut(r)
          BY <4>1, <5>1 DEF LastOut, LastKey
        <5>3. QED
          BY <3>1, <5>2
      <4> HIDE DEF s
      <4>7. FrontOK(s)'
        BY <4>3, <4>4, <4>5, <4>6 DEF FrontOK
      <4>8. FrontOK(SortBotIn(r, n))' = FrontOK(s)'
        BY DEF s
      <4>9. QED
        BY <4>7 DEF s
    <3>3. QED
      BY <3>0, <3>1, <3>2 DEF MergerOK
  <2>3. QED
    BY <2>1, <2>2
<1>5. input' \in Inputs
  BY DEF Flowing, MovesOnly
<1>6. QED
  BY <1>1, <1>3, <1>4, <1>5 DEF Flowing

OutputIsTerms == \A u \in Elements(output) : IsTerm(u)

LEMMA FlowingRests == RingTypes /\ FullTypes /\ Flowing => RestsAreTerms /\ OutputIsTerms
<1> SUFFICES ASSUME RingTypes, FullTypes, Flowing PROVE RestsAreTerms /\ OutputIsTerms
  OBVIOUS
<1>1. ASSUME NEW s \in Streams PROVE \A u \in Rest(s) : IsTerm(u)
  BY RestIsTerms DEF Flowing
<1>2. \A u \in Elements(output) : IsTerm(u)
  BY InOrderFacts DEF Flowing
<1>3. QED
  BY <1>1, <1>2 DEF RestsAreTerms, OutputIsTerms

LEMMA FlowingRestsThen ==
  (RingTypes /\ FullTypes /\ Flowing)' => (RestsAreTerms /\ OutputIsTerms)'
<1>1. RingTypes /\ FullTypes /\ Flowing => RestsAreTerms /\ OutputIsTerms
  BY FlowingRests
<1>2. QED
  BY <1>1, PTL
-----------------------------------------------------------------------------
(* The steps of the workers *)

LEMMA SameRests ==
  ASSUME IInv, IInv', Conserved, Flowing, Flowing', input' = input, output' = output,
         \A s \in Streams : Rest(s)' = Rest(s)
  PROVE  Conserved'
<1>1. ASSUME NEW k \in Nat \ {0} PROVE Rests(k)' = Rests(k)
  BY DEF Rests
<1>2. QED
  BY <1>1, SumOfSame DEF Conserved

\* What is in the blocks after a writer has put a term, and who holds them.
LEMMA WriteEffect ==
  ASSUME NEW b, NEW written, NEW term, NEW spoilt, Write(written, term, spoilt), b \in Blocks
  PROVE  /\ b \in written => memory'[b] = term
         /\ b \notin written /\ b \notin spoilt => memory'[b] = memory[b]
BY DEF Write

LEMMA BlockFacts ==
  /\ Blocks = Streams \X Places
  /\ \A u \in Streams : \A j \in Places : <<u, j>> \in Blocks
BY DEF Blocks, Places

PutDone(s, term, spoilt, released) ==
  /\ NextFill(s) \in Places
  /\ full[s] => IsFree(<<s, NextFill(s)>>)
  /\ memory'[<<s, NextFill(s)>>] = term
  /\ \A u \in Streams : \A j \in Places :
       /\ ~(u = s /\ j = NextFill(s)) /\ <<u, j>> \notin spoilt =>
            memory'[<<u, j>>] = memory[<<u, j>>]
       /\ MasterBlockLock'[<<u, j>>] =
            IF <<u, j>> \in released \/ (full[s] /\ u = s /\ j = FillBlock[s]) THEN Free
            ELSE IF u = s /\ j = NextFill(s) THEN s ELSE MasterBlockLock[<<u, j>>]
  /\ FillBlock'[s] = NextFill(s) /\ full'[s] = TRUE
  /\ \A u \in Streams : u # s => SameFill(u)

LEMMA PutEffect ==
  ASSUME RingTypes, FullTypes, NEW s \in Streams, NEW term, NEW released, NEW spoilt,
         \A j \in Places : <<s, j>> \notin spoilt,
         PutToMaster(s, term, spoilt, released)
  PROVE  PutDone(s, term, spoilt, released)
<1> DEFINE b == <<s, NextFill(s)>>
<1>1. NextFill(s) \in Places
  BY StreamTypes, RingFacts DEF NextFill
<1>2. b \in Blocks
  BY <1>1, BlockFacts
<1>3. /\ Write({b}, term, spoilt)
      /\ Relock(s, {b}, released \cup (IF full[s] THEN {<<s, FillBlock[s]>>} ELSE {}))
  BY DEF PutToMaster
<1>4. memory'[b] = term
  <2> HIDE DEF b
  <2>1. QED
    BY <1>2, <1>3, WriteEffect
<1>5. ASSUME NEW u \in Streams, NEW j \in Places
      PROVE  /\ ~(u = s /\ j = NextFill(s)) /\ <<u, j>> \notin spoilt =>
                  memory'[<<u, j>>] = memory[<<u, j>>]
             /\ MasterBlockLock'[<<u, j>>] =
                  IF <<u, j>> \in released \/ (full[s] /\ u = s /\ j = FillBlock[s]) THEN Free
                  ELSE IF u = s /\ j = NextFill(s) THEN s ELSE MasterBlockLock[<<u, j>>]
  <2>1. <<u, j>> \in Blocks /\ (<<u, j>> = b <=> u = s /\ j = NextFill(s))
        /\ (<<u, j>> = <<s, FillBlock[s]>> <=> u = s /\ j = FillBlock[s])
    BY BlockFacts
  <2> HIDE DEF b
  <2>2. ~(u = s /\ j = NextFill(s)) /\ <<u, j>> \notin spoilt =>
                  memory'[<<u, j>>] = memory[<<u, j>>]
    BY <1>3, <2>1, WriteEffect
  <2>3. MasterBlockLock'[<<u, j>>] =
                  IF <<u, j>> \in released \/ (full[s] /\ u = s /\ j = FillBlock[s]) THEN Free
                  ELSE IF u = s /\ j = NextFill(s) THEN s ELSE MasterBlockLock[<<u, j>>]
    BY <1>3, <2>1 DEF Relock
  <2>4. QED
    BY <2>2, <2>3
<1>6. /\ FillBlock'[s] = NextFill(s) /\ full'[s] = TRUE
      /\ \A u \in Streams : u # s => SameFill(u)
  BY DEF PutToMaster, RingTypes, FullTypes, SameFill
<1>7. full[s] => IsFree(<<s, NextFill(s)>>)
  BY DEF PutToMaster
<1>8. QED
  BY <1>1, <1>4, <1>5, <1>6, <1>7 DEF PutDone
LEMMA WorkerFacts ==
  ASSUME IInv, Stores, Active => Flowing, NEW w \in Workers, pc[w] \in {"claim", "write"}
  PROVE  /\ Active /\ Flowing /\ ~Ended(w) /\ ~ReaderDone(w)
         /\ w \in Streams /\ w \in Threads /\ w # Master /\ w \notin Readers
         /\ \A s \in Streams : ReaderOf(s) # w
         /\ pc[w] = "claim" => Unstarted(w)
         /\ pc[w] = "write" => ~Unstarted(w)
         /\ ~(AtMaster = "finish" /\ w >= target - NumberOfWorkers)
<1>1. Active /\ Flowing
  BY DEF Stores
<1>2. /\ w \in Streams /\ w \in Threads /\ w # Master /\ w \notin Readers
      /\ \A s \in Streams : ReaderOf(s) # w
  <2>1. w \in Streams /\ w \in Threads /\ w # Master /\ w \notin Readers
    BY ThreadFacts DEF Readers
  <2>2. QED
    BY <2>1, TreeShape
<1>3. ~(AtMaster = "finish" /\ w >= target - NumberOfWorkers)
  BY DEF IInv, WorkersInStep
<1>4. /\ pc[w] = "claim" => Unstarted(w)
      /\ pc[w] = "write" => ~Unstarted(w)
  BY <1>3 DEF Unstarted
<1>5. ~Ended(w)
  BY DEF Ended
<1>6. ~ReaderDone(w)
  BY <1>1, <1>2, <1>5 DEF Flowing, StreamOK
<1>7. QED
  BY <1>1, <1>2, <1>3, <1>4, <1>5, <1>6

\* A worker's step while the streams flow: it moves alone, and its stream has the same reader.
LEMMA WorkerMoves ==
  ASSUME IInv, Stores, Active => Flowing, NEW w \in Workers, pc[w] \in {"claim", "write"},
         Goto(w, pc'[w]), UNCHANGED <<wakeup, target, blin, input, output>>,
         DOMAIN todo' = Workers, \A x \in Workers : x # w => todo'[x] = todo[x],
         \A s \in Streams : s # w => SameFill(s) /\ SameBlocks(s)
  PROVE  /\ MovesOnly(w) /\ SameReading(w) /\ AtMaster' = AtMaster
         /\ Unstarted(w)' <=> pc'[w] = "claim"
         /\ \A s \in Streams : s # w =>
              StreamOK(s)' /\ Rest(s)' = Rest(s) /\ Front(s)' = Front(s)
         /\ Active' /\ ~Initialising' /\ AtMaster' # "done" /\ (Merging' <=> Merging)
<1>1. /\ Active /\ Flowing /\ w \in Streams /\ w \in Threads /\ w # Master
      /\ \A s \in Streams : ReaderOf(s) # w
      /\ ~(AtMaster = "finish" /\ w >= target - NumberOfWorkers)
  BY WorkerFacts
<1>2. Moves(w)
  BY <1>1 DEF Moves
<1>3. MovesOnly(w)
  BY <1>1, <1>2 DEF MovesOnly
<1>4. /\ Active' /\ ~Initialising' /\ AtMaster' # "done" /\ (Merging' <=> Merging)
      /\ \A y \in Threads : y # w => pc'[y] = pc[y]
      /\ SameReading(w)
  <2>1. \A s \in Streams : ReaderOf(s) # w /\ blin'[ReaderOf(s)] = blin[ReaderOf(s)] => SameReading(s)
    BY <1>1, <1>2, MoveStatus
  <2>2. SameReading(w)
    BY <1>1, <2>1
  <2>3. /\ Active' /\ ~Initialising' /\ AtMaster' # "done" /\ (Merging' <=> Merging)
        /\ \A y \in Threads : y # w => pc'[y] = pc[y]
    BY <1>1, <1>2, MoveStatus
  <2>4. QED
    BY <2>2, <2>3
<1>5. AtMaster' = AtMaster
  BY <1>1, <1>4, ThreadFacts DEF AtMaster
<1>6. Unstarted(w)' <=> pc'[w] = "claim"
  BY <1>1, <1>5 DEF Unstarted
<1>7. \A s \in Streams : s # w => StreamOK(s)' /\ Rest(s)' = Rest(s) /\ Front(s)' = Front(s)
  BY <1>1, <1>3, OthersUntouched DEF Flowing
<1>8. QED
  BY <1>3, <1>4, <1>5, <1>6, <1>7

\* From the worker's own stream to all.
LEMMA WorkerKept ==
  ASSUME IInv, IInv', Stores, Active => Flowing /\ Conserved, NEW w \in Workers,
         pc[w] \in {"claim", "write"},
         Goto(w, pc'[w]), UNCHANGED <<wakeup, target, blin, input, output>>,
         DOMAIN todo' = Workers, \A x \in Workers : x # w => todo'[x] = todo[x],
         \A s \in Streams : s # w => SameFill(s) /\ SameBlocks(s),
         StreamOK(w)', WorkerOK(w)', Rest(w)' = Rest(w), ReaderIn(w) => Front(w)' = Front(w),
         pc'[w] # "claim"
  PROVE  SumInv'
<1>1. /\ MovesOnly(w) /\ AtMaster' = AtMaster
      /\ \A s \in Streams : s # w => StreamOK(s)' /\ Rest(s)' = Rest(s) /\ Front(s)' = Front(s)
      /\ Active' /\ ~Initialising' /\ AtMaster' # "done" /\ (Merging' <=> Merging)
  BY WorkerMoves
<1>2. /\ Active /\ Flowing /\ Conserved /\ w \in Streams /\ w \in Threads /\ w \notin Readers
      /\ \A s \in Streams : ReaderOf(s) # w
  BY WorkerFacts
<1>3. Flowing'
  BY <1>1, <1>2, FlowingKept DEF Flowing
<1>4. Conserved'
  BY <1>1, <1>2, <1>3, SameRests
<1>5. Stores'
  <2>1. \A y \in Workers : y # w => pc'[y] = pc[y]
    BY <1>1, <1>2, MoveStatus, ThreadFacts DEF MovesOnly
  <2>2. QED
    BY <1>1, <2>1 DEF Stores
<1>6. QED
  BY <1>1, <1>3, <1>4, <1>5 DEF SumInv

LEMMA WorkerClaimsFlow ==
  ASSUME IInv, IInv', SumInv, NEW w \in Workers, WorkerClaims(w)
  PROVE  SumInv'
<1>1. Stores /\ (Active => Flowing /\ Conserved) /\ (Active => Flowing)
  BY DEF SumInv
<1>2. /\ pc[w] = "claim" /\ Relock(w, {FirstBlock(w)}, {}) /\ Goto(w, "claimed")
      /\ UNCHANGED <<wakeup, target, memory, blin, todo, input, output>>
      /\ FillBlock' = [FillBlock EXCEPT ![w] = 1] /\ full' = [full EXCEPT ![w] = FALSE]
  BY DEF WorkerClaims, signals, job
<1>3. /\ Active /\ Flowing /\ ~Ended(w) /\ ~ReaderDone(w)
      /\ w \in Streams /\ w \in Threads /\ Unstarted(w)
  BY <1>1, <1>2, WorkerFacts
<1>4. pc'[w] = "claimed" /\ Goto(w, pc'[w])
  BY <1>2, <1>3, GotoFacts DEF IInv, Types
<1>5. /\ FillBlock'[w] = 1 /\ full'[w] = FALSE
      /\ \A s \in Streams : s # w => SameFill(s)
  BY <1>2, <1>3 DEF IInv, RingTypes, FullTypes, SameFill
<1>6. \A s \in Streams : \A j \in Places :
        MasterBlockLock'[<<s, j>>] = IF s = w /\ j = 1 THEN w ELSE MasterBlockLock[<<s, j>>]
  BY <1>2, BlockFacts DEF Relock, FirstBlock
<1>7. \A s \in Streams : s # w => SameBlocks(s)
  BY <1>2, <1>6 DEF SameBlocks
<1>8. DOMAIN todo' = Workers /\ \A x \in Workers : todo'[x] = todo[x]
  BY <1>1, <1>2 DEF Stores
<1>9. SameReading(w) /\ ~Unstarted(w)'
  BY <1>1, <1>2, <1>4, <1>5, <1>7, <1>8, WorkerMoves
<1>10. ~Ended(w)'
  BY <1>4 DEF Ended
<1>11. StreamOK(w)' /\ Pending(w)' = Pending(w) /\ ~ReaderIn(w) /\ LastKey(w)' = 0
  <2>1. /\ \A j \in Places : memory'[<<w, j>>] = memory[<<w, j>>]
        /\ \A j \in Places : j # 1 => MasterBlockLock'[<<w, j>>] = MasterBlockLock[<<w, j>>]
        /\ MasterBlockLock'[<<w, 1>>] = w
    BY <1>2, <1>3, <1>6, RingFacts
  <2>2. StreamOK(w) /\ RingTypes /\ FullTypes
    BY <1>3 DEF Flowing, IInv
  <2>3. QED
    BY <1>3, <1>5, <1>9, <1>10, <2>1, <2>2, StartStream
<1>12. Rest(w)' = Rest(w)
  BY <1>2, <1>11 DEF Rest, Todo
<1>13. WorkerOK(w)'
  <2>1. WorkerOK(w)
    BY <1>3 DEF Flowing
  <2>2. \A t \in Elements(todo[w]) : t[1] > 0
    BY <2>1, InOrderFacts, TermFacts DEF WorkerOK
  <2>3. QED
    BY <1>2, <1>10, <1>11, <2>1, <2>2 DEF WorkerOK
<1>14. QED
  BY <1>1, <1>2, <1>4, <1>5, <1>7, <1>8, <1>11, <1>12, <1>13, WorkerKept

\* The first of a sequence in order, and the others.
LEMMA FirstAndOthers ==
  ASSUME NEW q \in Seq(Nat \X Int), q # <<>>, InOrder(q)
  PROVE  /\ IsTerm(Head(q)) /\ Tail(q) \in Seq(Nat \X Int) /\ InOrder(Tail(q))
         /\ Elements(q) = Elements(Tail(q)) \cup {Head(q)}
         /\ \A t \in Elements(Tail(q)) : t[1] > Head(q)[1]
<1>1. /\ Len(q) \in Nat /\ Len(q) >= 1 /\ DOMAIN q = 1..Len(q) /\ 1 \in DOMAIN q
      /\ Head(q) = q[1] /\ Tail(q) \in Seq(Nat \X Int)
      /\ DOMAIN Tail(q) = 1..Len(q) - 1
      /\ \A i \in 1..Len(q) - 1 : Tail(q)[i] = q[i + 1]
  OBVIOUS
<1>2. /\ \A i \in DOMAIN q : IsTerm(q[i])
      /\ \A i, j \in DOMAIN q : i < j => q[i][1] < q[j][1]
  BY DEF InOrder
<1>3. \A i \in 1..Len(q) - 1 : i + 1 \in DOMAIN q /\ 1 < i + 1
  BY <1>1
<1> DEFINE rest == Tail(q)
<1>4. /\ rest \in Seq(Nat \X Int) /\ DOMAIN rest = 1..Len(q) - 1
      /\ \A i \in DOMAIN rest : rest[i] = q[i + 1]
  BY <1>1
<1> HIDE DEF rest
<1>5. InOrder(rest)
  <2>1. \A i \in DOMAIN rest : IsTerm(rest[i])
    BY <1>2, <1>3, <1>4
  <2>2. ASSUME NEW i \in DOMAIN rest, NEW j \in DOMAIN rest, i < j
        PROVE  rest[i][1] < rest[j][1]
    <3>1. /\ rest[i] = q[i + 1] /\ rest[j] = q[j + 1] /\ i + 1 \in DOMAIN q /\ j + 1 \in DOMAIN q
          /\ i + 1 < j + 1
      <4>1. rest[i] = q[i + 1] /\ rest[j] = q[j + 1] /\ i + 1 \in DOMAIN q /\ j + 1 \in DOMAIN q
        BY <1>3, <1>4
      <4>2. i \in Int /\ j \in Int
        BY <1>1, <1>4
      <4>3. i + 1 < j + 1
        BY <2>2, <4>2
      <4>4. QED
        BY <4>1, <4>3
    <3>2. QED
      BY <1>2, <3>1
  <2>3. QED
    BY <2>1, <2>2 DEF InOrder
<1>6. \A t \in Elements(rest) : t[1] > q[1][1]
  <2>1. ASSUME NEW i \in DOMAIN rest PROVE rest[i][1] > q[1][1]
    <3>1. rest[i] = q[i + 1] /\ i + 1 \in DOMAIN q /\ 1 \in DOMAIN q /\ 1 < i + 1
      BY <1>1, <1>3, <1>4
    <3>2. q[1][1] < q[i + 1][1] /\ IsTerm(q[1]) /\ IsTerm(q[i + 1])
      BY <1>2, <3>1
    <3>3. q[1][1] \in Nat /\ q[i + 1][1] \in Nat
      BY <3>2, TermFacts
    <3>4. q[i + 1][1] > q[1][1]
      BY <3>2, <3>3
    <3>5. QED
      BY <3>1, <3>4
  <2>2. QED
    BY <2>1 DEF Elements
<1>7. Elements(q) = Elements(rest) \cup {q[1]}
  <2>1. \A i \in DOMAIN q : i = 1 \/ (i - 1 \in DOMAIN rest /\ rest[i - 1] = q[i])
    <3>1. ASSUME NEW i \in DOMAIN q, i # 1 PROVE i - 1 \in DOMAIN rest /\ rest[i - 1] = q[i]
      <4>1. i - 1 \in 1..Len(q) - 1 /\ i - 1 + 1 = i
        BY <1>1, <3>1
      <4>2. QED
        BY <1>4, <4>1
    <3>2. QED
      BY <3>1
  <2>2. \A i \in DOMAIN rest : rest[i] \in Elements(q)
    BY <1>3, <1>4 DEF Elements
  <2>3. ASSUME NEW t \in Elements(q) PROVE t \in Elements(rest) \cup {q[1]}
    <3>1. PICK i \in DOMAIN q : t = q[i]
      BY DEF Elements
    <3>2. i = 1 \/ (i - 1 \in DOMAIN rest /\ rest[i - 1] = t)
      BY <2>1, <3>1
    <3>3. QED
      BY <3>1, <3>2 DEF Elements
  <2>4. ASSUME NEW t \in Elements(rest) PROVE t \in Elements(q)
    <3>1. PICK i \in DOMAIN rest : t = rest[i]
      BY DEF Elements
    <3>2. QED
      BY <2>2, <3>1
  <2>5. q[1] \in Elements(q)
    BY <1>1 DEF Elements
  <2>6. QED
    BY <2>3, <2>4, <2>5
<1>8. QED
  BY <1>1, <1>2, <1>4, <1>5, <1>6, <1>7 DEF rest

\* A worker that writes: the fields of the step and what its stream has then.
LEMMA WorkerWrites ==
  ASSUME IInv, Stores, Active => Flowing, NEW w \in Workers, pc[w] = "write",
         NEW term, NEW released, PutToMaster(w, term, {}, released),
         released = {} \/ released = {<<w, NextFill(w)>>}, released # {} => Ended(w)',
         Goto(w, pc'[w]), pc'[w] # "claim", UNCHANGED <<wakeup, target, blin, input, output>>,
         DOMAIN todo' = Workers, \A x \in Workers : x # w => todo'[x] = todo[x],
         IF Ended(w)' THEN term = End ELSE IsTerm(term) /\ term[1] > LastKey(w)
  PROVE  /\ \A s \in Streams : s # w => SameFill(s) /\ SameBlocks(s)
         /\ StreamOK(w)' /\ Pending(w)' = Pending(w) \cup ({term} \ {End})
         /\ ReaderIn(w) => Front(w)' = Front(w)
         /\ LastKey(w)' = term[1] /\ ~Unstarted(w)'
<1>1. /\ Active /\ Flowing /\ ~Ended(w) /\ ~ReaderDone(w) /\ w \in Streams /\ ~Unstarted(w)
  BY WorkerFacts
<1>2. RingTypes /\ FullTypes /\ StreamOK(w)
  BY <1>1 DEF IInv, Flowing
<1>3. /\ NextFill(w) \in Places
      /\ full[w] => IsFree(<<w, NextFill(w)>>)
      /\ memory'[<<w, NextFill(w)>>] = term
      /\ \A u \in Streams : \A j \in Places :
           /\ ~(u = w /\ j = NextFill(w)) /\ <<u, j>> \notin {} =>
                memory'[<<u, j>>] = memory[<<u, j>>]
           /\ MasterBlockLock'[<<u, j>>] =
                IF <<u, j>> \in released \/ (full[w] /\ u = w /\ j = FillBlock[w]) THEN Free
                ELSE IF u = w /\ j = NextFill(w) THEN w ELSE MasterBlockLock[<<u, j>>]
      /\ FillBlock'[w] = NextFill(w) /\ full'[w] = TRUE
      /\ \A u \in Streams : u # w => SameFill(u)
  <2>1. \A j \in Places : <<w, j>> \notin {}
    OBVIOUS
  <2>2. PutDone(w, term, {}, released)
    BY <1>1, <1>2, <2>1, PutEffect
  <2>3. QED
    BY <2>2 DEF PutDone
<1>4. \A s \in Streams : s # w => SameFill(s) /\ SameBlocks(s)
  BY <1>3 DEF SameBlocks
<1>5. SameReading(w) /\ ~Unstarted(w)'
  BY <1>4, WorkerMoves
<1>6. /\ \A j \in Places : j # NextFill(w) => memory'[<<w, j>>] = memory[<<w, j>>]
      /\ \A j \in Places : j # NextFill(w) /\ j # FillBlock[w] =>
                             MasterBlockLock'[<<w, j>>] = MasterBlockLock[<<w, j>>]
  BY <1>1, <1>3
<1>7. ~Ended(w)' => MasterBlockLock'[<<w, NextFill(w)>>] = w
  <2>1. full[w] => FillBlock[w] # NextFill(w)
    <3>1. FillBlock[w] \in Places /\ After(FillBlock[w]) # FillBlock[w]
      BY <1>1, <1>2, StreamTypes, RingFacts
    <3>2. QED
      BY <3>1 DEF NextFill
  <2>2. QED
    BY <1>1, <1>3, <2>1
<1>8. QED
  BY <1>1, <1>2, <1>3, <1>4, <1>5, <1>6, <1>7, PutStream

LEMMA WorkerPutsFlow ==
  ASSUME IInv, IInv', SumInv, NEW w \in Workers, WorkerPuts(w)
  PROVE  SumInv'
<1> DEFINE t == Head(todo[w])
<1>1. Stores /\ (Active => Flowing /\ Conserved) /\ (Active => Flowing)
  BY DEF SumInv
<1>2. /\ pc[w] = "write" /\ todo[w] # <<>> /\ PutToMaster(w, t, {}, {})
      /\ UNCHANGED <<pc, wakeup, target, blin, input, output>>
      /\ todo' = [todo EXCEPT ![w] = Tail(todo[w])]
  BY DEF WorkerPuts, signals, job
<1>3. /\ Active /\ Flowing /\ ~Ended(w) /\ ~ReaderDone(w)
      /\ w \in Streams /\ w \in Threads /\ ~Unstarted(w)
  BY <1>1, <1>2, WorkerFacts
<1>4. pc'[w] = "write" /\ Goto(w, pc'[w])
  BY <1>2, <1>3 DEF IInv, Types, Goto
<1>5. ~Ended(w)'
  BY <1>4 DEF Ended
<1>6. DOMAIN todo' = Workers /\ todo'[w] = Tail(todo[w])
      /\ \A x \in Workers : x # w => todo'[x] = todo[x]
  BY <1>1, <1>2 DEF Stores
<1>7. WorkerOK(w)
  BY <1>3 DEF Flowing
<1>8. /\ IsTerm(t) /\ Tail(todo[w]) \in Seq(Nat \X Int) /\ InOrder(Tail(todo[w]))
      /\ Elements(todo[w]) = Elements(Tail(todo[w])) \cup {t}
      /\ \A u \in Elements(Tail(todo[w])) : u[1] > t[1]
  BY <1>2, <1>7, FirstAndOthers DEF WorkerOK
<1>9. t[1] > LastKey(w)
  BY <1>3, <1>7, <1>8 DEF WorkerOK
<1> HIDE DEF t
<1>10. /\ \A s \in Streams : s # w => SameFill(s) /\ SameBlocks(s)
       /\ StreamOK(w)' /\ Pending(w)' = Pending(w) \cup ({t} \ {End})
       /\ ReaderIn(w) => Front(w)' = Front(w)
       /\ LastKey(w)' = t[1] /\ ~Unstarted(w)'
  BY <1>1, <1>2, <1>4, <1>5, <1>6, <1>8, <1>9, WorkerWrites
<1>11. Rest(w)' = Rest(w)
  <2>1. {t} \ {End} = {t}
    BY <1>8, TermFacts
  <2>2. Todo(w) = Todo(w)' \cup {t}
    BY <1>6, <1>8 DEF Todo
  <2>3. QED
    BY <1>10, <2>1, <2>2 DEF Rest
<1>12. WorkerOK(w)'
  BY <1>5, <1>6, <1>8, <1>10 DEF WorkerOK
<1>13. QED
  BY <1>1, <1>2, <1>4, <1>6, <1>10, <1>11, <1>12, WorkerKept

LEMMA WorkerEndsFlow ==
  ASSUME IInv, IInv', SumInv, NEW w \in Workers, WorkerEnds(w)
  PROVE  SumInv'
<1>1. Stores /\ (Active => Flowing /\ Conserved) /\ (Active => Flowing)
  BY DEF SumInv
<1>2. /\ pc[w] = "write" /\ todo[w] = <<>> /\ PutToMaster(w, End, {}, {<<w, NextFill(w)>>})
      /\ Goto(w, "idle") /\ UNCHANGED <<wakeup, target, blin, todo, input, output>>
  BY DEF WorkerEnds, signals, job
<1>3. /\ Active /\ Flowing /\ ~Ended(w) /\ ~ReaderDone(w)
      /\ w \in Streams /\ w \in Threads /\ ~Unstarted(w) /\ w # Master
      /\ ~(AtMaster = "finish" /\ w >= target - NumberOfWorkers)
  BY <1>1, <1>2, WorkerFacts
<1>4. pc'[w] = "idle" /\ Goto(w, pc'[w]) /\ pc'[Master] = pc[Master]
  BY <1>2, <1>3, GotoFacts, ThreadFacts DEF IInv, Types
<1>5. Ended(w)'
  BY <1>2, <1>3, <1>4 DEF Ended, Unstarted, AtMaster
<1>6. DOMAIN todo' = Workers /\ \A x \in Workers : todo'[x] = todo[x]
  BY <1>1, <1>2 DEF Stores
<1>7. WorkerOK(w)
  BY <1>3 DEF Flowing
<1>8. /\ \A s \in Streams : s # w => SameFill(s) /\ SameBlocks(s)
      /\ StreamOK(w)' /\ Pending(w)' = Pending(w) \cup ({End} \ {End})
      /\ ReaderIn(w) => Front(w)' = Front(w)
  BY <1>1, <1>2, <1>4, <1>5, <1>6, WorkerWrites
<1>9. Rest(w)' = Rest(w)
  BY <1>2, <1>8 DEF Rest, Todo
<1>10. WorkerOK(w)'
  BY <1>2, <1>5, <1>7 DEF WorkerOK
<1>11. QED
  BY <1>1, <1>2, <1>4, <1>6, <1>8, <1>9, <1>10, WorkerKept
-----------------------------------------------------------------------------
(* The steps of the merges *)

InMerge(r) == pc[r] \in {"in1", "in2"} \cup Loop

InputOK(r, n, s) ==
  /\ s = SortBotIn(r, n) /\ s \in Streams /\ s # r /\ ReaderOf(s) = r /\ InputNo(s) = n
  /\ ~Unstarted(s) /\ ~ReaderDone(s) /\ StreamOK(s) /\ (s \in Workers => WorkerOK(s))

OwnOK(r) ==
  r # Master => /\ r \in SortBots /\ r \in Streams /\ r \notin Workers /\ ReaderOf(r) # r
                /\ ~Ended(r) /\ ~Unstarted(r) /\ ~ReaderDone(r) /\ StreamOK(r)

LEMMA MergeFacts ==
  ASSUME IInv, Stores, Active => Flowing, NEW r \in Readers, InMerge(r)
  PROVE  /\ Active /\ Merging /\ Flowing /\ r \in Threads /\ ~MergeDone(r) /\ MergerOK(r)
         /\ InputOK(r, 1, SortBotIn(r, 1)) /\ InputOK(r, 2, SortBotIn(r, 2))
         /\ OwnOK(r) /\ RingTypes /\ FullTypes /\ SortBotIn(r, 1) # SortBotIn(r, 2)
<1>1. pc[r] \in {"in1", "in2", "merge", "next1", "next2", "next12"}
  BY DEF InMerge, Loop
<1>2. Merging
  <2>1. CASE r = Master
    BY <1>1, <2>1 DEF Merging, AtMaster
  <2>2. CASE r # Master
    <3>1. r \in SortBots
      BY <2>2 DEF Readers
    <3>2. Job = "RUNSORTBOT"
      BY <1>1, <3>1, WhoMoves
    <3>3. QED
      BY <3>2, PhaseFacts
  <2>3. QED
    BY <2>1, <2>2
<1>3. Active /\ Flowing /\ r \in Threads /\ MergerOK(r)
  BY <1>2, ThreadFacts DEF Active, Flowing
<1>4. ~MergeDone(r)
  BY <1>1 DEF MergeDone, Ended, AtMaster, Readers
<1>5. \A s \in Streams : ~Unstarted(s)
  BY <1>2 DEF Stores, Unstarted, Merging
<1>6. ASSUME NEW n \in {1, 2} PROVE InputOK(r, n, SortBotIn(r, n))
  <2> DEFINE s == SortBotIn(r, n)
  <2>1. s \in Streams /\ s # r /\ ReaderOf(s) = r /\ InputNo(s) = n
    BY InputShape
  <2>2. ~Unstarted(s) /\ ~ReaderDone(s)
    BY <1>4, <1>5, <2>1 DEF ReaderDone
  <2>3. StreamOK(s) /\ (s \in Workers => WorkerOK(s))
    BY <1>3, <2>1 DEF Flowing
  <2>4. QED
    BY <2>1, <2>2, <2>3 DEF InputOK
<1>7. OwnOK(r)
  <2>1. SUFFICES ASSUME r # Master
                 PROVE  /\ r \in SortBots /\ r \in Streams /\ r \notin Workers /\ ReaderOf(r) # r
                        /\ ~Ended(r) /\ ~Unstarted(r) /\ ~ReaderDone(r) /\ StreamOK(r)
    BY DEF OwnOK
  <2>2. r \in SortBots /\ r \in Streams /\ r \notin Workers /\ ReaderOf(r) # r
    BY <2>1, ThreadFacts, TreeShape DEF Readers
  <2>3. ~Ended(r) /\ ~Unstarted(r)
    BY <1>4, <1>5, <2>1, <2>2 DEF MergeDone
  <2>4. StreamOK(r)
    BY <1>3, <2>2 DEF Flowing
  <2>5. ~ReaderDone(r)
    BY <2>3, <2>4 DEF StreamOK
  <2>6. QED
    BY <2>2, <2>3, <2>4, <2>5
<1>8. QED
  BY <1>2, <1>3, <1>4, <1>6, <1>7, InputShape DEF IInv

\* What a step of a merge leaves alone.
MergeMove(r) ==
  /\ Goto(r, pc'[r]) /\ UNCHANGED <<wakeup, target, todo, input>>
  /\ r = Master => pc'[r] \in MergePhases
  /\ \A x \in Readers : x # r => blin'[x] = blin[x]
  /\ r # Master => output' = output
  /\ \A s \in Streams : s # r => SameFill(s) /\ (ReaderOf(s) # r => SameBlocks(s))

LEMMA MergeMoves ==
  ASSUME IInv, Stores, Active => Flowing, NEW r \in Readers, InMerge(r), MergeMove(r)
  PROVE  /\ MovesOnly(r) /\ Active' /\ ~Initialising' /\ AtMaster' # "done" /\ Merging'
         /\ Called' = Called
         /\ \A s \in Streams : s # r => SameWriting(s)
         /\ r # Master => SameReading(r) /\ ~Unstarted(r)'
         /\ \A w \in Workers : pc'[w] = pc[w]
<1>1. Active /\ Merging /\ r \in Threads /\ OwnOK(r)
  BY MergeFacts
<1>2. Moves(r)
  <2>1. r = Master => AtMaster \in MergePhases /\ AtMaster' \in MergePhases
    BY DEF InMerge, Loop, MergePhases, AtMaster, MergeMove
  <2>2. QED
    BY <1>1, <2>1 DEF Moves, MergeMove
<1>3. MovesOnly(r)
  BY <1>2 DEF MovesOnly, MergeMove
<1>4. /\ Active' /\ ~Initialising' /\ AtMaster' # "done" /\ Merging' /\ Called' = Called
      /\ \A y \in Threads : y # r => pc'[y] = pc[y]
      /\ \A s \in Streams : s # r => SameWriting(s)
      /\ \A s \in Streams : ReaderOf(s) # r /\ blin'[ReaderOf(s)] = blin[ReaderOf(s)] =>
                              SameReading(s)
  BY <1>1, <1>2, MoveStatus
<1>5. \A w \in Workers : pc'[w] = pc[w]
  <2>1. r \notin Workers
    BY ThreadFacts DEF Readers
  <2>2. QED
    BY <1>4, <2>1, ThreadFacts
<1>6. r # Master => SameReading(r) /\ ~Unstarted(r)'
  <2>1. r # Master => SameReading(r)
    BY <1>1, <1>4, TreeShape DEF OwnOK, MergeMove
  <2>2. r # Master => ~Unstarted(r)'
    BY <1>1 DEF OwnOK, Unstarted
  <2>3. QED
    BY <2>1, <2>2
<1>7. QED
  BY <1>3, <1>4, <1>5, <1>6

\* The step keeps the invariant if the streams of the merge do.
LEMMA MergeKept ==
  ASSUME IInv, IInv', Stores, Active => Flowing /\ Conserved, NEW r \in Readers, InMerge(r),
         MergeMove(r),
         r # Master => StreamOK(r)' /\ (ReaderIn(r) => Front(r)' = Front(r)),
         \A n \in {1, 2} : /\ StreamOK(SortBotIn(r, n))'
                           /\ LastKey(SortBotIn(r, n))' = LastKey(SortBotIn(r, n)),
         MergerOK(r)', output' \in Seq(Nat \X Int), InOrder(output'),
         Flowing' => Conserved'
  PROVE  SumInv'
<1>1. /\ MovesOnly(r) /\ Active' /\ ~Initialising' /\ AtMaster' # "done" /\ Merging'
      /\ \A w \in Workers : pc'[w] = pc[w]
  BY MergeMoves
<1>2. Active /\ Merging /\ Flowing /\ Conserved /\ r \in Threads /\ OwnOK(r)
  BY MergeFacts
<1>3. \A s \in Streams : ReaderOf(s) = r => StreamOK(s)' /\ SameFill(s) /\ LastKey(s)' = LastKey(s)
  <2>1. ASSUME NEW s \in Streams, ReaderOf(s) = r
        PROVE  StreamOK(s)' /\ SameFill(s) /\ LastKey(s)' = LastKey(s)
    <3>1. \E n \in {1, 2} : s = SortBotIn(r, n)
      BY <2>1, InputShape
    <3>2. StreamOK(s)' /\ LastKey(s)' = LastKey(s)
      BY <3>1
    <3>3. s # r
      BY <2>1, TreeShape
    <3>4. QED
      BY <3>2, <3>3 DEF MergeMove
  <2>2. QED
    BY <2>1
<1>4. \A s \in Streams : s = r \/ ReaderOf(s) = r => StreamOK(s)'
  <2>1. ASSUME NEW s \in Streams, s = r PROVE StreamOK(s)'
    <3>1. r # Master
      BY <2>1, ThreadFacts DEF Streams
    <3>2. QED
      BY <2>1, <3>1
  <2>2. QED
    BY <1>3, <2>1
<1>5. r \in Streams /\ ReaderIn(r) => Front(r)' = Front(r)
  BY ThreadFacts DEF Streams
<1>6. r \notin Workers
  BY ThreadFacts DEF Readers
<1>7. Flowing'
  BY <1>1, <1>2, <1>3, <1>4, <1>5, <1>6, FlowingKept
<1>8. Stores'
  <2>1. DOMAIN todo' = Workers
    BY DEF Stores, MergeMove
  <2>2. \A w \in Workers : pc'[w] # "claim"
    BY <1>1, <1>2 DEF Stores
  <2>3. QED
    BY <1>1, <2>1, <2>2 DEF Stores
<1>9. QED
  BY <1>1, <1>7, <1>8 DEF SumInv

\* How the place of the reader tells what it does with its input.
LEMMA InputReading ==
  ASSUME NEW r, NEW n \in {1, 2}, NEW s, ReaderOf(s) = r, InputNo(s) = n
  PROVE  /\ ReaderIn(s) <=> pc[r] \in Loop \/ (pc[r] = "in2" /\ n = 1)
         /\ ReaderIn(s)' <=> pc'[r] \in Loop \/ (pc'[r] = "in2" /\ n = 1)
         /\ Consumed(s) <=> pc[r] \in (IF n = 1 THEN {"next1", "next12"} ELSE {"next2", "next12"})
         /\ Consumed(s)' <=> pc'[r] \in (IF n = 1 THEN {"next1", "next12"} ELSE {"next2", "next12"})
         /\ HoldsBehind(s) <=> pc[r] \notin (IF n = 1 THEN {"next1", "next12"} ELSE {"next2"})
         /\ HoldsBehind(s)' <=> pc'[r] \notin (IF n = 1 THEN {"next1", "next12"} ELSE {"next2"})
         /\ ReadAt(s) = IF ReaderIn(s) THEN blin[r][n] ELSE 1
         /\ ReadAt(s)' = IF ReaderIn(s)' THEN blin'[r][n] ELSE 1
<1>1. ReaderOf(s)' = ReaderOf(s) /\ InputNo(s)' = InputNo(s)
  BY DEF ReaderOf, InputNo
<1>2. /\ ReaderIn(s) <=> pc[r] \in Loop \/ (pc[r] = "in2" /\ n = 1)
      /\ ReaderIn(s)' <=> pc'[r] \in Loop \/ (pc'[r] = "in2" /\ n = 1)
  BY <1>1 DEF ReaderIn
<1>3. /\ Consumed(s) <=> pc[r] \in (IF n = 1 THEN {"next1", "next12"} ELSE {"next2", "next12"})
      /\ Consumed(s)' <=> pc'[r] \in (IF n = 1 THEN {"next1", "next12"} ELSE {"next2", "next12"})
  BY <1>1 DEF Consumed
<1>4. /\ HoldsBehind(s) <=> pc[r] \notin (IF n = 1 THEN {"next1", "next12"} ELSE {"next2"})
      /\ HoldsBehind(s)' <=> pc'[r] \notin (IF n = 1 THEN {"next1", "next12"} ELSE {"next2"})
  BY <1>1 DEF HoldsBehind
<1>5. /\ ReadAt(s) = IF ReaderIn(s) THEN blin[r][n] ELSE 1
      /\ ReadAt(s)' = IF ReaderIn(s)' THEN blin'[r][n] ELSE 1
  BY <1>1 DEF ReadAt
<1>6. QED
  BY <1>2, <1>3, <1>4, <1>5

\* The thread stays in its merge.
StaysIn(r) == pc'[r] \in {"in2"} \cup Loop

LEMMA ReaderStays ==
  ASSUME NEW r \in Readers, StaysIn(r)
  PROVE  /\ ~MergeDone(r)' /\ (r # Master => ~Ended(r)')
         /\ \A s : ReaderOf(s) = r => ~ReaderDone(s)'
<1>1. pc'[r] \in {"in2", "merge", "next1", "next2", "next12"}
  BY DEF StaysIn, Loop
<1>2. r # Master => ~Ended(r)'
  <2>1. r # Master => r \notin Workers
    BY ThreadFacts DEF Readers
  <2>2. QED
    BY <1>1, <2>1 DEF Ended
<1>3. ~MergeDone(r)'
  BY <1>1, <1>2 DEF MergeDone, AtMaster
<1>4. ASSUME NEW s, ReaderOf(s) = r PROVE ~ReaderDone(s)'
  <2>1. ReaderOf(s)' = ReaderOf(s)
    BY DEF ReaderOf
  <2>2. MergeDone(ReaderOf(s))' <=> MergeDone(r)'
    BY <1>4, <2>1 DEF MergeDone, Ended, Unstarted
  <2>3. QED
    BY <1>3, <2>2 DEF ReaderDone
<1>5. QED
  BY <1>2, <1>3, <1>4

LEMMA TodoKept ==
  ASSUME UNCHANGED todo, NEW s
  PROVE  Todo(s)' = Todo(s)
BY DEF Todo

\* A step of the merge on one of its inputs: it leaves it alone, ...
LEMMA KeepInput ==
  ASSUME RingTypes, FullTypes, NEW r, NEW n, NEW s, InputOK(r, n, s), UNCHANGED todo,
         SameReading(s), SameWriting(s), SameFill(s), SameBlocks(s)
  PROVE  /\ StreamOK(s)' /\ Rest(s)' = Rest(s) /\ Front(s)' = Front(s) /\ LastKey(s)' = LastKey(s)
<1>1. s \in Streams /\ Untouched(s) /\ StreamOK(s)
  BY DEF InputOK, Untouched
<1>2. /\ Front(s)' = Front(s) /\ Pending(s)' = Pending(s) /\ LastKey(s)' = LastKey(s)
      /\ StreamOK(s) => StreamOK(s)'
  BY <1>1, UntouchedKept
<1>3. QED
  BY <1>1, <1>2, TodoKept DEF Rest

\* ... takes its first term, or lets go of the block behind, ...
LEMMA TakeInput ==
  ASSUME RingTypes, FullTypes, NEW r, NEW n, NEW s, InputOK(r, n, s), UNCHANGED todo,
         ReaderIn(s), Front(s) # End, HoldsBehind(s),
         ReaderIn(s)', Consumed(s)', ReadAt(s)' = ReadAt(s), ~ReaderDone(s)',
         SameWriting(s), SameFill(s),
         \A j \in Places : j # Before(ReadAt(s)) => memory'[<<s, j>>] = memory[<<s, j>>],
         \A j \in Places : j # Before(ReadAt(s)) \/ HoldsBehind(s)' =>
                             MasterBlockLock'[<<s, j>>] = MasterBlockLock[<<s, j>>]
  PROVE  /\ StreamOK(s)' /\ Rest(s)' = Behind1(s) /\ Front(s)' = Front(s)
         /\ LastKey(s)' = LastKey(s)
<1>1. s \in Streams /\ StreamOK(s) /\ ~ReaderDone(s)
  BY DEF InputOK
<1>2. /\ StreamOK(s)' /\ Front(s)' = Front(s) /\ LastKey(s)' = LastKey(s)
      /\ Pending(s)' = Window(memory, s, ReadAt(s), FillBlock[s], 1)
  BY <1>1, TakeStream
<1>3. QED
  BY <1>2, TodoKept DEF Rest, Behind1

\* ... goes on to the next block, ...
LEMMA AdvanceInput ==
  ASSUME RingTypes, FullTypes, NEW r, NEW n, NEW s, InputOK(r, n, s), UNCHANGED todo,
         ReaderIn(s), Consumed(s), ReaderIn(s)', ~Consumed(s)', ReadAt(s)' = After(ReadAt(s)),
         ~ReaderDone(s)', IsFree(<<s, After(ReadAt(s))>>), SameWriting(s), SameFill(s),
         \A j \in Places : memory'[<<s, j>>] = memory[<<s, j>>],
         MasterBlockLock'[<<s, After(ReadAt(s))>>] = r,
         \A j \in Places : j # After(ReadAt(s)) =>
                             MasterBlockLock'[<<s, j>>] = MasterBlockLock[<<s, j>>]
  PROVE  /\ StreamOK(s)' /\ Rest(s)' = Rest(s) /\ LastKey(s)' = LastKey(s)
         /\ Front(s)' = End \/ (IsTerm(Front(s)') /\ Front(s)'[1] > Front(s)[1])
<1>1. s \in Streams /\ StreamOK(s) /\ ~ReaderDone(s) /\ ReaderOf(s) = r
  BY DEF InputOK
<1>2. /\ StreamOK(s)' /\ Pending(s)' = Pending(s)
      /\ Front(s)' = End \/ (IsTerm(Front(s)') /\ Front(s)'[1] > Front(s)[1])
  BY <1>1, AdvanceStream
<1>3. LastKey(s)' = LastKey(s)
  <2>1. FillBlock[s] \in Places
    BY <1>1, StreamTypes
  <2>2. QED
    BY <2>1 DEF LastKey, SameFill
<1>4. QED
  BY <1>2, <1>3, TodoKept DEF Rest

\* ... or begins to read.
LEMMA EnterInput ==
  ASSUME RingTypes, FullTypes, NEW r, NEW n, NEW s, InputOK(r, n, s), UNCHANGED todo,
         ~ReaderIn(s), ReaderIn(s)', ReadAt(s)' = 1, ~Consumed(s)', ~ReaderDone(s)',
         IsFree(FirstBlock(s)), SameWriting(s), SameFill(s),
         MasterBlockLock'[<<s, 1>>] = r,
         \A j \in Places : memory'[<<s, j>>] = memory[<<s, j>>],
         \A j \in Places : j # 1 => MasterBlockLock'[<<s, j>>] = MasterBlockLock[<<s, j>>]
  PROVE  /\ StreamOK(s)' /\ Rest(s)' = Rest(s) /\ LastKey(s)' = LastKey(s)
         /\ Front(s)' = End \/ IsTerm(Front(s)')
<1>1. s \in Streams /\ StreamOK(s) /\ ~ReaderDone(s) /\ ReaderOf(s) = r /\ ~Unstarted(s)
  BY DEF InputOK
<1>2. /\ StreamOK(s)' /\ Pending(s)' = Pending(s)
      /\ Front(s)' = End \/ IsTerm(Front(s)')
  BY <1>1, EnterStream
<1>3. LastKey(s)' = LastKey(s)
  <2>1. FillBlock[s] \in Places
    BY <1>1, StreamTypes
  <2>2. QED
    BY <2>1 DEF LastKey, SameFill
<1>4. QED
  BY <1>2, <1>3, TodoKept DEF Rest

\* The thread's own stream, when it does not write.
LEMMA KeepOwn ==
  ASSUME RingTypes, FullTypes, NEW r \in Readers, OwnOK(r), UNCHANGED todo,
         r # Master => SameReading(r) /\ ~Ended(r)' /\ ~Unstarted(r)' /\ SameFill(r) /\ SameBlocks(r)
  PROVE  r # Master => /\ StreamOK(r)' /\ Front(r)' = Front(r) /\ Rest(r)' = Rest(r)
                       /\ LastKey(r)' = LastKey(r)
<1> SUFFICES ASSUME r # Master
             PROVE  /\ StreamOK(r)' /\ Front(r)' = Front(r) /\ Rest(r)' = Rest(r)
                    /\ LastKey(r)' = LastKey(r)
  OBVIOUS
<1>1. r \in Streams /\ StreamOK(r) /\ SameWriting(r)
  BY DEF OwnOK, SameWriting
<1>2. Untouched(r)
  BY <1>1 DEF Untouched
<1>3. /\ Front(r)' = Front(r) /\ Pending(r)' = Pending(r) /\ LastKey(r)' = LastKey(r)
      /\ StreamOK(r) => StreamOK(r)'
  BY <1>1, <1>2, UntouchedKept
<1>4. QED
  BY <1>1, <1>3, TodoKept DEF Rest

\* What SortBotOut does to the other streams, and to its own.
LEMMA OutBlocks ==
  ASSUME RingTypes, FullTypes, NEW r \in Readers, NEW term, NEW spoilt, NEW released,
         SortBotOut(r, term, spoilt, released), \A j \in Places : <<r, j>> \notin spoilt
  PROVE  \A s \in Streams : s # r =>
           /\ SameFill(s)
           /\ \A j \in Places :
                /\ <<s, j>> \notin spoilt => memory'[<<s, j>>] = memory[<<s, j>>]
                /\ MasterBlockLock'[<<s, j>>] = IF <<s, j>> \in released THEN Free
                                                ELSE MasterBlockLock[<<s, j>>]
<1>1. CASE r = Master
  <2>1. /\ Relock(Master, {}, released) /\ Write({}, term, spoilt) /\ UNCHANGED <<FillBlock, full>>
    BY <1>1 DEF SortBotOut
  <2>2. \A s \in Streams : SameFill(s)
    BY <2>1 DEF SameFill
  <2>3. \A b \in Blocks : /\ b \notin spoilt => memory'[b] = memory[b]
                          /\ MasterBlockLock'[b] = IF b \in released THEN Free ELSE MasterBlockLock[b]
    BY <2>1 DEF Relock, Write
  <2>4. QED
    BY <2>2, <2>3, BlockFacts
<1>2. CASE r # Master
  <2>1. r \in Streams /\ PutToMaster(r, term, spoilt, released)
    BY <1>2, ThreadFacts DEF Readers, SortBotOut
  <2>2. PutDone(r, term, spoilt, released)
    BY <2>1, PutEffect
  <2>3. QED
    BY <2>2 DEF PutDone
<1>3. QED
  BY <1>1, <1>2

LEMMA AppendFacts ==
  ASSUME NEW q \in Seq(Nat \X Int), InOrder(q), NEW t, IsTerm(t), q # <<>> => t[1] > q[Len(q)][1]
  PROVE  /\ Append(q, t) \in Seq(Nat \X Int) /\ InOrder(Append(q, t)) /\ Append(q, t) # <<>>
         /\ Append(q, t)[Len(Append(q, t))] = t
         /\ Elements(Append(q, t)) = Elements(q) \cup {t}
         /\ \A u \in Elements(q) : u[1] < t[1]
<1> DEFINE p == Append(q, t)
<1>1. /\ Len(q) \in Nat /\ DOMAIN q = 1..Len(q) /\ DOMAIN p = 1..Len(q) + 1
      /\ \A i \in 1..Len(q) : p[i] = q[i]
      /\ p[Len(q) + 1] = t /\ Len(p) = Len(q) + 1 /\ p # <<>>
      /\ (q # <<>> <=> Len(q) > 0)
  <2> DEFINE S == Nat \X Int
  <2>1. t \in S /\ q \in Seq(S)
    BY DEF IsTerm
  <2> HIDE DEF S
  <2>2. Len(q) \in Nat /\ DOMAIN q = 1..Len(q) /\ (q # <<>> <=> Len(q) > 0)
    BY <2>1
  <2>3. p \in Seq(S) /\ Len(p) = Len(q) + 1 /\ DOMAIN p = 1..Len(q) + 1
    BY <2>1
  <2>4. \A i \in 1..Len(q) : p[i] = q[i]
    BY <2>1
  <2>5. p[Len(q) + 1] = t
    BY <2>1
  <2>6. p # <<>>
    BY <2>2, <2>3
  <2>7. QED
    BY <2>2, <2>3, <2>4, <2>5, <2>6
<1>2. p \in Seq(Nat \X Int)
  BY DEF IsTerm
<1>9. p[Len(p)] = t
  <2>1. Len(p) = Len(q) + 1 /\ p[Len(q) + 1] = t
    BY <1>1
  <2> HIDE DEF p
  <2>2. QED
    BY <2>1
<1> HIDE DEF p
<1>3. /\ \A i \in DOMAIN q : IsTerm(q[i])
      /\ \A i, j \in DOMAIN q : i < j => q[i][1] < q[j][1]
  BY DEF InOrder
<1>4. ASSUME NEW i \in 1..Len(q) PROVE q[i][1] < t[1] /\ IsTerm(q[i])
  <2>1. /\ Len(q) \in DOMAIN q /\ i \in DOMAIN q /\ (i = Len(q) \/ i < Len(q)) /\ q # <<>>
    <3>1. Len(q) \in Nat /\ DOMAIN q = 1..Len(q) /\ (q # <<>> <=> Len(q) > 0)
      BY <1>1
    <3>2. \A n \in Nat : \A k \in 1..n : n \in 1..n /\ (k = n \/ k < n) /\ n > 0
      OBVIOUS
    <3>4. Len(q) \in 1..Len(q) /\ (i = Len(q) \/ i < Len(q)) /\ Len(q) > 0
      BY <3>1, <3>2, Zenon
    <3>3. QED
      BY <3>1, <3>4, Zenon
  <2>2. i = Len(q) \/ q[i][1] < q[Len(q)][1]
    BY <1>3, <2>1
  <2>3. IsTerm(q[i]) /\ IsTerm(q[Len(q)]) /\ t[1] > q[Len(q)][1]
    BY <1>3, <2>1
  <2>4. q[i][1] \in Nat /\ q[Len(q)][1] \in Nat /\ t[1] \in Nat
    BY <2>3, TermFacts
  <2>5. QED
    BY <2>2, <2>3, <2>4
<1>5. \A i \in DOMAIN p : i \in 1..Len(q) \/ i = Len(q) + 1
  BY <1>1
<1>6. InOrder(p)
  <2>1. \A i \in DOMAIN p : IsTerm(p[i])
    BY <1>1, <1>4, <1>5
  <2>2. ASSUME NEW i \in DOMAIN p, NEW j \in DOMAIN p, i < j PROVE p[i][1] < p[j][1]
    <3>1. i \in 1..Len(q)
      BY <1>1, <2>2
    <3>2. CASE j \in 1..Len(q)
      <4>1. p[i] = q[i] /\ p[j] = q[j] /\ i \in DOMAIN q /\ j \in DOMAIN q
        BY <1>1, <3>1, <3>2
      <4>2. QED
        BY <1>3, <2>2, <4>1
    <3>3. CASE j = Len(q) + 1
      <4>1. p[i] = q[i] /\ p[j] = t /\ q[i][1] < t[1]
        BY <1>1, <1>4, <3>1, <3>3
      <4>2. QED
        BY <4>1
    <3>4. QED
      BY <1>5, <3>2, <3>3
  <2>3. QED
    BY <2>1, <2>2 DEF InOrder
<1>7. Elements(p) = Elements(q) \cup {t}
  <2>1. ASSUME NEW u \in Elements(p) PROVE u \in Elements(q) \cup {t}
    <3>1. PICK i \in DOMAIN p : u = p[i]
      BY DEF Elements
    <3>2. QED
      BY <1>1, <1>5, <3>1 DEF Elements
  <2>2. ASSUME NEW u \in Elements(q) PROVE u \in Elements(p)
    <3>1. PICK i \in DOMAIN q : u = q[i]
      BY DEF Elements
    <3>2. i \in DOMAIN p /\ p[i] = u
      BY <1>1, <3>1
    <3>3. QED
      BY <3>2 DEF Elements
  <2>3. t \in Elements(p)
    <3>1. Len(q) + 1 \in DOMAIN p
      BY <1>1
    <3>2. QED
      BY <1>1, <3>1 DEF Elements
  <2>4. QED
    BY <2>1, <2>2, <2>3
<1>8. \A u \in Elements(q) : u[1] < t[1]
  BY <1>1, <1>4 DEF Elements
<1>10. QED
  BY <1>1, <1>2, <1>6, <1>7, <1>8, <1>9 DEF p

\* A term that the merge passes on; when it is the end mark nothing is passed on.
Gained(r, t) ==
  IF r # Master THEN /\ output' = output /\ Rest(r)' = With(Rest(r), t)
                     /\ \A u \in Rest(r) : u[1] # t[1]
  ELSE /\ Elements(output') = With(Elements(output), t)
       /\ \A u \in Elements(output) : u[1] # t[1]

LEMMA OutTerm ==
  ASSUME RingTypes, FullTypes, Flowing, NEW r \in Readers, OwnOK(r), UNCHANGED todo,
         NEW t, IsTerm(t), t[1] > LastOut(r), NEW spoilt, NEW released,
         SortBotOut(r, t, spoilt, released),
         \A j \in Places : <<r, j>> \notin spoilt /\ <<r, j>> \notin released,
         r # Master => SameReading(r) /\ ~Ended(r)' /\ ~Unstarted(r)'
  PROVE  /\ r # Master => StreamOK(r)' /\ (ReaderIn(r) => Front(r)' = Front(r))
         /\ Gained(r, t) /\ LastOut(r)' = t[1]
         /\ output' \in Seq(Nat \X Int) /\ InOrder(output')
<1>0. output \in Seq(Nat \X Int) /\ InOrder(output) /\ t # End
  BY TermFacts DEF Flowing
<1>1. CASE r = Master
  <2>1. output' = Append(output, t) /\ (output # <<>> => t[1] > output[Len(output)][1])
    BY <1>0, <1>1 DEF SortBotOut, LastOut
  <2>2. /\ Append(output, t) \in Seq(Nat \X Int) /\ InOrder(Append(output, t))
        /\ Append(output, t) # <<>> /\ Append(output, t)[Len(Append(output, t))] = t
        /\ Elements(Append(output, t)) = Elements(output) \cup {t}
        /\ \A u \in Elements(output) : u[1] < t[1]
    BY <1>0, <2>1, AppendFacts
  <2>3. \A u \in Elements(output) : u[1] # t[1]
    <3>1. \A u \in Elements(output) : IsTerm(u)
      BY <1>0, InOrderFacts
    <3>2. QED
      BY <2>2, <3>1, TermFacts
  <2>4. Elements(output') = With(Elements(output), t)
    BY <1>0, <2>1, <2>2 DEF With
  <2>5. LastOut(r)' = t[1]
    BY <1>1, <2>1, <2>2 DEF LastOut
  <2>6. QED
    BY <1>1, <2>1, <2>2, <2>3, <2>4, <2>5 DEF Gained
<1>2. CASE r # Master
  <2>1. /\ r \in Streams /\ r \notin Workers /\ ~Ended(r) /\ ~Unstarted(r) /\ ~ReaderDone(r)
        /\ StreamOK(r) /\ SameReading(r) /\ ~Ended(r)' /\ ~Unstarted(r)'
        /\ PutToMaster(r, t, spoilt, released) /\ output' = output
    BY <1>2 DEF OwnOK, SortBotOut
  <2>2. LastOut(r) = LastKey(r) /\ LastOut(r)' = LastKey(r)'
    BY <1>2 DEF LastOut, LastKey
  <2>3. PutDone(r, t, spoilt, released)
    BY <2>1, PutEffect
  <2>4. /\ full[r] => IsFree(<<r, NextFill(r)>>)
        /\ NextFill(r) \in Places /\ FillBlock'[r] = NextFill(r) /\ full'[r] = TRUE
        /\ memory'[<<r, NextFill(r)>>] = t
        /\ \A j \in Places : j # NextFill(r) => memory'[<<r, j>>] = memory[<<r, j>>]
        /\ \A j \in Places : j # NextFill(r) /\ j # FillBlock[r] =>
                               MasterBlockLock'[<<r, j>>] = MasterBlockLock[<<r, j>>]
        /\ (full[r] => FillBlock[r] # NextFill(r)) => MasterBlockLock'[<<r, NextFill(r)>>] = r
    BY <2>1, <2>3 DEF PutDone
  <2>5. full[r] => FillBlock[r] # NextFill(r)
    <3>1. FillBlock[r] \in Places /\ After(FillBlock[r]) # FillBlock[r]
      BY <2>1, StreamTypes, RingFacts
    <3>2. QED
      BY <3>1 DEF NextFill
  <2>6. t[1] > LastKey(r)
    BY <2>2
  <2>7. /\ StreamOK(r)' /\ Pending(r)' = Pending(r) \cup ({t} \ {End})
        /\ ReaderIn(r) => Front(r)' = Front(r)
        /\ LastKey(r)' = t[1]
        /\ \A u \in Pending(r) : u[1] <= LastKey(r)
    BY <2>1, <2>4, <2>5, <2>6, PutStream
  <2>8. Rest(r) = Pending(r) /\ Rest(r)' = Pending(r)'
    BY <2>1 DEF Rest, Todo
  <2>9. \A u \in Rest(r) : u[1] # t[1]
    <3>1. LastKey(r) \in Int
      <4>1. CASE full[r]
        <5>1. InRing(memory, r, ReadAt(r), FillBlock[r], FALSE) /\ FALSE \in BOOLEAN
          <6>1. Ended(r) = FALSE
            BY <2>1, StreamTypes
          <6>2. QED
            BY <2>1, <4>1, <6>1 DEF StreamOK, WriterOK
        <5>2. ReadAt(r) \in Places /\ FillBlock[r] \in Places
          BY <2>1, StreamTypes
        <5>3. IsTerm(memory[<<r, FillBlock[r]>>])
          BY <5>1, <5>2, RingEnds
        <5>4. QED
          BY <4>1, <5>3, TermFacts DEF LastKey
      <4>2. CASE ~full[r]
        BY <4>2 DEF LastKey
      <4>3. QED
        BY <4>1, <4>2
    <3>2. \A u \in Rest(r) : IsTerm(u)
      BY <2>1, RestIsTerms
    <3>3. QED
      BY <2>6, <2>7, <2>8, <3>1, <3>2, TermFacts
  <2>10. Rest(r)' = With(Rest(r), t)
    BY <2>7, <2>8 DEF With
  <2>11. QED
    BY <1>0, <1>2, <2>1, <2>2, <2>7, <2>9, <2>10 DEF Gained
<1>3. QED
  BY <1>1, <1>2

\* What the merge takes from its inputs is what it passes on.
CoefIn(t, k) == IF k = t[1] THEN t[2] ELSE 0

LEMMA WithCoef ==
  ASSUME NEW P, NEW t, t = End \/ IsTerm(t), \A u \in P : IsTerm(u), \A u \in P : u[1] # t[1],
         NEW k \in Nat \ {0}
  PROVE  Coef(With(P, t), k) = Coef(P, k) + CoefIn(t, k)
<1>1. Coef(P, k) \in Int
  BY CoefType
<1>2. CASE t = End
  <2>1. With(P, t) = P /\ k # t[1]
    BY <1>2 DEF With, End
  <2>2. QED
    BY <1>1, <2>1 DEF CoefIn
<1>3. CASE IsTerm(t)
  <2>1. With(P, t) = P \cup {t} /\ t[2] \in Int
    BY <1>3, TermFacts DEF With
  <2>2. /\ Coef(P \cup {t}, k) = IF k = t[1] THEN t[2] ELSE Coef(P, k)
        /\ k = t[1] => Coef(P, k) = 0
    BY CoefOfMore
  <2>3. QED
    BY <1>1, <2>1, <2>2 DEF CoefIn
<1>4. QED
  BY <1>2, <1>3

LEMMA GainedCoef ==
  ASSUME NEW r, NEW c, NEW t, t = End \/ IsTerm(t), Gained(r, t), r # Master => c = r,
         r = Master => Rest(c)' = Rest(c), NEW k \in Nat \ {0},
         \A u \in Rest(c) : IsTerm(u), \A u \in Elements(output) : IsTerm(u)
  PROVE  Coef(Rest(c)', k) + Coef(Elements(output'), k)
           = Coef(Rest(c), k) + Coef(Elements(output), k) + CoefIn(t, k)
<1>1. Coef(Rest(c), k) \in Int /\ Coef(Elements(output), k) \in Int
  BY CoefType
<1>2. CoefIn(t, k) \in Int
  BY TermFacts DEF CoefIn, End
<1>3. CASE r # Master
  <2>1. output' = output /\ Rest(c)' = With(Rest(c), t) /\ \A u \in Rest(c) : u[1] # t[1]
    BY <1>3 DEF Gained
  <2>2. Coef(Rest(c)', k) = Coef(Rest(c), k) + CoefIn(t, k)
    BY <2>1, WithCoef
  <2>3. QED
    BY <1>1, <1>2, <2>1, <2>2
<1>4. CASE r = Master
  <2>1. /\ Elements(output') = With(Elements(output), t) /\ Rest(c)' = Rest(c)
        /\ \A u \in Elements(output) : u[1] # t[1]
    BY <1>4 DEF Gained
  <2>2. Coef(Elements(output'), k) = Coef(Elements(output), k) + CoefIn(t, k)
    BY <2>1, WithCoef
  <2>3. QED
    BY <1>1, <1>2, <2>1, <2>2
<1>5. QED
  BY <1>3, <1>4

LEMMA ThirdStream ==
  \E c \in Streams : ReaderOf(c) # Master
<1>1. 1 \in Streams
  BY StreamNumbers, TreeAssumption
<1>2. (1 + 1) \div 2 # NumberOfWorkers - 1 /\ NumberOfWorkers + (1 + 1) \div 2 # Master
  BY TreeAssumption DEF Master
<1>3. ReaderOf(1) # Master
  BY <1>2 DEF ReaderOf
<1>4. QED
  BY <1>1, <1>3

TakenIsGiven(r, t) ==
  \A k \in Nat \ {0} :
    Coef(Rest(SortBotIn(r, 1)), k) + Coef(Rest(SortBotIn(r, 2)), k)
      = Coef(Rest(SortBotIn(r, 1))', k) + Coef(Rest(SortBotIn(r, 2))', k) + CoefIn(t, k)

LEMMA MergeConserves ==
  ASSUME IInv, IInv', Stores, Active => Flowing, Conserved, Flowing', NEW r \in Readers,
         InMerge(r), MergeMove(r), NEW t, t = End \/ IsTerm(t), Gained(r, t), TakenIsGiven(r, t)
  PROVE  Conserved'
<1> DEFINE a == SortBotIn(r, 1)
           b == SortBotIn(r, 2)
<1>1. /\ Flowing /\ r \in Threads /\ MovesOnly(r) /\ a \in Streams /\ b \in Streams /\ a # b
      /\ a # r /\ b # r /\ OwnOK(r) /\ RingTypes /\ FullTypes
      /\ \A s \in Streams : ReaderOf(s) = r => s = a \/ s = b
  BY MergeFacts, MergeMoves, InputShape
<1>2. \A s \in Streams : s # r /\ ReaderOf(s) # r => Rest(s)' = Rest(s)
  BY <1>1, OthersUntouched
<1>3. RestsAreTerms /\ OutputIsTerms
  BY <1>1, FlowingRests
<1>4. (RestsAreTerms /\ OutputIsTerms)'
  BY FlowingRestsThen DEF IInv
<1>5. \E c \in Streams : /\ c # a /\ c # b /\ (r # Master => c = r)
                         /\ (r = Master => Rest(c)' = Rest(c))
  <2>1. CASE r # Master
    BY <1>1, <2>1 DEF OwnOK
  <2>2. CASE r = Master
    <3>1. PICK c \in Streams : ReaderOf(c) # Master
      BY ThirdStream
    <3>2. c # a /\ c # b /\ c # r
      BY <2>2, <3>1, InputShape, ThreadFacts DEF Streams
    <3>3. QED
      BY <1>2, <2>2, <3>1, <3>2
  <2>3. QED
    BY <2>1, <2>2
<1>6. PICK c \in Streams : /\ c # a /\ c # b /\ (r # Master => c = r)
                           /\ (r = Master => Rest(c)' = Rest(c))
  BY <1>5
<1>7. \A s \in Streams \ {a, b, c} : Rest(s)' = Rest(s)
  BY <1>1, <1>2, <1>6, ThreadFacts DEF Streams
<1>8. \A k \in Nat \ {0} :
        Coef(Rest(c)', k) + Coef(Elements(output'), k)
          = Coef(Rest(c), k) + Coef(Elements(output), k) + CoefIn(t, k)
  BY <1>3, <1>6, GainedCoef DEF RestsAreTerms, OutputIsTerms
<1>9. \A k \in Nat \ {0} : Coef(Rest(a), k) + Coef(Rest(b), k)
                             = Coef(Rest(a)', k) + Coef(Rest(b)', k) + CoefIn(t, k)
  BY DEF TakenIsGiven
<1> HIDE DEF a, b
<1>10. ASSUME NEW k \in Nat \ {0}
       PROVE  Coef(Rest(a)', k) + Coef(Rest(b)', k) + Coef(Rest(c)', k) + Coef(Elements(output'), k)
                = Coef(Rest(a), k) + Coef(Rest(b), k) + Coef(Rest(c), k) + Coef(Elements(output), k)
  <2>1. /\ Coef(Rest(a), k) \in Int /\ Coef(Rest(b), k) \in Int /\ Coef(Rest(c), k) \in Int
        /\ Coef(Elements(output), k) \in Int
    BY <1>1, <1>3, <1>6, CoefType DEF RestsAreTerms, OutputIsTerms
  <2>2. /\ Coef(Rest(a)', k) \in Int /\ Coef(Rest(b)', k) \in Int /\ Coef(Rest(c)', k) \in Int
        /\ Coef(Elements(output'), k) \in Int
    <3>1. /\ \A u \in Rest(a)' : IsTerm(u)
          /\ \A u \in Rest(b)' : IsTerm(u)
          /\ \A u \in Rest(c)' : IsTerm(u)
          /\ \A u \in Elements(output') : IsTerm(u)
      BY <1>1, <1>4, <1>6 DEF RestsAreTerms, OutputIsTerms, a, b
    <3>2. QED
      BY <3>1, CoefType
  <2>3. CoefIn(t, k) \in Int
    BY TermFacts DEF CoefIn, End
  <2>4. QED
    BY <1>8, <1>9, <2>1, <2>2, <2>3
<1>11. QED
  <2>1. input' = input
    BY DEF MergeMove
  <2>2. /\ \A u \in Elements(output) : IsTerm(u)
        /\ \A u \in Elements(output') : IsTerm(u)
        /\ RestsAreTerms'
    BY <1>3, <1>4 DEF OutputIsTerms
  <2>3. QED
    BY <1>1, <1>3, <1>6, <1>7, <1>10, <2>1, <2>2, ConservedKept

\* The coefficient of a term that is taken.
LEMMA CoefOfTaken ==
  ASSUME RingTypes, FullTypes, NEW r, NEW n, NEW s, InputOK(r, n, s), ReaderIn(s),
         Front(s) # End, ~Consumed(s), Rest(s)' = Behind1(s), NEW k
  PROVE  /\ Coef(Rest(s), k) = Coef(Rest(s)', k) + CoefIn(Front(s), k)
         /\ Coef(Rest(s), k) \in Int /\ Coef(Rest(s)', k) \in Int /\ CoefIn(Front(s), k) \in Int
<1>1. s \in Streams /\ StreamOK(s) /\ ~ReaderDone(s) /\ (s \in Workers => WorkerOK(s))
  BY DEF InputOK
<1>2. /\ IsTerm(Front(s)) /\ \A u \in Behind1(s) : IsTerm(u)
  BY <1>1, FrontIsFirst
<1>3. \A u \in Rest(s) : IsTerm(u)
  BY <1>1, RestIsTerms
<1>4. Coef(Rest(s), k) \in Int /\ Coef(Behind1(s), k) \in Int /\ CoefIn(Front(s), k) \in Int
  BY <1>2, <1>3, CoefType, TermFacts DEF CoefIn
<1>5. /\ Coef(Rest(s), k) = IF k = Front(s)[1] THEN Front(s)[2] ELSE Coef(Behind1(s), k)
      /\ k = Front(s)[1] => Coef(Behind1(s), k) = 0
  BY <1>1, CoefTaken
<1>6. Coef(Rest(s), k) = Coef(Behind1(s), k) + CoefIn(Front(s), k)
  BY <1>4, <1>5, <1>2, TermFacts DEF CoefIn
<1>7. QED
  BY <1>4, <1>6

LEMMA SumInvParts ==
  ASSUME SumInv
  PROVE  Stores /\ (Active => Flowing) /\ (Active => Flowing /\ Conserved)
BY DEF SumInv

\* A step of a merge in which it passes on t.
LEMMA MergeFlows ==
  ASSUME IInv, IInv', SumInv, NEW r \in Readers, InMerge(r), MergeMove(r),
         r # Master => StreamOK(r)' /\ (ReaderIn(r) => Front(r)' = Front(r)),
         StreamOK(SortBotIn(r, 1))' /\ LastKey(SortBotIn(r, 1))' = LastKey(SortBotIn(r, 1)),
         StreamOK(SortBotIn(r, 2))' /\ LastKey(SortBotIn(r, 2))' = LastKey(SortBotIn(r, 2)),
         MergerOK(r)', output' \in Seq(Nat \X Int), InOrder(output'),
         NEW t, t = End \/ IsTerm(t), Gained(r, t), TakenIsGiven(r, t)
  PROVE  SumInv'
<1>1. Stores /\ (Active => Flowing) /\ (Active => Flowing /\ Conserved)
  BY SumInvParts
<1>2. Active
  BY <1>1, MergeFacts
<1>3. Flowing' => Conserved'
  BY <1>1, <1>2, MergeConserves
<1>4. \A n \in {1, 2} : /\ StreamOK(SortBotIn(r, n))'
                        /\ LastKey(SortBotIn(r, n))' = LastKey(SortBotIn(r, n))
  <2>1. \A n : n \in {1, 2} => n = 1 \/ n = 2
    OBVIOUS
  <2>2. ASSUME NEW n \in {1, 2} PROVE StreamOK(SortBotIn(r, n))' /\ LastKey(SortBotIn(r, n))' = LastKey(SortBotIn(r, n))
    <3>1. CASE n = 1
      BY <3>1
    <3>2. CASE n = 2
      BY <3>2
    <3>3. QED
      BY <2>1, <3>1, <3>2
  <2>3. QED
    BY <2>2
<1>5. QED
  BY <1>1, <1>3, <1>4, MergeKept

\* The fronts of the two inputs where the merge compares them.
FrontIs(r, n, s, t) ==
  /\ InputOK(r, n, s) /\ ReaderIn(s) /\ ~Consumed(s) /\ HoldsBehind(s)
  /\ ReadAt(s) = blin[r][n] /\ ReadAt(s) \in Places
  /\ Front(s) = t /\ (t = End \/ (IsTerm(t) /\ t[1] > LastOut(r)))
  /\ t = End => Ended(s) /\ Rest(s) = {}

LEMMA MergeFronts ==
  ASSUME IInv, Stores, Active => Flowing, NEW r \in Readers, pc[r] = "merge", NEW n \in {1, 2}
  PROVE  /\ FrontIs(r, n, SortBotIn(r, n), Term(r, n))
         /\ Behind(r, n) = <<SortBotIn(r, n), Before(ReadAt(SortBotIn(r, n)))>>
<1> DEFINE s == SortBotIn(r, n)
<1>1. InMerge(r) /\ pc[r] \in Loop
  BY DEF InMerge, Loop
<1>2. InputOK(r, n, s) /\ MergerOK(r) /\ RingTypes /\ FullTypes
  <2>1. InputOK(r, 1, SortBotIn(r, 1)) /\ InputOK(r, 2, SortBotIn(r, 2)) /\ MergerOK(r) /\ RingTypes /\ FullTypes
    BY <1>1, MergeFacts
  <2>2. QED
    BY <2>1
<1>3. /\ s \in Streams /\ ReaderOf(s) = r /\ InputNo(s) = n /\ StreamOK(s) /\ ~ReaderDone(s)
      /\ (s \in Workers => WorkerOK(s))
  BY <1>2 DEF InputOK
<1>4. ReaderIn(s) /\ ~Consumed(s) /\ HoldsBehind(s) /\ ReadAt(s) = blin[r][n]
  BY <1>1, <1>3, InputReading
<1>5. ReadAt(s) \in Places
  BY <1>2, <1>3, StreamTypes
<1>6. Front(s) = Term(r, n) /\ Behind(r, n) = <<s, Before(ReadAt(s))>>
  BY <1>4 DEF Front, Term, In, Behind
<1>7. Front(s) = End \/ Front(s)[1] > LastOut(r)
  BY <1>1, <1>2, <1>3, <1>4 DEF MergerOK, FrontOK
<1>8. /\ Front(s) = End => Ended(s) /\ Rest(s) = {}
      /\ Front(s) # End => IsTerm(Front(s))
  BY <1>2, <1>3, <1>4, FrontIsFirst
<1>9. QED
  BY <1>2, <1>4, <1>5, <1>6, <1>7, <1>8 DEF FrontIs

FrontThen(r, s) == IF Consumed(s)' THEN Front(s)'[1] >= LastOut(r)'
                   ELSE Front(s)' = End \/ Front(s)'[1] > LastOut(r)'

LEMMA MergerOKThen ==
  ASSUME NEW r \in Readers, pc'[r] \in Loop, FrontThen(r, SortBotIn(r, 1)),
         FrontThen(r, SortBotIn(r, 2))
  PROVE  MergerOK(r)'
<1>1. ASSUME NEW s, ReaderOf(s) = r, FrontThen(r, s) PROVE FrontOK(s)'
  <2>1. ReaderOf(s)' = ReaderOf(s)
    BY DEF ReaderOf
  <2>2. LastOut(ReaderOf(s))' = LastOut(r)'
    BY <1>1, <2>1 DEF LastOut, LastKey
  <2>3. QED
    BY <1>1, <2>2 DEF FrontOK, FrontThen
<1>2. FrontOK(SortBotIn(r, 1))' /\ FrontOK(SortBotIn(r, 2))'
  BY <1>1, InputShape
<1>3. \A n \in {1, 2} : FrontOK(SortBotIn(r, n))'
  <2>1. ASSUME NEW n \in {1, 2} PROVE FrontOK(SortBotIn(r, n))'
    <3>1. n = 1 \/ n = 2
      OBVIOUS
    <3>2. QED
      BY <1>2, <3>1
  <2>2. QED
    BY <2>1
<1>4. pc'[r] # "in2"
  BY DEF Loop
<1>5. QED
  BY <1>3, <1>4 DEF MergerOK

LEMMA OneOrOther ==
  ASSUME NEW n \in {1, 2}
  PROVE  /\ 3 - n \in {1, 2} /\ 3 - n # n
         /\ (n = 1 /\ 3 - n = 2) \/ (n = 2 /\ 3 - n = 1)
OBVIOUS

SmallestIs(r, n) ==
  /\ pc[r] = "merge" /\ TakesFrom(r, n)
  /\ SortBotOut(r, Term(r, n), {}, {Behind(r, n)})
  /\ Goto(r, IF n = 1 THEN "next1" ELSE "next2")
  /\ UNCHANGED <<signals, blin, todo, input, expressions>>

LEMMA SmallestFlows ==
  ASSUME IInv, IInv', SumInv, NEW r \in Readers, NEW n \in {1, 2}, SmallestIs(r, n)
  PROVE  SumInv'
<1> DEFINE m == 3 - n
           s == SortBotIn(r, n)
           o == SortBotIn(r, m)
           t == Term(r, n)
           u == Term(r, m)
<1>1. Stores /\ (Active => Flowing) /\ (Active => Flowing /\ Conserved)
  BY SumInvParts
<1>2. /\ pc[r] = "merge" /\ SortBotOut(r, t, {}, {Behind(r, n)})
      /\ UNCHANGED <<wakeup, target, blin, todo, input>>
      /\ t # End /\ (u = End \/ u[1] - t[1] > 0)
  BY DEF SmallestIs, TakesFrom, CompareTerms, signals
<1>3. m \in {1, 2} /\ m # n /\ ((n = 1 /\ m = 2) \/ (n = 2 /\ m = 1))
  BY OneOrOther
<1>4. /\ FrontIs(r, n, s, t) /\ FrontIs(r, m, o, u) /\ Behind(r, n) = <<s, Before(ReadAt(s))>>
  BY <1>1, <1>2, <1>3, MergeFronts
<1>5. InMerge(r)
  BY <1>2 DEF InMerge, Loop
<1>6. /\ Flowing /\ r \in Threads /\ OwnOK(r) /\ RingTypes /\ FullTypes /\ s # o
  BY <1>1, <1>3, <1>5, MergeFacts
<1>7. /\ pc'[r] = (IF n = 1 THEN "next1" ELSE "next2") /\ Goto(r, pc'[r])
  BY <1>6, GotoFacts DEF SmallestIs, IInv, Types
<1> HIDE DEF m, s, o, t, u
<1>8. /\ s \in Streams /\ s # r /\ ReaderOf(s) = r /\ InputNo(s) = n
      /\ o \in Streams /\ o # r /\ ReaderOf(o) = r /\ InputNo(o) = m
      /\ ~ReaderDone(s) /\ ~ReaderDone(o)
  BY <1>4 DEF FrontIs, InputOK
<1>9. \A v \in Streams : v # r =>
        /\ SameFill(v)
        /\ \A j \in Places :
             /\ memory'[<<v, j>>] = memory[<<v, j>>]
             /\ MasterBlockLock'[<<v, j>>] = IF v = s /\ j = Before(ReadAt(s)) THEN Free
                                             ELSE MasterBlockLock[<<v, j>>]
  <2>1. \A j \in Places : <<r, j>> \notin {}
    OBVIOUS
  <2>2. \A v \in Streams : v # r =>
           /\ SameFill(v)
           /\ \A j \in Places :
                /\ <<v, j>> \notin {} => memory'[<<v, j>>] = memory[<<v, j>>]
                /\ MasterBlockLock'[<<v, j>>] = IF <<v, j>> \in {Behind(r, n)} THEN Free
                                                ELSE MasterBlockLock[<<v, j>>]
    BY <1>2, <1>6, <2>1, OutBlocks
  <2>3. QED
    BY <1>4, <2>2
<1>10. MergeMove(r)
  <2>1. r # Master => output' = output
    BY <1>2 DEF SortBotOut
  <2>2. \A v \in Streams : v # r => SameFill(v) /\ (ReaderOf(v) # r => SameBlocks(v))
    BY <1>8, <1>9 DEF SameBlocks
  <2>3. pc'[r] \in MergePhases
    BY <1>7 DEF MergePhases
  <2>4. QED
    BY <1>2, <1>7, <2>1, <2>2, <2>3 DEF MergeMove
<1>11. pc'[r] \in Loop /\ StaysIn(r)
  BY <1>7 DEF Loop, StaysIn
<1>12. /\ SameWriting(s) /\ SameWriting(o) /\ (r # Master => SameReading(r) /\ ~Unstarted(r)')
       /\ ~ReaderDone(s)' /\ ~ReaderDone(o)' /\ (r # Master => ~Ended(r)')
  BY <1>1, <1>5, <1>8, <1>10, <1>11, MergeMoves, ReaderStays
<1>13. /\ ReaderIn(s)' /\ Consumed(s)' /\ ReadAt(s)' = ReadAt(s) /\ ~HoldsBehind(s)'
       /\ ReaderIn(s) /\ HoldsBehind(s) /\ ~Consumed(s)
  BY <1>2, <1>3, <1>4, <1>7, <1>8, <1>11, InputReading DEF FrontIs
<1>14. SameReading(o) /\ ~Consumed(o)'
  <2>1. /\ ReaderIn(o)' /\ ~Consumed(o)' /\ ReadAt(o)' = ReadAt(o) /\ HoldsBehind(o)'
        /\ ReaderIn(o) /\ HoldsBehind(o) /\ ~Consumed(o)
    BY <1>2, <1>3, <1>4, <1>7, <1>8, <1>11, InputReading DEF FrontIs
  <2>2. QED
    BY <1>8, <1>12, <2>1 DEF SameReading
<1>15. /\ StreamOK(s)' /\ Rest(s)' = Behind1(s) /\ Front(s)' = Front(s) /\ LastKey(s)' = LastKey(s)
  <2>1. InputOK(r, n, s) /\ Front(s) # End
    BY <1>2, <1>4 DEF FrontIs
  <2>2. /\ SameFill(s)
        /\ \A j \in Places : j # Before(ReadAt(s)) => memory'[<<s, j>>] = memory[<<s, j>>]
        /\ \A j \in Places : j # Before(ReadAt(s)) \/ HoldsBehind(s)' =>
                             MasterBlockLock'[<<s, j>>] = MasterBlockLock[<<s, j>>]
    BY <1>8, <1>9, <1>13
  <2>3. QED
    BY <1>2, <1>6, <1>12, <1>13, <2>1, <2>2, TakeInput
<1>16. /\ StreamOK(o)' /\ Rest(o)' = Rest(o) /\ Front(o)' = Front(o) /\ LastKey(o)' = LastKey(o)
  <2>1. InputOK(r, m, o)
    BY <1>4 DEF FrontIs
  <2>2. SameFill(o) /\ SameBlocks(o)
    BY <1>6, <1>8, <1>9 DEF SameBlocks
  <2>3. QED
    BY <1>2, <1>6, <1>12, <1>14, <2>1, <2>2, KeepInput
<1>17. IsTerm(t) /\ t[1] > LastOut(r) /\ Front(s) = t /\ Front(o) = u /\ (u = End \/ IsTerm(u))
  BY <1>2, <1>4 DEF FrontIs
<1>18. /\ r # Master => StreamOK(r)' /\ (ReaderIn(r) => Front(r)' = Front(r))
       /\ Gained(r, t) /\ LastOut(r)' = t[1]
       /\ output' \in Seq(Nat \X Int) /\ InOrder(output')
  <2>1. \A j \in Places : <<r, j>> \notin {} /\ <<r, j>> \notin {Behind(r, n)}
    BY <1>4, <1>8
  <2>2. QED
    BY <1>2, <1>6, <1>12, <1>17, <2>1, OutTerm
<1>19. FrontThen(r, s) /\ FrontThen(r, o)
  <2>1. t[1] \in Nat
    BY <1>17, TermFacts
  <2>2. FrontThen(r, s)
    BY <1>13, <1>15, <1>17, <1>18, <2>1 DEF FrontThen
  <2>3. u = End \/ u[1] > t[1]
    BY <1>2, <1>17, <2>1, TermFacts
  <2>4. FrontThen(r, o)
    BY <1>14, <1>16, <1>17, <1>18, <2>3 DEF FrontThen
  <2>5. QED
    BY <2>2, <2>4
<1>20. \A k \in Nat \ {0} : Coef(Rest(s), k) + Coef(Rest(o), k)
                              = Coef(Rest(s)', k) + Coef(Rest(o)', k) + CoefIn(t, k)
  <2>1. ASSUME NEW k \in Nat \ {0}
        PROVE  Coef(Rest(s), k) + Coef(Rest(o), k) = Coef(Rest(s)', k) + Coef(Rest(o)', k) + CoefIn(t, k)
    <3>1. /\ Coef(Rest(s), k) = Coef(Rest(s)', k) + CoefIn(t, k)
          /\ Coef(Rest(s), k) \in Int /\ Coef(Rest(s)', k) \in Int /\ CoefIn(t, k) \in Int
      <4>1. InputOK(r, n, s) /\ Front(s) # End
        BY <1>2, <1>4 DEF FrontIs
      <4>2. QED
        BY <1>6, <1>13, <1>15, <1>17, <4>1, CoefOfTaken
    <3>2. Coef(Rest(o), k) \in Int
      <4>1. \A x \in Rest(o) : IsTerm(x)
        BY <1>6, <1>8, FlowingRests DEF RestsAreTerms
      <4>2. QED
        BY <4>1, CoefType
    <3>3. QED
      BY <1>16, <3>1, <3>2
  <2>2. QED
    BY <2>1
<1>21. CASE n = 1
  <2>1. s = SortBotIn(r, 1) /\ o = SortBotIn(r, 2)
    BY <1>3, <1>21 DEF s, o
  <2>2. MergerOK(r)'
    BY <1>11, <1>19, <2>1, MergerOKThen
  <2>3. TakenIsGiven(r, t)
    BY <1>20, <2>1 DEF TakenIsGiven
  <2>4. /\ StreamOK(SortBotIn(r, 1))' /\ LastKey(SortBotIn(r, 1))' = LastKey(SortBotIn(r, 1))
        /\ StreamOK(SortBotIn(r, 2))' /\ LastKey(SortBotIn(r, 2))' = LastKey(SortBotIn(r, 2))
    BY <1>15, <1>16, <2>1
  <2>5. QED
    BY <1>5, <1>10, <1>17, <1>18, <2>2, <2>3, <2>4, MergeFlows
<1>22. CASE n = 2
  <2>1. o = SortBotIn(r, 1) /\ s = SortBotIn(r, 2)
    BY <1>3, <1>22 DEF s, o
  <2>2. MergerOK(r)'
    BY <1>11, <1>19, <2>1, MergerOKThen
  <2>3. TakenIsGiven(r, t)
    <3>1. ASSUME NEW k \in Nat \ {0}
          PROVE  Coef(Rest(o), k) + Coef(Rest(s), k)
                   = Coef(Rest(o)', k) + Coef(Rest(s)', k) + CoefIn(t, k)
      <4>1. \A x \in Rest(o) : IsTerm(x)
        BY <1>6, <1>8, FlowingRests DEF RestsAreTerms
      <4>2. \A x \in Rest(s) : IsTerm(x)
        BY <1>6, <1>8, FlowingRests DEF RestsAreTerms
      <4>3. InputOK(r, n, s) /\ Front(s) # End
        BY <1>2, <1>4 DEF FrontIs
      <4>4. Coef(Rest(s)', k) \in Int /\ Coef(Rest(s), k) \in Int
        BY <1>6, <1>13, <1>15, <1>17, <4>3, CoefOfTaken
      <4>5. Coef(Rest(o), k) \in Int
        BY <4>1, CoefType
      <4>6. QED
        BY <1>16, <1>20, <4>4, <4>5
    <3>2. QED
      BY <2>1, <3>1 DEF TakenIsGiven
  <2>4. /\ StreamOK(SortBotIn(r, 1))' /\ LastKey(SortBotIn(r, 1))' = LastKey(SortBotIn(r, 1))
        /\ StreamOK(SortBotIn(r, 2))' /\ LastKey(SortBotIn(r, 2))' = LastKey(SortBotIn(r, 2))
    BY <1>15, <1>16, <2>1
  <2>5. QED
    BY <1>5, <1>10, <1>17, <1>18, <2>2, <2>3, <2>4, MergeFlows
<1>23. QED
  BY <1>3, <1>21, <1>22

\* Terms of the same key: both are taken. "t" is what is passed on.
BothTaken(r, t, a, b) ==
  /\ pc[r] = "merge" /\ pc'[r] = "next12" /\ Goto(r, pc'[r])
  /\ UNCHANGED <<wakeup, target, blin, todo, input>> /\ (r # Master => output' = output)
  /\ a = SortBotIn(r, 1) /\ b = SortBotIn(r, 2)
  /\ Term(r, 1) # End /\ Term(r, 2) # End /\ Term(r, 1)[1] = Term(r, 2)[1]
  /\ \A v \in Streams : v # r =>
       /\ SameFill(v)
       /\ \A j \in Places :
            /\ ~(v = a /\ j = Before(ReadAt(a))) => memory'[<<v, j>>] = memory[<<v, j>>]
            /\ MasterBlockLock'[<<v, j>>] = IF v = a /\ j = Before(ReadAt(a)) THEN Free
                                            ELSE MasterBlockLock[<<v, j>>]

LEMMA BothTakenMoves ==
  ASSUME IInv, SumInv, NEW r \in Readers, NEW t, NEW a, NEW b, BothTaken(r, t, a, b)
  PROVE  /\ InMerge(r) /\ MergeMove(r) /\ pc'[r] \in Loop /\ a # b
         /\ a \in Streams /\ b \in Streams /\ a # r /\ b # r
         /\ SameWriting(a) /\ SameWriting(b)
         /\ ~ReaderDone(a)' /\ ~ReaderDone(b)'
         /\ r # Master => SameReading(r) /\ ~Unstarted(r)' /\ ~Ended(r)'
         /\ FrontIs(r, 1, a, Term(r, 1)) /\ FrontIs(r, 2, b, Term(r, 2))
         /\ Behind(r, 1) = <<a, Before(ReadAt(a))>>
<1>1. Stores /\ (Active => Flowing) /\ (Active => Flowing /\ Conserved)
  BY SumInvParts
<1>2. /\ pc[r] = "merge" /\ pc'[r] = "next12" /\ Goto(r, pc'[r])
      /\ UNCHANGED <<wakeup, target, blin, todo, input>> /\ (r # Master => output' = output)
      /\ a = SortBotIn(r, 1) /\ b = SortBotIn(r, 2)
  BY DEF BothTaken
<1>3. /\ FrontIs(r, 1, a, Term(r, 1)) /\ FrontIs(r, 2, b, Term(r, 2))
      /\ Behind(r, 1) = <<a, Before(ReadAt(a))>>
  BY <1>1, <1>2, MergeFronts
<1>4. InMerge(r) /\ pc'[r] \in Loop /\ StaysIn(r) /\ pc'[r] \in MergePhases
  BY <1>2 DEF InMerge, Loop, StaysIn, MergePhases
<1>5. /\ a \in Streams /\ b \in Streams /\ a # r /\ b # r /\ ReaderOf(a) = r /\ ReaderOf(b) = r /\ a # b
  BY <1>2, InputShape
<1>6. MergeMove(r)
  <2>1. \A v \in Streams : v # r => SameFill(v) /\ (ReaderOf(v) # r => SameBlocks(v))
    BY <1>5 DEF BothTaken, SameBlocks
  <2>2. QED
    BY <1>2, <1>4, <2>1 DEF MergeMove
<1>7. /\ SameWriting(a) /\ SameWriting(b) /\ (r # Master => SameReading(r) /\ ~Unstarted(r)')
      /\ ~ReaderDone(a)' /\ ~ReaderDone(b)' /\ (r # Master => ~Ended(r)')
  BY <1>1, <1>4, <1>5, <1>6, MergeMoves, ReaderStays
<1>8. QED
  BY <1>3, <1>4, <1>5, <1>6, <1>7

LEMMA TakeFront ==
  ASSUME RingTypes, FullTypes, NEW r, NEW n \in {1, 2}, NEW s, NEW t, FrontIs(r, n, s, t), t # End,
         pc'[r] = "next12", UNCHANGED <<blin, todo>>,
         SameWriting(s), ~ReaderDone(s)', SameFill(s),
         \A j \in Places : j # Before(ReadAt(s)) => memory'[<<s, j>>] = memory[<<s, j>>],
         \A j \in Places : j # Before(ReadAt(s)) \/ n = 2 =>
                             MasterBlockLock'[<<s, j>>] = MasterBlockLock[<<s, j>>]
  PROVE  /\ StreamOK(s)' /\ LastKey(s)' = LastKey(s) /\ Front(s)' = t /\ Consumed(s)'
         /\ Rest(s)' = Behind1(s) /\ IsTerm(t) /\ t[1] > LastOut(r)
         /\ \A k : /\ Coef(Rest(s), k) = Coef(Rest(s)', k) + CoefIn(t, k)
                   /\ Coef(Rest(s), k) \in Int /\ Coef(Rest(s)', k) \in Int /\ CoefIn(t, k) \in Int
<1>1. /\ InputOK(r, n, s) /\ ReaderIn(s) /\ ~Consumed(s) /\ HoldsBehind(s) /\ Front(s) = t
      /\ ReadAt(s) = blin[r][n] /\ ReaderOf(s) = r /\ InputNo(s) = n
      /\ IsTerm(t) /\ t[1] > LastOut(r)
  BY DEF FrontIs, InputOK
<1>2. /\ ReaderIn(s)' /\ Consumed(s)' /\ ReadAt(s)' = ReadAt(s) /\ (HoldsBehind(s)' => n = 2)
  <2>1. pc'[r] \in Loop
    BY DEF Loop
  <2>2. QED
    BY <1>1, <2>1, InputReading
<1>3. /\ StreamOK(s)' /\ Rest(s)' = Behind1(s) /\ Front(s)' = Front(s) /\ LastKey(s)' = LastKey(s)
  BY <1>1, <1>2, TakeInput
<1>4. \A k : /\ Coef(Rest(s), k) = Coef(Rest(s)', k) + CoefIn(t, k)
             /\ Coef(Rest(s), k) \in Int /\ Coef(Rest(s)', k) \in Int /\ CoefIn(t, k) \in Int
  BY <1>1, <1>3, CoefOfTaken
<1>5. QED
  BY <1>1, <1>2, <1>3, <1>4

LEMMA BothTakenFlows ==
  ASSUME IInv, IInv', SumInv, NEW r \in Readers, NEW t, NEW a, NEW b, BothTaken(r, t, a, b),
         t = End \/ IsTerm(t),
         r # Master => StreamOK(r)' /\ (ReaderIn(r) => Front(r)' = Front(r)),
         Gained(r, t), LastOut(r)' \in Int, LastOut(r)' <= Term(r, 1)[1],
         output' \in Seq(Nat \X Int), InOrder(output'),
         \A k \in Nat \ {0} : CoefIn(t, k) = CoefIn(Term(r, 1), k) + CoefIn(Term(r, 2), k)
  PROVE  SumInv'
<1> DEFINE u == Term(r, 1)
           v == Term(r, 2)
<1>1. /\ InMerge(r) /\ MergeMove(r) /\ pc'[r] \in Loop /\ a # b
      /\ a \in Streams /\ b \in Streams /\ a # r /\ b # r
      /\ SameWriting(a) /\ SameWriting(b) /\ ~ReaderDone(a)' /\ ~ReaderDone(b)'
      /\ FrontIs(r, 1, a, u) /\ FrontIs(r, 2, b, v)
  BY BothTakenMoves
<1>2. /\ u # End /\ v # End /\ u[1] = v[1] /\ pc'[r] = "next12" /\ UNCHANGED <<blin, todo>>
      /\ a = SortBotIn(r, 1) /\ b = SortBotIn(r, 2)
  BY DEF BothTaken
<1>3. \A k \in Nat \ {0} : CoefIn(t, k) = CoefIn(u, k) + CoefIn(v, k)
  OBVIOUS
<1>4. LastOut(r)' \in Int /\ LastOut(r)' <= u[1] /\ RingTypes /\ FullTypes
  BY DEF IInv
<1> HIDE DEF u, v
<1>5. /\ SameFill(a) /\ SameFill(b)
      /\ \A j \in Places : j # Before(ReadAt(a)) => memory'[<<a, j>>] = memory[<<a, j>>]
      /\ \A j \in Places : j # Before(ReadAt(a)) =>
                             MasterBlockLock'[<<a, j>>] = MasterBlockLock[<<a, j>>]
      /\ \A j \in Places : memory'[<<b, j>>] = memory[<<b, j>>]
      /\ \A j \in Places : MasterBlockLock'[<<b, j>>] = MasterBlockLock[<<b, j>>]
  BY <1>1 DEF BothTaken
<1>6. /\ StreamOK(a)' /\ LastKey(a)' = LastKey(a) /\ Front(a)' = u /\ Consumed(a)' /\ IsTerm(u)
      /\ \A k : /\ Coef(Rest(a), k) = Coef(Rest(a)', k) + CoefIn(u, k)
                /\ Coef(Rest(a), k) \in Int /\ Coef(Rest(a)', k) \in Int /\ CoefIn(u, k) \in Int
  BY <1>1, <1>2, <1>4, <1>5, TakeFront
<1>7. /\ StreamOK(b)' /\ LastKey(b)' = LastKey(b) /\ Front(b)' = v /\ Consumed(b)' /\ IsTerm(v)
      /\ \A k : /\ Coef(Rest(b), k) = Coef(Rest(b)', k) + CoefIn(v, k)
                /\ Coef(Rest(b), k) \in Int /\ Coef(Rest(b)', k) \in Int /\ CoefIn(v, k) \in Int
  BY <1>1, <1>2, <1>4, <1>5, TakeFront
<1>8. MergerOK(r)'
  <2>1. u[1] \in Nat /\ v[1] = u[1]
    BY <1>2, <1>6, TermFacts
  <2>2. FrontThen(r, a) /\ FrontThen(r, b)
    BY <1>4, <1>6, <1>7, <2>1 DEF FrontThen
  <2>3. QED
    BY <1>1, <1>2, <2>2, MergerOKThen
<1>9. TakenIsGiven(r, t)
  <2>1. ASSUME NEW k \in Nat \ {0}
        PROVE  Coef(Rest(a), k) + Coef(Rest(b), k) = Coef(Rest(a)', k) + Coef(Rest(b)', k) + CoefIn(t, k)
    BY <1>3, <1>6, <1>7
  <2>2. QED
    BY <1>2, <2>1 DEF TakenIsGiven
<1>10. /\ StreamOK(SortBotIn(r, 1))' /\ LastKey(SortBotIn(r, 1))' = LastKey(SortBotIn(r, 1))
       /\ StreamOK(SortBotIn(r, 2))' /\ LastKey(SortBotIn(r, 2))' = LastKey(SortBotIn(r, 2))
  BY <1>2, <1>6, <1>7
<1>11. QED
  BY <1>1, <1>8, <1>9, <1>10, MergeFlows

LEMMA EqualFlows ==
  ASSUME IInv, IInv', SumInv, NEW r \in Readers, Equal(r)
  PROVE  SumInv'
<1> DEFINE a == SortBotIn(r, 1)
           b == SortBotIn(r, 2)
           t == SumOfTerms(r)
           u == Term(r, 1)
           v == Term(r, 2)
<1>1. Stores /\ (Active => Flowing) /\ (Active => Flowing /\ Conserved)
  BY SumInvParts
<1>2. /\ pc[r] = "merge" /\ u # End /\ v # End /\ v[1] - u[1] = 0 /\ t[2] # 0
      /\ Goto(r, "next12") /\ UNCHANGED <<wakeup, target, blin, todo, input>>
      /\ t = <<u[1], u[2] + v[2]>>
  BY DEF Equal, EqualTerms, CompareTerms, SumOfTerms, signals
<1>3. PICK grows \in BOOLEAN :
        SortBotOut(r, t, IF grows /\ blin[r][1] > 1 THEN {Behind(r, 1)} ELSE {}, {Behind(r, 1)})
  BY DEF Equal
<1> DEFINE spoilt == IF grows /\ blin[r][1] > 1 THEN {Behind(r, 1)} ELSE {}
<1>4. /\ FrontIs(r, 1, a, u) /\ FrontIs(r, 2, b, v) /\ Behind(r, 1) = <<a, Before(ReadAt(a))>>
  BY <1>1, <1>2, MergeFronts
<1>5. InMerge(r)
  BY <1>2 DEF InMerge, Loop
<1>6. /\ Flowing /\ r \in Threads /\ OwnOK(r) /\ RingTypes /\ FullTypes /\ a # r
  BY <1>1, <1>5, MergeFacts, InputShape
<1>7. pc'[r] = "next12" /\ Goto(r, pc'[r])
  BY <1>2, <1>6, GotoFacts DEF IInv, Types
<1>8. /\ IsTerm(u) /\ IsTerm(v) /\ u[1] > LastOut(r)
  BY <1>2, <1>4 DEF FrontIs
<1>9. u[1] \in Nat /\ u[1] # 0 /\ u[2] \in Int /\ v[2] \in Int /\ v[1] = u[1]
  BY <1>2, <1>8, TermFacts
<1>10. IsTerm(t) /\ t[1] = u[1] /\ t[2] = u[2] + v[2]
  BY <1>2, <1>9 DEF IsTerm
<1>11. spoilt \subseteq {Behind(r, 1)} /\ SortBotOut(r, t, spoilt, {Behind(r, 1)})
  BY <1>3
<1> HIDE DEF spoilt, a, b, t, u, v
<1>12. \A w \in Streams : w # r =>
           /\ SameFill(w)
           /\ \A j \in Places :
                /\ <<w, j>> \notin spoilt => memory'[<<w, j>>] = memory[<<w, j>>]
                /\ MasterBlockLock'[<<w, j>>] = IF <<w, j>> \in {Behind(r, 1)} THEN Free
                                                ELSE MasterBlockLock[<<w, j>>]
  <2>1. \A j \in Places : <<r, j>> \notin spoilt
    BY <1>4, <1>6, <1>11
  <2>2. QED
    BY <1>6, <1>11, <2>1, OutBlocks
<1>13. BothTaken(r, t, a, b)
  <2>1. \A w \in Streams : w # r =>
           /\ SameFill(w)
           /\ \A j \in Places :
                /\ ~(w = a /\ j = Before(ReadAt(a))) => memory'[<<w, j>>] = memory[<<w, j>>]
                /\ MasterBlockLock'[<<w, j>>] = IF w = a /\ j = Before(ReadAt(a)) THEN Free
                                                ELSE MasterBlockLock[<<w, j>>]
    BY <1>4, <1>11, <1>12
  <2>2. r # Master => output' = output
    BY <1>11 DEF SortBotOut
  <2>3. Term(r, 1) # End /\ Term(r, 2) # End /\ Term(r, 1)[1] = Term(r, 2)[1]
    BY <1>2, <1>9 DEF u, v
  <2>4. a = SortBotIn(r, 1) /\ b = SortBotIn(r, 2)
    BY DEF a, b
  <2>5. QED
    BY <1>2, <1>7, <2>1, <2>2, <2>3, <2>4 DEF BothTaken
<1>14. r # Master => SameReading(r) /\ ~Unstarted(r)' /\ ~Ended(r)'
  BY <1>13, BothTakenMoves
<1>15. /\ r # Master => StreamOK(r)' /\ (ReaderIn(r) => Front(r)' = Front(r))
       /\ Gained(r, t) /\ LastOut(r)' = t[1]
       /\ output' \in Seq(Nat \X Int) /\ InOrder(output')
  <2>1. \A j \in Places : <<r, j>> \notin spoilt /\ <<r, j>> \notin {Behind(r, 1)}
    BY <1>4, <1>6, <1>11
  <2>2. t[1] > LastOut(r)
    BY <1>8, <1>10
  <2>3. QED
    BY <1>2, <1>6, <1>10, <1>11, <1>14, <2>1, <2>2, OutTerm
<1>16. LastOut(r)' \in Int /\ LastOut(r)' <= Term(r, 1)[1]
  BY <1>9, <1>10, <1>15 DEF u
<1>17. \A k \in Nat \ {0} : CoefIn(t, k) = CoefIn(Term(r, 1), k) + CoefIn(Term(r, 2), k)
  <2>1. \A k \in Nat \ {0} : CoefIn(t, k) = CoefIn(u, k) + CoefIn(v, k)
    BY <1>9, <1>10 DEF CoefIn
  <2>2. QED
    BY <2>1 DEF u, v
<1>18. QED
  BY <1>10, <1>13, <1>15, <1>16, <1>17, BothTakenFlows

LEMMA LastOutType ==
  ASSUME RingTypes, FullTypes, Flowing, NEW r \in Readers, OwnOK(r)
  PROVE  LastOut(r) \in Int
<1>1. CASE r = Master
  <2>1. output = <<>> => LastOut(r) = 0
    BY <1>1 DEF LastOut
  <2>2. output # <<>> => LastOut(r) = output[Len(output)][1] /\ IsTerm(output[Len(output)])
    <3>1. output # <<>> => Len(output) \in DOMAIN output
      BY DEF Flowing
    <3>2. QED
      BY <1>1, <3>1 DEF LastOut, Flowing, InOrder
  <2>3. QED
    BY <2>1, <2>2, TermFacts
<1>2. CASE r # Master
  <2>1. r \in Streams /\ WriterOK(r) /\ ~Unstarted(r) /\ ~Ended(r)
    BY <1>2 DEF OwnOK, StreamOK
  <2>2. CASE full[r]
    <3>1. InRing(memory, r, ReadAt(r), FillBlock[r], FALSE) /\ FALSE \in BOOLEAN
      <4>1. Ended(r) = FALSE
        BY <2>1, StreamTypes
      <4>2. QED
        BY <2>1, <2>2, <4>1 DEF WriterOK
    <3>2. ReadAt(r) \in Places /\ FillBlock[r] \in Places
      BY <2>1, StreamTypes
    <3>3. IsTerm(memory[<<r, FillBlock[r]>>])
      BY <3>1, <3>2, RingEnds
    <3>4. QED
      BY <1>2, <2>2, <3>3, TermFacts DEF LastOut, LastKey
  <2>3. CASE ~full[r]
    BY <1>2, <2>3 DEF LastOut, LastKey
  <2>4. QED
    BY <2>2, <2>3
<1>3. QED
  BY <1>1, <1>2

LEMMA CancelledFlows ==
  ASSUME IInv, IInv', SumInv, NEW r \in Readers, Cancelled(r)
  PROVE  SumInv'
<1> DEFINE a == SortBotIn(r, 1)
           b == SortBotIn(r, 2)
           u == Term(r, 1)
           v == Term(r, 2)
<1>1. Stores /\ (Active => Flowing) /\ (Active => Flowing /\ Conserved)
  BY SumInvParts
<1>2. /\ pc[r] = "merge" /\ u # End /\ v # End /\ v[1] - u[1] = 0 /\ u[2] + v[2] = 0
      /\ Goto(r, "next12") /\ UNCHANGED <<wakeup, target, blin, todo, input, output>>
      /\ UNCHANGED <<memory, FillBlock, full>> /\ Relock(r, {}, {Behind(r, 1)})
  BY DEF Cancelled, EqualTerms, CompareTerms, SumOfTerms, signals, job
<1>4. /\ FrontIs(r, 1, a, u) /\ FrontIs(r, 2, b, v) /\ Behind(r, 1) = <<a, Before(ReadAt(a))>>
  BY <1>1, <1>2, MergeFronts
<1>5. InMerge(r)
  BY <1>2 DEF InMerge, Loop
<1>6. /\ Flowing /\ r \in Threads /\ OwnOK(r) /\ RingTypes /\ FullTypes /\ a # r
  BY <1>1, <1>5, MergeFacts, InputShape
<1>7. pc'[r] = "next12" /\ Goto(r, pc'[r])
  BY <1>2, <1>6, GotoFacts DEF IInv, Types
<1>8. /\ IsTerm(u) /\ IsTerm(v) /\ u[1] > LastOut(r)
  BY <1>2, <1>4 DEF FrontIs
<1>9. u[1] \in Nat /\ u[1] # 0 /\ u[2] \in Int /\ v[2] \in Int /\ v[1] = u[1]
  BY <1>2, <1>8, TermFacts
<1> HIDE DEF a, b, u, v
<1>12. \A w \in Streams : /\ SameFill(w)
                          /\ \A j \in Places :
                               /\ memory'[<<w, j>>] = memory[<<w, j>>]
                               /\ MasterBlockLock'[<<w, j>>] = IF w = a /\ j = Before(ReadAt(a)) THEN Free
                                                               ELSE MasterBlockLock[<<w, j>>]
  BY <1>2, <1>4, BlockFacts DEF Relock, SameFill
<1>13. BothTaken(r, End, a, b)
  <2>3. Term(r, 1) # End /\ Term(r, 2) # End /\ Term(r, 1)[1] = Term(r, 2)[1]
    BY <1>2, <1>9 DEF u, v
  <2>4. a = SortBotIn(r, 1) /\ b = SortBotIn(r, 2)
    BY DEF a, b
  <2>5. QED
    BY <1>2, <1>7, <1>12, <2>3, <2>4 DEF BothTaken
<1>14. r # Master => SameReading(r) /\ ~Unstarted(r)' /\ ~Ended(r)'
  BY <1>13, BothTakenMoves
<1>15. r # Master => /\ StreamOK(r)' /\ Front(r)' = Front(r) /\ Rest(r)' = Rest(r)
                     /\ LastKey(r)' = LastKey(r)
  <2>1. r # Master => SameFill(r) /\ SameBlocks(r)
    BY <1>6, <1>12 DEF OwnOK, SameBlocks
  <2>2. QED
    BY <1>2, <1>6, <1>14, <2>1, KeepOwn
<1>16. Gained(r, End)
  <2>1. \A x : IsTerm(x) => x[1] # End[1]
    BY TermFacts DEF End
  <2>2. \A P : With(P, End) = P
    BY DEF With
  <2>3. CASE r # Master
    <3>1. \A x \in Rest(r) : IsTerm(x)
      BY <1>6, <2>3, FlowingRests DEF RestsAreTerms, OwnOK
    <3>2. QED
      BY <1>2, <1>15, <2>1, <2>2, <2>3, <3>1 DEF Gained
  <2>4. CASE r = Master
    <3>1. \A x \in Elements(output) : IsTerm(x)
      BY <1>6, FlowingRests DEF OutputIsTerms
    <3>2. QED
      BY <1>2, <2>1, <2>2, <2>4, <3>1 DEF Gained
  <2>5. QED
    BY <2>3, <2>4
<1>17. LastOut(r)' \in Int /\ LastOut(r)' <= Term(r, 1)[1]
  <2>1. LastOut(r)' = LastOut(r)
    BY <1>2, <1>15 DEF LastOut, LastKey
  <2>2. LastOut(r) \in Int
    BY <1>6, LastOutType
  <2>3. QED
    BY <1>8, <1>9, <2>1, <2>2 DEF u
<1>18. \A k \in Nat \ {0} : CoefIn(End, k) = CoefIn(Term(r, 1), k) + CoefIn(Term(r, 2), k)
  <2>1. \A k \in Nat \ {0} : CoefIn(End, k) = CoefIn(u, k) + CoefIn(v, k)
    BY <1>2, <1>9 DEF CoefIn, End
  <2>2. QED
    BY <2>1 DEF u, v
<1>19. output' \in Seq(Nat \X Int) /\ InOrder(output')
  BY <1>2, <1>6 DEF Flowing
<1>20. r # Master => StreamOK(r)' /\ (ReaderIn(r) => Front(r)' = Front(r))
  BY <1>15
<1>21. QED
  BY <1>13, <1>16, <1>17, <1>18, <1>19, <1>20, BothTakenFlows

\* A step of a merge in which nothing is written.
SilentMove(r) ==
  /\ Goto(r, pc'[r]) /\ StaysIn(r)
  /\ UNCHANGED <<wakeup, target, todo, input, output, memory, FillBlock, full>>
  /\ \A x \in Readers : x # r => blin'[x] = blin[x]
  /\ \A v \in Streams : ReaderOf(v) # r =>
       \A j \in Places : MasterBlockLock'[<<v, j>>] = MasterBlockLock[<<v, j>>]

LEMMA SilentMoves ==
  ASSUME IInv, SumInv, NEW r \in Readers, InMerge(r), SilentMove(r)
  PROVE  /\ MergeMove(r) /\ \A s \in Streams : SameFill(s)
         /\ \A s \in Streams : s # r => SameWriting(s)
         /\ \A s \in Streams : ReaderOf(s) = r => ~ReaderDone(s)'
         /\ r # Master => /\ StreamOK(r)' /\ Front(r)' = Front(r) /\ Rest(r)' = Rest(r)
                          /\ LastKey(r)' = LastKey(r)
         /\ LastOut(r)' = LastOut(r) /\ LastOut(r) \in Int
<1>1. Stores /\ (Active => Flowing) /\ (Active => Flowing /\ Conserved)
  BY SumInvParts
<1>2. Flowing /\ OwnOK(r) /\ RingTypes /\ FullTypes
  BY <1>1, MergeFacts
<1>3. \A s \in Streams : SameFill(s) /\ (ReaderOf(s) # r => SameBlocks(s))
  BY DEF SilentMove, SameFill, SameBlocks
<1>4. MergeMove(r)
  <2>1. pc'[r] \in MergePhases
    BY DEF SilentMove, StaysIn, Loop, MergePhases
  <2>2. QED
    BY <1>3, <2>1 DEF SilentMove, MergeMove
<1>5. /\ \A s \in Streams : s # r => SameWriting(s)
      /\ r # Master => SameReading(r) /\ ~Unstarted(r)'
  BY <1>1, <1>4, MergeMoves
<1>6. /\ \A s \in Streams : ReaderOf(s) = r => ~ReaderDone(s)'
      /\ r # Master => ~Ended(r)'
  BY ReaderStays DEF SilentMove
<1>7. r # Master => /\ StreamOK(r)' /\ Front(r)' = Front(r) /\ Rest(r)' = Rest(r)
                    /\ LastKey(r)' = LastKey(r)
  <2>1. r # Master => SameFill(r) /\ SameBlocks(r)
    BY <1>2, <1>3 DEF OwnOK
  <2>2. UNCHANGED todo
    BY DEF SilentMove
  <2>3. QED
    BY <1>2, <1>5, <1>6, <2>1, <2>2, KeepOwn
<1>8. LastOut(r)' = LastOut(r)
  BY <1>7 DEF LastOut, LastKey, SilentMove
<1>9. LastOut(r) \in Int
  BY <1>2, LastOutType
<1>10. QED
  BY <1>3, <1>4, <1>5, <1>6, <1>7, <1>8, <1>9

SameStream(s) == StreamOK(s)' /\ Rest(s)' = Rest(s) /\ LastKey(s)' = LastKey(s)

LEMMA SilentFlows ==
  ASSUME IInv, IInv', SumInv, NEW r \in Readers, InMerge(r), SilentMove(r),
         SameStream(SortBotIn(r, 1)), SameStream(SortBotIn(r, 2)), MergerOK(r)'
  PROVE  SumInv'
<1>1. Stores /\ (Active => Flowing) /\ (Active => Flowing /\ Conserved)
  BY SumInvParts
<1>2. Flowing /\ Conserved /\ r \in Threads /\ RingTypes /\ FullTypes
  BY <1>1, MergeFacts
<1>3. /\ MergeMove(r) /\ MovesOnly(r)
      /\ r # Master => /\ StreamOK(r)' /\ Front(r)' = Front(r) /\ Rest(r)' = Rest(r)
  BY <1>1, SilentMoves, MergeMoves
<1>4. \A s \in Streams : Rest(s)' = Rest(s)
  <2>1. ASSUME NEW s \in Streams PROVE Rest(s)' = Rest(s)
    <3>1. CASE s = r
      <4>1. r # Master
        BY <3>1, ThreadFacts DEF Streams
      <4>2. QED
        BY <1>3, <3>1, <4>1
    <3>2. CASE s # r /\ ReaderOf(s) # r
      BY <1>2, <1>3, <3>2, OthersUntouched
    <3>3. CASE ReaderOf(s) = r
      <4>1. s = SortBotIn(r, 1) \/ s = SortBotIn(r, 2)
        BY <3>3, InputShape
      <4>2. QED
        BY <4>1 DEF SameStream
    <3>4. QED
      BY <3>1, <3>2, <3>3
  <2>2. QED
    BY <2>1
<1>5. output' = output /\ input' = input
  BY DEF SilentMove
<1>6. Flowing' => Conserved'
  BY <1>2, <1>4, <1>5, SameRests
<1>7. output' \in Seq(Nat \X Int) /\ InOrder(output')
  BY <1>2, <1>5 DEF Flowing
<1>8. \A n \in {1, 2} : /\ StreamOK(SortBotIn(r, n))'
                        /\ LastKey(SortBotIn(r, n))' = LastKey(SortBotIn(r, n))
  <2>1. ASSUME NEW n \in {1, 2} PROVE StreamOK(SortBotIn(r, n))' /\ LastKey(SortBotIn(r, n))' = LastKey(SortBotIn(r, n))
    <3>1. CASE n = 1
      BY <3>1 DEF SameStream
    <3>2. CASE n = 2
      BY <3>2 DEF SameStream
    <3>3. QED
      BY <3>1, <3>2
  <2>2. QED
    BY <2>1
<1>9. QED
  BY <1>1, <1>3, <1>6, <1>7, <1>8, MergeKept

\* Who holds the blocks when one has been locked and others have been released.
RelockDone(r, s, i, released) ==
  \A v \in Streams : \A j \in Places :
    MasterBlockLock'[<<v, j>>] = IF <<v, j>> \in released THEN Free
                                 ELSE IF v = s /\ j = i THEN r ELSE MasterBlockLock[<<v, j>>]

LEMMA RelockEffect ==
  ASSUME NEW r, NEW s \in Streams, NEW i \in Places, NEW released, Relock(r, {<<s, i>>}, released)
  PROVE  RelockDone(r, s, i, released)
BY BlockFacts DEF Relock, RelockDone

LEMMA StartMergeFlows ==
  ASSUME IInv, IInv', SumInv, NEW r \in Readers, StartMerge(r)
  PROVE  SumInv'
<1> DEFINE a == SortBotIn(r, 1)
           b == SortBotIn(r, 2)
<1>1. Stores /\ (Active => Flowing) /\ (Active => Flowing /\ Conserved)
  BY SumInvParts
<1>2. /\ pc[r] = "in1" /\ IsFree(FirstBlock(a)) /\ Relock(r, {<<a, 1>>}, {})
      /\ blin' = [blin EXCEPT ![r] = <<1, 1>>] /\ Goto(r, "in2")
      /\ UNCHANGED <<wakeup, target, todo, input, output, memory, FillBlock, full>>
  BY DEF StartMerge, signals, job, FirstBlock
<1>3. InMerge(r)
  BY <1>2 DEF InMerge
<1>4. /\ Flowing /\ r \in Threads /\ RingTypes /\ FullTypes /\ MergerOK(r) /\ ~MergeDone(r)
      /\ InputOK(r, 1, a) /\ InputOK(r, 2, b) /\ a # b
  BY <1>1, <1>3, MergeFacts
<1>5. pc'[r] = "in2" /\ Goto(r, pc'[r]) /\ StaysIn(r)
  BY <1>2, <1>4, GotoFacts DEF IInv, Types, StaysIn
<1>6. /\ a \in Streams /\ ReaderOf(a) = r /\ InputNo(a) = 1 /\ a # r
      /\ b \in Streams /\ ReaderOf(b) = r /\ InputNo(b) = 2 /\ b # r
      /\ ~ReaderDone(a) /\ ~ReaderDone(b)
  BY <1>4 DEF InputOK
<1> HIDE DEF a, b
<1>7. \A v \in Streams : \A j \in Places :
        MasterBlockLock'[<<v, j>>] = IF v = a /\ j = 1 THEN r ELSE MasterBlockLock[<<v, j>>]
  <2>1. 1 \in Places
    BY RingFacts
  <2>2. Relock(r, {<<a, 1>>}, {})
    BY <1>2
  <2>3. RelockDone(r, a, 1, {})
    BY <1>6, <2>1, <2>2, RelockEffect
  <2>4. QED
    BY <2>3 DEF RelockDone
<1>8. /\ blin'[r] = <<1, 1>> /\ \A x \in Readers : x # r => blin'[x] = blin[x]
  BY <1>2, <1>4 DEF RingTypes
<1>9. SilentMove(r)
  BY <1>2, <1>5, <1>6, <1>7, <1>8 DEF SilentMove
<1>10. /\ SameFill(a) /\ SameFill(b) /\ SameWriting(a) /\ SameWriting(b)
       /\ ~ReaderDone(a)' /\ ~ReaderDone(b)' /\ LastOut(r)' = LastOut(r)
       /\ r # Master => LastKey(r)' = LastKey(r)
  BY <1>3, <1>6, <1>9, SilentMoves
<1>11. SameStream(a)
  <2>1. /\ ~ReaderIn(a) /\ ReaderIn(a)' /\ ReadAt(a)' = 1 /\ ~Consumed(a)'
    BY <1>2, <1>5, <1>6, <1>8, InputReading DEF Loop
  <2>2. /\ MasterBlockLock'[<<a, 1>>] = r
        /\ \A j \in Places : memory'[<<a, j>>] = memory[<<a, j>>]
        /\ \A j \in Places : j # 1 => MasterBlockLock'[<<a, j>>] = MasterBlockLock[<<a, j>>]
    BY <1>2, <1>6, <1>7, RingFacts
  <2>3. QED
    BY <1>2, <1>4, <1>10, <2>1, <2>2, EnterInput DEF SameStream
<1>12. SameStream(b)
  <2>1. /\ ReaderIn(b)' <=> ReaderIn(b)
        /\ Consumed(b)' <=> Consumed(b)
        /\ HoldsBehind(b)' <=> HoldsBehind(b)
        /\ ReadAt(b)' = ReadAt(b)
    BY <1>2, <1>5, <1>6, InputReading DEF Loop
  <2>2. SameReading(b) /\ SameBlocks(b)
    BY <1>2, <1>4, <1>6, <1>7, <1>10, <2>1 DEF SameReading, SameBlocks
  <2>3. QED
    BY <1>2, <1>4, <1>10, <2>2, KeepInput DEF SameStream
<1>13. MergerOK(r)'
  <2>1. NothingWritten(r)
    BY <1>2, <1>4 DEF MergerOK, Loop
  <2>2. NothingWritten(r)'
    BY <1>2, <2>1 DEF NothingWritten
  <2>3. pc'[r] \notin Loop
    BY <1>5 DEF Loop
  <2>4. QED
    BY <1>5, <1>8, <2>2, <2>3 DEF MergerOK
<1>14. QED
  BY <1>3, <1>9, <1>11, <1>12, <1>13, SilentFlows DEF a, b

LEMMA StartMergeIn2Flows ==
  ASSUME IInv, IInv', SumInv, NEW r \in Readers, StartMergeIn2(r)
  PROVE  SumInv'
<1> DEFINE a == SortBotIn(r, 1)
           b == SortBotIn(r, 2)
<1>1. Stores /\ (Active => Flowing) /\ (Active => Flowing /\ Conserved)
  BY SumInvParts
<1>2. /\ pc[r] = "in2" /\ IsFree(FirstBlock(b)) /\ Relock(r, {<<b, 1>>}, {})
      /\ FillBlock' = IF r = Master THEN FillBlock ELSE [FillBlock EXCEPT ![r] = 1]
      /\ Goto(r, "merge")
      /\ UNCHANGED <<wakeup, target, todo, input, output, memory, blin, full>>
  BY DEF StartMergeIn2, signals, job, FirstBlock
<1>3. InMerge(r)
  BY <1>2 DEF InMerge
<1>4. /\ Flowing /\ r \in Threads /\ RingTypes /\ FullTypes /\ MergerOK(r) /\ ~MergeDone(r)
      /\ InputOK(r, 1, a) /\ InputOK(r, 2, b) /\ a # b /\ OwnOK(r)
  BY <1>1, <1>3, MergeFacts
<1>5. pc'[r] = "merge" /\ Goto(r, pc'[r]) /\ StaysIn(r) /\ pc'[r] \in Loop
  BY <1>2, <1>4, GotoFacts DEF IInv, Types, StaysIn, Loop
<1>6. /\ a \in Streams /\ ReaderOf(a) = r /\ InputNo(a) = 1 /\ a # r
      /\ b \in Streams /\ ReaderOf(b) = r /\ InputNo(b) = 2 /\ b # r
      /\ ~ReaderDone(a) /\ ~ReaderDone(b) /\ StreamOK(a) /\ (a \in Workers => WorkerOK(a))
  BY <1>4 DEF InputOK
<1>7. NothingWritten(r) /\ blin[r] = <<1, 1>>
  BY <1>2, <1>4 DEF MergerOK, Loop
<1>8. FillBlock' = FillBlock
  BY <1>2, <1>4, <1>7 DEF NothingWritten, RingTypes, OwnOK
<1>9. LastOut(r) = 0
  BY <1>7 DEF LastOut, LastKey, NothingWritten
<1> HIDE DEF a, b
<1>10. \A v \in Streams : \A j \in Places :
        MasterBlockLock'[<<v, j>>] = IF v = b /\ j = 1 THEN r ELSE MasterBlockLock[<<v, j>>]
  <2>1. 1 \in Places
    BY RingFacts
  <2>2. Relock(r, {<<b, 1>>}, {})
    BY <1>2
  <2>3. RelockDone(r, b, 1, {})
    BY <1>6, <2>1, <2>2, RelockEffect
  <2>4. QED
    BY <2>3 DEF RelockDone
<1>11. SilentMove(r)
  BY <1>2, <1>5, <1>6, <1>8, <1>10 DEF SilentMove
<1>12. /\ SameFill(a) /\ SameFill(b) /\ SameWriting(a) /\ SameWriting(b)
       /\ ~ReaderDone(a)' /\ ~ReaderDone(b)' /\ LastOut(r)' = LastOut(r)
  BY <1>3, <1>6, <1>11, SilentMoves
<1>13. SameStream(b) /\ ~Consumed(b)' /\ (Front(b)' = End \/ IsTerm(Front(b)'))
  <2>1. /\ ~ReaderIn(b) /\ ReaderIn(b)' /\ ReadAt(b)' = 1 /\ ~Consumed(b)'
    BY <1>2, <1>5, <1>6, <1>7, InputReading DEF Loop
  <2>2. /\ MasterBlockLock'[<<b, 1>>] = r
        /\ \A j \in Places : memory'[<<b, j>>] = memory[<<b, j>>]
        /\ \A j \in Places : j # 1 => MasterBlockLock'[<<b, j>>] = MasterBlockLock[<<b, j>>]
    BY <1>2, <1>6, <1>10, RingFacts
  <2>3. QED
    BY <1>2, <1>4, <1>12, <2>1, <2>2, EnterInput DEF SameStream
<1>14. SameStream(a) /\ ~Consumed(a)' /\ (Front(a)' = End \/ IsTerm(Front(a)'))
  <2>1. /\ ReaderIn(a)' /\ ReaderIn(a) /\ ~Consumed(a)' /\ ~Consumed(a) /\ HoldsBehind(a)' /\ HoldsBehind(a)
        /\ ReadAt(a)' = ReadAt(a)
    BY <1>2, <1>5, <1>6, InputReading DEF Loop
  <2>2. SameReading(a) /\ SameBlocks(a)
    BY <1>2, <1>4, <1>6, <1>10, <1>12, <2>1 DEF SameReading, SameBlocks
  <2>3. Front(a) = End \/ IsTerm(Front(a))
    BY <1>4, <1>6, <2>1, FrontIsFirst
  <2>4. /\ StreamOK(a)' /\ Rest(a)' = Rest(a) /\ Front(a)' = Front(a) /\ LastKey(a)' = LastKey(a)
    BY <1>2, <1>4, <1>12, <2>2, KeepInput
  <2>5. QED
    BY <2>1, <2>3, <2>4 DEF SameStream
<1>15. MergerOK(r)'
  <2>1. FrontThen(r, a) /\ FrontThen(r, b)
    BY <1>9, <1>12, <1>13, <1>14, TermFacts DEF FrontThen
  <2>2. QED
    BY <1>5, <2>1, MergerOKThen DEF a, b
<1>16. QED
  BY <1>3, <1>11, <1>13, <1>14, <1>15, SilentFlows DEF a, b

\* The next block of an input.
LEMMA AfterBlin ==
  ASSUME RingTypes, NEW r \in Readers, NEW n \in {1, 2}, NEW m \in {1, 2}, m # n,
         blin' = [blin EXCEPT ![r][n] = After(@)]
  PROVE  /\ blin'[r][n] = After(blin[r][n]) /\ blin'[r][m] = blin[r][m]
         /\ \A x \in Readers : x # r => blin'[x] = blin[x]
         /\ blin[r][n] \in Places /\ blin[r][m] \in Places /\ After(blin[r][n]) \in Places
<1>1. blin[r] \in Places \X Places /\ blin' = [blin EXCEPT ![r] = [blin[r] EXCEPT ![n] = After(blin[r][n])]]
  BY DEF RingTypes, Places
<1>2. blin[r][n] \in Places /\ blin[r][m] \in Places
  BY <1>1
<1>3. blin'[r] = [blin[r] EXCEPT ![n] = After(blin[r][n])] /\ \A x \in Readers : x # r => blin'[x] = blin[x]
  BY <1>1 DEF RingTypes
<1>4. After(blin[r][n]) \in Places
  BY <1>2, RingFacts
<1>5. DOMAIN blin[r] = {1, 2}
  BY <1>1
<1>6. QED
  BY <1>2, <1>3, <1>4, <1>5

AdvancesTo(r, n, place, released, after) ==
  LET s == SortBotIn(r, n)
      j == After(blin[r][n])
  IN  /\ pc[r] = place /\ pc'[r] = after /\ Goto(r, pc'[r])
      /\ j \in Places /\ IsFree(<<s, j>>) /\ RelockDone(r, s, j, released)
      /\ blin'[r][n] = j /\ \A m \in {1, 2} : m # n => blin'[r][m] = blin[r][m]
      /\ \A x \in Readers : x # r => blin'[x] = blin[x]
      /\ UNCHANGED <<wakeup, target, todo, input, output, memory, FillBlock, full>>

LEMMA AdvanceEffect ==
  ASSUME IInv, NEW r \in Readers, NEW n \in {1, 2}, NEW place, NEW released, NEW after,
         Advance(r, n, place, released, after)
  PROVE  AdvancesTo(r, n, place, released, after)
<1> DEFINE s == SortBotIn(r, n)
           j == After(blin[r][n])
<1>1. /\ pc[r] = place /\ IsFree(<<s, j>>) /\ Relock(r, {<<s, j>>}, released) /\ Goto(r, after)
      /\ blin' = [blin EXCEPT ![r][n] = After(@)]
      /\ UNCHANGED <<wakeup, target, todo, input, output, memory, FillBlock, full>>
  BY DEF Advance, signals, job
<1>2. r \in Threads /\ RingTypes
  BY ThreadFacts DEF IInv
<1>3. pc'[r] = after /\ Goto(r, pc'[r])
  BY <1>1, <1>2, GotoFacts DEF IInv, Types
<1>4. /\ blin'[r][n] = j /\ j \in Places /\ \A x \in Readers : x # r => blin'[x] = blin[x]
      /\ \A m \in {1, 2} : m # n => blin'[r][m] = blin[r][m]
  <2>1. 3 - n \in {1, 2} /\ 3 - n # n /\ \A m \in {1, 2} : m # n => m = 3 - n
    BY OneOrOther
  <2>2. QED
    BY <1>1, <1>2, <2>1, AfterBlin
<1>5. s \in Streams
  BY InputShape
<1>6. RelockDone(r, s, j, released)
  <2> HIDE DEF s, j
  <2>1. QED
    BY <1>1, <1>4, <1>5, RelockEffect
<1>7. QED
  BY <1>1, <1>3, <1>4, <1>6 DEF AdvancesTo

LEMMA AdvanceFlows ==
  ASSUME IInv, IInv', SumInv, NEW r \in Readers, NEW n \in {1, 2},
         AdvancesTo(r, n, IF n = 1 THEN "next1" ELSE "next2", {}, "merge")
  PROVE  SumInv'
<1> DEFINE m == 3 - n
           s == SortBotIn(r, n)
           o == SortBotIn(r, m)
           j == After(blin[r][n])
<1>1. Stores /\ (Active => Flowing) /\ (Active => Flowing /\ Conserved)
  BY SumInvParts
<1>2. m \in {1, 2} /\ m # n /\ ((n = 1 /\ m = 2) \/ (n = 2 /\ m = 1))
  BY OneOrOther
<1>3. /\ pc[r] = (IF n = 1 THEN "next1" ELSE "next2") /\ pc'[r] = "merge" /\ Goto(r, pc'[r])
      /\ j \in Places /\ IsFree(<<s, j>>) /\ RelockDone(r, s, j, {})
      /\ blin'[r][n] = j /\ blin'[r][m] = blin[r][m]
      /\ \A x \in Readers : x # r => blin'[x] = blin[x]
      /\ UNCHANGED <<wakeup, target, todo, input, output, memory, FillBlock, full>>
  BY <1>2 DEF AdvancesTo
<1>4. InMerge(r) /\ StaysIn(r) /\ pc[r] \in Loop /\ pc'[r] \in Loop
  BY <1>3 DEF InMerge, StaysIn, Loop
<1>5. /\ Flowing /\ RingTypes /\ FullTypes /\ MergerOK(r) /\ InputOK(r, n, s) /\ InputOK(r, m, o) /\ s # o
  BY <1>1, <1>2, <1>4, MergeFacts
<1>6. FrontOK(s) /\ FrontOK(o)
  BY <1>2, <1>4, <1>5 DEF MergerOK
<1> HIDE DEF m, s, o
<1>7. /\ s \in Streams /\ s # r /\ ReaderOf(s) = r /\ InputNo(s) = n
      /\ o \in Streams /\ o # r /\ ReaderOf(o) = r /\ InputNo(o) = m
      /\ ~ReaderDone(s) /\ ~ReaderDone(o)
  BY <1>5 DEF InputOK
<1>8. /\ ReaderIn(s) /\ Consumed(s) /\ ReaderIn(s)' /\ ~Consumed(s)'
      /\ ReadAt(s) = blin[r][n] /\ ReadAt(s)' = j
  BY <1>2, <1>3, <1>4, <1>7, InputReading
<1>9. /\ ReaderIn(o) /\ ReaderIn(o)' /\ ~Consumed(o) /\ ~Consumed(o)' /\ HoldsBehind(o) /\ HoldsBehind(o)'
      /\ ReadAt(o)' = ReadAt(o)
  BY <1>2, <1>3, <1>4, <1>7, InputReading
<1>10. \A v \in Streams : \A i \in Places :
         MasterBlockLock'[<<v, i>>] = IF v = s /\ i = j THEN r ELSE MasterBlockLock[<<v, i>>]
  BY <1>3 DEF RelockDone
<1>11. SilentMove(r)
  <2>1. \A v \in Streams : ReaderOf(v) # r =>
          \A i \in Places : MasterBlockLock'[<<v, i>>] = MasterBlockLock[<<v, i>>]
    BY <1>7, <1>10
  <2>2. QED
    BY <1>3, <1>4, <2>1 DEF SilentMove
<1>12. /\ SameFill(s) /\ SameFill(o) /\ SameWriting(s) /\ SameWriting(o)
       /\ ~ReaderDone(s)' /\ ~ReaderDone(o)' /\ LastOut(r)' = LastOut(r) /\ LastOut(r) \in Int
  BY <1>4, <1>7, <1>11, SilentMoves
<1>13. /\ StreamOK(s)' /\ Rest(s)' = Rest(s) /\ LastKey(s)' = LastKey(s)
       /\ Front(s)' = End \/ (IsTerm(Front(s)') /\ Front(s)'[1] > Front(s)[1])
  <2>1. /\ ReadAt(s)' = After(ReadAt(s)) /\ IsFree(<<s, After(ReadAt(s))>>)
        /\ MasterBlockLock'[<<s, After(ReadAt(s))>>] = r
        /\ \A i \in Places : i # After(ReadAt(s)) =>
                             MasterBlockLock'[<<s, i>>] = MasterBlockLock[<<s, i>>]
    BY <1>3, <1>7, <1>8, <1>10
  <2>2. \A i \in Places : memory'[<<s, i>>] = memory[<<s, i>>]
    BY <1>3
  <2>3. QED
    BY <1>3, <1>5, <1>8, <1>12, <2>1, <2>2, AdvanceInput
<1>14. /\ StreamOK(o)' /\ Rest(o)' = Rest(o) /\ Front(o)' = Front(o) /\ LastKey(o)' = LastKey(o)
  <2>1. SameReading(o) /\ SameBlocks(o)
    BY <1>3, <1>7, <1>9, <1>10, <1>12, <1>5 DEF SameReading, SameBlocks
  <2>2. QED
    BY <1>3, <1>5, <1>12, <2>1, KeepInput
<1>15. FrontThen(r, s)
  <2>1. Front(s)[1] >= LastOut(r) /\ IsTerm(Front(s))
    <3>1. IsTerm(Front(s))
      BY <1>5, <1>7, <1>8, FrontIsFirst DEF InputOK
    <3>2. QED
      BY <1>6, <1>7, <1>8, <3>1 DEF FrontOK
  <2>2. Front(s)' = End \/ Front(s)'[1] > LastOut(r)
    BY <1>12, <1>13, <2>1, TermFacts
  <2>3. QED
    BY <1>8, <1>12, <2>2 DEF FrontThen
<1>16. FrontThen(r, o)
  BY <1>6, <1>7, <1>9, <1>12, <1>14 DEF FrontThen, FrontOK
<1>17. SameStream(s) /\ SameStream(o)
  BY <1>13, <1>14 DEF SameStream
<1>18. CASE n = 1
  <2>1. s = SortBotIn(r, 1) /\ o = SortBotIn(r, 2)
    BY <1>2, <1>18 DEF s, o
  <2>2. MergerOK(r)'
    BY <1>4, <1>15, <1>16, <2>1, MergerOKThen
  <2>3. QED
    BY <1>4, <1>11, <1>17, <2>1, <2>2, SilentFlows
<1>19. CASE n = 2
  <2>1. o = SortBotIn(r, 1) /\ s = SortBotIn(r, 2)
    BY <1>2, <1>19 DEF s, o
  <2>2. MergerOK(r)'
    BY <1>4, <1>15, <1>16, <2>1, MergerOKThen
  <2>3. QED
    BY <1>4, <1>11, <1>17, <2>1, <2>2, SilentFlows
<1>20. QED
  BY <1>2, <1>18, <1>19

LEMMA NextOfBothFlows ==
  ASSUME IInv, IInv', SumInv, NEW r \in Readers,
         AdvancesTo(r, 1, "next12", {Behind(r, 2)}, "next2")
  PROVE  SumInv'
<1> DEFINE s == SortBotIn(r, 1)
           o == SortBotIn(r, 2)
           j == After(blin[r][1])
<1>1. Stores /\ (Active => Flowing) /\ (Active => Flowing /\ Conserved)
  BY SumInvParts
<1>2. Behind(r, 2) = <<o, Before(blin[r][2])>>
  BY DEF Behind
<1>3. /\ pc[r] = "next12" /\ pc'[r] = "next2" /\ Goto(r, pc'[r])
      /\ j \in Places /\ IsFree(<<s, j>>) /\ RelockDone(r, s, j, {Behind(r, 2)})
      /\ blin'[r][1] = j /\ blin'[r][2] = blin[r][2]
      /\ \A x \in Readers : x # r => blin'[x] = blin[x]
      /\ UNCHANGED <<wakeup, target, todo, input, output, memory, FillBlock, full>>
  BY DEF AdvancesTo
<1>4. InMerge(r) /\ StaysIn(r) /\ pc[r] \in Loop /\ pc'[r] \in Loop
  BY <1>3 DEF InMerge, StaysIn, Loop
<1>5. /\ Flowing /\ RingTypes /\ FullTypes /\ MergerOK(r) /\ InputOK(r, 1, s) /\ InputOK(r, 2, o) /\ s # o
  BY <1>1, <1>4, MergeFacts
<1>6. FrontOK(s) /\ FrontOK(o)
  BY <1>4, <1>5 DEF MergerOK
<1> HIDE DEF s, o
<1>7. /\ s \in Streams /\ s # r /\ ReaderOf(s) = r /\ InputNo(s) = 1
      /\ o \in Streams /\ o # r /\ ReaderOf(o) = r /\ InputNo(o) = 2
      /\ ~ReaderDone(s) /\ ~ReaderDone(o)
  BY <1>5 DEF InputOK
<1>8. /\ ReaderIn(s) /\ Consumed(s) /\ ReaderIn(s)' /\ ~Consumed(s)'
      /\ ReadAt(s) = blin[r][1] /\ ReadAt(s)' = j
  BY <1>3, <1>4, <1>7, InputReading
<1>9. /\ ReaderIn(o) /\ ReaderIn(o)' /\ Consumed(o) /\ Consumed(o)' /\ HoldsBehind(o) /\ ~HoldsBehind(o)'
      /\ ReadAt(o)' = ReadAt(o) /\ ReadAt(o) = blin[r][2]
  BY <1>3, <1>4, <1>7, InputReading
<1>10. \A v \in Streams : \A i \in Places :
         MasterBlockLock'[<<v, i>>] = IF v = o /\ i = Before(ReadAt(o)) THEN Free
                                      ELSE IF v = s /\ i = j THEN r ELSE MasterBlockLock[<<v, i>>]
  <2>1. Behind(r, 2) = <<o, Before(ReadAt(o))>>
    BY <1>2, <1>9
  <2>2. \A v \in Streams : \A i \in Places :
          MasterBlockLock'[<<v, i>>] = IF <<v, i>> \in {Behind(r, 2)} THEN Free
                                       ELSE IF v = s /\ i = j THEN r ELSE MasterBlockLock[<<v, i>>]
    BY <1>3 DEF RelockDone
  <2>3. \A v, i : <<v, i>> \in {Behind(r, 2)} <=> v = o /\ i = Before(ReadAt(o))
    BY <2>1
  <2> HIDE DEF j
  <2>4. QED
    BY <2>2, <2>3
<1>11. SilentMove(r)
  <2>1. \A v \in Streams : ReaderOf(v) # r =>
          \A i \in Places : MasterBlockLock'[<<v, i>>] = MasterBlockLock[<<v, i>>]
    BY <1>7, <1>10
  <2>2. QED
    BY <1>3, <1>4, <2>1 DEF SilentMove
<1>12. /\ SameFill(s) /\ SameFill(o) /\ SameWriting(s) /\ SameWriting(o)
       /\ ~ReaderDone(s)' /\ ~ReaderDone(o)' /\ LastOut(r)' = LastOut(r) /\ LastOut(r) \in Int
  BY <1>4, <1>7, <1>11, SilentMoves
<1>13. /\ StreamOK(s)' /\ Rest(s)' = Rest(s) /\ LastKey(s)' = LastKey(s)
       /\ Front(s)' = End \/ (IsTerm(Front(s)') /\ Front(s)'[1] > Front(s)[1])
  <2>1. /\ ReadAt(s)' = After(ReadAt(s)) /\ IsFree(<<s, After(ReadAt(s))>>)
        /\ MasterBlockLock'[<<s, After(ReadAt(s))>>] = r
        /\ \A i \in Places : i # After(ReadAt(s)) =>
                             MasterBlockLock'[<<s, i>>] = MasterBlockLock[<<s, i>>]
    BY <1>3, <1>5, <1>7, <1>8, <1>10
  <2>2. \A i \in Places : memory'[<<s, i>>] = memory[<<s, i>>]
    BY <1>3
  <2>3. QED
    BY <1>3, <1>5, <1>8, <1>12, <2>1, <2>2, AdvanceInput
<1>14. Front(o) # End /\ IsTerm(Front(o)) /\ Rest(o) = Behind1(o)
  BY <1>5, <1>7, <1>9, FrontIsFirst DEF InputOK
<1>15. /\ StreamOK(o)' /\ Rest(o)' = Behind1(o) /\ Front(o)' = Front(o) /\ LastKey(o)' = LastKey(o)
  <2>1. \A i \in Places : memory'[<<o, i>>] = memory[<<o, i>>]
    BY <1>3
  <2>2. \A i \in Places : i # Before(ReadAt(o)) => MasterBlockLock'[<<o, i>>] = MasterBlockLock[<<o, i>>]
    BY <1>5, <1>7, <1>10
  <2>3. QED
    BY <1>3, <1>5, <1>9, <1>12, <1>14, <2>1, <2>2, TakeInput
<1>16. FrontThen(r, s)
  <2>1. Front(s)[1] >= LastOut(r) /\ IsTerm(Front(s))
    <3>1. IsTerm(Front(s))
      BY <1>5, <1>7, <1>8, FrontIsFirst DEF InputOK
    <3>2. QED
      BY <1>6, <1>7, <1>8, <3>1 DEF FrontOK
  <2>2. Front(s)' = End \/ Front(s)'[1] > LastOut(r)
    BY <1>12, <1>13, <2>1, TermFacts
  <2>3. QED
    BY <1>8, <1>12, <2>2 DEF FrontThen
<1>17. FrontThen(r, o)
  BY <1>6, <1>7, <1>9, <1>12, <1>15 DEF FrontThen, FrontOK
<1>18. SameStream(s) /\ SameStream(o)
  BY <1>13, <1>14, <1>15 DEF SameStream
<1>19. s = SortBotIn(r, 1) /\ o = SortBotIn(r, 2)
  BY DEF s, o
<1>20. MergerOK(r)'
  BY <1>4, <1>16, <1>17, <1>19, MergerOKThen
<1>21. QED
  BY <1>4, <1>11, <1>18, <1>19, <1>20, SilentFlows

\* The end of a merge.
LEMMA EndOfMerge ==
  ASSUME IInv, SumInv, NEW r \in Readers, EndMerge(r)
  PROVE  /\ InMerge(r) /\ MergeMove(r) /\ MergeDone(r)' /\ pc'[r] \notin Loop /\ pc'[r] # "in2"
         /\ \A s \in Streams : \A j \in Places : s # r => memory'[<<s, j>>] = memory[<<s, j>>]
<1> DEFINE released == HeldInInputs(r) \cup (IF r = Master THEN {} ELSE {<<r, NextFill(r)>>})
<1>1. Stores /\ (Active => Flowing) /\ (Active => Flowing /\ Conserved)
  BY SumInvParts
<1>2. /\ pc[r] = "merge" /\ SortBotOut(r, End, {}, released)
      /\ Goto(r, IF r = Master THEN "waitend" ELSE "enter")
      /\ UNCHANGED <<wakeup, target, blin, todo, input>>
  BY DEF EndMerge, signals
<1>3. InMerge(r)
  BY <1>2 DEF InMerge, Loop
<1>4. /\ Merging /\ Flowing /\ r \in Threads /\ OwnOK(r) /\ RingTypes /\ FullTypes
      /\ SortBotIn(r, 1) # r /\ SortBotIn(r, 2) # r
      /\ ReaderOf(SortBotIn(r, 1)) = r /\ ReaderOf(SortBotIn(r, 2)) = r
  BY <1>1, <1>3, MergeFacts, InputShape
<1>5. pc'[r] = (IF r = Master THEN "waitend" ELSE "enter") /\ Goto(r, pc'[r])
  BY <1>2, <1>4, GotoFacts DEF IInv, Types
<1>6. \A b \in released : ReaderOf(b[1]) = r \/ b[1] = r
  BY <1>4 DEF HeldInInputs, In, Behind
<1> HIDE DEF released
<1>7. \A s \in Streams : s # r =>
           /\ SameFill(s)
           /\ \A j \in Places :
                /\ <<s, j>> \notin {} => memory'[<<s, j>>] = memory[<<s, j>>]
                /\ MasterBlockLock'[<<s, j>>] = IF <<s, j>> \in released THEN Free
                                                ELSE MasterBlockLock[<<s, j>>]
  <2>1. \A j \in Places : <<r, j>> \notin {}
    OBVIOUS
  <2>2. QED
    BY <1>2, <1>4, <2>1, OutBlocks
<1>8. MergeMove(r)
  <2>1. r # Master => output' = output
    BY <1>2 DEF SortBotOut
  <2>2. \A s \in Streams : s # r => SameFill(s) /\ (ReaderOf(s) # r => SameBlocks(s))
    BY <1>6, <1>7 DEF SameBlocks
  <2>3. r = Master => pc'[r] \in MergePhases
    BY <1>5 DEF MergePhases
  <2>4. QED
    BY <1>2, <1>5, <2>1, <2>2, <2>3 DEF MergeMove
<1>9. MergeDone(r)'
  <2>1. CASE r = Master
    BY <1>5, <2>1 DEF MergeDone, AtMaster
  <2>2. CASE r # Master
    <3>1. Merging' /\ Called' = Called
      BY <1>1, <1>3, <1>8, MergeMoves
    <3>2. r \in SortBots /\ r \notin Workers
      BY <1>4, <2>2 DEF OwnOK
    <3>3. r \in Called /\ wakeup[r] = "none"
      BY <1>2, <3>2, WhoMoves
    <3>4. Ended(r)'
      BY <1>2, <1>5, <2>2, <3>1, <3>2, <3>3 DEF Ended
    <3>5. QED
      BY <2>2, <3>4 DEF MergeDone
  <2>3. QED
    BY <2>1, <2>2
<1>10. pc'[r] \notin Loop /\ pc'[r] # "in2"
  BY <1>5 DEF Loop
<1>11. QED
  BY <1>3, <1>7, <1>8, <1>9, <1>10

LEMMA EndInput ==
  ASSUME RingTypes, FullTypes, NEW r, NEW n, NEW s, FrontIs(r, n, s, End), MergeDone(r)',
         SameWriting(s), SameFill(s), UNCHANGED todo,
         \A j \in Places : memory'[<<s, j>>] = memory[<<s, j>>]
  PROVE  StreamOK(s)' /\ LastKey(s)' = LastKey(s) /\ Rest(s) = {} /\ Rest(s)' = {}
<1>1. Ended(s) /\ Rest(s) = {} /\ s \in Streams /\ ReaderOf(s) = r
  BY DEF FrontIs, InputOK
<1>2. ReaderDone(s)' /\ Ended(s)'
  BY <1>1 DEF ReaderDone, SameWriting
<1>3. StreamOK(s)'
  BY <1>2 DEF StreamOK
<1>4. FillBlock[s] \in Places
  BY <1>1, StreamTypes
<1>5. LastKey(s)' = LastKey(s)
  BY <1>4 DEF LastKey, SameFill
<1>6. Pending(s)' = {}
  BY <1>2 DEF Pending
<1>7. Todo(s)' = {}
  <2>1. Todo(s)' = Todo(s)
    BY TodoKept
  <2>2. QED
    BY <1>1, <2>1 DEF Rest
<1>8. QED
  BY <1>1, <1>3, <1>5, <1>6, <1>7 DEF Rest

LEMMA EndOutput ==
  ASSUME RingTypes, FullTypes, Flowing, NEW r \in Readers, OwnOK(r), UNCHANGED todo, NEW released,
         SortBotOut(r, End, {}, released),
         \A j \in Places : <<r, j>> \in released => j = NextFill(r),
         r # Master => SameReading(r) /\ Ended(r)' /\ ~Unstarted(r)'
  PROVE  /\ r # Master => StreamOK(r)' /\ (ReaderIn(r) => Front(r)' = Front(r))
         /\ Gained(r, End) /\ output' = output
<1>1. output' = output
  BY DEF SortBotOut
<1>2. OutputIsTerms
  BY FlowingRests
<1>3. CASE r = Master
  <2>1. Elements(output') = With(Elements(output), End)
    BY <1>1 DEF With
  <2>2. \A u \in Elements(output) : u[1] # End[1]
    BY <1>2, TermFacts DEF OutputIsTerms, End
  <2>3. QED
    BY <1>1, <1>3, <2>1, <2>2 DEF Gained
<1>4. CASE r # Master
  <2>1. /\ r \in Streams /\ r \notin Workers /\ ~Ended(r) /\ ~Unstarted(r) /\ ~ReaderDone(r)
        /\ StreamOK(r) /\ SameReading(r) /\ Ended(r)' /\ ~Unstarted(r)'
        /\ PutToMaster(r, End, {}, released)
    BY <1>4 DEF OwnOK, SortBotOut
  <2>2. PutDone(r, End, {}, released)
    <3>1. \A j \in Places : <<r, j>> \notin {}
      OBVIOUS
    <3>2. QED
      BY <2>1, <3>1, PutEffect
  <2>3. /\ full[r] => IsFree(<<r, NextFill(r)>>)
        /\ FillBlock'[r] = NextFill(r) /\ full'[r] = TRUE
        /\ memory'[<<r, NextFill(r)>>] = End
        /\ \A j \in Places : j # NextFill(r) => memory'[<<r, j>>] = memory[<<r, j>>]
        /\ \A j \in Places : j # NextFill(r) /\ j # FillBlock[r] =>
                               MasterBlockLock'[<<r, j>>] = MasterBlockLock[<<r, j>>]
    BY <2>1, <2>2 DEF PutDone
  <2>4. /\ StreamOK(r)' /\ Pending(r)' = Pending(r) \cup ({End} \ {End})
        /\ ReaderIn(r) => Front(r)' = Front(r)
    BY <2>1, <2>3, PutStream
  <2>5. Rest(r) = Pending(r) /\ Rest(r)' = Pending(r)'
    BY <2>1 DEF Rest, Todo
  <2>6. \A u \in Rest(r) : u[1] # End[1]
    <3>1. \A u \in Rest(r) : IsTerm(u)
      BY <2>1, RestIsTerms
    <3>2. QED
      BY <3>1, TermFacts DEF End
  <2>7. Rest(r)' = With(Rest(r), End)
    BY <2>4, <2>5 DEF With
  <2>8. QED
    BY <1>1, <1>4, <2>4, <2>6, <2>7 DEF Gained
<1>5. QED
  BY <1>3, <1>4

LEMMA EndMergeFlows ==
  ASSUME IInv, IInv', SumInv, NEW r \in Readers, EndMerge(r)
  PROVE  SumInv'
<1> DEFINE a == SortBotIn(r, 1)
           b == SortBotIn(r, 2)
           released == HeldInInputs(r) \cup (IF r = Master THEN {} ELSE {<<r, NextFill(r)>>})
<1>1. Stores /\ (Active => Flowing) /\ (Active => Flowing /\ Conserved)
  BY SumInvParts
<1>2. /\ pc[r] = "merge" /\ Term(r, 1) = End /\ Term(r, 2) = End
      /\ SortBotOut(r, End, {}, released) /\ UNCHANGED todo
  BY DEF EndMerge
<1>3. /\ InMerge(r) /\ MergeMove(r) /\ MergeDone(r)' /\ pc'[r] \notin Loop /\ pc'[r] # "in2"
      /\ \A s \in Streams : \A j \in Places : s # r => memory'[<<s, j>>] = memory[<<s, j>>]
  BY EndOfMerge
<1>4. /\ Flowing /\ r \in Threads /\ OwnOK(r) /\ RingTypes /\ FullTypes
      /\ a \in Streams /\ b \in Streams /\ a # r /\ b # r
  BY <1>1, <1>3, MergeFacts, InputShape
<1>5. /\ \A s \in Streams : s # r => SameWriting(s) /\ SameFill(s)
      /\ r # Master => SameReading(r) /\ ~Unstarted(r)' /\ Ended(r)'
  <2>1. \A s \in Streams : s # r => SameFill(s)
    BY <1>3 DEF MergeMove
  <2>2. r # Master => Ended(r)'
    BY <1>3 DEF MergeDone
  <2>3. QED
    BY <1>1, <1>3, <2>1, <2>2, MergeMoves
<1>6. FrontIs(r, 1, a, End) /\ FrontIs(r, 2, b, End)
  BY <1>1, <1>2, MergeFronts
<1>7. \A j \in Places : <<r, j>> \in released => j = NextFill(r)
  BY <1>4 DEF HeldInInputs, In, Behind
<1> HIDE DEF a, b, released
<1>8. StreamOK(a)' /\ LastKey(a)' = LastKey(a) /\ Rest(a) = {} /\ Rest(a)' = {}
  BY <1>2, <1>3, <1>4, <1>5, <1>6, EndInput
<1>9. StreamOK(b)' /\ LastKey(b)' = LastKey(b) /\ Rest(b) = {} /\ Rest(b)' = {}
  BY <1>2, <1>3, <1>4, <1>5, <1>6, EndInput
<1>10. /\ r # Master => StreamOK(r)' /\ (ReaderIn(r) => Front(r)' = Front(r))
       /\ Gained(r, End) /\ output' = output
  BY <1>2, <1>4, <1>5, <1>7, EndOutput
<1>11. output' \in Seq(Nat \X Int) /\ InOrder(output')
  BY <1>4, <1>10 DEF Flowing
<1>12. TakenIsGiven(r, End)
  <2>1. \A k \in Nat \ {0} : Coef({}, k) = 0 /\ CoefIn(End, k) = 0
    BY CoefOfNone DEF CoefIn, End
  <2>2. \A k \in Nat \ {0} : Coef(Rest(a), k) + Coef(Rest(b), k)
                               = Coef(Rest(a)', k) + Coef(Rest(b)', k) + CoefIn(End, k)
    BY <1>8, <1>9, <2>1
  <2>3. QED
    BY <2>2 DEF TakenIsGiven, a, b
<1>13. MergerOK(r)'
  BY <1>3 DEF MergerOK
<1>14. /\ StreamOK(SortBotIn(r, 1))' /\ LastKey(SortBotIn(r, 1))' = LastKey(SortBotIn(r, 1))
       /\ StreamOK(SortBotIn(r, 2))' /\ LastKey(SortBotIn(r, 2))' = LastKey(SortBotIn(r, 2))
  BY <1>8, <1>9 DEF a, b
<1>15. QED
  BY <1>3, <1>10, <1>11, <1>12, <1>13, <1>14, MergeFlows

LEMMA MergeStepFlows ==
  ASSUME IInv, IInv', SumInv, NEW r \in Readers, MergeStep(r)
  PROVE  SumInv'
<1>1. CASE StartMerge(r)
  BY <1>1, StartMergeFlows
<1>2. CASE StartMergeIn2(r)
  BY <1>2, StartMergeIn2Flows
<1>3. CASE OneIsSmallest(r)
  <2>1. SmallestIs(r, 1)
    BY <1>3 DEF OneIsSmallest, SmallestIs
  <2>2. QED
    BY <2>1, SmallestFlows
<1>4. CASE TwoIsSmallest(r)
  <2>1. SmallestIs(r, 2)
    BY <1>4 DEF TwoIsSmallest, SmallestIs
  <2>2. QED
    BY <2>1, SmallestFlows
<1>5. CASE Equal(r)
  BY <1>5, EqualFlows
<1>6. CASE Cancelled(r)
  BY <1>6, CancelledFlows
<1>7. CASE NextOfOne(r)
  <2>1. AdvancesTo(r, 1, "next1", {}, "merge")
    BY <1>7, AdvanceEffect DEF NextOfOne
  <2>2. QED
    BY <2>1, AdvanceFlows
<1>8. CASE NextOfTwo(r)
  <2>1. AdvancesTo(r, 2, "next2", {}, "merge")
    BY <1>8, AdvanceEffect DEF NextOfTwo
  <2>2. AdvancesTo(r, 2, IF 2 = 1 THEN "next1" ELSE "next2", {}, "merge")
    BY <2>1
  <2>3. QED
    BY <2>2, AdvanceFlows
<1>9. CASE NextOfBoth(r)
  <2>1. AdvancesTo(r, 1, "next12", {Behind(r, 2)}, "next2")
    BY <1>9, AdvanceEffect DEF NextOfBoth
  <2>2. QED
    BY <2>1, NextOfBothFlows
<1>10. CASE EndMerge(r)
  BY <1>10, EndMergeFlows
<1>11. QED
  BY <1>1, <1>2, <1>3, <1>4, <1>5, <1>6, <1>7, <1>8, <1>9, <1>10 DEF MergeStep
-----------------------------------------------------------------------------
(* Steps that touch no stream *)

Outside(place) == place \notin {"in2"} \cup Loop
Quiet ==
  /\ \A r \in Readers : /\ pc'[r] = pc[r] \/ (Outside(pc[r]) /\ Outside(pc'[r]))
                        /\ MergeDone(r)' <=> MergeDone(r)
  /\ \A s \in Streams : SameWriting(s)

LEMMA QuietFlows ==
  ASSUME IInv, IInv', Flowing, Conserved, Quiet, UNCHANGED <<rings, todo, input, output>>
  PROVE  Flowing' /\ Conserved'
<1>0. RingTypes /\ FullTypes /\ UNCHANGED <<MasterBlockLock, memory, FillBlock, full, blin>>
  BY DEF IInv, rings
<1>1. ASSUME NEW r \in Readers
      PROVE  /\ pc'[r] \in Loop <=> pc[r] \in Loop
             /\ pc'[r] = "in2" <=> pc[r] = "in2"
             /\ pc'[r] # pc[r] => Outside(pc[r]) /\ Outside(pc'[r])
             /\ MergeDone(r)' <=> MergeDone(r)
  BY DEF Quiet, Outside
<1>2. ASSUME NEW s \in Streams PROVE Untouched(s)
  <2>1. ReaderOf(s) \in Readers
    BY TreeShape
  <2>2. SameWriting(s) /\ SameFill(s) /\ SameBlocks(s)
    BY <1>0 DEF Quiet, SameFill, SameBlocks
  <2>3. /\ ReaderIn(s)' <=> ReaderIn(s)
        /\ Consumed(s)' <=> Consumed(s)
        /\ HoldsBehind(s)' <=> HoldsBehind(s)
    BY <1>1, <2>1 DEF ReaderIn, Consumed, HoldsBehind, Outside, Loop
  <2>4. ReadAt(s)' = ReadAt(s)
    BY <1>0, <2>3 DEF ReadAt
  <2>5. ReaderDone(s)' <=> ReaderDone(s)
    BY <1>1, <2>1 DEF ReaderDone
  <2>6. QED
    BY <2>2, <2>3, <2>4, <2>5 DEF Untouched, SameReading
<1>3. ASSUME NEW s \in Streams
      PROVE  /\ StreamOK(s)' /\ Front(s)' = Front(s) /\ LastKey(s)' = LastKey(s)
             /\ Rest(s)' = Rest(s) /\ SameWriting(s) /\ (Consumed(s)' <=> Consumed(s))
  <2>1. /\ Front(s)' = Front(s) /\ Pending(s)' = Pending(s) /\ LastKey(s)' = LastKey(s) /\ StreamOK(s)'
    BY <1>0, <1>2, UntouchedKept DEF Flowing
  <2>2. UNCHANGED todo
    OBVIOUS
  <2>3. Todo(s)' = Todo(s)
    BY <2>2, TodoKept
  <2>4. SameWriting(s) /\ SameReading(s)
    BY <1>2 DEF Untouched
  <2>5. QED
    BY <2>1, <2>3, <2>4 DEF Rest, SameReading
<1>4. ASSUME NEW w \in Workers PROVE WorkerOK(w)'
  <2>1. w \in Streams /\ WorkerOK(w) /\ todo'[w] = todo[w]
    BY ThreadFacts DEF Flowing
  <2>2. SameWriting(w) /\ LastKey(w)' = LastKey(w)
    BY <1>3, <2>1
  <2>3. QED
    BY <2>1, <2>2 DEF WorkerOK, SameWriting
<1>5. ASSUME NEW r \in Readers PROVE MergerOK(r)'
  <2>1. LastOut(r)' = LastOut(r) /\ (NothingWritten(r)' <=> NothingWritten(r)) /\ blin'[r] = blin[r]
    BY <1>0 DEF LastOut, LastKey, NothingWritten
  <2>2. ASSUME NEW n \in {1, 2}, pc[r] \in Loop PROVE FrontOK(SortBotIn(r, n))'
    <3> DEFINE s == SortBotIn(r, n)
    <3>1. s \in Streams /\ ReaderOf(s) = r
      BY InputShape
    <3>2. FrontOK(s)
      BY <2>2 DEF Flowing, MergerOK
    <3>3. ReaderOf(s)' = ReaderOf(s)
      BY DEF ReaderOf
    <3>4. LastOut(ReaderOf(s))' = LastOut(ReaderOf(s))
      <4>1. LastOut(ReaderOf(s))' = LastOut(r)' /\ LastOut(ReaderOf(s)) = LastOut(r)
        BY <3>1, <3>3 DEF LastOut, LastKey
      <4>2. QED
        BY <2>1, <4>1
    <3>5. Front(s)' = Front(s) /\ (Consumed(s)' <=> Consumed(s))
      BY <1>3, <3>1
    <3> HIDE DEF s
    <3>6. FrontOK(s)'
      BY <3>2, <3>4, <3>5 DEF FrontOK
    <3>7. QED
      BY <3>6 DEF s
  <2>3. MergerOK(r)
    BY DEF Flowing
  <2>4. QED
    BY <1>1, <2>1, <2>2, <2>3 DEF MergerOK
<1>6. input' \in Inputs /\ output' \in Seq(Nat \X Int) /\ InOrder(output')
  BY DEF Flowing
<1>7. Flowing'
  BY <1>3, <1>4, <1>5, <1>6 DEF Flowing
<1>8. Conserved'
  <2>1. input' = input /\ output' = output /\ \A s \in Streams : Rest(s)' = Rest(s)
    BY <1>3
  <2>2. QED
    BY <1>7, <2>1, SameRests
<1>9. QED
  BY <1>7, <1>8

Ready(t) == pc[t] = "enter" \/ AtRest(t)
StillPrepared ==
  /\ \A t \in Called' : Ready(t)' => t \in Called /\ Ready(t)
  /\ AtMaster' \in {"last2", "waitini", "iniasleep"} => AtMaster \in {"last2", "waitini", "iniasleep"}
  /\ AtMaster' \in {"waitini", "iniasleep"} => AtMaster \in {"waitini", "iniasleep"}

LEMMA QuietKept ==
  ASSUME IInv, IInv', SumInv, UNCHANGED <<rings, todo, input, output>>,
         Active' => Active /\ Quiet,
         Initialising' => Initialising /\ StillPrepared,
         AtMaster' = "done" => AtMaster = "done",
         Merging' => \A w \in Workers : pc'[w] # "claim",
         ~Active' => \A w \in Workers : pc'[w] = "idle"
  PROVE  SumInv'
<1>1. Stores'
  BY DEF SumInv, Stores
<1>2. ASSUME Initialising' PROVE Prepared'
  <2>1. /\ Prepared /\ StillPrepared
        /\ UNCHANGED <<MasterBlockLock, FillBlock, full, todo, input, output>>
    BY <1>2 DEF SumInv, rings
  <2>2. \A t \in Called' : Ready(t)' => FillBlock'[t] = 1 /\ ~full'[t]
    BY <2>1 DEF Prepared, StillPrepared, Ready
  <2>3. QED
    BY <2>1, <2>2 DEF Prepared, StillPrepared, Ready
<1>3. ASSUME Active' PROVE Flowing' /\ Conserved'
  BY <1>3, QuietFlows DEF SumInv
<1>4. ASSUME AtMaster' = "done" PROVE IsMergeOf(output)'
  <2>1. IsMergeOf(output) /\ output' = output /\ input' = input
    BY <1>4 DEF SumInv
  <2>2. Keys' = Keys
    BY <2>1 DEF Keys
  <2>3. \A k : SumOf(k)' = SumOf(k)
    BY <2>1, SumOfSame
  <2>4. QED
    BY <2>1, <2>2, <2>3 DEF IsMergeOf
<1>5. QED
  BY <1>1, <1>2, <1>3, <1>4 DEF SumInv

\* Steps of other threads between the same orders of the master.
Waits(t) == wakeup[t] = "none" /\ pc[t] \in {"enter", "tell", "wait"}
SameOrders ==
  /\ Merging' <=> Merging
  /\ Initialised' <=> Initialised
  /\ Initialising' <=> Initialising
  /\ Called' = Called
  /\ AtMaster' \in {"last2", "waitini", "iniasleep"} => AtMaster \in {"last2", "waitini", "iniasleep"}
  /\ AtMaster' \in {"waitini", "iniasleep"} => AtMaster \in {"waitini", "iniasleep"}
  /\ AtMaster' = "done" => AtMaster = "done"
  /\ pc'[Master] = pc[Master] \/ (Outside(pc[Master]) /\ Outside(pc'[Master]))
  /\ MergeDone(Master)' <=> MergeDone(Master)
SameSortBots ==
  \A t \in SortBots : /\ pc'[t] = pc[t] \/ (Outside(pc[t]) /\ Outside(pc'[t]))
                      /\ Waits(t)' <=> Waits(t)
                      /\ Ready(t)' => Ready(t)
SameWorkers ==
  \A w \in Workers : /\ Unstarted(w)' <=> Unstarted(w)
                     /\ pc'[w] = "idle" <=> pc[w] = "idle"
                     /\ pc'[w] = "claim" <=> pc[w] = "claim"

LEMMA SameKept ==
  ASSUME IInv, IInv', SumInv, UNCHANGED <<rings, todo, input, output>>,
         SameOrders, SameSortBots, SameWorkers
  PROVE  SumInv'
<1>1. \A s \in Streams : s \in Workers \/ s \in SortBots
  BY DEF Streams
<1>2. ASSUME NEW w \in Workers PROVE SameWriting(w)
  <2>1. Ended(w)' <=> Ended(w)
    BY DEF SameWorkers, Ended
  <2>2. QED
    BY <2>1 DEF SameWorkers, SameWriting
<1>3. ASSUME NEW t \in SortBots PROVE SameWriting(t)
  <2>1. t \notin Workers
    BY ThreadFacts
  <2>2. ~Unstarted(t) /\ ~Unstarted(t)'
    BY <2>1 DEF Unstarted
  <2>3. /\ Ended(t) <=> Merging /\ t \in Called /\ Waits(t)
        /\ Ended(t)' <=> Merging' /\ t \in Called' /\ Waits(t)'
    BY <2>1 DEF Ended, Waits
  <2>4. QED
    BY <2>2, <2>3 DEF SameOrders, SameSortBots, SameWriting
<1>4. Quiet
  <2>1. ASSUME NEW r \in Readers
        PROVE  /\ pc'[r] = pc[r] \/ (Outside(pc[r]) /\ Outside(pc'[r]))
               /\ MergeDone(r)' <=> MergeDone(r)
    <3>1. CASE r = Master
      BY <3>1 DEF SameOrders
    <3>2. CASE r # Master
      <4>1. r \in SortBots
        BY <3>2 DEF Readers
      <4>2. MergeDone(r)' <=> MergeDone(r)
        BY <1>3, <3>2, <4>1 DEF MergeDone, SameWriting
      <4>3. QED
        BY <4>1, <4>2 DEF SameSortBots
    <3>3. QED
      BY <3>1, <3>2
  <2>2. QED
    BY <1>1, <1>2, <1>3, <2>1 DEF Quiet
<1>5. (Active' <=> Active) /\ (Initialising' <=> Initialising) /\ (Merging' <=> Merging)
      /\ (AtMaster' = "done" => AtMaster = "done")
  BY DEF SameOrders, Active
<1>6. StillPrepared
  <2>1. Called \subseteq SortBots
    BY PhaseFacts
  <2>2. QED
    BY <2>1 DEF StillPrepared, SameOrders, SameSortBots
<1>7. /\ Merging' => \A w \in Workers : pc'[w] # "claim"
      /\ ~Active' => \A w \in Workers : pc'[w] = "idle"
  BY <1>5 DEF SumInv, Stores, SameWorkers
<1>8. QED
  BY <1>4, <1>5, <1>6, <1>7, QuietKept

LEMMA SortBotQuiet ==
  ASSUME IInv, IInv', SumInv, UNCHANGED <<rings, todo, input, output>>, NEW t \in SortBots,
         Goto(t, pc'[t]), target' = target, \A x \in SortBots : x # t => wakeup'[x] = wakeup[x],
         Outside(pc[t]), Outside(pc'[t]),
         Waits(t)' <=> Waits(t),
         Ready(t)' => Ready(t)
  PROVE  SumInv'
<1>1. /\ AtMaster' = AtMaster /\ Called' = Called /\ Initialising' = Initialising
      /\ Initialised' = Initialised /\ Merging' = Merging
      /\ \A x \in Threads : x # t => pc'[x] = pc[x]
  BY OneMoves
<1>2. /\ t \notin Workers /\ t # Master /\ Master \in Threads
      /\ SortBots \subseteq Threads /\ Workers \subseteq Threads
  BY ThreadFacts
<1>3. SameOrders
  BY <1>1, <1>2 DEF SameOrders, MergeDone, AtMaster
<1>4. SameSortBots
  <2>1. ASSUME NEW x \in SortBots, x # t
        PROVE  pc'[x] = pc[x] /\ (Waits(x)' <=> Waits(x)) /\ (Ready(x)' <=> Ready(x))
    BY <1>1, <1>2, <2>1 DEF Waits, Ready, AtRest
  <2>2. QED
    BY <2>1 DEF SameSortBots
<1>5. SameWorkers
  BY <1>1, <1>2 DEF SameWorkers, Unstarted
<1>6. QED
  BY <1>3, <1>4, <1>5, SameKept

LEMMA EnterWaitFlows ==
  ASSUME IInv, IInv', SumInv, NEW t \in SortBots, EnterWait(t)
  PROVE  SumInv'
<1>1. /\ pc[t] = "enter" /\ wakeup' = wakeup /\ target' = target
      /\ Goto(t, "tell") \/ Goto(t, "wait")
      /\ UNCHANGED <<rings, todo, input, output>>
  BY DEF EnterWait, job
<1>2. pc'[t] \in {"tell", "wait"} /\ Goto(t, pc'[t])
  BY <1>1, ThreadFacts, GotoFacts DEF IInv, Types
<1>3. wakeup[t] = "none"
  BY <1>1, WhoMoves
<1>4. /\ Waits(t)' <=> Waits(t)
      /\ Ready(t)' => Ready(t)
  BY <1>1, <1>2, <1>3 DEF Waits, Ready
<1>5. Outside(pc[t]) /\ Outside(pc'[t])
  BY <1>1, <1>2 DEF Outside, Loop
<1>6. QED
  BY <1>1, <1>2, <1>4, <1>5, SortBotQuiet

LEMMA TakeSignalFlows ==
  ASSUME IInv, IInv', SumInv, NEW t \in SortBots, TakeSignal(t)
  PROVE  SumInv'
<1>1. /\ pc[t] = "wait" /\ wakeup[t] # "none" /\ wakeup' = [wakeup EXCEPT ![t] = "none"]
      /\ target' = target /\ UNCHANGED <<rings, todo, input, output>>
      /\ Goto(t, CASE wakeup[t] = "INISORTBOT" -> "ini"
                   [] wakeup[t] = "RUNSORTBOT" -> "in1"
                   [] wakeup[t] = "TERMINATETHREAD" -> "ended")
  BY DEF TakeSignal, job
<1>2. wakeup[t] \in {"INISORTBOT", "RUNSORTBOT", "TERMINATETHREAD"} /\ wakeup \in [SortBots -> Signals]
  BY <1>1, WhoMoves DEF IInv, Types
<1>3. pc'[t] \in {"ini", "in1", "ended"} /\ Goto(t, pc'[t])
  <2>1. PICK place \in {"ini", "in1", "ended"} : Goto(t, place)
    BY <1>1, <1>2
  <2>2. QED
    BY <2>1, ThreadFacts, GotoFacts DEF IInv, Types
<1>4. \A x \in SortBots : x # t => wakeup'[x] = wakeup[x]
  BY <1>1, <1>2
<1>5. ~Waits(t) /\ ~Waits(t)' /\ ~Ready(t)'
  BY <1>1, <1>3 DEF Waits, Ready, AtRest
<1>6. Outside(pc[t]) /\ Outside(pc'[t])
  BY <1>1, <1>3 DEF Outside, Loop
<1>7. QED
  BY <1>1, <1>3, <1>4, <1>5, <1>6, SortBotQuiet

LEMMA TellMasterFlows ==
  ASSUME IInv, IInv', SumInv, NEW t \in SortBots, TellMaster(t)
  PROVE  SumInv'
<1>0. /\ pc = [x \in Threads |-> pc[x]] /\ t \in Threads
      /\ Master \notin SortBots /\ t # Master /\ Master \in Threads
  BY ThreadFacts DEF IInv, Types
<1>1. /\ pc' = [x \in Threads |-> pc'[x]] /\ pc[t] = "tell" /\ pc'[t] = "wait"
      /\ pc'[Master] = CASE AtMaster = "startasleep" -> "start"
                         [] AtMaster = "iniasleep"   -> "waitini"
                         [] AtMaster = "endasleep"   -> "waitend"
                         [] OTHER -> AtMaster
      /\ \A x \in Threads : x # t /\ x # Master => pc'[x] = pc[x]
      /\ UNCHANGED <<wakeup, target, rings, todo, input, output>>
  BY <1>0 DEF TellMaster, AtMaster, signals, job
<1>2. \/ AtMaster' = AtMaster
      \/ AtMaster = "startasleep" /\ AtMaster' = "start"
      \/ AtMaster = "iniasleep" /\ AtMaster' = "waitini"
      \/ AtMaster = "endasleep" /\ AtMaster' = "waitend"
  BY <1>1 DEF AtMaster
<1>3. /\ Starting' = Starting /\ Initialising' = Initialising /\ Initialised' = Initialised
      /\ Merging' = Merging /\ Ending' = Ending
  BY <1>2 DEF Starting, Initialising, Initialised, Merging, Ending
<1>4. Job' = Job
  BY <1>3 DEF Job
<1>5. Called' = Called
  BY <1>1, <1>2, <1>4 DEF Called
<1>6. SameOrders
  BY <1>2, <1>3, <1>5 DEF SameOrders, MergeDone, AtMaster, Outside, Loop
<1>7. \A x \in SortBots : x # t => pc'[x] = pc[x]
  BY <1>0, <1>1, ThreadFacts
<1>8. SameSortBots
  <2>1. ASSUME NEW x \in SortBots
        PROVE  /\ pc'[x] = pc[x] \/ (Outside(pc[x]) /\ Outside(pc'[x]))
               /\ Waits(x)' <=> Waits(x)
               /\ Ready(x)' => Ready(x)
    BY <1>1, <1>7 DEF Waits, Ready, AtRest, Outside, Loop
  <2>2. QED
    BY <2>1 DEF SameSortBots
<1>9. SameWorkers
  <2>1. \A w \in Workers : pc'[w] = pc[w]
    BY <1>0, <1>1, ThreadFacts
  <2>2. AtMaster' = "finish" <=> AtMaster = "finish"
    BY <1>2
  <2>3. QED
    BY <1>1, <2>1, <2>2 DEF SameWorkers, Unstarted
<1>10. QED
  BY <1>1, <1>6, <1>8, <1>9, SameKept

LEMMA ThreadClaimedBlockFlows ==
  ASSUME IInv, IInv', SumInv, NEW w \in Workers, ThreadClaimedBlock(w) \/ TellClaimed(w)
  PROVE  SumInv'
<1>0. /\ pc = [x \in Threads |-> pc[x]] /\ w \in Threads /\ w # Master /\ Master \in Threads
  BY ThreadFacts DEF IInv, Types
<1>1. /\ pc[w] \in {"claimed", "tellclaim"} /\ pc'[w] \in {"tellclaim", "write"}
      /\ pc'[Master] = pc[Master] \/ (pc[Master] = "claimasleep" /\ pc'[Master] = "waitblocks")
      /\ \A x \in Threads : x # w /\ x # Master => pc'[x] = pc[x]
      /\ UNCHANGED <<wakeup, target, rings, todo, input, output>>
  <2>1. CASE ThreadClaimedBlock(w)
    <3>1. PICK place \in {"tellclaim", "write"} : Goto(w, place)
      BY <2>1 DEF ThreadClaimedBlock
    <3>2. pc'[w] = place /\ \A x \in Threads : x # w => pc'[x] = pc[x]
      BY <1>0, <3>1, GotoFacts
    <3>3. QED
      BY <1>0, <2>1, <3>2 DEF ThreadClaimedBlock, job
  <2>2. CASE TellClaimed(w)
    BY <1>0, <2>2 DEF TellClaimed, signals, job
  <2>3. QED
    BY <2>1, <2>2
<1>2. AtMaster' = AtMaster \/ (AtMaster = "claimasleep" /\ AtMaster' = "waitblocks")
  BY <1>1 DEF AtMaster
<1>3. /\ Starting' = Starting /\ Initialising' = Initialising /\ Initialised' = Initialised
      /\ Merging' = Merging /\ Ending' = Ending
  BY <1>2 DEF Starting, Initialising, Initialised, Merging, Ending
<1>4. Job' = Job
  BY <1>3 DEF Job
<1>5. Called' = Called
  BY <1>1, <1>2, <1>4 DEF Called
<1>6. SameOrders
  BY <1>2, <1>3, <1>5 DEF SameOrders, MergeDone, AtMaster, Outside, Loop
<1>7. SameSortBots
  <2>1. \A x \in SortBots : pc'[x] = pc[x]
    BY <1>1, ThreadFacts
  <2>2. QED
    BY <1>1, <2>1 DEF SameSortBots, Waits, Ready, AtRest
<1>8. SameWorkers
  <2>1. \A v \in Workers : v # w => pc'[v] = pc[v]
    BY <1>0, <1>1, ThreadFacts
  <2>2. (AtMaster' = "finish" <=> AtMaster = "finish") /\ target' = target
    BY <1>1, <1>2
  <2>3. ~Unstarted(w) /\ ~Unstarted(w)'
    <3>1. ~(AtMaster = "finish" /\ w >= target - NumberOfWorkers)
      BY <1>1 DEF IInv, WorkersInStep
    <3>2. QED
      BY <1>1, <2>2, <3>1 DEF Unstarted
  <2>4. ASSUME NEW v \in Workers
        PROVE  /\ Unstarted(v)' <=> Unstarted(v)
               /\ pc'[v] = "idle" <=> pc[v] = "idle"
               /\ pc'[v] = "claim" <=> pc[v] = "claim"
    <3>1. CASE v = w
      BY <1>1, <2>3, <3>1
    <3>2. CASE v # w
      BY <2>1, <2>2, <3>2 DEF Unstarted
    <3>3. QED
      BY <3>1, <3>2
  <2>5. QED
    BY <2>4 DEF SameWorkers
<1>9. QED
  BY <1>1, <1>6, <1>7, <1>8, SameKept

\* Steps of the master that only change its place.
LEMMA MasterAlone ==
  ASSUME IInv, IInv', SumInv, UNCHANGED <<wakeup, target, rings, todo, input, output>>,
         NEW place, Goto(Master, place),
         \/ AtMaster = "waitini" /\ place = "iniasleep"
         \/ AtMaster = "waitend" /\ place = "endasleep"
         \/ AtMaster = "zeroclaimed" /\ place = "last1"
  PROVE  SumInv'
<1>1. /\ AtMaster' = place /\ \A t \in SortBots : pc'[t] = pc[t]
      /\ \A w \in Workers : pc'[w] = pc[w]
  BY MasterGoes
<1>2. /\ Starting' = Starting /\ Initialising' = Initialising /\ Initialised' = Initialised
      /\ Merging' = Merging /\ Ending' = Ending
  BY <1>1 DEF Starting, Initialising, Initialised, Merging, Ending
<1>3. Job' = Job
  BY <1>2 DEF Job
<1>4. Called' = Called
  BY <1>1, <1>3 DEF Called
<1>5. SameOrders
  BY <1>1, <1>2, <1>4 DEF SameOrders, MergeDone, AtMaster, Outside, Loop
<1>6. SameSortBots
  BY <1>1 DEF SameSortBots, Waits, Ready, AtRest
<1>7. SameWorkers
  <2>1. AtMaster # "finish" /\ AtMaster' # "finish"
    BY <1>1
  <2>2. QED
    BY <1>1, <2>1 DEF SameWorkers, Unstarted
<1>8. QED
  BY <1>5, <1>6, <1>7, SameKept

\* Steps outside the merging of an expression.
LEMMA OutOfMerging ==
  ASSUME IInv, IInv', SumInv, UNCHANGED <<rings, todo, input, output>>, ~Active, NEW place,
         AtMaster' = place, \A w \in Workers : pc'[w] = pc[w],
         place \in {"start", "startasleep", "idle", "terminate", "join", "ended"}
  PROVE  SumInv'
<1>1. ~Active' /\ ~Initialising' /\ AtMaster' # "done" /\ ~Merging'
  BY DEF Active, Initialised, Merging, Initialising
<1>2. \A w \in Workers : pc'[w] = "idle"
  BY DEF SumInv, Stores
<1>3. QED
  BY <1>1, <1>2, QuietKept

LEMMA NoJobFlows ==
  ASSUME IInv, IInv', SumInv,
         WaitForStart \/ EndSortBotMasterMerge \/ BeginTerminate \/ SendTerminate \/ Join
  PROVE  SumInv'
<1>1. CASE SendTerminate
  <2>1. PICK t \in SortBots : \E signal, next : Wakes(t, signal, next)
    BY <1>1, WakeEffect
  <2>2. PICK signal, next : Wakes(t, signal, next)
    BY <2>1
  <2>3. /\ AtMaster' = next /\ \A w \in Workers : pc'[w] = pc[w]
        /\ UNCHANGED <<rings, todo, input, output>>
    BY <2>2 DEF Wakes, job
  <2>4. AtMaster = "terminate"
    BY <1>1 DEF SendTerminate, WakeSortBot, AtMaster
  <2>5. next \in {"terminate", "join"}
    BY <2>2, <2>4 DEF Wakes
  <2>6. ~Active
    BY <2>4 DEF Active, Initialised, Merging
  <2>7. QED
    BY <2>3, <2>5, <2>6, OutOfMerging
<1>2. CASE WaitForStart \/ EndSortBotMasterMerge \/ BeginTerminate \/ Join
  <2>1. PICK place \in {"startasleep", "idle", "terminate", "ended"} :
          /\ Goto(Master, place) /\ AtMaster \in {"start", "done", "idle", "join"}
          /\ UNCHANGED <<rings, todo, input, output>>
    BY <1>2 DEF WaitForStart, MasterWaitAllSortBots, EndSortBotMasterMerge, BeginTerminate, Join,
                AtMaster, job
  <2>2. AtMaster' = place /\ \A w \in Workers : pc'[w] = pc[w]
    BY <2>1, MasterGoes
  <2>3. ~Active
    BY <2>1 DEF Active, Initialised, Merging
  <2>4. QED
    BY <2>1, <2>2, <2>3, OutOfMerging
<1>3. QED
  BY <1>1, <1>2

LEMMA SendIniFlows ==
  ASSUME IInv, IInv', SumInv, SendIniSortBot
  PROVE  SumInv'
<1>1. PICK t \in SortBots : \E signal, next : Wakes(t, signal, next)
  BY WakeEffect
<1>2. PICK signal, next : Wakes(t, signal, next)
  BY <1>1
<1>3. AtMaster = "ini"
  BY DEF SendIniSortBot, WakeSortBot, AtMaster
<1>4. /\ AtRest(t) /\ pc[t] = "wait" /\ Called' = Called \cup {t}
      /\ wakeup'[t] = "INISORTBOT" /\ \A x \in SortBots : x # t => wakeup'[x] = wakeup[x]
      /\ \A x \in SortBots : pc'[x] = pc[x]
      /\ \A w \in Workers : pc'[w] = pc[w]
      /\ AtMaster' \in {"ini", "zeroclaimed"}
      /\ UNCHANGED <<rings, todo, input, output>>
  BY <1>2, <1>3 DEF Wakes, job
<1>5. /\ ~Active /\ ~Active' /\ Initialising /\ ~Merging' /\ AtMaster' # "done"
  BY <1>3, <1>4 DEF Active, Initialised, Merging, Initialising
<1>6. StillPrepared
  <2>1. ASSUME NEW x \in Called', Ready(x)' PROVE x \in Called /\ Ready(x)
    <3>1. x # t
      BY <1>4, <2>1 DEF Ready, AtRest
    <3>2. x \in Called /\ x \in SortBots
      BY <1>4, <3>1, PhaseFacts
    <3>3. Ready(x)
      BY <1>4, <2>1, <3>1, <3>2 DEF Ready, AtRest
    <3>4. QED
      BY <3>2, <3>3
  <2>2. QED
    BY <1>4, <2>1 DEF StillPrepared
<1>7. \A w \in Workers : pc'[w] = "idle"
  BY <1>4, <1>5 DEF SumInv, Stores
<1>8. QED
  BY <1>4, <1>5, <1>6, <1>7, QuietKept

LEMMA SendRunFlows ==
  ASSUME IInv, IInv', SumInv, SendRunSortBot
  PROVE  SumInv'
<1>1. PICK t \in SortBots : \E signal, next : Wakes(t, signal, next)
  BY WakeEffect
<1>2. PICK signal, next : Wakes(t, signal, next)
  BY <1>1
<1>3. AtMaster = "run"
  BY DEF SendRunSortBot, WakeSortBot, AtMaster
<1>4. /\ pc[t] = "wait" /\ t \notin Called /\ Called' = Called \cup {t}
      /\ wakeup'[t] = "RUNSORTBOT" /\ \A x \in SortBots : x # t => wakeup'[x] = wakeup[x]
      /\ \A x \in SortBots : pc'[x] = pc[x]
      /\ \A w \in Workers : pc'[w] = pc[w]
      /\ AtMaster' \in {"run", "in1"}
      /\ UNCHANGED <<rings, todo, input, output>>
  BY <1>2, <1>3 DEF Wakes, job
<1>5. Active /\ Merging /\ Active' /\ Merging' /\ ~Initialising' /\ AtMaster' # "done"
  BY <1>3, <1>4 DEF Active, Initialised, Merging, Initialising
<1>6. ASSUME NEW w \in Workers PROVE SameWriting(w)
  BY <1>3, <1>4 DEF SameWriting, Unstarted, Ended
<1>7. ASSUME NEW x \in SortBots PROVE SameWriting(x)
  <2>1. x \notin Workers
    BY ThreadFacts
  <2>2. /\ Ended(x) <=> x \in Called /\ Waits(x)
        /\ Ended(x)' <=> x \in Called' /\ Waits(x)'
    BY <1>5, <2>1 DEF Ended, Waits
  <2>3. x = t => ~Waits(x)' /\ x \notin Called
    BY <1>4 DEF Waits
  <2>4. x # t => (Waits(x)' <=> Waits(x)) /\ (x \in Called' <=> x \in Called)
    BY <1>4 DEF Waits
  <2>5. Ended(x)' <=> Ended(x)
    BY <2>2, <2>3, <2>4
  <2>6. QED
    BY <2>1, <2>5 DEF SameWriting, Unstarted
<1>8. Quiet
  <2>1. ASSUME NEW r \in Readers
        PROVE  /\ pc'[r] = pc[r] \/ (Outside(pc[r]) /\ Outside(pc'[r]))
               /\ MergeDone(r)' <=> MergeDone(r)
    <3>1. CASE r = Master
      BY <1>3, <1>4, <3>1 DEF MergeDone, AtMaster, Outside, Loop
    <3>2. CASE r # Master
      <4>1. r \in SortBots
        BY <3>2 DEF Readers
      <4>2. MergeDone(r)' <=> MergeDone(r)
        BY <1>7, <3>2, <4>1 DEF MergeDone, SameWriting
      <4>3. QED
        BY <1>4, <4>1, <4>2
    <3>3. QED
      BY <3>1, <3>2
  <2>2. \A s \in Streams : s \in Workers \/ s \in SortBots
    BY DEF Streams
  <2>3. QED
    BY <1>6, <1>7, <2>1, <2>2 DEF Quiet
<1>9. \A w \in Workers : pc'[w] # "claim"
  BY <1>4, <1>5 DEF SumInv, Stores
<1>10. QED
  BY <1>4, <1>5, <1>8, <1>9, QuietKept

LEMMA SendFinishFlows ==
  ASSUME IInv, IInv', SumInv, SendFinishExpression
  PROVE  SumInv'
<1>1. PICK w \in Workers : SendsFinish(w)
  BY SendFinishEffect
<1>2. /\ w # Master /\ w \notin SortBots /\ Master \in Threads
      /\ w = target - NumberOfWorkers /\ AtMaster = "finish"
      /\ target \in NumberOfWorkers + 1..2 * NumberOfWorkers
      /\ pc'[w] = "claim"
      /\ AtMaster' = IF w = NumberOfWorkers THEN "waitblocks" ELSE "finish"
      /\ target' = IF w = NumberOfWorkers THEN NumberOfWorkers + 1 ELSE target + 1
      /\ UNCHANGED <<wakeup, rings, todo, input, output>>
  BY <1>1, ThreadFacts DEF SendsFinish, job
<1>3. /\ \A x \in SortBots : pc'[x] = pc[x]
      /\ \A v \in Workers : v # w => pc'[v] = pc[v]
  BY <1>1, ThreadFacts DEF SendsFinish
<1>4. Active /\ ~Merging /\ Active' /\ ~Merging' /\ ~Initialising' /\ AtMaster' # "done"
  BY <1>2 DEF Active, Initialised, Merging, Initialising
<1>5. ASSUME NEW v \in Workers PROVE SameWriting(v)
  <2>1. CASE v = w
    <3>1. w >= target - NumberOfWorkers
      BY <1>2, ThreadFacts DEF Workers
    <3>2. Unstarted(w) /\ Unstarted(w)'
      BY <1>2, <3>1 DEF Unstarted
    <3>3. QED
      BY <2>1, <3>2 DEF SameWriting, Ended
  <2>2. CASE v # w
    <3>1. AtMaster' = "finish" => (v >= target' - NumberOfWorkers <=> v >= target - NumberOfWorkers)
      BY <1>2, <2>2, ThreadFacts DEF Workers
    <3>2. AtMaster' # "finish" => ~(v >= target - NumberOfWorkers)
      BY <1>2, <2>2, ThreadFacts DEF Workers
    <3>3. pc'[v] = pc[v]
      BY <1>3, <2>2
    <3>4. Unstarted(v)' <=> Unstarted(v)
      BY <1>2, <3>1, <3>2, <3>3 DEF Unstarted
    <3>5. QED
      BY <3>3, <3>4 DEF SameWriting, Ended
  <2>3. QED
    BY <2>1, <2>2
<1>6. ASSUME NEW x \in SortBots PROVE SameWriting(x)
  BY <1>4, ThreadFacts DEF SameWriting, Unstarted, Ended
<1>7. Quiet
  <2>1. ASSUME NEW r \in Readers
        PROVE  /\ pc'[r] = pc[r] \/ (Outside(pc[r]) /\ Outside(pc'[r]))
               /\ MergeDone(r)' <=> MergeDone(r)
    <3>1. CASE r = Master
      BY <1>2, <3>1 DEF MergeDone, AtMaster, Outside, Loop
    <3>2. CASE r # Master
      <4>1. r \in SortBots
        BY <3>2 DEF Readers
      <4>2. MergeDone(r)' <=> MergeDone(r)
        BY <1>6, <3>2, <4>1 DEF MergeDone, SameWriting
      <4>3. QED
        BY <1>3, <4>1, <4>2
    <3>3. QED
      BY <3>1, <3>2
  <2>2. \A s \in Streams : s \in Workers \/ s \in SortBots
    BY DEF Streams
  <2>3. QED
    BY <1>5, <1>6, <2>1, <2>2 DEF Quiet
<1>8. QED
  BY <1>2, <1>4, <1>7, QuietKept

\* When all workers have counted themselves, all have claimed.
LEMMA ClaimedAll ==
  ASSUME IInv, AllClaimed
  PROVE  \A w \in Workers : pc[w] # "claim"
<1>1. IsFiniteSet(Unclaimed)
  <2>1. Unclaimed \subseteq Workers
    BY DEF Unclaimed
  <2>2. QED
    BY <2>1, Cardinalities, FS_Subset
<1>2. Cardinality(Unclaimed) = 0
  <2>1. Cardinality(Unclaimed) \in Nat
    BY <1>1, FS_CardinalityType
  <2>2. QED
    BY <2>1, ThreadFacts DEF IInv, ClaimsCounted, AllClaimed
<1>3. Unclaimed = {}
  BY <1>1, <1>2, FS_EmptySet
<1>4. QED
  BY <1>3 DEF Unclaimed

LEMMA WaitBlocksFlows ==
  ASSUME IInv, IInv', SumInv, MasterWaitAllBlocks
  PROVE  SumInv'
<1>1. /\ AtMaster = "waitblocks" /\ UNCHANGED <<wakeup, target, rings, todo, input, output>>
      /\ Goto(Master, IF AllClaimed THEN "run" ELSE "claimasleep")
  BY DEF MasterWaitAllBlocks, AtMaster, job
<1>2. /\ AtMaster' = (IF AllClaimed THEN "run" ELSE "claimasleep")
      /\ \A t \in SortBots : pc'[t] = pc[t]
      /\ \A w \in Workers : pc'[w] = pc[w]
  BY <1>1, MasterGoes
<1>3. Active /\ ~Merging /\ Active' /\ ~Initialising' /\ AtMaster' # "done"
  BY <1>1, <1>2 DEF Active, Initialised, Merging, Initialising
<1>4. ASSUME NEW w \in Workers PROVE SameWriting(w)
  BY <1>1, <1>2 DEF SameWriting, Unstarted, Ended
<1>5. Called' = {}
  <2>1. AtMaster' = "run" => target = NumberOfWorkers + 1
    BY <1>1 DEF IInv, Types
  <2>2. \A t \in SortBots : ~(t < NumberOfWorkers + 1)
    BY ThreadFacts
  <2>3. AtMaster' = "run" => Called' = {}
    BY <1>1, <2>1, <2>2 DEF Called
  <2>4. AtMaster' # "run" => Called' = {}
    BY <1>2 DEF Called, Job, Starting, Initialising, Initialised, Merging, Ending
  <2>5. QED
    BY <2>3, <2>4
<1>6. ASSUME NEW x \in SortBots PROVE SameWriting(x)
  <2>1. x \notin Workers
    BY ThreadFacts
  <2>2. ~Ended(x) /\ ~Ended(x)'
    BY <1>3, <1>5, <2>1 DEF Ended
  <2>3. QED
    BY <2>1, <2>2 DEF SameWriting, Unstarted
<1>7. Quiet
  <2>1. ASSUME NEW r \in Readers
        PROVE  /\ pc'[r] = pc[r] \/ (Outside(pc[r]) /\ Outside(pc'[r]))
               /\ MergeDone(r)' <=> MergeDone(r)
    <3>1. CASE r = Master
      BY <1>1, <1>2, <3>1 DEF MergeDone, AtMaster, Outside, Loop
    <3>2. CASE r # Master
      <4>1. r \in SortBots
        BY <3>2 DEF Readers
      <4>2. MergeDone(r)' <=> MergeDone(r)
        BY <1>6, <3>2, <4>1 DEF MergeDone, SameWriting
      <4>3. QED
        BY <1>2, <4>1, <4>2
    <3>3. QED
      BY <3>1, <3>2
  <2>2. \A s \in Streams : s \in Workers \/ s \in SortBots
    BY DEF Streams
  <2>3. QED
    BY <1>4, <1>6, <2>1, <2>2 DEF Quiet
<1>8. Merging' => \A w \in Workers : pc'[w] # "claim"
  <2>1. Merging' => AllClaimed
    BY <1>2 DEF Merging
  <2>2. QED
    BY <1>2, <2>1, ClaimedAll
<1>9. QED
  BY <1>1, <1>3, <1>7, <1>8, QuietKept
-----------------------------------------------------------------------------
(* Before the workers start *)

\* What is left to show while the sortbots are initialised.
LEMMA StillInitialising ==
  ASSUME IInv, Initialising', Prepared', \A w \in Workers : pc'[w] = "idle"
  PROVE  SumInv'
<1>1. ~Active' /\ ~Merging' /\ AtMaster' # "done"
  BY DEF Active, Initialised, Merging, Initialising
<1>2. (input \in Inputs)' /\ (todo = input)'
  BY DEF Prepared
<1>3. input' \in [Workers -> Seq(Nat \X Int)]
  BY <1>2, InputsAssumption
<1>4. DOMAIN todo' = Workers
  BY <1>2, <1>3
<1>5. QED
  BY <1>1, <1>4 DEF SumInv, Stores

\* A block that is free is nobody's; the others stay with the threads that hold them.
LEMMA MastersBlocks ==
  ASSUME NEW x, NEW b \in Blocks, IsFree(b), Relock(x, {b}, {})
  PROVE  /\ MasterBlockLock'[b] = x
         /\ \A n \in {1, 2} : MasterBlockLock[LastBlock(SortBotIn(Master, n))] = Master =>
              MasterBlockLock'[LastBlock(SortBotIn(Master, n))] = Master
<1>1. \A n \in {1, 2} : LastBlock(SortBotIn(Master, n)) \in Blocks
  <2>1. MasterNumBlocks \in Places /\ Master \in Readers
    BY RingFacts, ThreadFacts DEF Places
  <2>2. QED
    BY <2>1, InputShape, BlockFacts DEF LastBlock
<1>2. \A c \in Blocks : MasterBlockLock'[c] = IF c = b THEN x ELSE MasterBlockLock[c]
  BY DEF Relock
<1>3. Master # Free
  BY DEF Master, Free
<1>4. QED
  BY <1>1, <1>2, <1>3 DEF IsFree

LEMMA SortBotClaims ==
  ASSUME IInv, IInv', SumInv, NEW t \in SortBots, pc[t] \in {"ini", "ini1", "ini2"},
         NEW b \in Blocks, IsFree(b), Relock(t, {b}, {}), Goto(t, pc'[t]),
         UNCHANGED <<wakeup, target, todo, input, output>>,
         \A x \in SortBots : x # t => FillBlock'[x] = FillBlock[x] /\ full'[x] = full[x],
         ~Ready(t)' \/ (FillBlock'[t] = 1 /\ ~full'[t])
  PROVE  SumInv'
<1>1. /\ AtMaster' = AtMaster /\ Called' = Called /\ Initialising' = Initialising
      /\ \A x \in Threads : x # t => pc'[x] = pc[x]
  BY OneMoves
<1>2. Initialising
  BY WhoMoves, PhaseFacts
<1>3. Prepared /\ \A w \in Workers : pc[w] = "idle"
  BY <1>2, PhaseFacts DEF SumInv, Stores, Active
<1>4. \A w \in Workers : pc'[w] = "idle"
  BY <1>1, <1>3, ThreadFacts
<1>5. Called \subseteq SortBots /\ SortBots \subseteq Threads
  BY PhaseFacts, ThreadFacts
<1>6. \A x \in Called' : Ready(x)' => FillBlock'[x] = 1 /\ ~full'[x]
  <2>1. ASSUME NEW x \in Called', Ready(x)' PROVE FillBlock'[x] = 1 /\ ~full'[x]
    <3>1. CASE x = t
      BY <2>1, <3>1
    <3>2. CASE x # t
      <4>1. x \in Called /\ x \in SortBots /\ pc'[x] = pc[x] /\ wakeup'[x] = wakeup[x]
        BY <1>1, <1>5, <3>2
      <4>2. Ready(x)
        BY <2>1, <4>1 DEF Ready, AtRest
      <4>3. FillBlock[x] = 1 /\ ~full[x]
        BY <1>3, <4>1, <4>2 DEF Prepared, Ready
      <4>4. QED
        BY <3>2, <4>1, <4>3
    <3>3. QED
      BY <3>1, <3>2
  <2>2. QED
    BY <2>1
<1>7. \A n \in {1, 2} : MasterBlockLock[LastBlock(SortBotIn(Master, n))] = Master =>
        MasterBlockLock'[LastBlock(SortBotIn(Master, n))] = Master
  BY MastersBlocks
<1>8. Prepared'
  <2>1. (input \in Inputs /\ todo = input /\ output = <<>>)'
    BY <1>3 DEF Prepared
  <2>2. \A n \in {1, 2} : (LastBlock(SortBotIn(Master, n)))' = LastBlock(SortBotIn(Master, n))
    BY DEF LastBlock, SortBotIn
  <2>3. /\ AtMaster' \in {"last2", "waitini", "iniasleep"} =>
             MasterBlockLock'[LastBlock(SortBotIn(Master, 1))] = Master
        /\ AtMaster' \in {"waitini", "iniasleep"} =>
             MasterBlockLock'[LastBlock(SortBotIn(Master, 2))] = Master
    BY <1>1, <1>3, <1>7 DEF Prepared
  <2>4. QED
    BY <1>6, <2>1, <2>2, <2>3 DEF Prepared, Ready
<1>9. QED
  BY <1>1, <1>2, <1>4, <1>8, StillInitialising

LEMMA SortBotClaimsFlow ==
  ASSUME IInv, IInv', SumInv, NEW t \in SortBots,
         ClaimOwnFirstBlock(t) \/ ClaimLastOfIn1(t) \/ ClaimLastOfIn2(t)
  PROVE  SumInv'
<1>1. /\ FirstBlock(t) \in Blocks /\ LastBlock(SortBotIn(t, 1)) \in Blocks
      /\ LastBlock(SortBotIn(t, 2)) \in Blocks
  BY TreeFacts
<1>2. t \in Threads /\ t \in Streams /\ pc = [x \in Threads |-> pc[x]] /\ RingTypes /\ FullTypes
  BY ThreadFacts DEF IInv, Types
<1>3. CASE ClaimOwnFirstBlock(t)
  <2>1. /\ pc[t] = "ini" /\ IsFree(FirstBlock(t)) /\ Relock(t, {FirstBlock(t)}, {})
        /\ Goto(t, "ini1") /\ UNCHANGED <<wakeup, target, todo, input, output, FillBlock, full>>
    BY <1>3 DEF ClaimOwnFirstBlock, signals, job
  <2>2. pc'[t] = "ini1" /\ Goto(t, pc'[t])
    BY <1>2, <2>1, GotoFacts
  <2>3. ~Ready(t)'
    BY <2>2 DEF Ready, AtRest
  <2>4. QED
    BY <1>1, <2>1, <2>2, <2>3, SortBotClaims
<1>4. CASE ClaimLastOfIn1(t)
  <2> DEFINE b == LastBlock(SortBotIn(t, 1))
  <2>1. /\ pc[t] = "ini1" /\ IsFree(b) /\ Relock(t, {b}, {})
        /\ Goto(t, "ini2") /\ UNCHANGED <<wakeup, target, todo, input, output, FillBlock, full>>
    BY <1>4 DEF ClaimLastOfIn1, ClaimLastBlock, signals, job
  <2>2. pc'[t] = "ini2" /\ Goto(t, pc'[t])
    BY <1>2, <2>1, GotoFacts
  <2>3. ~Ready(t)'
    BY <2>2 DEF Ready, AtRest
  <2>4. b \in Blocks
    BY <1>1
  <2> HIDE DEF b
  <2>5. QED
    BY <2>1, <2>2, <2>3, <2>4, SortBotClaims
<1>5. CASE ClaimLastOfIn2(t)
  <2> DEFINE b == LastBlock(SortBotIn(t, 2))
  <2>1. /\ pc[t] = "ini2" /\ IsFree(b) /\ Relock(t, {b}, {})
        /\ Goto(t, "enter") /\ UNCHANGED <<wakeup, target, todo, input, output>>
        /\ FillBlock' = [FillBlock EXCEPT ![t] = 1] /\ full' = [full EXCEPT ![t] = FALSE]
    BY <1>5 DEF ClaimLastOfIn2, ClaimLastBlock, signals, job
  <2>2. pc'[t] = "enter" /\ Goto(t, pc'[t])
    BY <1>2, <2>1, GotoFacts
  <2>3. /\ FillBlock'[t] = 1 /\ ~full'[t]
        /\ \A x \in SortBots : x # t => FillBlock'[x] = FillBlock[x] /\ full'[x] = full[x]
    BY <1>2, <2>1, ThreadFacts DEF RingTypes, FullTypes
  <2>4. b \in Blocks
    BY <1>1
  <2> HIDE DEF b
  <2>5. QED
    BY <2>1, <2>2, <2>3, <2>4, SortBotClaims
<1>6. QED
  BY <1>3, <1>4, <1>5

LEMMA MasterClaimsFlow ==
  ASSUME IInv, IInv', SumInv, MasterClaimsLastOfIn1 \/ MasterClaimsLastOfIn2
  PROVE  SumInv'
<1> DEFINE b(n) == LastBlock(SortBotIn(Master, n))
<1>1. PICK n \in {1, 2} :
        /\ AtMaster = (IF n = 1 THEN "last1" ELSE "last2") /\ IsFree(b(n)) /\ Relock(Master, {b(n)}, {})
        /\ Goto(Master, IF n = 1 THEN "last2" ELSE "waitini")
        /\ UNCHANGED <<wakeup, target, todo, input, output, FillBlock, full>>
  <2>1. CASE MasterClaimsLastOfIn1
    <3>1. /\ AtMaster = "last1" /\ IsFree(b(1)) /\ Relock(Master, {b(1)}, {})
          /\ Goto(Master, "last2")
          /\ UNCHANGED <<wakeup, target, todo, input, output, FillBlock, full>>
      BY <2>1 DEF MasterClaimsLastOfIn1, ClaimLastBlock, AtMaster, signals, job
    <3> HIDE DEF b
    <3>2. QED
      BY <3>1
  <2>2. CASE MasterClaimsLastOfIn2
    <3>1. /\ AtMaster = "last2" /\ IsFree(b(2)) /\ Relock(Master, {b(2)}, {})
          /\ Goto(Master, "waitini")
          /\ UNCHANGED <<wakeup, target, todo, input, output, FillBlock, full>>
      BY <2>2 DEF MasterClaimsLastOfIn2, ClaimLastBlock, AtMaster, signals, job
    <3> HIDE DEF b
    <3>2. QED
      BY <3>1
  <2>3. QED
    BY <2>1, <2>2
<1>2. b(n) \in Blocks
  <2>1. MasterNumBlocks \in Places /\ Master \in Readers
    BY RingFacts, ThreadFacts DEF Places
  <2>2. QED
    BY <2>1, InputShape, BlockFacts DEF LastBlock
<1>3. /\ MasterBlockLock'[b(n)] = Master
      /\ \A m \in {1, 2} : MasterBlockLock[b(m)] = Master => MasterBlockLock'[b(m)] = Master
  BY <1>1, <1>2, MastersBlocks
<1>4. b(1)' = b(1) /\ b(2)' = b(2)
  BY DEF LastBlock, SortBotIn
<1>5. /\ AtMaster' = (IF n = 1 THEN "last2" ELSE "waitini")
      /\ \A t \in SortBots : pc'[t] = pc[t]
      /\ \A w \in Workers : pc'[w] = pc[w]
  BY <1>1, MasterGoes
<1>6. Initialising /\ Initialising' /\ ~Active
  BY <1>1, <1>5 DEF Initialising, Active, Initialised, Merging
<1>7. Prepared /\ \A w \in Workers : pc'[w] = "idle"
  BY <1>5, <1>6 DEF SumInv, Stores
<1>8. Called' = Called /\ Called \subseteq SortBots
  <2>1. Job' = Job
    BY <1>1, <1>5 DEF Job, Starting, Initialising, Initialised, Merging, Ending
  <2>2. QED
    BY <1>1, <1>5, <2>1, PhaseFacts DEF Called
<1>9. Prepared'
  <2>1. (input \in Inputs /\ todo = input /\ output = <<>>)'
    BY <1>1, <1>7 DEF Prepared
  <2>2. \A t \in Called' : Ready(t)' => FillBlock'[t] = 1 /\ ~full'[t]
    BY <1>1, <1>5, <1>7, <1>8 DEF Prepared, Ready, AtRest
  <2>3. AtMaster' \in {"last2", "waitini", "iniasleep"} => MasterBlockLock'[b(1)] = Master
    BY <1>1, <1>3, <1>5, <1>7 DEF Prepared
  <2>4. AtMaster' \in {"waitini", "iniasleep"} => MasterBlockLock'[b(2)] = Master
    BY <1>1, <1>3, <1>5, <1>7 DEF Prepared
  <2>5. QED
    BY <1>4, <2>1, <2>2, <2>3, <2>4 DEF Prepared, Ready
<1>10. QED
  BY <1>6, <1>7, <1>9, StillInitialising

LEMMA BeginFlows ==
  ASSUME IInv, IInv', SumInv, BeginSortBotMasterMerge
  PROVE  SumInv'
<1>1. /\ AtMaster = "idle" /\ Goto(Master, "ini") /\ target' = target
      /\ input' \in Inputs /\ todo' = input' /\ output' = <<>>
      /\ \A w \in Workers : pc[w] = "idle"
  BY DEF BeginSortBotMasterMerge, AtMaster
<1>2. AtMaster' = "ini" /\ \A w \in Workers : pc'[w] = "idle"
  BY <1>1, MasterGoes
<1>3. Called' = {}
  <2>1. target = NumberOfWorkers + 1
    BY <1>1 DEF IInv, Types
  <2>2. \A t \in SortBots : ~(t < NumberOfWorkers + 1)
    BY ThreadFacts
  <2>3. QED
    BY <1>1, <1>2, <2>1, <2>2 DEF Called
<1>4. Prepared' /\ Initialising'
  BY <1>1, <1>2, <1>3 DEF Prepared, Initialising
<1>5. QED
  BY <1>2, <1>4, StillInitialising

-----------------------------------------------------------------------------
(* The inputs, and the state in which the workers may start *)

LEMMA AdjacentOrder ==
  ASSUME NEW q \in Seq(Nat \X Int),
         \A i \in DOMAIN q : q[i][1] > 0 /\ q[i][2] # 0,
         \A i \in 2..Len(q) : q[i-1][1] < q[i][1]
  PROVE  InOrder(q)
<1>1. Len(q) \in Nat /\ DOMAIN q = 1..Len(q) /\ \A i \in 1..Len(q) : q[i] \in Nat \X Int
  OBVIOUS
<1>2. \A i \in 1..Len(q) : IsTerm(q[i])
  <2>1. \A t \in Nat \X Int : t[1] > 0 /\ t[2] # 0 => IsTerm(t)
    BY DEF IsTerm
  <2>2. QED
    BY <1>1, <2>1
<1> DEFINE n == Len(q)
           key(i) == q[i][1]
<1>3. \A i \in 1..n : key(i) \in Nat
  BY <1>1
<1>4. \A i \in 2..n : key(i - 1) < key(i)
  OBVIOUS
<1>5. n \in Nat
  BY <1>1
<1> HIDE DEF key, n
<1>6. ASSUME NEW i \in 1..n, NEW j \in 1..n, i < j PROVE key(i) < key(j)
  <2> DEFINE R == {x \in 1..n : i < x /\ ~(key(i) < key(x))}
  <2>1. SUFFICES ASSUME R # {} PROVE FALSE
    BY <1>6
  <2>2. R \in SUBSET Nat
    BY <1>5
  <2>3. PICK m \in R : \A x \in R : m <= x
    <3> HIDE DEF R
    <3>1. QED
      BY <2>1, <2>2, SmallestNumber
  <2>4. m \in 2..n /\ m - 1 \in 1..n /\ m - 1 < m /\ m \in 1..n /\ (m - 1 = i \/ i < m - 1)
    BY <1>5, <2>3
  <2>5. key(m - 1) < key(m) /\ ~(key(i) < key(m))
    BY <1>4, <2>3, <2>4
  <2>6. m - 1 # i
    BY <2>5
  <2>7. m - 1 \notin R
    BY <1>5, <2>3, <2>4
  <2>8. key(i) < key(m - 1)
    BY <2>4, <2>6, <2>7
  <2>9. key(i) \in Nat /\ key(m) \in Nat /\ key(m - 1) \in Nat
    BY <1>3, <2>4
  <2>10. QED
    BY <2>5, <2>8, <2>9
<1>7. QED
  BY <1>1, <1>2, <1>6 DEF InOrder, key, n

LEMMA InputFacts ==
  ASSUME NEW in \in Inputs, NEW w \in Workers
  PROVE  in[w] \in Seq(Nat \X Int) /\ InOrder(in[w])
<1>1. /\ in[w] \in Seq(Nat \X Int)
      /\ \A i \in DOMAIN in[w] : in[w][i][1] > 0 /\ in[w][i][2] # 0
      /\ \A i \in 2..Len(in[w]) : in[w][i-1][1] < in[w][i][1]
  BY InputsAssumption
<1> DEFINE q == in[w]
<1> HIDE DEF q
<1>2. InOrder(q)
  BY <1>1, AdjacentOrder DEF q
<1>3. QED
  BY <1>1, <1>2 DEF q

\* A key is found at one place at most.
FoundAt(q, k, found) == found = {i \in DOMAIN q : q[i][1] = k}

LEMMA CoefFound ==
  ASSUME NEW q, q \in Seq(Nat \X Int), InOrder(q), NEW k, NEW found, FoundAt(q, k, found)
  PROVE  Coef(Elements(q), k) = IF found = {} THEN 0 ELSE q[Max(found)][2]
<1> USE DEF FoundAt
<1>0. Len(q) \in Nat /\ DOMAIN q = 1..Len(q) /\ \A i \in DOMAIN q : IsTerm(q[i])
  BY DEF InOrder
<1>1. ASSUME NEW i \in found, NEW j \in found PROVE i = j
  <2>1. i \in DOMAIN q /\ j \in DOMAIN q /\ q[i][1] = q[j][1] /\ q[i][1] \in Nat /\ i \in Nat /\ j \in Nat
    BY <1>0, TermFacts
  <2>2. ~(i < j) /\ ~(j < i)
    BY <2>1 DEF InOrder
  <2>3. QED
    BY <2>1, <2>2
<1>2. CASE found = {}
  <2>1. \A t \in Elements(q) : t[1] # k
    BY <1>2 DEF Elements
  <2>2. QED
    BY <1>2, <2>1 DEF Coef
<1>3. CASE found # {}
  <2>1. PICK i \in found : TRUE
    BY <1>3
  <2>2. found = {i} /\ i \in DOMAIN q /\ q[i][1] = k /\ i \in Nat
    BY <1>0, <1>1, <2>1
  <2>3. Max(found) = i
    <3>1. i >= i
      BY <2>2
    <3>2. QED
      BY <2>2, <3>1 DEF Max
  <2>4. \A t \in Elements(q) : t[1] = k => t = q[i]
    <3>1. \A j \in DOMAIN q : q[j][1] = k => j = i
      BY <2>2
    <3>2. QED
      BY <3>1 DEF Elements
  <2>5. q[i] \in Elements(q)
    BY <2>2 DEF Elements
  <2>6. Coef(Elements(q), k) = q[i][2]
    BY <2>2, <2>4, <2>5 DEF Coef
  <2>7. QED
    BY <1>3, <2>3, <2>6
<1>4. QED
  BY <1>2, <1>3

LEMMA CoefOfInput ==
  ASSUME input \in Inputs, NEW w \in Workers, NEW k
  PROVE  CoefficientOf(w, k) = Coef(Elements(input[w]), k)
<1> DEFINE q == input[w]
           found == {i \in DOMAIN q : q[i][1] = k}
<1>1. q \in Seq(Nat \X Int) /\ InOrder(q)
  BY InputFacts
<1>2. CoefficientOf(w, k) = IF found = {} THEN 0 ELSE q[Max(found)][2]
  BY DEF CoefficientOf
<1> HIDE DEF q
<1>3. FoundAt(q, k, found)
  BY DEF FoundAt
<1> HIDE DEF found
<1>4. Coef(Elements(q), k) = IF found = {} THEN 0 ELSE q[Max(found)][2]
  BY <1>1, <1>3, CoefFound
<1>5. QED
  BY <1>2, <1>4 DEF q

\* The state in which the workers may start.
Fresh ==
  /\ AtMaster = "finish" /\ target = NumberOfWorkers + 1
  /\ \A w \in Workers : pc[w] = "idle"
  /\ \A t \in SortBots : pc[t] \in {"tell", "wait"} /\ FillBlock[t] = 1 /\ ~full[t]
  /\ \A s \in Streams : MasterBlockLock[LastBlock(s)] = ReaderOf(s)
  /\ \A t \in SortBots : MasterBlockLock[FirstBlock(t)] = t
  /\ input \in Inputs /\ todo = input /\ output = <<>>

LEMMA FreshStreams ==
  ASSUME Fresh, NEW s \in Streams
  PROVE  /\ StreamOK(s) /\ Pending(s) = {} /\ ~Consumed(s) /\ ~ReaderIn(s)
         /\ s \in Workers => Unstarted(s) /\ ~Ended(s)
<1>1. /\ ~Merging /\ ReaderOf(s) \in Readers
      /\ \A r \in Readers : pc[r] \notin Loop /\ pc[r] # "in2" /\ ~MergeDone(r)
  <2>1. ~Merging /\ ReaderOf(s) \in Readers
    BY TreeShape DEF Fresh, Merging
  <2>2. ASSUME NEW r \in Readers PROVE pc[r] \notin Loop /\ pc[r] # "in2" /\ ~MergeDone(r)
    <3>1. CASE r = Master
      BY <3>1 DEF Fresh, AtMaster, Loop, MergeDone
    <3>2. CASE r # Master
      <4>1. r \in SortBots /\ r \notin Workers
        BY <3>2, ThreadFacts DEF Readers
      <4>2. QED
        BY <2>1, <3>2, <4>1 DEF Fresh, Loop, MergeDone, Ended
    <3>3. QED
      BY <3>1, <3>2
  <2>3. QED
    BY <2>1, <2>2
<1>2. ~ReaderIn(s) /\ ~ReaderDone(s)
  BY <1>1 DEF ReaderIn, ReaderDone
<1>3. ~Consumed(s) /\ HoldsBehind(s) /\ ReadAt(s) = 1
  BY <1>2, NotTheReader
<1>4. s \in Workers => Unstarted(s) /\ ~Ended(s)
  <2>1. ASSUME s \in Workers PROVE Unstarted(s)
    <3>1. s >= target - NumberOfWorkers
      BY <2>1, ThreadFacts DEF Fresh, Workers
    <3>2. QED
      BY <2>1, <3>1 DEF Unstarted, Fresh
  <2>2. QED
    BY <2>1 DEF Ended
<1>5. s \in SortBots => ~full[s] /\ FillBlock[s] = 1 /\ MasterBlockLock[<<s, 1>>] = s /\ ~Ended(s)
  BY <1>1, ThreadFacts DEF Fresh, FirstBlock, Ended
<1>6. Before(1) = MasterNumBlocks /\ MasterNumBlocks # 1
  BY ThreadFacts DEF Before
<1>7. WriterOK(s)
  <2>1. CASE s \in Workers
    BY <1>4, <2>1 DEF WriterOK
  <2>2. CASE s \in SortBots
    BY <1>3, <1>5, <1>6, <2>2 DEF WriterOK
  <2>3. QED
    BY <2>1, <2>2 DEF Streams
<1>8. ReaderOK(s)
  BY <1>2, <1>3, <1>6 DEF ReaderOK, Fresh, LastBlock
<1>9. Pending(s) = {}
  <2>1. Unstarted(s) \/ ~full[s]
    BY <1>4, <1>5 DEF Streams
  <2>2. QED
    BY <2>1 DEF Pending
<1>10. QED
  BY <1>2, <1>3, <1>4, <1>7, <1>8, <1>9 DEF StreamOK

LEMMA TotalType ==
  ASSUME NEW f, f \in [Streams -> Int]
  PROVE  Total(f, Streams) \in Int
<1>1. IsFiniteSet(Streams) /\ 1 \in Streams
  BY StreamsFinite, ThreadFacts DEF Streams, Workers
<1>2. QED
  BY <1>1, TotalChanges

\* For each key the rests of the workers are their inputs.
LEMMA FreshSum ==
  ASSUME input \in Inputs, todo = input, RestsAreTerms, \A s \in Streams : Pending(s) = {}, NEW k
  PROVE  Total(Rests(k), Streams) = SumOf(k)
<1>1. Rests(k) \in [Streams -> Int] /\ \A s \in Streams : Rests(k)[s] = Coef(Rest(s), k)
  BY RestsType
<1>2. ASSUME NEW w \in Workers PROVE Rests(k)[w] = CoefficientOf(w, k)
  <2>1. w \in Streams /\ Rest(w) = Elements(input[w])
    BY ThreadFacts DEF Rest, Todo
  <2>2. CoefficientOf(w, k) = Coef(Elements(input[w]), k)
    BY CoefOfInput
  <2>3. QED
    BY <1>1, <2>1, <2>2
<1>3. ASSUME NEW s \in Streams \ Workers PROVE Rests(k)[s] = 0
  <2>1. Rest(s) = {}
    BY DEF Rest, Todo
  <2>2. QED
    BY <1>1, <2>1, CoefOfNone
<1> DEFINE f == Rests(k)
<1>4. f \in [Streams -> Int] /\ (\A w \in Workers : f[w] = CoefficientOf(w, k))
      /\ \A s \in Streams \ Workers : f[s] = 0
  BY <1>1, <1>2, <1>3
<1> HIDE DEF f
<1>5. Total(f, Streams) = SumOf(k)
  BY <1>4, SumOfIsTotal
<1>6. QED
  BY <1>5 DEF f

LEMMA FreshFlows == IInv /\ Fresh => SumInv
<1> SUFFICES ASSUME IInv, Fresh PROVE SumInv
  OBVIOUS
<1>0. RingTypes /\ FullTypes
  BY DEF IInv
<1>1. input \in Inputs /\ todo = input /\ output = <<>> /\ AtMaster = "finish"
  BY DEF Fresh
<1>2. output \in Seq(Nat \X Int) /\ InOrder(output) /\ Elements(output) = {}
  BY <1>1 DEF InOrder, Elements
<1>3. \A s \in Streams : StreamOK(s) /\ Pending(s) = {}
  BY FreshStreams
<1>4. ASSUME NEW w \in Workers PROVE WorkerOK(w)
  <2>1. Unstarted(w) /\ ~Ended(w)
    BY ThreadFacts, FreshStreams
  <2>2. todo[w] \in Seq(Nat \X Int) /\ InOrder(todo[w])
    BY <1>1, InputFacts
  <2>3. QED
    BY <2>1, <2>2 DEF WorkerOK
<1>5. ASSUME NEW r \in Readers PROVE MergerOK(r)
  <2>1. CASE r = Master
    BY <1>1, <2>1 DEF MergerOK, NothingWritten, AtMaster, Loop
  <2>2. CASE r # Master
    <3>1. r \in SortBots
      BY <2>2 DEF Readers
    <3>2. QED
      BY <2>2, <3>1 DEF MergerOK, NothingWritten, Fresh, Loop
  <2>3. QED
    BY <2>1, <2>2
<1>6. Flowing
  BY <1>1, <1>2, <1>3, <1>4, <1>5 DEF Flowing
<1>7. Conserved
  <2>1. RestsAreTerms
    BY <1>0, <1>6, FlowingRests
  <2>2. ASSUME NEW k \in Nat \ {0}
        PROVE  Total(Rests(k), Streams) + Coef(Elements(output), k) = SumOf(k)
    <3>1. Total(Rests(k), Streams) = SumOf(k)
      BY <1>1, <1>3, <2>1, FreshSum
    <3>2. Coef(Elements(output), k) = 0
      BY <1>2, CoefOfNone
    <3>3. SumOf(k) \in Int
      <4>1. Rests(k) \in [Streams -> Int]
        BY <2>1, RestsType
      <4>2. Total(Rests(k), Streams) \in Int
        BY <4>1, TotalType
      <4>3. QED
        BY <3>1, <4>2
    <3>4. QED
      BY <3>1, <3>2, <3>3
  <2>3. QED
    BY <2>2 DEF Conserved
<1>8. Stores
  <2>1. DOMAIN todo = Workers
    BY <1>1, InputsAssumption
  <2>2. ~Merging /\ Active
    BY <1>1 DEF Merging, Active, Initialised
  <2>3. QED
    BY <2>1, <2>2 DEF Stores
<1>9. ~Initialising /\ AtMaster # "done"
  BY <1>1 DEF Initialising
<1>10. QED
  BY <1>6, <1>7, <1>8, <1>9 DEF SumInv

LEMMA WaitForIniFlows ==
  ASSUME IInv, IInv', SumInv, WaitForIni
  PROVE  SumInv'
<1>1. /\ AtMaster = "waitini" /\ Goto(Master, IF AllSortBots THEN "finish" ELSE "iniasleep")
      /\ UNCHANGED <<signals, rings, todo, job>>
  BY DEF WaitForIni, MasterWaitAllSortBots, AtMaster
<1>2. CASE ~AllSortBots
  <2>1. Goto(Master, "iniasleep") /\ UNCHANGED <<wakeup, target, rings, todo, input, output>>
    BY <1>1, <1>2 DEF signals, job
  <2>2. QED
    BY <1>1, <2>1, MasterAlone
<1>3. CASE AllSortBots
  <2>1. /\ Goto(Master, "finish")
        /\ UNCHANGED <<wakeup, target, MasterBlockLock, FillBlock, full, todo, input, output>>
    BY <1>1, <1>3 DEF signals, rings, job
  <2>2. /\ AtMaster' = "finish" /\ \A t \in SortBots : pc'[t] = pc[t]
        /\ \A w \in Workers : pc'[w] = pc[w]
    BY <2>1, MasterGoes
  <2>3. Initialising /\ Job = "INISORTBOT" /\ ~Active
    BY <1>1, PhaseFacts DEF Initialising, Active, Initialised, Merging
  <2>4. \A t \in SortBots : AtRest(t) /\ t \in Called
    BY <1>3, <2>3, CountedAll
  <2>5. Prepared /\ \A w \in Workers : pc[w] = "idle"
    BY <2>3 DEF SumInv, Stores
  <2>6. target = NumberOfWorkers + 1
    BY <1>1 DEF IInv, Types
  <2>7. ASSUME NEW t \in SortBots
        PROVE  /\ pc[t] \in {"tell", "wait"} /\ FillBlock[t] = 1 /\ ~full[t]
               /\ MasterBlockLock[FirstBlock(t)] = t
               /\ \A n \in {1, 2} : MasterBlockLock[LastBlock(SortBotIn(t, n))] = t
    <3>1. AtRest(t) /\ t \in Called /\ pc[t] \in {"tell", "wait"}
      BY <2>4 DEF AtRest
    <3>2. Claimed(t) = IniBlocks(t)
      BY <3>1 DEF Claimed
    <3>3. \A b \in IniBlocks(t) : MasterBlockLock[b] = t
      BY <2>3, <3>1, <3>2 DEF IInv, ClaimsHeld
    <3>4. FillBlock[t] = 1 /\ ~full[t]
      BY <2>5, <3>1 DEF Prepared
    <3>5. QED
      BY <3>1, <3>3, <3>4 DEF IniBlocks
  <2>8. ASSUME NEW s \in Streams PROVE MasterBlockLock[LastBlock(s)] = ReaderOf(s)
    <3> DEFINE r == ReaderOf(s)
               n == InputNo(s)
    <3>1. /\ n \in {1, 2} /\ SortBotIn(r, n) = s /\ (r = Master \/ r \in SortBots)
      BY TreeShape
    <3> HIDE DEF r, n
    <3>2. CASE r = Master
      <4>1. \A m \in {1, 2} : MasterBlockLock[LastBlock(SortBotIn(Master, m))] = Master
        BY <1>1, <2>5 DEF Prepared
      <4>2. QED
        BY <3>1, <3>2, <4>1 DEF r
    <3>3. CASE r \in SortBots
      BY <2>7, <3>1, <3>3 DEF r
    <3>4. QED
      BY <3>1, <3>2, <3>3
  <2>9. Fresh'
    <3>1. (\A s \in Streams : MasterBlockLock[LastBlock(s)] = ReaderOf(s))'
      BY <2>1, <2>8 DEF LastBlock, ReaderOf
    <3>2. (\A t \in SortBots : MasterBlockLock[FirstBlock(t)] = t)'
      BY <2>1, <2>7 DEF FirstBlock
    <3>3. (input \in Inputs /\ todo = input /\ output = <<>>)'
      BY <2>1, <2>5 DEF Prepared
    <3>4. (\A t \in SortBots : pc[t] \in {"tell", "wait"} /\ FillBlock[t] = 1 /\ ~full[t])'
      BY <2>1, <2>2, <2>7
    <3>5. (\A w \in Workers : pc[w] = "idle")'
      BY <2>2, <2>5
    <3>6. (AtMaster = "finish" /\ target = NumberOfWorkers + 1)'
      BY <2>1, <2>2, <2>6
    <3>7. QED
      BY <3>1, <3>2, <3>3, <3>4, <3>5, <3>6 DEF Fresh
  <2>10. (IInv /\ Fresh)' => SumInv'
    BY FreshFlows, PTL
  <2>11. QED
    BY <2>9, <2>10
<1>4. QED
  BY <1>2, <1>3

-----------------------------------------------------------------------------
(* The end of the merges *)

\* When the master has merged its inputs, so have the sortbots.
LEMMA AllEnded ==
  ASSUME Flowing, AtMaster \in {"waitend", "endasleep"}
  PROVE  \A s \in Streams : ReaderDone(s) /\ Ended(s)
<1> DEFINE n(s) == 2 * NumberOfWorkers - 2 - s
           R == {n(s) : s \in {x \in Streams : ~ReaderDone(x)}}
<1>1. \A s \in Streams : n(s) \in Nat /\ s \in Int
  BY ThreadFacts, StreamNumbers
<1>2. \A s, t \in Streams : t > s => ~(n(s) <= n(t))
  BY ThreadFacts, StreamNumbers
<1> HIDE DEF n
<1>3. R = {}
  <2>1. SUFFICES ASSUME R # {} PROVE FALSE
    OBVIOUS
  <2>2. R \in SUBSET Nat
    BY <1>1
  <2>3. PICK m \in R : \A j \in R : m <= j
    <3> HIDE DEF R
    <3>1. QED
      BY <2>1, <2>2, SmallestNumber
  <2>4. PICK s \in Streams : ~ReaderDone(s) /\ m = n(s)
    BY <2>3
  <2>5. ReaderOf(s) # Master
    BY <2>4 DEF ReaderDone, MergeDone
  <2>6. ReaderOf(s) \in SortBots /\ ReaderOf(s) > s /\ ReaderOf(s) \in Streams
    BY <2>5, TreeShape, ThreadFacts
  <2>7. ReaderDone(ReaderOf(s))
    <3>1. ~(n(s) <= n(ReaderOf(s)))
      BY <1>2, <2>6
    <3>2. QED
      BY <2>3, <2>4, <2>6, <3>1
  <2>8. Ended(ReaderOf(s))
    BY <2>6, <2>7 DEF Flowing, StreamOK
  <2>9. QED
    BY <2>4, <2>5, <2>8 DEF ReaderDone, MergeDone
<1>4. QED
  BY <1>3 DEF Flowing, StreamOK

LEMMA OutputSum ==
  ASSUME IInv, Flowing, Conserved, \A s \in Streams : ReaderDone(s) /\ Ended(s), NEW k \in Nat \ {0}
  PROVE  Coef(Elements(output), k) = SumOf(k)
<1>1. RestsAreTerms /\ OutputIsTerms
  BY FlowingRests DEF IInv
<1>2. ASSUME NEW s \in Streams PROVE Rest(s) = {}
  <2>1. Pending(s) = {}
    BY <1>2 DEF Pending
  <2>2. s \in Workers => todo[s] = <<>>
    BY DEF Flowing, WorkerOK
  <2>3. Todo(s) = {}
    BY <2>2 DEF Todo, Elements
  <2>4. QED
    BY <2>1, <2>3 DEF Rest
<1> DEFINE f == Rests(k)
<1>3. f \in [Streams -> Int] /\ \A s \in Streams : f[s] = 0
  BY <1>1, <1>2, RestsType, CoefOfNone
<1>4. Total(f, Streams) + Coef(Elements(output), k) = SumOf(k)
  BY DEF Conserved
<1> HIDE DEF f
<1>5. Total(f, Streams) = 0
  BY <1>3, StreamsFinite, TotalOfZeros
<1>6. Coef(Elements(output), k) \in Int
  BY <1>1, CoefType DEF OutputIsTerms
<1>7. QED
  BY <1>4, <1>5, <1>6

\* What is in a sequence in order is what the coefficients of the keys say.
LEMMA CoefOfElements ==
  ASSUME NEW q, q \in Seq(Nat \X Int), InOrder(q)
  PROVE  /\ \A u \in Elements(q) : /\ u = <<u[1], Coef(Elements(q), u[1])>>
                                   /\ u[1] \in Nat \ {0} /\ Coef(Elements(q), u[1]) # 0
         /\ \A k : Coef(Elements(q), k) # 0 => <<k, Coef(Elements(q), k)>> \in Elements(q)
<1>1. \A i \in DOMAIN q : IsTerm(q[i]) /\ i \in Nat
  <2>1. DOMAIN q = 1..Len(q)
    OBVIOUS
  <2>2. QED
    BY <2>1 DEF InOrder
<1>2. ASSUME NEW i \in DOMAIN q, NEW j \in DOMAIN q, q[i][1] = q[j][1] PROVE q[i] = q[j]
  <2>1. q[i][1] \in Nat /\ i \in Nat /\ j \in Nat
    BY <1>1, TermFacts
  <2>2. ~(i < j) /\ ~(j < i)
    BY <1>2, <2>1 DEF InOrder
  <2>3. QED
    BY <2>1, <2>2
<1>3. /\ \A u \in Elements(q) : IsTerm(u)
      /\ \A u, v \in Elements(q) : u[1] = v[1] => u = v
  BY <1>1, <1>2 DEF Elements
<1> DEFINE P == Elements(q)
<1>4. \A u \in P : IsTerm(u)
  BY <1>3
<1>5. \A u, v \in P : u[1] = v[1] => u = v
  BY <1>3
<1> HIDE DEF P
<1>6. ASSUME NEW u \in P PROVE u = <<u[1], Coef(P, u[1])>> /\ u[1] \in Nat \ {0} /\ Coef(P, u[1]) # 0
  <2>1. (CHOOSE t \in P : t[1] = u[1]) = u
    BY <1>5
  <2>2. Coef(P, u[1]) = u[2]
    BY <2>1 DEF Coef
  <2>3. u = <<u[1], u[2]>> /\ u[1] \in Nat \ {0} /\ u[2] # 0
    BY <1>4, TermFacts
  <2>4. QED
    BY <2>2, <2>3
<1>7. ASSUME NEW k, Coef(P, k) # 0 PROVE <<k, Coef(P, k)>> \in P
  <2>1. PICK t \in P : t[1] = k
    BY <1>7 DEF Coef
  <2>2. t = <<t[1], Coef(P, t[1])>>
    BY <1>6, <2>1
  <2>3. QED
    BY <2>1, <2>2
<1>8. QED
  BY <1>6, <1>7 DEF P

LEMMA KeysSummed ==
  ASSUME input \in Inputs
  PROVE  /\ Keys \subseteq Nat \ {0}
         /\ \A k : k \notin Keys => SumOf(k) = 0
<1>1. ASSUME NEW w \in Workers, NEW i \in DOMAIN input[w] PROVE input[w][i][1] \in Nat \ {0}
  <2>1. IsTerm(input[w][i])
    BY InputFacts DEF InOrder
  <2>2. QED
    BY <2>1, TermFacts
<1>2. ASSUME NEW k, k \notin Keys PROVE SumOf(k) = 0
  <2> DEFINE f == [s \in Streams |-> 0]
  <2>1. ASSUME NEW w \in Workers PROVE CoefficientOf(w, k) = 0
    <3>1. {i \in DOMAIN input[w] : input[w][i][1] = k} = {}
      BY <1>2 DEF Keys
    <3>2. QED
      BY <3>1 DEF CoefficientOf
  <2>2. f \in [Streams -> Int] /\ \A s \in Streams : f[s] = 0
    OBVIOUS
  <2>3. \A w \in Workers : f[w] = CoefficientOf(w, k)
    BY <2>1, ThreadFacts
  <2> HIDE DEF f
  <2>4. Total(f, Streams) = SumOf(k)
    BY <2>2, <2>3, SumOfIsTotal
  <2>5. Total(f, Streams) = 0
    BY <2>2, StreamsFinite, TotalOfZeros
  <2>6. QED
    BY <2>4, <2>5
<1>3. QED
  BY <1>1, <1>2 DEF Keys

LEMMA AllMerged ==
  ASSUME IInv, Flowing, Conserved, AtMaster \in {"waitend", "endasleep"}
  PROVE  IsMergeOf(output)
<1>1. \A k \in Nat \ {0} : Coef(Elements(output), k) = SumOf(k)
  BY AllEnded, OutputSum
<1>2. input \in Inputs /\ output \in Seq(Nat \X Int) /\ InOrder(output)
  BY DEF Flowing
<1>3. \A i, j \in DOMAIN output : i < j => output[i][1] < output[j][1]
  BY <1>2 DEF InOrder
<1>4. ASSUME NEW u \in Elements(output)
      PROVE  u[1] \in Keys /\ SumOf(u[1]) # 0 /\ u = <<u[1], SumOf(u[1])>>
  <2>1. /\ u = <<u[1], Coef(Elements(output), u[1])>>
        /\ u[1] \in Nat \ {0} /\ Coef(Elements(output), u[1]) # 0
    BY <1>2, CoefOfElements
  <2>2. Coef(Elements(output), u[1]) = SumOf(u[1])
    BY <1>1, <2>1
  <2>3. u[1] \in Keys
    BY <1>2, <2>1, <2>2, KeysSummed
  <2>4. QED
    BY <2>1, <2>2, <2>3
<1>5. ASSUME NEW k \in Keys, SumOf(k) # 0 PROVE <<k, SumOf(k)>> \in Elements(output)
  <2>1. k \in Nat \ {0}
    BY <1>2, KeysSummed
  <2>2. Coef(Elements(output), k) = SumOf(k)
    BY <1>1, <2>1
  <2>3. <<k, Coef(Elements(output), k)>> \in Elements(output)
    BY <1>2, <1>5, <2>2, CoefOfElements
  <2>4. QED
    BY <2>2, <2>3
<1>6. Elements(output) = {<<k, SumOf(k)>> : k \in {k \in Keys : SumOf(k) # 0}}
  BY <1>4, <1>5
<1>7. QED
  BY <1>3, <1>6 DEF IsMergeOf, Elements

LEMMA WaitForEndFlows ==
  ASSUME IInv, IInv', SumInv, WaitForEnd
  PROVE  SumInv'
<1>1. /\ AtMaster = "waitend" /\ Goto(Master, IF AllSortBots THEN "done" ELSE "endasleep")
      /\ UNCHANGED <<signals, rings, todo, job>>
  BY DEF WaitForEnd, MasterWaitAllSortBots, AtMaster
<1>2. CASE ~AllSortBots
  <2>1. Goto(Master, "endasleep") /\ UNCHANGED <<wakeup, target, rings, todo, input, output>>
    BY <1>1, <1>2 DEF signals, job
  <2>2. QED
    BY <1>1, <2>1, MasterAlone
<1>3. CASE AllSortBots
  <2>1. Goto(Master, "done") /\ UNCHANGED <<todo, input, output>>
    BY <1>1, <1>3 DEF job
  <2>2. AtMaster' = "done" /\ \A w \in Workers : pc'[w] = pc[w]
    BY <2>1, MasterGoes
  <2>3. Flowing /\ Conserved
    BY <1>1 DEF SumInv, Active, Merging
  <2>4. IsMergeOf(output)
    BY <1>1, <2>3, AllMerged
  <2>5. IsMergeOf(output)'
    <3>1. Keys' = Keys /\ output' = output
      BY <2>1 DEF Keys
    <3>2. \A k : SumOf(k)' = SumOf(k)
      BY <2>1, SumOfSame
    <3>3. QED
      BY <2>4, <3>1, <3>2 DEF IsMergeOf
  <2>6. \A w \in Workers : pc'[w] = "idle"
    <3>1. ASSUME NEW w \in Workers PROVE pc[w] = "idle"
      <4>1. w \in Streams /\ Ended(w)
        BY <1>1, <2>3, AllEnded, ThreadFacts
      <4>2. QED
        BY <4>1 DEF Ended
    <3>2. QED
      BY <2>2, <3>1
  <2>7. DOMAIN todo' = Workers
    BY <2>1 DEF SumInv, Stores
  <2>8. ~Active' /\ ~Initialising' /\ ~Merging'
    BY <2>2 DEF Active, Initialised, Merging, Initialising
  <2>9. Stores'
    BY <2>6, <2>7, <2>8 DEF Stores
  <2>10. QED
    BY <2>5, <2>8, <2>9 DEF SumInv
<1>4. QED
  BY <1>2, <1>3

-----------------------------------------------------------------------------
(* Every step *)

LEMMA ZeroClaimedFlows ==
  ASSUME IInv, IInv', SumInv, ZeroClaimed
  PROVE  SumInv'
<1>1. /\ AtMaster = "zeroclaimed" /\ Goto(Master, "last1")
      /\ UNCHANGED <<wakeup, target, rings, todo, input, output>>
  BY DEF ZeroClaimed, AtMaster, job
<1>2. QED
  BY <1>1, MasterAlone

LEMMA SortBotStepFlows ==
  ASSUME IInv, IInv', SumInv, NEW t \in SortBots, SortBotStep(t)
  PROVE  SumInv'
BY EnterWaitFlows, TellMasterFlows, TakeSignalFlows, SortBotClaimsFlow DEF SortBotStep

LEMMA WorkerStepFlows ==
  ASSUME IInv, IInv', SumInv, NEW w \in Workers, WorkerStep(w)
  PROVE  SumInv'
BY WorkerClaimsFlow, ThreadClaimedBlockFlows, WorkerPutsFlow, WorkerEndsFlow DEF WorkerStep

LEMMA MasterStepFlows ==
  ASSUME IInv, IInv', SumInv, MasterStep
  PROVE  SumInv'
BY NoJobFlows, BeginFlows, SendIniFlows, ZeroClaimedFlows, MasterClaimsFlow, WaitForIniFlows,
   SendFinishFlows, WaitBlocksFlows, SendRunFlows, WaitForEndFlows DEF MasterStep

LEMMA InitSumInv == Init => SumInv
<1> SUFFICES ASSUME Init PROVE SumInv
  OBVIOUS
<1>1. AtMaster = "start" /\ (\A w \in Workers : pc[w] = "idle") /\ DOMAIN todo = Workers
  BY ThreadFacts DEF Init, AtMaster
<1>2. ~Active /\ ~Merging /\ ~Initialising /\ AtMaster # "done"
  BY <1>1 DEF Active, Initialised, Merging, Initialising
<1>3. QED
  BY <1>1, <1>2 DEF SumInv, Stores

LEMMA NextSumInv ==
  ASSUME IInv, IInv', SumInv, [Next]_vars
  PROVE  SumInv'
<1>1. ASSUME UNCHANGED vars PROVE SumInv'
  <2>1. /\ UNCHANGED <<pc, wakeup, target, rings, todo, input, output>>
    BY <1>1 DEF vars, signals, job
  <2>2. AtMaster' = AtMaster /\ target' = target
    BY <2>1 DEF AtMaster
  <2>3. SameOrders
    BY <2>1, <2>2, SamePhase DEF SameOrders, MergeDone, AtMaster
  <2>4. SameSortBots
    BY <2>1 DEF SameSortBots, Waits, Ready, AtRest
  <2>5. SameWorkers
    BY <2>1, <2>2 DEF SameWorkers, Unstarted
  <2>6. QED
    BY <2>1, <2>3, <2>4, <2>5, SameKept
<1>2. QED
  BY <1>1, SortBotStepFlows, MergeStepFlows, WorkerStepFlows, MasterStepFlows DEF Next

-----------------------------------------------------------------------------
(* Theorems *)

\* Each sortbot is where the master's orders have brought it, and while the master may wait
\* for the sortbots topsortbotavailables (threads.c:4177-4190, 2194-2201) counts each that
\* has finished once; workers write only in blocks they hold.
THEOREM SortBotsInvariant == Spec => []IInv
<1>1. Init => IInv
  BY InitIInv
<1>2. IInv /\ [Next]_vars => IInv'
  BY NextIInv
<1>3. QED
  BY <1>1, <1>2, PTL DEF Spec

\* The comment at threads.c:4182: no sortbot misses its initialization, however the sortbots
\* of the job before come back and whatever the number of workers.
THEOREM InitializationIsNotMissed == Spec => []NoSortBotMissesInit
<1>1. IInv => NoSortBotMissesInit
  <2> SUFFICES ASSUME IInv, pc[Master] \in {"finish", "waitblocks", "claimasleep"},
                      NEW t \in SortBots,
                      NEW b \in {FirstBlock(t)} \cup {LastBlock(SortBotIn(t, n)) : n \in {1, 2}}
               PROVE  MasterBlockLock[b] = t
    BY DEF NoSortBotMissesInit
  <2>1. Initialised
    BY DEF Initialised, AtMaster
  <2>2. b \in IniBlocks(t)
    BY DEF IniBlocks
  <2>3. QED
    BY <2>1, <2>2 DEF IInv, ClaimsHeld
<1>2. QED
  BY <1>1, SortBotsInvariant, PTL

\* No sortbot is counted twice, no worker claims twice, and every variable keeps its range.
THEOREM TypeCorrect == Spec => []TypeOK
<1>1. IInv => TypeOK
  <2> SUFFICES ASSUME IInv PROVE TypeOK
    OBVIOUS
  <2>1. /\ \A t \in SortBots : pc[t] \in SortBotPlaces
        /\ \A w \in Workers : pc[w] \in WorkerPlaces
        /\ pc[Master] \in MasterPlaces
        /\ wakeup \in [SortBots -> Signals] /\ expressions \in 0..MaxExpressions
    BY DEF IInv, Types, AtMaster
  <2>2. topsortbotavailables \in 0..numberofsortbots
    BY DEF IInv, CountIsRight
  <2>3. numberclaimed \in 0..NumberOfWorkers
    <3>1. Unclaimed \subseteq Workers
      BY DEF Unclaimed
    <3>2. Cardinality(Unclaimed) \in Nat
      BY <3>1, FS_Subset, FS_CardinalityType, Cardinalities
    <3>3. QED
      BY <3>2, ThreadFacts DEF IInv, ClaimsCounted
  <2>4. target \in SortBots \cup (NumberOfWorkers + 1..2 * NumberOfWorkers)
    BY DEF IInv, Types
  <2>5. RingTypes /\ FullTypes
    BY DEF IInv
  <2>6. QED
    BY <2>1, <2>2, <2>3, <2>4, <2>5 DEF TypeOK, RingTypes, FullTypes
<1>2. QED
  BY <1>1, SortBotsInvariant, PTL

\* What is in the rings, taken with what the workers have still to write and what the master
\* has written, is for each key the sum of what all workers sent; the blocks between writer and
\* reader hold terms in order, whatever the blocks held before.
THEOREM SumInvariant == Spec => []SumInv
<1>1. Init => SumInv
  BY InitSumInv
<1>2. IInv /\ IInv' /\ SumInv /\ [Next]_vars => SumInv'
  BY NextSumInv
<1>3. QED
  BY <1>1, <1>2, SortBotsInvariant, PTL DEF Spec

\* The tree of the sortbots writes each key once, in order, with the sum of the coefficients
\* of all workers, for any number of workers and blocks and any sorted inputs.
THEOREM OutputIsRight == Spec => []OutputIsTheSum
<1>1. IInv /\ SumInv => OutputIsTheSum
  <2> SUFFICES ASSUME IInv, SumInv, AtMaster \in {"waitend", "endasleep", "done"}
               PROVE  IsMergeOf(output)
    BY DEF OutputIsTheSum, AtMaster
  <2>1. CASE AtMaster \in {"waitend", "endasleep"}
    <3>1. Flowing /\ Conserved
      BY <2>1 DEF SumInv, Active, Merging
    <3>2. QED
      BY <2>1, <3>1, AllMerged
  <2>2. CASE AtMaster = "done"
    BY <2>2 DEF SumInv
  <2>3. QED
    BY <2>1, <2>2
<1>2. QED
  BY <1>1, SortBotsInvariant, SumInvariant, PTL
=============================================================================
