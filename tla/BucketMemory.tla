--------------------------- MODULE BucketMemory ---------------------------
(***************************************************************************)
(* The memory of the buckets of TFORM (MakeThreadBuckets in                *)
(* form/sources/threads.c) over the life of the setting that determines    *)
(* it: the setup parameter threadbucketsize, the statement of that name,   *)
(* On and Off threads, and the ends of modules.  One block of memory       *)
(* holds, in this order, deferbuffer (a file position per term, for Keep   *)
(* Brackets), threadbuffer (the terms) and compressbuffer.  There is more  *)
(* than one thread, or there are no buckets.                               *)
(***************************************************************************)
EXTENDS Integers

CONSTANTS ggThreadBucketSize,  \* the setup parameter
          StatementSizes,      \* the sizes the statements of the program ask for
          MaxTer               \* bytes in a term of maximal size

ASSUME BucketMemoryAssumption ==
  /\ ggThreadBucketSize \in Nat \ {0} /\ MaxTer \in Nat \ {0}
  /\ StatementSizes \subseteq Nat

VARIABLES MultiThreaded,      \* AS.MultiThreaded
          ThreadBucketSize,   \* AC.ThreadBucketSize
          gThreadBucketSize,  \* AM.gThreadBucketSize
          positions,          \* entries of deferbuffer, with which the block was made
          threadbuffersize    \* words in threadbuffer

memoryvars == <<MultiThreaded, ThreadBucketSize, gThreadBucketSize, positions,
                threadbuffersize>>

sizeofWORD == 4

\* "Not all terms should be maximal": large buckets get less memory per term.
Estimate(n) ==
  LET bytes   == (n + 1) * MaxTer + 2 * sizeofWORD
      reduced == IF n >= 250 THEN bytes \div 4
                 ELSE IF n >= 90 THEN bytes \div 3
                 ELSE IF n >= 40 THEN bytes \div 2
                 ELSE bytes
  IN reduced \div sizeofWORD

KeepAnyway(n) == TRUE

\* The old block is kept when the estimate for the terms is not larger.
KeepBuckets(n) == Estimate(n) <= threadbuffersize

Allocate(n) == positions' = n + 1 /\ threadbuffersize' = Estimate(n)

\* The statement; values below 1 are adjusted to 1.  The buckets are made anew only
\* while threads are on.
CoThreadBucket(x) ==
  LET n == IF x < 1 THEN 1 ELSE x
  IN /\ ThreadBucketSize' = n
     /\ IF MultiThreaded /\ ~KeepBuckets(n) THEN Allocate(n)
        ELSE UNCHANGED <<positions, threadbuffersize>>
     /\ UNCHANGED <<MultiThreaded, gThreadBucketSize>>

SizesStay == UNCHANGED <<ThreadBucketSize, gThreadBucketSize>>

\* Off threads; and On threads; hold until the end of the module.
CoOff == MultiThreaded' = FALSE /\ SizesStay

CoOn == MultiThreaded' = TRUE /\ SizesStay

\* Every module begins with threads on.
IniModule == MultiThreaded' = TRUE

\* What .global, .store and .clear do with the size; .sort does nothing with it.
MakeGlobal == gThreadBucketSize' = ThreadBucketSize /\ UNCHANGED ThreadBucketSize

PopVariables == ThreadBucketSize' = gThreadBucketSize /\ UNCHANGED gThreadBucketSize

FullCleanUp ==
  ThreadBucketSize' = ggThreadBucketSize /\ gThreadBucketSize' = ggThreadBucketSize

\* The end of a module and the beginning of the next; the buckets are left alone.
NewModule ==
  /\ SizesStay \/ MakeGlobal \/ PopVariables \/ FullCleanUp
  /\ IniModule

InitMemory ==
  /\ MultiThreaded = TRUE
  /\ ThreadBucketSize = ggThreadBucketSize /\ gThreadBucketSize = ggThreadBucketSize
  /\ positions = ggThreadBucketSize + 1
  /\ threadbuffersize = Estimate(ggThreadBucketSize)

NextMemory ==
  \/ \E x \in StatementSizes : CoThreadBucket(x)
  \/ (CoOff \/ CoOn \/ NewModule) /\ UNCHANGED <<positions, threadbuffersize>>

SpecMemory == InitMemory /\ [][NextMemory]_memoryvars

-----------------------------------------------------------------------------
\* Terms that ThreadsProcessor puts in one bucket at most: the first, and more while
\* there are fewer than thrbufsiz = ThreadBucketSize - 1 of them.
TermsInBucket == IF ThreadBucketSize <= 1 THEN 1 ELSE ThreadBucketSize

\* With Keep Brackets every term of a bucket has its place in deferbuffer, whatever
\* statements and ends of modules went before: "Reallocation when we change the bucket
\* size with the threadbucketsize statement" (threads.c:879-880).  Beyond its end lie
\* the terms of the bucket.  Buckets are filled only while threads are on.
EveryTermHasItsPosition == MultiThreaded => TermsInBucket <= positions

\* A step of a program that gives the statement only while threads are on.
StatementWithThreads ==
  (\E x \in StatementSizes : CoThreadBucket(x)) => MultiThreaded

\* The statement given while threads are on does what its comment says, whatever sizes
\* went before: it leaves a position for every term.
StatementMakesRoom ==
  [][(\E x \in StatementSizes : CoThreadBucket(x)) /\ MultiThreaded
       => EveryTermHasItsPosition']_memoryvars
=============================================================================
