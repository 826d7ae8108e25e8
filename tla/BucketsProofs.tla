---------------------------- MODULE BucketsProofs ----------------------------
(***************************************************************************)
(* Buckets, for any number of workers, terms and any size of the buckets:  *)
(* who may touch a bucket, that every term is executed once, and that none *)
(* is left when the master is done.  At the end, about BucketMemory: from  *)
(* which setup sizes on a statement makes the memory of the buckets large  *)
(* enough, whatever statements and ends of modules went before.            *)
(***************************************************************************)
EXTENDS Buckets, BucketMemory, FiniteSetTheorems, SequenceTheorems, TLAPS

FreeStates == {"FREE", "INUSE", "COMINGFREE", "FILLED", "ATEND", "TERMINATED", "RELEASED"}
BusyStates == {"DOINGTERM", "ASSIGNED", "TOBERELEASED", "PREPARINGTERM"}
Balancing == {"scan", "weigh", "steal", "share"}
MasterStates == {"bucket", "loadanother", "pick", "dobucket", "sent", "reload", "finalize",
                 "balance", "waitall", "done"} \cup Filling \cup Balancing
WorkerStates == {"idle", "start", "copy", "check", "take", "generate", "checkagain", "more",
                 "release"}
Buckets == [free : FreeStates, busy : BusyStates, totnum : 0..BucketSize,
            usenum : 0..BucketSize, terms : Seq(Terms)]
Scans == [j : 1..numthreadbuckets+1, bus : BusyStates \cup {"none"},
          freebuckets : SUBSET threadbuckets, thrtogo : threadbuckets \cup {0},
          numtogo : 0..BucketSize, numbusy : Nat]

Types ==
  /\ bucket \in [threadbuckets -> Buckets]
  /\ lock \in threadbuckets \cup {0} /\ available \subseteq Workers
  /\ wpc \in [Workers -> WorkerStates]
  /\ threadbuck \in [Workers -> threadbuckets \cup {0}]
  /\ ttin \in [Workers -> 0..BucketSize]
  /\ executed \in [Terms -> {0, 1}]
  /\ mpc \in MasterStates
  /\ thr \in threadbuckets /\ nextterm \in 1..NumTerms+1
  /\ scan \in Scans

\* The terms of bucket b, and where worker w is in its own.
Size(b) == Len(bucket[b].terms)
Robbed(b) == mpc = "share" /\ thr = b

\* A worker is available when it is idle, and otherwise it has a bucket.
WorkerHasBucket ==
  \A w \in Workers : /\ w \in available <=> wpc[w] = "idle"
                     /\ wpc[w] = "idle" <=> threadbuck[w] = 0
                     /\ wpc[w] \in {"idle", "start"} => ttin[w] = 0

\* The bucket a worker reads is its own, and its counts are those of the worker.  Once it
\* is terminated the worker has no term of it left.
InStep(w, b) ==
  /\ Free(b) \in {"INUSE", "TERMINATED"}
  /\ bucket[b].usenum = ttin[w]
  /\ ttin[w] <= Size(b)
  /\ wpc[w] # "start" => ttin[w] > 0
  /\ wpc[w] \in {"start", "copy"} => ttin[w] < Size(b)
  /\ Free(b) = "INUSE" \/ Robbed(b) => bucket[b].totnum = Size(b)
  /\ Free(b) = "TERMINATED" => /\ wpc[w] \in {"generate", "checkagain"}
                               /\ ttin[w] < bucket[b].totnum
                               /\ ~Robbed(b) => Size(b) = ttin[w]

ReadingInStep ==
  /\ \A v, w \in Workers :
       Reading(v) /\ Reading(w) /\ threadbuck[v] = threadbuck[w] => v = w
  /\ \A w \in Workers : Reading(w) => InStep(w, threadbuck[w])

\* The master fills a bucket that is free; a bucket that it may send is whole.
FillingInStep ==
  /\ mpc \in Filling \cup {"bucket"} => Free(thr) = "FREE"
  /\ mpc \in {"first", "open"} => Size(thr) = 1
  /\ mpc \in {"more", "get", "full"} =>
       bucket[thr].totnum = Size(thr) /\ bucket[thr].usenum = 0 /\ Size(thr) > 0
  /\ mpc = "get" => RoomInBucket
  /\ mpc = "dobucket" => Free(thr) = "FILLED"
  /\ \A b \in threadbuckets : Free(b) = "FILLED" =>
       bucket[b].totnum = Size(b) /\ bucket[b].usenum = 0 /\ Size(b) > 0

\* What LoadReadjusted has seen can still be used: the free buckets are free, and the
\* bucket to rob has at most as many terms left.  The one it robs is locked, and its
\* worker is in the middle of a term.
ScanInStep ==
  /\ mpc \in Balancing =>
       /\ \A b \in scan.freebuckets : Free(b) \in {"FREE", "ATEND", "COMINGFREE"}
       /\ scan.numtogo > 0 =>
            /\ scan.thrtogo \in threadbuckets
            /\ TermsLeft(scan.thrtogo) <= scan.numtogo
            /\ mpc # "share" => Free(scan.thrtogo) # "TERMINATED"
  /\ mpc = "weigh" => scan.j <= numthreadbuckets
  /\ mpc \in {"steal", "share"} =>
       thr = scan.thrtogo /\ scan.numtogo > 0 /\ scan.freebuckets # {}
  /\ mpc = "share" =>
       /\ lock = thr /\ TermsLeft(thr) = scan.numtogo
       /\ \E w \in Workers : wpc[w] = "generate" /\ threadbuck[w] = thr
       /\ Free(thr) = "TERMINATED"

\* A bucket that says that a term is being done has a worker that does it.
DoingTermIsTrue ==
  \A b \in threadbuckets : bucket[b].busy = "DOINGTERM" =>
    \E w \in Workers : wpc[w] = "generate" /\ threadbuck[w] = b

CountsInStep ==
  \A b \in threadbuckets : bucket[b].usenum <= bucket[b].totnum /\ Size(b) <= BucketSize

\* The places where a term waits to be executed: a place of a bucket that is filled, or one
\* that its worker has not come past.
Done(w) == IF wpc[w] \in {"check", "take", "generate"} THEN ttin[w] - 1 ELSE ttin[w]
Waiting(b, i) ==
  \/ Free(b) = "FILLED" \/ (b = thr /\ mpc \in Filling)
  \/ \E w \in Workers : Reading(w) /\ threadbuck[w] = b /\ i > Done(w)
Place(b, i) == i \in 1..Size(b) /\ Waiting(b, i)

EveryTermHasOnePlace ==
  /\ \A b, c \in threadbuckets : \A i \in 1..Size(b), j \in 1..Size(c) :
       Place(b, i) /\ Place(c, j) /\ bucket[b].terms[i] = bucket[c].terms[j] =>
         b = c /\ i = j
  /\ \A b \in threadbuckets : \A i \in 1..Size(b) : Place(b, i) =>
       bucket[b].terms[i] < nextterm /\ executed[bucket[b].terms[i]] = 0
  /\ \A t \in Terms : t < nextterm /\ executed[t] = 0 =>
       \E b \in threadbuckets : \E i \in 1..Size(b) : Place(b, i) /\ bucket[b].terms[i] = t
  /\ \A t \in Terms : t >= nextterm => executed[t] = 0

IInv == /\ Types /\ WorkerHasBucket /\ ReadingInStep /\ FillingInStep /\ ScanInStep
        /\ DoingTermIsTrue /\ CountsInStep /\ EveryTermHasOnePlace

-----------------------------------------------------------------------------
LEMMA InitIInv == Init => IInv
<1> SUFFICES ASSUME Init PROVE IInv
  OBVIOUS
<1> USE SizesAssumption DEF Init
<1>0. 1 \in threadbuckets /\ numthreadbuckets \in Nat
  BY DEF threadbuckets, numthreadbuckets
<1>1. <<>> \in Seq(Terms) /\ Len(<<>>) = 0
  OBVIOUS
<1>2. Types
  <2>1. bucket \in [threadbuckets -> Buckets]
    BY <1>1 DEF Buckets, FreeStates, BusyStates
  <2>2. scan.j \in 1..numthreadbuckets+1 /\ scan \in Scans
    BY <1>0 DEF NothingSeen, Scans
  <2>4. QED
    BY <2>1, <2>2, <1>0 DEF Types, WorkerStates, MasterStates, Filling, Balancing
<1>3. WorkerHasBucket /\ ReadingInStep
  BY DEF WorkerHasBucket, ReadingInStep, Reading
<1>4. FillingInStep /\ ScanInStep /\ DoingTermIsTrue /\ CountsInStep
  BY <1>0, <1>1 DEF FillingInStep, ScanInStep, DoingTermIsTrue, CountsInStep, Filling, Balancing,
                    Free, Size
<1>5. EveryTermHasOnePlace
  BY <1>0, <1>1 DEF EveryTermHasOnePlace, Size, Place, Terms
<1>6. QED
  BY <1>2, <1>3, <1>4, <1>5 DEF IInv

\* The bucket of a worker that is not idle, and of one that reads.
LEMMA HasBucket ==
  ASSUME IInv, NEW w \in Workers, wpc[w] # "idle"
  PROVE  threadbuck[w] \in threadbuckets /\ bucket[threadbuck[w]] \in Buckets
<1>1. threadbuck[w] \in threadbuckets
  BY DEF IInv, Types, WorkerHasBucket
<1>2. QED
  BY <1>1 DEF IInv, Types

LEMMA WorkersAreBusy ==
  ASSUME IInv, NEW w \in Workers, Worker(w)
  PROVE  /\ wpc[w] # "idle"
         /\ Reading(w) \/ LeaveBucket(w)
         /\ Reading(w)' \/ wpc'[w] \in {"idle", "release"}
BY DEF IInv, Types, Worker, CopyTerm, CheckBefore, MarkDoingTerm, MarkPreparing, CheckAfter, MoreTerms,
       LeaveBucket, SetBusy, Reading

LEMMA BucketNumbers ==
  ASSUME IInv, NEW b \in threadbuckets
  PROVE  /\ Size(b) \in 0..BucketSize /\ bucket[b].terms \in Seq(Terms)
         /\ bucket[b].totnum \in 0..BucketSize /\ bucket[b].usenum \in 0..bucket[b].totnum
         /\ bucket[b].free \in FreeStates
<1>1. bucket[b] \in Buckets
  BY DEF IInv, Types
<1>2. bucket[b].terms \in Seq(Terms) /\ bucket[b].totnum \in 0..BucketSize
      /\ bucket[b].usenum \in 0..BucketSize /\ bucket[b].free \in FreeStates
  BY <1>1 DEF Buckets
<1>3. Size(b) \in Nat
  BY <1>2 DEF Size
<1>4. QED
  BY <1>2, <1>3, SizesAssumption DEF IInv, CountsInStep

\* ReadingInStep for one worker.
LEMMA Reader ==
  ASSUME IInv, NEW w \in Workers, Reading(w), NEW b, b = threadbuck[w]
  PROVE  /\ b \in threadbuckets /\ bucket[b] \in Buckets /\ ttin[w] \in 0..Size(b)
         /\ Free(b) \in {"INUSE", "TERMINATED"}
         /\ \A v \in Workers : Reading(v) /\ threadbuck[v] = b => v = w
         /\ bucket[b].usenum = ttin[w]
         /\ IF wpc[w] = "start" THEN ttin[w] = 0 ELSE ttin[w] > 0
         /\ wpc[w] \in {"start", "copy"} => ttin[w] < Size(b)
         /\ Free(b) = "INUSE" \/ Robbed(b) => bucket[b].totnum = Size(b)
         /\ Free(b) = "TERMINATED" => /\ wpc[w] \in {"generate", "checkagain"}
                                      /\ ttin[w] < bucket[b].totnum
                                      /\ ~Robbed(b) => Size(b) = ttin[w]
<1>1. b \in threadbuckets /\ bucket[b] \in Buckets
  BY HasBucket DEF Reading
<1>2. ttin[w] \in Nat /\ Size(b) \in Nat
  BY <1>1, BucketNumbers, SizesAssumption DEF IInv, Types
<1>3. wpc[w] = "start" => ttin[w] = 0
  BY DEF IInv, WorkerHasBucket
<1>4. QED
  BY <1>1, <1>2, <1>3 DEF IInv, ReadingInStep, InStep

\* A record of a bucket with another field.
LEMMA FieldSet ==
  ASSUME NEW r \in Buckets
  PROVE  /\ \A x \in FreeStates : [r EXCEPT !.free = x] \in Buckets
         /\ \A x \in BusyStates : [r EXCEPT !.busy = x] \in Buckets
         /\ \A x \in 0..BucketSize : [r EXCEPT !.totnum = x] \in Buckets
         /\ \A x \in 0..BucketSize : [r EXCEPT !.usenum = x] \in Buckets
         /\ \A x \in Seq(Terms) : [r EXCEPT !.terms = x] \in Buckets
BY DEF Buckets

LEMMA BucketSet ==
  ASSUME Types, NEW b \in threadbuckets, NEW r \in Buckets
  PROVE  [bucket EXCEPT ![b] = r] \in [threadbuckets -> Buckets]
BY DEF Types

LEMMA TypesKeptByWorkers ==
  ASSUME IInv, NEW w \in Workers, Worker(w)
  PROVE  Types'
<1> USE SizesAssumption DEF IInv
<1> DEFINE b == threadbuck[w]
<1>1. /\ wpc[w] # "idle" /\ b \in threadbuckets /\ bucket[b] \in Buckets
      /\ b' \in threadbuckets \cup {0}
  BY WorkersAreBusy, HasBucket DEF Types, Worker, CopyTerm, CheckBefore, MarkDoingTerm, MarkPreparing, CheckAfter, MoreTerms, LeaveBucket, SetBusy
<1> HIDE DEF b
<1>2. CASE CopyTerm(w)
  <2>1. ttin[w] + 1 \in 0..BucketSize /\ bucket[b].usenum = ttin[w]
    <3>1. Reading(w) /\ wpc[w] \in {"start", "copy"}
      BY <1>2 DEF CopyTerm, Reading
    <3>2. QED
      BY <1>1, <3>1, Reader, BucketNumbers, SizesAssumption DEF b
  <2>3. bucket' \in [threadbuckets -> Buckets]
    <3> DEFINE n == IF wpc[w] = "start" THEN 1 ELSE bucket[b].usenum + 1
    <3>1. n \in 0..BucketSize
      BY <2>1
    <3> HIDE DEF n
    <3>2. [bucket[b] EXCEPT !.usenum = n] \in Buckets
      BY <1>1, <3>1, FieldSet
    <3>3. bucket' = [bucket EXCEPT ![b] = [bucket[b] EXCEPT !.usenum = n]]
      BY <1>1, <1>2 DEF CopyTerm, b, n, Types
    <3>4. QED
      BY <1>1, <3>2, <3>3, BucketSet
  <2>4. QED
    BY <1>1, <1>2, <2>1, <2>3 DEF CopyTerm, WorkerStates, inputvars, Types
<1>3. CASE CheckBefore(w) \/ CheckAfter(w)
  <2>1. Landing(b) \in [threadbuckets -> Buckets]
    BY <1>1, FieldSet, BucketSet DEF Landing, FreeStates, Types
  <2>4. QED
    BY <1>1, <1>3, <2>1 DEF CheckBefore, CheckAfter, WorkerStates, inputvars, Types, b
<1>4. CASE MarkDoingTerm(w) \/ LeaveBucket(w)
  <2>1. bucket' \in [threadbuckets -> Buckets]
    <3>1. PICK x \in BusyStates : bucket' = [bucket EXCEPT ![b].busy = x]
      BY <1>4 DEF MarkDoingTerm, LeaveBucket, SetBusy, BusyStates, b
    <3>2. QED
      BY <1>1, <3>1, FieldSet, BucketSet DEF Types
  <2>4. QED
    BY <1>1, <1>4, <2>1 DEF MarkDoingTerm, LeaveBucket, SetBusy, WorkerStates, inputvars, Types
<1>5. CASE MarkPreparing(w)
  <2>1. bucket' \in [threadbuckets -> Buckets]
    BY <1>1, <1>5, FieldSet, BucketSet DEF MarkPreparing, SetBusy, BusyStates, b, Types
  <2>2. ttin[w] \in 1..Size(b) /\ Done(w) < ttin[w]
    <3>1. Reading(w) /\ wpc[w] = "generate"
      BY <1>5 DEF MarkPreparing, SetBusy, Reading
    <3>2. QED
      BY <1>1, <3>1, Reader, BucketNumbers DEF Done, b
  <2>3. executed[bucket[b].terms[ttin[w]]] = 0 /\ bucket[b].terms[ttin[w]] \in Terms
    <3>1. Place(b, ttin[w])
      BY <1>5, <2>2 DEF MarkPreparing, SetBusy, Place, Waiting, Reading, b
    <3>2. bucket[b].terms[ttin[w]] \in Terms
      BY <1>1, <2>2, BucketNumbers DEF Size
    <3>3. QED
      BY <1>1, <2>2, <3>1, <3>2 DEF EveryTermHasOnePlace
  <2>4. QED
    <3>1. executed' \in [Terms -> {0, 1}]
      BY <1>5, <2>3 DEF MarkPreparing, Types, b
    <3>2. QED
      BY <1>1, <1>5, <2>1, <3>1 DEF MarkPreparing, SetBusy, WorkerStates, inputvars, Types
<1>6. CASE MoreTerms(w)
  <2>1. bucket' \in [threadbuckets -> Buckets]
    <3>1. "COMINGFREE" \in FreeStates
      BY DEF FreeStates
    <3>2. [bucket EXCEPT ![b].free = "COMINGFREE"] \in [threadbuckets -> Buckets]
      BY <1>1, <3>1, FieldSet, BucketSet DEF Types
    <3>3. QED
      BY <1>6, <3>2 DEF MoreTerms, b, Types
  <2>4. QED
    BY <1>1, <1>6, <2>1 DEF MoreTerms, WorkerStates, inputvars, Types
<1>7. QED
  BY <1>2, <1>3, <1>4, <1>5, <1>6 DEF Worker

-----------------------------------------------------------------------------
(* The shares of ShareOut *)

\* A product grows with its first factor.
LEMMA TimesMonotone ==
  ASSUME NEW x \in Nat, NEW y \in Nat, NEW q \in Nat, x <= y
  PROVE  x * q <= y * q /\ x * q \in Nat /\ y * q \in Nat
<1>1. PICK d \in Nat : y = x + d
  <2>1. y - x \in Nat /\ y = x + (y - x)
    OBVIOUS
  <2>2. QED
    BY <2>1
<1>2. y * q = x * q + d * q
  BY <1>1
<1>3. d * q \in Nat /\ x * q \in Nat
  OBVIOUS
<1>4. QED
  BY <1>2, <1>3

\* The shares follow on each other and are all there is.
LEMMA ShareFollows ==
  ASSUME NEW n \in Nat, NEW m \in Nat \ {0}
  PROVE  /\ \A i \in 1..m : Share(n, m, i) \in Nat /\ Before(n, m, i) \in Nat
                            /\ Before(n, m, i + 1) = Before(n, m, i) + Share(n, m, i)
         /\ Before(n, m, 1) = 0 /\ Before(n, m, m + 1) = n
         /\ \A i, j \in 1..m+1 : i <= j => Before(n, m, i) <= Before(n, m, j)
<1> DEFINE q == n \div m
           r == n % m
<1>1. q \in Nat /\ r \in 0..m-1 /\ n = m * q + r
  OBVIOUS
<1>2. \A i \in Nat : Before(n, m, i) = (i - 1) * q + (IF i - 1 < r THEN i - 1 ELSE r)
                     /\ Share(n, m, i) = IF i <= r THEN q + 1 ELSE q
  BY DEF Before, Share
<1> HIDE DEF q, r
<1>3. ASSUME NEW i \in 1..m
      PROVE  Share(n, m, i) \in Nat /\ Before(n, m, i) \in Nat
             /\ Before(n, m, i + 1) = Before(n, m, i) + Share(n, m, i)
  <2>1. (i - 1) * q \in Nat /\ (i + 1 - 1) * q = (i - 1) * q + q
    BY <1>1
  <2>2. Before(n, m, i + 1) = (i - 1) * q + q + (IF i < r THEN i ELSE r)
    <3>1. i + 1 \in Nat /\ i + 1 - 1 = i
      OBVIOUS
    <3>2. QED
      BY <1>2, <2>1, <3>1
  <2>3. /\ Before(n, m, i) = (i - 1) * q + (IF i - 1 < r THEN i - 1 ELSE r)
        /\ Share(n, m, i) = IF i <= r THEN q + 1 ELSE q
    BY <1>2
  <2>. DEFINE p == (i - 1) * q
  <2>. HIDE DEF p
  <2>4. QED
    BY <1>1, <2>1, <2>2, <2>3 DEF p
<1>4. Before(n, m, 1) = 0
  BY <1>1, <1>2
<1>5. Before(n, m, m + 1) = n
  BY <1>1, <1>2
<1>6. ASSUME NEW i \in 1..m+1, NEW j \in 1..m+1, i <= j
      PROVE  Before(n, m, i) <= Before(n, m, j)
  <2>1. (i - 1) * q <= (j - 1) * q /\ (i - 1) * q \in Nat /\ (j - 1) * q \in Nat
    BY <1>1, <1>6, TimesMonotone
  <2>2. /\ Before(n, m, i) = (i - 1) * q + (IF i - 1 < r THEN i - 1 ELSE r)
        /\ Before(n, m, j) = (j - 1) * q + (IF j - 1 < r THEN j - 1 ELSE r)
    BY <1>2
  <2>3. QED
    BY <1>1, <1>6, <2>1, <2>2
<1>7. QED
  BY <1>3, <1>4, <1>5, <1>6

LEMMA SmallestOfSet ==
  ASSUME NEW R \in SUBSET Nat, R # {}
  PROVE  \E i \in R : \A j \in R : i <= j
<1> DEFINE Less == {p \in Nat \X Nat : p[1] < p[2]}
<1>1. Less = OpToRel(<, Nat)
  BY DEF OpToRel
<1>2. IsWellFoundedOn(Less, Nat)
  BY <1>1, NatLessThanWellFounded
<1> HIDE DEF Less
<1>3. PICK i \in R : \A j \in R : <<j, i>> \notin Less
  BY <1>2, WFMin
<1>4. ASSUME NEW j \in R PROVE i <= j
  <2>1. i \in Nat /\ j \in Nat /\ <<j, i>> \notin Less
    BY <1>3
  <2>2. ~ <<j, i>>[1] < <<j, i>>[2]
    BY <2>1 DEF Less
  <2>3. QED
    BY <2>1, <2>2
<1>5. QED
  BY <1>4

\* Every one of the n terms is in one share.
LEMMA ShareOfTerm ==
  ASSUME NEW n \in Nat, NEW m \in Nat \ {0}, NEW k \in 1..n
  PROVE  /\ \E i \in 1..m : k \in Before(n, m, i) + 1 .. Before(n, m, i) + Share(n, m, i)
         /\ \A i, j \in 1..m :
              /\ k \in Before(n, m, i) + 1 .. Before(n, m, i) + Share(n, m, i)
              /\ k \in Before(n, m, j) + 1 .. Before(n, m, j) + Share(n, m, j)
              => i = j
<1> DEFINE R == {i \in 1..m : k <= Before(n, m, i + 1)}
<1>1. m \in R
  BY ShareFollows
<1>2. PICK i \in R : \A j \in R : i <= j
  <2>1. R \in SUBSET Nat /\ R # {}
    BY <1>1
  <2>2. QED
    BY <2>1, SmallestOfSet
<1>3. k > Before(n, m, i)
  <2>1. CASE i = 1
    BY <2>1, ShareFollows
  <2>2. CASE i # 1
    <3>1. i - 1 \in 1..m /\ i - 1 \notin R
      BY <1>2, <2>2
    <3>2. QED
      BY <3>1, ShareFollows
  <2>3. QED
    BY <2>1, <2>2
<1>4. k \in Before(n, m, i) + 1 .. Before(n, m, i) + Share(n, m, i)
  BY <1>2, <1>3, ShareFollows
<1>5. ASSUME NEW a \in 1..m, NEW c \in 1..m, a < c,
             k \in Before(n, m, a) + 1 .. Before(n, m, a) + Share(n, m, a),
             k \in Before(n, m, c) + 1 .. Before(n, m, c) + Share(n, m, c)
      PROVE  FALSE
  <2>1. Before(n, m, a + 1) <= Before(n, m, c)
    <3>1. a + 1 \in 1..m+1 /\ c \in 1..m+1 /\ a + 1 <= c
      BY <1>5
    <3>2. QED
      BY <3>1, ShareFollows
  <2>2. /\ Share(n, m, a) \in Nat /\ Before(n, m, a) \in Nat /\ Before(n, m, c) \in Nat
        /\ Before(n, m, a + 1) = Before(n, m, a) + Share(n, m, a)
    BY ShareFollows
  <2>3. QED
    BY <1>5, <2>1, <2>2
<1>6. QED
  BY <1>4, <1>5

LEMMA InjectiveIsOnto ==
  ASSUME NEW F, IsFiniteSet(F), NEW f \in [F -> 1..Cardinality(F)],
         \A a, b \in F : f[a] = f[b] => a = b
  PROVE  \A i \in 1..Cardinality(F) : \E b \in F : f[b] = i
<1> DEFINE n == Cardinality(F)
<1>0. n \in Nat
  BY FS_CardinalityType
<1>1. IsFiniteSet(1..n) /\ Cardinality(1..n) = n
  BY <1>0, FS_Interval
<1>2. ASSUME NEW i \in 1..n, \A b \in F : f[b] # i PROVE FALSE
  <2> DEFINE T == (1..n) \ {i}
  <2>1. IsFiniteSet(T) /\ Cardinality(T) < Cardinality(F)
    <3>1. IsFiniteSet(T) /\ Cardinality(T) = n - 1
      BY <1>1, FS_RemoveElement
    <3>2. QED
      BY <1>0, <3>1
  <2>2. f \in [F -> T]
    BY <1>2
  <2> HIDE DEF T
  <2>3. \E a, b \in F : a # b /\ f[a] = f[b]
    BY <2>1, <2>2, FS_PigeonHole
  <2>4. QED
    BY <2>3
<1>3. QED
  BY <1>2

\* The ranks of the members of a finite set of numbers F are 1 .. Cardinality(F).
LEMMA RanksAreNumbers ==
  ASSUME NEW F \in SUBSET Int, IsFiniteSet(F), NEW rank,
         rank = [b \in F |-> Cardinality({c \in F : c <= b})]
  PROVE  /\ \A b \in F : rank[b] \in 1..Cardinality(F)
         /\ \A a, b \in F : rank[a] = rank[b] => a = b
         /\ \A i \in 1..Cardinality(F) : \E b \in F : rank[b] = i
<1> DEFINE UpTo(b) == {c \in F : c <= b}
<1>1. Cardinality(F) \in Nat
  BY FS_CardinalityType
<1>2. ASSUME NEW b \in F PROVE IsFiniteSet(UpTo(b)) /\ rank[b] = Cardinality(UpTo(b))
                               /\ rank[b] \in 1..Cardinality(F)
  <2>1. IsFiniteSet(UpTo(b)) /\ Cardinality(UpTo(b)) <= Cardinality(F)
    BY FS_Subset
  <2>2. Cardinality(UpTo(b)) \in Nat /\ Cardinality(UpTo(b)) # 0
    <3>1. b \in UpTo(b)
      OBVIOUS
    <3>2. QED
      BY <2>1, <3>1, FS_CardinalityType, FS_EmptySet
  <2>3. QED
    BY <1>1, <2>1, <2>2
<1>3. ASSUME NEW a \in F, NEW b \in F, a < b PROVE rank[a] < rank[b]
  <2>1. b \notin UpTo(a) /\ UpTo(a) \cup {b} \subseteq UpTo(b)
    <3>1. a \in Int /\ b \in Int /\ \A c \in F : c \in Int
      OBVIOUS
    <3>2. b \notin UpTo(a)
      BY <1>3, <3>1
    <3>3. ASSUME NEW c \in UpTo(a) \cup {b} PROVE c \in UpTo(b)
      BY <1>3, <3>1, <3>3
    <3>4. QED
      BY <3>2, <3>3
  <2>2. Cardinality(UpTo(a) \cup {b}) = Cardinality(UpTo(a)) + 1
    BY <1>2, <2>1, FS_AddElement
  <2>3. Cardinality(UpTo(a) \cup {b}) <= Cardinality(UpTo(b))
    BY <1>2, <2>1, FS_Subset
  <2>4. QED
    BY <1>2, <2>2, <2>3, FS_CardinalityType
<1>4. ASSUME NEW a \in F, NEW b \in F, rank[a] = rank[b] PROVE a = b
  BY <1>2, <1>3, <1>4
<1>5. rank \in [F -> 1..Cardinality(F)]
  BY <1>2
<1>6. \A i \in 1..Cardinality(F) : \E b \in F : rank[b] = i
  <2>1. \A a, b \in F : rank[a] = rank[b] => a = b
    BY <1>4
  <2>2. QED
    BY <1>1, <1>5, <2>1, InjectiveIsOnto, Zenon
<1>7. QED
  BY <1>2, <1>4, <1>6

\* So the shares of the free buckets are those of ShareFollows and ShareOfTerm.
LEMMA FreeBucketsRanked ==
  ASSUME IInv, mpc = "share"
  PROVE  LET F == scan.freebuckets
             m == Cardinality(scan.freebuckets) IN
         /\ m \in Nat \ {0} /\ scan.numtogo \in Nat \ {0}
         /\ \A b \in F : Rank(b) \in 1..m
         /\ \A a, b \in F : Rank(a) = Rank(b) => a = b
         /\ \A i \in 1..m : \E b \in F : Rank(b) = i
<1> DEFINE F == scan.freebuckets
<1> DEFINE rank == [b \in F |-> Rank(b)]
<1>1. F \subseteq threadbuckets /\ F # {} /\ scan.numtogo \in 0..BucketSize /\ scan.numtogo > 0
  BY DEF IInv, Types, ScanInStep, Scans
<1>2. IsFiniteSet(F)
  <2>1. numthreadbuckets \in Nat
    BY SizesAssumption DEF numthreadbuckets
  <2>2. IsFiniteSet(threadbuckets)
    BY <2>1, FS_Interval DEF threadbuckets
  <2>3. QED
    BY <1>1, <2>2, FS_Subset
<1>3. F \in SUBSET Int
  BY <1>1 DEF threadbuckets
<1>4. rank = [b \in F |-> Cardinality({c \in F : c <= b})]
  BY DEF Rank
<1>5. Cardinality(F) \in Nat \ {0}
  BY <1>1, <1>2, FS_CardinalityType, FS_EmptySet
<1>6. /\ \A b \in F : rank[b] \in 1..Cardinality(F)
      /\ \A a, b \in F : rank[a] = rank[b] => a = b
      /\ \A i \in 1..Cardinality(F) : \E b \in F : rank[b] = i
  <2> HIDE DEF rank, F
  <2>1. QED
    BY <1>2, <1>3, <1>4, RanksAreNumbers
<1>7. \A b \in F : rank[b] = Rank(b)
  OBVIOUS
<1>8. scan.numtogo \in Nat \ {0}
  BY <1>1, SizesAssumption
<1> HIDE DEF rank
<1>9. QED
  BY <1>5, <1>6, <1>7, <1>8

InShare(b, k) == k \in BeforeOf(b) + 1 .. BeforeOf(b) + ShareOf(b)

LEMMA SharesOfFreeBuckets ==
  ASSUME IInv, mpc = "share"
  PROVE  /\ \A b \in scan.freebuckets :
              /\ ShareOf(b) \in 0..scan.numtogo /\ BeforeOf(b) \in 0..scan.numtogo
              /\ BeforeOf(b) + ShareOf(b) <= scan.numtogo
         /\ \A k \in 1..scan.numtogo : \E b \in scan.freebuckets : InShare(b, k)
         /\ \A k \in 1..scan.numtogo : \A a, b \in scan.freebuckets :
              InShare(a, k) /\ InShare(b, k) => a = b
<1> DEFINE F == scan.freebuckets
           m == Cardinality(scan.freebuckets)
           n == scan.numtogo
<1>1. /\ m \in Nat \ {0} /\ n \in Nat \ {0}
      /\ \A b \in F : Rank(b) \in 1..m
      /\ \A a, b \in F : Rank(a) = Rank(b) => a = b
      /\ \A i \in 1..m : \E b \in F : Rank(b) = i
  BY FreeBucketsRanked
<1>2. \A b \in F : ShareOf(b) = Share(n, m, Rank(b)) /\ BeforeOf(b) = Before(n, m, Rank(b))
  BY DEF ShareOf, BeforeOf
<1> HIDE DEF F, m, n
<1>3. ASSUME NEW b \in F
      PROVE  /\ ShareOf(b) \in 0..n /\ BeforeOf(b) \in 0..n
             /\ BeforeOf(b) + ShareOf(b) <= n
  <2> DEFINE i == Rank(b)
  <2>1. i \in 1..m /\ i + 1 \in 1..m+1 /\ i + 1 <= m + 1 /\ m + 1 \in 1..m+1
    BY <1>1
  <2>2. /\ ShareOf(b) = Share(n, m, i) /\ BeforeOf(b) = Before(n, m, i)
    BY <1>2
  <2> HIDE DEF i
  <2>3. /\ Share(n, m, i) \in Nat /\ Before(n, m, i) \in Nat
        /\ Before(n, m, i + 1) = Before(n, m, i) + Share(n, m, i)
        /\ Before(n, m, m + 1) = n
    BY <1>1, <2>1, ShareFollows
  <2>4. Before(n, m, i + 1) <= Before(n, m, m + 1)
    BY <1>1, <2>1, ShareFollows
  <2>5. QED
    BY <1>1, <2>2, <2>3, <2>4
<1>4. ASSUME NEW k \in 1..n PROVE \E b \in F : InShare(b, k)
  <2>1. PICK i \in 1..m : k \in Before(n, m, i) + 1 .. Before(n, m, i) + Share(n, m, i)
    BY <1>1, ShareOfTerm
  <2>2. PICK b \in F : Rank(b) = i
    BY <1>1
  <2>3. InShare(b, k)
    BY <1>2, <2>1, <2>2 DEF InShare
  <2>4. QED
    BY <2>3
<1>5. ASSUME NEW k \in 1..n, NEW a \in F, NEW b \in F, InShare(a, k), InShare(b, k)
      PROVE  a = b
  <2>1. k \in Before(n, m, Rank(a)) + 1 .. Before(n, m, Rank(a)) + Share(n, m, Rank(a))
    BY <1>2, <1>5 DEF InShare
  <2>2. k \in Before(n, m, Rank(b)) + 1 .. Before(n, m, Rank(b)) + Share(n, m, Rank(b))
    BY <1>2, <1>5 DEF InShare
  <2>3. Rank(a) \in 1..m /\ Rank(b) \in 1..m
    BY <1>1
  <2>4. Rank(a) = Rank(b)
    BY <1>1, <2>1, <2>2, <2>3, ShareOfTerm
  <2>5. QED
    BY <1>1, <2>4
<1>6. QED
  BY <1>3, <1>4, <1>5 DEF F, n

\* What ShareOut does: a worker keeps the terms it has begun, and the others are in the
\* free buckets as their shares say.
LEMMA RobbedBucket ==
  ASSUME IInv, mpc = "share"
  PROVE  /\ thr \in threadbuckets /\ thr \notin scan.freebuckets
         /\ bucket[thr].usenum \in Nat /\ bucket[thr].terms \in Seq(Terms)
         /\ Size(thr) = bucket[thr].usenum + scan.numtogo
         /\ scan.numtogo \in 1..BucketSize /\ Free(thr) = "TERMINATED"
         /\ scan.freebuckets \subseteq threadbuckets
         /\ \E w \in Workers : wpc[w] = "generate" /\ threadbuck[w] = thr
<1>1. PICK w \in Workers : wpc[w] = "generate" /\ threadbuck[w] = thr
  BY DEF IInv, ScanInStep
<1>2. Reading(w) /\ Robbed(thr)
  BY <1>1 DEF Reading, Robbed
<1>3. thr \in threadbuckets /\ bucket[thr].totnum = Size(thr) /\ TermsLeft(thr) = scan.numtogo
  BY <1>1, <1>2, Reader DEF IInv, ScanInStep
<1>4. Free(thr) = "TERMINATED" /\ thr \notin scan.freebuckets
  BY DEF IInv, ScanInStep, Balancing
<1>5. scan.numtogo \in 1..BucketSize /\ scan.freebuckets \subseteq threadbuckets
  BY SizesAssumption DEF IInv, Types, ScanInStep, Scans
<1>6. QED
  BY <1>1, <1>3, <1>4, <1>5, BucketNumbers, SizesAssumption DEF TermsLeft

LEMMA PartOfSequence ==
  ASSUME NEW T, NEW s \in Seq(T), NEW m \in Nat, NEW n \in Nat, m + n <= Len(s)
  PROVE  /\ SubSeq(s, m + 1, m + n) \in Seq(T)
         /\ Len(SubSeq(s, m + 1, m + n)) = n
         /\ \A i \in 1..n : SubSeq(s, m + 1, m + n)[i] = s[m + i]
<1>1. \A i \in m + 1 .. m + n : s[i] \in T
  OBVIOUS
<1>2. m + 1 \in Int /\ m + n \in Int
  OBVIOUS
<1> DEFINE a == m + 1
           b == m + n
<1> HIDE DEF a, b
<1>3. /\ SubSeq(s, a, b) \in Seq(T)
      /\ Len(SubSeq(s, a, b)) = IF a <= b THEN b - a + 1 ELSE 0
      /\ \A i \in 1 .. b - a + 1 : SubSeq(s, a, b)[i] = s[a + i - 1]
  <2>1. a \in Int /\ b \in Int /\ \A i \in a..b : s[i] \in T
    BY <1>1, <1>2 DEF a, b
  <2>2. QED
    BY <2>1, SubSeqProperties
<1>4. QED
  BY <1>3 DEF a, b

LEMMA ShareOutDoes ==
  ASSUME IInv, ShareOut, NEW b \in threadbuckets
  PROVE  \/ /\ b \in scan.freebuckets /\ ShareOf(b) > 0
            /\ bucket'[b] = Refilled(b) /\ bucket'[b] \in Buckets /\ b # thr
            /\ Len(bucket'[b].terms) = ShareOf(b)
            /\ \A i \in 1..ShareOf(b) :
                 bucket'[b].terms[i] = bucket[thr].terms[bucket[thr].usenum + BeforeOf(b) + i]
         \/ /\ b = thr /\ b \notin scan.freebuckets
            /\ bucket'[b] = [bucket[b] EXCEPT !.terms = SubSeq(@, 1, bucket[b].usenum)]
            /\ bucket'[b] \in Buckets
            /\ Len(bucket'[b].terms) = bucket[b].usenum
            /\ \A i \in 1..bucket[b].usenum : bucket'[b].terms[i] = bucket[b].terms[i]
         \/ /\ b # thr /\ (b \in scan.freebuckets => ShareOf(b) = 0)
            /\ bucket'[b] = bucket[b]
<1> DEFINE u == bucket[thr].usenum
           ts == bucket[thr].terms
           n == scan.numtogo
<1>0. mpc = "share"
  BY DEF ShareOut
<1>1. /\ thr \in threadbuckets /\ thr \notin scan.freebuckets
      /\ u \in Nat /\ ts \in Seq(Terms) /\ Len(ts) = u + n /\ n \in 1..BucketSize
  BY <1>0, RobbedBucket DEF Size
<1>2. bucket'[b] = IF b \in scan.freebuckets /\ ShareOf(b) > 0 THEN Refilled(b)
                   ELSE IF b = thr
                   THEN [bucket[b] EXCEPT !.terms = SubSeq(@, 1, bucket[b].usenum)]
                   ELSE bucket[b]
  BY DEF ShareOut
<1>3. CASE b \in scan.freebuckets /\ ShareOf(b) > 0
  <2> DEFINE lo == BeforeOf(b)
             sh == ShareOf(b)
  <2>1. lo \in Nat /\ sh \in 1..BucketSize /\ lo + sh <= n
    BY <1>0, <1>1, <1>3, SharesOfFreeBuckets, SizesAssumption
  <2>2. Stolen(thr) = SubSeq(ts, u + 1, u + n)
    BY <1>1 DEF Stolen
  <2> HIDE DEF lo, sh, u, ts, n
  <2>3. /\ SubSeq(ts, u + 1, u + n) \in Seq(Terms)
        /\ Len(SubSeq(ts, u + 1, u + n)) = n
        /\ \A i \in 1..n : SubSeq(ts, u + 1, u + n)[i] = ts[u + i]
    BY <1>1, PartOfSequence
  <2> DEFINE st == SubSeq(ts, u + 1, u + n)
  <2> HIDE DEF st
  <2>4. /\ SubSeq(st, lo + 1, lo + sh) \in Seq(Terms)
        /\ Len(SubSeq(st, lo + 1, lo + sh)) = sh
        /\ \A i \in 1..sh : SubSeq(st, lo + 1, lo + sh)[i] = st[lo + i]
    <3>1. st \in Seq(Terms) /\ Len(st) = n
      BY <2>3 DEF st
    <3>2. lo \in Nat /\ sh \in Nat /\ lo + sh <= Len(st)
      BY <2>1, <3>1, SizesAssumption
    <3>3. QED
      BY <3>1, <3>2, PartOfSequence
  <2>5. Refilled(b) = [free |-> "FILLED", busy |-> "ASSIGNED", totnum |-> sh, usenum |-> 0,
                       terms |-> SubSeq(st, lo + 1, lo + sh)]
    BY <2>2 DEF Refilled, sh, lo, st
  <2>6. Refilled(b) \in Buckets
    BY <2>1, <2>4, <2>5, SizesAssumption DEF Buckets, FreeStates, BusyStates
  <2>7. \A i \in 1..sh : st[lo + i] = ts[u + lo + i]
    <3>1. ASSUME NEW i \in 1..sh PROVE lo + i \in 1..n /\ u + (lo + i) = u + lo + i
      BY <1>1, <2>1
    <3>2. QED
      BY <2>3, <3>1 DEF st
  <2>8. bucket'[b] = Refilled(b) /\ b # thr
    BY <1>1, <1>2, <1>3
  <2>9. Len(bucket'[b].terms) = sh /\ \A i \in 1..sh : bucket'[b].terms[i] = ts[u + lo + i]
    BY <2>4, <2>5, <2>7, <2>8
  <2>10. QED
    BY <1>3, <2>6, <2>8, <2>9 DEF u, ts, lo, sh
<1>4. CASE b = thr
  <2>1. bucket'[b] = [bucket[b] EXCEPT !.terms = SubSeq(@, 1, bucket[b].usenum)]
    BY <1>1, <1>2, <1>4
  <2>2. bucket[b] \in Buckets /\ bucket[b].terms = ts /\ bucket[b].usenum = u
    BY <1>4 DEF IInv, Types
  <2> HIDE DEF u, ts, n
  <2>3. /\ SubSeq(ts, 1, u) \in Seq(Terms) /\ Len(SubSeq(ts, 1, u)) = u
        /\ \A i \in 1..u : SubSeq(ts, 1, u)[i] = ts[i]
    <3>1. 0 + 1 = 1 /\ 0 + u = u /\ 0 + u <= Len(ts) /\ \A i \in Nat : 0 + i = i
      BY <1>1
    <3>2. /\ SubSeq(ts, 0 + 1, 0 + u) \in Seq(Terms) /\ Len(SubSeq(ts, 0 + 1, 0 + u)) = u
          /\ \A i \in 1..u : SubSeq(ts, 0 + 1, 0 + u)[i] = ts[0 + i]
      BY <1>1, <3>1, PartOfSequence
    <3>3. QED
      BY <3>1, <3>2
  <2>4. bucket'[b] = [bucket[b] EXCEPT !.terms = SubSeq(ts, 1, u)]
    BY <2>1, <2>2
  <2>5. bucket'[b] \in Buckets /\ bucket'[b].terms = SubSeq(ts, 1, u)
    BY <2>2, <2>3, <2>4, FieldSet DEF Buckets
  <2>6. QED
    BY <1>1, <1>4, <2>1, <2>2, <2>3, <2>5
<1>5. CASE b # thr /\ ~(b \in scan.freebuckets /\ ShareOf(b) > 0)
  <2>1. b \in scan.freebuckets => ShareOf(b) = 0
    BY <1>0, <1>1, <1>5, SharesOfFreeBuckets
  <2>2. QED
    BY <1>2, <1>5, <2>1
<1>6. QED
  BY <1>3, <1>4, <1>5

-----------------------------------------------------------------------------
(* The types are kept by the master *)

\* What Send does to the bucket, which is filled.
LEMMA SendDoes ==
  ASSUME IInv, NEW b \in threadbuckets, Send(b)
  PROVE  /\ bucket' \in [threadbuckets -> Buckets]
         /\ bucket'[b] = [bucket[b] EXCEPT !.busy = "ASSIGNED", !.free = "INUSE"]
         /\ bucket'[b].free = "INUSE" /\ bucket'[b].busy = "ASSIGNED"
         /\ bucket'[b].totnum = bucket[b].totnum /\ bucket'[b].usenum = bucket[b].usenum
         /\ bucket'[b].terms = bucket[b].terms
         /\ \A c \in threadbuckets \ {b} : bucket'[c] = bucket[c]
         /\ \E w \in Workers :
              /\ w \in available /\ wpc[w] = "idle" /\ ttin[w] = 0
              /\ available' = available \ {w}
              /\ threadbuck' = [threadbuck EXCEPT ![w] = b]
              /\ wpc' = [wpc EXCEPT ![w] = "start"]
         /\ available' \subseteq Workers
         /\ wpc' \in [Workers -> WorkerStates]
         /\ threadbuck' \in [Workers -> threadbuckets \cup {0}]
         /\ UNCHANGED <<lock, ttin, executed, inputvars, scan>>
<1>1. bucket[b] \in Buckets
  BY DEF IInv, Types
<1>2. [[bucket[b] EXCEPT !.busy = "ASSIGNED"] EXCEPT !.free = "INUSE"] \in Buckets
  BY <1>1, FieldSet DEF FreeStates, BusyStates
<1>3. bucket' = [bucket EXCEPT ![b] = [bucket[b] EXCEPT !.busy = "ASSIGNED", !.free = "INUSE"]]
  BY DEF Send, IInv, Types
<1>4. bucket' \in [threadbuckets -> Buckets]
  BY <1>1, <1>2, <1>3, BucketSet DEF IInv
<1>5. PICK w \in available : /\ available' = available \ {w}
                             /\ threadbuck' = [threadbuck EXCEPT ![w] = b]
                             /\ wpc' = [wpc EXCEPT ![w] = "start"]
  BY DEF Send
<1>6. w \in Workers /\ wpc[w] = "idle" /\ ttin[w] = 0
  BY DEF IInv, Types, WorkerHasBucket
<1>7. available' \subseteq Workers /\ wpc' \in [Workers -> WorkerStates]
      /\ threadbuck' \in [Workers -> threadbuckets \cup {0}]
  BY <1>5, <1>6 DEF IInv, Types, WorkerStates
<1>8. /\ bucket'[b] = [bucket[b] EXCEPT !.busy = "ASSIGNED", !.free = "INUSE"]
      /\ \A c \in threadbuckets \ {b} : bucket'[c] = bucket[c]
  BY <1>3 DEF IInv, Types
<1>9. UNCHANGED <<lock, ttin, executed, inputvars, scan>>
  BY DEF Send
<1>10. /\ bucket'[b].free = "INUSE" /\ bucket'[b].busy = "ASSIGNED"
       /\ bucket'[b].totnum = bucket[b].totnum /\ bucket'[b].usenum = bucket[b].usenum
       /\ bucket'[b].terms = bucket[b].terms
  BY <1>1, <1>8 DEF Buckets
<1>11. QED
  BY <1>4, <1>5, <1>6, <1>7, <1>8, <1>9, <1>10

\* What FindBucket does to a bucket when the input is at its end.
LEMMA AtEndSet ==
  ASSUME Types
  PROVE  [b \in threadbuckets |->
            IF Ready(b) THEN [bucket[b] EXCEPT !.free = "ATEND"] ELSE bucket[b]]
           \in [threadbuckets -> Buckets]
<1>1. ASSUME NEW b \in threadbuckets
      PROVE  bucket[b] \in Buckets /\ [bucket[b] EXCEPT !.free = "ATEND"] \in Buckets
  <2>1. bucket[b] \in Buckets /\ "ATEND" \in FreeStates
    BY DEF Types, FreeStates
  <2>2. QED
    BY <2>1, FieldSet
<1>2. QED
  BY <1>1

LEMMA NumBuckets ==
  numthreadbuckets \in Nat /\ 1 \in threadbuckets
BY SizesAssumption DEF numthreadbuckets, threadbuckets

LEMMA ScanTypes ==
  ASSUME Types
  PROVE  /\ scan.j \in 1..numthreadbuckets+1 /\ scan.bus \in BusyStates \cup {"none"}
         /\ scan.freebuckets \subseteq threadbuckets
         /\ scan.thrtogo \in threadbuckets \cup {0} /\ scan.numtogo \in 0..BucketSize
         /\ scan.numbusy \in Nat
         /\ NothingSeen \in Scans
BY NumBuckets, SizesAssumption DEF Types, NothingSeen, Scans

LEMMA ScanFieldSet ==
  ASSUME NEW s \in Scans
  PROVE  /\ \A x \in 1..numthreadbuckets+1 : [s EXCEPT !.j = x] \in Scans
         /\ \A x \in BusyStates : [s EXCEPT !.bus = x] \in Scans
         /\ \A x \in SUBSET threadbuckets : [s EXCEPT !.freebuckets = x] \in Scans
         /\ \A x \in threadbuckets : [s EXCEPT !.thrtogo = x] \in Scans
         /\ \A x \in 0..BucketSize : [s EXCEPT !.numtogo = x] \in Scans
         /\ \A x \in Nat : [s EXCEPT !.numbusy = x] \in Scans
BY DEF Scans

LEMMA TypesKeptByMaster ==
  ASSUME IInv, Master
  PROVE  Types'
<1> USE SizesAssumption DEF inputvars, workervars
<1>0. Types /\ bucket[thr] \in Buckets /\ thr \in threadbuckets
  BY DEF IInv, Types
<1>1. CASE SendOneBucket
  <2>1. PICK b \in threadbuckets : Send(b)
    BY <1>1 DEF SendOneBucket, InState
  <2>2. mpc' \in MasterStates /\ thr' = thr
    BY <1>1 DEF SendOneBucket, MasterStates, Filling
  <2>3. QED
    BY <1>0, <2>1, <2>2, SendDoes DEF Types
<1>2. CASE GetFirstTerm
  <2>1. nextterm <= NumTerms => <<nextterm>> \in Seq(Terms)
    BY <1>0 DEF Types, Terms
  <2>2. bucket' \in [threadbuckets -> Buckets]
    <3>1. CASE nextterm <= NumTerms
      <4>1. [bucket[thr] EXCEPT !.terms = <<nextterm>>] \in Buckets
        BY <1>0, <2>1, <3>1, FieldSet
      <4>2. bucket' = [bucket EXCEPT ![thr] = [bucket[thr] EXCEPT !.terms = <<nextterm>>]]
        BY <1>0, <1>2, <3>1 DEF GetFirstTerm, Types
      <4>3. QED
        BY <1>0, <4>1, <4>2, BucketSet
    <3>2. CASE nextterm > NumTerms
      BY <1>0, <1>2, <3>2 DEF GetFirstTerm, Types
    <3>3. QED
      BY <1>0, <3>1, <3>2 DEF Types
  <2>3. nextterm' \in 1..NumTerms+1 /\ mpc' \in MasterStates
    BY <1>0, <1>2 DEF GetFirstTerm, Types, MasterStates, Filling
  <2>4. QED
    BY <1>0, <1>2, <2>2, <2>3 DEF GetFirstTerm, Types
<1>3. CASE OpenBucket
  <2>1. [[bucket[thr] EXCEPT !.totnum = 1] EXCEPT !.usenum = 0] \in Buckets
    <3>1. 1 \in 0..BucketSize /\ 0 \in 0..BucketSize
      OBVIOUS
    <3>2. QED
      BY <1>0, <3>1, FieldSet
  <2>2. bucket' = [bucket EXCEPT ![thr] =
                     [[bucket[thr] EXCEPT !.totnum = 1] EXCEPT !.usenum = 0]]
    BY <1>0, <1>3 DEF OpenBucket, Types
  <2>3. bucket' \in [threadbuckets -> Buckets]
    BY <1>0, <2>1, <2>2, BucketSet
  <2>4. QED
    BY <1>0, <1>3, <2>3 DEF OpenBucket, Types, MasterStates, Filling
<1>4. CASE GetAnotherTerm
  <2>1. CASE nextterm > NumTerms
    BY <1>0, <1>4, <2>1 DEF GetAnotherTerm, Types, MasterStates, Filling
  <2>2. CASE nextterm <= NumTerms
    <3>1. Append(bucket[thr].terms, nextterm) \in Seq(Terms)
      <4>1. nextterm \in Terms
        BY <1>0, <2>2 DEF Types, Terms
      <4>2. QED
        BY <1>0, <4>1, BucketNumbers
    <3>2. bucket[thr].totnum + 1 \in 0..BucketSize
      <4>1. bucket[thr].totnum < BucketSize
        BY <1>4 DEF GetAnotherTerm, IInv, FillingInStep, RoomInBucket
      <4>2. QED
        BY <1>0, <4>1, BucketNumbers
    <3>3. [[bucket[thr] EXCEPT !.terms = Append(bucket[thr].terms, nextterm)]
             EXCEPT !.totnum = bucket[thr].totnum + 1] \in Buckets
      BY <1>0, <3>1, <3>2, FieldSet
    <3>4. bucket' = [bucket EXCEPT ![thr] =
            [[bucket[thr] EXCEPT !.terms = Append(bucket[thr].terms, nextterm)]
             EXCEPT !.totnum = bucket[thr].totnum + 1]]
      <4> DEFINE x == Append(bucket[thr].terms, nextterm)
                 y == bucket[thr].totnum + 1
      <4>1. bucket' = [bucket EXCEPT ![thr].terms = x, ![thr].totnum = y]
        <5>1. ~(nextterm > NumTerms)
          BY <1>0, <2>2 DEF Types
        <5>2. QED
          BY <1>4, <5>1 DEF GetAnotherTerm
      <4> HIDE DEF x, y
      <4>2. bucket' = [bucket EXCEPT ![thr] = [[bucket[thr] EXCEPT !.terms = x]
                                                 EXCEPT !.totnum = y]]
        BY <1>0, <4>1 DEF Types
      <4>3. QED
        BY <4>2 DEF x, y
    <3>5. bucket' \in [threadbuckets -> Buckets]
      BY <1>0, <3>3, <3>4, BucketSet
    <3>6. nextterm' \in 1..NumTerms+1 /\ mpc' \in MasterStates
      BY <1>0, <1>4, <2>2 DEF GetAnotherTerm, Types, MasterStates, Filling
    <3>7. QED
      BY <1>0, <1>4, <3>5, <3>6 DEF GetAnotherTerm, Types
  <2>3. QED
    BY <1>0, <2>1, <2>2 DEF Types
<1>5. CASE StopFilling
  BY <1>0, <1>5 DEF StopFilling, Types, MasterStates, Filling
<1>6. CASE CloseBucket
  <2>1. bucket' \in [threadbuckets -> Buckets]
    <3>1. "FILLED" \in FreeStates
      BY DEF FreeStates
    <3>2. QED
      BY <1>0, <1>6, <3>1, FieldSet, BucketSet DEF CloseBucket
  <2>2. mpc' \in MasterStates
    BY <1>6 DEF CloseBucket, MasterStates
  <2>3. QED
    BY <1>0, <1>6, <2>1, <2>2 DEF CloseBucket, Types
<1>7. CASE LoadAnother \/ FindBucket
  <2>1. /\ bucket' \in [threadbuckets -> Buckets] /\ thr' \in threadbuckets
        /\ mpc' \in MasterStates
    <3>1. ASSUME NEW b \in ReadyBuckets
          PROVE  [bucket EXCEPT ![b].free = "FREE"] \in [threadbuckets -> Buckets]
                 /\ b \in threadbuckets
      <4>1. bucket[b] \in Buckets /\ b \in threadbuckets /\ "FREE" \in FreeStates
        BY <1>0 DEF ReadyBuckets, Types, FreeStates
      <4>2. QED
        BY <1>0, <4>1, FieldSet, BucketSet
    <3>2. bucket \in [threadbuckets -> Buckets]
      BY <1>0 DEF Types
    <3>3. CASE LoadAnother
      BY <1>0, <3>1, <3>2, <3>3 DEF LoadAnother, MasterStates
    <3>4. CASE FindBucket
      BY <1>0, <3>1, <3>2, <3>4, AtEndSet DEF FindBucket, MasterStates
    <3>5. QED
      BY <1>7, <3>3, <3>4
  <2>2. QED
    BY <1>0, <1>7, <2>1 DEF LoadAnother, FindBucket, Types
<1>8. CASE PickBucket
  BY <1>0, <1>8 DEF PickBucket, InState, Types, MasterStates
<1>9. CASE DoBucket
  <2>1. mpc' \in MasterStates /\ thr' = thr /\ Send(thr)
    BY <1>9 DEF DoBucket, MasterStates
  <2>3. QED
    BY <1>0, <2>1, SendDoes DEF Types
<1>10. CASE AfterSend
  BY <1>0, <1>10 DEF AfterSend, Types, MasterStates
<1>11. CASE StartScan
  BY <1>0, <1>11, ScanTypes DEF StartScan, Types, MasterStates, Balancing
<1>12. CASE ScanBucket
  <2>1. scan.j + 1 \in 1..numthreadbuckets+1 /\ scan.j \in threadbuckets
    BY <1>0, <1>12, ScanTypes, NumBuckets DEF ScanBucket, threadbuckets
  <2>2. bucket[scan.j].busy \in BusyStates
    BY <1>0, <2>1 DEF Types, Buckets
  <2>3. scan' \in Scans
    <3>1. /\ scan \in Scans /\ scan.freebuckets \cup {scan.j} \in SUBSET threadbuckets
          /\ [scan EXCEPT !.j = scan.j + 1] \in Scans
          /\ [scan EXCEPT !.bus = bucket[scan.j].busy] \in Scans
      BY <1>0, <2>1, <2>2, ScanTypes, ScanFieldSet DEF Types
    <3>2. [[scan EXCEPT !.j = scan.j + 1] EXCEPT
             !.freebuckets = scan.freebuckets \cup {scan.j}] \in Scans
      BY <3>1, ScanFieldSet
    <3>3. QED
      BY <1>12, <3>1, <3>2 DEF ScanBucket
  <2>4. mpc' \in MasterStates
    BY <1>0, <1>12 DEF ScanBucket, Types, MasterStates, Balancing
  <2>5. QED
    BY <1>0, <1>12, <2>3, <2>4 DEF ScanBucket, Types
<1>13. CASE WeighBucket
  <2>1. scan.j + 1 \in 1..numthreadbuckets+1 /\ scan.j \in threadbuckets
    BY <1>0, <1>13, ScanTypes, NumBuckets DEF WeighBucket, threadbuckets, IInv, ScanInStep
  <2>2. bucket[scan.j].totnum - bucket[scan.j].usenum \in 0..BucketSize
    BY <2>1, BucketNumbers
  <2>3. scan' \in Scans
    <3> DEFINE seen == [scan EXCEPT !.j = scan.j + 1]
               n == bucket[scan.j].totnum - bucket[scan.j].usenum
    <3>1. seen \in Scans /\ seen.numbusy = scan.numbusy /\ seen.freebuckets = scan.freebuckets
      BY <1>0, <2>1, ScanFieldSet DEF Types, Scans
    <3> HIDE DEF seen
    <3>2. /\ scan.numbusy + 1 \in Nat /\ n \in 0..BucketSize
          /\ scan.freebuckets \cup {scan.j} \in SUBSET threadbuckets
      BY <1>0, <2>1, <2>2, ScanTypes
    <3> HIDE DEF n
    <3>3. /\ [seen EXCEPT !.numbusy = scan.numbusy + 1] \in Scans
          /\ [seen EXCEPT !.numtogo = n] \in Scans
          /\ [seen EXCEPT !.freebuckets = scan.freebuckets \cup {scan.j}] \in Scans
      BY <3>1, <3>2, ScanFieldSet
    <3>4. [[seen EXCEPT !.numtogo = n] EXCEPT !.thrtogo = scan.j] \in Scans
      BY <2>1, <3>3, ScanFieldSet
    <3>5. scan' \in {seen, [seen EXCEPT !.numbusy = seen.numbusy + 1],
                     [[seen EXCEPT !.numtogo = n] EXCEPT !.thrtogo = scan.j],
                     [seen EXCEPT !.freebuckets = seen.freebuckets \cup {scan.j}]}
      BY <1>13 DEF WeighBucket, seen, n
    <3>6. QED
      BY <3>1, <3>3, <3>4, <3>5
  <2>4. bucket' \in [threadbuckets -> Buckets]
    <3>1. bucket[scan.j] \in Buckets
      BY <1>0, <2>1 DEF Types
    <3>2. [[bucket[scan.j] EXCEPT !.free = "ATEND"] EXCEPT !.busy = "PREPARINGTERM"]
            \in Buckets
      BY <3>1, FieldSet DEF FreeStates, BusyStates
    <3>3. [bucket EXCEPT ![scan.j] =
             [[bucket[scan.j] EXCEPT !.free = "ATEND"] EXCEPT !.busy = "PREPARINGTERM"]]
            \in [threadbuckets -> Buckets]
      BY <1>0, <2>1, <3>2, BucketSet
    <3>4. \/ bucket' = bucket
          \/ bucket' = [bucket EXCEPT ![scan.j] =
             [[bucket[scan.j] EXCEPT !.free = "ATEND"] EXCEPT !.busy = "PREPARINGTERM"]]
      BY <1>0, <1>13, <2>1 DEF WeighBucket, Types
    <3>5. QED
      BY <1>0, <3>3, <3>4 DEF Types
  <2>5. mpc' \in MasterStates
    BY <1>13 DEF WeighBucket, MasterStates, Balancing
  <2>6. QED
    BY <1>0, <1>13, <2>3, <2>4, <2>5 DEF WeighBucket, Types
<1>14. CASE Decide
  <2>1. thr' \in threadbuckets /\ mpc' \in MasterStates
    BY <1>0, <1>14 DEF Decide, IInv, ScanInStep, Balancing, MasterStates
  <2>2. QED
    BY <1>0, <1>14, <2>1, ScanTypes DEF Decide, Types
<1>15. CASE Steal
  <2>1. bucket' \in [threadbuckets -> Buckets]
    <3>1. "TERMINATED" \in FreeStates
      BY DEF FreeStates
    <3>2. [bucket EXCEPT ![thr].free = "TERMINATED"] \in [threadbuckets -> Buckets]
      BY <1>0, <3>1, FieldSet, BucketSet
    <3>3. QED
      BY <1>0, <1>15, <3>2 DEF Steal, Types
  <2>2. QED
    BY <1>0, <1>15, <2>1, ScanTypes DEF Steal, LeaveLock, Types, MasterStates, Balancing
<1>16. CASE ShareOut
  <2>1. \A b \in threadbuckets : bucket'[b] \in Buckets
    <3>1. ASSUME NEW b \in threadbuckets PROVE bucket'[b] \in Buckets
      <4>1. bucket[b] \in Buckets
        BY <1>0 DEF Types
      <4>2. QED
        BY <1>16, <4>1, ShareOutDoes
    <3>2. QED
      BY <3>1
  <2>2. bucket' = [b \in threadbuckets |-> bucket'[b]]
    BY <1>16 DEF ShareOut
  <2>3. bucket' \in [threadbuckets -> Buckets]
    BY <2>1, <2>2
  <2>4. QED
    BY <1>0, <1>16, <2>3, ScanTypes DEF ShareOut, Types, MasterStates
<1>17. CASE MasterWaitAll
  BY <1>0, <1>17 DEF MasterWaitAll, Types, MasterStates
<1>18. QED
  BY <1>1, <1>2, <1>3, <1>4, <1>5, <1>6, <1>7, <1>8, <1>9, <1>10, <1>11, <1>12, <1>13,
     <1>14, <1>15, <1>16, <1>17 DEF Master

-----------------------------------------------------------------------------
(* What a step of a worker does, read off the invariant.  Field by field: the *)
(* terms and totnum of its bucket stay, and so does everything of the others. *)
OthersStay(w) ==
  /\ UNCHANGED <<mpc, thr, scan, lock, inputvars>>
  /\ \A v \in Workers \ {w} : /\ wpc'[v] = wpc[v] /\ threadbuck'[v] = threadbuck[v]
                              /\ ttin'[v] = ttin[v]
                              /\ v \in available' <=> v \in available
  /\ \A c \in threadbuckets \ {threadbuck[w]} : bucket'[c] = bucket[c]
  /\ bucket'[threadbuck[w]].terms = bucket[threadbuck[w]].terms
  /\ bucket'[threadbuck[w]].totnum = bucket[threadbuck[w]].totnum

\* The bucket's free, busy and usenum and the worker's place, before and after.
Becomes(w, free, busy, usenum) ==
  /\ bucket'[threadbuck[w]].free = free /\ bucket'[threadbuck[w]].busy = busy
  /\ bucket'[threadbuck[w]].usenum = usenum
Goes(w, from, to) ==
  /\ wpc[w] = from /\ wpc'[w] = to
  /\ Reading(w) /\ threadbuck'[w] = threadbuck[w] /\ available' = available

WorkerStep(w) ==
  LET B == bucket[threadbuck[w]] IN
  \/ /\ wpc[w] \in {"start", "copy"} /\ Goes(w, wpc[w], "check")
     /\ ttin'[w] = ttin[w] + 1 /\ executed' = executed
     /\ Becomes(w, B.free, B.busy, B.usenum + 1) /\ B.free = "INUSE"
  \/ /\ Goes(w, "check", "take") /\ ttin'[w] = ttin[w] /\ executed' = executed
     /\ Becomes(w, B.free, B.busy, B.usenum) /\ B.free = "INUSE"
  \/ /\ Goes(w, "take", "generate") /\ ttin'[w] = ttin[w] /\ executed' = executed
     /\ Becomes(w, B.free, "DOINGTERM", B.usenum) /\ B.free = "INUSE"
     /\ lock # threadbuck[w]
  \/ /\ Goes(w, "generate", "checkagain") /\ ttin'[w] = ttin[w]
     /\ executed' = [executed EXCEPT ![B.terms[ttin[w]]] = @ + 1]
     /\ Becomes(w, B.free, "PREPARINGTERM", B.usenum) /\ lock # threadbuck[w]
  \/ /\ Goes(w, "checkagain", "more") /\ ttin'[w] = ttin[w] /\ executed' = executed
     /\ Becomes(w, B.free, B.busy, B.usenum) /\ B.free = "INUSE"
  \/ /\ Goes(w, "checkagain", "release") /\ ttin'[w] = ttin[w] /\ executed' = executed
     /\ Becomes(w, "RELEASED", B.busy, B.usenum) /\ B.free = "TERMINATED"
  \/ /\ Goes(w, "more", "copy") /\ ttin'[w] = ttin[w] /\ executed' = executed
     /\ Becomes(w, B.free, B.busy, B.usenum) /\ B.free = "INUSE"
     /\ ttin[w] < Size(threadbuck[w])
  \/ /\ Goes(w, "more", "release") /\ ttin'[w] = ttin[w] /\ executed' = executed
     /\ Becomes(w, "COMINGFREE", B.busy, B.usenum) /\ B.free = "INUSE"
     /\ ttin[w] = Size(threadbuck[w])
  \/ /\ wpc[w] = "release" /\ wpc'[w] = "idle" /\ threadbuck'[w] = 0 /\ ttin'[w] = 0
     /\ Becomes(w, B.free, "TOBERELEASED", B.usenum) /\ lock # threadbuck[w]
     /\ w \in available' /\ executed' = executed

LEMMA WorkerSteps ==
  ASSUME IInv, NEW w \in Workers, Worker(w)
  PROVE  OthersStay(w) /\ WorkerStep(w) /\ threadbuck[w] \in threadbuckets /\ wpc[w] # "idle"
<1> DEFINE b == threadbuck[w]
           B == bucket[threadbuck[w]]
<1> USE DEF workervars
<1>1. /\ b \in threadbuckets /\ B \in Buckets /\ wpc[w] # "idle"
      /\ bucket \in [threadbuckets -> Buckets] /\ wpc \in [Workers -> WorkerStates]
      /\ ttin \in [Workers -> 0..BucketSize]
      /\ threadbuck \in [Workers -> threadbuckets \cup {0}]
  BY WorkersAreBusy, HasBucket DEF IInv, Types
<1>2. ASSUME NEW x \in FreeStates, NEW y \in BusyStates, NEW u \in 0..BucketSize,
             \/ bucket' = [bucket EXCEPT ![b].free = x] /\ y = B.busy /\ u = B.usenum
             \/ bucket' = [bucket EXCEPT ![b].busy = y] /\ x = B.free /\ u = B.usenum
             \/ bucket' = [bucket EXCEPT ![b].usenum = u] /\ x = B.free /\ y = B.busy
             \/ bucket' = bucket /\ x = B.free /\ y = B.busy /\ u = B.usenum
      PROVE  /\ \A c \in threadbuckets \ {b} : bucket'[c] = bucket[c]
             /\ bucket'[b].terms = B.terms /\ bucket'[b].totnum = B.totnum
             /\ Becomes(w, x, y, u)
  BY <1>1, <1>2 DEF Becomes, Buckets
<1>3. /\ B.free \in FreeStates /\ B.busy \in BusyStates /\ B.usenum \in 0..BucketSize
      /\ ttin[w] \in 0..BucketSize
  BY <1>1 DEF Buckets
<1>4. Reading(w) => /\ B.usenum = ttin[w] /\ B.free \in {"INUSE", "TERMINATED"}
                    /\ B.free = "TERMINATED" => wpc[w] \in {"generate", "checkagain"}
                    /\ B.free = "TERMINATED" => B.usenum # B.totnum
                    /\ ttin[w] \in 0..Size(b)
                    /\ wpc[w] \in {"start", "copy"} => ttin[w] + 1 \in 0..BucketSize
                    /\ wpc[w] = "start" => ttin[w] = 0
  <2> SUFFICES ASSUME Reading(w) PROVE
                    /\ B.usenum = ttin[w] /\ B.free \in {"INUSE", "TERMINATED"}
                    /\ B.free = "TERMINATED" => wpc[w] \in {"generate", "checkagain"}
                    /\ B.free = "TERMINATED" => B.usenum # B.totnum
                    /\ ttin[w] \in 0..Size(b)
                    /\ wpc[w] \in {"start", "copy"} => ttin[w] + 1 \in 0..BucketSize
                    /\ wpc[w] = "start" => ttin[w] = 0
    OBVIOUS
  <2>1. Size(b) \in 0..BucketSize /\ B.totnum \in 0..BucketSize
    BY <1>1, BucketNumbers
  <2> HIDE DEF b
  <2>2. /\ B.free \in {"INUSE", "TERMINATED"} /\ B.usenum = ttin[w] /\ ttin[w] \in 0..Size(b)
        /\ wpc[w] = "start" => ttin[w] = 0
        /\ wpc[w] \in {"start", "copy"} => ttin[w] < Size(b)
        /\ B.free = "TERMINATED" => wpc[w] \in {"generate", "checkagain"} /\ ttin[w] < B.totnum
    BY Reader DEF Free, b
  <2>3. QED
    BY <1>3, <2>1, <2>2, SizesAssumption
<1> HIDE DEF b, B
<1>5. CASE CopyTerm(w)
  <2>1. Reading(w) /\ wpc[w] \in {"start", "copy"} /\ B.free = "INUSE"
    BY <1>4, <1>5 DEF CopyTerm, Reading
  <2>2. bucket' = [bucket EXCEPT ![b].usenum = B.usenum + 1]
    <3>1. (IF wpc[w] = "start" THEN 1 ELSE B.usenum + 1) = B.usenum + 1
      BY <1>3, <1>4, <2>1
    <3>2. bucket' = [bucket EXCEPT ![b].usenum = IF wpc[w] = "start" THEN 1 ELSE B.usenum + 1]
      BY <1>5 DEF CopyTerm, b, B
    <3>3. QED
      BY <3>1, <3>2
  <2>3. B.usenum + 1 \in 0..BucketSize
    BY <1>4, <2>1
  <2>4. OthersStay(w)
    BY <1>1, <1>2, <1>3, <1>5, <2>2, <2>3 DEF CopyTerm, OthersStay, b, B
  <2>5. Becomes(w, B.free, B.busy, B.usenum + 1)
    BY <1>2, <1>3, <2>2, <2>3
  <2>6. Goes(w, wpc[w], "check") /\ ttin'[w] = ttin[w] + 1 /\ executed' = executed
    BY <1>1, <1>5, <2>1 DEF CopyTerm, Goes
  <2>7. QED
    BY <1>1, <2>1, <2>4, <2>5, <2>6 DEF WorkerStep, b, B
<1>6. CASE CheckBefore(w) \/ CheckAfter(w)
  <2>1. Reading(w) /\ wpc[w] \in {"check", "checkagain"}
    BY <1>6 DEF CheckBefore, CheckAfter, Reading
  <2>2. bucket' = IF B.free # "TERMINATED" THEN bucket
                  ELSE [bucket EXCEPT ![b].free = "RELEASED"]
    BY <1>1, <1>4, <1>6, <2>1 DEF CheckBefore, CheckAfter, Landing, Free, b, B
  <2>3. CASE B.free = "TERMINATED"
    <3>1. CheckAfter(w) /\ wpc[w] = "checkagain"
      BY <1>4, <1>6, <2>1, <2>3 DEF CheckBefore, CheckAfter
    <3>2. "RELEASED" \in FreeStates
      BY DEF FreeStates
    <3>3. OthersStay(w)
      BY <1>1, <1>2, <1>3, <2>2, <2>3, <3>1, <3>2 DEF CheckAfter, OthersStay, b, B
    <3>4. Becomes(w, "RELEASED", B.busy, B.usenum)
      BY <1>2, <1>3, <2>2, <2>3, <3>2
    <3>5. Goes(w, "checkagain", "release") /\ ttin'[w] = ttin[w] /\ executed' = executed
      <4>1. bucket'[b].free = "RELEASED"
        BY <3>4 DEF Becomes, b
      <4>2. QED
        BY <1>1, <2>1, <3>1, <4>1 DEF CheckAfter, Goes, b
    <3>6. QED
      BY <1>1, <2>3, <3>3, <3>4, <3>5 DEF WorkerStep, b, B
  <2>4. CASE B.free = "INUSE"
    <3>1. bucket' = bucket
      BY <2>2, <2>4
    <3>2. OthersStay(w) /\ Becomes(w, B.free, B.busy, B.usenum)
      BY <1>1, <1>6, <3>1 DEF CheckBefore, CheckAfter, OthersStay, Becomes, b, B
    <3>3. CASE CheckBefore(w)
      <4>1. Goes(w, "check", "take") /\ ttin'[w] = ttin[w] /\ executed' = executed
        BY <1>1, <2>1, <3>3 DEF CheckBefore, Goes
      <4>2. QED
        BY <1>1, <2>4, <3>2, <4>1 DEF WorkerStep, b, B
    <3>4. CASE CheckAfter(w)
      <4>1. Goes(w, "checkagain", "more") /\ ttin'[w] = ttin[w] /\ executed' = executed
        BY <1>1, <2>1, <2>4, <3>1, <3>4 DEF CheckAfter, Goes, b, B
      <4>2. QED
        BY <1>1, <2>4, <3>2, <4>1 DEF WorkerStep, b, B
    <3>5. QED
      BY <1>6, <3>3, <3>4
  <2>5. QED
    BY <1>4, <2>1, <2>3, <2>4
<1>7. CASE MarkDoingTerm(w)
  <2>1. Reading(w) /\ wpc[w] = "take" /\ B.free = "INUSE"
    BY <1>4, <1>7 DEF MarkDoingTerm, SetBusy, Reading
  <2>2. bucket' = [bucket EXCEPT ![b].busy = "DOINGTERM"] /\ "DOINGTERM" \in BusyStates
    BY <1>7 DEF MarkDoingTerm, SetBusy, b, BusyStates
  <2>3. OthersStay(w) /\ Becomes(w, B.free, "DOINGTERM", B.usenum)
    BY <1>1, <1>2, <1>3, <1>7, <2>2 DEF MarkDoingTerm, SetBusy, OthersStay, b, B
  <2>4. Goes(w, "take", "generate") /\ ttin'[w] = ttin[w] /\ executed' = executed /\ lock # b
    BY <1>1, <1>7, <2>1 DEF MarkDoingTerm, SetBusy, Goes, Unlocked, b
  <2>5. QED
    BY <1>1, <2>1, <2>3, <2>4 DEF WorkerStep, b, B
<1>8. CASE MarkPreparing(w)
  <2>1. Reading(w) /\ wpc[w] = "generate"
    BY <1>8 DEF MarkPreparing, SetBusy, Reading
  <2>2. bucket' = [bucket EXCEPT ![b].busy = "PREPARINGTERM"] /\ "PREPARINGTERM" \in BusyStates
    BY <1>8 DEF MarkPreparing, SetBusy, b, BusyStates
  <2>3. OthersStay(w) /\ Becomes(w, B.free, "PREPARINGTERM", B.usenum)
    BY <1>1, <1>2, <1>3, <1>8, <2>2 DEF MarkPreparing, SetBusy, OthersStay, b, B
  <2>4. /\ Goes(w, "generate", "checkagain") /\ ttin'[w] = ttin[w] /\ lock # b
        /\ executed' = [executed EXCEPT ![B.terms[ttin[w]]] = @ + 1]
    BY <1>1, <1>8, <2>1 DEF MarkPreparing, SetBusy, Goes, Unlocked, b, B
  <2>5. QED
    BY <1>1, <2>1, <2>3, <2>4 DEF WorkerStep, b, B
<1>9. CASE MoreTerms(w)
  <2>1. Reading(w) /\ wpc[w] = "more" /\ B.free = "INUSE"
    BY <1>4, <1>9 DEF MoreTerms, Reading
  <2>2. CASE ttin[w] < Size(b)
    <3>1. bucket' = bucket
      BY <1>9, <2>2 DEF MoreTerms, Size, b
    <3>2. OthersStay(w) /\ Becomes(w, B.free, B.busy, B.usenum)
      BY <1>1, <1>9, <2>2, <3>1 DEF MoreTerms, OthersStay, Becomes, Size, b, B
    <3>3. Goes(w, "more", "copy") /\ ttin'[w] = ttin[w] /\ executed' = executed
      BY <1>1, <1>9, <2>1, <2>2 DEF MoreTerms, Goes, Size, b
    <3>4. QED
      BY <1>1, <2>1, <2>2, <3>2, <3>3 DEF WorkerStep, b, B
  <2>3. CASE ~(ttin[w] < Size(b))
    <3>1. bucket' = [bucket EXCEPT ![b].free = "COMINGFREE"] /\ "COMINGFREE" \in FreeStates
      BY <1>9, <2>3 DEF MoreTerms, Size, b, FreeStates
    <3>2. OthersStay(w)
      BY <1>1, <1>2, <1>3, <1>9, <2>3, <3>1 DEF MoreTerms, OthersStay, Size, b, B
    <3>3. Becomes(w, "COMINGFREE", B.busy, B.usenum)
      BY <1>2, <1>3, <3>1
    <3>4. Goes(w, "more", "release") /\ ttin'[w] = ttin[w] /\ executed' = executed
      BY <1>1, <1>9, <2>1, <2>3 DEF MoreTerms, Goes, Size, b
    <3>5. ttin[w] = Size(b)
      <4>1. Size(b) \in 0..BucketSize
        BY <1>1, BucketNumbers
      <4>2. QED
        BY <1>4, <2>1, <2>3, <4>1, SizesAssumption
    <3>6. QED
      BY <1>1, <2>1, <3>2, <3>3, <3>4, <3>5 DEF WorkerStep, b, B
  <2>4. QED
    BY <2>2, <2>3
<1>10. CASE LeaveBucket(w)
  <2>1. bucket' = [bucket EXCEPT ![b].busy = "TOBERELEASED"] /\ "TOBERELEASED" \in BusyStates
    BY <1>10 DEF LeaveBucket, SetBusy, b, BusyStates
  <2>2. OthersStay(w) /\ Becomes(w, B.free, "TOBERELEASED", B.usenum)
    BY <1>1, <1>2, <1>3, <1>10, <2>1 DEF LeaveBucket, SetBusy, OthersStay, b, B
  <2>3. /\ wpc[w] = "release" /\ wpc'[w] = "idle" /\ threadbuck'[w] = 0 /\ ttin'[w] = 0
        /\ lock # b /\ w \in available' /\ executed' = executed
    BY <1>1, <1>10 DEF LeaveBucket, SetBusy, Unlocked, b
  <2>4. QED
    BY <1>1, <2>2, <2>3 DEF WorkerStep, b, B
<1>11. QED
  BY <1>5, <1>6, <1>7, <1>8, <1>9, <1>10 DEF Worker

-----------------------------------------------------------------------------
(* What a step of the master does, as far as the workers can see *)

\* It sends a filled bucket.
LEMMA SendSteps ==
  ASSUME IInv, SendOneBucket \/ DoBucket
  PROVE  \E b \in threadbuckets : /\ Free(b) = "FILLED" /\ Send(b) /\ thr' = thr
                                  /\ \/ mpc = "dobucket" /\ b = thr /\ mpc' = "sent"
                                     \/ mpc = "first" /\ mpc' = "open"
                                     \/ mpc = "more" /\ mpc' = "get" /\ RoomInBucket
<1>1. CASE SendOneBucket
  BY <1>1 DEF SendOneBucket, InState
<1>2. CASE DoBucket
  BY <1>2 DEF DoBucket, IInv, FillingInStep, Types
<1>3. QED
  BY <1>1, <1>2

MasterElse == Master /\ ~SendOneBucket /\ ~DoBucket /\ ~Steal /\ ~ShareOut

\* Except for that, and for a robbery, it leaves the workers and their buckets alone.
LEMMA MasterLeavesReadersAlone ==
  ASSUME IInv, MasterElse
  PROVE  /\ UNCHANGED <<available, workervars, lock>> /\ mpc # "share" /\ mpc' # "share"
         /\ mpc # "steal"
         /\ \A b \in threadbuckets : Free(b) \in {"INUSE", "TERMINATED"} => bucket'[b] = bucket[b]
<1>1. /\ UNCHANGED <<available, workervars, lock>> /\ mpc # "share" /\ mpc' # "share"
      /\ mpc # "steal"
  BY DEF MasterElse, Master, GetFirstTerm, OpenBucket, GetAnotherTerm, StopFilling, CloseBucket,
         LoadAnother, PickBucket, AfterSend, FindBucket, StartScan, ScanBucket, WeighBucket,
         Decide, MasterWaitAll
<1>2. bucket \in [threadbuckets -> Buckets] /\ thr \in threadbuckets
  BY DEF IInv, Types
<1> SUFFICES ASSUME NEW b \in threadbuckets, Free(b) \in {"INUSE", "TERMINATED"}
             PROVE  bucket'[b] = bucket[b]
  BY <1>1
<1>3. CASE GetFirstTerm \/ OpenBucket \/ GetAnotherTerm \/ CloseBucket
  <2>1. Free(thr) = "FREE"
    BY <1>3 DEF IInv, FillingInStep, Filling, GetFirstTerm, OpenBucket, GetAnotherTerm, CloseBucket
  <2>2. b # thr
    BY <2>1
  <2>3. QED
    BY <1>2, <1>3, <2>2 DEF GetFirstTerm, OpenBucket, GetAnotherTerm, CloseBucket
<1>4. CASE LoadAnother \/ FindBucket
  BY <1>2, <1>4 DEF LoadAnother, FindBucket, ReadyBuckets, Ready
<1>5. CASE WeighBucket
  BY <1>2, <1>5 DEF WeighBucket, Free
<1>6. CASE UNCHANGED bucket
  BY <1>6
<1>7. QED
  BY <1>3, <1>4, <1>5, <1>6 DEF MasterElse, Master, StopFilling, PickBucket, AfterSend,
     StartScan, ScanBucket, Decide, MasterWaitAll

LEMMA WorkerHasBucketKept ==
  ASSUME IInv, [Next]_vars
  PROVE  WorkerHasBucket'
<1>1. ASSUME NEW w \in Workers, Worker(w) PROVE WorkerHasBucket'
  <2>1. OthersStay(w) /\ WorkerStep(w) /\ threadbuck[w] \in threadbuckets /\ wpc[w] # "idle"
    BY <1>1, WorkerSteps
  <2>2. threadbuck[w] # 0
    BY <2>1 DEF threadbuckets
  <2>3. ASSUME NEW v \in Workers \ {w}
        PROVE  /\ v \in available' <=> wpc'[v] = "idle"
               /\ wpc'[v] = "idle" <=> threadbuck'[v] = 0
               /\ wpc'[v] \in {"idle", "start"} => ttin'[v] = 0
    BY <2>1, <2>3 DEF OthersStay, IInv, WorkerHasBucket
  <2>4. /\ w \in available' <=> wpc'[w] = "idle"
        /\ wpc'[w] = "idle" <=> threadbuck'[w] = 0
        /\ wpc'[w] \in {"idle", "start"} => ttin'[w] = 0
    BY <2>1, <2>2 DEF WorkerStep, Goes, IInv, WorkerHasBucket
  <2>5. QED
    BY <2>3, <2>4 DEF WorkerHasBucket
<1>2. CASE SendOneBucket \/ DoBucket
  <2>1. PICK b \in threadbuckets : Send(b)
    BY <1>2, SendSteps
  <2>2. b # 0
    BY DEF threadbuckets
  <2>3. PICK w \in Workers : /\ wpc[w] = "idle" /\ ttin[w] = 0
                             /\ available' = available \ {w}
                             /\ threadbuck' = [threadbuck EXCEPT ![w] = b]
                             /\ wpc' = [wpc EXCEPT ![w] = "start"] /\ ttin' = ttin
    BY <2>1, SendDoes
  <2>4. ASSUME NEW v \in Workers
        PROVE  /\ v \in available' <=> wpc'[v] = "idle"
               /\ wpc'[v] = "idle" <=> threadbuck'[v] = 0
               /\ wpc'[v] \in {"idle", "start"} => ttin'[v] = 0
    <3>1. CASE v = w
      BY <2>2, <2>3, <3>1 DEF IInv, Types
    <3>2. CASE v # w
      BY <2>3, <3>2 DEF IInv, Types, WorkerHasBucket
    <3>3. QED
      BY <3>1, <3>2
  <2>5. QED
    BY <2>4 DEF WorkerHasBucket
<1>3. CASE UNCHANGED <<available, workervars>>
  BY <1>3 DEF IInv, WorkerHasBucket, workervars
<1>4. QED
  BY <1>1, <1>2, <1>3, MasterLeavesReadersAlone DEF Next, MasterElse, Steal, ShareOut, vars

LEMMA ReadingInStepKept ==
  ASSUME IInv, [Next]_vars
  PROVE  ReadingInStep'
<1>0. /\ \A v, w \in Workers :
           Reading(v) /\ Reading(w) /\ threadbuck[v] = threadbuck[w] => v = w
      /\ \A w \in Workers : Reading(w) => InStep(w, threadbuck[w])
  BY DEF IInv, ReadingInStep
<1>1. ASSUME NEW w \in Workers, Worker(w) PROVE ReadingInStep'
  <2> DEFINE b == threadbuck[w]
  <2>1. OthersStay(w) /\ WorkerStep(w) /\ b \in threadbuckets
    BY <1>1, WorkerSteps
  <2>2. ASSUME NEW v \in Workers, Reading(v)'
        PROVE  Reading(v) /\ threadbuck'[v] = threadbuck[v]
    <3>1. CASE v = w
      BY <2>1, <2>2, <3>1 DEF WorkerStep, Goes, Reading
    <3>2. CASE v # w
      BY <2>1, <2>2, <3>2 DEF OthersStay, Reading
    <3>3. QED
      BY <3>1, <3>2
  <2>3. ASSUME NEW v \in Workers \ {w}, Reading(v)'
        PROVE  InStep(v, threadbuck[v])'
    <3> DEFINE c == threadbuck[v]
    <3>1. Reading(v) /\ c \in threadbuckets /\ InStep(v, c)
      BY <1>0, <2>2, <2>3, Reader
    <3>2. /\ bucket'[c].free = bucket[c].free /\ bucket'[c].usenum = bucket[c].usenum
          /\ bucket'[c].totnum = bucket[c].totnum /\ bucket'[c].terms = bucket[c].terms
      <4>1. CASE c # b
        BY <2>1, <3>1, <4>1 DEF OthersStay
      <4>2. CASE c = b
        <5>1. ~Reading(w)
          BY <1>0, <2>3, <3>1, <4>2
        <5>2. QED
          BY <2>1, <4>2, <5>1 DEF OthersStay, WorkerStep, Goes, Becomes
      <4>3. QED
        BY <4>1, <4>2
    <3>3. wpc'[v] = wpc[v] /\ ttin'[v] = ttin[v] /\ threadbuck'[v] = c /\ mpc' = mpc /\ thr' = thr
      BY <2>1, <2>3 DEF OthersStay
    <3>4. InStep(v, c)'
      BY <3>1, <3>2, <3>3 DEF InStep, Free, Size, Robbed
    <3>5. QED
      BY <3>3, <3>4
  <2>4. ASSUME Reading(w)' PROVE InStep(w, threadbuck[w])'
    <3>1. Reading(w) /\ b \in threadbuckets /\ InStep(w, b) /\ threadbuck'[w] = b
      BY <1>0, <2>1, <2>2, <2>4
    <3>2. /\ bucket'[b].totnum = bucket[b].totnum /\ bucket'[b].terms = bucket[b].terms
          /\ mpc' = mpc /\ thr' = thr
      BY <2>1 DEF OthersStay
    <3>3. ttin[w] \in Nat /\ Size(b) \in Nat /\ bucket[b].totnum \in Nat
      BY <3>1, Reader, BucketNumbers, SizesAssumption
    <3>b. b' = b
      BY <3>1
    <3> HIDE DEF b
    <3>4. InStep(w, b)'
      <4>1. WorkerStep(w) /\ wpc'[w] # "release" /\ wpc'[w] # "idle"
        BY <2>1, <2>4 DEF Reading
      <4>2. \/ /\ wpc[w] \in {"start", "copy"} /\ wpc'[w] = "check" /\ ttin'[w] = ttin[w] + 1
               /\ bucket'[b].usenum = bucket[b].usenum + 1
               /\ bucket'[b].free = "INUSE" /\ bucket[b].free = "INUSE"
            \/ /\ wpc[w] \in {"check", "take", "checkagain", "more"} /\ bucket[b].free = "INUSE"
               /\ wpc'[w] \in {"take", "generate", "more", "copy"}
               /\ wpc'[w] = "copy" => ttin[w] < Size(b)
               /\ ttin'[w] = ttin[w]
               /\ bucket'[b].usenum = bucket[b].usenum /\ bucket'[b].free = "INUSE"
            \/ /\ wpc[w] = "generate" /\ wpc'[w] = "checkagain" /\ ttin'[w] = ttin[w]
               /\ bucket'[b].usenum = bucket[b].usenum /\ bucket'[b].free = bucket[b].free
        BY <4>1 DEF WorkerStep, Goes, Becomes, b
      <4>3. Size(b)' = Size(b) /\ (Robbed(b)' <=> Robbed(b))
        BY <3>2, <3>b DEF Size, Robbed
      <4>4. InStep(w, b)
        BY <3>1
      <4> DEFINE t == ttin[w]
                 n == Size(b)
      <4>5. t \in Nat /\ n \in Nat
        BY <3>3
      <4>6. CASE ttin'[w] = ttin[w] + 1
        <5>1. /\ wpc[w] \in {"start", "copy"} /\ wpc'[w] = "check"
              /\ bucket'[b].usenum = bucket[b].usenum + 1
              /\ bucket'[b].free = "INUSE" /\ bucket[b].free = "INUSE"
          BY <3>3, <4>2, <4>6
        <5>2. t < n /\ bucket[b].usenum = t /\ bucket[b].totnum = n
          BY <4>4, <5>1 DEF InStep, Free
        <5>3. t + 1 <= n /\ t + 1 > 0
          BY <4>5, <5>2
        <5>4. QED
          BY <3>2, <3>b, <4>3, <4>6, <5>1, <5>2, <5>3 DEF InStep, Free
      <4>7. CASE ttin'[w] = ttin[w]
        BY <3>2, <3>3, <3>b, <4>2, <4>3, <4>4, <4>7 DEF InStep, Free
      <4>8. QED
        BY <4>2, <4>6, <4>7
    <3>5. QED
      BY <3>4 DEF b
  <2>5. QED
    BY <1>0, <2>2, <2>3, <2>4 DEF ReadingInStep
<1>2. CASE SendOneBucket \/ DoBucket
  <2>1. PICK b \in threadbuckets : /\ Send(b) /\ Free(b) = "FILLED" /\ thr' = thr
                                   /\ mpc # "share" /\ mpc' # "share"
    BY <1>2, SendSteps
  <2>2. PICK w \in Workers : /\ w \in available /\ wpc[w] = "idle" /\ ttin[w] = 0
                             /\ threadbuck' = [threadbuck EXCEPT ![w] = b]
                             /\ wpc' = [wpc EXCEPT ![w] = "start"]
    BY <2>1, SendDoes
  <2>3. ttin' = ttin /\ \A c \in threadbuckets \ {b} : bucket'[c] = bucket[c]
    BY <2>1, SendDoes
  <2>4. ASSUME NEW v \in Workers \ {w}
        PROVE  wpc'[v] = wpc[v] /\ threadbuck'[v] = threadbuck[v]
    BY <2>2 DEF IInv, Types
  <2>5. wpc'[w] = "start" /\ threadbuck'[w] = b
    BY <2>2 DEF IInv, Types
  <2>6. ASSUME NEW v \in Workers \ {w}, Reading(v)'
        PROVE  threadbuck'[v] # b /\ InStep(v, threadbuck[v])'
    <3>1. Reading(v) /\ threadbuck'[v] = threadbuck[v]
      BY <2>4, <2>6 DEF Reading
    <3>2. threadbuck[v] \in threadbuckets /\ threadbuck[v] # b
      BY <2>1, <3>1, Reader
    <3>3. bucket'[threadbuck[v]] = bucket[threadbuck[v]]
      BY <2>3, <3>2
    <3>4. QED
      BY <1>0, <2>1, <2>3, <2>4, <3>1, <3>2, <3>3 DEF InStep, Free, Size, Robbed
  <2>7. InStep(w, threadbuck[w])'
    <3>1. /\ bucket[b].totnum = Size(b) /\ bucket[b].usenum = 0 /\ Size(b) > 0
      BY <2>1 DEF IInv, FillingInStep
    <3>2. bucket[b] \in Buckets
      BY DEF IInv, Types
    <3>3. /\ bucket'[b].free = "INUSE" /\ bucket'[b].totnum = bucket[b].totnum
          /\ bucket'[b].usenum = bucket[b].usenum /\ bucket'[b].terms = bucket[b].terms
      <4>1. bucket'[b] = [bucket[b] EXCEPT !.busy = "ASSIGNED", !.free = "INUSE"]
        BY <2>1, SendDoes
      <4>2. QED
        BY <3>2, <4>1 DEF Buckets
    <3>4. InStep(w, b)'
      BY <2>1, <2>2, <2>3, <2>5, <3>1, <3>3 DEF InStep, Free, Size, Robbed
    <3>5. QED
      BY <2>5, <3>4
  <2>8. ASSUME NEW u \in Workers, NEW v \in Workers, Reading(u)', Reading(v)',
               threadbuck'[u] = threadbuck'[v]
        PROVE  u = v
    BY <1>0, <2>4, <2>5, <2>6, <2>8 DEF Reading
  <2>9. QED
    BY <2>6, <2>7, <2>8 DEF ReadingInStep
<1>3. CASE MasterElse \/ UNCHANGED vars
  <2>1. /\ wpc' = wpc /\ threadbuck' = threadbuck /\ ttin' = ttin
        /\ \A b \in threadbuckets : Free(b) \in {"INUSE", "TERMINATED"} => bucket'[b] = bucket[b]
        /\ \A b \in threadbuckets : Robbed(b)' <=> Robbed(b)
    BY <1>3, MasterLeavesReadersAlone DEF vars, workervars, Robbed
  <2>2. ASSUME NEW w \in Workers, Reading(w)' PROVE InStep(w, threadbuck[w])'
    <3>1. Reading(w)
      BY <2>1, <2>2 DEF Reading
    <3>2. InStep(w, threadbuck[w]) /\ threadbuck[w] \in threadbuckets
      BY <1>0, <3>1, Reader
    <3>3. QED
      BY <2>1, <3>2 DEF InStep, Free, Size
  <2>3. QED
    BY <1>0, <2>1, <2>2 DEF ReadingInStep, Reading
<1>4. CASE Steal
  <2>1. /\ wpc' = wpc /\ threadbuck' = threadbuck /\ ttin' = ttin /\ thr' = thr /\ mpc = "steal"
    BY <1>4 DEF Steal, workervars
  <2>2. ASSUME NEW w \in Workers, Reading(w)' PROVE InStep(w, threadbuck[w])'
    <3> DEFINE b == threadbuck[w]
    <3>1. Reading(w)
      BY <2>1, <2>2 DEF Reading
    <3>2. InStep(w, b) /\ b \in threadbuckets /\ thr \in threadbuckets /\ bucket[b] \in Buckets
      BY <1>0, <3>1, Reader DEF IInv, Types
    <3>3. CASE mpc' = "share" /\ thr = b
      <4>1. /\ bucket' = [bucket EXCEPT ![b].free = "TERMINATED"]
            /\ bucket[b].busy = "DOINGTERM" /\ TermsLeft(b) >= scan.numtogo
        BY <1>4, <3>3 DEF Steal, MaySteal
      <4>2. PICK v \in Workers : wpc[v] = "generate" /\ threadbuck[v] = b
        BY <3>2, <4>1 DEF IInv, DoingTermIsTrue
      <4>3. v = w
        BY <1>0, <3>1, <4>2 DEF Reading
      <4>4. /\ bucket'[b].free = "TERMINATED" /\ bucket'[b].totnum = bucket[b].totnum
            /\ bucket'[b].usenum = bucket[b].usenum /\ bucket'[b].terms = bucket[b].terms
        BY <3>2, <4>1 DEF IInv, Types, Buckets
      <4>5. scan.numtogo > 0 /\ scan.numtogo \in Nat
        BY <2>1, ScanTypes, SizesAssumption DEF IInv, ScanInStep
      <4>6. /\ bucket[b].usenum = ttin[w] /\ ttin[w] < bucket[b].totnum
            /\ ttin[w] > 0
        BY <3>1, <3>2, <4>1, <4>2, <4>3, <4>5, BucketNumbers, SizesAssumption DEF InStep, TermsLeft
      <4>7. bucket[b].totnum = Size(b)
        <5>1. Free(b) # "TERMINATED"
          BY <2>1, <3>3, <4>5 DEF IInv, ScanInStep, Balancing
        <5>2. QED
          BY <3>2, <5>1 DEF InStep
      <4>8. InStep(w, b)'
        BY <2>1, <3>2, <3>3, <4>2, <4>3, <4>4, <4>6, <4>7 DEF InStep, Free, Size, Robbed
      <4>9. QED
        BY <2>1, <4>8
    <3>4. CASE ~(mpc' = "share" /\ thr = b)
      <4>1. bucket'[b] = bucket[b] /\ (Robbed(b)' <=> Robbed(b))
        BY <1>4, <2>1, <3>2, <3>4 DEF Steal, IInv, Types, Robbed
      <4>2. QED
        BY <2>1, <3>2, <4>1 DEF InStep, Free, Size
    <3>5. QED
      BY <3>3, <3>4
  <2>3. QED
    BY <1>0, <2>1, <2>2 DEF ReadingInStep, Reading
<1>5. CASE ShareOut
  <2>1. /\ wpc' = wpc /\ threadbuck' = threadbuck /\ ttin' = ttin /\ thr' = thr
        /\ mpc = "share" /\ mpc' = "finalize"
    BY <1>5 DEF ShareOut, workervars
  <2>2. ASSUME NEW w \in Workers, Reading(w)' PROVE InStep(w, threadbuck[w])'
    <3> DEFINE b == threadbuck[w]
    <3>1. Reading(w)
      BY <2>1, <2>2 DEF Reading
    <3>2. InStep(w, b) /\ b \in threadbuckets /\ bucket[b] \in Buckets
      BY <1>0, <3>1, Reader
    <3>3. b \notin scan.freebuckets
      BY <2>1, <3>2 DEF InStep, IInv, ScanInStep, Balancing
    <3>4. CASE b = thr
      <4>1. /\ bucket'[b] = [bucket[b] EXCEPT !.terms = SubSeq(@, 1, bucket[b].usenum)]
            /\ Len(bucket'[b].terms) = bucket[b].usenum
        BY <1>5, <3>2, <3>3, <3>4, ShareOutDoes
      <4>2. /\ bucket'[b].free = bucket[b].free /\ bucket'[b].totnum = bucket[b].totnum
            /\ bucket'[b].usenum = bucket[b].usenum
        BY <3>2, <4>1 DEF Buckets
      <4>3. Free(b) = "TERMINATED"
        BY <2>1, <3>4, RobbedBucket
      <4>4. ttin[w] \in Nat /\ Size(b)' = ttin[w]
        <5>1. ttin[w] \in Nat /\ bucket[b].usenum = ttin[w] /\ b' = b
          BY <2>1, <3>1, <3>2, Reader, BucketNumbers, SizesAssumption
        <5>2. QED
          BY <4>1, <5>1 DEF Size
      <4>5. InStep(w, b)'
        BY <2>1, <3>2, <4>2, <4>3, <4>4 DEF InStep, Free, Robbed
      <4>6. QED
        BY <2>1, <4>5
    <3>5. CASE b # thr
      <4>1. bucket'[b] = bucket[b] /\ ~Robbed(b)
        BY <1>5, <3>2, <3>3, <3>5, ShareOutDoes DEF Robbed
      <4>2. QED
        BY <2>1, <3>2, <4>1 DEF InStep, Free, Size, Robbed
    <3>6. QED
      BY <3>4, <3>5
  <2>3. QED
    BY <1>0, <2>1, <2>2 DEF ReadingInStep, Reading
<1>6. QED
  BY <1>1, <1>2, <1>3, <1>4, <1>5 DEF Next, MasterElse

-----------------------------------------------------------------------------
(* The other conjuncts *)

\* A worker changes a bucket that is in use or terminated, and of another only busy.
LEMMA WorkerOnBuckets ==
  ASSUME IInv, NEW w \in Workers, Worker(w), NEW c \in threadbuckets
  PROVE  /\ UNCHANGED <<mpc, thr, scan, lock, inputvars>>
         /\ bucket'[c].terms = bucket[c].terms /\ bucket'[c].totnum = bucket[c].totnum
         /\ bucket'[c].usenum \in {bucket[c].usenum, bucket[c].usenum + 1}
         /\ bucket'[c].usenum # bucket[c].usenum => bucket[c].usenum < Size(c)
                                                    /\ bucket[c].totnum = Size(c)
         /\ IF Free(c) \in {"INUSE", "TERMINATED"}
            THEN \/ bucket'[c].free = bucket[c].free
                 \/ bucket'[c].free \in {"RELEASED", "COMINGFREE"}
            ELSE bucket'[c].free = bucket[c].free /\ bucket'[c].usenum = bucket[c].usenum
         /\ c \notin {threadbuck[v] : v \in Workers} => bucket'[c] = bucket[c]
<1> DEFINE b == threadbuck[w]
<1>1. OthersStay(w) /\ WorkerStep(w) /\ b \in threadbuckets
  BY WorkerSteps
<1>2. UNCHANGED <<mpc, thr, scan, lock, inputvars>>
  BY <1>1 DEF OthersStay
<1>3. CASE c # b
  BY <1>1, <1>2, <1>3 DEF OthersStay
<1>4. CASE c = b
  <2>1. bucket'[b].terms = bucket[b].terms /\ bucket'[b].totnum = bucket[b].totnum
    BY <1>1 DEF OthersStay
  <2>2. CASE Reading(w)
    <3>1. /\ bucket[b].usenum = ttin[w] /\ Free(b) \in {"INUSE", "TERMINATED"}
          /\ wpc[w] \in {"start", "copy"} => ttin[w] < Size(b)
          /\ Free(b) = "INUSE" => bucket[b].totnum = Size(b)
      BY <2>2, Reader
    <3>2. QED
      BY <1>1, <1>2, <1>4, <2>1, <3>1 DEF WorkerStep, Goes, Becomes, Free, Reading
  <2>3. CASE ~Reading(w)
    BY <1>1, <1>2, <1>4, <2>1, <2>3 DEF WorkerStep, Goes, Becomes, Free
  <2>4. QED
    BY <2>2, <2>3
<1>5. QED
  BY <1>3, <1>4

Whole(b) == bucket[b].totnum = Size(b) /\ bucket[b].usenum = 0 /\ Size(b) > 0

LEMMA FillingInStepKept ==
  ASSUME IInv, [Next]_vars
  PROVE  FillingInStep'
<1> USE DEF Free, Size
<1>0. /\ Types /\ bucket[thr] \in Buckets /\ thr \in threadbuckets
      /\ mpc \in Filling \cup {"bucket"} => Free(thr) = "FREE"
      /\ mpc \in {"first", "open"} => Size(thr) = 1
      /\ mpc \in {"more", "get", "full"} => Whole(thr)
      /\ mpc = "get" => RoomInBucket
      /\ mpc = "dobucket" => Free(thr) = "FILLED"
      /\ \A b \in threadbuckets : Free(b) = "FILLED" => Whole(b)
  BY DEF IInv, Types, FillingInStep, Whole
<1>1. ASSUME NEW w \in Workers, Worker(w) PROVE FillingInStep'
  <2>1. mpc' = mpc /\ thr' = thr
    BY <1>0, <1>1, WorkerOnBuckets
  <2>2. ASSUME NEW b \in threadbuckets, bucket'[b].free = "FILLED"
        PROVE  Whole(b)'
    BY <1>0, <1>1, <2>2, WorkerOnBuckets DEF Whole
  <2>3. bucket[thr].free \in {"FREE", "FILLED"} =>
          /\ bucket'[thr].free = bucket[thr].free /\ bucket'[thr].usenum = bucket[thr].usenum
          /\ bucket'[thr].totnum = bucket[thr].totnum /\ bucket'[thr].terms = bucket[thr].terms
    BY <1>0, <1>1, WorkerOnBuckets
  <2>4. QED
    BY <1>0, <2>1, <2>2, <2>3 DEF FillingInStep, Whole, RoomInBucket, Filling
<1>2. CASE SendOneBucket \/ DoBucket
  <2>1. PICK b \in threadbuckets :
               /\ Free(b) = "FILLED" /\ Send(b) /\ thr' = thr
               /\ \/ mpc = "dobucket" /\ b = thr /\ mpc' = "sent"
                  \/ mpc = "first" /\ mpc' = "open"
                  \/ mpc = "more" /\ mpc' = "get" /\ RoomInBucket
    BY <1>2, SendSteps
  <2>2. /\ bucket'[b].free = "INUSE" /\ \A c \in threadbuckets \ {b} : bucket'[c] = bucket[c]
    BY <2>1, SendDoes
  <2>3. \A c \in threadbuckets : bucket'[c].free = "FILLED" => Whole(c)'
    BY <1>0, <2>2 DEF Whole
  <2>4. CASE mpc' = "sent"
    BY <2>3, <2>4 DEF FillingInStep, Filling, Whole
  <2>5. CASE mpc' # "sent"
    <3>1. b # thr /\ bucket'[thr] = bucket[thr]
      BY <1>0, <2>1, <2>2, <2>5 DEF Filling
    <3>2. QED
      BY <1>0, <2>1, <2>3, <2>5, <3>1 DEF FillingInStep, Filling, Whole, RoomInBucket
  <2>6. QED
    BY <2>4, <2>5
<1>3. CASE GetFirstTerm
  <2>1. \A c \in threadbuckets : bucket'[c].free = "FILLED" => Whole(c)'
    BY <1>0, <1>3 DEF GetFirstTerm, Types, Whole, Filling, Buckets
  <2>2. mpc' = "first" => Len(bucket'[thr].terms) = 1 /\ bucket'[thr].free = "FREE"
    BY <1>0, <1>3 DEF GetFirstTerm, Types, Buckets
  <2>3. mpc' \in {"first", "finalize"} /\ thr' = thr
    BY <1>3 DEF GetFirstTerm
  <2>4. QED
    BY <2>1, <2>2, <2>3 DEF FillingInStep, Filling, Whole
<1>4. CASE OpenBucket
  <2>1. /\ mpc' = "more" /\ thr' = thr /\ mpc \in {"first", "open"}
        /\ bucket' = [bucket EXCEPT ![thr].totnum = 1, ![thr].usenum = 0]
    BY <1>4 DEF OpenBucket
  <2>2. /\ bucket'[thr].free = "FREE" /\ bucket'[thr].totnum = 1 /\ bucket'[thr].usenum = 0
        /\ bucket'[thr].terms = bucket[thr].terms
        /\ \A c \in threadbuckets \ {thr} : bucket'[c] = bucket[c]
    BY <1>0, <2>1 DEF Types, Buckets, Filling
  <2>3. Whole(thr)'
    <3>1. Len(bucket[thr].terms) = 1 /\ thr' = thr
      BY <1>0, <2>1
    <3>2. Len(bucket'[thr].terms) = 1
      BY <2>2, <3>1
    <3>3. /\ bucket'[thr'].totnum = 1 /\ bucket'[thr'].usenum = 0
          /\ Len(bucket'[thr'].terms) = 1
      BY <2>2, <3>1, <3>2
    <3>4. QED
      BY <3>3 DEF Whole
  <2>4. ASSUME NEW c \in threadbuckets, bucket'[c].free = "FILLED" PROVE Whole(c)'
    <3>1. c # thr
      BY <2>2, <2>4
    <3>2. QED
      BY <1>0, <2>2, <2>4, <3>1 DEF Whole
  <2>5. QED
    BY <2>1, <2>2, <2>3, <2>4 DEF FillingInStep, Filling, Whole
<1>5. CASE GetAnotherTerm
  <2>1. mpc \in {"get", "more"} /\ RoomInBucket /\ thr' = thr /\ mpc' \in {"full", "more"}
    BY <1>0, <1>5 DEF GetAnotherTerm
  <2>2. CASE bucket' = bucket
    BY <1>0, <2>1, <2>2 DEF FillingInStep, Filling, Whole
  <2>3. CASE bucket' # bucket
    <3> DEFINE x == Append(bucket[thr].terms, nextterm)
               y == bucket[thr].totnum + 1
    <3>1. bucket' = [bucket EXCEPT ![thr].terms = x, ![thr].totnum = y]
      BY <1>5, <2>3 DEF GetAnotherTerm
    <3>2. Len(x) = y /\ y > 0
      BY <1>0, <2>1, BucketNumbers DEF Whole
    <3> HIDE DEF x, y
    <3>3. /\ bucket'[thr].free = "FREE" /\ bucket'[thr].totnum = y
          /\ bucket'[thr].usenum = bucket[thr].usenum /\ bucket'[thr].terms = x
          /\ \A c \in threadbuckets \ {thr} : bucket'[c] = bucket[c]
      BY <1>0, <2>1, <3>1 DEF Types, Buckets, Filling
    <3>4. QED
      BY <1>0, <2>1, <3>2, <3>3 DEF FillingInStep, Filling, Whole
  <2>4. QED
    BY <2>2, <2>3
<1>6. CASE CloseBucket
  <2>1. /\ bucket' = [bucket EXCEPT ![thr].free = "FILLED"] /\ mpc = "full" /\ thr' = thr
        /\ mpc' \in {"loadanother", "pick"}
    BY <1>6 DEF CloseBucket
  <2>2. /\ bucket'[thr].free = "FILLED" /\ bucket'[thr].totnum = bucket[thr].totnum
        /\ bucket'[thr].usenum = bucket[thr].usenum /\ bucket'[thr].terms = bucket[thr].terms
        /\ \A c \in threadbuckets \ {thr} : bucket'[c] = bucket[c]
    BY <1>0, <2>1 DEF Types, Buckets
  <2>3. Whole(thr)'
    BY <1>0, <2>1, <2>2 DEF Whole
  <2>4. ASSUME NEW c \in threadbuckets, bucket'[c].free = "FILLED" PROVE Whole(c)'
    <3>1. CASE c = thr
      BY <2>1, <2>3, <3>1 DEF Whole
    <3>2. CASE c # thr
      BY <1>0, <2>2, <2>4, <3>2 DEF Whole
    <3>3. QED
      BY <3>1, <3>2
  <2>5. QED
    BY <2>1, <2>4 DEF FillingInStep, Filling, Whole
<1>7. CASE LoadAnother \/ FindBucket
  <2>1. \A c \in threadbuckets : bucket'[c].free = "FILLED" => bucket'[c] = bucket[c]
    BY <1>0, <1>7 DEF LoadAnother, FindBucket, Types, Buckets, ReadyBuckets
  <2>2. mpc' = "bucket" => bucket'[thr'].free = "FREE"
    BY <1>0, <1>7 DEF LoadAnother, FindBucket, Types, Buckets, ReadyBuckets
  <2>3. mpc' \in {"bucket", "pick", "balance"}
    BY <1>7 DEF LoadAnother, FindBucket
  <2>4. QED
    BY <1>0, <2>1, <2>2, <2>3 DEF FillingInStep, Filling, Whole
<1>8. CASE StopFilling \/ PickBucket \/ AfterSend \/ StartScan \/ ScanBucket \/ Decide \/ MasterWaitAll
  BY <1>0, <1>8 DEF StopFilling, PickBucket, AfterSend, StartScan, ScanBucket, Decide, MasterWaitAll,
                    InState, FillingInStep, Filling, Whole
<1>9. CASE WeighBucket \/ Steal
  <2>1. mpc' \in {"scan", "share"}
    BY <1>9 DEF WeighBucket, Steal
  <2>2. \A c \in threadbuckets : bucket'[c].free = "FILLED" => bucket'[c] = bucket[c]
    BY <1>0, <1>9 DEF WeighBucket, Steal, Types, Buckets
  <2>3. QED
    BY <1>0, <2>1, <2>2 DEF FillingInStep, Filling, Whole
<1>10. CASE ShareOut
  <2>1. mpc' = "finalize" /\ mpc = "share"
    BY <1>10 DEF ShareOut
  <2>2. ASSUME NEW c \in threadbuckets, bucket'[c].free = "FILLED"
        PROVE  Whole(c)'
    <3>1. CASE c \in scan.freebuckets /\ ShareOf(c) > 0
      <4>1. bucket'[c] = Refilled(c) /\ Len(bucket'[c].terms) = ShareOf(c)
        <5>1. ~(ShareOf(c) = 0)
          BY <3>1
        <5>2. QED
          BY <1>10, <3>1, <5>1, ShareOutDoes
      <4>2. bucket'[c].totnum = ShareOf(c) /\ bucket'[c].usenum = 0
        BY <4>1 DEF Refilled
      <4>3. QED
        BY <3>1, <4>1, <4>2 DEF Whole
    <3>2. CASE ~(c \in scan.freebuckets /\ ShareOf(c) > 0)
      <4>1. c # thr
        <5>1. bucket[thr].free = "TERMINATED"
          BY <2>1, RobbedBucket
        <5>2. QED
          BY <1>0, <1>10, <2>2, <3>2, <5>1 DEF ShareOut, Buckets
      <4>2. bucket'[c] = bucket[c]
        BY <1>10, <3>2, <4>1, ShareOutDoes
      <4>3. QED
        BY <1>0, <2>2, <4>2 DEF Whole
    <3>3. QED
      BY <3>1, <3>2
  <2>3. QED
    BY <2>1, <2>2 DEF FillingInStep, Filling, Whole
<1>11. CASE UNCHANGED vars
  BY <1>0, <1>11 DEF vars, FillingInStep, Whole, RoomInBucket, Filling
<1>12. QED
  BY <1>1, <1>2, <1>3, <1>4, <1>5, <1>6, <1>7, <1>8, <1>9, <1>10, <1>11 DEF Next, Master

\* The other actions of the master, field by field.
LEMMA MasterFields ==
  ASSUME IInv, NEW c \in threadbuckets
  PROVE  /\ GetFirstTerm =>
              /\ bucket'[c].free = bucket[c].free /\ bucket'[c].busy = bucket[c].busy
              /\ bucket'[c].usenum = bucket[c].usenum /\ bucket'[c].totnum = bucket[c].totnum
              /\ IF c = thr /\ ~(nextterm > NumTerms) THEN bucket'[c].terms = <<nextterm>>
                 ELSE bucket'[c] = bucket[c]
         /\ OpenBucket =>
              /\ bucket'[c].free = bucket[c].free /\ bucket'[c].busy = bucket[c].busy
              /\ bucket'[c].terms = bucket[c].terms
              /\ IF c = thr THEN bucket'[c].totnum = 1 /\ bucket'[c].usenum = 0
                 ELSE bucket'[c] = bucket[c]
         /\ GetAnotherTerm =>
              /\ bucket'[c].free = bucket[c].free /\ bucket'[c].busy = bucket[c].busy
              /\ bucket'[c].usenum = bucket[c].usenum
              /\ IF c = thr /\ ~(nextterm > NumTerms)
                 THEN /\ bucket'[c].terms = Append(bucket[c].terms, nextterm)
                      /\ bucket'[c].totnum = bucket[c].totnum + 1
                 ELSE bucket'[c] = bucket[c]
         /\ CloseBucket \/ LoadAnother \/ FindBucket \/ WeighBucket \/ Steal =>
              /\ bucket'[c].busy \in {bucket[c].busy, "PREPARINGTERM"}
              /\ bucket'[c].usenum = bucket[c].usenum /\ bucket'[c].totnum = bucket[c].totnum
              /\ bucket'[c].terms = bucket[c].terms
<1>0. /\ bucket \in [threadbuckets -> Buckets] /\ thr \in threadbuckets
      /\ bucket[c] \in Buckets /\ bucket[thr] \in Buckets
  BY DEF IInv, Types
<1>1. ASSUME GetFirstTerm
      PROVE   /\ bucket'[c].free = bucket[c].free /\ bucket'[c].busy = bucket[c].busy
              /\ bucket'[c].usenum = bucket[c].usenum /\ bucket'[c].totnum = bucket[c].totnum
              /\ IF c = thr /\ ~(nextterm > NumTerms) THEN bucket'[c].terms = <<nextterm>>
                 ELSE bucket'[c] = bucket[c]
  <2>1. CASE nextterm > NumTerms
    BY <1>1, <2>1 DEF GetFirstTerm
  <2>2. CASE ~(nextterm > NumTerms)
    <3>1. bucket' = [bucket EXCEPT ![thr].terms = <<nextterm>>]
      BY <1>1, <2>2 DEF GetFirstTerm
    <3>2. QED
      BY <1>0, <2>2, <3>1 DEF Buckets
  <2>3. QED
    BY <2>1, <2>2
<1>2. ASSUME OpenBucket
      PROVE   /\ bucket'[c].free = bucket[c].free /\ bucket'[c].busy = bucket[c].busy
              /\ bucket'[c].terms = bucket[c].terms
              /\ IF c = thr THEN bucket'[c].totnum = 1 /\ bucket'[c].usenum = 0
                 ELSE bucket'[c] = bucket[c]
  <2>1. bucket' = [bucket EXCEPT ![thr].totnum = 1, ![thr].usenum = 0]
    BY <1>2 DEF OpenBucket
  <2>2. QED
    BY <1>0, <2>1 DEF Buckets
<1>3. ASSUME GetAnotherTerm
      PROVE   /\ bucket'[c].free = bucket[c].free /\ bucket'[c].busy = bucket[c].busy
              /\ bucket'[c].usenum = bucket[c].usenum
              /\ IF c = thr /\ ~(nextterm > NumTerms)
                 THEN /\ bucket'[c].terms = Append(bucket[c].terms, nextterm)
                      /\ bucket'[c].totnum = bucket[c].totnum + 1
                 ELSE bucket'[c] = bucket[c]
  <2>1. CASE nextterm > NumTerms
    BY <1>3, <2>1 DEF GetAnotherTerm
  <2>2. CASE ~(nextterm > NumTerms)
    <3> DEFINE x == Append(bucket[thr].terms, nextterm)
               y == bucket[thr].totnum + 1
    <3>1. bucket' = [bucket EXCEPT ![thr].terms = x, ![thr].totnum = y]
      BY <1>3, <2>2 DEF GetAnotherTerm
    <3> HIDE DEF x, y
    <3>2. /\ bucket'[c].free = bucket[c].free /\ bucket'[c].busy = bucket[c].busy
          /\ bucket'[c].usenum = bucket[c].usenum
          /\ IF c = thr THEN bucket'[c].terms = x /\ bucket'[c].totnum = y
             ELSE bucket'[c] = bucket[c]
      BY <1>0, <3>1 DEF Buckets
    <3>3. QED
      BY <2>2, <3>2 DEF x, y
  <2>3. QED
    BY <2>1, <2>2
<1>4. ASSUME NEW b \in threadbuckets, NEW x,
             \/ bucket' = [bucket EXCEPT ![b].free = x]
             \/ bucket' = [bucket EXCEPT ![b].free = x, ![b].busy = "PREPARINGTERM"]
             \/ bucket' = bucket
      PROVE   /\ bucket'[c].busy \in {bucket[c].busy, "PREPARINGTERM"}
              /\ bucket'[c].usenum = bucket[c].usenum /\ bucket'[c].totnum = bucket[c].totnum
              /\ bucket'[c].terms = bucket[c].terms
  <2>1. bucket[b] \in Buckets
    BY <1>0
  <2>2. CASE bucket' = [bucket EXCEPT ![b].free = x]
    BY <1>0, <2>1, <2>2 DEF Buckets
  <2>3. CASE bucket' = [bucket EXCEPT ![b].free = x, ![b].busy = "PREPARINGTERM"]
    BY <1>0, <2>1, <2>3 DEF Buckets
  <2>4. QED
    BY <1>4, <2>2, <2>3
<1>5. ASSUME CloseBucket \/ LoadAnother \/ FindBucket \/ WeighBucket \/ Steal
      PROVE   /\ bucket'[c].busy \in {bucket[c].busy, "PREPARINGTERM"}
              /\ bucket'[c].usenum = bucket[c].usenum /\ bucket'[c].totnum = bucket[c].totnum
              /\ bucket'[c].terms = bucket[c].terms
  <2>1. CASE CloseBucket \/ Steal
    <3>1. \/ bucket' = [bucket EXCEPT ![thr].free = "FILLED"]
          \/ bucket' = [bucket EXCEPT ![thr].free = "TERMINATED"]
          \/ bucket' = bucket
      BY <2>1 DEF CloseBucket, Steal
    <3>2. QED
      BY <1>0, <1>4, <3>1
  <2>2. CASE LoadAnother
    <3>1. \/ \E b \in threadbuckets : bucket' = [bucket EXCEPT ![b].free = "FREE"]
          \/ bucket' = bucket
      BY <2>2 DEF LoadAnother, ReadyBuckets
    <3>2. QED
      BY <1>4, <3>1
  <2>3. CASE WeighBucket
    <3>1. scan.j \in threadbuckets
      BY <2>3, ScanTypes, NumBuckets DEF WeighBucket, IInv, ScanInStep, threadbuckets
    <3>2. \/ bucket' = [bucket EXCEPT ![scan.j].free = "ATEND", ![scan.j].busy = "PREPARINGTERM"]
          \/ bucket' = bucket
      BY <2>3 DEF WeighBucket
    <3>3. QED
      BY <1>4, <3>1, <3>2
  <2>4. CASE FindBucket
    <3>1. \/ \E b \in threadbuckets : bucket' = [bucket EXCEPT ![b].free = "FREE"]
          \/ bucket' = [b \in threadbuckets |->
                          IF Ready(b) THEN [bucket[b] EXCEPT !.free = "ATEND"] ELSE bucket[b]]
      BY <2>4 DEF FindBucket, ReadyBuckets
    <3>2. CASE bucket' = [b \in threadbuckets |->
                 IF Ready(b) THEN [bucket[b] EXCEPT !.free = "ATEND"] ELSE bucket[b]]
      BY <1>0, <3>2 DEF Buckets
    <3>3. QED
      BY <1>4, <3>1, <3>2
  <2>5. QED
    BY <1>5, <2>1, <2>2, <2>3, <2>4
<1>6. QED
  BY <1>1, <1>2, <1>3, <1>5

LEMMA CountsInStepKept ==
  ASSUME IInv, [Next]_vars
  PROVE  CountsInStep'
<1> USE DEF Size
<1>0. /\ Types /\ bucket[thr] \in Buckets /\ thr \in threadbuckets
      /\ \A b \in threadbuckets : /\ bucket[b].usenum <= bucket[b].totnum
                                  /\ Len(bucket[b].terms) <= BucketSize
  BY DEF IInv, Types, CountsInStep
<1>1. ASSUME NEW w \in Workers, Worker(w) PROVE CountsInStep'
  <2>1. ASSUME NEW c \in threadbuckets
        PROVE  bucket'[c].usenum <= bucket'[c].totnum /\ Len(bucket'[c].terms) <= BucketSize
    <3>1. /\ bucket[c].usenum \in Nat /\ Size(c) \in Nat
      BY BucketNumbers, SizesAssumption
    <3>2. /\ bucket'[c].terms = bucket[c].terms /\ bucket'[c].totnum = bucket[c].totnum
          /\ bucket'[c].usenum \in {bucket[c].usenum, bucket[c].usenum + 1}
          /\ bucket'[c].usenum # bucket[c].usenum => bucket[c].usenum < Size(c)
                                                     /\ bucket[c].totnum = Size(c)
      BY <1>1, WorkerOnBuckets
    <3>3. QED
      BY <1>0, <3>1, <3>2
  <2>2. QED
    BY <2>1 DEF CountsInStep
<1>2. CASE SendOneBucket \/ DoBucket
  <2>1. PICK b \in threadbuckets : Send(b)
    BY <1>2, SendSteps
  <2>2. /\ \A c \in threadbuckets \ {b} : bucket'[c] = bucket[c]
        /\ bucket'[b].terms = bucket[b].terms /\ bucket'[b].totnum = bucket[b].totnum
        /\ bucket'[b].usenum = bucket[b].usenum
    BY <2>1, SendDoes
  <2>3. QED
    BY <1>0, <2>2 DEF CountsInStep
<1>3. CASE GetFirstTerm
  <2>1. Len(<<nextterm>>) = 1 /\ 1 <= BucketSize
    BY SizesAssumption
  <2>2. \A c \in threadbuckets : /\ bucket'[c].usenum = bucket[c].usenum
                                 /\ bucket'[c].totnum = bucket[c].totnum
                                 /\ bucket'[c].terms \in {bucket[c].terms, <<nextterm>>}
    BY <1>3, MasterFields
  <2>3. QED
    BY <1>0, <2>1, <2>2 DEF CountsInStep
<1>4. CASE OpenBucket
  <2>1. /\ bucket'[thr].totnum = 1 /\ bucket'[thr].usenum = 0
        /\ bucket'[thr].terms = bucket[thr].terms
        /\ \A c \in threadbuckets \ {thr} : bucket'[c] = bucket[c]
    BY <1>0, <1>4 DEF OpenBucket, Types, Buckets
  <2>2. \A c \in threadbuckets : bucket'[c].usenum <= bucket'[c].totnum
    BY <1>0, <2>1
  <2>3. \A c \in threadbuckets : bucket'[c].terms = bucket[c].terms
    BY <2>1
  <2>4. QED
    BY <1>0, <2>2, <2>3 DEF CountsInStep
<1>5. CASE GetAnotherTerm
  <2>1. CASE bucket' = bucket
    BY <1>0, <2>1 DEF CountsInStep
  <2>2. CASE bucket' # bucket
    <3> DEFINE x == Append(bucket[thr].terms, nextterm)
               y == bucket[thr].totnum + 1
    <3>1. bucket' = [bucket EXCEPT ![thr].terms = x, ![thr].totnum = y]
      BY <1>5, <2>2 DEF GetAnotherTerm
    <3>2. RoomInBucket /\ bucket[thr].totnum = Len(bucket[thr].terms) /\ bucket[thr].usenum = 0
      BY <1>5 DEF GetAnotherTerm, IInv, FillingInStep
    <3>3. Len(x) = y /\ y <= BucketSize /\ 0 <= y
      BY <1>0, <3>2, BucketNumbers, SizesAssumption DEF RoomInBucket
    <3> HIDE DEF x, y
    <3>4. /\ bucket'[thr].totnum = y /\ bucket'[thr].usenum = 0 /\ bucket'[thr].terms = x
          /\ \A c \in threadbuckets \ {thr} : bucket'[c] = bucket[c]
      BY <1>0, <3>1, <3>2 DEF Types, Buckets
    <3>5. QED
      BY <1>0, <3>3, <3>4 DEF CountsInStep
  <2>3. QED
    BY <2>1, <2>2
<1>6. CASE CloseBucket \/ LoadAnother \/ FindBucket \/ WeighBucket \/ Steal
  <2>1. \A c \in threadbuckets : /\ bucket'[c].usenum = bucket[c].usenum
                                 /\ bucket'[c].totnum = bucket[c].totnum
                                 /\ bucket'[c].terms = bucket[c].terms
    BY <1>6, MasterFields
  <2>2. QED
    BY <1>0, <2>1 DEF CountsInStep
<1>7. CASE StopFilling \/ PickBucket \/ AfterSend \/ StartScan \/ ScanBucket \/ Decide
             \/ MasterWaitAll \/ UNCHANGED vars
  BY <1>0, <1>7 DEF StopFilling, PickBucket, AfterSend, StartScan, ScanBucket, Decide,
                    MasterWaitAll, vars, CountsInStep
<1>8. CASE ShareOut
  <2>1. ASSUME NEW c \in threadbuckets
        PROVE  bucket'[c].usenum <= bucket'[c].totnum /\ Len(bucket'[c].terms) <= BucketSize
    <3>1. mpc = "share" /\ bucket[c] \in Buckets
      BY <1>0, <1>8 DEF ShareOut, Types
    <3>2. CASE c \in scan.freebuckets /\ ShareOf(c) > 0
      <4>1. /\ ShareOf(c) \in 0..scan.numtogo /\ scan.numtogo \in 1..BucketSize
            /\ thr \notin scan.freebuckets
        BY <3>1, <3>2, SharesOfFreeBuckets, RobbedBucket
      <4>2. bucket'[c] = Refilled(c) /\ Len(bucket'[c].terms) = ShareOf(c)
        <5>1. ~(ShareOf(c) = 0)
          BY <3>2
        <5>2. QED
          BY <1>8, <3>2, <5>1, ShareOutDoes
      <4>3. bucket'[c].totnum = ShareOf(c) /\ bucket'[c].usenum = 0
        BY <4>2 DEF Refilled
      <4>4. QED
        BY <3>2, <4>1, <4>2, <4>3, SizesAssumption
    <3>3. CASE c = thr
      <4>1. /\ bucket'[c] = [bucket[c] EXCEPT !.terms = SubSeq(@, 1, bucket[c].usenum)]
            /\ Len(bucket'[c].terms) = bucket[c].usenum
        BY <1>8, <3>1, <3>3, RobbedBucket, ShareOutDoes
      <4>2. /\ bucket'[c].totnum = bucket[c].totnum /\ bucket'[c].usenum = bucket[c].usenum
        BY <3>1, <4>1 DEF Buckets
      <4>3. bucket[c].usenum <= bucket[c].totnum /\ bucket[c].totnum \in 0..BucketSize
            /\ bucket[c].usenum \in 0..BucketSize
        BY <1>0, <3>1 DEF Buckets
      <4>4. QED
        BY <4>1, <4>2, <4>3, SizesAssumption
    <3>4. CASE c # thr /\ ~(c \in scan.freebuckets /\ ShareOf(c) > 0)
      <4>1. bucket'[c] = bucket[c]
        BY <1>8, <3>4, ShareOutDoes
      <4>2. QED
        BY <1>0, <4>1
    <3>5. QED
      BY <3>2, <3>3, <3>4
  <2>2. QED
    BY <2>1 DEF CountsInStep
<1>9. QED
  BY <1>1, <1>2, <1>3, <1>4, <1>5, <1>6, <1>7, <1>8 DEF Next, Master

LEMMA DoingTermIsTrueKept ==
  ASSUME IInv, [Next]_vars
  PROVE  DoingTermIsTrue'
<1>0. /\ Types
      /\ \A b \in threadbuckets : bucket[b].busy = "DOINGTERM" =>
           \E w \in Workers : wpc[w] = "generate" /\ threadbuck[w] = b
  BY DEF IInv, DoingTermIsTrue
<1>1. ASSUME NEW w \in Workers, Worker(w) PROVE DoingTermIsTrue'
  <2> DEFINE b == threadbuck[w]
  <2>1. OthersStay(w) /\ WorkerStep(w) /\ b \in threadbuckets
    BY <1>1, WorkerSteps
  <2>2. ASSUME NEW c \in threadbuckets, bucket'[c].busy = "DOINGTERM"
        PROVE  \E v \in Workers : wpc'[v] = "generate" /\ threadbuck'[v] = c
    <3>1. CASE c = b
      <4>1. \/ wpc'[w] = "generate" /\ threadbuck'[w] = b
            \/ bucket[b].busy = "DOINGTERM" /\ wpc[w] # "generate" /\ wpc[w] # "release"
        BY <2>1, <2>2, <3>1 DEF WorkerStep, Goes, Becomes
      <4>2. CASE bucket[b].busy = "DOINGTERM" /\ wpc[w] # "generate"
        <5>1. PICK v \in Workers : wpc[v] = "generate" /\ threadbuck[v] = b
          BY <1>0, <2>1, <4>2
        <5>2. v # w
          BY <4>2, <5>1
        <5>3. QED
          BY <2>1, <3>1, <5>1, <5>2 DEF OthersStay
      <4>3. QED
        BY <3>1, <4>1, <4>2
    <3>2. CASE c # b
      <4>1. bucket[c].busy = "DOINGTERM"
        BY <2>1, <2>2, <3>2 DEF OthersStay
      <4>2. PICK v \in Workers : wpc[v] = "generate" /\ threadbuck[v] = c
        BY <1>0, <4>1
      <4>3. v # w
        BY <3>2, <4>2
      <4>4. QED
        BY <2>1, <4>2, <4>3 DEF OthersStay
    <3>3. QED
      BY <3>1, <3>2
  <2>3. QED
    BY <2>2 DEF DoingTermIsTrue
<1>2. CASE SendOneBucket \/ DoBucket
  <2>1. PICK b \in threadbuckets : Send(b)
    BY <1>2, SendSteps
  <2>2. /\ \A c \in threadbuckets \ {b} : bucket'[c] = bucket[c]
        /\ bucket'[b].busy = "ASSIGNED"
    BY <2>1, SendDoes
  <2>3. PICK w \in Workers : /\ wpc[w] = "idle"
                             /\ threadbuck' = [threadbuck EXCEPT ![w] = b]
                             /\ wpc' = [wpc EXCEPT ![w] = "start"]
    BY <2>1, SendDoes
  <2>4. ASSUME NEW c \in threadbuckets, bucket'[c].busy = "DOINGTERM"
        PROVE  \E v \in Workers : wpc'[v] = "generate" /\ threadbuck'[v] = c
    <3>1. bucket[c].busy = "DOINGTERM"
      BY <2>2, <2>4
    <3>2. PICK v \in Workers : wpc[v] = "generate" /\ threadbuck[v] = c
      BY <1>0, <3>1
    <3>3. v # w
      BY <2>3, <3>2
    <3>4. wpc'[v] = "generate" /\ threadbuck'[v] = c
      BY <1>0, <2>3, <3>2, <3>3 DEF Types
    <3>5. QED
      BY <3>4
  <2>5. QED
    BY <2>4 DEF DoingTermIsTrue
<1>3. CASE UNCHANGED <<wpc, threadbuck>>
           /\ \A c \in threadbuckets : bucket'[c].busy \in {bucket[c].busy, "PREPARINGTERM", "ASSIGNED"}
  BY <1>0, <1>3 DEF DoingTermIsTrue
<1>4. CASE Master /\ ~SendOneBucket /\ ~DoBucket /\ ~ShareOut
  <2>1. UNCHANGED <<wpc, threadbuck>>
    BY <1>4, MasterLeavesReadersAlone DEF MasterElse, Steal, workervars
  <2>2. \A c \in threadbuckets : bucket'[c].busy \in {bucket[c].busy, "PREPARINGTERM", "ASSIGNED"}
    <3>1. CASE bucket' = bucket
      BY <3>1
    <3>2. CASE GetFirstTerm \/ OpenBucket \/ GetAnotherTerm \/ CloseBucket \/ LoadAnother
               \/ FindBucket \/ WeighBucket \/ Steal
      BY <3>2, MasterFields
    <3>3. QED
      BY <1>4, <3>1, <3>2 DEF Master, StopFilling, PickBucket, AfterSend, StartScan,
         ScanBucket, Decide, MasterWaitAll
  <2>3. QED
    BY <1>3, <2>1, <2>2
<1>5. CASE ShareOut
  <2>1. UNCHANGED <<wpc, threadbuck>>
    BY <1>5 DEF ShareOut, workervars
  <2>2. ASSUME NEW c \in threadbuckets
        PROVE  bucket'[c].busy \in {bucket[c].busy, "PREPARINGTERM", "ASSIGNED"}
    <3>1. bucket[c] \in Buckets
      BY <1>0 DEF Types
    <3>2. \/ bucket'[c] = Refilled(c)
          \/ bucket'[c] = [bucket[c] EXCEPT !.terms = SubSeq(@, 1, bucket[c].usenum)]
          \/ bucket'[c] = bucket[c]
      BY <1>5 DEF ShareOut
    <3>3. QED
      BY <3>1, <3>2 DEF Refilled, Buckets
  <2>3. QED
    BY <1>3, <2>1, <2>2
<1>6. CASE UNCHANGED vars
  BY <1>3, <1>6 DEF vars, workervars
<1>7. QED
  BY <1>1, <1>2, <1>4, <1>5, <1>6 DEF Next

LEMMA ScanInStepKept ==
  ASSUME IInv, [Next]_vars
  PROVE  ScanInStep'
<1> USE DEF Free, TermsLeft, Balancing
<1>0. /\ Types /\ ScanInStep /\ thr \in threadbuckets /\ scan \in Scans
      /\ scan.numtogo \in Nat
      /\ \A b \in threadbuckets : bucket[b].usenum \in Nat /\ bucket[b].totnum \in Nat
  BY ScanTypes, BucketNumbers, SizesAssumption DEF IInv, Types
<1>1. ASSUME NEW w \in Workers, Worker(w) PROVE ScanInStep'
  <2>1. /\ mpc' = mpc /\ thr' = thr /\ scan' = scan /\ lock' = lock
        /\ \A b \in threadbuckets :
             /\ bucket'[b].totnum = bucket[b].totnum
             /\ bucket'[b].usenum \in {bucket[b].usenum, bucket[b].usenum + 1}
             /\ bucket'[b].free = "TERMINATED" => bucket[b].free = "TERMINATED"
             /\ bucket[b].free \in {"FREE", "ATEND", "COMINGFREE"} =>
                  bucket'[b].free = bucket[b].free
    BY <1>0, <1>1, WorkerOnBuckets
  <2>2. ASSUME NEW b \in threadbuckets
        PROVE  bucket'[b].totnum - bucket'[b].usenum <= bucket[b].totnum - bucket[b].usenum
    BY <1>0, <2>1
  <2>3. ASSUME mpc = "share"
        PROVE  /\ bucket'[thr].usenum = bucket[thr].usenum
               /\ bucket'[thr].free = "TERMINATED"
               /\ \E v \in Workers : wpc'[v] = "generate" /\ threadbuck'[v] = thr
    <3>1. PICK v \in Workers : wpc[v] = "generate" /\ threadbuck[v] = thr
      BY <1>0, <2>3 DEF ScanInStep
    <3>2. OthersStay(w) /\ WorkerStep(w)
      BY <1>1, WorkerSteps
    <3>3. v # w
      <4>1. lock = thr
        BY <1>0, <2>3 DEF ScanInStep
      <4>2. QED
        BY <3>1, <3>2, <4>1 DEF WorkerStep, Goes
    <3>4. threadbuck[w] = thr => ~Reading(w)
      BY <3>1, <3>3 DEF IInv, ReadingInStep, Reading
    <3>5. bucket'[thr].usenum = bucket[thr].usenum /\ bucket'[thr].free = bucket[thr].free
      <4>1. CASE threadbuck[w] = thr
        BY <3>2, <3>4, <4>1 DEF WorkerStep, Goes, Becomes
      <4>2. CASE threadbuck[w] # thr
        BY <1>0, <3>2, <4>2 DEF OthersStay
      <4>3. QED
        BY <4>1, <4>2
    <3>6. wpc'[v] = "generate" /\ threadbuck'[v] = thr
      BY <3>1, <3>2, <3>3 DEF OthersStay
    <3>7. QED
      BY <1>0, <2>3, <3>5, <3>6 DEF ScanInStep
  <2>4. scan.numtogo > 0 /\ mpc \in Balancing =>
          /\ scan.thrtogo \in threadbuckets
          /\ bucket'[scan.thrtogo].totnum - bucket'[scan.thrtogo].usenum <= scan.numtogo
          /\ mpc # "share" => bucket'[scan.thrtogo].free # "TERMINATED"
    <3> SUFFICES ASSUME scan.numtogo > 0, mpc \in Balancing
                 PROVE  /\ scan.thrtogo \in threadbuckets
                        /\ bucket'[scan.thrtogo].totnum - bucket'[scan.thrtogo].usenum
                             <= scan.numtogo
                        /\ mpc # "share" => bucket'[scan.thrtogo].free # "TERMINATED"
      OBVIOUS
    <3> DEFINE b == scan.thrtogo
    <3>1. /\ b \in threadbuckets /\ bucket[b].totnum - bucket[b].usenum <= scan.numtogo
          /\ mpc # "share" => bucket[b].free # "TERMINATED"
      BY <1>0 DEF ScanInStep
    <3>2. bucket'[b].totnum - bucket'[b].usenum <= bucket[b].totnum - bucket[b].usenum
      BY <2>2, <3>1
    <3>3. bucket'[b].usenum \in Nat /\ bucket'[b].totnum \in Nat
      BY <1>0, <2>1, <3>1
    <3>4. QED
      BY <1>0, <2>1, <3>1, <3>2, <3>3
  <2>5. mpc \in Balancing =>
          \A b \in scan.freebuckets : bucket'[b].free \in {"FREE", "ATEND", "COMINGFREE"}
    BY <1>0, <2>1 DEF ScanInStep, Scans
  <2>6. QED
    BY <1>0, <2>1, <2>3, <2>4, <2>5 DEF ScanInStep
<1>2. CASE mpc' \notin Balancing
  BY <1>2 DEF ScanInStep
<1>3. CASE StartScan
  BY <1>3 DEF StartScan, NothingSeen, ScanInStep
<1>4. CASE ScanBucket
  <2> DEFINE b == scan.j
  <2>1. b \in threadbuckets /\ b <= numthreadbuckets /\ bucket' = bucket
    BY <1>4, ScanTypes, NumBuckets DEF ScanBucket, IInv, threadbuckets
  <2>2. /\ mpc = "scan" /\ mpc' \in {"scan", "weigh"}
        /\ scan'.numtogo = scan.numtogo /\ scan'.thrtogo = scan.thrtogo
        /\ \/ scan'.freebuckets = scan.freebuckets
           \/ /\ scan'.freebuckets = scan.freebuckets \cup {b}
              /\ bucket[b].free \in {"FREE", "ATEND", "COMINGFREE"}
        /\ mpc' = "weigh" => scan'.j = b
    BY <1>0, <1>4 DEF ScanBucket, Scans
  <2>3. QED
    BY <1>0, <2>1, <2>2 DEF ScanInStep
<1>5. CASE WeighBucket
  <2> DEFINE b == scan.j
             n == bucket[b].totnum - bucket[b].usenum
  <2>1. b \in threadbuckets /\ mpc = "weigh" /\ mpc' = "scan"
    BY <1>5, ScanTypes, NumBuckets DEF WeighBucket, IInv, ScanInStep, threadbuckets
  <2>2. /\ \A c \in scan.freebuckets : bucket[c].free \in {"FREE", "ATEND", "COMINGFREE"}
        /\ scan.numtogo > 0 => /\ scan.thrtogo \in threadbuckets
                               /\ TermsLeft(scan.thrtogo) <= scan.numtogo
                               /\ bucket[scan.thrtogo].free # "TERMINATED"
    BY <1>0, <2>1 DEF ScanInStep
  <2>3. CASE bucket' = bucket
    <3>1. scan'.freebuckets = scan.freebuckets
          /\ \/ scan'.numtogo = scan.numtogo /\ scan'.thrtogo = scan.thrtogo
             \/ scan'.numtogo = n /\ scan'.thrtogo = b /\ bucket[b].free = "INUSE"
      <4>1. bucket[b] \in Buckets
        BY <1>0, <2>1 DEF Types
      <4>2. ~(bucket[b].free = "RELEASED" /\ scan.bus = "TOBERELEASED")
        BY <1>0, <1>5, <2>1, <2>3, <4>1 DEF WeighBucket, Types, Buckets
      <4>3. QED
        BY <1>0, <1>5, <4>2 DEF WeighBucket, Scans
    <3>2. n \in Int
      BY <1>0, <2>1
    <3> HIDE DEF b
    <3>3. QED
      BY <2>1, <2>2, <2>3, <3>1, <3>2 DEF ScanInStep
  <2>4. CASE bucket' # bucket
    <3>1. /\ bucket' = [bucket EXCEPT ![b].free = "ATEND", ![b].busy = "PREPARINGTERM"]
          /\ scan'.numtogo = scan.numtogo /\ scan'.thrtogo = scan.thrtogo
          /\ scan'.freebuckets = scan.freebuckets \cup {b}
      BY <1>0, <1>5, <2>4 DEF WeighBucket, Scans
    <3>2. \A c \in threadbuckets :
            /\ bucket'[c].free = IF c = b THEN "ATEND" ELSE bucket[c].free
            /\ bucket'[c].totnum = bucket[c].totnum /\ bucket'[c].usenum = bucket[c].usenum
      <4>1. bucket[b] \in Buckets
        BY <1>0, <2>1 DEF Types
      <4>2. QED
        BY <1>0, <2>1, <3>1, <4>1 DEF Types, Buckets
    <3>3. scan.freebuckets \subseteq threadbuckets
      BY <1>0 DEF Scans
    <3>a. /\ scan'.numtogo = scan.numtogo /\ scan'.thrtogo = scan.thrtogo
          /\ scan'.freebuckets = scan.freebuckets \cup {b}
      BY <3>1
    <3> HIDE DEF b
    <3>4. ASSUME NEW c \in scan'.freebuckets
          PROVE  bucket'[c].free \in {"FREE", "ATEND", "COMINGFREE"}
      <4>1. CASE c = b
        BY <2>1, <3>2, <4>1
      <4>2. CASE c \in scan.freebuckets /\ c # b
        BY <2>2, <3>2, <3>3, <4>2
      <4>3. QED
        BY <3>a, <4>1, <4>2
    <3>5. scan'.numtogo > 0 =>
            /\ scan'.thrtogo \in threadbuckets
            /\ bucket'[scan'.thrtogo].totnum - bucket'[scan'.thrtogo].usenum <= scan'.numtogo
            /\ bucket'[scan'.thrtogo].free # "TERMINATED"
      <4>1. SUFFICES ASSUME scan.numtogo > 0
                     PROVE  LET c == scan.thrtogo IN
                            /\ c \in threadbuckets /\ bucket'[c].free # "TERMINATED"
                            /\ bucket'[c].totnum - bucket'[c].usenum <= scan.numtogo
        BY <3>a
      <4>2. QED
        BY <2>2, <3>2, <4>1
    <3>6. QED
      BY <2>1, <3>4, <3>5 DEF ScanInStep
  <2>5. QED
    BY <2>3, <2>4
<1>6. CASE Decide
  <2>1. CASE scan' = NothingSeen /\ mpc' # "steal"
    BY <1>6, <2>1 DEF Decide, NothingSeen, ScanInStep
  <2>2. CASE mpc' = "steal"
    <3>1. /\ thr' = scan.thrtogo /\ scan' = scan /\ bucket' = bucket /\ mpc = "scan"
          /\ scan.numtogo > 0 /\ scan.freebuckets # {}
      BY <1>6, <2>2 DEF Decide
    <3>2. QED
      BY <1>0, <2>2, <3>1 DEF ScanInStep
  <2>3. QED
    BY <1>6, <2>1, <2>2 DEF Decide
<1>7. CASE Steal
  <2>1. mpc = "steal" /\ thr' = thr /\ wpc' = wpc /\ threadbuck' = threadbuck
    BY <1>7 DEF Steal, workervars
  <2>2. CASE mpc' = "share"
    <3>1. /\ bucket' = [bucket EXCEPT ![thr].free = "TERMINATED"] /\ scan' = scan /\ lock' = thr
          /\ bucket[thr].busy = "DOINGTERM" /\ TermsLeft(thr) >= scan.numtogo
      BY <1>7, <2>2 DEF Steal, MaySteal
    <3>2. PICK w \in Workers : wpc[w] = "generate" /\ threadbuck[w] = thr
      BY <1>0, <3>1 DEF IInv, DoingTermIsTrue
    <3>3. bucket[thr].free \in {"INUSE", "TERMINATED"}
      BY <3>2 DEF IInv, ReadingInStep, InStep, Reading
    <3>4. /\ thr = scan.thrtogo /\ scan.numtogo > 0 /\ scan.freebuckets # {}
          /\ TermsLeft(thr) <= scan.numtogo
          /\ \A c \in scan.freebuckets : bucket[c].free \in {"FREE", "ATEND", "COMINGFREE"}
      BY <1>0, <2>1 DEF ScanInStep
    <3>5. \A c \in threadbuckets :
            /\ bucket'[c].free = IF c = thr THEN "TERMINATED" ELSE bucket[c].free
            /\ bucket'[c].totnum = bucket[c].totnum /\ bucket'[c].usenum = bucket[c].usenum
      <4>1. bucket[thr] \in Buckets
        BY <1>0 DEF Types
      <4>2. QED
        BY <1>0, <3>1, <4>1 DEF Types, Buckets
    <3>6. \A c \in scan.freebuckets : bucket'[c].free \in {"FREE", "ATEND", "COMINGFREE"}
      BY <1>0, <3>3, <3>4, <3>5 DEF Scans
    <3>7. TermsLeft(thr) = scan.numtogo
      BY <1>0, <3>1, <3>4
    <3>8. TermsLeft(thr)' = scan.numtogo /\ TermsLeft(scan.thrtogo)' <= scan.numtogo
      BY <1>0, <2>1, <3>1, <3>4, <3>5, <3>7
    <3>9. QED
      BY <1>0, <2>1, <2>2, <3>1, <3>2, <3>4, <3>5, <3>6, <3>8 DEF ScanInStep
  <2>3. CASE mpc' # "share"
    BY <1>7, <2>3 DEF Steal, NothingSeen, ScanInStep
  <2>4. QED
    BY <2>2, <2>3
<1>8. CASE UNCHANGED vars
  BY <1>0, <1>8 DEF vars, workervars, ScanInStep
<1>9. QED
  BY <1>1, <1>2, <1>3, <1>4, <1>5, <1>6, <1>7, <1>8 DEF Next, Master, SendOneBucket,
     GetFirstTerm, OpenBucket, GetAnotherTerm, StopFilling, CloseBucket, LoadAnother, PickBucket,
     DoBucket, AfterSend, FindBucket, ShareOut, MasterWaitAll

-----------------------------------------------------------------------------
(* Every term has one place *)

\* Term t waits at place i of bucket b.
At(b, i, t) == i \in 1..Size(b) /\ Waiting(b, i) /\ bucket[b].terms[i] = t

LEMMA TermsWait ==
  ASSUME IInv
  PROVE  /\ \A b, c \in threadbuckets : \A i, j \in Nat : \A t \in Terms :
              At(b, i, t) /\ At(c, j, t) => b = c /\ i = j
         /\ \A b \in threadbuckets : \A i \in Nat : \A t \in Terms :
              At(b, i, t) => t < nextterm /\ executed[t] = 0
         /\ \A t \in Terms : t < nextterm /\ executed[t] = 0 =>
              \E b \in threadbuckets : \E i \in Nat : At(b, i, t)
         /\ \A t \in Terms : t >= nextterm => executed[t] = 0
         /\ \A b \in threadbuckets : \A i \in 1..Size(b) : bucket[b].terms[i] \in Terms
<1>1. \A b \in threadbuckets : Size(b) \in Nat /\ \A i \in 1..Size(b) : bucket[b].terms[i] \in Terms
  BY BucketNumbers, SizesAssumption DEF Size
<1>2. EveryTermHasOnePlace
  BY DEF IInv
<1>3. QED
  BY <1>1, <1>2 DEF EveryTermHasOnePlace, At, Place

LEMMA TermsWaitNext ==
  ASSUME Types',
         \A b, c \in threadbuckets : \A i, j \in Nat : \A t \in Terms :
           At(b, i, t)' /\ At(c, j, t)' => b = c /\ i = j,
         \A b \in threadbuckets : \A i \in Nat : \A t \in Terms :
           At(b, i, t)' => t < nextterm' /\ executed'[t] = 0,
         \A t \in Terms : t < nextterm' /\ executed'[t] = 0 =>
           \E b \in threadbuckets : \E i \in Nat : At(b, i, t)',
         \A t \in Terms : t >= nextterm' => executed'[t] = 0
  PROVE  EveryTermHasOnePlace'
<1>1. ASSUME NEW b \in threadbuckets
      PROVE  Size(b)' \in Nat /\ \A i \in 1..Size(b)' : bucket'[b].terms[i] \in Terms
  <2>1. bucket'[b].terms \in Seq(Terms)
    BY DEF Types, Buckets
  <2>2. QED
    BY <2>1 DEF Size
<1>2. QED
  BY <1>1 DEF EveryTermHasOnePlace, At, Place

\* A bucket that is filled or being filled: all its terms wait, and nobody reads it.
Fillable(b) == Free(b) = "FILLED" \/ (b = thr /\ mpc \in Filling)
Reads(b, i) == \E w \in Workers : Reading(w) /\ threadbuck[w] = b /\ i > Done(w)

LEMMA NobodyReads ==
  ASSUME IInv, NEW b \in threadbuckets,
         \/ Fillable(b) \/ Free(b) \notin {"INUSE", "TERMINATED"}
         \/ b = thr /\ mpc = "bucket"
  PROVE  \A w \in Workers : Reading(w) => threadbuck[w] # b
<1>1. Free(b) \notin {"INUSE", "TERMINATED"}
  BY DEF Fillable, IInv, FillingInStep
<1>2. QED
  BY <1>1, Reader

\* Of a bucket with a reader the terms wait that the reader is not done with.
LEMMA ReaderIsAlone ==
  ASSUME IInv, NEW w \in Workers, Reading(w), NEW i
  PROVE  /\ ~Fillable(threadbuck[w])
         /\ Waiting(threadbuck[w], i) <=> i > Done(w)
<1>1. threadbuck[w] \in threadbuckets
      /\ \A v \in Workers : Reading(v) /\ threadbuck[v] = threadbuck[w] => v = w
  BY Reader
<1>2. ~Fillable(threadbuck[w])
  BY <1>1, NobodyReads
<1>3. QED
  BY <1>1, <1>2 DEF Waiting, Fillable

LEMMA WaitingAndWorkers ==
  ASSUME IInv, NEW w \in Workers, Worker(w), NEW c \in threadbuckets, NEW i \in 1..Size(c)
  PROVE  Waiting(c, i)' <=>
           Waiting(c, i) /\ ~(wpc[w] = "generate" /\ c = threadbuck[w] /\ i = ttin[w])
<1> DEFINE b == threadbuck[w]
<1>1. /\ OthersStay(w) /\ WorkerStep(w) /\ b \in threadbuckets
  BY WorkerSteps
<1>2. /\ b # 0 /\ b \in threadbuckets
  BY <1>1 DEF threadbuckets
<1>3. \A v \in Workers \ {w} :
        /\ Reading(v)' <=> Reading(v)
        /\ threadbuck'[v] = threadbuck[v] /\ Done(v)' = Done(v)
  BY <1>1 DEF OthersStay, Reading, Done
<1>4. mpc' = mpc /\ thr' = thr
  BY <1>1 DEF OthersStay
<1> HIDE DEF b
<1>5. CASE c # b
  <2>1. threadbuck'[w] # c /\ threadbuck[w] # c /\ bucket'[c] = bucket[c]
    <3>1. threadbuck'[w] \in {b, 0} /\ c # 0
      BY <1>1 DEF WorkerStep, Goes, b, threadbuckets
    <3>2. QED
      BY <1>1, <1>5, <3>1 DEF OthersStay, b
  <2>2. Fillable(c)' <=> Fillable(c)
    BY <1>4, <2>1 DEF Fillable, Free
  <2>3. Reads(c, i)' <=> Reads(c, i)
    BY <1>3, <2>1 DEF Reads
  <2>4. QED
    BY <1>5, <2>2, <2>3 DEF Waiting, Fillable, Reads, b
<1>6. CASE c = b /\ ~Reading(w)
  <2>1. wpc[w] = "release" /\ wpc'[w] = "idle" /\ bucket'[b].free = bucket[b].free
    BY <1>1, <1>6 DEF WorkerStep, Goes, Becomes, b
  <2>2. Fillable(c)' <=> Fillable(c)
    BY <1>4, <1>6, <2>1 DEF Fillable, Free
  <2>3. ~Reading(w)'
    BY <2>1 DEF Reading
  <2>4. Reads(c, i)' <=> Reads(c, i)
    BY <1>3, <1>6, <2>3 DEF Reads
  <2>5. QED
    BY <2>1, <2>2, <2>4 DEF Waiting, Fillable, Reads
<1>7. CASE c = b /\ Reading(w)
  <2>1. /\ ttin[w] \in 0..Size(b) /\ Free(b) \in {"INUSE", "TERMINATED"}
        /\ \A v \in Workers : Reading(v) /\ threadbuck[v] = b => v = w
        /\ IF wpc[w] = "start" THEN ttin[w] = 0 ELSE ttin[w] > 0
        /\ Free(b) = "TERMINATED" /\ ~Robbed(b) => Size(b) = ttin[w]
    BY <1>7, Reader DEF b
  <2>2. ~Fillable(b) /\ (Waiting(c, i) <=> i > Done(w))
    BY <1>7, ReaderIsAlone DEF b
  <2>3. bucket'[b].free # "FILLED"
    BY <1>1, <1>7, <2>1 DEF WorkerStep, Goes, Becomes, Free, b
  <2>4. ~Fillable(c)'
    BY <1>4, <1>7, <2>2, <2>3 DEF Fillable, Free
  <2>5. Waiting(c, i)' <=> Reading(w)' /\ threadbuck'[w] = b /\ i > Done(w)'
    <3>1. \A v \in Workers \ {w} : ~(Reading(v)' /\ threadbuck'[v] = b)
      BY <1>3, <2>1
    <3>2. QED
      BY <1>7, <2>4, <3>1 DEF Waiting, Fillable
  <2>6. /\ Size(b) \in Nat /\ i \in Nat /\ ttin[w] \in Nat
        /\ wpc[w] # "start" => ttin[w] - 1 \in Nat
    <3>1. Size(b) \in Nat
      BY <1>2, BucketNumbers, SizesAssumption
    <3>2. QED
      BY <1>7, <2>1, <3>1
  <2>7. i <= Size(b)
    BY <1>7, <2>6
  <2>8. CASE wpc[w] \in {"start", "copy"}
    <3>1. wpc'[w] = "check" /\ ttin'[w] = ttin[w] + 1 /\ threadbuck'[w] = b
      BY <1>1, <2>8 DEF WorkerStep, Goes, b
    <3>2. Done(w)' = Done(w) /\ Reading(w)'
      BY <2>6, <2>8, <3>1 DEF Done, Reading
    <3>3. QED
      BY <2>2, <2>5, <2>8, <3>1, <3>2
  <2>9. CASE wpc[w] \in {"check", "take"} \/ (wpc[w] \in {"more", "checkagain"} /\ wpc'[w] # "release")
    <3>1. /\ wpc[w] \in {"check", "take"} => wpc'[w] \in {"take", "generate"}
          /\ wpc[w] \in {"checkagain", "more"} => wpc'[w] \in {"more", "copy"}
          /\ ttin'[w] = ttin[w] /\ threadbuck'[w] = b
      BY <1>1, <2>9 DEF WorkerStep, Goes, b
    <3>2. Done(w)' = Done(w) /\ Reading(w)'
      BY <2>9, <3>1 DEF Done, Reading
    <3>3. QED
      BY <2>2, <2>5, <2>9, <3>1, <3>2
  <2>10. CASE wpc[w] = "generate"
    <3>1. wpc'[w] = "checkagain" /\ ttin'[w] = ttin[w] /\ threadbuck'[w] = b
      BY <1>1, <2>10 DEF WorkerStep, Goes, b
    <3>2. Done(w)' = ttin[w] /\ Done(w) = ttin[w] - 1 /\ Reading(w)'
      BY <2>10, <3>1 DEF Done, Reading
    <3>3. i > ttin[w] <=> i > ttin[w] - 1 /\ i # ttin[w]
      BY <2>6
    <3>4. QED
      BY <1>7, <2>2, <2>5, <2>10, <3>1, <3>2, <3>3 DEF b
  <2>11. CASE wpc[w] \in {"more", "checkagain"} /\ wpc'[w] = "release"
    <3>1. ttin[w] = Size(b)
      <4>1. CASE wpc[w] = "more"
        BY <1>1, <2>11, <4>1 DEF WorkerStep, Goes, b
      <4>2. CASE wpc[w] = "checkagain"
        <5>1. Free(b) = "TERMINATED"
          BY <1>1, <2>11, <4>2 DEF WorkerStep, Goes, Free, b
        <5>2. ~Robbed(b)
          BY <2>1, <4>2 DEF IInv, ScanInStep, Robbed, Reading
        <5>3. QED
          BY <2>1, <5>1, <5>2
      <4>3. QED
        BY <2>11, <4>1, <4>2
    <3>2. Done(w) = ttin[w] /\ ~Reading(w)'
      BY <2>11 DEF Done, Reading
    <3>3. ~(i > ttin[w])
      BY <2>6, <2>7, <3>1
    <3>4. QED
      BY <2>2, <2>5, <2>11, <3>2, <3>3
  <2>12. QED
    BY <1>7, <2>8, <2>9, <2>10, <2>11 DEF Reading
<1>8. QED
  BY <1>5, <1>6, <1>7

\* The master moves the waiting terms only by GetFirstTerm, GetAnotherTerm and ShareOut.
MasterKeepsTerms == MasterElse /\ ~GetFirstTerm /\ ~GetAnotherTerm

LEMMA FillableStays ==
  ASSUME IInv, MasterKeepsTerms \/ Steal, NEW c \in threadbuckets
  PROVE  Fillable(c)' <=> Fillable(c)
<1> USE DEF Fillable, Free
<1>0. /\ bucket \in [threadbuckets -> Buckets] /\ bucket[c] \in Buckets /\ thr \in threadbuckets
  BY DEF IInv, Types
<1>1. CASE OpenBucket
  <2>1. bucket'[c].free = bucket[c].free /\ thr' = thr /\ mpc' = "more"
        /\ mpc \in {"open", "first"}
    BY <1>1, MasterFields DEF OpenBucket
  <2>2. QED
    BY <2>1 DEF Filling
<1>2. CASE StopFilling
  BY <1>2 DEF StopFilling, Filling
<1>3. CASE CloseBucket
  <2>1. bucket' = [bucket EXCEPT ![thr].free = "FILLED"] /\ mpc = "full" /\ thr' = thr
        /\ mpc' \notin Filling
    BY <1>3 DEF CloseBucket, Filling
  <2>2. bucket'[c].free = IF c = thr THEN "FILLED" ELSE bucket[c].free
    BY <1>0, <2>1 DEF Buckets
  <2>3. QED
    BY <2>1, <2>2 DEF Filling
<1>4. CASE LoadAnother \/ FindBucket
  <2>1. mpc \notin Filling /\ mpc' \notin Filling
    BY <1>4 DEF LoadAnother, FindBucket, Filling
  <2>2. bucket'[c].free = "FILLED" <=> bucket[c].free = "FILLED"
    <3>1. CASE LoadAnother
      <4>1. \/ bucket' = bucket
            \/ \E b \in threadbuckets : /\ bucket' = [bucket EXCEPT ![b].free = "FREE"]
                                        /\ bucket[b].free # "FILLED"
        BY <3>1 DEF LoadAnother, ReadyBuckets, Ready
      <4>2. QED
        BY <1>0, <4>1 DEF Buckets
    <3>2. CASE FindBucket
      <4>1. \/ \E b \in threadbuckets : /\ bucket' = [bucket EXCEPT ![b].free = "FREE"]
                                        /\ bucket[b].free # "FILLED"
            \/ bucket'[c] = IF Ready(c) THEN [bucket[c] EXCEPT !.free = "ATEND"] ELSE bucket[c]
        BY <3>2 DEF FindBucket, ReadyBuckets, Ready
      <4>2. QED
        BY <1>0, <4>1 DEF Ready, Buckets
    <3>3. QED
      BY <1>4, <3>1, <3>2
  <2>3. QED
    BY <2>1, <2>2
<1>5. CASE PickBucket \/ AfterSend \/ StartScan \/ ScanBucket \/ Decide \/ MasterWaitAll
  <2>1. bucket' = bucket /\ mpc \notin Filling /\ mpc' \notin Filling
    BY <1>5 DEF PickBucket, AfterSend, StartScan, ScanBucket, Decide, MasterWaitAll, Filling
  <2>2. QED
    BY <2>1
<1>6. CASE WeighBucket
  <2>1. mpc \notin Filling /\ mpc' \notin Filling
    BY <1>6 DEF WeighBucket, Filling
  <2>2. bucket'[c].free = "FILLED" <=> bucket[c].free = "FILLED"
    <3>1. scan.j \in threadbuckets
      BY <1>6, ScanTypes, NumBuckets DEF WeighBucket, IInv, ScanInStep, threadbuckets
    <3> DEFINE b == scan.j
    <3>2. \/ bucket' = bucket
          \/ /\ bucket' = [bucket EXCEPT ![b].free = "ATEND", ![b].busy = "PREPARINGTERM"]
             /\ bucket[b].free = "RELEASED"
      BY <1>6 DEF WeighBucket
    <3>3. bucket[b] \in Buckets
      BY <1>0, <3>1
    <3> HIDE DEF b
    <3>4. QED
      BY <1>0, <3>2, <3>3 DEF Buckets
  <2>3. QED
    BY <2>1, <2>2
<1>7. CASE Steal
  <2>1. mpc \notin Filling /\ mpc' \notin Filling /\ mpc = "steal"
    BY <1>7 DEF Steal, Filling
  <2>2. \/ bucket' = bucket
        \/ /\ bucket' = [bucket EXCEPT ![thr].free = "TERMINATED"] /\ bucket[thr].busy = "DOINGTERM"
    BY <1>7 DEF Steal, MaySteal
  <2>3. bucket[thr].busy = "DOINGTERM" => bucket[thr].free # "FILLED"
    <3> SUFFICES ASSUME bucket[thr].busy = "DOINGTERM" PROVE bucket[thr].free # "FILLED"
      OBVIOUS
    <3>1. PICK w \in Workers : wpc[w] = "generate" /\ threadbuck[w] = thr
      BY <1>0 DEF IInv, DoingTermIsTrue
    <3>2. QED
      BY <3>1 DEF IInv, ReadingInStep, InStep, Reading
  <2>4. bucket'[c].free = "FILLED" <=> bucket[c].free = "FILLED"
    BY <1>0, <2>2, <2>3 DEF Buckets
  <2>5. QED
    BY <2>1, <2>4
<1>8. QED
  BY <1>1, <1>2, <1>3, <1>4, <1>5, <1>6, <1>7 DEF MasterKeepsTerms, MasterElse, Master

\* The master's steps that leave the workers where they are leave their terms where they are.
LEMMA ReadsStay ==
  ASSUME UNCHANGED <<wpc, threadbuck, ttin>>, NEW b, NEW i
  PROVE  Reads(b, i)' <=> Reads(b, i)
BY DEF Reads, Reading, Done

LEMMA WaitingParts ==
  ASSUME NEW b, NEW i
  PROVE  /\ Waiting(b, i) <=> Fillable(b) \/ Reads(b, i)
         /\ Waiting(b, i)' <=> Fillable(b)' \/ Reads(b, i)'
BY DEF Waiting, Fillable, Reads

LEMMA PlacesStay ==
  ASSUME IInv, MasterKeepsTerms \/ Steal, NEW b \in threadbuckets, NEW i \in Nat, NEW t
  PROVE  At(b, i, t)' <=> At(b, i, t)
<1>1. UNCHANGED <<wpc, threadbuck, ttin>>
  BY MasterLeavesReadersAlone DEF MasterKeepsTerms, Steal, workervars
<1>2. bucket'[b].terms = bucket[b].terms
  <2>1. CASE bucket' = bucket
    BY <2>1
  <2>2. CASE OpenBucket \/ CloseBucket \/ LoadAnother \/ FindBucket \/ WeighBucket \/ Steal
    BY <2>2, MasterFields
  <2>3. QED
    BY <2>1, <2>2 DEF MasterKeepsTerms, MasterElse, Master, StopFilling, PickBucket, AfterSend,
       StartScan, ScanBucket, Decide, MasterWaitAll
<1>3. QED
  BY <1>1, <1>2, FillableStays, ReadsStay, WaitingParts DEF At, Size

LEMMA PlacesStayWhenSent ==
  ASSUME IInv, SendOneBucket \/ DoBucket, NEW c \in threadbuckets, NEW i \in Nat, NEW t
  PROVE  At(c, i, t)' <=> At(c, i, t)
<1>1. PICK b \in threadbuckets :
             /\ Free(b) = "FILLED" /\ Send(b) /\ thr' = thr
             /\ \/ mpc = "dobucket" /\ b = thr /\ mpc' = "sent"
                \/ mpc = "first" /\ mpc' = "open"
                \/ mpc = "more" /\ mpc' = "get" /\ RoomInBucket
  BY SendSteps
<1>2. /\ bucket'[b].free = "INUSE" /\ \A d \in threadbuckets \ {b} : bucket'[d] = bucket[d]
      /\ bucket'[b].terms = bucket[b].terms
      /\ UNCHANGED <<ttin, executed>>
  BY <1>1, SendDoes
<1>3. PICK w \in Workers : /\ w \in available /\ wpc[w] = "idle" /\ ttin[w] = 0
                           /\ threadbuck' = [threadbuck EXCEPT ![w] = b]
                           /\ wpc' = [wpc EXCEPT ![w] = "start"]
  BY <1>1, SendDoes
<1>4. /\ \A v \in Workers \ {w} : wpc'[v] = wpc[v] /\ threadbuck'[v] = threadbuck[v]
      /\ wpc'[w] = "start" /\ threadbuck'[w] = b
  BY <1>3 DEF IInv, Types
<1>5. \A v \in Workers \ {w} : (Reading(v)' <=> Reading(v)) /\ Done(v)' = Done(v)
  BY <1>2, <1>4 DEF Reading, Done
<1>6. /\ ~Reading(w) /\ Reading(w)' /\ Done(w)' = 0
  BY <1>2, <1>3, <1>4 DEF Reading, Done
<1>7. CASE c = b
  <2>1. i \in 1..Size(b) => i > 0
    OBVIOUS
  <2>2. i \in 1..Size(b) => Waiting(b, i)' /\ Waiting(b, i)
    BY <1>1, <1>4, <1>6, <2>1 DEF Waiting
  <2>3. QED
    BY <1>2, <1>7, <2>2 DEF At, Size
<1>8. CASE c # b
  <2>1. bucket'[c] = bucket[c]
    BY <1>2, <1>8
  <2>2. Reads(c, i)' <=> Reads(c, i)
    BY <1>4, <1>5, <1>6, <1>8 DEF Reads
  <2>3. Fillable(c)' <=> Fillable(c)
    BY <1>1, <1>8, <2>1 DEF Fillable, Free, Filling
  <2>4. QED
    BY <2>1, <2>2, <2>3, WaitingParts DEF At, Size
<1>9. QED
  BY <1>7, <1>8

\* A term is read: it waits in the bucket that is being filled.
LEMMA TermIsAdded ==
  ASSUME IInv, GetFirstTerm \/ GetAnotherTerm, ~(nextterm > NumTerms)
  PROVE  /\ nextterm' = nextterm + 1 /\ nextterm \in Terms /\ thr \in threadbuckets
         /\ \E n \in Nat : \A b \in threadbuckets : \A i \in Nat : \A t \in Terms :
              At(b, i, t)' <=> At(b, i, t) \/ (b = thr /\ i = n + 1 /\ t = nextterm)
         /\ \A b \in threadbuckets : \A i \in Nat : \A t \in Terms :
              At(b, i, t) /\ GetFirstTerm => b # thr
         /\ UNCHANGED executed
<1> DEFINE n == IF GetFirstTerm THEN 0 ELSE Size(thr)
<1>0. /\ Types /\ thr \in threadbuckets /\ nextterm \in Nat /\ Size(thr) \in Nat
      /\ bucket[thr].terms \in Seq(Terms)
  BY BucketNumbers, SizesAssumption DEF IInv, Types
<1>1. /\ nextterm' = nextterm + 1 /\ UNCHANGED <<executed, wpc, threadbuck, ttin, thr>>
      /\ mpc' \in Filling
      /\ mpc = "bucket" \/ mpc \in Filling
      /\ GetFirstTerm <=> mpc = "bucket"
  BY DEF GetFirstTerm, GetAnotherTerm, workervars, Filling
<1>2. nextterm \in Terms
  BY <1>0, SizesAssumption DEF IInv, Types, Terms
<1>3. \A b \in threadbuckets : bucket'[b].free = bucket[b].free
                               /\ (b # thr => bucket'[b].terms = bucket[b].terms)
  BY MasterFields
<1>4. bucket[thr].free = "FREE"
  BY <1>1 DEF IInv, FillingInStep, Free
<1>5. ASSUME NEW b \in threadbuckets, NEW i \in Nat, NEW t \in Terms, b # thr
      PROVE  At(b, i, t)' <=> At(b, i, t)
  <2>1. Fillable(b)' <=> Fillable(b)
    BY <1>1, <1>3, <1>5 DEF Fillable, Free
  <2>2. QED
    BY <1>1, <1>3, <1>5, <2>1, ReadsStay, WaitingParts DEF At, Size
<1>6. \A i \in Nat : Waiting(thr, i)' /\ (mpc \in Filling => Waiting(thr, i))
  BY <1>1 DEF Waiting
<1>7. ASSUME GetFirstTerm, NEW i \in Nat PROVE ~Waiting(thr, i)
  <2>1. mpc = "bucket" /\ ~Fillable(thr)
    BY <1>1, <1>4, <1>7 DEF Fillable, Free, Filling
  <2>2. ~Reads(thr, i)
    BY <1>0, <2>1, NobodyReads DEF Reads
  <2>3. QED
    BY <2>1, <2>2, WaitingParts
<1>8. ASSUME NEW i \in Nat, NEW t \in Terms
      PROVE  At(thr, i, t)' <=> At(thr, i, t) \/ (i = n + 1 /\ t = nextterm)
  <2>1. CASE GetFirstTerm
    <3>1. bucket'[thr].terms = <<nextterm>>
      BY <1>0, <2>1, MasterFields
    <3>2. At(thr, i, t)' <=> i \in 1..1 /\ nextterm = t
      <4>1. Len(<<nextterm>>) = 1 /\ <<nextterm>>[1] = nextterm
        OBVIOUS
      <4>2. QED
        BY <1>1, <1>6, <3>1, <4>1 DEF At, Size
    <3>3. ~At(thr, i, t)
      BY <1>7, <2>1 DEF At
    <3>4. QED
      BY <2>1, <3>2, <3>3
  <2>2. CASE ~GetFirstTerm
    <3> DEFINE s == bucket[thr].terms
    <3>1. bucket'[thr].terms = Append(s, nextterm) /\ s \in Seq(Terms) /\ mpc \in Filling
      BY <1>0, <1>1, <2>2, MasterFields
    <3>2. Len(Append(s, nextterm)) = Len(s) + 1 /\ Append(s, nextterm)[Len(s) + 1] = nextterm
          /\ \A j \in 1..Len(s) : Append(s, nextterm)[j] = s[j]
          /\ Len(s) \in Nat
      BY <1>2, <3>1
    <3> HIDE DEF s
    <3>3. At(thr, i, t)' <=> i \in 1..Len(s)+1 /\ Append(s, nextterm)[i] = t
      BY <1>1, <1>6, <3>1, <3>2 DEF At, Size
    <3>4. At(thr, i, t) <=> i \in 1..Len(s) /\ s[i] = t
      BY <1>6, <3>1 DEF At, Size, s
    <3>5. n = Len(s)
      BY <2>2 DEF Size, s
    <3>6. QED
      BY <3>2, <3>3, <3>4, <3>5
  <2>3. QED
    BY <2>1, <2>2
<1>9. n \in Nat
  BY <1>0
<1>10. \A b \in threadbuckets : \A i \in Nat : \A t \in Terms :
         At(b, i, t) /\ GetFirstTerm => b # thr
  BY <1>7 DEF At
<1> HIDE DEF n
<1>11. \A b \in threadbuckets : \A i \in Nat : \A t \in Terms :
              At(b, i, t)' <=> At(b, i, t) \/ (b = thr /\ i = n + 1 /\ t = nextterm)
  BY <1>1, <1>5, <1>8
<1>12. QED
  BY <1>0, <1>1, <1>2, <1>9, <1>10, <1>11

\* The terms that are shared out: where a term that waits afterwards was before, and where
\* a term that was waiting is afterwards.
Moved(c, i, d, j) ==
  \/ /\ c \in scan.freebuckets /\ ShareOf(c) > 0 /\ d = thr
     /\ i \in 1..ShareOf(c) /\ j = bucket[thr].usenum + BeforeOf(c) + i
  \/ /\ ~(c \in scan.freebuckets /\ ShareOf(c) > 0) /\ d = c /\ j = i
     /\ c = thr => i <= bucket[thr].usenum

LEMMA SharedOut ==
  ASSUME IInv, ShareOut, NEW c \in threadbuckets, NEW i \in Nat, NEW t \in Terms
  PROVE  /\ At(c, i, t)' => \E d \in threadbuckets : \E j \in Nat : Moved(c, i, d, j) /\ At(d, j, t)
         /\ \A d \in threadbuckets : \A j \in Nat :
              Moved(c, i, d, j) /\ At(d, j, t) => At(c, i, t)'
<1> DEFINE u == bucket[thr].usenum
           n == scan.numtogo
<1>0. /\ mpc = "share" /\ mpc' = "finalize" /\ thr' = thr
      /\ UNCHANGED <<wpc, threadbuck, ttin, executed, nextterm>>
  BY DEF ShareOut, workervars, inputvars
<1>1. /\ thr \in threadbuckets /\ thr \notin scan.freebuckets /\ u \in Nat
      /\ Size(thr) = u + n /\ n \in 1..BucketSize
      /\ Free(thr) = "TERMINATED" /\ scan.freebuckets \subseteq threadbuckets
      /\ \E w \in Workers : wpc[w] = "generate" /\ threadbuck[w] = thr
  BY <1>0, RobbedBucket
<1>2. PICK w \in Workers : wpc[w] = "generate" /\ threadbuck[w] = thr
  BY <1>1
<1>3. /\ ttin[w] = u /\ ttin[w] > 0 /\ ~Fillable(thr)
      /\ \A k \in Nat : Waiting(thr, k) <=> k > u - 1
  <2>1. Reading(w)
    BY <1>2 DEF Reading
  <2>2. Done(w) = ttin[w] - 1
    BY <1>2 DEF Done
  <2>3. ttin[w] = u /\ ttin[w] > 0
    BY <1>2, <2>1, Reader
  <2>4. \A k \in Nat : Waiting(thr, k) <=> k > Done(w)
    BY <1>2, <2>1, ReaderIsAlone
  <2>5. ~Fillable(thr)
    BY <1>2, <2>1, ReaderIsAlone
  <2>6. QED
    BY <2>2, <2>3, <2>4, <2>5
<1>4. CASE c \in scan.freebuckets /\ ShareOf(c) > 0
  <2>1. /\ bucket'[c] = Refilled(c) /\ Len(bucket'[c].terms) = ShareOf(c)
        /\ \A k \in 1..ShareOf(c) : bucket'[c].terms[k] = bucket[thr].terms[u + BeforeOf(c) + k]
    <3>1. ~(ShareOf(c) = 0) /\ c # thr
      BY <1>1, <1>4
    <3>2. QED
      BY <1>4, <3>1, ShareOutDoes
  <2>2. bucket'[c].free = "FILLED"
    BY <2>1 DEF Refilled
  <2>3. ShareOf(c) \in Nat /\ BeforeOf(c) \in Nat /\ BeforeOf(c) + ShareOf(c) <= n
    BY <1>0, <1>1, <1>4, SharesOfFreeBuckets, SizesAssumption
  <2>4. At(c, i, t)' <=> i \in 1..ShareOf(c) /\ bucket[thr].terms[u + BeforeOf(c) + i] = t
    BY <2>1, <2>2 DEF At, Waiting, Free, Size
  <2> DEFINE k == u + BeforeOf(c) + i
  <2>5. i \in 1..ShareOf(c) => k \in 1..Size(thr) /\ k > u - 1 /\ k \in Nat
    BY <1>1, <2>3, SizesAssumption
  <2>6. i \in 1..ShareOf(c) => Moved(c, i, thr, k)
    BY <1>4 DEF Moved
  <2>7. i \in 1..ShareOf(c) => (At(thr, k, t) <=> bucket[thr].terms[k] = t)
    BY <1>3, <2>5 DEF At
  <2>8. \A d \in threadbuckets : \A j \in Nat :
          Moved(c, i, d, j) => i \in 1..ShareOf(c) /\ d = thr /\ j = k
    BY <1>4 DEF Moved
  <2> HIDE DEF k, u
  <2>9. At(c, i, t)' <=> i \in 1..ShareOf(c) /\ bucket[thr].terms[k] = t
    BY <2>4 DEF k, u
  <2>10. QED
    BY <1>1, <2>5, <2>6, <2>7, <2>8, <2>9
<1>5. CASE c = thr
  <2>1. /\ Len(bucket'[thr].terms) = u
        /\ \A k \in 1..u : bucket'[thr].terms[k] = bucket[thr].terms[k]
        /\ bucket'[thr].free = "TERMINATED"
    <3>1. /\ bucket'[thr] = [bucket[thr] EXCEPT !.terms = SubSeq(@, 1, u)]
          /\ Len(bucket'[thr].terms) = u
          /\ \A k \in 1..u : bucket'[thr].terms[k] = bucket[thr].terms[k]
      BY <1>1, ShareOutDoes
    <3>2. bucket[thr] \in Buckets
      BY <1>1 DEF IInv, Types
    <3>3. QED
      BY <1>1, <3>1, <3>2 DEF Free, Buckets
  <2>2. ~Fillable(thr)'
    BY <1>0, <2>1 DEF Fillable, Free, Filling
  <2>3. Waiting(thr, i)' <=> Waiting(thr, i)
    BY <1>0, <1>3, <2>2, ReadsStay, WaitingParts
  <2>4. At(thr, i, t)' <=> i \in 1..u /\ Waiting(thr, i) /\ bucket[thr].terms[i] = t
    BY <1>0, <2>1, <2>3 DEF At, Size
  <2>5. i \in 1..u <=> i \in 1..Size(thr) /\ i <= u
    BY <1>1, SizesAssumption
  <2>6. At(thr, i, t)' <=> i <= u /\ At(thr, i, t)
    BY <2>4, <2>5 DEF At
  <2>7. \A d \in threadbuckets : \A j \in Nat :
          Moved(c, i, d, j) <=> i <= u /\ d = thr /\ j = i
    BY <1>1, <1>5 DEF Moved
  <2>8. QED
    BY <1>0, <1>1, <1>5, <2>6, <2>7
<1>6. CASE c # thr /\ ~(c \in scan.freebuckets /\ ShareOf(c) > 0)
  <2>1. bucket'[c] = bucket[c]
    BY <1>6, ShareOutDoes
  <2>2. Fillable(c)' <=> Fillable(c)
    BY <1>0, <2>1 DEF Fillable, Free, Filling
  <2>3. At(c, i, t)' <=> At(c, i, t)
    BY <1>0, <2>1, <2>2, ReadsStay, WaitingParts DEF At, Size
  <2>4. \A d \in threadbuckets : \A j \in Nat : Moved(c, i, d, j) <=> d = c /\ j = i
    BY <1>6 DEF Moved
  <2>5. QED
    BY <2>3, <2>4
<1>7. QED
  BY <1>4, <1>5, <1>6

\* A term is not shared out twice, and every term that waits goes somewhere.
LEMMA MovedOnce ==
  ASSUME IInv, mpc = "share", NEW b \in threadbuckets, NEW c \in threadbuckets,
         NEW i \in Nat, NEW k \in Nat, NEW d, NEW j,
         Moved(b, i, d, j), Moved(c, k, d, j)
  PROVE  b = c /\ i = k
<1> DEFINE u == bucket[thr].usenum
           Gets(x) == x \in scan.freebuckets /\ ShareOf(x) > 0
<1>1. /\ thr \notin scan.freebuckets /\ u \in Nat /\ scan.numtogo \in Nat
  BY RobbedBucket, SizesAssumption
<1>2. \A x \in scan.freebuckets :
        ShareOf(x) \in Nat /\ BeforeOf(x) \in Nat /\ BeforeOf(x) + ShareOf(x) <= scan.numtogo
  BY <1>1, SharesOfFreeBuckets
<1>3. CASE Gets(b) /\ Gets(c)
  <2>1. /\ i \in 1..ShareOf(b) /\ k \in 1..ShareOf(c)
        /\ j = u + BeforeOf(b) + i /\ j = u + BeforeOf(c) + k
    BY <1>3 DEF Moved
  <2> DEFINE m == BeforeOf(b) + i
  <2>2. m \in 1..scan.numtogo /\ InShare(b, m) /\ InShare(c, m) /\ m = BeforeOf(c) + k
    BY <1>1, <1>2, <1>3, <2>1 DEF InShare
  <2>3. b = c
    <3> HIDE DEF m
    <3>1. QED
      BY <1>3, <2>2, SharesOfFreeBuckets
  <2>4. QED
    BY <1>1, <1>2, <1>3, <2>1, <2>3
<1>4. CASE Gets(b) /\ ~Gets(c)
  <2>1. /\ d = thr /\ i \in 1..ShareOf(b) /\ j = u + BeforeOf(b) + i
        /\ c = d /\ j = k /\ k <= u
    BY <1>4 DEF Moved
  <2>2. QED
    BY <1>1, <1>2, <1>4, <2>1
<1>5. CASE ~Gets(b) /\ Gets(c)
  <2>1. /\ d = thr /\ k \in 1..ShareOf(c) /\ j = u + BeforeOf(c) + k
        /\ b = d /\ j = i /\ i <= u
    BY <1>5 DEF Moved
  <2>2. QED
    BY <1>1, <1>2, <1>5, <2>1
<1>6. CASE ~Gets(b) /\ ~Gets(c)
  BY <1>6 DEF Moved
<1>7. QED
  BY <1>3, <1>4, <1>5, <1>6

LEMMA MovedSomewhere ==
  ASSUME IInv, mpc = "share", NEW d \in threadbuckets, NEW j \in Nat, NEW t, At(d, j, t)
  PROVE  \E c \in threadbuckets : \E i \in Nat : Moved(c, i, d, j)
<1> DEFINE u == bucket[thr].usenum
<1>1. /\ thr \notin scan.freebuckets /\ u \in Nat /\ scan.numtogo \in Nat
      /\ Size(thr) = u + scan.numtogo /\ scan.freebuckets \subseteq threadbuckets
  BY RobbedBucket, SizesAssumption
<1>2. CASE d = thr /\ j > u
  <2> DEFINE m == j - u
  <2>1. m \in 1..scan.numtogo
    BY <1>1, <1>2 DEF At
  <2>2. PICK c \in scan.freebuckets : InShare(c, m)
    <3> HIDE DEF m
    <3>1. QED
      BY <2>1, SharesOfFreeBuckets
  <2>3. ShareOf(c) \in Nat /\ BeforeOf(c) \in Nat
    BY <1>1, SharesOfFreeBuckets
  <2> DEFINE i == m - BeforeOf(c)
  <2>4. i \in 1..ShareOf(c) /\ ShareOf(c) > 0 /\ j = u + BeforeOf(c) + i
    BY <1>1, <2>1, <2>2, <2>3 DEF InShare
  <2>5. Moved(c, i, d, j)
    BY <1>2, <2>4 DEF Moved
  <2>6. QED
    BY <1>1, <2>4, <2>5
<1>3. CASE d = thr /\ ~(j > u)
  BY <1>1, <1>3 DEF Moved
<1>4. CASE d # thr
  <2>1. d \notin scan.freebuckets
    <3> SUFFICES ASSUME d \in scan.freebuckets PROVE FALSE
      OBVIOUS
    <3>1. Free(d) \in {"FREE", "ATEND", "COMINGFREE"}
      BY DEF IInv, ScanInStep, Balancing
    <3>2. ~Fillable(d) /\ ~Reads(d, j)
      BY <3>1, NobodyReads DEF Fillable, Filling, Reads
    <3>3. QED
      BY <3>2, WaitingParts DEF At
  <2>2. Moved(d, j, d, j)
    BY <1>4, <2>1 DEF Moved
  <2>3. QED
    BY <2>2
<1>5. QED
  BY <1>2, <1>3, <1>4

LEMMA TypesKept ==
  ASSUME IInv, [Next]_vars
  PROVE  Types'
<1>1. CASE UNCHANGED vars
  BY <1>1 DEF IInv, Types, vars, workervars, inputvars
<1>2. QED
  BY <1>1, TypesKeptByWorkers, TypesKeptByMaster DEF Next

LEMMA EveryTermHasOnePlaceKept ==
  ASSUME IInv, [Next]_vars
  PROVE  EveryTermHasOnePlace'
<1> USE TermsWait
<1>0. Types' /\ nextterm \in Nat /\ executed \in [Terms -> {0, 1}] /\ Terms \subseteq Nat
  BY TypesKept DEF IInv, Types, Terms
<1>1. ASSUME UNCHANGED <<executed, nextterm>>,
             \A b \in threadbuckets : \A i \in Nat : \A t \in Terms : At(b, i, t)' <=> At(b, i, t)
      PROVE  EveryTermHasOnePlace'
  <2>1. \A b, c \in threadbuckets : \A i, j \in Nat : \A t \in Terms :
          At(b, i, t)' /\ At(c, j, t)' => b = c /\ i = j
    BY <1>1
  <2>2. \A b \in threadbuckets : \A i \in Nat : \A t \in Terms :
          At(b, i, t)' => t < nextterm' /\ executed'[t] = 0
    BY <1>1
  <2>3. \A t \in Terms : t < nextterm' /\ executed'[t] = 0 =>
          \E b \in threadbuckets : \E i \in Nat : At(b, i, t)'
    BY <1>1
  <2>4. \A t \in Terms : t >= nextterm' => executed'[t] = 0
    BY <1>1
  <2>5. QED
    BY <1>0, <2>1, <2>2, <2>3, <2>4, TermsWaitNext
<1>2. ASSUME NEW w \in Workers, Worker(w) PROVE EveryTermHasOnePlace'
  <2> DEFINE b == threadbuck[w]
             done == wpc[w] = "generate"
  <2>1. OthersStay(w) /\ WorkerStep(w) /\ b \in threadbuckets
    BY <1>2, WorkerSteps
  <2>2. nextterm' = nextterm
    BY <2>1 DEF OthersStay, inputvars
  <2>3. \A c \in threadbuckets : bucket'[c].terms = bucket[c].terms
    BY <1>2, WorkerOnBuckets
  <2>4. \A c \in threadbuckets : \A i \in Nat : \A t \in Terms :
          At(c, i, t)' <=> At(c, i, t) /\ ~(done /\ c = b /\ i = ttin[w])
    BY <1>2, <2>3, WaitingAndWorkers DEF At, Size
  <2>5. CASE ~done
    <3>1. executed' = executed
      BY <2>1, <2>5 DEF WorkerStep, Goes
    <3>2. QED
      BY <1>1, <2>2, <2>4, <2>5, <3>1
  <2>6. CASE done
    <3> DEFINE x == bucket[b].terms[ttin[w]]
    <3>1. executed' = [executed EXCEPT ![x] = @ + 1]
      BY <2>1, <2>6 DEF WorkerStep, Goes
    <3>2. At(b, ttin[w], x) /\ x \in Terms /\ ttin[w] \in Nat
      <4>1. Reading(w)
        BY <2>6 DEF Reading
      <4>2. ttin[w] \in 1..Size(b) /\ ttin[w] > ttin[w] - 1
        BY <2>1, <2>6, <4>1, Reader, BucketNumbers, SizesAssumption
      <4>3. Waiting(b, ttin[w])
        BY <2>6, <4>1, <4>2, ReaderIsAlone DEF Done
      <4>4. QED
        BY <2>1, <4>2, <4>3 DEF At
    <3>3. executed[x] = 0 /\ x < nextterm
      BY <2>1, <3>2
    <3> HIDE DEF x, b, done
    <3>4. executed'[x] = 1 /\ \A t \in Terms \ {x} : executed'[t] = executed[t]
      BY <1>0, <3>1, <3>2, <3>3
    <3>5. \A c \in threadbuckets : \A i \in Nat : \A t \in Terms :
            At(c, i, t)' <=> At(c, i, t) /\ t # x
      <4>1. ASSUME NEW c \in threadbuckets, NEW i \in Nat, At(c, i, x)
            PROVE  c = b /\ i = ttin[w]
        BY <2>1, <3>2, <4>1 DEF b
      <4>2. \A t \in Terms : At(b, ttin[w], t) => t = x
        BY DEF At, x
      <4>3. QED
        BY <2>4, <2>6, <4>1, <4>2
    <3>6. \A c, d \in threadbuckets : \A i, j \in Nat : \A t \in Terms :
            At(c, i, t)' /\ At(d, j, t)' => c = d /\ i = j
      BY <3>5
    <3>7. \A c \in threadbuckets : \A i \in Nat : \A t \in Terms :
            At(c, i, t)' => t < nextterm' /\ executed'[t] = 0
      BY <2>2, <3>4, <3>5
    <3>8. \A t \in Terms : t < nextterm' /\ executed'[t] = 0 =>
            \E c \in threadbuckets : \E i \in Nat : At(c, i, t)'
      <4>1. ASSUME NEW t \in Terms, t < nextterm', executed'[t] = 0
            PROVE  \E c \in threadbuckets : \E i \in Nat : At(c, i, t)'
        <5>1. t # x /\ executed[t] = 0 /\ t < nextterm
          BY <2>2, <3>4, <4>1
        <5>2. PICK c \in threadbuckets : \E i \in Nat : At(c, i, t)
          BY <5>1
        <5>3. QED
          BY <3>5, <5>1, <5>2
      <4>2. QED
        BY <4>1
    <3>9. \A t \in Terms : t >= nextterm' => executed'[t] = 0
      <4>1. ASSUME NEW t \in Terms, t >= nextterm PROVE t # x
        BY <1>0, <3>2, <3>3, <4>1
      <4>2. QED
        BY <2>2, <3>4, <4>1
    <3>10. QED
      BY <1>0, <3>6, <3>7, <3>8, <3>9, TermsWaitNext
  <2>7. QED
    BY <2>5, <2>6
<1>3. CASE MasterKeepsTerms \/ Steal \/ SendOneBucket \/ DoBucket
  <2>1. UNCHANGED <<executed, nextterm>>
    <3>1. CASE MasterKeepsTerms
      BY <3>1, MasterLeavesReadersAlone DEF MasterKeepsTerms, MasterElse, Master, OpenBucket,
         StopFilling, CloseBucket, LoadAnother, PickBucket, AfterSend, FindBucket, StartScan,
         ScanBucket, WeighBucket, Decide, MasterWaitAll, inputvars, workervars
    <3>2. CASE Steal \/ SendOneBucket \/ DoBucket
      BY <3>2 DEF Steal, SendOneBucket, DoBucket, Send, inputvars, workervars
    <3>3. QED
      BY <1>3, <3>1, <3>2
  <2>2. QED
    BY <1>1, <1>3, <2>1, PlacesStay, PlacesStayWhenSent
<1>4. CASE GetFirstTerm \/ GetAnotherTerm
  <2>1. CASE nextterm > NumTerms
    <3>1. /\ UNCHANGED <<bucket, executed, nextterm, wpc, threadbuck, ttin, thr>>
          /\ IF GetFirstTerm THEN mpc = "bucket" /\ mpc' = "finalize"
             ELSE mpc \in Filling /\ mpc' \in Filling
      BY <1>4, <2>1 DEF GetFirstTerm, GetAnotherTerm, workervars, Filling
    <3>2. ASSUME NEW c \in threadbuckets PROVE Fillable(c)' <=> Fillable(c)
      BY <3>1 DEF Fillable, Free, Filling
    <3>3. \A c \in threadbuckets : \A i \in Nat : \A t \in Terms : At(c, i, t)' <=> At(c, i, t)
      BY <3>1, <3>2, ReadsStay, WaitingParts DEF At, Size
    <3>4. QED
      BY <1>1, <3>1, <3>3
  <2>2. CASE ~(nextterm > NumTerms)
    <3>1. /\ nextterm' = nextterm + 1 /\ nextterm \in Terms /\ thr \in threadbuckets
          /\ UNCHANGED executed
      BY <1>4, <2>2, TermIsAdded
    <3>2. PICK n \in Nat : \A c \in threadbuckets : \A i \in Nat : \A t \in Terms :
            At(c, i, t)' <=> At(c, i, t) \/ (c = thr /\ i = n + 1 /\ t = nextterm)
      BY <1>4, <2>2, TermIsAdded
    <3>3. \A c \in threadbuckets : \A i \in Nat : ~At(c, i, nextterm)
      <4>1. ~(nextterm < nextterm)
        BY <1>0
      <4>2. QED
        BY <3>1, <4>1
    <3>4. \A c, d \in threadbuckets : \A i, j \in Nat : \A t \in Terms :
            At(c, i, t)' /\ At(d, j, t)' => c = d /\ i = j
      BY <3>2, <3>3
    <3>5. \A c \in threadbuckets : \A i \in Nat : \A t \in Terms :
            At(c, i, t)' => t < nextterm' /\ executed'[t] = 0
      <4>1. executed[nextterm] = 0 /\ nextterm < nextterm'
        BY <1>0, <3>1
      <4>2. \A t \in Terms : t < nextterm => t < nextterm'
        BY <1>0, <3>1
      <4>3. QED
        BY <3>1, <3>2, <4>1, <4>2
    <3>6. ASSUME NEW t \in Terms, t < nextterm', executed'[t] = 0
          PROVE  \E c \in threadbuckets : \E i \in Nat : At(c, i, t)'
      <4>1. CASE t = nextterm
        <5>1. At(thr, n + 1, t) \/ (thr = thr /\ n + 1 = n + 1 /\ t = nextterm)
          BY <4>1
        <5>2. PICK c \in threadbuckets : c = thr
          BY <3>1
        <5>3. At(c, n + 1, t)'
          <6>1. n + 1 \in Nat
            OBVIOUS
          <6>2. QED
            BY <3>2, <4>1, <5>2, <6>1
        <5>4. n + 1 \in Nat
          OBVIOUS
        <5>5. QED
          BY <5>3, <5>4
      <4>2. CASE t # nextterm
        <5>1. t < nextterm /\ executed[t] = 0
          BY <1>0, <3>1, <3>6, <4>2
        <5>2. PICK c \in threadbuckets, i \in Nat : At(c, i, t)
          BY <5>1
        <5>3. QED
          BY <3>2, <5>2
      <4>3. QED
        BY <4>1, <4>2
    <3>7. \A t \in Terms : t >= nextterm' => executed'[t] = 0
      BY <1>0, <3>1
    <3>8. QED
      BY <1>0, <3>4, <3>5, <3>6, <3>7, TermsWaitNext
  <2>3. QED
    BY <2>1, <2>2
<1>5. CASE ShareOut
  <2>1. mpc = "share" /\ UNCHANGED <<executed, nextterm>>
    BY <1>5 DEF ShareOut, workervars, inputvars
  <2>2. \A c, d \in threadbuckets : \A i, j \in Nat : \A t \in Terms :
          At(c, i, t)' /\ At(d, j, t)' => c = d /\ i = j
    <3>1. ASSUME NEW c \in threadbuckets, NEW d \in threadbuckets, NEW i \in Nat, NEW j \in Nat,
                 NEW t \in Terms, At(c, i, t)', At(d, j, t)'
          PROVE  c = d /\ i = j
      <4>1. PICK b \in threadbuckets, k \in Nat : Moved(c, i, b, k) /\ At(b, k, t)
        BY <1>5, <3>1, SharedOut
      <4>2. PICK e \in threadbuckets, m \in Nat : Moved(d, j, e, m) /\ At(e, m, t)
        BY <1>5, <3>1, SharedOut
      <4>3. b = e /\ k = m
        BY <4>1, <4>2
      <4>4. QED
        BY <2>1, <4>1, <4>2, <4>3, MovedOnce
    <3>2. QED
      BY <3>1
  <2>3. \A c \in threadbuckets : \A i \in Nat : \A t \in Terms :
          At(c, i, t)' => t < nextterm' /\ executed'[t] = 0
    BY <1>5, <2>1, SharedOut
  <2>4. \A t \in Terms : t < nextterm' /\ executed'[t] = 0 =>
          \E c \in threadbuckets : \E i \in Nat : At(c, i, t)'
    <3>1. ASSUME NEW t \in Terms, t < nextterm, executed[t] = 0
          PROVE  \E c \in threadbuckets : \E i \in Nat : At(c, i, t)'
      <4>1. PICK d \in threadbuckets, j \in Nat : At(d, j, t)
        BY <3>1
      <4>2. PICK c \in threadbuckets, i \in Nat : Moved(c, i, d, j)
        BY <2>1, <4>1, MovedSomewhere
      <4>3. QED
        BY <1>5, <4>1, <4>2, SharedOut
    <3>2. QED
      BY <2>1, <3>1
  <2>5. \A t \in Terms : t >= nextterm' => executed'[t] = 0
    BY <2>1
  <2>6. QED
    BY <1>0, <2>2, <2>3, <2>4, <2>5, TermsWaitNext
<1>6. CASE UNCHANGED vars
  <2>1. UNCHANGED <<bucket, executed, nextterm, wpc, threadbuck, ttin, thr, mpc>>
    BY <1>6 DEF vars, workervars, inputvars
  <2>2. \A c \in threadbuckets : \A i \in Nat : \A t \in Terms : At(c, i, t)' <=> At(c, i, t)
    BY <2>1 DEF At, Waiting, Free, Size, Reading, Done, Filling
  <2>3. QED
    BY <1>1, <2>1, <2>2
<1>7. QED
  BY <1>2, <1>3, <1>4, <1>5, <1>6 DEF Next, MasterKeepsTerms, MasterElse

\* What the master, the workers and load balancing rely on holds throughout.
THEOREM BucketsInvariant == Spec => []IInv
<1>1. IInv /\ [Next]_vars => IInv'
  BY TypesKept, WorkerHasBucketKept, ReadingInStepKept, FillingInStepKept, ScanInStepKept,
     DoingTermIsTrueKept, CountsInStepKept, EveryTermHasOnePlaceKept DEF IInv
<1>2. QED
  BY InitIInv, <1>1, PTL DEF Spec

\* Counts and states of the buckets, for any sizes: a bucket never holds more than its room
\* and no more terms are used than are in it.
THEOREM TypeCorrect == Spec => []TypeOK
<1>1. IInv => TypeOK
  <2> SUFFICES ASSUME IInv PROVE TypeOK
    OBVIOUS
  <2>1. Types
    BY DEF IInv
  <2>2. ASSUME NEW b \in threadbuckets
        PROVE  /\ bucket[b].free \in FreeStates /\ bucket[b].busy \in BusyStates
               /\ bucket[b].totnum \in 0..BucketSize /\ bucket[b].usenum \in 0..bucket[b].totnum
               /\ Len(bucket[b].terms) <= BucketSize
    <3>1. bucket[b] \in Buckets
      BY <2>1 DEF Types
    <3>2. QED
      BY <3>1, BucketNumbers, SizesAssumption DEF Buckets, Size
  <2>3. QED
    BY <2>1, <2>2 DEF Types, TypeOK, FreeStates, BusyStates
<1>2. QED
  BY BucketsInvariant, <1>1, PTL

\* Two workers never go through the same bucket, and what a worker reads is not free.
THEOREM OneUser == Spec => []BucketHasOneUser
<1>1. IInv => BucketHasOneUser
  <2>1. ASSUME IInv, NEW w \in Workers, Reading(w)
        PROVE  /\ \A v \in Workers \ {w} : Reading(v) => threadbuck[v] # threadbuck[w]
               /\ Free(threadbuck[w]) \in {"INUSE", "TERMINATED"}
    BY <2>1, Reader
  <2>2. QED
    BY <2>1 DEF BucketHasOneUser
<1>2. QED
  BY BucketsInvariant, <1>1, PTL

\* The master does not write where a worker reads; from a bucket it robs it takes only terms
\* that the worker has not begun.
THEOREM MasterAlone == Spec => []MasterWritesAlone
<1>1. IInv => MasterWritesAlone
  <2>1. ASSUME IInv, NEW w \in Workers, Reading(w)
        PROVE  /\ mpc \in Filling => threadbuck[w] # thr
               /\ mpc = "share" => /\ threadbuck[w] \notin scan.freebuckets
                                   /\ threadbuck[w] = thr => wpc[w] = "generate"
    <3>1. /\ Free(threadbuck[w]) \in {"INUSE", "TERMINATED"} /\ ~Fillable(threadbuck[w])
          /\ \A v \in Workers : Reading(v) /\ threadbuck[v] = threadbuck[w] => v = w
      BY <2>1, Reader, ReaderIsAlone
    <3>2. mpc = "share" => /\ \A b \in scan.freebuckets : Free(b) \in {"FREE", "ATEND", "COMINGFREE"}
                           /\ \E v \in Workers : wpc[v] = "generate" /\ threadbuck[v] = thr
      BY <2>1 DEF IInv, ScanInStep, Balancing
    <3>3. QED
      BY <3>1, <3>2 DEF Fillable, Reading
  <2>2. QED
    BY <2>1 DEF MasterWritesAlone
<1>2. QED
  BY BucketsInvariant, <1>1, PTL

\* The places that NoTermLostOrRepeated counts.
LEMMA CountedPlaces ==
  ASSUME IInv, NEW t \in Terms
  PROVE  /\ InFilled(t) = {p \in threadbuckets \X (1..BucketSize) :
                             Fillable(p[1]) /\ At(p[1], p[2], t)}
         /\ InUse(t) = {p \in Workers \X (1..BucketSize) :
                          Reading(p[1]) /\ At(threadbuck[p[1]], p[2], t)}
<1>1. ASSUME NEW p \in threadbuckets \X (1..BucketSize)
      PROVE  p \in InFilled(t) <=> Fillable(p[1]) /\ At(p[1], p[2], t)
  <2> DEFINE b == p[1]
             i == p[2]
  <2>1. b \in threadbuckets /\ i \in 1..BucketSize /\ Size(b) \in Nat
    BY BucketNumbers, SizesAssumption
  <2>2. i \in 1..Size(b) <=> i <= Size(b)
    BY <2>1, SizesAssumption
  <2>3. Fillable(b) => Waiting(b, i)
    BY DEF Fillable, Waiting
  <2>4. p \in InFilled(t) <=> Fillable(b) /\ i <= Size(b) /\ bucket[b].terms[i] = t
    BY DEF InFilled, Fillable, Size
  <2>5. QED
    BY <2>2, <2>3, <2>4 DEF At
<1>2. ASSUME NEW p \in Workers \X (1..BucketSize)
      PROVE  p \in InUse(t) <=> Reading(p[1]) /\ At(threadbuck[p[1]], p[2], t)
  <2> DEFINE w == p[1]
             i == p[2]
             b == threadbuck[w]
             Left == \/ wpc[w] = "start" \/ i > ttin[w]
                     \/ i = ttin[w] /\ wpc[w] \in {"check", "take", "generate"}
  <2>1. p \in InUse(t) <=>
          Reading(w) /\ i <= Size(b) /\ bucket[b].terms[i] = t /\ Left
    BY DEF InUse, Size
  <2>2. w \in Workers /\ i \in 1..BucketSize
    OBVIOUS
  <2> HIDE DEF w, i
  <2>3. ASSUME Reading(w)
        PROVE  /\ i \in 1..Size(b) <=> i <= Size(b)
               /\ Left <=> Waiting(b, i)
    <3>1. /\ ttin[w] \in Nat /\ Size(b) \in Nat /\ i \in Nat /\ i > 0
          /\ wpc[w] = "start" => ttin[w] = 0
      <4>1. b \in threadbuckets /\ ttin[w] \in 0..Size(b) /\ (wpc[w] = "start" => ttin[w] = 0)
        BY <2>2, <2>3, Reader
      <4>2. QED
        BY <2>2, <4>1, BucketNumbers, SizesAssumption
    <3>2. Waiting(b, i) <=> i > Done(w)
      BY <2>2, <2>3, ReaderIsAlone
    <3>3. CASE wpc[w] \in {"check", "take", "generate"}
      <4>1. i > ttin[w] - 1 <=> i > ttin[w] \/ i = ttin[w]
        BY <3>1
      <4>2. QED
        BY <3>1, <3>2, <3>3, <4>1 DEF Done
    <3>4. CASE wpc[w] \notin {"check", "take", "generate"}
      <4>1. Done(w) = ttin[w]
        BY <3>4 DEF Done
      <4>2. wpc[w] = "start" => i > ttin[w]
        BY <3>1
      <4>3. QED
        BY <3>1, <3>2, <3>4, <4>1, <4>2
    <3>5. QED
      BY <3>1, <3>3, <3>4
  <2> HIDE DEF Left, b
  <2>4. p \in InUse(t) <=> Reading(w) /\ At(b, i, t)
    BY <2>1, <2>3 DEF At
  <2>5. QED
    BY <2>4 DEF w, i, b
<1>3. \A p \in InFilled(t) : p \in threadbuckets \X (1..BucketSize)
  BY DEF InFilled
<1>4. \A p \in InUse(t) : p \in Workers \X (1..BucketSize)
  BY DEF InUse
<1>5. QED
  BY <1>1, <1>2, <1>3, <1>4

LEMMA OnePendingPlace ==
  ASSUME IInv, NEW t \in Terms
  PROVE  Pending(t) = IF t < nextterm /\ executed[t] = 0 THEN 1 ELSE 0
<1> USE TermsWait
<1>1. Terms \subseteq Nat /\ 1..BucketSize \subseteq Nat
  BY SizesAssumption DEF Terms
<1>2. CASE ~(t < nextterm /\ executed[t] = 0)
  <2>1. \A b \in threadbuckets : \A i \in Nat : ~At(b, i, t)
    BY <1>2
  <2>2. InFilled(t) = {}
    BY <1>1, <2>1, CountedPlaces
  <2>3. InUse(t) = {}
    <3>1. \A w \in Workers : Reading(w) => threadbuck[w] \in threadbuckets
      BY Reader
    <3>2. QED
      BY <1>1, <2>1, <3>1, CountedPlaces
  <2>4. QED
    BY <1>2, <2>2, <2>3, FS_EmptySet DEF Pending
<1>3. CASE t < nextterm /\ executed[t] = 0
  <2>1. PICK b \in threadbuckets, i \in Nat : At(b, i, t)
    BY <1>3
  <2>2. \A c \in threadbuckets : \A j \in Nat : At(c, j, t) => c = b /\ j = i
    BY <2>1
  <2>3. i \in 1..BucketSize
    <3>1. Size(b) \in 0..BucketSize /\ i \in 1..Size(b)
      BY <2>1, BucketNumbers DEF At
    <3>2. QED
      BY <3>1, SizesAssumption
  <2>4. \A w \in Workers : Reading(w) => threadbuck[w] \in threadbuckets /\ ~Fillable(threadbuck[w])
    BY Reader, ReaderIsAlone
  <2>5. CASE Fillable(b)
    <3>1. InFilled(t) = {<<b, i>>}
      <4>1. <<b, i>> \in InFilled(t)
        BY <2>1, <2>3, <2>5, CountedPlaces
      <4>2. ASSUME NEW p \in InFilled(t) PROVE p = <<b, i>>
        BY <1>1, <2>2, CountedPlaces
      <4>3. QED
        BY <4>1, <4>2
    <3>2. InUse(t) = {}
      <4>1. ASSUME NEW p \in InUse(t) PROVE FALSE
        <5>1. /\ p[1] \in Workers /\ p[2] \in Nat
              /\ Reading(p[1]) /\ At(threadbuck[p[1]], p[2], t)
          BY <1>1, CountedPlaces
        <5>2. threadbuck[p[1]] = b
          BY <2>2, <2>4, <5>1
        <5>3. QED
          BY <2>4, <2>5, <5>1, <5>2
      <4>2. QED
        BY <4>1
    <3>3. Cardinality(InFilled(t)) = 1 /\ Cardinality(InUse(t)) = 0
      BY <3>1, <3>2, FS_EmptySet, FS_Singleton
    <3>4. QED
      BY <1>3, <3>3 DEF Pending
  <2>6. CASE ~Fillable(b)
    <3>1. PICK w \in Workers : Reading(w) /\ threadbuck[w] = b
      BY <2>1, <2>6, WaitingParts DEF At, Reads
    <3>2. \A v \in Workers : Reading(v) /\ threadbuck[v] = b => v = w
      BY <3>1, Reader
    <3>3. InUse(t) = {<<w, i>>}
      <4>1. <<w, i>> \in InUse(t)
        BY <2>1, <2>3, <3>1, CountedPlaces
      <4>2. ASSUME NEW p \in InUse(t) PROVE p = <<w, i>>
        <5>1. /\ p \in Workers \X (1..BucketSize) /\ p[1] \in Workers /\ p[2] \in Nat
              /\ Reading(p[1]) /\ At(threadbuck[p[1]], p[2], t)
          BY <1>1, CountedPlaces
        <5>2. threadbuck[p[1]] = b /\ p[2] = i
          BY <2>2, <2>4, <5>1
        <5>3. QED
          BY <3>2, <5>1, <5>2
      <4>3. QED
        BY <4>1, <4>2
    <3>4. InFilled(t) = {}
      BY <1>1, <2>2, <2>6, CountedPlaces
    <3>5. Cardinality(InFilled(t)) = 0 /\ Cardinality(InUse(t)) = 1
      BY <3>3, <3>4, FS_EmptySet, FS_Singleton
    <3>6. QED
      BY <1>3, <3>5 DEF Pending
  <2>7. QED
    BY <2>5, <2>6
<1>4. QED
  BY <1>2, <1>3

\* A term that was read waits in one place until it is executed, and is executed once,
\* however the buckets are filled, sent and robbed.
THEOREM TermsNotLost == Spec => []NoTermLostOrRepeated
<1>1. IInv => NoTermLostOrRepeated
  <2>1. ASSUME IInv, NEW t \in Terms
        PROVE  executed[t] + Pending(t) = IF t < nextterm THEN 1 ELSE 0
    <3>1. Pending(t) = IF t < nextterm /\ executed[t] = 0 THEN 1 ELSE 0
      BY <2>1, OnePendingPlace
    <3>2. executed[t] \in {0, 1} /\ t \in Nat /\ nextterm \in Nat
      BY <2>1, SizesAssumption DEF IInv, Types, Terms
    <3>3. t >= nextterm => executed[t] = 0
      BY <2>1, TermsWait
    <3>4. QED
      BY <3>1, <3>2, <3>3
  <2>2. QED
    BY <2>1 DEF NoTermLostOrRepeated
<1>2. QED
  BY BucketsInvariant, <1>1, PTL

-----------------------------------------------------------------------------
(* The end of the input *)

\* The master is past its input.
AtEnd == Balancing \cup {"balance", "waitall", "done"}

\* Before the end of the input a bucket that is not free to fill is filled or has a worker
\* reading it; the master comes past the input only when it is read and every bucket sent.
EndReached ==
  /\ ~endofinput => \A b \in threadbuckets :
       Free(b) \in {"FREE", "COMINGFREE", "FILLED", "INUSE"}
  /\ \A b \in threadbuckets : Free(b) = "INUSE" =>
       \E w \in Workers : Reading(w) /\ threadbuck[w] = b
  /\ mpc \in AtEnd \cup {"reload"} => \A b \in threadbuckets : Free(b) # "FILLED"
  /\ mpc \in AtEnd => endofinput
  /\ endofinput => nextterm > NumTerms
  /\ mpc = "done" => available = Workers

\* There are more buckets than workers: one of them is not being read.
LEMMA SomeBucketUnread ==
  ASSUME IInv
  PROVE  \E b \in threadbuckets : \A w \in Workers : Reading(w) => threadbuck[w] # b
<1>1. SUFFICES ASSUME \A b \in threadbuckets : \E w \in Workers : Reading(w) /\ threadbuck[w] = b
               PROVE  FALSE
  OBVIOUS
<1> DEFINE reader == [b \in threadbuckets |->
                        CHOOSE w \in Workers : Reading(w) /\ threadbuck[w] = b]
<1>2. \A b \in threadbuckets : reader[b] \in Workers /\ threadbuck[reader[b]] = b
  BY <1>1
<1>3. reader \in [threadbuckets -> Workers]
  BY <1>2
<1>4. /\ IsFiniteSet(threadbuckets) /\ IsFiniteSet(Workers)
      /\ Cardinality(Workers) < Cardinality(threadbuckets)
  <2>1. numberofworkers \in Nat \ {0} /\ numthreadbuckets \in Nat
        /\ numberofworkers < numthreadbuckets
    BY SizesAssumption DEF numthreadbuckets
  <2>2. IsFiniteSet(Workers) /\ Cardinality(Workers) = numberofworkers
    BY <2>1, FS_Interval DEF Workers
  <2>3. IsFiniteSet(threadbuckets) /\ Cardinality(threadbuckets) = numthreadbuckets
    BY <2>1, FS_Interval DEF threadbuckets
  <2>4. QED
    BY <2>1, <2>2, <2>3
<1> HIDE DEF reader
<1>5. \E b, c \in threadbuckets : b # c /\ reader[b] = reader[c]
  BY <1>3, <1>4, FS_PigeonHole
<1>6. QED
  BY <1>2, <1>5

LEMMA EndReachedInit == Init => EndReached
BY DEF Init, EndReached, AtEnd, Balancing, Free

\* A bucket that a worker stops using comes free; others stay what they are.
LEMMA EndReachedByWorker ==
  ASSUME IInv, IInv', EndReached, NEW w \in Workers, Worker(w)
  PROVE  EndReached'
<1>1. /\ OthersStay(w) /\ threadbuck[w] \in threadbuckets
      /\ UNCHANGED <<mpc, endofinput, nextterm>>
  BY WorkerSteps DEF OthersStay, inputvars
<1>2. \A c \in threadbuckets :
        IF Free(c) \in {"INUSE", "TERMINATED"}
        THEN bucket'[c].free \in {bucket[c].free, "RELEASED", "COMINGFREE"}
        ELSE bucket'[c].free = bucket[c].free
  BY WorkerOnBuckets
<1>3. ASSUME ~endofinput, NEW c \in threadbuckets
      PROVE  bucket'[c].free \in {"FREE", "COMINGFREE", "FILLED", "INUSE"}
  <2>1. Free(c) \in {"FREE", "COMINGFREE", "FILLED", "INUSE"}
    BY <1>3 DEF EndReached
  <2>2. CASE bucket'[c].free = "RELEASED"
    <3>1. Free(c) = "INUSE"
      BY <1>2, <2>1, <2>2 DEF Free
    <3>2. c = threadbuck[w] /\ Reading(w)
      BY <1>1, <2>2, <3>1, WorkerSteps, WorkersAreBusy DEF OthersStay, WorkerStep, Goes, Becomes, Free, Reading
    <3>3. QED
      BY <1>1, <2>2, <3>1, <3>2, WorkerSteps DEF WorkerStep, Goes, Becomes, Free
  <2>3. QED
    BY <1>2, <2>1, <2>2 DEF Free
<1>4. ASSUME NEW c \in threadbuckets, bucket'[c].free = "INUSE"
      PROVE  \E v \in Workers : Reading(v)' /\ threadbuck'[v] = c
  <2>1. Free(c) = "INUSE"
    BY <1>2, <1>4 DEF Free
  <2>2. PICK v \in Workers : Reading(v) /\ threadbuck[v] = c
    BY <2>1 DEF EndReached
  <2>3. CASE v # w
    BY <1>1, <2>2, <2>3 DEF OthersStay, Reading
  <2>4. CASE v = w
    BY <1>1, <1>4, <2>1, <2>2, <2>4, WorkerSteps DEF WorkerStep, Goes, Becomes, Free, Reading
  <2>5. QED
    BY <2>3, <2>4
<1>5. mpc \in AtEnd \cup {"reload"} => \A c \in threadbuckets : bucket'[c].free # "FILLED"
  BY <1>2 DEF EndReached, Free
<1>6. mpc = "done" => available' = Workers
  <2>1. available' \subseteq Workers
    BY DEF IInv, Types
  <2>2. mpc = "done" => wpc[w] = "idle"
    BY DEF EndReached, IInv, WorkerHasBucket
  <2>3. QED
    BY <2>2, WorkersAreBusy
<1>7. QED
  BY <1>1, <1>3, <1>4, <1>5, <1>6 DEF EndReached, Free

\* The bucket that is sent is in use by the worker it is sent to.
LEMMA EndReachedBySending ==
  ASSUME IInv, EndReached, SendOneBucket \/ DoBucket
  PROVE  EndReached'
<1>1. PICK b \in threadbuckets :
        /\ Free(b) = "FILLED" /\ Send(b)
        /\ \/ mpc = "dobucket" /\ mpc' = "sent"
           \/ mpc = "first" /\ mpc' = "open"
           \/ mpc = "more" /\ mpc' = "get"
  BY SendSteps
<1>2. PICK w \in Workers : /\ wpc[w] = "idle"
                           /\ threadbuck' = [threadbuck EXCEPT ![w] = b]
                           /\ wpc' = [wpc EXCEPT ![w] = "start"]
  BY <1>1, SendDoes
<1>3. /\ bucket'[b].free = "INUSE" /\ \A c \in threadbuckets \ {b} : bucket'[c] = bucket[c]
      /\ UNCHANGED <<endofinput, nextterm>>
  BY <1>1, SendDoes DEF inputvars
<1>4. /\ Reading(w)' /\ threadbuck'[w] = b
      /\ \A v \in Workers : Reading(v) => Reading(v)' /\ threadbuck'[v] = threadbuck[v]
  BY <1>2 DEF IInv, Types, Reading
<1>5. mpc' \notin AtEnd \cup {"reload"}
  BY <1>1 DEF AtEnd, Balancing
<1>6. \A c \in threadbuckets : bucket'[c].free = "INUSE" =>
        \E v \in Workers : Reading(v)' /\ threadbuck'[v] = c
  <2>1. ASSUME NEW c \in threadbuckets, bucket'[c].free = "INUSE"
        PROVE  \E v \in Workers : Reading(v)' /\ threadbuck'[v] = c
    <3>1. CASE c = b
      BY <1>4, <3>1
    <3>2. CASE c # b
      BY <1>3, <1>4, <2>1, <3>2 DEF EndReached, Free
    <3>3. QED
      BY <3>1, <3>2
  <2>2. QED
    BY <2>1
<1>7. QED
  BY <1>3, <1>5, <1>6 DEF EndReached, Free, AtEnd

\* The master finds a bucket to fill or to send as long as there is input.
LEMMA FindsBucket ==
  ASSUME IInv, EndReached, FindBucket, mpc' = "balance"
  PROVE  endofinput /\ \A b \in threadbuckets : Free(b) # "FILLED"
<1>1. \A b \in threadbuckets : Free(b) # "FILLED"
  BY DEF FindBucket, EndReached, InState
<1>2. ASSUME ~endofinput PROVE FALSE
  <2>1. ReadyBuckets = {}
    BY <1>2 DEF FindBucket
  <2>2. \A b \in threadbuckets : Free(b) = "INUSE"
    BY <1>1, <1>2, <2>1 DEF EndReached, ReadyBuckets, Ready
  <2>3. QED
    BY <2>2, SomeBucketUnread DEF EndReached
<1>3. QED
  BY <1>1, <1>2

\* A step of the master other than sending puts no bucket to use; before the end of the
\* input it frees or fills.
LEMMA MasterOnBuckets ==
  ASSUME IInv, EndReached, Master, ~SendOneBucket, ~DoBucket, NEW c \in threadbuckets
  PROVE  /\ bucket'[c].free = "INUSE" => bucket[c].free = "INUSE"
         /\ ~endofinput => bucket'[c].free \in {bucket[c].free, "FREE", "FILLED"}
         /\ ~CloseBucket /\ ~ShareOut => (bucket'[c].free = "FILLED" => bucket[c].free = "FILLED")
<1>0. /\ bucket \in [threadbuckets -> Buckets] /\ thr \in threadbuckets
      /\ bucket[c] \in Buckets /\ bucket[thr] \in Buckets
  BY DEF IInv, Types
<1>1. CASE GetFirstTerm \/ OpenBucket \/ GetAnotherTerm
  BY <1>1, MasterFields
<1>2. CASE CloseBucket \/ LoadAnother
  <2>1. PICK b \in threadbuckets, x \in {"FREE", "FILLED"} :
          /\ bucket' = [bucket EXCEPT ![b].free = x] \/ bucket' = bucket
          /\ ~CloseBucket => x = "FREE"
    BY <1>0, <1>2 DEF CloseBucket, LoadAnother, ReadyBuckets
  <2>2. bucket'[c].free \in {bucket[c].free, x}
    BY <1>0, <2>1 DEF Buckets
  <2>3. CASE CloseBucket
    BY <2>2, <2>3
  <2>4. CASE ~CloseBucket
    BY <2>1, <2>2, <2>4
  <2>5. QED
    BY <2>3, <2>4
<1>3. CASE FindBucket
  <2>1. CASE ~endofinput /\ ReadyBuckets # {}
    <3>1. PICK b \in threadbuckets : bucket' = [bucket EXCEPT ![b].free = "FREE"]
      BY <1>3, <2>1 DEF FindBucket, ReadyBuckets
    <3>2. bucket'[c].free \in {bucket[c].free, "FREE"}
      BY <1>0, <3>1 DEF Buckets
    <3>3. QED
      BY <3>2
  <2>2. CASE ~(~endofinput /\ ReadyBuckets # {})
    <3>1. bucket'[c] = IF Ready(c) THEN [bucket[c] EXCEPT !.free = "ATEND"] ELSE bucket[c]
      BY <1>3, <2>2 DEF FindBucket
    <3>2. ~endofinput => ~Ready(c)
      BY <2>2 DEF ReadyBuckets
    <3>3. bucket'[c].free \in {bucket[c].free, "ATEND"} /\ (~endofinput => bucket'[c] = bucket[c])
      BY <1>0, <3>1, <3>2 DEF Buckets
    <3>4. QED
      BY <3>3
  <2>3. QED
    BY <2>1, <2>2
<1>4. CASE WeighBucket \/ Steal
  <2>1. endofinput
    BY <1>4 DEF EndReached, AtEnd, Balancing, WeighBucket, Steal
  <2>2. scan.j \in threadbuckets \/ Steal
    BY <1>4, ScanTypes, NumBuckets DEF WeighBucket, IInv, ScanInStep, threadbuckets
  <2>3. \/ bucket' = [bucket EXCEPT ![scan.j].free = "ATEND", ![scan.j].busy = "PREPARINGTERM"]
           /\ scan.j \in threadbuckets
        \/ bucket' = [bucket EXCEPT ![thr].free = "TERMINATED"]
        \/ bucket' = bucket
    BY <1>4, <2>2 DEF WeighBucket, Steal
  <2>4. bucket'[c].free \in {bucket[c].free, "ATEND", "TERMINATED"}
    BY <1>0, <2>3 DEF Buckets
  <2>5. QED
    BY <2>1, <2>4
<1>5. CASE ShareOut
  <2>1. endofinput
    BY <1>5 DEF EndReached, AtEnd, Balancing, ShareOut
  <2>2. bucket'[c].free \in {bucket[c].free, "FILLED"}
    <3>1. CASE c \in scan.freebuckets /\ ShareOf(c) > 0
      BY <1>5, <3>1 DEF ShareOut, Refilled
    <3>2. CASE ~(c \in scan.freebuckets /\ ShareOf(c) > 0)
      BY <1>0, <1>5, <3>2 DEF ShareOut, Buckets
    <3>3. QED
      BY <3>1, <3>2
  <2>3. QED
    BY <1>5, <2>1, <2>2
<1>6. CASE UNCHANGED bucket
  BY <1>6
<1>7. QED
  BY <1>1, <1>2, <1>3, <1>4, <1>5, <1>6 DEF Master, StopFilling, PickBucket, AfterSend,
     StartScan, ScanBucket, Decide, MasterWaitAll

LEMMA EndReachedByMaster ==
  ASSUME IInv, EndReached, Master, ~SendOneBucket, ~DoBucket
  PROVE  EndReached'
<1>1. UNCHANGED <<available, wpc, threadbuck>>
  BY DEF Master, GetFirstTerm, OpenBucket, GetAnotherTerm, StopFilling, CloseBucket,
         LoadAnother, PickBucket, AfterSend, FindBucket, StartScan, ScanBucket, WeighBucket,
         Decide, Steal, ShareOut, MasterWaitAll, workervars
<1>2. \A c \in threadbuckets : Free(c)' = "INUSE" =>
        \E w \in Workers : Reading(w)' /\ threadbuck'[w] = c
  BY <1>1, MasterOnBuckets DEF EndReached, Free, Reading
<1>3. /\ endofinput => endofinput'
      /\ endofinput' => nextterm' > NumTerms
  <2>1. CASE GetFirstTerm \/ GetAnotherTerm
    <3>1. CASE nextterm > NumTerms
      BY <2>1, <3>1 DEF GetFirstTerm, GetAnotherTerm
    <3>2. CASE ~(nextterm > NumTerms)
      BY <2>1, <3>2 DEF GetFirstTerm, GetAnotherTerm, EndReached
    <3>3. QED
      BY <3>1, <3>2
  <2>2. CASE ~GetFirstTerm /\ ~GetAnotherTerm
    <3>1. UNCHANGED inputvars
      BY <2>2 DEF Master, OpenBucket, StopFilling, CloseBucket, LoadAnother, PickBucket,
         AfterSend, FindBucket, StartScan, ScanBucket, WeighBucket, Decide, Steal, ShareOut,
         MasterWaitAll
    <3>2. QED
      BY <3>1 DEF inputvars, EndReached
  <2>3. QED
    BY <2>1, <2>2
<1>4. ~endofinput' => \A c \in threadbuckets :
        Free(c)' \in {"FREE", "COMINGFREE", "FILLED", "INUSE"}
  BY <1>3, MasterOnBuckets DEF EndReached, Free
<1>5. ASSUME mpc' \in AtEnd \cup {"reload"}
      PROVE  /\ \A c \in threadbuckets : Free(c)' # "FILLED"
             /\ mpc' \in AtEnd => endofinput'
  <2>1. CASE AfterSend
    <3>1. mpc' = "reload" /\ bucket' = bucket /\ InState("FILLED") = {}
      BY <1>5, <2>1 DEF AfterSend, AtEnd, Balancing
    <3>2. QED
      BY <3>1 DEF InState, Free, AtEnd, Balancing
  <2>2. CASE FindBucket
    <3>1. mpc' = "balance"
      BY <1>5, <2>2 DEF FindBucket, AtEnd, Balancing
    <3>2. endofinput /\ \A b \in threadbuckets : Free(b) # "FILLED"
      BY <2>2, <3>1, FindsBucket
    <3>3. ~CloseBucket /\ ~ShareOut
      BY <2>2 DEF FindBucket, CloseBucket, ShareOut
    <3>4. QED
      BY <1>3, <3>2, <3>3, MasterOnBuckets DEF Free
  <2>3. CASE ~AfterSend /\ ~FindBucket
    <3>1. mpc \in AtEnd /\ ~CloseBucket /\ ~ShareOut
      BY <1>5, <2>3 DEF Master, GetFirstTerm, OpenBucket, GetAnotherTerm, StopFilling,
         CloseBucket, LoadAnother, PickBucket, StartScan, ScanBucket, WeighBucket,
         Decide, Steal, ShareOut, MasterWaitAll, AtEnd, Balancing
    <3>2. QED
      BY <1>3, <3>1, MasterOnBuckets DEF EndReached, Free
  <2>4. QED
    BY <2>1, <2>2, <2>3
<1>6. mpc' = "done" => available' = Workers
  BY DEF Master, GetFirstTerm, OpenBucket, GetAnotherTerm, StopFilling, CloseBucket,
         LoadAnother, PickBucket, AfterSend, FindBucket, StartScan, ScanBucket, WeighBucket,
         Decide, Steal, ShareOut, MasterWaitAll, workervars
<1>7. QED
  BY <1>2, <1>3, <1>4, <1>5, <1>6 DEF EndReached, AtEnd

\* When the master is done every term was read, and no place is left where one waits.
\* However many workers and terms there are and however buckets are robbed, none is left
\* behind.
THEOREM NothingLeftBehind == Spec => []AllExecutedAtEnd
<1>1. IInv /\ IInv' /\ EndReached /\ [Next]_vars => EndReached'
  <2>1. ASSUME UNCHANGED vars, EndReached PROVE EndReached'
    BY <2>1 DEF vars, workervars, inputvars, EndReached, AtEnd, Free, Reading
  <2>2. QED
    BY <2>1, EndReachedByWorker, EndReachedBySending, EndReachedByMaster DEF Next
<1>2. IInv /\ EndReached => AllExecutedAtEnd
  <2>1. ASSUME IInv, EndReached, mpc = "done", NEW t \in Terms PROVE executed[t] = 1
    <3>1. nextterm > NumTerms /\ available = Workers
          /\ \A b \in threadbuckets : Free(b) # "FILLED"
      BY <2>1 DEF EndReached, AtEnd
    <3>2. \A w \in Workers : ~Reading(w)
      BY <2>1, <3>1 DEF IInv, WorkerHasBucket, Reading
    <3>3. \A b \in threadbuckets : \A i \in 1..Size(b) : ~Place(b, i)
      BY <2>1, <3>1, <3>2 DEF Place, Waiting, Filling
    <3>4. t < nextterm /\ executed[t] \in {0, 1}
      BY <2>1, <3>1, SizesAssumption DEF IInv, Types, Terms
    <3>5. QED
      BY <2>1, <3>3, <3>4 DEF IInv, EveryTermHasOnePlace
  <2>2. QED
    BY <2>1 DEF AllExecutedAtEnd
<1>3. QED
  BY BucketsInvariant, EndReachedInit, <1>1, <1>2, PTL DEF Spec

-----------------------------------------------------------------------------
(* The memory of the buckets *)

\* The memory was made for some number of terms, not fewer than those of the setup as far
\* as the estimate can tell.
MemoryMade ==
  /\ ThreadBucketSize \in Nat /\ gThreadBucketSize \in Nat
  /\ \E p \in Nat : positions = p + 1 /\ threadbuffersize = Estimate(p)
  /\ Estimate(ggThreadBucketSize) <= threadbuffersize

\* The sizes that the setting has and can have again were compared with it.
SizesCompared ==
  /\ Estimate(ThreadBucketSize) <= threadbuffersize
  /\ Estimate(gThreadBucketSize) <= threadbuffersize

-----------------------------------------------------------------------------
(* The estimate *)

\* More terms, more bytes.
LEMMA MoreBytes ==
  ASSUME NEW x \in Nat, NEW y \in Nat, x <= y, NEW m \in Nat
  PROVE  x * m \in Nat /\ y * m \in Nat /\ x * m <= y * m
<1>1. x * m \in Nat /\ (y - x) * m \in Nat
  OBVIOUS
<1>2. y * m = x * m + (y - x) * m
  OBVIOUS
<1>3. QED
  BY <1>1, <1>2

LEMMA EstimateIsNat ==
  ASSUME NEW n \in Nat
  PROVE  Estimate(n) \in Nat
<1>1. (n + 1) * MaxTer \in Nat
  BY BucketMemoryAssumption
<1> DEFINE product == (n + 1) * MaxTer
<1>2. product \in Nat
  BY <1>1
<1> HIDE DEF product
<1>3. (n + 1) * MaxTer = product
  BY DEF product
<1>4. QED
  BY <1>2, <1>3 DEF Estimate, sizeofWORD

\* The estimate of a large bucket.
LEMMA LargeEstimate ==
  ASSUME NEW n \in Nat, n >= 250
  PROVE  Estimate(n) = (((n + 1) * MaxTer + 8) \div 4) \div 4
BY DEF Estimate, sizeofWORD

\* An estimate that is not below that of 333 terms is that of at least 250 terms:
\* the three reductions do not let a smaller bucket come so high.
LEMMA LargeBucket ==
  ASSUME MaxTer >= 800, NEW n \in Nat, n >= 333, NEW p \in Nat, Estimate(n) <= Estimate(p)
  PROVE  p >= 250
<1>1. SUFFICES ASSUME p < 250 PROVE FALSE
  OBVIOUS
<1>2. MaxTer \in Nat
  BY BucketMemoryAssumption
<1> DEFINE pm == (p + 1) * MaxTer
           nm == (n + 1) * MaxTer
<1>3. nm \in Nat /\ nm >= 334 * MaxTer
  BY <1>2, MoreBytes, 334 \in Nat, n + 1 \in Nat, 334 <= n + 1
<1>4. Estimate(n) = ((nm + 8) \div 4) \div 4
  BY LargeEstimate
<1>5. CASE p < 40
  <2>1. pm \in Nat /\ pm <= 40 * MaxTer
    BY <1>2, <1>5, MoreBytes, 40 \in Nat, p + 1 \in Nat, p + 1 <= 40
  <2>2. Estimate(p) = (pm + 8) \div 4
    BY <1>5 DEF Estimate, sizeofWORD
  <2> HIDE DEF pm, nm
  <2>3. QED
    BY <1>2, <1>3, <1>4, <2>1, <2>2
<1>6. CASE p >= 40 /\ p < 90
  <2>1. pm \in Nat /\ pm <= 90 * MaxTer
    BY <1>2, <1>6, MoreBytes, 90 \in Nat, p + 1 \in Nat, p + 1 <= 90
  <2>2. Estimate(p) = ((pm + 8) \div 2) \div 4
    BY <1>6 DEF Estimate, sizeofWORD
  <2> HIDE DEF pm, nm
  <2>3. QED
    BY <1>2, <1>3, <1>4, <2>1, <2>2
<1>7. CASE p >= 90
  <2>1. pm \in Nat /\ pm <= 250 * MaxTer
    BY <1>1, <1>2, MoreBytes, 250 \in Nat, p + 1 \in Nat, p + 1 <= 250
  <2>2. Estimate(p) = ((pm + 8) \div 3) \div 4
    BY <1>1, <1>7 DEF Estimate, sizeofWORD
  <2> HIDE DEF pm, nm
  <2>3. QED
    BY <1>2, <1>3, <1>4, <2>1, <2>2
<1>8. QED
  BY <1>5, <1>6, <1>7

\* Among large buckets, one for which the estimate is not larger has not more terms.
LEMMA NotMoreTerms ==
  ASSUME MaxTer >= 800, NEW n \in Nat, NEW p \in Nat, p >= 250, Estimate(n) <= Estimate(p)
  PROVE  n <= p
<1>1. SUFFICES ASSUME n > p PROVE FALSE
  OBVIOUS
<1>2. MaxTer \in Nat
  BY BucketMemoryAssumption
<1> DEFINE pm == (p + 1) * MaxTer
           nm == (n + 1) * MaxTer
<1>3. pm \in Nat /\ (p + 2) * MaxTer = pm + MaxTer
  BY <1>2
<1>4. nm \in Nat /\ (p + 2) * MaxTer <= nm
  BY <1>1, <1>2, MoreBytes, p + 2 \in Nat, n + 1 \in Nat, p + 2 <= n + 1
<1>5. Estimate(n) = ((nm + 8) \div 4) \div 4 /\ Estimate(p) = ((pm + 8) \div 4) \div 4
  BY <1>1, LargeEstimate
<1>6. nm >= pm + 800
  <2> HIDE DEF pm, nm
  <2>1. QED
    BY <1>2, <1>3, <1>4
<1>7. QED
  <2> HIDE DEF pm, nm
  <2>1. QED
    BY <1>3, <1>4, <1>5, <1>6

-----------------------------------------------------------------------------
LEMMA MemoryInit ==
  ASSUME InitMemory
  PROVE  MemoryMade /\ SizesCompared
<1>1. ggThreadBucketSize \in Nat
  BY BucketMemoryAssumption
<1>2. Estimate(ggThreadBucketSize) \in Nat
  BY <1>1, EstimateIsNat
<1>3. QED
  BY <1>1, <1>2 DEF InitMemory, MemoryMade, SizesCompared

\* The statement leaves the memory as it is or makes it anew, for more by the estimate.
LEMMA StatementSteps ==
  ASSUME MemoryMade, NEW x \in StatementSizes, CoThreadBucket(x)
  PROVE  /\ MemoryMade' /\ threadbuffersize <= threadbuffersize'
         /\ gThreadBucketSize' = gThreadBucketSize
         /\ MultiThreaded => Estimate(ThreadBucketSize') <= threadbuffersize'
         /\ MultiThreaded' = MultiThreaded
<1> DEFINE n == IF x < 1 THEN 1 ELSE x
<1>1. n \in Nat /\ ggThreadBucketSize \in Nat
  BY BucketMemoryAssumption
<1>2. /\ ThreadBucketSize' = n /\ gThreadBucketSize' = gThreadBucketSize
      /\ MultiThreaded' = MultiThreaded
  BY DEF CoThreadBucket
<1>3. PICK p \in Nat : positions = p + 1 /\ threadbuffersize = Estimate(p)
  BY DEF MemoryMade
<1>4. /\ Estimate(p) \in Nat /\ Estimate(n) \in Nat
      /\ Estimate(ggThreadBucketSize) \in Nat
  BY <1>1, EstimateIsNat
<1>5. CASE MultiThreaded /\ ~KeepBuckets(n)
  <2>1. positions' = n + 1 /\ threadbuffersize' = Estimate(n)
    BY <1>5 DEF CoThreadBucket, Allocate
  <2> HIDE DEF n
  <2>2. threadbuffersize <= Estimate(n)
    BY <1>3, <1>4, <1>5 DEF KeepBuckets
  <2>3. Estimate(ggThreadBucketSize) <= Estimate(n)
    BY <1>3, <1>4, <2>2 DEF MemoryMade
  <2>4. QED
    BY <1>1, <1>2, <1>4, <2>1, <2>2, <2>3 DEF MemoryMade
<1>6. CASE ~(MultiThreaded /\ ~KeepBuckets(n))
  <2>1. positions' = positions /\ threadbuffersize' = threadbuffersize
    BY <1>6 DEF CoThreadBucket
  <2> HIDE DEF n
  <2>2. QED
    BY <1>1, <1>2, <1>3, <1>4, <1>6, <2>1 DEF MemoryMade, KeepBuckets
<1>7. QED
  BY <1>5, <1>6

\* Other steps leave the memory alone, and the sizes become what they were or the setup's.
LEMMA OtherSteps ==
  ASSUME MemoryMade, CoOff \/ CoOn \/ NewModule, UNCHANGED <<positions, threadbuffersize>>
  PROVE  /\ MemoryMade'
         /\ ThreadBucketSize' \in {ThreadBucketSize, gThreadBucketSize, ggThreadBucketSize}
         /\ gThreadBucketSize' \in {ThreadBucketSize, gThreadBucketSize, ggThreadBucketSize}
<1>1. ggThreadBucketSize \in Nat
  BY BucketMemoryAssumption
<1>2. /\ ThreadBucketSize' \in {ThreadBucketSize, gThreadBucketSize, ggThreadBucketSize}
      /\ gThreadBucketSize' \in {ThreadBucketSize, gThreadBucketSize, ggThreadBucketSize}
  BY DEF CoOff, CoOn, NewModule, SizesStay, MakeGlobal, PopVariables, FullCleanUp
<1>3. QED
  BY <1>1, <1>2 DEF MemoryMade

LEMMA MemoryNext ==
  ASSUME MemoryMade, [NextMemory]_memoryvars
  PROVE  MemoryMade'
<1>1. CASE UNCHANGED memoryvars
  BY <1>1 DEF memoryvars, MemoryMade
<1>2. QED
  BY <1>1, StatementSteps, OtherSteps DEF NextMemory

LEMMA ComparedNext ==
  ASSUME MemoryMade, SizesCompared, [NextMemory]_memoryvars, [StatementWithThreads]_memoryvars
  PROVE  SizesCompared'
<1>1. ASSUME NEW x \in StatementSizes, CoThreadBucket(x), StatementWithThreads
      PROVE  SizesCompared'
  <2>1. MultiThreaded
    BY <1>1 DEF StatementWithThreads
  <2>2. /\ threadbuffersize <= threadbuffersize' /\ gThreadBucketSize' = gThreadBucketSize
        /\ Estimate(ThreadBucketSize') <= threadbuffersize' /\ MemoryMade'
    BY <1>1, <2>1, StatementSteps
  <2>3. PICK p \in Nat, q \in Nat : threadbuffersize = Estimate(p) /\ threadbuffersize' = Estimate(q)
    BY <2>2 DEF MemoryMade
  <2>4. /\ Estimate(p) \in Nat /\ Estimate(q) \in Nat /\ Estimate(gThreadBucketSize) \in Nat
    BY EstimateIsNat DEF MemoryMade
  <2>5. QED
    BY <2>2, <2>3, <2>4 DEF SizesCompared
<1>2. CASE (CoOff \/ CoOn \/ NewModule) /\ UNCHANGED <<positions, threadbuffersize>>
  <2>1. /\ ThreadBucketSize' \in {ThreadBucketSize, gThreadBucketSize, ggThreadBucketSize}
        /\ gThreadBucketSize' \in {ThreadBucketSize, gThreadBucketSize, ggThreadBucketSize}
    BY <1>2, OtherSteps
  <2>2. QED
    BY <1>2, <2>1 DEF SizesCompared, MemoryMade
<1>3. CASE UNCHANGED memoryvars
  BY <1>3 DEF memoryvars, SizesCompared
<1>4. QED
  BY <1>1, <1>2, <1>3 DEF NextMemory

\* A size that was compared with the memory has its positions.
LEMMA ComparedIsEnough ==
  ASSUME ggThreadBucketSize >= 333, MaxTer >= 800, MemoryMade,
         Estimate(ThreadBucketSize) <= threadbuffersize
  PROVE  EveryTermHasItsPosition
<1>1. PICK p \in Nat : positions = p + 1 /\ threadbuffersize = Estimate(p)
  BY DEF MemoryMade
<1>2. p >= 250
  BY <1>1, LargeBucket, BucketMemoryAssumption DEF MemoryMade
<1>3. ThreadBucketSize <= p
  BY <1>1, <1>2, NotMoreTerms DEF MemoryMade
<1>4. QED
  BY <1>1, <1>2, <1>3 DEF EveryTermHasItsPosition, TermsInBucket, MemoryMade

\* From a setup size of 333 on (the default is 500) a threadbucketsize statement given while
\* threads are on leaves a position in deferbuffer for every term of a bucket, whatever the
\* program did before, with threads on or off.  A term of maximal size has at least 200
\* words (setfile.c:385).
THEOREM StatementReallocates ==
  ASSUME ggThreadBucketSize >= 333, MaxTer >= 800
  PROVE  SpecMemory => StatementMakesRoom
<1> DEFINE Reallocates ==
      (\E x \in StatementSizes : CoThreadBucket(x)) /\ MultiThreaded => EveryTermHasItsPosition'
<1>1. InitMemory => MemoryMade
  BY MemoryInit
<1>2. MemoryMade /\ [NextMemory]_memoryvars => MemoryMade'
  BY MemoryNext
<1>3. MemoryMade /\ [NextMemory]_memoryvars => [Reallocates]_memoryvars
  <2>1. ASSUME MemoryMade, NEW x \in StatementSizes, CoThreadBucket(x), MultiThreaded
        PROVE  EveryTermHasItsPosition'
    <3>1. MemoryMade' /\ Estimate(ThreadBucketSize') <= threadbuffersize'
      BY <2>1, StatementSteps
    <3>2. PICK p \in Nat : positions' = p + 1 /\ threadbuffersize' = Estimate(p)
      BY <3>1 DEF MemoryMade
    <3>3. /\ Estimate(ggThreadBucketSize) <= Estimate(p) /\ ThreadBucketSize' \in Nat
      BY <3>1, <3>2 DEF MemoryMade
    <3>4. p >= 250
      BY <3>3, LargeBucket, BucketMemoryAssumption
    <3>5. ThreadBucketSize' <= p
      BY <3>1, <3>2, <3>3, <3>4, NotMoreTerms
    <3>6. QED
      BY <3>2, <3>3, <3>4, <3>5 DEF EveryTermHasItsPosition, TermsInBucket
  <2>2. QED
    BY <2>1
<1>4. SpecMemory => [][Reallocates]_memoryvars
  BY <1>1, <1>2, <1>3, PTL DEF SpecMemory
<1>5. QED
  BY <1>4 DEF StatementMakesRoom

\* From a setup size of 333 on, a program that gives no threadbucketsize statement while
\* threads are off has a position for every term of its buckets throughout, however it ends
\* its modules.  Without that condition it need not (the run bucket_memory).
THEOREM PositionsSuffice ==
  ASSUME ggThreadBucketSize >= 333, MaxTer >= 800
  PROVE  SpecMemory /\ [][StatementWithThreads]_memoryvars => []EveryTermHasItsPosition
<1> DEFINE MemoryIInv == MemoryMade /\ SizesCompared
<1>1. InitMemory => MemoryIInv
  BY MemoryInit
<1>2. MemoryIInv /\ [NextMemory]_memoryvars /\ [StatementWithThreads]_memoryvars => MemoryIInv'
  BY MemoryNext, ComparedNext
<1>3. MemoryIInv => EveryTermHasItsPosition
  BY ComparedIsEnough DEF SizesCompared
<1> HIDE DEF MemoryIInv
<1>4. QED
  BY <1>1, <1>2, <1>3, PTL DEF SpecMemory
=============================================================================
