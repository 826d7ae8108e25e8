------------------------------- MODULE Buckets -------------------------------
(***************************************************************************)
(* How TFORM divides the terms of one expression over its workers          *)
(* (form/sources/threads.c): the master fills buckets and hands them to    *)
(* available workers (ThreadsProcessor, SendOneBucket); a worker goes      *)
(* through its bucket term by term (LOWESTLEVELGENERATION in RunThread);   *)
(* when the input is at its end and a worker is idle, the master takes the *)
(* terms a busy worker has not started and puts them in free buckets       *)
(* (LoadReadjusted).  Apart from the lock of a bucket, which protects its  *)
(* field busy, all fields of a bucket are shared without a lock.           *)
(*                                                                         *)
(* The pool of workers is the set of available ones; ThreadPool shows how  *)
(* it is kept.  Load balancing (AC.ThreadBalancing) is on.  Where the code *)
(* takes the first bucket of a kind in a list that it reorders, any bucket *)
(* of that kind may be taken.  Buckets of whole brackets are not modelled. *)
(***************************************************************************)
EXTENDS Integers, Sequences, FiniteSets

CONSTANTS numberofworkers,
          NumTerms,    \* terms in the input expression
          BucketSize   \* terms that fit in a bucket, AC.ThreadBucketSize

ASSUME SizesAssumption == /\ numberofworkers \in Nat \ {0}
                          /\ NumTerms \in Nat /\ BucketSize \in Nat \ {0}

Workers == 1..numberofworkers
Terms   == 1..NumTerms

TooFewThreadBuckets == numberofworkers

numthreadbuckets == 2 * numberofworkers

threadbuckets == 1..numthreadbuckets

VARIABLES
  bucket,      \* the THREADBUCKETs: free, busy, totnum, usenum, and their terms
  lock,        \* the bucket whose lock the master keeps across steps, or 0
  available,   \* workers on the stack of available workers
  wpc,         \* where each worker is
  threadbuck,  \* the bucket a worker was given; 0 while it has none
  ttin,        \* number of terms of it the worker has copied out
  executed,    \* how often each term was given to Generator
  mpc,         \* where the master is
  thr,         \* the bucket the master is filling, sending or stealing from
  nextterm,    \* the next term GetTerm will return
  endofinput, numberoffullbuckets,
  scan         \* what LoadReadjusted has seen so far

workervars == <<wpc, threadbuck, ttin, executed>>
inputvars  == <<nextterm, endofinput>>
vars == <<bucket, lock, available, workervars, mpc, thr, inputvars,
          numberoffullbuckets, scan>>

NothingSeen == [j |-> 1, bus |-> "none", freebuckets |-> {}, thrtogo |-> 0,
                numtogo |-> 0, numbusy |-> 0]

Free(b) == bucket[b].free
Ready(b) == Free(b) \in {"FREE", "COMINGFREE"}
InState(s) == {b \in threadbuckets : Free(b) = s}
ReadyBuckets == {b \in threadbuckets : Ready(b)}
Unlocked(b) == lock # b

-----------------------------------------------------------------------------
(* A worker in LOWESTLEVELGENERATION *)

\* usenum starts at 0; usenum++ and the term is copied to the workspace.
CopyTerm(w) ==
  /\ wpc[w] \in {"start", "copy"}
  /\ bucket' = [bucket EXCEPT ![threadbuck[w]].usenum =
                                IF wpc[w] = "start" THEN 1 ELSE @ + 1]
  /\ ttin' = [ttin EXCEPT ![w] = @ + 1]
  /\ wpc' = [wpc EXCEPT ![w] = "check"]
  /\ UNCHANGED <<lock, available, threadbuck, executed, mpc, thr, inputvars,
                 numberoffullbuckets, scan>>

LandingTooFree(b) ==
  IF Free(b) # "TERMINATED" THEN bucket ELSE [bucket EXCEPT ![b].free = "COMINGFREE"]

\* The answer to BUCKETTERMINATED; after RELEASED the bucket is not used any more.
Landing(b) ==
  IF Free(b) # "TERMINATED" THEN bucket
  ELSE [bucket EXCEPT ![b].free = IF bucket[b].usenum = bucket[b].totnum
                                  THEN "COMINGFREE" ELSE "RELEASED"]

\* The check before the term; the release it may cause is acted on after the term.
CheckBefore(w) ==
  /\ wpc[w] = "check"
  /\ bucket' = Landing(threadbuck[w])
  /\ wpc' = [wpc EXCEPT ![w] = "take"]
  /\ UNCHANGED <<lock, available, threadbuck, ttin, executed, mpc, thr, inputvars,
                 numberoffullbuckets, scan>>

SetBusy(w, from, value, to) ==
  /\ wpc[w] = from /\ Unlocked(threadbuck[w])
  /\ bucket' = [bucket EXCEPT ![threadbuck[w]].busy = value]
  /\ wpc' = [wpc EXCEPT ![w] = to]
  /\ UNCHANGED <<lock, mpc, thr, inputvars, numberoffullbuckets, scan>>

MarkDoingTerm(w) ==
  /\ SetBusy(w, "take", "DOINGTERM", "generate")
  /\ UNCHANGED <<available, threadbuck, ttin, executed>>

\* Generator has executed the term.
MarkPreparing(w) ==
  /\ SetBusy(w, "generate", "PREPARINGTERM", "checkagain")
  /\ executed' = [executed EXCEPT ![bucket[threadbuck[w]].terms[ttin[w]]] = @ + 1]
  /\ UNCHANGED <<available, threadbuck, ttin>>

CheckAfter(w) ==
  /\ wpc[w] = "checkagain"
  /\ bucket' = Landing(threadbuck[w])
  /\ wpc' = [wpc EXCEPT ![w] = IF bucket'[threadbuck[w]].free = "RELEASED"
                               THEN "release" ELSE "more"]
  /\ UNCHANGED <<lock, available, threadbuck, ttin, executed, mpc, thr, inputvars,
                 numberoffullbuckets, scan>>

\* while ( *ttin ): another term, or the bucket is finished.
MoreTerms(w) ==
  /\ wpc[w] = "more"
  /\ IF ttin[w] < Len(bucket[threadbuck[w]].terms)
     THEN wpc' = [wpc EXCEPT ![w] = "copy"] /\ UNCHANGED bucket
     ELSE /\ bucket' = [bucket EXCEPT ![threadbuck[w]].free = "COMINGFREE"]
          /\ wpc' = [wpc EXCEPT ![w] = "release"]
  /\ UNCHANGED <<lock, available, threadbuck, ttin, executed, mpc, thr, inputvars,
                 numberoffullbuckets, scan>>

\* bucketstolen: the last write to the bucket, when it may be someone else's already.
LeaveBucket(w) ==
  /\ SetBusy(w, "release", "TOBERELEASED", "idle")
  /\ available' = available \cup {w}
  /\ threadbuck' = [threadbuck EXCEPT ![w] = 0] /\ ttin' = [ttin EXCEPT ![w] = 0]
  /\ UNCHANGED executed

Worker(w) ==
  \/ CopyTerm(w) \/ CheckBefore(w) \/ MarkDoingTerm(w) \/ MarkPreparing(w)
  \/ CheckAfter(w) \/ MoreTerms(w) \/ LeaveBucket(w)

-----------------------------------------------------------------------------
(* The master in ThreadsProcessor *)

\* LoadOneThread, busy, free, the count, and the signal.
Send(b) ==
  /\ \E w \in available :
       /\ available' = available \ {w}
       /\ threadbuck' = [threadbuck EXCEPT ![w] = b]
       /\ wpc' = [wpc EXCEPT ![w] = "start"]
  /\ bucket' = [bucket EXCEPT ![b].busy = "ASSIGNED", ![b].free = "INUSE"]
  /\ numberoffullbuckets' = numberoffullbuckets - 1
  /\ UNCHANGED <<lock, ttin, executed, inputvars, scan>>

RoomInBucket == bucket[thr].totnum < BucketSize

\* "First check", once before a term is put in the bucket: is there a full bucket and a
\* worker for it?  It is a priority task.
SendOneBucket ==
  /\ available # {} /\ numberoffullbuckets > 0
  /\ \/ mpc = "first" /\ mpc' = "open"
     \/ mpc = "more" /\ RoomInBucket /\ mpc' = "get"
  /\ \E b \in InState("FILLED") : Send(b)
  /\ UNCHANGED thr

NothingToSend == available = {} \/ numberoffullbuckets = 0

\* Top of the loop: the first term of a bucket, or the end of the input.
GetFirstTerm ==
  /\ mpc = "bucket"
  /\ IF nextterm > NumTerms
     THEN /\ endofinput' = TRUE /\ mpc' = "finalize"
          /\ UNCHANGED <<bucket, nextterm>>
     ELSE /\ bucket' = [bucket EXCEPT ![thr].terms = <<nextterm>>]
          /\ nextterm' = nextterm + 1 /\ mpc' = "first"
          /\ UNCHANGED endofinput
  /\ UNCHANGED <<lock, available, workervars, thr, numberoffullbuckets, scan>>

\* totnum = 1; usenum = 0
OpenBucket ==
  /\ mpc = "open" \/ (mpc = "first" /\ NothingToSend)
  /\ bucket' = [bucket EXCEPT ![thr].totnum = 1, ![thr].usenum = 0]
  /\ mpc' = "more"
  /\ UNCHANGED <<lock, available, workervars, thr, inputvars, numberoffullbuckets, scan>>

GetAnotherTerm ==
  /\ mpc = "get" \/ (mpc = "more" /\ NothingToSend /\ RoomInBucket)
  /\ IF nextterm > NumTerms
     THEN /\ endofinput' = TRUE /\ mpc' = "full"
          /\ UNCHANGED <<bucket, nextterm>>
     ELSE /\ bucket' = [bucket EXCEPT ![thr].terms = Append(@, nextterm),
                                      ![thr].totnum = @ + 1]
          /\ nextterm' = nextterm + 1 /\ mpc' = "more"
          /\ UNCHANGED endofinput
  /\ UNCHANGED <<lock, available, workervars, thr, numberoffullbuckets, scan>>

\* The bucket has reached the size of this pass (thrbufsiz, smaller in the first ones).
StopFilling ==
  /\ mpc = "more"
  /\ mpc' = "full"
  /\ UNCHANGED <<bucket, lock, available, workervars, thr, inputvars,
                 numberoffullbuckets, scan>>

CountFull == numberoffullbuckets' = numberoffullbuckets + 1

CloseBucket ==
  /\ mpc = "full"
  /\ bucket' = [bucket EXCEPT ![thr].free = "FILLED"]
  /\ CountFull
  /\ mpc' = IF available = {} /\ ~endofinput THEN "loadanother" ELSE "pick"
  /\ UNCHANGED <<lock, available, workervars, thr, inputvars, scan>>

\* All threads are busy: try to load up another bucket.
LoadAnother ==
  /\ mpc = "loadanother"
  /\ IF ReadyBuckets = {} THEN mpc' = "pick" /\ UNCHANGED <<bucket, thr>>
     ELSE \E b \in ReadyBuckets :
            /\ bucket' = [bucket EXCEPT ![b].free = "FREE"]
            /\ thr' = b /\ mpc' = "bucket"
  /\ UNCHANGED <<lock, available, workervars, inputvars, numberoffullbuckets, scan>>

PickBucket ==
  /\ mpc = "pick"
  /\ thr' \in InState("FILLED") /\ mpc' = "dobucket"
  /\ UNCHANGED <<bucket, lock, available, workervars, inputvars, numberoffullbuckets, scan>>

DoBucket ==
  /\ mpc = "dobucket" /\ available # {} /\ Unlocked(thr)
  /\ Send(thr)
  /\ mpc' = "sent"
  /\ UNCHANGED thr

\* "Now look whether there is another bucket filled and a worker available".
AfterSend ==
  /\ mpc = "sent"
  /\ IF available = {} THEN mpc' = "finalize"
     ELSE IF InState("FILLED") # {} THEN mpc' = "pick"
     ELSE mpc' = "reload"
  /\ UNCHANGED <<bucket, lock, available, workervars, thr, inputvars,
                 numberoffullbuckets, scan>>

\* Before the end of the input a free bucket is filled; after it, none is free any more
\* and the loop is left, unless (Finalize) there are buckets to send.
FindBucket ==
  /\ mpc \in {"reload", "finalize"}
  /\ IF ~endofinput /\ ReadyBuckets # {}
     THEN \E b \in ReadyBuckets :
            /\ bucket' = [bucket EXCEPT ![b].free = "FREE"]
            /\ thr' = b /\ mpc' = "bucket"
     ELSE /\ bucket' = [b \in threadbuckets |->
                          IF Ready(b) THEN [bucket[b] EXCEPT !.free = "ATEND"] ELSE bucket[b]]
          /\ mpc' = IF mpc = "finalize" /\ InState("FILLED") # {} THEN "pick" ELSE "balance"
          /\ UNCHANGED thr
  /\ UNCHANGED <<lock, available, workervars, inputvars, numberoffullbuckets, scan>>

-----------------------------------------------------------------------------
(* LoadReadjusted *)

\* Wait for an idle worker, then look at every bucket in turn.
StartScan ==
  /\ mpc = "balance" /\ available # {}
  /\ scan' = NothingSeen /\ mpc' = "scan"
  /\ UNCHANGED <<bucket, lock, available, workervars, thr, inputvars, numberoffullbuckets>>

\* What is free now, and the field busy of the others, read under the lock.
ScanBucket ==
  LET b == scan.j
  IN /\ mpc = "scan" /\ b <= numthreadbuckets
     /\ IF Free(b) \in {"FREE", "ATEND", "COMINGFREE"}
        THEN /\ scan' = [scan EXCEPT !.j = @ + 1, !.freebuckets = @ \cup {b}]
             /\ UNCHANGED mpc
        ELSE IF bucket[b].totnum > 1
        THEN scan' = [scan EXCEPT !.bus = bucket[b].busy] /\ mpc' = "weigh"
        ELSE scan' = [scan EXCEPT !.j = @ + 1] /\ UNCHANGED mpc
     /\ UNCHANGED <<bucket, lock, available, workervars, thr, inputvars,
                    numberoffullbuckets>>

\* The other fields are read later than busy.
WeighBucket ==
  LET b == scan.j
      n == bucket[b].totnum - bucket[b].usenum
      seen == [scan EXCEPT !.j = @ + 1]
  IN /\ mpc = "weigh"
     /\ \/ /\ Free(b) = "INUSE" /\ UNCHANGED bucket
           /\ scan' = IF scan.bus = "ASSIGNED" THEN [seen EXCEPT !.numbusy = @ + 1]
                      ELSE IF n > scan.numtogo
                      THEN [seen EXCEPT !.numtogo = n, !.thrtogo = b]
                      ELSE seen
        \/ /\ Free(b) = "RELEASED" /\ scan.bus = "TOBERELEASED"
           /\ bucket' = [bucket EXCEPT ![b].free = "ATEND", ![b].busy = "PREPARINGTERM"]
           /\ scan' = [seen EXCEPT !.freebuckets = @ \cup {b}]
        \/ /\ Free(b) # "INUSE"
           /\ ~(Free(b) = "RELEASED" /\ scan.bus = "TOBERELEASED")
           /\ scan' = seen /\ UNCHANGED bucket
     /\ mpc' = "scan"
     /\ UNCHANGED <<lock, available, workervars, thr, inputvars, numberoffullbuckets>>

TermsLeft(b) == bucket[b].totnum - bucket[b].usenum

\* Returns 0 (nothing to be done), 1 (wait a bit), starts again, or goes for thrtogo.
Decide ==
  /\ mpc = "scan" /\ scan.j > numthreadbuckets
  /\ IF scan.freebuckets # {} /\ scan.numtogo > 0
     THEN IF TermsLeft(scan.thrtogo) < scan.numtogo
          THEN mpc' = "scan" /\ scan' = NothingSeen /\ UNCHANGED thr
          ELSE mpc' = "steal" /\ thr' = scan.thrtogo /\ UNCHANGED scan
     ELSE /\ mpc' = IF scan.freebuckets # {} /\ scan.numbusy > 0 THEN "finalize"
                    ELSE "waitall"
          /\ scan' = NothingSeen /\ UNCHANGED thr
  /\ UNCHANGED <<bucket, lock, available, workervars, inputvars, numberoffullbuckets>>

MayStealAnytime == TRUE

\* Not from a worker that is between two terms.
MaySteal == bucket[thr].busy = "DOINGTERM"

LeaveLock(b) == lock' = 0

\* Under the lock of the bucket, which is kept if the terms can be taken.
Steal ==
  /\ mpc = "steal"
  /\ IF MaySteal /\ TermsLeft(thr) >= scan.numtogo
     THEN /\ bucket' = [bucket EXCEPT ![thr].free = "TERMINATED"]
          /\ lock' = thr /\ mpc' = "share" /\ UNCHANGED scan
     ELSE LeaveLock(thr) /\ mpc' = "scan" /\ scan' = NothingSeen /\ UNCHANGED bucket
  /\ UNCHANGED <<available, workervars, thr, inputvars, numberoffullbuckets>>

StolenFrom(b) == SubSeq(bucket[b].terms, bucket[b].usenum, Len(bucket[b].terms))

\* The terms after the one being executed.
Stolen(b) == SubSeq(bucket[b].terms, bucket[b].usenum + 1, Len(bucket[b].terms))

\* n terms for m free buckets: terms for the i-th of them, one more for the first few,
\* and terms for those before it.
Share(n, m, i)  == IF i <= n % m THEN n \div m + 1 ELSE n \div m
Before(n, m, i) == (i - 1) * (n \div m) + (IF i - 1 < n % m THEN i - 1 ELSE n % m)

\* What free bucket b gets.
Rank(b)      == Cardinality({c \in scan.freebuckets : c <= b})
ShareOf(b)   == Share(scan.numtogo, Cardinality(scan.freebuckets), Rank(b))
BeforeOf(b)  == Before(scan.numtogo, Cardinality(scan.freebuckets), Rank(b))
Refilled(b)  == [free |-> "FILLED", busy |-> "ASSIGNED", totnum |-> ShareOf(b), usenum |-> 0,
                 terms |-> SubSeq(Stolen(thr), BeforeOf(b) + 1, BeforeOf(b) + ShareOf(b))]

ShareOut ==
  /\ mpc = "share"
  /\ bucket' = [b \in threadbuckets |->
                  IF b \in scan.freebuckets /\ ShareOf(b) > 0 THEN Refilled(b)
                  ELSE IF b = thr
                  THEN [bucket[b] EXCEPT !.terms = SubSeq(@, 1, bucket[b].usenum)]
                  ELSE bucket[b]]
  /\ lock' = 0 /\ mpc' = "finalize" /\ scan' = NothingSeen
  /\ UNCHANGED <<available, workervars, thr, inputvars, numberoffullbuckets>>

MasterWaitAll ==
  /\ mpc = "waitall" /\ available = Workers
  /\ mpc' = "done"
  /\ UNCHANGED <<bucket, lock, available, workervars, thr, inputvars,
                 numberoffullbuckets, scan>>

Master ==
  \/ SendOneBucket \/ GetFirstTerm \/ OpenBucket \/ GetAnotherTerm \/ StopFilling
  \/ CloseBucket \/ LoadAnother \/ PickBucket \/ DoBucket \/ AfterSend \/ FindBucket
  \/ StartScan \/ ScanBucket \/ WeighBucket \/ Decide \/ Steal \/ ShareOut
  \/ MasterWaitAll

-----------------------------------------------------------------------------
Init ==
  /\ bucket = [b \in threadbuckets |-> [free |-> "FREE", busy |-> "PREPARINGTERM",
                                        totnum |-> 0, usenum |-> 0, terms |-> <<>>]]
  /\ lock = 0 /\ available = Workers
  /\ wpc = [w \in Workers |-> "idle"]
  /\ threadbuck = [w \in Workers |-> 0] /\ ttin = [w \in Workers |-> 0]
  /\ executed = [t \in Terms |-> 0]
  /\ mpc = "bucket" /\ thr = 1 /\ nextterm = 1
  /\ endofinput = FALSE /\ numberoffullbuckets = 0
  /\ scan = NothingSeen

Next == Master \/ \E w \in Workers : Worker(w)

\* Every thread is scheduled; Generator returns for every term.
Spec == Init /\ [][Next]_vars /\ WF_vars(Master) /\ \A w \in Workers : WF_vars(Worker(w))

-----------------------------------------------------------------------------
(* Properties *)

TypeOK ==
  /\ \A b \in threadbuckets :
       /\ bucket[b].free \in {"FREE", "INUSE", "COMINGFREE", "FILLED", "ATEND",
                              "TERMINATED", "RELEASED"}
       /\ bucket[b].busy \in {"DOINGTERM", "ASSIGNED", "TOBERELEASED", "PREPARINGTERM"}
       /\ bucket[b].totnum \in 0..BucketSize
       /\ bucket[b].usenum \in 0..bucket[b].totnum
       /\ Len(bucket[b].terms) <= BucketSize
  /\ lock \in threadbuckets \cup {0} /\ available \subseteq Workers
  /\ \A w \in Workers : threadbuck[w] \in threadbuckets \cup {0} /\ ttin[w] \in 0..BucketSize
  /\ thr \in threadbuckets /\ nextterm \in 1..NumTerms+1

Reading(w) == wpc[w] \in {"start", "copy", "check", "take", "generate",
                          "checkagain", "more"}

Filling == {"first", "open", "more", "get", "full"}

\* Two workers never go through the same bucket, and what a worker is reading is not
\* available for filling: it is marked in use or, when it is being robbed, terminated.
BucketHasOneUser ==
  \A w \in Workers : Reading(w) =>
    /\ \A v \in Workers \ {w} : Reading(v) => threadbuck[v] # threadbuck[w]
    /\ Free(threadbuck[w]) \in {"INUSE", "TERMINATED"}

\* The master never writes terms into a bucket that a worker is reading; from the
\* bucket it robs it takes only terms the worker has not begun.
MasterWritesAlone ==
  \A w \in Workers : Reading(w) =>
    /\ mpc \in Filling => threadbuck[w] # thr
    /\ mpc = "share" => /\ threadbuck[w] \notin scan.freebuckets
                        /\ threadbuck[w] = thr => wpc[w] = "generate"

\* The terms that are in some bucket and have yet to be executed, and those executed:
\* together every term read from the input, each once.  A term is neither lost nor done
\* twice, however often buckets are robbed.
InFilled(t) == {p \in threadbuckets \X (1..BucketSize) :
  LET b == p[1]  i == p[2] IN
  /\ Free(b) = "FILLED" \/ (b = thr /\ mpc \in Filling)
  /\ i <= Len(bucket[b].terms) /\ bucket[b].terms[i] = t}
InUse(t) == {p \in Workers \X (1..BucketSize) :
  LET w == p[1]  i == p[2]  b == threadbuck[w] IN
  /\ Reading(w) /\ i <= Len(bucket[b].terms) /\ bucket[b].terms[i] = t
  /\ \/ wpc[w] = "start" \/ i > ttin[w]
     \/ i = ttin[w] /\ wpc[w] \in {"check", "take", "generate"}}
Pending(t) == Cardinality(InFilled(t)) + Cardinality(InUse(t))

NoTermLostOrRepeated ==
  \A t \in Terms : executed[t] + Pending(t) = IF t < nextterm THEN 1 ELSE 0

\* The master does not come to the end with a term unread or unfinished: the part of
\* ExpressionFinishes that is an invariant.
AllExecutedAtEnd == mpc = "done" => \A t \in Terms : executed[t] = 1

\* All terms are executed, each once, and the master gets past MasterWaitAll, whatever the
\* interleaving of load balancing with the workers.
ExpressionFinishes == <>(mpc = "done" /\ \A t \in Terms : executed[t] = 1)
=============================================================================
