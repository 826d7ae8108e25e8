------------------------------ MODULE ParForm -------------------------------
(***************************************************************************)
(* ParFORM (form/sources/parallel.c, mpi.c): FORM as one master and some   *)
(* slaves, processes that share nothing and send messages over MPI.        *)
(*                                                                         *)
(* An expression is done in one of two ways.  Either its terms are dealt   *)
(* out in buckets to whatever slave asks for them (PF_Processor), each     *)
(* slave sorts what it generates, and the master merges the sorted streams *)
(* with a tree of losers (PF_EndSort).  Or, with InParallel, the slaves    *)
(* get whole expressions (PF_InParallelProcessor).  No barrier separates   *)
(* one such job from the next: what keeps them apart is the order of the   *)
(* messages, their tags, and who is asked when.                            *)
(*                                                                         *)
(* MPI keeps the order of messages between two processes and no other.     *)
(* MPI_Isend sends a buffer by reference: it is read when the message is   *)
(* received.  MPI_Ssend returns when the receiver has taken the message.   *)
(***************************************************************************)
EXTENDS Integers, Sequences, SequencesExt, FiniteSetsExt

CONSTANTS NumSlaves,
          ProcessBucketSize,  \* most terms in a bucket (AC.mProcessBucketSize)
          RoomInBuffer,       \* terms a send buffer of the master has room for
          BufferSize,         \* words in a send buffer of a slave
          NumSBufs,           \* send buffers of a slave (PF.numsbufs)
          NumKeys,            \* different terms that are generated
          Programs,           \* sequences of jobs that are tried
          MaxPrints           \* bound: messages the slaves print

Master == 0
Slaves == 1..NumSlaves
Procs  == {Master} \cup Slaves
numtasks == NumSlaves + 1

\* The terms of an expression to be done, of which terms[n][key] is the coefficient of the
\* term key in what the statements of the module make of term n, or a number of expressions.
Jobs == [kind : {"terms"}, terms : Seq(Seq(Int))] \cup [kind : {"expressions"}, number : Nat]

ASSUME ParFormAssumption ==
  /\ NumSlaves \in Nat /\ NumSlaves > 1
  /\ ProcessBucketSize \in Nat \ {0} /\ RoomInBuffer \in Nat \ {0}
  /\ BufferSize \in Nat /\ BufferSize > 1 /\ NumSBufs \in Nat /\ NumSBufs > 1
  /\ NumKeys \in Nat /\ MaxPrints \in Nat
  /\ Programs \subseteq Seq(Jobs)

VARIABLES
  program,     \* the jobs
  job,         \* number of the job each process is at
  pc,          \* where each process is
  toslave,     \* messages on their way from the master to each slave
  tomaster,    \* messages on their way from each slave to the master
  ninterms,    \* AN.ninterms of each process
  \* the master
  maxinterms, cmaxinterms, termsinbucket,
  buff,        \* sb->buff: the memory that each send buffer uses; number 0 is filled
  memory,      \* what is in it: the number of the first term and the terms
  next, has_sent,       \* of PF_WaitAllSlaves
  finished,             \* static in PF_ISendSbuf
  partodoexr,  \* the expression each slave was sent
  stored,      \* the result stored for each expression
  posted,      \* slaves a receive is posted for
  arrived,     \* what the posted receive of each slave has got
  words,       \* from fill to full of the active receive buffer of each slave
  PF_term,     \* the term of each slave in the tree
  lloser, rloser, PF_loser,  \* the tree of losers
  calls,       \* the calls of PF_GetLoser that are active, and where they are
  output,      \* the terms written to the output
  collected,   \* slaves whose statistics have been received
  \* the slaves
  infile,      \* the terms that are left in the input buffer, 0 for the end
  POfull,      \* how many terms were put in it
  PF_linterms, \* terms done in this job
  done,        \* their numbers
  out,         \* words that EndSort has still to send
  active,      \* the send buffer that is filled
  sbuf,        \* the send buffers
  exprtodo,    \* PF.exprtodo
  prints       \* messages printed

send   == <<maxinterms, cmaxinterms, termsinbucket, buff, memory, finished>>
wait   == <<next, has_sent>>
ip     == <<partodoexr, stored>>
receive == <<posted, arrived, words>>
tree   == <<PF_term, lloser, rloser, PF_loser, calls, output>>
master == <<send, wait, ip, receive, tree, collected>>
input  == <<infile, POfull, PF_linterms, done>>
result == <<out, active, sbuf>>
slave  == <<input, result, exprtodo, prints>>
vars == <<program, job, pc, toslave, tomaster, ninterms, master, slave>>

AnySource   == 0           \* PF_ANY_SOURCE
Job(p) == program[job[p]]
Terms  == Job(Master).terms
Goto(p, place) == pc' = [pc EXCEPT ![p] = place]
EmptyBucket == [first |-> 0, terms |-> <<>>]

-----------------------------------------------------------------------------
(* Messages *)

ToSlave(s, m)  == toslave' = [toslave EXCEPT ![s] = Append(@, m)]
ToMaster(s, m) == tomaster' = [tomaster EXCEPT ![s] = Append(@, m)]
Taken(s)  == tomaster' = [tomaster EXCEPT ![s] = Tail(@)]
TagFrom(s) == IF tomaster[s] = <<>> THEN "none" ELSE Head(tomaster[s]).tag

\* Ssend, Wait and Waitall of a slave: all it has sent has been received.
AllReceived(s) == tomaster[s] = <<>>

\* A posted receive takes the first message of its source, whatever its tag; what is in
\* the send buffer then is what arrives.
Deliver(s) ==
  /\ s \in posted /\ tomaster[s] # <<>>
  /\ LET m == Head(tomaster[s])
     IN  arrived' = [arrived EXCEPT ![s] =
           <<[tag |-> m.tag, words |-> IF m.tag \in {"BUFFER", "ENDBUFFER"}
                                       THEN sbuf[s][m.buf] ELSE <<>>]>>]
  /\ posted' = posted \ {s}
  /\ Taken(s)
  /\ UNCHANGED <<program, job, pc, toslave, ninterms, send, wait, ip, words, tree,
                 collected, slave>>

-----------------------------------------------------------------------------
(* The slave in PF_Processor *)

StartSlave(s) ==
  /\ pc[s] = "start" /\ AllReceived(s) /\ job[s] <= Len(program)
  /\ IF Job(s).kind = "terms"
     THEN /\ Goto(s, "get")
          /\ infile' = [infile EXCEPT ![s] = <<>>]
          /\ POfull' = [POfull EXCEPT ![s] = 0]
          /\ PF_linterms' = [PF_linterms EXCEPT ![s] = 0]
          /\ done' = [done EXCEPT ![s] = <<>>]
          /\ ninterms' = [ninterms EXCEPT ![s] = 0]
          /\ UNCHANGED tomaster
     ELSE /\ Goto(s, "readmaster")
          /\ ToMaster(s, [tag |-> "EMPTY"])
          /\ UNCHANGED <<input, ninterms>>
  /\ UNCHANGED <<program, job, toslave, master, result, exprtodo, prints>>

\* PF_GetTerm with an empty buffer asks the master for terms ...
AskForTerms(s) ==
  /\ pc[s] = "get" /\ infile[s] = <<>> /\ AllReceived(s)
  /\ ToMaster(s, [tag |-> "READY"])
  /\ Goto(s, "receive")
  /\ UNCHANGED <<program, job, toslave, ninterms, master, slave>>

\* ... and receives a buffer of any tag.  AN.ninterms is set when the buffer has terms:
\* POfull is still that of the buffer before it (parallel.c:1076, 1083).
ReceiveTerms(s) ==
  /\ pc[s] = "receive" /\ toslave[s] # <<>>
  /\ LET m == Head(toslave[s])  bucket == memory[m.buf]
     IN  /\ infile' = [infile EXCEPT ![s] =
              bucket.terms \o (IF m.tag = "ENDSORT" THEN <<0>> ELSE <<>>)]
         /\ ninterms' = [ninterms EXCEPT ![s] =
              IF POfull[s] > 0 THEN bucket.first - 1 ELSE @]
         /\ POfull' = [POfull EXCEPT ![s] = Len(bucket.terms)]
  /\ toslave' = [toslave EXCEPT ![s] = Tail(@)]
  /\ Goto(s, "get")
  /\ UNCHANGED <<program, job, tomaster, master, PF_linterms, done, result, exprtodo, prints>>

\* The terms in a buffer that the word 0 may end.
TermsIn(buffer) == IF Last(buffer) = 0 THEN Front(buffer) ELSE buffer

\* The loop of PF_Processor over the terms in the buffer: Generator for each.
Generate(s) ==
  /\ pc[s] = "get" /\ infile[s] # <<>> /\ infile[s][1] # 0 /\ AllReceived(s)
  /\ LET ts == TermsIn(infile[s])
     IN  /\ done' = [done EXCEPT ![s] = @ \o ts]
         /\ PF_linterms' = [PF_linterms EXCEPT ![s] = @ + Len(ts)]
         /\ ninterms' = [ninterms EXCEPT ![s] = @ + Len(ts)]
         /\ infile' = [infile EXCEPT ![s] = IF Last(@) = 0 THEN <<0>> ELSE <<>>]
  /\ UNCHANGED <<program, job, pc, toslave, tomaster, master, POfull, result, exprtodo, prints>>

\* MUNLOCK(ErrorMessageLock): what a slave has printed (print statements in Generator,
\* WriteStats before and after the output of a sort) is sent to the master.
Printed == FoldFunction(LAMBDA a, b : a + b, 0, prints)
PrintMessage(s) ==
  /\ Printed < MaxPrints /\ AllReceived(s)
  /\ \/ pc[s] = "get" /\ infile[s] # <<>>
     \/ pc[s] \in {"sent", "expression"}
  /\ ToMaster(s, [tag |-> "STDOUT"])
  /\ prints' = [prints EXCEPT ![s] = @ + 1]
  /\ UNCHANGED <<program, job, pc, toslave, ninterms, master, input, result, exprtodo>>

\* The sum of what the statements make of the input terms ns, and its terms in order.
SumOf(terms, ns) ==
  [key \in 1..NumKeys |-> FoldSeq(LAMBDA n, sum : terms[n][key] + sum, 0, ns)]
Sorted(sum) == SelectSeq([key \in 1..NumKeys |-> <<key, sum[key]>>], LAMBDA t : t[2] # 0)

\* A term has two words; a word 0 ends the stream (FlushOut).
Zero == <<0, 0, 0>>
WordsOf(t) == << <<t[1], t[2], 1>>, <<t[1], t[2], 2>> >>
StreamOf(ts) == FlattenSeq([i \in DOMAIN ts |-> WordsOf(ts[i])]) \o <<Zero>>

\* The end of the terms: PF_EndSort sets up the send buffers and EndSort sorts.
SlaveEndSort(s) ==
  /\ pc[s] = "get" /\ infile[s] # <<>> /\ infile[s][1] = 0 /\ AllReceived(s)
  /\ out' = [out EXCEPT ![s] = StreamOf(Sorted(SumOf(Job(s).terms, done[s])))]
  /\ Goto(s, "putout")
  /\ UNCHANGED <<program, job, toslave, tomaster, ninterms, master, input, active, sbuf,
                 exprtodo, prints>>

\* PF_ISendSbuf waits until the next of its buffers has been received.
InTransit(s, b) == \E i \in DOMAIN tomaster[s] :
                     "buf" \in DOMAIN tomaster[s][i] /\ tomaster[s][i].buf = b
MayFillAlways(s) == TRUE   \* mutant: no MPI_Waitsome
MayFill(s) == ~InTransit(s, active[s])

SendSbuf(s, tag, n) ==
  /\ sbuf' = [sbuf EXCEPT ![s][active[s]] = SubSeq(out[s], 1, n)]
  /\ out' = [out EXCEPT ![s] = SubSeq(@, n + 1, Len(@))]
  /\ active' = [active EXCEPT ![s] = (@ + 1) % NumSBufs]
  /\ ToMaster(s, [tag |-> tag, buf |-> active[s], content |-> SubSeq(out[s], 1, n)])

\* PutOut and FlushOut fill a buffer and send it when there is more to come.
SendBuffer(s) ==
  /\ pc[s] = "putout" /\ Len(out[s]) > BufferSize /\ MayFill(s)
  /\ SendSbuf(s, "BUFFER", BufferSize)
  /\ UNCHANGED <<program, job, pc, toslave, ninterms, master, input, exprtodo, prints>>

SendEndBuffer(s) ==
  /\ pc[s] = "putout" /\ Len(out[s]) <= BufferSize /\ MayFill(s)
  /\ SendSbuf(s, "ENDBUFFER", Len(out[s]))
  /\ Goto(s, "sent")
  /\ UNCHANGED <<program, job, toslave, ninterms, master, input, exprtodo, prints>>

\* After MPI_Waitall: the statistics, which the master must have received.
SendStatistics(s) ==
  /\ pc[s] = "sent" /\ AllReceived(s)
  /\ ToMaster(s, [tag |-> "ENDSORT"])
  /\ job' = [job EXCEPT ![s] = @ + 1]
  /\ Goto(s, "start")
  /\ UNCHANGED <<program, toslave, ninterms, master, slave>>

-----------------------------------------------------------------------------
(* The slave in PF_InParallelProcessor *)

\* PF_ReadMaster: an expression, or the word that there are none left.
ReadMaster(s) ==
  /\ pc[s] = "readmaster" /\ toslave[s] # <<>>
  /\ LET m == Head(toslave[s])
     IN  IF m.tag = "EMPTY"
         THEN /\ exprtodo' = [exprtodo EXCEPT ![s] = 0]
              /\ job' = [job EXCEPT ![s] = @ + 1]
              /\ Goto(s, "start")
         ELSE /\ exprtodo' = [exprtodo EXCEPT ![s] = m.expr]
              /\ Goto(s, "expression")
              /\ UNCHANGED job
  /\ toslave' = [toslave EXCEPT ![s] = Tail(@)]
  /\ UNCHANGED <<program, tomaster, ninterms, master, input, result, prints>>

\* PF_DoOneExpr, PF_Wait4MasterIP and PF_Slave2MasterIP; the chunks of the result are one
\* message with the one that announces it.
DoOneExpr(s) ==
  /\ pc[s] = "expression" /\ AllReceived(s)
  /\ ToMaster(s, [tag |-> "DATA", expr |-> exprtodo[s]])
  /\ Goto(s, "readmaster")
  /\ UNCHANGED <<program, job, toslave, ninterms, master, slave>>

-----------------------------------------------------------------------------
(* The master deals out the terms of an expression: PF_Processor *)

StartTerms ==
  /\ pc[Master] = "start" /\ job[Master] <= Len(program) /\ Job(Master).kind = "terms"
  /\ buff' = IF buff[0] # 0 THEN [i \in Procs |-> i] ELSE buff
  /\ memory' = [i \in Procs |-> IF i = buff'[0] THEN [EmptyBucket EXCEPT !.first = 1]
                                ELSE EmptyBucket]
  /\ maxinterms' = Max({1, Min({ProcessBucketSize \div 100, (Len(Terms) \div NumSlaves) \div 4})})
  /\ cmaxinterms' = 0 /\ termsinbucket' = 0
  /\ ninterms' = [ninterms EXCEPT ![Master] = 0]
  /\ Goto(Master, "read")
  /\ UNCHANGED <<program, job, toslave, tomaster, wait, ip, receive, tree, collected,
                 finished, slave>>

BucketFull == termsinbucket >= maxinterms \/ termsinbucket >= RoomInBuffer

\* GetTerm while there is room in the bucket.
ReadTerm ==
  /\ pc[Master] = "read" /\ ninterms[Master] < Len(Terms) /\ ~BucketFull
  /\ ninterms' = [ninterms EXCEPT ![Master] = @ + 1]
  /\ memory' = [memory EXCEPT ![buff[0]].terms = Append(@, ninterms'[Master])]
  /\ termsinbucket' = termsinbucket + 1
  /\ UNCHANGED <<program, job, pc, toslave, tomaster, maxinterms, cmaxinterms, buff, wait, ip,
                 receive, tree, collected, finished, slave>>

\* The message of PF_ISendSbuf: it refers to the memory of the buffer.
Bucket(tag, b, content) == [tag |-> tag, buf |-> b, content |-> content]

\* The slow start: the buckets grow when all slaves have had one.
GrowBuckets ==
  IF cmaxinterms >= numtasks - 2
  THEN /\ maxinterms' = Min({2 * maxinterms, ProcessBucketSize})
       /\ cmaxinterms' = IF 2 * maxinterms >= ProcessBucketSize THEN -1 ELSE cmaxinterms
  ELSE /\ cmaxinterms' = IF cmaxinterms >= 0 THEN cmaxinterms + 1 ELSE cmaxinterms
       /\ UNCHANGED maxinterms

\* The bucket that is full and the free buffer of the slave change places; the term that
\* found no room is the first of the next bucket.
ExchangeBuffers(s) == [buff EXCEPT ![0] = buff[s], ![s] = buff[0]]

\* The next slave that asks gets the bucket.  PF_Wait4Slave takes a message of any tag and
\* knows no other than READY.
SendBucket(s) ==
  /\ pc[Master] = "read" /\ ninterms[Master] < Len(Terms) /\ BucketFull
  /\ TagFrom(s) \notin {"none", "STDOUT"} /\ s \notin posted
  /\ Taken(s)
  /\ IF TagFrom(s) # "READY"
     THEN /\ Goto(Master, "error")
          /\ UNCHANGED <<toslave, ninterms, send>>
     ELSE /\ ninterms' = [ninterms EXCEPT ![Master] = @ + 1]
          /\ buff' = ExchangeBuffers(s)
          /\ memory' = [memory EXCEPT ![buff'[0]] =
               [first |-> ninterms'[Master], terms |-> <<ninterms'[Master]>>]]
          /\ ToSlave(s, Bucket("TERM", buff'[s], memory[buff[0]]))
          /\ finished' = 0 /\ termsinbucket' = 1
          /\ GrowBuckets
          /\ UNCHANGED pc
  /\ UNCHANGED <<program, job, wait, ip, receive, tree, collected, slave>>

\* The end of the terms: EndSort, PF_EndSort, PF_WaitAllSlaves.
EndOfTerms ==
  /\ pc[Master] = "read" /\ ninterms[Master] = Len(Terms)
  /\ next' = AnySource /\ has_sent' = {}
  /\ Goto(Master, "waitall")
  /\ UNCHANGED <<program, job, toslave, tomaster, ninterms, send, ip, receive, tree, collected,
                 slave>>

-----------------------------------------------------------------------------
(* PF_WaitAllSlaves *)

AllHaveSent == Slaves \subseteq has_sent

\* The slave looked at: any with a message the first time, then the next one in a circle.
Distance(s) == IF s > next THEN s - next ELSE s - next + NumSlaves
Probed(s) ==
  /\ pc[Master] = "waitall" /\ s \notin has_sent
  /\ s \notin posted
  /\ IF next = AnySource THEN tomaster[s] # <<>>
     ELSE \A t \in Slaves \ has_sent : Distance(s) <= Distance(t)

NothingFrom(s) ==
  /\ Probed(s) /\ TagFrom(s) = "none"
  /\ next' = s
  /\ UNCHANGED <<program, job, pc, toslave, tomaster, ninterms, send, has_sent, ip, receive,
                 tree, collected, slave>>

\* The sorted terms of a slave are left unread.  A message that is none of those expected
\* ends the loop with an error, which PF_EndSort does not look at.
HasOutput(s) ==
  /\ Probed(s) /\ TagFrom(s) \notin {"none", "READY", "DATA", "EMPTY", "STDOUT"}
  /\ next' = s
  /\ IF TagFrom(s) \in {"BUFFER", "ENDBUFFER"}
     THEN has_sent' = has_sent \cup {s} /\ UNCHANGED pc
     ELSE Goto(Master, "error") /\ UNCHANGED has_sent
  /\ UNCHANGED <<program, job, toslave, tomaster, ninterms, send, ip, receive, tree,
                 collected, slave>>

\* The first slave that asks gets the last bucket, the others only the number of terms;
\* both are told to sort.  After the last of them PF_ISendSbuf waits for all sends.
LastBucketAgain == TRUE    \* mutant: has_sent[0] is not looked at
LastBucket == 0 \notin has_sent
SendLast(s) ==
  /\ Probed(s) /\ TagFrom(s) = "READY"
  /\ Taken(s)
  /\ next' = s /\ has_sent' = has_sent \cup {0}
  /\ LET b == IF LastBucket THEN buff[0] ELSE buff[s]
     IN  /\ memory' = IF LastBucket THEN memory
                      ELSE [memory EXCEPT ![b] = [first |-> ninterms[Master], terms |-> <<>>]]
         /\ ToSlave(s, Bucket("ENDSORT", b, memory'[b]))
  /\ finished' = finished + 1
  /\ Goto(Master, IF finished' = NumSlaves THEN "waitsends" ELSE "waitall")
  /\ UNCHANGED <<program, job, ninterms, maxinterms, cmaxinterms, termsinbucket, buff, ip,
                 receive, tree, collected, slave>>

WaitSends ==
  /\ pc[Master] = "waitsends" /\ \A s \in Slaves : toslave[s] = <<>>
  /\ Goto(Master, "waitall")
  /\ UNCHANGED <<program, job, toslave, tomaster, ninterms, master, slave>>

-----------------------------------------------------------------------------
(* The tree of losers *)

NumNodes == IF NumSlaves < 3 THEN 1
            ELSE Min({n \in {2^k : k \in 1..NumSlaves} : n >= NumSlaves}) - 1
Nodes == 0..NumNodes - 1
HasLeft(i) == 2 * (i + 1) <= NumNodes
HasRight(i) == 2 * (i + 1) + 1 <= NumNodes
\* Slaves are given to the free left branches first, then to the free right ones.
lsrc(i) == Cardinality({j \in 0..i : ~HasLeft(j)})
rsrc(i) == LET n == lsrc(NumNodes - 1) + Cardinality({j \in 0..i : ~HasRight(j)})
           IN  IF n <= NumSlaves THEN n ELSE 0

\* What PF_GetLoser does first at a node.
Entry(n, loser) == CASE loser = 0 -> "initleft"
                     [] loser # 0 /\ loser = lloser[n] -> "left"
                     [] loser # 0 /\ loser # lloser[n] /\ loser = rloser[n] -> "right"
                     [] OTHER -> "compare"

\* All slaves have ended their terms: receives are posted in the memory that the buckets
\* have been sent from.
InitTree ==
  /\ pc[Master] = "waitall" /\ AllHaveSent /\ Job(Master).kind = "terms"
  /\ memory' = [i \in Procs |-> EmptyBucket]
  /\ words' = [s \in Slaves |-> <<>>]
  /\ posted' = Slaves
  /\ lloser' = [n \in Nodes |-> 0] /\ rloser' = [n \in Nodes |-> 0]
  /\ calls' = <<[node |-> 0, at |-> "initleft"]>>
  /\ output' = <<>>
  /\ Goto(Master, "merge")
  /\ UNCHANGED <<program, job, toslave, tomaster, ninterms, maxinterms, cmaxinterms,
                 termsinbucket, buff, finished, wait, ip, arrived, PF_term, PF_loser,
                 collected, slave>>

Call == Last(calls)
ToLeft == Call.at \in {"initleft", "left", "cancelleft"}
Branch == IF ToLeft THEN HasLeft(Call.node) ELSE HasRight(Call.node)
Source == IF ToLeft THEN lsrc(Call.node) ELSE rsrc(Call.node)

\* The branch that is asked for is a node: PF_GetLoser calls itself.
GetLoserBelow ==
  /\ pc[Master] = "merge" /\ Call.at # "compare" /\ Branch
  /\ LET n == 2 * Call.node + (IF ToLeft THEN 1 ELSE 2)
     IN  calls' = Append(calls, [node |-> n, at |-> Entry(n, PF_loser)])
  /\ UNCHANGED <<program, job, pc, toslave, tomaster, ninterms, send, wait, ip, receive,
                 PF_term, lloser, rloser, PF_loser, output, collected, slave>>

\* The last of the calls cs gets its value, and goes on to its other branch or to comparing.
Resume(cs, loser) ==
  LET c == Last(cs)
  IN  /\ IF c.at \in {"initleft", "left", "cancelleft"}
         THEN lloser' = [lloser EXCEPT ![c.node] = loser] /\ UNCHANGED rloser
         ELSE rloser' = [rloser EXCEPT ![c.node] = loser] /\ UNCHANGED lloser
      /\ PF_loser' = CASE c.at \in {"initleft", "initright"} -> 0
                       [] c.at = "cancelleft" -> rloser[c.node]
                       [] OTHER -> PF_loser
      /\ calls' = Append(Front(cs),
                    [c EXCEPT !.at = CASE c.at = "initleft" -> "initright"
                                       [] c.at = "cancelleft" -> "right"
                                       [] OTHER -> "compare"])

\* PF_PutIn.  A term that is cut by the end of the buffer waits for the next buffer.
Cut(ws) == Len(ws) < 2 /\ ws # <<Zero>>
AtLeaf(s) == pc[Master] = "merge" /\ Call.at # "compare" /\ ~Branch /\ Source = s

\* PF_WaitRbuf; after the last buffer of a slave no receive is posted.
PostAlways(s, tag) == posted \cup {s}   \* mutant
PostNext(s, tag) == IF tag = "ENDBUFFER" THEN posted ELSE posted \cup {s}
WaitRbuf(s) ==
  /\ AtLeaf(s) /\ Cut(words[s]) /\ arrived[s] # <<>>
  /\ LET m == arrived[s][1]
     IN  /\ words' = [words EXCEPT ![s] =
              @ \o m.words \o (IF m.tag = "ENDBUFFER" THEN <<Zero>> ELSE <<>>)]
         /\ posted' = PostNext(s, m.tag)
  /\ arrived' = [arrived EXCEPT ![s] = <<>>]
  /\ UNCHANGED <<program, job, pc, toslave, tomaster, ninterms, send, wait, ip, tree, collected,
                 slave>>

PutIn(s) ==
  /\ AtLeaf(s) /\ ~Cut(words[s])
  /\ IF words[s][1] = Zero
     THEN Resume(calls, 0) /\ UNCHANGED <<words, PF_term>>
     ELSE /\ Resume(calls, s)
          /\ PF_term' = [PF_term EXCEPT ![s] = SubSeq(words[s], 1, 2)]
          /\ words' = [words EXCEPT ![s] = SubSeq(@, 3, Len(@))]
  /\ UNCHANGED <<program, job, pc, toslave, tomaster, ninterms, send, wait, ip, posted, arrived,
                 output, collected, slave>>

\* A branch without a slave gives the zero term.
PutInNothing ==
  /\ AtLeaf(0) /\ Resume(calls, 0)
  /\ UNCHANGED <<program, job, pc, toslave, tomaster, ninterms, send, wait, ip, receive,
                 PF_term, output, collected, slave>>

Key(s)  == PF_term[s][1][1]
Coef(s) == PF_term[s][1][2]
BothHaveTerms(n) == lloser[n] > 0 /\ rloser[n] > 0
Equal(n) == BothHaveTerms(n) /\ Key(lloser[n]) = Key(rloser[n])

\* The left term takes the sum, and the right branch its next term.
AddTerms ==
  /\ pc[Master] = "merge" /\ Call.at = "compare" /\ Equal(Call.node)
  /\ LET l == lloser[Call.node]  r == rloser[Call.node]
     IN  /\ Coef(l) + Coef(r) # 0
         /\ PF_term' = [PF_term EXCEPT ![l] = WordsOf(<<Key(l), Coef(l) + Coef(r)>>)]
         /\ PF_loser' = r
  /\ calls' = [calls EXCEPT ![Len(calls)].at = "right"]
  /\ UNCHANGED <<program, job, pc, toslave, tomaster, ninterms, send, wait, ip, receive,
                 lloser, rloser, output, collected, slave>>

\* Both branches take their next terms, the left one first.
NextOfRight == "right"        \* mutant: the cancelled term of the left stays
NextOfBoth == "cancelleft"
CancelTerms ==
  /\ pc[Master] = "merge" /\ Call.at = "compare" /\ Equal(Call.node)
  /\ Coef(lloser[Call.node]) + Coef(rloser[Call.node]) = 0
  /\ PF_loser' = IF NextOfBoth = "right" THEN rloser[Call.node] ELSE lloser[Call.node]
  /\ calls' = [calls EXCEPT ![Len(calls)].at = NextOfBoth]
  /\ UNCHANGED <<program, job, pc, toslave, tomaster, ninterms, send, wait, ip, receive,
                 PF_term, lloser, rloser, output, collected, slave>>

\* PF_GetLoser returns the branch whose term comes first; at the root the term is put out
\* and the next one asked for, until there is none.
LoserOf(n) == IF BothHaveTerms(n)
              THEN IF Key(lloser[n]) < Key(rloser[n]) THEN lloser[n] ELSE rloser[n]
              ELSE Max({lloser[n], rloser[n]})
ReturnLoser ==
  /\ pc[Master] = "merge" /\ Call.at = "compare" /\ ~Equal(Call.node)
  /\ LET loser == LoserOf(Call.node)
     IN  IF Len(calls) > 1
         THEN /\ Resume(Front(calls), loser)
              /\ UNCHANGED <<pc, output, collected>>
         ELSE /\ PF_loser' = loser
              /\ calls' = <<[node |-> 0, at |-> Entry(0, loser)]>>
              /\ IF loser > 0
                 THEN /\ output' = Append(output, PF_term[loser])
                      /\ UNCHANGED <<pc, collected>>
                 ELSE /\ Goto(Master, "catch")
                      /\ collected' = {}
                      /\ UNCHANGED output
              /\ UNCHANGED <<lloser, rloser>>
  /\ UNCHANGED <<program, job, toslave, tomaster, ninterms, send, wait, ip, receive, PF_term,
                 slave>>

-----------------------------------------------------------------------------
(* After the merge *)

\* PF_CatchErrorMessagesForAll waits for a message of each slave that is not printed.
CatchErrorMessagesForAll ==
  /\ pc[Master] = "catch"
  /\ \A s \in Slaves : s \notin posted /\ TagFrom(s) \notin {"none", "STDOUT"}
  /\ Goto(Master, "collect")
  /\ UNCHANGED <<program, job, toslave, tomaster, ninterms, master, slave>>

\* PF_LongSingleReceive from any slave, with the tag ENDSORT: the first such message.
AllCollected(c) == c = Slaves
CollectStatistics(s) ==
  /\ pc[Master] = "collect" /\ s \notin posted
  /\ \E i \in DOMAIN tomaster[s] :
       /\ tomaster[s][i].tag = "ENDSORT"
       /\ \A j \in 1..i - 1 : tomaster[s][j].tag # "ENDSORT"
       /\ tomaster' = [tomaster EXCEPT ![s] = RemoveAt(@, i)]
  /\ collected' = collected \cup {s}
  /\ IF AllCollected(collected')
     THEN job' = [job EXCEPT ![Master] = @ + 1] /\ Goto(Master, "start")
     ELSE UNCHANGED <<job, pc>>
  /\ UNCHANGED <<program, toslave, ninterms, send, wait, ip, receive, tree, slave>>

\* Wherever the master looks for messages that may be printed: PF_CatchErrorMessages.
NotCatching == {"read", "give", "catch"}   \* mutant: PF_WaitAllSlaves looks with PF_Probe
Catching == {"waitall", "read", "give", "catch"}
CatchMessage(s) ==
  /\ TagFrom(s) = "STDOUT" /\ s \notin posted /\ pc[Master] \in Catching
  /\ pc[Master] = "read" => ninterms[Master] < Len(Terms) /\ BucketFull
  /\ pc[Master] = "waitall" => Probed(s)
  /\ pc[Master] = "give" => ninterms[Master] < Job(Master).number
  /\ Taken(s)
  /\ UNCHANGED <<program, job, pc, toslave, ninterms, master, slave>>

-----------------------------------------------------------------------------
(* The master in PF_InParallelProcessor *)

StartExpressions ==
  /\ pc[Master] = "start" /\ job[Master] <= Len(program) /\ Job(Master).kind = "expressions"
  /\ stored' = [x \in 1..Job(Master).number |-> 0]
  /\ ninterms' = [ninterms EXCEPT ![Master] = 0]   \* the last expression given out
  /\ Goto(Master, "give")
  /\ UNCHANGED <<program, job, toslave, tomaster, send, wait, partodoexr, receive, tree,
                 collected, slave>>

\* PF_Slave2MasterIP: the result goes where the expression came from.
Store(s) ==
  stored' = IF TagFrom(s) = "DATA"
            THEN [stored EXCEPT ![partodoexr[s]] = Head(tomaster[s]).expr]
            ELSE stored

ForgetExpression(s, x) == partodoexr   \* mutant
NoteExpression(s, x) == [partodoexr EXCEPT ![s] = x]

\* PF_Wait4SlaveIP and PF_Master2SlaveIP.
GiveExpression(s) ==
  /\ pc[Master] = "give" /\ ninterms[Master] < Job(Master).number
  /\ TagFrom(s) \notin {"none", "STDOUT"} /\ s \notin posted
  /\ LET x == ninterms[Master] + 1
     IN  /\ Taken(s) /\ Store(s)
         /\ ToSlave(s, [tag |-> "DATA", expr |-> x])
         /\ partodoexr' = NoteExpression(s, x)
         /\ ninterms' = [ninterms EXCEPT ![Master] = x]
  /\ UNCHANGED <<program, job, pc, send, wait, receive, tree, collected, slave>>

EndOfExpressions ==
  /\ pc[Master] = "give" /\ ninterms[Master] = Job(Master).number
  /\ next' = AnySource /\ has_sent' = {}
  /\ Goto(Master, "waitall")
  /\ UNCHANGED <<program, job, toslave, tomaster, ninterms, send, ip, receive, tree, collected,
                 slave>>

\* PF_WaitAllSlaves: a slave that comes back, with or without a result, is let go.
LetGo(s) ==
  /\ Probed(s) /\ TagFrom(s) \in {"DATA", "EMPTY"}
  /\ Taken(s) /\ Store(s)
  /\ ToSlave(s, [tag |-> "EMPTY"])
  /\ has_sent' = has_sent \cup {s} /\ next' = s
  /\ UNCHANGED <<program, job, pc, ninterms, send, partodoexr, receive, tree, collected, slave>>

EndExpressions ==
  /\ pc[Master] = "waitall" /\ AllHaveSent /\ Job(Master).kind = "expressions"
  /\ job' = [job EXCEPT ![Master] = @ + 1]
  /\ Goto(Master, "start")
  /\ UNCHANGED <<program, toslave, tomaster, ninterms, master, slave>>

-----------------------------------------------------------------------------
Init ==
  /\ program \in Programs
  /\ job = [p \in Procs |-> 1] /\ pc = [p \in Procs |-> "start"]
  /\ toslave = [s \in Slaves |-> <<>>] /\ tomaster = [s \in Slaves |-> <<>>]
  /\ ninterms = [p \in Procs |-> 0]
  /\ maxinterms = 1 /\ cmaxinterms = 0 /\ termsinbucket = 0
  /\ buff = [p \in Procs |-> p] /\ memory = [p \in Procs |-> EmptyBucket]
  /\ next = AnySource /\ has_sent = {} /\ finished = 0
  /\ partodoexr = [s \in Slaves |-> 0] /\ stored = <<>>
  /\ posted = {} /\ arrived = [s \in Slaves |-> <<>>] /\ words = [s \in Slaves |-> <<>>]
  /\ PF_term = [s \in Slaves |-> <<>>]
  /\ lloser = [n \in Nodes |-> 0] /\ rloser = [n \in Nodes |-> 0] /\ PF_loser = 0
  /\ calls = <<>> /\ output = <<>> /\ collected = {}
  /\ infile = [s \in Slaves |-> <<>>] /\ POfull = [s \in Slaves |-> 0]
  /\ PF_linterms = [s \in Slaves |-> 0] /\ done = [s \in Slaves |-> <<>>]
  /\ out = [s \in Slaves |-> <<>>] /\ active = [s \in Slaves |-> 0]
  /\ sbuf = [s \in Slaves |-> [b \in 0..NumSBufs - 1 |-> <<>>]]
  /\ exprtodo = [s \in Slaves |-> 0] /\ prints = [s \in Slaves |-> 0]

SlaveStep(s) ==
  \/ StartSlave(s) \/ AskForTerms(s) \/ ReceiveTerms(s) \/ Generate(s) \/ SlaveEndSort(s)
  \/ SendBuffer(s) \/ SendEndBuffer(s) \/ SendStatistics(s)
  \/ ReadMaster(s) \/ DoOneExpr(s)

\* What the master does with a message, or with no message, of slave s.
MasterWith(s) ==
  \/ SendBucket(s) \/ NothingFrom(s) \/ HasOutput(s) \/ SendLast(s)
  \/ WaitRbuf(s) \/ PutIn(s) \/ CollectStatistics(s) \/ CatchMessage(s)
  \/ GiveExpression(s) \/ LetGo(s)

\* The master is in MPI_Ssend (PF_RawSend) while an expression, or the word that there are
\* no more, has not been received.
InSsend == \E s \in Slaves : \E i \in DOMAIN toslave[s] : toslave[s][i].tag \in {"DATA", "EMPTY"}

MasterStep ==
  /\ ~InSsend
  /\ \/ StartTerms \/ ReadTerm \/ EndOfTerms \/ WaitSends
     \/ InitTree \/ GetLoserBelow \/ PutInNothing \/ AddTerms \/ CancelTerms \/ ReturnLoser
     \/ CatchErrorMessagesForAll
     \/ StartExpressions \/ EndOfExpressions \/ EndExpressions
     \/ \E s \in Slaves : MasterWith(s)

Next ==
  \/ \E s \in Slaves : SlaveStep(s) \/ PrintMessage(s) \/ Deliver(s)
  \/ MasterStep

\* Processes run and messages arrive: while more can happen than the master looking in vain
\* for a message, it does.
progress == <<job, pc, toslave, tomaster, ninterms, send, has_sent, ip, receive, tree,
              collected, slave>>
Fairness == WF_progress(Next)

Spec == Init /\ [][Next]_vars /\ Fairness

-----------------------------------------------------------------------------
(* Properties *)

TagsIn(c) == {c[i].tag : i \in DOMAIN c}

\* When the master is between two jobs nothing of the old one is left for it to trip over:
\* no posted receive, no result, no statistics.  What a fast slave has already sent is its
\* first message of the new job.
QuietBetweenJobs ==
  pc[Master] = "start" =>
    /\ posted = {}
    /\ \A s \in Slaves : TagsIn(tomaster[s]) \cap {"BUFFER", "ENDBUFFER", "ENDSORT", "DATA"} = {}
    /\ \A s \in Slaves : tomaster[s] # <<>> => job[s] = job[Master]

\* Nobody receives what was meant for another place.  PF_PutIn takes a message of any tag
\* (parallel.c:524) and so does PF_Wait4Slave; nothing but the order of the messages keeps
\* questions, printed lines and statistics out of the merge, and results out of the dealing.
NothingUnexpected ==
  /\ QuietBetweenJobs
  /\ pc[Master] # "error"
  /\ \A s \in Slaves : TagsIn(arrived[s]) \subseteq {"BUFFER", "ENDBUFFER"}
  /\ \A s \in Slaves : pc[s] = "receive" => TagsIn(toslave[s]) \subseteq {"TERM", "ENDSORT"}
  /\ \A s \in Slaves : pc[s] = "readmaster" => TagsIn(toslave[s]) \subseteq {"DATA", "EMPTY"}

\* When the merge starts every term of the expression has been done by one slave, once: the
\* last bucket goes to one slave only (has_sent[0], parallel.c:1483) and no slave that has
\* terms of its own still to do is taken for one that is ready.
EachTermOnce ==
  pc[Master] = "merge" =>
    /\ \A n \in 1..Len(Terms) : \E s \in Slaves : \E i \in DOMAIN done[s] : done[s][i] = n
    /\ \A s \in Slaves : \A i \in DOMAIN done[s] :
         /\ done[s][i] \in 1..Len(Terms)
         /\ \A t \in Slaves : \A j \in DOMAIN done[t] : done[s][i] = done[t][j] => s = t /\ i = j

\* What the tree of losers puts out is the sum of all terms that were generated, sorted, each
\* key once and none that cancelled, wherever the buffers cut the terms and in whatever order
\* the slaves delivered them; and then no buffer of theirs is left to be received.
OutputIsTheSum ==
  pc[Master] = "catch" =>
    /\ LET sum == Sorted(SumOf(Terms, [n \in DOMAIN Terms |-> n]))
       IN  output = [i \in DOMAIN sum |-> WordsOf(sum[i])]
    /\ posted = {} /\ \A s \in Slaves : arrived[s] = <<>>

\* A buffer that is being sent is not written: PF_ISendSbuf sends by reference, the master
\* swaps the buffer of the slave with the one it fills, the slave waits for the request of
\* the next buffer, and PF_InitTree receives in the memory of the buckets.
BuffersIntact ==
  \A s \in Slaves :
    /\ \A i \in DOMAIN toslave[s] : LET m == toslave[s][i] IN
         "buf" \in DOMAIN m => memory[m.buf] = m.content
    /\ \A i \in DOMAIN tomaster[s] : LET m == tomaster[s][i] IN
         "buf" \in DOMAIN m => sbuf[s][m.buf] = m.content

\* The result of each expression is stored for that expression, whichever slave did it and
\* whenever it came back (partodoexr), and none is missing when the job ends.
ResultsStoredRight ==
  /\ \A x \in DOMAIN stored : stored[x] \in {0, x}
  /\ pc[Master] = "start" /\ job[Master] > 1 /\ program[job[Master] - 1].kind = "expressions"
     => \A x \in DOMAIN stored : stored[x] = x

\* All jobs end: no slave waits for a master that does not look at it, and no message that is
\* to be printed stops its slave for ever.
EveryJobEnds == <>(\A p \in Procs : job[p] > Len(program))

=============================================================================
