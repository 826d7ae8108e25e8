--------------------------- MODULE ParFormProofs ----------------------------
(***************************************************************************)
(* What is proved of ParForm for every number of slaves, every program and *)
(* every size of the buckets and buffers.                                  *)
(*                                                                         *)
(* No barrier separates a job from the next: the inductive invariant says, *)
(* for each place where the master can be, which messages there can be on  *)
(* the way from and to each slave and where that slave is (Protocol).      *)
(* On it rest what is in the buffers that are being sent (MemoryOK,        *)
(* SBufOK), which slave has which expression (ResultsOK) and where the     *)
(* terms of an expression are (TermsOK).                                   *)
(***************************************************************************)
EXTENDS ParForm, TLAPS

M == pc[Master]
J == job[Master]
IsKind(k) == J <= Len(program) /\ program[J].kind = k

TermNumbers == Nat \ {0}
Contents    == [first : Int, terms : Seq(TermNumbers)]

\* A slave is at a job of kind k; the messages on its way are exactly q and r.
AtKind(s, k) == job[s] <= Len(program) /\ Job(s).kind = k
Channels(s, q, r) == toslave[s] = q /\ tomaster[s] = r
None    == <<>>
Word(t) == << [tag |-> t] >>
\* No message, or a printed one.
Prints(s) == toslave[s] = None /\ (tomaster[s] = None \/ tomaster[s] = Word("STDOUT"))
HasBucket(s, tag) == /\ tomaster[s] = None
                     /\ \E b \in Procs : \E c \in Contents : toslave[s] = << Bucket(tag, b, c) >>
Data(x) == << [tag |-> "DATA", expr |-> x] >>

-----------------------------------------------------------------------------
(* Where a slave can be *)

\* It has nothing of a job yet; it may have asked for something to do.
Fresh(s) ==
  \/ pc[s] = "start" /\ Channels(s, None, None)
  \/ /\ AtKind(s, "terms") /\ infile[s] = <<>> /\ done[s] = <<>>
     /\ \/ pc[s] = "get" /\ Channels(s, None, None)
        \/ pc[s] = "receive" /\ Channels(s, None, Word("READY"))
  \/ AtKind(s, "expressions") /\ pc[s] = "readmaster" /\ Channels(s, None, Word("EMPTY"))

\* It does terms, and has not been told to sort them.
Working(s) ==
  /\ AtKind(s, "terms")
  /\ \/ pc[s] = "start" /\ Channels(s, None, None)
     \/ pc[s] = "get" /\ Prints(s) /\ infile[s] \in Seq(TermNumbers)
     \/ /\ pc[s] = "receive" /\ infile[s] = <<>>
        /\ Channels(s, None, Word("READY")) \/ HasBucket(s, "TERM")

\* It has been told to sort them.
Told(s) ==
  /\ AtKind(s, "terms")
  /\ \/ pc[s] = "receive" /\ infile[s] = <<>> /\ HasBucket(s, "ENDSORT")
     \/ pc[s] = "get" /\ Prints(s) /\ \E ts \in Seq(TermNumbers) : infile[s] = Append(ts, 0)

\* It sends its sorted terms, or the last of them have not been received.
IsSeq(q) == \E X : q \in Seq(X)
Buffers(q, last) ==
  /\ IsSeq(q)
  /\ \A i \in 1..Len(q) : q[i].tag = IF i = Len(q) THEN last ELSE "BUFFER"
Sending(s) ==
  /\ toslave[s] = None /\ infile[s] = <<0>>
  /\ \/ pc[s] = "putout" /\ Buffers(tomaster[s], "BUFFER")
     \/ pc[s] = "sent" /\ tomaster[s] # None /\ Buffers(tomaster[s], "ENDBUFFER")

\* They have all been received; then it has sent its statistics.
Sent(s) == pc[s] = "sent" /\ Prints(s)
Left(s) == pc[s] = "start" /\ Channels(s, None, Word("ENDSORT"))

\* It does an expression, or the expression or its result is on the way.
Asked(s) ==
  \/ /\ pc[s] = "readmaster"
     /\ \E x \in Nat : Channels(s, None, Data(x)) \/ Channels(s, Data(x), None)
  \/ pc[s] = "expression" /\ Prints(s) /\ exprtodo[s] \in Nat

\* The word that there are no more expressions is on the way.
Dismissed(s) == pc[s] = "readmaster" /\ Channels(s, Word("EMPTY"), None)

-----------------------------------------------------------------------------
(* Where it is when the master is at M *)

Finishing(s) == (job[s] = J /\ (Sending(s) \/ Sent(s))) \/ (job[s] = J + 1 /\ Left(s))

\* There are, or have been received, terms of the slave that are not the last.
StillSends(s) == s \in posted \/ (arrived[s] # <<>> /\ arrived[s][1].tag = "BUFFER")

AtStart(s) == M = "start" => job[s] = J /\ Fresh(s)
AtRead(s)  == M = "read" => job[s] = J /\ Working(s)
\* The last bucket has been sent when a slave is told to sort.
AtWait(s)  ==
  M \in {"waitall", "waitsends"} /\ IsKind("terms") =>
    /\ job[s] = J
    /\ s \in has_sent => Sending(s) /\ tomaster[s] # None
    /\ Working(s) \/ (0 \in has_sent /\ (Told(s) \/ Sending(s)))
AtMerge(s) ==
  M \in {"merge", "catch"} =>
    Finishing(s) /\ (StillSends(s) => job[s] = J /\ Sending(s))
AtCollect(s) ==
  M = "collect" => IF s \in collected THEN job[s] = J + 1 /\ Fresh(s) ELSE Finishing(s)
AtGive(s) == M = "give" => job[s] = J /\ (Fresh(s) \/ Asked(s))
AtLetGo(s) ==
  M = "waitall" /\ IsKind("expressions") =>
    IF s \in has_sent
    THEN (job[s] = J /\ Dismissed(s)) \/ (job[s] = J + 1 /\ Fresh(s))
    ELSE job[s] = J /\ (Fresh(s) \/ Asked(s))
SlaveOK(s) ==
  AtStart(s) /\ AtRead(s) /\ AtWait(s) /\ AtMerge(s) /\ AtCollect(s) /\ AtGive(s) /\ AtLetGo(s)

MasterOK ==
  /\ M \in {"start", "read", "waitall", "waitsends", "merge", "catch", "collect", "give"}
  /\ M \notin {"merge", "catch"} => posted = {}
  /\ M = "catch" => collected = {}
  /\ M \in {"read", "waitsends", "merge", "catch", "collect"} => IsKind("terms")
  /\ M = "give" => IsKind("expressions")
  /\ M = "waitall" => IsKind("terms") \/ IsKind("expressions")
  /\ M = "waitsends" => 0 \in has_sent
  /\ M = "waitall" /\ IsKind("terms") /\ 0 \notin has_sent => \A s \in Slaves : s \notin has_sent

\* What has been received of a slave is one message with terms.
ArrivedOK ==
  \A s \in Slaves :
    \/ arrived[s] = <<>>
    \/ \E m : arrived[s] = <<m>> /\ m.tag \in {"BUFFER", "ENDBUFFER"}

Types ==
  /\ program \in Seq(Jobs)
  /\ job \in [Procs -> Nat \ {0}] /\ DOMAIN pc = Procs
  /\ DOMAIN ninterms = Procs /\ ninterms[Master] \in Nat
  /\ DOMAIN toslave = Slaves /\ DOMAIN tomaster = Slaves /\ DOMAIN arrived = Slaves
  /\ DOMAIN infile = Slaves /\ DOMAIN done = Slaves /\ DOMAIN exprtodo = Slaves
  /\ DOMAIN partodoexr = Slaves
  /\ buff \in [Procs -> Procs] /\ memory \in [Procs -> Contents]
  /\ posted \subseteq Slaves

Protocol == MasterOK /\ ArrivedOK /\ \A s \in Slaves : SlaveOK(s)

-----------------------------------------------------------------------------
(* Sequences of one message, and longer ones *)

LEMMA OneMessage ==
  ASSUME NEW m
  PROVE  /\ <<m>> # <<>> /\ Head(<<m>>) = m /\ Tail(<<m>>) = <<>> /\ <<m>>[1] = m
         /\ Append(<<>>, m) = <<m>> /\ Len(<<m>>) = 1
         /\ \A n : <<m>> = <<n>> => m = n
OBVIOUS

LEMMA AppendFacts ==
  ASSUME NEW q, NEW m, IsSeq(q)
  PROVE  /\ IsSeq(Append(q, m)) /\ Append(q, m) # <<>> /\ Len(q) \in Nat
         /\ Len(Append(q, m)) = Len(q) + 1 /\ Append(q, m)[Len(q) + 1] = m
         /\ \A i \in 1..Len(q) : Append(q, m)[i] = q[i]
<1>1. PICK X : q \in Seq(X)
  BY DEF IsSeq
<1>2. DEFINE Y == X \cup {m}
<1>3. q \in Seq(Y) /\ m \in Y
  BY <1>1
<1>4. Append(q, m) \in Seq(Y)
  BY <1>3
<1> QED
  BY <1>3, <1>4 DEF IsSeq

LEMMA TailFacts ==
  ASSUME NEW q, IsSeq(q), q # <<>>
  PROVE  /\ IsSeq(Tail(q)) /\ Len(q) \in Nat \ {0} /\ Head(q) = q[1]
         /\ Len(Tail(q)) = Len(q) - 1
         /\ \A i \in 1..Len(Tail(q)) : Tail(q)[i] = q[i + 1]
         /\ Len(q) = 1 => Tail(q) = <<>>
         /\ Len(q) # 1 => Tail(q) # <<>>
<1>1. PICK X : q \in Seq(X)
  BY DEF IsSeq
<1>2. Tail(q) \in Seq(X)
  BY <1>1
<1>3. Len(Tail(q)) = Len(q) - 1 /\ Len(q) \in Nat \ {0} /\ Head(q) = q[1]
  BY <1>1
<1>4. \A i \in 1..Len(Tail(q)) : Tail(q)[i] = q[i + 1]
  BY <1>1, <1>3
<1>0. Len(<<>>) = 0 /\ \A y \in Seq(X) : y # <<>> => Len(y) # 0
  OBVIOUS
<1>7. Len(q) = 1 <=> Len(Tail(q)) = 0
  BY <1>3
<1>5. Len(q) = 1 => Tail(q) = <<>>
  BY <1>0, <1>2, <1>7
<1>6. Len(q) # 1 => Tail(q) # <<>>
  BY <1>0, <1>7
<1> QED
  BY <1>2, <1>3, <1>4, <1>5, <1>6 DEF IsSeq

LEMMA WordFacts ==
  ASSUME NEW t, NEW x
  PROVE  /\ Word(t) # None /\ Head(Word(t)).tag = t /\ Tail(Word(t)) = None /\ Word(t)[1].tag = t
         /\ Data(x) # None /\ Head(Data(x)).tag = "DATA" /\ Tail(Data(x)) = None
         /\ Head(Data(x)).expr = x /\ Data(x)[1].tag = "DATA" /\ Data(x)[1].expr = x
         /\ Append(None, [tag |-> t]) = Word(t)
         /\ Append(None, [tag |-> "DATA", expr |-> x]) = Data(x)
         /\ IsSeq(None) /\ Len(None) = 0
BY DEF Word, Data, None, IsSeq

LEMMA BucketFacts ==
  ASSUME NEW t, NEW b, NEW c
  PROVE  /\ <<Bucket(t, b, c)>> # None /\ Head(<<Bucket(t, b, c)>>) = Bucket(t, b, c)
         /\ Tail(<<Bucket(t, b, c)>>) = None
         /\ Append(None, Bucket(t, b, c)) = <<Bucket(t, b, c)>>
         /\ Bucket(t, b, c).tag = t /\ Bucket(t, b, c).buf = b /\ Bucket(t, b, c).content = c
BY DEF Bucket, None

\* Terms in an input buffer, and terms with the word 0 behind them.
LEMMA InputFacts ==
  ASSUME NEW ts \in Seq(TermNumbers)
  PROVE  /\ ts # <<>> => /\ ts[1] # 0 /\ Last(ts) # 0 /\ TermsIn(ts) = ts
         /\ Append(ts, 0) # <<>> /\ Last(Append(ts, 0)) = 0 /\ TermsIn(Append(ts, 0)) = ts
         /\ Append(ts, 0)[1] = 0 <=> ts = <<>>
         /\ ts \o <<>> = ts /\ ts \o <<0>> = Append(ts, 0)
         /\ Append(<<>>, 0) = <<0>>
<1>1. ts # <<>> => ts[1] \in TermNumbers /\ ts[Len(ts)] \in TermNumbers
  OBVIOUS
<1>2. ts # <<>> => /\ ts[1] # 0 /\ Last(ts) # 0 /\ TermsIn(ts) = ts
  BY <1>1 DEF TermNumbers, Last, TermsIn
<1>3. Append(ts, 0) # <<>> /\ Last(Append(ts, 0)) = 0
  BY DEF Last, TermNumbers
<1>4. TermsIn(Append(ts, 0)) = ts
  <2>1. Append(ts, 0) \in Seq(Nat) /\ Len(Append(ts, 0)) = Len(ts) + 1 /\ ts \in Seq(Nat)
    BY DEF TermNumbers
  <2>2. Front(Append(ts, 0)) = SubSeq(Append(ts, 0), 1, Len(ts))
    BY <2>1 DEF Front
  <2>3. SubSeq(Append(ts, 0), 1, Len(ts)) = ts
    BY <2>1
  <2> QED
    BY <1>3, <2>2, <2>3 DEF TermsIn
<1>5. Append(ts, 0)[1] = 0 <=> ts = <<>>
  BY <1>1 DEF TermNumbers
<1>6. ts \o <<>> = ts /\ ts \o <<0>> = Append(ts, 0)
  BY DEF TermNumbers
<1> QED
  BY <1>2, <1>3, <1>4, <1>5, <1>6

-----------------------------------------------------------------------------
(* Steps of a slave *)

\* Nothing changes for slave t, and nothing where the master is.
Undisturbed(t) ==
  /\ job'[t] = job[t] /\ pc'[t] = pc[t] /\ exprtodo'[t] = exprtodo[t]
  /\ toslave'[t] = toslave[t] /\ tomaster'[t] = tomaster[t]
  /\ infile'[t] = infile[t] /\ done'[t] = done[t]
  /\ program' = program

LEMMA Stay ==
  ASSUME NEW t \in Slaves, Undisturbed(t)
  PROVE  /\ Fresh(t)' <=> Fresh(t)
         /\ Working(t)' <=> Working(t)
         /\ Told(t)' <=> Told(t)
         /\ Sending(t)' <=> Sending(t)
         /\ Sent(t)' <=> Sent(t)
         /\ Left(t)' <=> Left(t)
         /\ Asked(t)' <=> Asked(t)
         /\ Dismissed(t)' <=> Dismissed(t)
<1>1. /\ AtKind(t, "terms")' <=> AtKind(t, "terms")
      /\ AtKind(t, "expressions")' <=> AtKind(t, "expressions")
  BY DEF Undisturbed, AtKind, Job
<1>2. Prints(t)' <=> Prints(t)
  BY DEF Undisturbed, Prints
<1>3. /\ HasBucket(t, "TERM")' <=> HasBucket(t, "TERM")
      /\ HasBucket(t, "ENDSORT")' <=> HasBucket(t, "ENDSORT")
  BY DEF Undisturbed, HasBucket
<1>4. \A q, r : Channels(t, q, r)' <=> Channels(t, q, r)
  BY DEF Undisturbed, Channels
<1>5. Fresh(t)' <=> Fresh(t)
  BY <1>1, <1>4 DEF Undisturbed, Fresh
<1>6. Working(t)' <=> Working(t)
  BY <1>1, <1>2, <1>3, <1>4 DEF Undisturbed, Working
<1>7. Told(t)' <=> Told(t)
  BY <1>1, <1>2, <1>3 DEF Undisturbed, Told
<1>8. Sending(t)' <=> Sending(t)
  BY DEF Undisturbed, Sending
<1>9. Sent(t)' <=> Sent(t)
  BY <1>2 DEF Undisturbed, Sent
<1>10. Left(t)' <=> Left(t)
  BY <1>4 DEF Undisturbed, Left
<1>11. Asked(t)' <=> Asked(t)
  BY <1>2, <1>4 DEF Undisturbed, Asked
<1>12. Dismissed(t)' <=> Dismissed(t)
  BY <1>4 DEF Undisturbed, Dismissed
<1> QED
  BY <1>5, <1>6, <1>7, <1>8, <1>9, <1>10, <1>11, <1>12

\* The master is where it was, at the same job.
MasterStays ==
  /\ M' = M /\ J' = J /\ program' = program /\ has_sent' = has_sent /\ collected' = collected
  /\ posted' = posted /\ arrived' = arrived

\* What a step of slave s must do to keep the order of the messages.
InOrder(s) ==
  /\ Fresh(s) => job'[s] = job[s] /\ Fresh(s)'
  /\ Working(s) => job'[s] = job[s] /\ Working(s)'
  /\ Told(s) => job'[s] = job[s] /\ (Told(s)' \/ Sending(s)')
  /\ Sending(s) => job'[s] = job[s] /\ Sending(s)' /\ (tomaster[s] # None => tomaster'[s] # None)
  /\ Sent(s) => \/ job'[s] = job[s] /\ Sent(s)'
                \/ job'[s] = job[s] + 1 /\ Left(s)'
  /\ Left(s) => job'[s] = job[s] /\ Left(s)'
  /\ Asked(s) => job'[s] = job[s] /\ Asked(s)'
  /\ Dismissed(s) => \/ job'[s] = job[s] /\ Dismissed(s)'
                     \/ job'[s] = job[s] + 1 /\ Fresh(s)'

LEMMA MasterOKStays ==
  ASSUME MasterStays, MasterOK, ArrivedOK
  PROVE  MasterOK' /\ ArrivedOK'
<1>1. /\ IsKind("terms")' <=> IsKind("terms")
      /\ IsKind("expressions")' <=> IsKind("expressions")
  BY DEF MasterStays, IsKind
<1>2. MasterOK'
  BY <1>1 DEF MasterStays, MasterOK
<1>3. ArrivedOK'
  BY DEF MasterStays, ArrivedOK
<1> QED
  BY <1>2, <1>3

LEMMA OthersOK ==
  ASSUME NEW t \in Slaves, MasterStays, Undisturbed(t), SlaveOK(t)
  PROVE  SlaveOK(t)'
<1>1. /\ IsKind("terms")' <=> IsKind("terms")
      /\ IsKind("expressions")' <=> IsKind("expressions")
  BY DEF MasterStays, IsKind
<1>2. Finishing(t)' <=> Finishing(t)
  BY Stay DEF MasterStays, Undisturbed, Finishing
<1>3. StillSends(t)' <=> StillSends(t)
  BY DEF MasterStays, StillSends
<1>4. AtStart(t)'
  BY Stay DEF MasterStays, Undisturbed, SlaveOK, AtStart
<1>5. AtRead(t)'
  BY Stay DEF MasterStays, Undisturbed, SlaveOK, AtRead
<1>6. AtWait(t)'
  BY <1>1, Stay DEF MasterStays, Undisturbed, SlaveOK, AtWait
<1>7. AtMerge(t)'
  BY <1>2, <1>3, Stay DEF MasterStays, Undisturbed, SlaveOK, AtMerge
<1>8. AtCollect(t)'
  BY <1>2, Stay DEF MasterStays, Undisturbed, SlaveOK, AtCollect
<1>9. AtGive(t)'
  BY Stay DEF MasterStays, Undisturbed, SlaveOK, AtGive
<1>10. AtLetGo(t)'
  BY <1>1, Stay DEF MasterStays, Undisturbed, SlaveOK, AtLetGo
<1> QED
  BY <1>4, <1>5, <1>6, <1>7, <1>8, <1>9, <1>10 DEF SlaveOK

LEMMA InOrderOK ==
  ASSUME NEW s \in Slaves, MasterStays, InOrder(s), SlaveOK(s)
  PROVE  SlaveOK(s)'
<1>1. /\ IsKind("terms")' <=> IsKind("terms")
      /\ IsKind("expressions")' <=> IsKind("expressions")
  BY DEF MasterStays, IsKind
<1>2. StillSends(s)' <=> StillSends(s)
  BY DEF MasterStays, StillSends
<1>3. Finishing(s) => Finishing(s)'
  BY DEF MasterStays, InOrder, Finishing
<1>4. AtStart(s)'
  BY DEF MasterStays, InOrder, SlaveOK, AtStart
<1>5. AtRead(s)'
  BY DEF MasterStays, InOrder, SlaveOK, AtRead
<1>6. AtWait(s)'
  BY <1>1 DEF MasterStays, InOrder, SlaveOK, AtWait
<1>7. AtMerge(s)'
  BY <1>2, <1>3 DEF MasterStays, InOrder, SlaveOK, AtMerge
<1>8. AtCollect(s)'
  BY <1>3 DEF MasterStays, InOrder, SlaveOK, AtCollect
<1>9. AtGive(s)'
  BY DEF MasterStays, InOrder, SlaveOK, AtGive
<1>10. AtLetGo(s)'
  BY <1>1 DEF MasterStays, InOrder, SlaveOK, AtLetGo
<1> QED
  BY <1>4, <1>5, <1>6, <1>7, <1>8, <1>9, <1>10 DEF SlaveOK

LEMMA Processes == Slaves \subseteq Procs /\ Master \in Procs /\ \A s \in Slaves : s # Master /\ s # 0 /\ s \in Nat
BY ParFormAssumption DEF Procs, Slaves, Master

LEMMA SlaveFrame ==
  ASSUME Types, NEW s \in Slaves, SlaveStep(s) \/ PrintMessage(s)
  PROVE  MasterStays /\ \A t \in Slaves \ {s} : Undisturbed(t)
<1> USE Processes DEF M, J, MasterStays, Undisturbed, Types, Goto, ToMaster, ToSlave, Taken,
                      master, receive, wait, slave, input, result
<1>1. CASE StartSlave(s)
  BY <1>1 DEF StartSlave
<1>2. CASE AskForTerms(s)
  BY <1>2 DEF AskForTerms
<1>3. CASE ReceiveTerms(s)
  BY <1>3 DEF ReceiveTerms
<1>4. CASE Generate(s)
  BY <1>4 DEF Generate
<1>5. CASE SlaveEndSort(s)
  BY <1>5 DEF SlaveEndSort
<1>6. CASE SendBuffer(s)
  BY <1>6 DEF SendBuffer, SendSbuf
<1>7. CASE SendEndBuffer(s)
  BY <1>7 DEF SendEndBuffer, SendSbuf
<1>8. CASE SendStatistics(s)
  BY <1>8 DEF SendStatistics
<1>9. CASE ReadMaster(s)
  BY <1>9 DEF ReadMaster
<1>10. CASE DoOneExpr(s)
  BY <1>10 DEF DoOneExpr
<1>11. CASE PrintMessage(s)
  BY <1>11 DEF PrintMessage
<1> QED
  BY <1>1, <1>2, <1>3, <1>4, <1>5, <1>6, <1>7, <1>8, <1>9, <1>10, <1>11 DEF SlaveStep

-----------------------------------------------------------------------------
(* The steps of a slave are in order *)

LEMMA StartSlaveInOrder ==
  ASSUME Types, NEW s \in Slaves, StartSlave(s)
  PROVE  InOrder(s)
<1> USE Processes, WordFacts
<1>1. pc[s] = "start" /\ tomaster[s] = None /\ job' = job /\ program' = program
      /\ toslave' = toslave /\ AtKind(s, Job(s).kind)
  BY DEF StartSlave, AllReceived, None, AtKind
<1>2. CASE Job(s).kind = "terms"
  <2>1. pc'[s] = "get" /\ infile'[s] = <<>> /\ done'[s] = <<>> /\ tomaster' = tomaster
    BY <1>2 DEF StartSlave, Types, Goto
  <2>2. AtKind(s, "terms")'
    BY <1>1, <1>2 DEF AtKind, Job
  <2>3. Fresh(s) => Fresh(s)'
    BY <1>1, <2>1, <2>2 DEF Fresh, Channels
  <2>4. Working(s) => Working(s)'
    <3>1. <<>> \in Seq(TermNumbers)
      OBVIOUS
    <3> QED
      BY <1>1, <2>1, <2>2, <3>1 DEF Working, Channels, Prints, None
  <2> QED
    BY <1>1, <2>3, <2>4 DEF InOrder, Told, Sending, Sent, Left, Asked, Dismissed, Channels
<1>3. CASE Job(s).kind # "terms"
  <2>1. pc'[s] = "readmaster" /\ tomaster'[s] = Word("EMPTY")
    BY <1>1, <1>3 DEF StartSlave, Types, Goto, ToMaster
  <2>2. AtKind(s, "expressions")'
    <3>1. job[s] \in 1..Len(program) /\ program \in Seq(Jobs)
      BY <1>1 DEF Types, AtKind
    <3>2. program[job[s]] \in Jobs
      BY <3>1
    <3> QED
      BY <1>1, <1>3, <3>2 DEF AtKind, Job, Jobs
  <2>3. Fresh(s) => Fresh(s)'
    BY <1>1, <2>1, <2>2 DEF Fresh, Channels
  <2> QED
    BY <1>1, <1>3, <2>3 DEF InOrder, Working, AtKind, Told, Sending, Sent, Left, Asked, Dismissed, Channels
<1> QED
  BY <1>2, <1>3

LEMMA AskForTermsInOrder ==
  ASSUME Types, NEW s \in Slaves, AskForTerms(s)
  PROVE  InOrder(s)
<1> USE Processes, WordFacts
<1>1. pc[s] = "get" /\ infile[s] = <<>> /\ tomaster[s] = None /\ job' = job /\ program' = program
      /\ toslave' = toslave /\ infile' = infile /\ done' = done
  BY DEF AskForTerms, AllReceived, None, slave, input
<1>2. pc'[s] = "receive" /\ tomaster'[s] = Word("READY")
  BY <1>1 DEF AskForTerms, Types, Goto, ToMaster
<1>3. AtKind(s, "terms")' <=> AtKind(s, "terms")
  BY <1>1 DEF AtKind, Job
<1>4. Fresh(s) => Fresh(s)'
  BY <1>1, <1>2, <1>3 DEF Fresh, Channels
<1>5. Working(s) => Working(s)'
  BY <1>1, <1>2, <1>3 DEF Working, Channels, Prints
<1>6. ~Told(s)
  BY <1>1, InputFacts DEF Told
<1> QED
  BY <1>1, <1>4, <1>5, <1>6 DEF InOrder, Sending, Sent, Left, Asked, Dismissed

LEMMA ReceiveTermsInOrder ==
  ASSUME Types, NEW s \in Slaves, ReceiveTerms(s)
  PROVE  InOrder(s)
<1> USE Processes, WordFacts
<1>1. pc[s] = "receive" /\ toslave[s] # None /\ job' = job /\ program' = program
      /\ tomaster' = tomaster /\ pc'[s] = "get"
  BY DEF ReceiveTerms, None, Types, Goto
<1>2. AtKind(s, "terms")' <=> AtKind(s, "terms")
  BY <1>1 DEF AtKind, Job
<1>3. ASSUME NEW tag, HasBucket(s, tag)
      PROVE  \E ts \in Seq(TermNumbers) :
               /\ infile'[s] = IF tag = "ENDSORT" THEN Append(ts, 0) ELSE ts
               /\ Prints(s)'
  <2>1. PICK b \in Procs, c \in Contents : toslave[s] = << Bucket(tag, b, c) >>
    BY <1>3 DEF HasBucket
  <2>2. Head(toslave[s]) = Bucket(tag, b, c) /\ Tail(toslave[s]) = None
    BY <2>1, BucketFacts
  <2>3. memory[b].terms \in Seq(TermNumbers)
    BY DEF Types, Contents
  <2>4. infile'[s] = memory[b].terms \o (IF tag = "ENDSORT" THEN <<0>> ELSE <<>>)
    <3>1. Head(toslave[s]).tag = tag /\ Head(toslave[s]).buf = b
      BY <2>2, BucketFacts
    <3>2. infile' = [infile EXCEPT ![s] = memory[Head(toslave[s]).buf].terms \o
                       (IF Head(toslave[s]).tag = "ENDSORT" THEN <<0>> ELSE <<>>)]
      BY DEF ReceiveTerms
    <3> QED
      BY <3>1, <3>2 DEF Types
  <2>5. infile'[s] = IF tag = "ENDSORT" THEN Append(memory[b].terms, 0) ELSE memory[b].terms
    BY <2>3, <2>4, InputFacts
  <2>6. toslave'[s] = None /\ tomaster'[s] = None
    BY <1>1, <1>3, <2>2 DEF ReceiveTerms, Types, HasBucket
  <2> QED
    BY <2>3, <2>5, <2>6 DEF Prints
<1>4. ~Fresh(s)
  BY <1>1 DEF Fresh, Channels
<1>5. Working(s) => Working(s)'
  <2>1. Working(s) => AtKind(s, "terms") /\ HasBucket(s, "TERM")
    BY <1>1 DEF Working, Channels
  <2>2. HasBucket(s, "TERM") => infile'[s] \in Seq(TermNumbers) /\ Prints(s)'
    BY <1>3
  <2> QED
    BY <1>1, <1>2, <2>1, <2>2 DEF Working
<1>6. Told(s) => Told(s)'
  <2>1. Told(s) => AtKind(s, "terms") /\ HasBucket(s, "ENDSORT")
    BY <1>1 DEF Told
  <2>2. HasBucket(s, "ENDSORT") =>
          Prints(s)' /\ \E ts \in Seq(TermNumbers) : infile'[s] = Append(ts, 0)
    BY <1>3
  <2> QED
    BY <1>1, <1>2, <2>1, <2>2 DEF Told
<1> QED
  BY <1>1, <1>4, <1>5, <1>6 DEF InOrder, Sending, Sent, Left, Asked, Dismissed

LEMMA GenerateInOrder ==
  ASSUME Types, NEW s \in Slaves, Generate(s)
  PROVE  InOrder(s)
<1>1. /\ pc[s] = "get" /\ infile[s] # <<>> /\ job' = job /\ program' = program /\ pc' = pc
      /\ toslave' = toslave /\ tomaster' = tomaster
  BY DEF Generate
<1>2. infile'[s] = IF Last(infile[s]) = 0 THEN <<0>> ELSE <<>>
  BY DEF Generate, Types
<1>3. AtKind(s, "terms")' <=> AtKind(s, "terms")
  BY <1>1 DEF AtKind, Job
<1>4. Prints(s)' <=> Prints(s)
  BY <1>1 DEF Prints
<1>5. <<>> \in Seq(TermNumbers) /\ Append(<<>>, 0) = <<0>>
  OBVIOUS
<1>6. Working(s) => Working(s)'
  <2>1. Working(s) => infile[s] \in Seq(TermNumbers)
    BY <1>1 DEF Working
  <2>2. Working(s) => infile'[s] = <<>>
    BY <1>1, <1>2, <2>1, InputFacts
  <2> QED
    BY <1>1, <1>3, <1>4, <1>5, <2>2 DEF Working
<1>7. Told(s) => Told(s)'
  <2>1. Told(s) => Last(infile[s]) = 0
    BY <1>1, InputFacts DEF Told
  <2> QED
    BY <1>1, <1>2, <1>3, <1>4, <1>5, <2>1 DEF Told
<1> QED
  BY <1>1, <1>6, <1>7 DEF InOrder, Fresh, Sending, Sent, Left, Asked, Dismissed

LEMMA SlaveEndSortInOrder ==
  ASSUME Types, NEW s \in Slaves, SlaveEndSort(s)
  PROVE  InOrder(s)
<1>1. /\ pc[s] = "get" /\ infile[s] # <<>> /\ infile[s][1] = 0 /\ tomaster[s] = None
      /\ job' = job /\ toslave' = toslave /\ tomaster' = tomaster /\ infile' = infile
  BY DEF SlaveEndSort, AllReceived, input, None
<1>2. pc'[s] = "putout"
  BY Processes DEF SlaveEndSort, Goto, Types
<1>3. ~Working(s)
  BY <1>1, InputFacts DEF Working
<1>4. Told(s) => Sending(s)'
  <2>1. Told(s) => infile[s] = <<0>> /\ toslave[s] = None
    BY <1>1, InputFacts DEF Told, Prints
  <2>2. Buffers(None, "BUFFER")
    <3>1. IsSeq(None) /\ Len(None) = 0
      BY WordFacts
    <3>2. \A i \in 1..0 : FALSE
      OBVIOUS
    <3> QED
      BY <3>1, <3>2 DEF Buffers
  <2> QED
    BY <1>1, <1>2, <2>1, <2>2 DEF Sending
<1> QED
  BY <1>1, <1>3, <1>4 DEF InOrder, Fresh, Sending, Sent, Left, Asked, Dismissed

LEMMA PrintMessageInOrder ==
  ASSUME Types, NEW s \in Slaves, PrintMessage(s)
  PROVE  InOrder(s)
<1>1. /\ (pc[s] = "get" /\ infile[s] # <<>>) \/ pc[s] = "sent" \/ pc[s] = "expression"
      /\ tomaster[s] = None /\ pc' = pc /\ job' = job /\ program' = program
      /\ toslave' = toslave /\ infile' = infile /\ exprtodo' = exprtodo
  BY DEF PrintMessage, AllReceived, input, None
<1>2. tomaster'[s] = Word("STDOUT")
  BY <1>1, WordFacts DEF PrintMessage, Types, ToMaster
<1>3. AtKind(s, "terms")' <=> AtKind(s, "terms")
  BY <1>1 DEF AtKind, Job
<1>4. Prints(s) => Prints(s)'
  BY <1>1, <1>2 DEF Prints
<1>5. ~Fresh(s) /\ ~Left(s) /\ ~Dismissed(s) /\ ~Sending(s)
  BY <1>1 DEF Fresh, Left, Dismissed, Sending
<1>6. Working(s) => Working(s)'
  BY <1>1, <1>3, <1>4 DEF Working
<1>7. Told(s) => Told(s)'
  BY <1>1, <1>3, <1>4 DEF Told
<1>8. Sent(s) => Sent(s)'
  BY <1>1, <1>4 DEF Sent
<1>9. Asked(s) => Asked(s)'
  BY <1>1, <1>4 DEF Asked
<1> QED
  BY <1>1, <1>5, <1>6, <1>7, <1>8, <1>9 DEF InOrder

\* One buffer more is sent behind those that are.
LEMMA BufferBehind ==
  ASSUME NEW q, NEW m, Buffers(q, "BUFFER")
  PROVE  Buffers(Append(q, m), m.tag) /\ Append(q, m) # None
<1>1. /\ IsSeq(q) /\ Len(q) \in Nat /\ \A i \in 1..Len(q) : q[i].tag = "BUFFER"
  BY AppendFacts DEF Buffers
<1>2. /\ IsSeq(Append(q, m)) /\ Append(q, m) # <<>>
      /\ Len(Append(q, m)) = Len(q) + 1 /\ Append(q, m)[Len(q) + 1] = m
      /\ \A i \in 1..Len(q) : Append(q, m)[i] = q[i]
  BY <1>1, AppendFacts
<1>3. ASSUME NEW i \in 1..Len(Append(q, m))
      PROVE  Append(q, m)[i].tag = IF i = Len(Append(q, m)) THEN m.tag ELSE "BUFFER"
  <2>1. i = Len(q) + 1 \/ i \in 1..Len(q)
    BY <1>1, <1>2
  <2>2. i \in 1..Len(q) => i # Len(q) + 1
    BY <1>1
  <2> QED
    BY <1>1, <1>2, <2>1, <2>2
<1> QED
  BY <1>2, <1>3 DEF Buffers, None

LEMMA SendInOrder ==
  ASSUME Types, NEW s \in Slaves, SendBuffer(s) \/ SendEndBuffer(s)
  PROVE  InOrder(s)
<1>1. /\ pc[s] = "putout" /\ job' = job /\ toslave' = toslave /\ infile' = infile
  BY DEF SendBuffer, SendEndBuffer, input
<1>2. \/ pc'[s] = "putout" /\ \E m : m.tag = "BUFFER" /\ tomaster'[s] = Append(tomaster[s], m)
      \/ pc'[s] = "sent" /\ \E m : m.tag = "ENDBUFFER" /\ tomaster'[s] = Append(tomaster[s], m)
  <2>1. CASE SendBuffer(s)
    <3>1. pc'[s] = "putout"
      BY <2>1 DEF SendBuffer
    <3>2. tomaster'[s] = Append(tomaster[s], [tag |-> "BUFFER", buf |-> active[s],
                                              content |-> SubSeq(out[s], 1, BufferSize)])
      BY <2>1 DEF SendBuffer, SendSbuf, ToMaster, Types
    <3> QED
      BY <3>1, <3>2
  <2>2. CASE SendEndBuffer(s)
    <3>1. pc'[s] = "sent"
      BY <2>2, Processes DEF SendEndBuffer, Goto, Types
    <3>2. tomaster'[s] = Append(tomaster[s], [tag |-> "ENDBUFFER", buf |-> active[s],
                                              content |-> SubSeq(out[s], 1, Len(out[s]))])
      BY <2>2 DEF SendEndBuffer, SendSbuf, ToMaster, Types
    <3> QED
      BY <3>1, <3>2
  <2> QED
    BY <2>1, <2>2
<1>3. Sending(s) => Buffers(tomaster[s], "BUFFER")
  BY <1>1 DEF Sending
<1>4. Sending(s) => Sending(s)' /\ tomaster'[s] # None
  BY <1>1, <1>2, <1>3, BufferBehind DEF Sending
<1> QED
  BY <1>1, <1>4 DEF InOrder, Fresh, Working, Told, Sent, Left, Asked, Dismissed

LEMMA SendStatisticsInOrder ==
  ASSUME Types, NEW s \in Slaves, SendStatistics(s)
  PROVE  InOrder(s)
<1>1. /\ pc[s] = "sent" /\ tomaster[s] = None /\ toslave' = toslave
  BY DEF SendStatistics, AllReceived, None
<1>2. pc'[s] = "start" /\ job'[s] = job[s] + 1 /\ tomaster'[s] = Word("ENDSORT")
  BY <1>1, Processes, WordFacts DEF SendStatistics, Goto, Types, ToMaster
<1>3. Sent(s) => Left(s)'
  BY <1>1, <1>2 DEF Sent, Left, Prints, Channels
<1> QED
  BY <1>1, <1>2, <1>3 DEF InOrder, Fresh, Working, Told, Sending, Left, Asked, Dismissed

LEMMA ReadMasterInOrder ==
  ASSUME Types, NEW s \in Slaves, ReadMaster(s)
  PROVE  InOrder(s)
<1> USE Processes, WordFacts
<1>1. pc[s] = "readmaster" /\ toslave[s] # None /\ program' = program /\ tomaster' = tomaster
      /\ infile' = infile /\ done' = done /\ toslave'[s] = Tail(toslave[s])
  BY DEF ReadMaster, None, Types, input
<1>2. ~Fresh(s)
  BY <1>1 DEF Fresh, Channels
<1>3. Asked(s) => job'[s] = job[s] /\ Asked(s)'
  <2>1. SUFFICES ASSUME Asked(s) PROVE job'[s] = job[s] /\ Asked(s)'
    OBVIOUS
  <2>2. PICK x \in Nat : Channels(s, Data(x), None)
    BY <1>1, <2>1 DEF Asked, Channels
  <2>3. Head(toslave[s]).tag = "DATA" /\ Head(toslave[s]).expr = x /\ Tail(toslave[s]) = None
    BY <2>2 DEF Channels
  <2>4. pc'[s] = "expression" /\ exprtodo'[s] = x /\ job' = job
    BY <2>3 DEF ReadMaster, Types, Goto
  <2> QED
    BY <1>1, <2>2, <2>3, <2>4 DEF Asked, Prints, Channels
<1>4. Dismissed(s) => job'[s] = job[s] + 1 /\ Fresh(s)'
  <2>1. SUFFICES ASSUME Dismissed(s) PROVE job'[s] = job[s] + 1 /\ Fresh(s)'
    OBVIOUS
  <2>2. Head(toslave[s]).tag = "EMPTY" /\ Tail(toslave[s]) = None /\ tomaster[s] = None
    BY <2>1 DEF Dismissed, Channels
  <2>3. pc'[s] = "start" /\ job'[s] = job[s] + 1
    BY <2>2 DEF ReadMaster, Types, Goto
  <2> QED
    BY <1>1, <2>2, <2>3 DEF Fresh, Channels
<1> QED
  BY <1>1, <1>2, <1>3, <1>4 DEF InOrder, Working, Told, Sending, Sent, Left

LEMMA DoOneExprInOrder ==
  ASSUME Types, NEW s \in Slaves, DoOneExpr(s)
  PROVE  InOrder(s)
<1>1. pc[s] = "expression" /\ tomaster[s] = None /\ job' = job /\ toslave' = toslave
  BY DEF DoOneExpr, AllReceived, None
<1>2. pc'[s] = "readmaster" /\ tomaster'[s] = Data(exprtodo[s])
  BY <1>1, Processes, WordFacts DEF DoOneExpr, Types, ToMaster, Goto
<1>3. Asked(s) => Asked(s)'
  BY <1>1, <1>2 DEF Asked, Channels, Prints
<1> QED
  BY <1>1, <1>3 DEF InOrder, Fresh, Working, Told, Sending, Sent, Left, Dismissed

LEMMA SlaveKeepsProtocol ==
  ASSUME Types, Protocol, NEW s \in Slaves, SlaveStep(s) \/ PrintMessage(s)
  PROVE  Protocol'
<1>1. MasterStays /\ \A t \in Slaves \ {s} : Undisturbed(t)
  BY SlaveFrame
<1>2. InOrder(s)
  BY StartSlaveInOrder, AskForTermsInOrder, ReceiveTermsInOrder, GenerateInOrder,
     SlaveEndSortInOrder, PrintMessageInOrder, SendInOrder, SendStatisticsInOrder,
     ReadMasterInOrder, DoOneExprInOrder DEF SlaveStep
<1>3. SlaveOK(s)'
  BY <1>1, <1>2, InOrderOK DEF Protocol
<1>4. ASSUME NEW t \in Slaves \ {s} PROVE SlaveOK(t)'
  BY <1>1, OthersOK DEF Protocol
<1>5. MasterOK' /\ ArrivedOK'
  BY <1>1, MasterOKStays DEF Protocol
<1> QED
  BY <1>3, <1>4, <1>5 DEF Protocol, Slaves

-----------------------------------------------------------------------------
(* Types *)

LEMMA SlaveKeepsTypes ==
  ASSUME Types, NEW s \in Slaves, SlaveStep(s) \/ PrintMessage(s) \/ Deliver(s)
  PROVE  Types'
<1> USE Processes DEF Types, Goto, ToMaster, ToSlave, Taken, master, send, ip, receive, slave,
                      input, result
<1>1. CASE StartSlave(s)
  BY <1>1 DEF StartSlave
<1>2. CASE AskForTerms(s)
  BY <1>2 DEF AskForTerms
<1>3. CASE ReceiveTerms(s)
  BY <1>3 DEF ReceiveTerms
<1>4. CASE Generate(s)
  BY <1>4 DEF Generate
<1>5. CASE SlaveEndSort(s)
  BY <1>5 DEF SlaveEndSort
<1>6. CASE SendBuffer(s)
  BY <1>6 DEF SendBuffer, SendSbuf
<1>7. CASE SendEndBuffer(s)
  BY <1>7 DEF SendEndBuffer, SendSbuf
<1>8. CASE SendStatistics(s)
  BY <1>8 DEF SendStatistics
<1>9. CASE ReadMaster(s)
  <2>1. \/ job' = [job EXCEPT ![s] = @ + 1]
        \/ job' = job
    BY <1>9 DEF ReadMaster
  <2>2. job' \in [Procs -> Nat \ {0}]
    BY <2>1
  <2>3. DOMAIN exprtodo' = Slaves /\ DOMAIN pc' = Procs /\ DOMAIN toslave' = Slaves
    BY <1>9 DEF ReadMaster
  <2> QED
    BY <1>9, <2>2, <2>3 DEF ReadMaster
<1>10. CASE DoOneExpr(s)
  BY <1>10 DEF DoOneExpr
<1>11. CASE PrintMessage(s)
  BY <1>11 DEF PrintMessage
<1>12. CASE Deliver(s)
  BY <1>12 DEF Deliver
<1> QED
  BY <1>1, <1>2, <1>3, <1>4, <1>5, <1>6, <1>7, <1>8, <1>9, <1>10, <1>11, <1>12 DEF SlaveStep

LEMMA NoTermsIsContent ==
  ASSUME NEW n \in Int
  PROVE  [first |-> n, terms |-> <<>>] \in Contents
<1>1. <<>> \in Seq(TermNumbers)
  OBVIOUS
<1> QED
  BY <1>1 DEF Contents

LEMMA EmptyIsContent ==
  EmptyBucket \in Contents /\ [EmptyBucket EXCEPT !.first = 1] \in Contents
<1>1. EmptyBucket \in Contents
  BY NoTermsIsContent DEF EmptyBucket
<1>2. [first |-> 1, terms |-> <<>>] \in Contents
  BY NoTermsIsContent
<1>3. [EmptyBucket EXCEPT !.first = 1] = [first |-> 1, terms |-> <<>>]
  BY DEF EmptyBucket
<1> QED
  BY <1>1, <1>2, <1>3

\* The steps of the master that leave the memory of the buckets alone.
MasterElse(s) ==
  \/ EndOfTerms \/ WaitSends \/ GetLoserBelow \/ PutInNothing \/ AddTerms \/ CancelTerms
  \/ ReturnLoser \/ CatchErrorMessagesForAll \/ StartExpressions \/ EndOfExpressions
  \/ EndExpressions
  \/ NothingFrom(s) \/ HasOutput(s) \/ WaitRbuf(s) \/ PutIn(s) \/ CollectStatistics(s)
  \/ CatchMessage(s) \/ GiveExpression(s) \/ LetGo(s)

LEMMA MasterElseKeepsTypes ==
  ASSUME Types, NEW s \in Slaves, MasterElse(s)
  PROVE  Types'
<1> USE Processes DEF Types, Goto, ToMaster, ToSlave, Taken, master, send, ip, receive, slave,
                      input, result
<1>1. CASE EndOfTerms
  BY <1>1 DEF EndOfTerms
<1>2. CASE WaitSends
  BY <1>2 DEF WaitSends
<1>3. CASE GetLoserBelow
  BY <1>3 DEF GetLoserBelow
<1>4. CASE PutInNothing
  BY <1>4 DEF PutInNothing
<1>5. CASE AddTerms
  BY <1>5 DEF AddTerms
<1>6. CASE CancelTerms
  BY <1>6 DEF CancelTerms
<1>7. CASE ReturnLoser
  <2>1. pc' = pc \/ Goto(Master, "catch")
    BY <1>7 DEF ReturnLoser
  <2> QED
    BY <1>7, <2>1 DEF ReturnLoser
<1>8. CASE CatchErrorMessagesForAll
  BY <1>8 DEF CatchErrorMessagesForAll
<1>9. CASE StartExpressions
  BY <1>9 DEF StartExpressions
<1>10. CASE EndOfExpressions
  BY <1>10 DEF EndOfExpressions
<1>11. CASE EndExpressions
  BY <1>11 DEF EndExpressions
<1>12. CASE NothingFrom(s)
  BY <1>12 DEF NothingFrom
<1>13. CASE HasOutput(s)
  BY <1>13 DEF HasOutput
<1>14. CASE WaitRbuf(s)
  BY <1>14 DEF WaitRbuf, PostNext
<1>15. CASE PutIn(s)
  BY <1>15 DEF PutIn
<1>16. CASE CollectStatistics(s)
  BY <1>16 DEF CollectStatistics
<1>17. CASE CatchMessage(s)
  BY <1>17 DEF CatchMessage
<1>18. CASE GiveExpression(s)
  BY <1>18 DEF GiveExpression, NoteExpression
<1>19. CASE LetGo(s)
  BY <1>19 DEF LetGo
<1> QED
  BY <1>1, <1>2, <1>3, <1>4, <1>5, <1>6, <1>7, <1>8, <1>9, <1>10, <1>11, <1>12, <1>13, <1>14,
     <1>15, <1>16, <1>17, <1>18, <1>19 DEF MasterElse

\* The steps that fill the buckets and send them.
MasterBuckets(s) == StartTerms \/ ReadTerm \/ SendBucket(s) \/ SendLast(s) \/ InitTree

LEMMA MasterBucketsKeepTypes ==
  ASSUME Types, NEW s \in Slaves, MasterBuckets(s)
  PROVE  Types'
<1> USE Processes DEF Types, Goto, ToSlave, Taken, master, send, ip, receive, slave, input, result
<1>1. CASE StartTerms
  <2>1. buff' \in [Procs -> Procs]
    BY <1>1 DEF StartTerms
  <2>2. memory' \in [Procs -> Contents]
    <3>1. [EmptyBucket EXCEPT !.first = 1] \in Contents /\ EmptyBucket \in Contents
      BY EmptyIsContent
    <3>2. memory' = [i \in Procs |-> IF i = buff'[0] THEN [EmptyBucket EXCEPT !.first = 1]
                                    ELSE EmptyBucket]
      BY <1>1 DEF StartTerms
    <3> QED
      BY <3>1, <3>2
  <2>3. DOMAIN ninterms' = Procs /\ ninterms'[Master] = 0 /\ posted' = posted /\ DOMAIN pc' = Procs
    BY <1>1 DEF StartTerms
  <2> QED
    BY <1>1, <2>1, <2>2, <2>3 DEF StartTerms
<1>2. CASE ReadTerm
  <2>1. ninterms'[Master] = ninterms[Master] + 1 /\ DOMAIN ninterms' = Procs
    BY <1>2 DEF ReadTerm
  <2>2. ninterms'[Master] \in TermNumbers
    BY <2>1 DEF TermNumbers
  <2>3. memory[buff[0]] \in Contents
    BY DEF Master
  <2>4. Append(memory[buff[0]].terms, ninterms'[Master]) \in Seq(TermNumbers)
    BY <2>2, <2>3 DEF Contents
  <2>5. [memory[buff[0]] EXCEPT !.terms = Append(@, ninterms'[Master])] \in Contents
    BY <2>3, <2>4 DEF Contents
  <2>6. memory' = [memory EXCEPT ![buff[0]] =
                     [memory[buff[0]] EXCEPT !.terms = Append(@, ninterms'[Master])]]
    BY <1>2 DEF ReadTerm
  <2>7. memory' \in [Procs -> Contents]
    BY <2>5, <2>6
  <2> QED
    BY <1>2, <2>1, <2>7 DEF ReadTerm
<1>3. CASE SendBucket(s)
  <2>1. CASE TagFrom(s) # "READY"
    BY <1>3, <2>1 DEF SendBucket
  <2>2. CASE TagFrom(s) = "READY"
    <3>1. ninterms'[Master] = ninterms[Master] + 1 /\ DOMAIN ninterms' = Procs
      BY <1>3, <2>2 DEF SendBucket
    <3>2. buff' \in [Procs -> Procs]
      <4>1. buff[0] \in Procs /\ buff[s] \in Procs
        BY DEF Master
      <4>2. buff' = [buff EXCEPT ![0] = buff[s], ![s] = buff[0]]
        BY <1>3, <2>2 DEF SendBucket, ExchangeBuffers
      <4> QED
        BY <4>1, <4>2
    <3>3. [first |-> ninterms'[Master], terms |-> <<ninterms'[Master]>>] \in Contents
      BY <3>1 DEF Contents, TermNumbers
    <3>4. memory' \in [Procs -> Contents]
      <4>1. memory' = [memory EXCEPT ![buff'[0]] =
                         [first |-> ninterms'[Master], terms |-> <<ninterms'[Master]>>]]
        BY <1>3, <2>2 DEF SendBucket
      <4> QED
        BY <3>3, <4>1
    <3> QED
      BY <1>3, <2>2, <3>1, <3>2, <3>4 DEF SendBucket
  <2> QED
    BY <2>1, <2>2
<1>4. CASE SendLast(s)
  <2>1. memory' \in [Procs -> Contents]
    <3>1. [first |-> ninterms[Master], terms |-> <<>>] \in Contents
      BY NoTermsIsContent
    <3>2. \/ memory' = memory
          \/ memory' = [memory EXCEPT ![buff[s]] =
                          [first |-> ninterms[Master], terms |-> <<>>]]
      BY <1>4 DEF SendLast
    <3> QED
      BY <3>1, <3>2
  <2> QED
    BY <1>4, <2>1 DEF SendLast
<1>5. CASE InitTree
  <2>1. memory' \in [Procs -> Contents]
    <3>1. EmptyBucket \in Contents
      BY EmptyIsContent
    <3>2. memory' = [i \in Procs |-> EmptyBucket]
      BY <1>5 DEF InitTree
    <3> QED
      BY <3>1, <3>2
  <2> QED
    BY <1>5, <2>1 DEF InitTree
<1> QED
  BY <1>1, <1>2, <1>3, <1>4, <1>5 DEF MasterBuckets

LEMMA MasterSteps ==
  ASSUME MasterStep
  PROVE  ~InSsend /\ \E s \in Slaves : MasterElse(s) \/ MasterBuckets(s)
<1>1. 1 \in Slaves
  BY ParFormAssumption DEF Slaves
<1> QED
  BY <1>1 DEF MasterStep, MasterWith, MasterElse, MasterBuckets

LEMMA InitTypes ==
  ASSUME Init
  PROVE  Types
<1>1. program \in Seq(Jobs)
  BY ParFormAssumption DEF Init
<1>2. memory \in [Procs -> Contents]
  <2>1. EmptyBucket \in Contents
    BY EmptyIsContent
  <2>2. memory = [p \in Procs |-> EmptyBucket]
    BY DEF Init
  <2> QED
    BY <2>1, <2>2
<1> QED
  BY <1>1, <1>2, Processes DEF Init, Types

-----------------------------------------------------------------------------
(* Steps of the master *)

\* Those that move no message, and those that do.
MasterAlone(s) ==
  \/ StartTerms \/ ReadTerm \/ EndOfTerms \/ WaitSends \/ InitTree \/ GetLoserBelow
  \/ PutInNothing \/ AddTerms \/ CancelTerms \/ ReturnLoser \/ CatchErrorMessagesForAll
  \/ StartExpressions \/ EndOfExpressions \/ EndExpressions
  \/ NothingFrom(s) \/ HasOutput(s) \/ WaitRbuf(s) \/ PutIn(s)
Exchange(s) ==
  \/ SendBucket(s) \/ SendLast(s) \/ CollectStatistics(s) \/ CatchMessage(s)
  \/ GiveExpression(s) \/ LetGo(s) \/ Deliver(s)

LEMMA AloneFrame ==
  ASSUME Types, NEW s \in Slaves, MasterAlone(s)
  PROVE  \A t \in Slaves : Undisturbed(t)
<1> USE Processes DEF Undisturbed, Types, Goto, slave, input
<1>1. CASE StartTerms
  BY <1>1 DEF StartTerms
<1>2. CASE ReadTerm
  BY <1>2 DEF ReadTerm
<1>3. CASE EndOfTerms
  BY <1>3 DEF EndOfTerms
<1>4. CASE WaitSends
  BY <1>4 DEF WaitSends
<1>5. CASE InitTree
  BY <1>5 DEF InitTree
<1>6. CASE GetLoserBelow
  BY <1>6 DEF GetLoserBelow
<1>7. CASE PutInNothing
  BY <1>7 DEF PutInNothing
<1>8. CASE AddTerms
  BY <1>8 DEF AddTerms
<1>9. CASE CancelTerms
  BY <1>9 DEF CancelTerms
<1>10. CASE ReturnLoser
  <2>1. pc' = pc \/ Goto(Master, "catch")
    BY <1>10 DEF ReturnLoser
  <2> QED
    BY <1>10, <2>1 DEF ReturnLoser
<1>11. CASE CatchErrorMessagesForAll
  BY <1>11 DEF CatchErrorMessagesForAll
<1>12. CASE StartExpressions
  BY <1>12 DEF StartExpressions
<1>13. CASE EndOfExpressions
  BY <1>13 DEF EndOfExpressions
<1>14. CASE EndExpressions
  BY <1>14 DEF EndExpressions
<1>15. CASE NothingFrom(s)
  BY <1>15 DEF NothingFrom
<1>16. CASE HasOutput(s)
  BY <1>16 DEF HasOutput
<1>17. CASE WaitRbuf(s)
  BY <1>17 DEF WaitRbuf
<1>18. CASE PutIn(s)
  BY <1>18 DEF PutIn
<1> QED
  BY <1>1, <1>2, <1>3, <1>4, <1>5, <1>6, <1>7, <1>8, <1>9, <1>10, <1>11, <1>12, <1>13, <1>14,
     <1>15, <1>16, <1>17, <1>18 DEF MasterAlone

LEMMA ExchangeFrame ==
  ASSUME Types, NEW s \in Slaves, Exchange(s)
  PROVE  \A t \in Slaves \ {s} : Undisturbed(t)
<1> USE Processes DEF Undisturbed, Types, Goto, ToSlave, Taken, slave, input
<1>1. CASE SendBucket(s)
  BY <1>1 DEF SendBucket
<1>2. CASE SendLast(s)
  BY <1>2 DEF SendLast
<1>3. CASE CollectStatistics(s)
  BY <1>3 DEF CollectStatistics
<1>4. CASE CatchMessage(s)
  BY <1>4 DEF CatchMessage
<1>5. CASE GiveExpression(s)
  BY <1>5 DEF GiveExpression
<1>6. CASE LetGo(s)
  BY <1>6 DEF LetGo
<1>7. CASE Deliver(s)
  BY <1>7 DEF Deliver
<1> QED
  BY <1>1, <1>2, <1>3, <1>4, <1>5, <1>6, <1>7 DEF Exchange

LEMMA SameJob ==
  ASSUME NEW t \in Slaves, NEW k, job[t] = J
  PROVE  AtKind(t, k) <=> IsKind(k)
BY DEF AtKind, IsKind, Job

LEMMA FreshWorks ==
  ASSUME NEW t \in Slaves, Fresh(t), AtKind(t, "terms")
  PROVE  Working(t)
<1>1. <<>> \in Seq(TermNumbers)
  OBVIOUS
<1> QED
  BY <1>1 DEF Fresh, Working, AtKind, Channels, Prints

\* Steps in which the master does not leave its place, and takes and sends no message.
LEMMA NothingHappens ==
  ASSUME Protocol, MasterStays, \A t \in Slaves : Undisturbed(t)
  PROVE  Protocol'
BY OthersOK, MasterOKStays DEF Protocol, Slaves

LEMMA MasterWaits ==
  ASSUME Types, Protocol, NEW s \in Slaves,
         \/ ReadTerm \/ NothingFrom(s) \/ GetLoserBelow \/ PutInNothing \/ AddTerms
         \/ CancelTerms \/ PutIn(s) \/ (ReturnLoser /\ pc' = pc)
  PROVE  Protocol'
<1>1. \A t \in Slaves : Undisturbed(t)
  BY AloneFrame DEF MasterAlone
<1>2. MasterStays
  <2> USE DEF MasterStays, M, J, wait, receive
  <2>1. CASE ReadTerm
    BY <2>1 DEF ReadTerm
  <2>2. CASE NothingFrom(s)
    BY <2>2 DEF NothingFrom
  <2>3. CASE GetLoserBelow
    BY <2>3 DEF GetLoserBelow
  <2>4. CASE PutInNothing
    BY <2>4 DEF PutInNothing
  <2>5. CASE AddTerms
    BY <2>5 DEF AddTerms
  <2>6. CASE CancelTerms
    BY <2>6 DEF CancelTerms
  <2>7. CASE PutIn(s)
    BY <2>7 DEF PutIn
  <2>8. CASE ReturnLoser /\ pc' = pc
    <3>1. pc[Master] = "merge"
      BY <2>8 DEF ReturnLoser
    <3>2. collected' = collected
      BY <2>8, <3>1, Processes DEF ReturnLoser, Goto, Types
    <3> QED
      BY <2>8, <3>2 DEF ReturnLoser
  <2> QED
    BY <2>1, <2>2, <2>3, <2>4, <2>5, <2>6, <2>7, <2>8
<1> QED
  BY <1>1, <1>2, NothingHappens

LEMMA StartTermsKeepsProtocol ==
  ASSUME Types, Protocol, StartTerms
  PROVE  Protocol'
<1>1. \A t \in Slaves : Undisturbed(t)
  BY AloneFrame DEF MasterAlone
<1>2. /\ M = "start" /\ M' = "read" /\ J' = J /\ program' = program
      /\ posted' = posted /\ arrived' = arrived
  BY Processes DEF StartTerms, Types, Goto, M, J, receive
<1>3. IsKind("terms") /\ IsKind("terms")'
  BY <1>2 DEF StartTerms, Job, IsKind, J
<1>4. ASSUME NEW t \in Slaves PROVE SlaveOK(t)'
  <2>1. job[t] = J /\ Fresh(t) /\ Undisturbed(t)
    BY <1>1, <1>2 DEF Protocol, SlaveOK, AtStart
  <2>2. Working(t)
    BY <1>3, <2>1, SameJob, FreshWorks
  <2>3. Working(t)' /\ job'[t] = job[t]
    BY <2>1, <2>2, Stay DEF Undisturbed
  <2> QED
    BY <1>2, <2>1, <2>3 DEF SlaveOK, AtStart, AtRead, AtWait, AtMerge, AtCollect, AtGive, AtLetGo
<1>5. MasterOK' /\ ArrivedOK'
  BY <1>2, <1>3 DEF Protocol, MasterOK, ArrivedOK
<1> QED
  BY <1>4, <1>5 DEF Protocol

LEMMA EndOfTermsKeepsProtocol ==
  ASSUME Types, Protocol, EndOfTerms
  PROVE  Protocol'
<1>1. \A t \in Slaves : Undisturbed(t)
  BY AloneFrame DEF MasterAlone
<1>2. /\ M = "read" /\ M' = "waitall" /\ J' = J /\ program' = program /\ has_sent' = {}
      /\ posted' = posted /\ arrived' = arrived
  BY Processes DEF EndOfTerms, Types, Goto, M, J, receive
<1>3. IsKind("terms") /\ IsKind("terms")' /\ ~IsKind("expressions")'
  BY <1>2 DEF Protocol, MasterOK, IsKind
<1>4. ASSUME NEW t \in Slaves PROVE SlaveOK(t)'
  <2>1. job[t] = J /\ Working(t) /\ Undisturbed(t)
    BY <1>1, <1>2 DEF Protocol, SlaveOK, AtRead
  <2>3. Working(t)' /\ job'[t] = job[t]
    BY <2>1, Stay DEF Undisturbed
  <2> QED
    BY <1>2, <1>3, <2>1, <2>3 DEF SlaveOK, AtStart, AtRead, AtWait, AtMerge, AtCollect, AtGive, AtLetGo
<1>5. MasterOK' /\ ArrivedOK'
  BY <1>2, <1>3 DEF Protocol, MasterOK, ArrivedOK
<1> QED
  BY <1>4, <1>5 DEF Protocol

LEMMA WaitSendsKeepsProtocol ==
  ASSUME Types, Protocol, WaitSends
  PROVE  Protocol'
<1>1. \A t \in Slaves : Undisturbed(t)
  BY AloneFrame DEF MasterAlone
<1>2. /\ M = "waitsends" /\ M' = "waitall" /\ J' = J /\ program' = program
      /\ has_sent' = has_sent /\ posted' = posted /\ arrived' = arrived
  BY Processes DEF WaitSends, Types, Goto, M, J, master, wait, receive
<1>3. IsKind("terms") /\ IsKind("terms")' /\ ~IsKind("expressions")'
  BY <1>2 DEF Protocol, MasterOK, IsKind
<1>4. ASSUME NEW t \in Slaves PROVE SlaveOK(t)'
  <2>1. AtWait(t) /\ Undisturbed(t)
    BY <1>1 DEF Protocol, SlaveOK
  <2>2. AtWait(t)'
    BY <1>2, <1>3, <2>1, Stay DEF Undisturbed, AtWait
  <2> QED
    BY <1>2, <1>3, <2>2 DEF SlaveOK, AtStart, AtRead, AtMerge, AtCollect, AtGive, AtLetGo
<1>5. MasterOK' /\ ArrivedOK'
  BY <1>2, <1>3 DEF Protocol, MasterOK, ArrivedOK
<1> QED
  BY <1>4, <1>5 DEF Protocol

LEMMA InitTreeKeepsProtocol ==
  ASSUME Types, Protocol, InitTree
  PROVE  Protocol'
<1>1. \A t \in Slaves : Undisturbed(t)
  BY AloneFrame DEF MasterAlone
<1>2. /\ M = "waitall" /\ M' = "merge" /\ J' = J /\ program' = program
      /\ posted' = Slaves /\ arrived' = arrived /\ \A t \in Slaves : t \in has_sent
  BY Processes DEF InitTree, Types, Goto, M, J, AllHaveSent
<1>3. IsKind("terms") /\ IsKind("terms")'
  BY <1>2 DEF InitTree, Job, IsKind, J, Protocol, MasterOK
<1>4. ASSUME NEW t \in Slaves PROVE SlaveOK(t)'
  <2>1. job[t] = J /\ Sending(t) /\ Undisturbed(t)
    BY <1>1, <1>2, <1>3 DEF Protocol, SlaveOK, AtWait
  <2>2. job'[t] = J' /\ Sending(t)'
    BY <1>2, <2>1, Stay DEF Undisturbed
  <2> QED
    BY <1>2, <2>2 DEF SlaveOK, AtStart, AtRead, AtWait, AtMerge, AtCollect, AtGive, AtLetGo, Finishing
<1>5. MasterOK' /\ ArrivedOK'
  BY <1>2, <1>3 DEF Protocol, MasterOK, ArrivedOK
<1> QED
  BY <1>4, <1>5 DEF Protocol

LEMMA ReturnLoserKeepsProtocol ==
  ASSUME Types, Protocol, ReturnLoser, pc' # pc
  PROVE  Protocol'
<1>1. \A t \in Slaves : Undisturbed(t)
  BY AloneFrame DEF MasterAlone
<1>2. Goto(Master, "catch") /\ collected' = {}
  BY DEF ReturnLoser
<1>3. /\ M = "merge" /\ M' = "catch" /\ J' = J /\ program' = program
      /\ posted' = posted /\ arrived' = arrived
  BY <1>2, Processes DEF ReturnLoser, Types, Goto, M, J, receive
<1>4. IsKind("terms") /\ IsKind("terms")'
  BY <1>3 DEF Protocol, MasterOK, IsKind
<1>5. ASSUME NEW t \in Slaves PROVE SlaveOK(t)'
  <2>1. AtMerge(t) /\ Undisturbed(t)
    BY <1>1 DEF Protocol, SlaveOK
  <2>2. AtMerge(t)'
    BY <1>3, <2>1, Stay DEF Undisturbed, AtMerge, Finishing, StillSends
  <2> QED
    BY <1>3, <2>2 DEF SlaveOK, AtStart, AtRead, AtWait, AtCollect, AtGive, AtLetGo
<1>6. MasterOK' /\ ArrivedOK'
  BY <1>2, <1>3, <1>4 DEF Protocol, MasterOK, ArrivedOK
<1> QED
  BY <1>5, <1>6 DEF Protocol

LEMMA CatchAllKeepsProtocol ==
  ASSUME Types, Protocol, CatchErrorMessagesForAll
  PROVE  Protocol'
<1>1. \A t \in Slaves : Undisturbed(t)
  BY AloneFrame DEF MasterAlone
<1>2. /\ M = "catch" /\ M' = "collect" /\ J' = J /\ program' = program
      /\ posted' = posted /\ arrived' = arrived /\ collected' = collected
  BY Processes DEF CatchErrorMessagesForAll, Types, Goto, M, J, receive, master
<1>3. IsKind("terms") /\ IsKind("terms")' /\ collected = {}
  BY <1>2 DEF Protocol, MasterOK, IsKind
<1>4. posted = {}
  BY DEF CatchErrorMessagesForAll, Types
<1>5. ASSUME NEW t \in Slaves PROVE SlaveOK(t)'
  <2>1. Finishing(t) /\ Undisturbed(t)
    BY <1>1, <1>2 DEF Protocol, SlaveOK, AtMerge
  <2>2. Finishing(t)'
    BY <1>2, <2>1, Stay DEF Undisturbed, Finishing
  <2> QED
    BY <1>2, <1>3, <2>2 DEF SlaveOK, AtStart, AtRead, AtWait, AtMerge, AtCollect, AtGive, AtLetGo
<1>6. MasterOK' /\ ArrivedOK'
  BY <1>2, <1>3, <1>4 DEF Protocol, MasterOK, ArrivedOK
<1> QED
  BY <1>5, <1>6 DEF Protocol

LEMMA StartExpressionsKeepsProtocol ==
  ASSUME Types, Protocol, StartExpressions
  PROVE  Protocol'
<1>1. \A t \in Slaves : Undisturbed(t)
  BY AloneFrame DEF MasterAlone
<1>2. /\ M = "start" /\ M' = "give" /\ J' = J /\ program' = program
      /\ posted' = posted /\ arrived' = arrived
  BY Processes DEF StartExpressions, Types, Goto, M, J, receive
<1>3. IsKind("expressions") /\ IsKind("expressions")'
  BY <1>2 DEF StartExpressions, Job, IsKind, J
<1>4. ASSUME NEW t \in Slaves PROVE SlaveOK(t)'
  <2>1. job[t] = J /\ Fresh(t) /\ Undisturbed(t)
    BY <1>1, <1>2 DEF Protocol, SlaveOK, AtStart
  <2>2. Fresh(t)' /\ job'[t] = job[t]
    BY <2>1, Stay DEF Undisturbed
  <2> QED
    BY <1>2, <2>1, <2>2 DEF SlaveOK, AtStart, AtRead, AtWait, AtMerge, AtCollect, AtGive, AtLetGo
<1>5. MasterOK' /\ ArrivedOK'
  BY <1>2, <1>3 DEF Protocol, MasterOK, ArrivedOK
<1> QED
  BY <1>4, <1>5 DEF Protocol

LEMMA EndOfExpressionsKeepsProtocol ==
  ASSUME Types, Protocol, EndOfExpressions
  PROVE  Protocol'
<1>1. \A t \in Slaves : Undisturbed(t)
  BY AloneFrame DEF MasterAlone
<1>2. /\ M = "give" /\ M' = "waitall" /\ J' = J /\ program' = program /\ has_sent' = {}
      /\ posted' = posted /\ arrived' = arrived
  BY Processes DEF EndOfExpressions, Types, Goto, M, J, receive
<1>3. IsKind("expressions")' /\ ~IsKind("terms")'
  BY <1>2 DEF Protocol, MasterOK, IsKind
<1>4. ASSUME NEW t \in Slaves PROVE SlaveOK(t)'
  <2>1. job[t] = J /\ (Fresh(t) \/ Asked(t)) /\ Undisturbed(t)
    BY <1>1, <1>2 DEF Protocol, SlaveOK, AtGive
  <2>2. (Fresh(t)' \/ Asked(t)') /\ job'[t] = job[t]
    BY <2>1, Stay DEF Undisturbed
  <2> QED
    BY <1>2, <1>3, <2>1, <2>2 DEF SlaveOK, AtStart, AtRead, AtWait, AtMerge, AtCollect, AtGive,
                                  AtLetGo
<1>5. MasterOK' /\ ArrivedOK'
  BY <1>2, <1>3 DEF Protocol, MasterOK, ArrivedOK
<1> QED
  BY <1>4, <1>5 DEF Protocol

LEMMA EndExpressionsKeepsProtocol ==
  ASSUME Types, Protocol, EndExpressions, ~InSsend
  PROVE  Protocol'
<1>1. \A t \in Slaves : Undisturbed(t)
  BY AloneFrame DEF MasterAlone
<1>2. /\ M = "waitall" /\ M' = "start" /\ J' = J + 1 /\ program' = program
      /\ posted' = posted /\ arrived' = arrived /\ \A t \in Slaves : t \in has_sent
  BY Processes DEF EndExpressions, Types, Goto, M, J, AllHaveSent, receive, master
<1>3. IsKind("expressions") /\ posted = {}
  BY <1>2 DEF EndExpressions, Protocol, MasterOK, IsKind, Job, J
<1>4. ASSUME NEW t \in Slaves PROVE SlaveOK(t)'
  <2>1. Undisturbed(t) /\ ((job[t] = J /\ Dismissed(t)) \/ (job[t] = J + 1 /\ Fresh(t)))
    BY <1>1, <1>2, <1>3 DEF Protocol, SlaveOK, AtLetGo
  <2>2. ~Dismissed(t)
    <3>1. SUFFICES ASSUME toslave[t] = Word("EMPTY") PROVE FALSE
      BY DEF Dismissed, Channels
    <3>2. 1 \in DOMAIN toslave[t] /\ toslave[t][1].tag = "EMPTY"
      BY <3>1 DEF Word
    <3> QED
      BY <3>2 DEF InSsend
  <2>3. Fresh(t)' /\ job'[t] = J'
    BY <1>2, <2>1, <2>2, Stay DEF Undisturbed
  <2> QED
    BY <1>2, <2>3 DEF SlaveOK, AtStart, AtRead, AtWait, AtMerge, AtCollect, AtGive, AtLetGo
<1>5. MasterOK' /\ ArrivedOK'
  BY <1>2, <1>3 DEF Protocol, MasterOK, ArrivedOK
<1> QED
  BY <1>4, <1>5 DEF Protocol

\* The tag of the first message says where a slave is.
LEMMA Tags ==
  ASSUME NEW s \in Slaves
  PROVE  /\ Fresh(s) => \/ TagFrom(s) = "none"
                        \/ TagFrom(s) = "READY" /\ AtKind(s, "terms") /\ pc[s] = "receive"
                           /\ infile[s] = <<>> /\ Channels(s, None, Word("READY"))
                        \/ TagFrom(s) = "EMPTY" /\ AtKind(s, "expressions") /\ pc[s] = "readmaster"
                           /\ Channels(s, None, Word("EMPTY"))
         /\ Working(s) => \/ TagFrom(s) \in {"none", "STDOUT"}
                          \/ TagFrom(s) = "READY" /\ AtKind(s, "terms") /\ pc[s] = "receive"
                             /\ infile[s] = <<>> /\ Channels(s, None, Word("READY"))
         /\ Told(s) => TagFrom(s) \in {"none", "STDOUT"}
         /\ Sending(s) => TagFrom(s) \in {"none", "BUFFER", "ENDBUFFER"}
         /\ Sent(s) => TagFrom(s) \in {"none", "STDOUT"}
         /\ Left(s) => TagFrom(s) = "ENDSORT"
         /\ Asked(s) => \/ TagFrom(s) \in {"none", "STDOUT"}
                        \/ TagFrom(s) = "DATA" /\ pc[s] = "readmaster"
                           /\ \E x \in Nat : Channels(s, None, Data(x))
         /\ Dismissed(s) => TagFrom(s) = "none"
<1> USE WordFacts
<1>1. tomaster[s] = None => TagFrom(s) = "none"
  BY DEF TagFrom, None
<1>2. ASSUME NEW t, tomaster[s] = Word(t) PROVE TagFrom(s) = t
  BY <1>2 DEF TagFrom, None
<1>3. ASSUME NEW x, tomaster[s] = Data(x) PROVE TagFrom(s) = "DATA"
  BY <1>3 DEF TagFrom, None
<1>4. Prints(s) => TagFrom(s) \in {"none", "STDOUT"}
  BY <1>1, <1>2 DEF Prints
<1>5. Fresh(s) => \/ TagFrom(s) = "none"
                  \/ TagFrom(s) = "READY" /\ AtKind(s, "terms") /\ pc[s] = "receive"
                     /\ infile[s] = <<>> /\ Channels(s, None, Word("READY"))
                  \/ TagFrom(s) = "EMPTY" /\ AtKind(s, "expressions") /\ pc[s] = "readmaster"
                     /\ Channels(s, None, Word("EMPTY"))
  BY <1>1, <1>2 DEF Fresh, Channels
<1>6. Working(s) => \/ TagFrom(s) \in {"none", "STDOUT"}
                    \/ TagFrom(s) = "READY" /\ AtKind(s, "terms") /\ pc[s] = "receive"
                       /\ infile[s] = <<>> /\ Channels(s, None, Word("READY"))
  BY <1>1, <1>2, <1>4 DEF Working, Channels, HasBucket
<1>7. Told(s) => TagFrom(s) \in {"none", "STDOUT"}
  BY <1>1, <1>4 DEF Told, HasBucket
<1>8. Sending(s) => TagFrom(s) \in {"none", "BUFFER", "ENDBUFFER"}
  <2>1. ASSUME NEW q, NEW t \in {"BUFFER", "ENDBUFFER"}, Buffers(q, t), q # <<>>
        PROVE  Head(q).tag \in {"BUFFER", "ENDBUFFER"}
    <3>1. Len(q) \in Nat \ {0} /\ Head(q) = q[1]
      BY <2>1, TailFacts DEF Buffers
    <3>2. 1 \in 1..Len(q)
      BY <3>1
    <3> QED
      BY <2>1, <3>1, <3>2 DEF Buffers
  <2> QED
    BY <2>1 DEF Sending, TagFrom
<1>9. Sent(s) => TagFrom(s) \in {"none", "STDOUT"}
  BY <1>4 DEF Sent
<1>10. Left(s) => TagFrom(s) = "ENDSORT"
  BY <1>2 DEF Left, Channels
<1>11. Asked(s) => \/ TagFrom(s) \in {"none", "STDOUT"}
                   \/ TagFrom(s) = "DATA" /\ pc[s] = "readmaster"
                      /\ \E x \in Nat : Channels(s, None, Data(x))
  BY <1>1, <1>3, <1>4 DEF Asked, Channels
<1>12. Dismissed(s) => TagFrom(s) = "none"
  BY <1>1 DEF Dismissed, Channels
<1> QED
  BY <1>5, <1>6, <1>7, <1>8, <1>9, <1>10, <1>11, <1>12

LEMMA HasOutputKeepsProtocol ==
  ASSUME Types, Protocol, NEW s \in Slaves, HasOutput(s)
  PROVE  Protocol'
<1>1. \A t \in Slaves : Undisturbed(t)
  BY AloneFrame DEF MasterAlone
<1>2. /\ M = "waitall" /\ J' = J /\ program' = program /\ s \notin has_sent
      /\ posted' = posted /\ arrived' = arrived
      /\ TagFrom(s) \notin {"none", "READY", "DATA", "EMPTY", "STDOUT"}
  BY Processes DEF HasOutput, Probed, M, J, receive
<1>3. IsKind("terms")
  <2>1. SUFFICES ASSUME IsKind("expressions") PROVE FALSE
    BY <1>2 DEF Protocol, MasterOK
  <2>2. Fresh(s) \/ Asked(s)
    BY <1>2, <2>1 DEF Protocol, SlaveOK, AtLetGo
  <2> QED
    BY <1>2, <2>2, Tags
<1>4. job[s] = J /\ Sending(s) /\ 0 \in has_sent /\ TagFrom(s) \in {"BUFFER", "ENDBUFFER"}
  <2>1. job[s] = J /\ (Working(s) \/ (0 \in has_sent /\ (Told(s) \/ Sending(s))))
    BY <1>2, <1>3 DEF Protocol, SlaveOK, AtWait
  <2> QED
    BY <1>2, <2>1, Tags
<1>5. tomaster[s] # None
  BY <1>2 DEF TagFrom, None
<1>6. M' = M /\ has_sent' = has_sent \cup {s}
  BY <1>4 DEF HasOutput, M
<1>7. IsKind("terms")' /\ ~IsKind("expressions")'
  BY <1>2, <1>3 DEF IsKind
<1>8. ASSUME NEW t \in Slaves PROVE SlaveOK(t)'
  <2>1. AtWait(t) /\ Undisturbed(t)
    BY <1>1 DEF Protocol, SlaveOK
  <2>2. AtWait(t)'
    BY <1>2, <1>3, <1>4, <1>5, <1>6, <1>7, <2>1, Stay DEF Undisturbed, AtWait
  <2> QED
    BY <1>2, <1>6, <1>7, <2>2 DEF SlaveOK, AtStart, AtRead, AtMerge, AtCollect, AtGive, AtLetGo
<1>9. MasterOK' /\ ArrivedOK'
  BY <1>2, <1>4, <1>6, <1>7 DEF Protocol, MasterOK, ArrivedOK
<1> QED
  BY <1>8, <1>9 DEF Protocol

LEMMA WaitRbufKeepsProtocol ==
  ASSUME Types, Protocol, NEW s \in Slaves, WaitRbuf(s)
  PROVE  Protocol'
<1>1. \A t \in Slaves : Undisturbed(t)
  BY AloneFrame DEF MasterAlone
<1>2. /\ M = "merge" /\ M' = M /\ J' = J /\ program' = program /\ collected' = collected
      /\ arrived[s] # <<>> /\ arrived' = [arrived EXCEPT ![s] = <<>>]
      /\ posted' = PostNext(s, arrived[s][1].tag)
  BY DEF WaitRbuf, AtLeaf, M, J
<1>3. IsKind("terms") /\ IsKind("terms")'
  BY <1>2 DEF Protocol, MasterOK, IsKind
<1>4. arrived[s][1].tag \in {"BUFFER", "ENDBUFFER"}
  BY <1>2, OneMessage DEF Protocol, ArrivedOK
<1>5. /\ \A t \in Slaves \ {s} : arrived'[t] = arrived[t] /\ (t \in posted' <=> t \in posted)
      /\ arrived'[s] = <<>>
      /\ s \in posted' => s \in posted \/ arrived[s][1].tag = "BUFFER"
  BY <1>2, <1>4 DEF Types, PostNext
<1>6. ASSUME NEW t \in Slaves PROVE SlaveOK(t)'
  <2>1. AtMerge(t) /\ Undisturbed(t)
    BY <1>1 DEF Protocol, SlaveOK
  <2>2. StillSends(t)' => StillSends(t)
    BY <1>2, <1>5 DEF StillSends
  <2>3. AtMerge(t)'
    BY <1>2, <2>1, <2>2, Stay DEF Undisturbed, AtMerge, Finishing
  <2> QED
    BY <1>2, <2>3 DEF SlaveOK, AtStart, AtRead, AtWait, AtCollect, AtGive, AtLetGo
<1>7. ArrivedOK'
  BY <1>5 DEF Protocol, ArrivedOK
<1>8. MasterOK'
  BY <1>2, <1>3 DEF Protocol, MasterOK
<1> QED
  BY <1>6, <1>7, <1>8 DEF Protocol

LEMMA DeliverKeepsProtocol ==
  ASSUME Types, Protocol, NEW s \in Slaves, Deliver(s)
  PROVE  Protocol'
<1>1. \A t \in Slaves \ {s} : Undisturbed(t)
  BY ExchangeFrame DEF Exchange
<1>2. /\ M' = M /\ J' = J /\ program' = program /\ collected' = collected /\ job' = job
      /\ pc' = pc /\ toslave' = toslave /\ infile' = infile /\ has_sent' = has_sent
      /\ s \in posted /\ posted' = posted \ {s} /\ tomaster[s] # <<>>
      /\ tomaster'[s] = Tail(tomaster[s])
  BY DEF Deliver, M, J, slave, input, Types, Taken, wait
<1>3. \E w : arrived' = [arrived EXCEPT ![s] = << [tag |-> Head(tomaster[s]).tag, words |-> w] >>]
  BY DEF Deliver
<1>4. M \in {"merge", "catch"} /\ IsKind("terms") /\ IsKind("terms")'
  BY <1>2 DEF Protocol, MasterOK, IsKind
<1>5. job[s] = J /\ Sending(s)
  BY <1>2, <1>4 DEF Protocol, SlaveOK, AtMerge, StillSends
<1>6. \/ Head(tomaster[s]).tag = "BUFFER" /\ Sending(s)'
      \/ Head(tomaster[s]).tag = "ENDBUFFER" /\ Sent(s)'
  <2>1. ASSUME NEW last, Buffers(tomaster[s], last)
        PROVE  /\ Buffers(Tail(tomaster[s]), last)
               /\ Tail(tomaster[s]) = <<>> => Head(tomaster[s]).tag = last
               /\ Tail(tomaster[s]) # <<>> => Head(tomaster[s]).tag = "BUFFER"
    <3> DEFINE q == tomaster[s]
    <3>1. /\ IsSeq(Tail(q)) /\ Len(q) \in Nat \ {0} /\ Head(q) = q[1]
          /\ Len(Tail(q)) = Len(q) - 1
          /\ \A i \in 1..Len(Tail(q)) : Tail(q)[i] = q[i + 1]
          /\ Len(q) = 1 => Tail(q) = <<>>
          /\ Len(q) # 1 => Tail(q) # <<>>
      BY <1>2, <2>1, TailFacts DEF Buffers
    <3>2. \A i \in 1..Len(q) : q[i].tag = IF i = Len(q) THEN last ELSE "BUFFER"
      BY <2>1 DEF Buffers
    <3> HIDE DEF q
    <3>3. \A i \in 1..Len(Tail(q)) : i + 1 \in 1..Len(q) /\ (i + 1 = Len(q) <=> i = Len(Tail(q)))
      BY <3>1
    <3>4. \A i \in 1..Len(Tail(q)) : Tail(q)[i].tag = IF i = Len(Tail(q)) THEN last ELSE "BUFFER"
      BY <3>1, <3>2, <3>3
    <3>5. Head(q).tag = IF Len(q) = 1 THEN last ELSE "BUFFER"
      <4>1. 1 \in 1..Len(q)
        BY <3>1
      <4> QED
        BY <3>1, <3>2, <4>1
    <3>6. Buffers(Tail(q), last) /\ (Tail(q) = <<>> => Head(q).tag = last)
          /\ (Tail(q) # <<>> => Head(q).tag = "BUFFER")
      BY <3>1, <3>4, <3>5 DEF Buffers
    <3> QED
      BY <3>6 DEF q
  <2>2. CASE pc[s] = "putout"
    BY <1>2, <1>5, <2>1, <2>2 DEF Sending
  <2>3. CASE pc[s] = "sent"
    BY <1>2, <1>5, <2>1, <2>3 DEF Sending, Sent, Prints, None
  <2> QED
    BY <1>5, <2>2, <2>3 DEF Sending
<1>7. /\ arrived'[s] # <<>> /\ arrived'[s][1].tag = Head(tomaster[s]).tag
      /\ \A t \in Slaves \ {s} : arrived'[t] = arrived[t] /\ (t \in posted' <=> t \in posted)
      /\ \E m : arrived'[s] = <<m>> /\ m.tag = Head(tomaster[s]).tag
  BY <1>2, <1>3 DEF Types
<1>8. SlaveOK(s)'
  <2>1. Finishing(s)' /\ (StillSends(s)' => Sending(s)') /\ job'[s] = J'
    BY <1>2, <1>5, <1>6, <1>7 DEF Finishing, StillSends
  <2> QED
    BY <1>2, <1>4, <2>1 DEF SlaveOK, AtStart, AtRead, AtWait, AtMerge, AtCollect, AtGive, AtLetGo
<1>9. ASSUME NEW t \in Slaves \ {s} PROVE SlaveOK(t)'
  <2>1. AtMerge(t) /\ Undisturbed(t)
    BY <1>1 DEF Protocol, SlaveOK
  <2>2. StillSends(t)' <=> StillSends(t)
    BY <1>7 DEF StillSends
  <2>3. AtMerge(t)'
    BY <1>2, <2>1, <2>2, Stay DEF Undisturbed, AtMerge, Finishing
  <2> QED
    BY <1>2, <1>4, <2>3 DEF SlaveOK, AtStart, AtRead, AtWait, AtCollect, AtGive, AtLetGo
<1>10. ArrivedOK'
  BY <1>6, <1>7 DEF Protocol, ArrivedOK
<1>11. MasterOK'
  BY <1>2, <1>4 DEF Protocol, MasterOK
<1> QED
  BY <1>8, <1>9, <1>10, <1>11 DEF Protocol

LEMMA CatchMessageKeepsProtocol ==
  ASSUME Types, Protocol, NEW s \in Slaves, CatchMessage(s)
  PROVE  Protocol'
<1>1. \A t \in Slaves \ {s} : Undisturbed(t)
  BY ExchangeFrame DEF Exchange
<1>2. MasterStays
  BY DEF CatchMessage, MasterStays, M, J, master, wait, receive
<1>3. /\ TagFrom(s) = "STDOUT" /\ job' = job /\ pc' = pc /\ toslave' = toslave /\ program' = program
      /\ infile' = infile /\ exprtodo' = exprtodo /\ tomaster'[s] = Tail(tomaster[s])
  BY DEF CatchMessage, Taken, slave, input, Types
<1>4. Prints(s) => Prints(s)'
  <2>1. tomaster[s] # None
    BY <1>3 DEF TagFrom, None
  <2> QED
    BY <1>3, <2>1, WordFacts DEF Prints
<1>5. AtKind(s, "terms")' <=> AtKind(s, "terms")
  BY <1>3 DEF AtKind, Job
<1>6. tomaster[s] # None
  BY <1>3 DEF TagFrom, None
<1>7. Working(s) => Working(s)'
  <2>1. Working(s) => pc[s] = "get" /\ Prints(s)
    BY <1>3, <1>6, WordFacts, Tags DEF Working, Channels, HasBucket, TagFrom, None
  <2> QED
    BY <1>3, <1>4, <1>5, <2>1 DEF Working
<1>8. Told(s) => Told(s)'
  BY <1>3, <1>4, <1>5, <1>6 DEF Told, HasBucket
<1>9. Sent(s) => Sent(s)'
  BY <1>3, <1>4 DEF Sent
<1>10. Asked(s) => Asked(s)'
  <2>1. Asked(s) => pc[s] = "expression" /\ Prints(s) /\ exprtodo[s] \in Nat
    BY <1>3, <1>6, WordFacts DEF Asked, Channels, TagFrom, None
  <2> QED
    BY <1>3, <1>4, <2>1 DEF Asked
<1>11. ~Fresh(s) /\ ~Sending(s) /\ ~Left(s) /\ ~Dismissed(s)
  BY <1>3, Tags
<1>12. InOrder(s)
  BY <1>3, <1>7, <1>8, <1>9, <1>10, <1>11 DEF InOrder
<1> QED
  BY <1>1, <1>2, <1>12, OthersOK, InOrderOK, MasterOKStays DEF Protocol, Slaves

\* A message with a bucket is all that is on the way to or from a slave.
LEMMA BucketOnItsWay ==
  ASSUME Types, NEW s \in Slaves, Channels(s, None, Word("READY")), Taken(s),
         NEW tag, NEW b \in Procs, NEW c \in Contents, ToSlave(s, Bucket(tag, b, c))
  PROVE  HasBucket(s, tag)'
<1>1. tomaster'[s] = None
  <2>1. tomaster[s] = Word("READY") /\ DOMAIN tomaster = Slaves
    BY DEF Channels, Types
  <2>2. tomaster'[s] = Tail(tomaster[s])
    BY <2>1 DEF Taken
  <2>3. QED
    BY <2>1, <2>2, WordFacts
<1>2. toslave'[s] = << Bucket(tag, b, c) >>
  BY BucketFacts DEF ToSlave, Types, Channels
<1> QED
  BY <1>1, <1>2 DEF HasBucket

\* Slave s has asked for terms, and gets a bucket.
LEMMA SendBucketTo ==
  ASSUME Types, Protocol, NEW s \in Slaves, SendBucket(s)
  PROVE  /\ M = "read" /\ job[s] = J /\ TagFrom(s) = "READY" /\ pc[s] = "receive"
         /\ infile[s] = <<>> /\ AtKind(s, "terms") /\ Channels(s, None, Word("READY"))
         /\ buff'[s] \in Procs /\ memory[buff[0]] \in Contents /\ pc' = pc
         /\ ToSlave(s, Bucket("TERM", buff'[s], memory[buff[0]]))
<1>1. M = "read" /\ TagFrom(s) \notin {"none", "STDOUT"}
  BY DEF SendBucket, M
<1>2. job[s] = J /\ Working(s)
  BY <1>1 DEF Protocol, SlaveOK, AtRead
<1>3. /\ TagFrom(s) = "READY" /\ pc[s] = "receive" /\ infile[s] = <<>> /\ AtKind(s, "terms")
      /\ Channels(s, None, Word("READY"))
  BY <1>1, <1>2, Tags
<1>4. pc' = pc /\ ToSlave(s, Bucket("TERM", buff'[s], memory[buff[0]]))
  BY <1>3 DEF SendBucket
<1>5. buff'[s] \in Procs /\ memory[buff[0]] \in Contents
  BY Processes, MasterBucketsKeepTypes DEF MasterBuckets, Types, Master
<1> QED
  BY <1>1, <1>2, <1>3, <1>4, <1>5

LEMMA SendBucketKeepsProtocol ==
  ASSUME Types, Protocol, NEW s \in Slaves, SendBucket(s)
  PROVE  Protocol'
<1>1. \A t \in Slaves \ {s} : Undisturbed(t)
  BY ExchangeFrame DEF Exchange
<1>2. /\ M = "read" /\ J' = J /\ program' = program /\ job' = job
      /\ posted' = posted /\ arrived' = arrived /\ infile' = infile
      /\ TagFrom(s) \notin {"none", "STDOUT"} /\ Taken(s)
  BY DEF SendBucket, M, J, receive, slave, input
<1>3. IsKind("terms") /\ IsKind("terms")'
  BY <1>2 DEF Protocol, MasterOK, IsKind
<1>4. /\ job[s] = J /\ pc[s] = "receive" /\ infile[s] = <<>> /\ AtKind(s, "terms")
      /\ Channels(s, None, Word("READY")) /\ pc' = pc
      /\ buff'[s] \in Procs /\ memory[buff[0]] \in Contents
      /\ ToSlave(s, Bucket("TERM", buff'[s], memory[buff[0]]))
  BY SendBucketTo
<1>6. M' = M
  BY <1>4 DEF M
<1>9. HasBucket(s, "TERM")'
  <2>1. PICK b \in Procs : b = buff'[s]
    BY <1>4
  <2>2. PICK c \in Contents : c = memory[buff[0]]
    BY <1>4
  <2> QED
    BY <1>2, <1>4, <2>1, <2>2, BucketOnItsWay
<1>10. Working(s)'
  BY <1>2, <1>4, <1>9 DEF Working, AtKind, Job
<1>11. SlaveOK(s)'
  BY <1>2, <1>3, <1>4, <1>6, <1>10 DEF SlaveOK, AtStart, AtRead, AtWait, AtMerge, AtCollect, AtGive,
                                  AtLetGo
<1>12. ASSUME NEW t \in Slaves \ {s} PROVE SlaveOK(t)'
  <2>1. AtRead(t) /\ Undisturbed(t)
    BY <1>1 DEF Protocol, SlaveOK
  <2>2. AtRead(t)'
    BY <1>2, <1>6, <2>1, Stay DEF Undisturbed, AtRead
  <2> QED
    BY <1>2, <1>6, <2>2 DEF SlaveOK, AtStart, AtWait, AtMerge, AtCollect, AtGive, AtLetGo
<1>13. MasterOK' /\ ArrivedOK'
  BY <1>2, <1>3, <1>6 DEF Protocol, MasterOK, ArrivedOK
<1> QED
  BY <1>11, <1>12, <1>13 DEF Protocol

\* Slave s has asked for terms, and is told to sort.
LEMMA SendLastTo ==
  ASSUME Types, Protocol, NEW s \in Slaves, SendLast(s)
  PROVE  /\ IsKind("terms") /\ job[s] = J /\ Working(s) /\ pc[s] = "receive"
         /\ infile[s] = <<>> /\ AtKind(s, "terms") /\ Channels(s, None, Word("READY"))
<1>2. M = "waitall" /\ s \notin has_sent /\ TagFrom(s) = "READY"
  BY DEF SendLast, Probed, M
<1>4. IsKind("terms")
  <2>1. SUFFICES ASSUME IsKind("expressions") PROVE FALSE
    BY <1>2 DEF Protocol, MasterOK
  <2>2. job[s] = J /\ (Fresh(s) \/ Asked(s))
    BY <1>2, <2>1 DEF Protocol, SlaveOK, AtLetGo
  <2>3. AtKind(s, "terms")
    BY <1>2, <2>2, Tags
  <2> QED
    BY <2>1, <2>2, <2>3, SameJob DEF IsKind
<1>6. job[s] = J /\ Working(s)
  <2>1. job[s] = J /\ (Working(s) \/ Told(s) \/ Sending(s))
    BY <1>2, <1>4 DEF Protocol, SlaveOK, AtWait
  <2> QED
    BY <1>2, <2>1, Tags
<1>7. /\ pc[s] = "receive" /\ infile[s] = <<>> /\ AtKind(s, "terms")
      /\ Channels(s, None, Word("READY"))
  BY <1>2, <1>6, Tags
<1> QED
  BY <1>4, <1>6, <1>7

LEMMA SendLastKeepsProtocol ==
  ASSUME Types, Protocol, NEW s \in Slaves, SendLast(s)
  PROVE  Protocol'
<1>1. \A t \in Slaves \ {s} : Undisturbed(t)
  BY ExchangeFrame DEF Exchange
<1>2. /\ M = "waitall" /\ J' = J /\ program' = program /\ job' = job /\ s \notin has_sent
      /\ posted' = posted /\ arrived' = arrived /\ infile' = infile
      /\ has_sent' = has_sent \cup {0}
      /\ TagFrom(s) = "READY" /\ Taken(s)
  BY DEF SendLast, Probed, M, J, receive, slave, input
<1>3. M' \in {"waitall", "waitsends"} /\ pc'[s] = pc[s]
  BY Processes DEF SendLast, Goto, M, Types
<1>4. /\ IsKind("terms") /\ job[s] = J /\ Working(s) /\ pc[s] = "receive"
      /\ infile[s] = <<>> /\ AtKind(s, "terms") /\ Channels(s, None, Word("READY"))
  BY SendLastTo
<1>5. IsKind("terms")' /\ ~IsKind("expressions")'
  BY <1>2, <1>4 DEF IsKind
<1>8. HasBucket(s, "ENDSORT")'
  <2>1. \E b \in Procs : ToSlave(s, Bucket("ENDSORT", b, memory'[b]))
    BY Processes DEF SendLast, Types, Master
  <2>2. PICK b \in Procs : ToSlave(s, Bucket("ENDSORT", b, memory'[b]))
    BY <2>1
  <2>3. memory'[b] \in Contents
    BY MasterBucketsKeepTypes DEF MasterBuckets, Types
  <2>4. PICK c \in Contents : c = memory'[b]
    BY <2>3
  <2> QED
    BY <1>2, <1>4, <2>2, <2>4, BucketOnItsWay
<1>9. Told(s)'
  BY <1>2, <1>3, <1>4, <1>8 DEF Told, AtKind, Job
<1>10. SlaveOK(s)'
  <2>1. AtWait(s)'
    BY <1>2, <1>4, <1>9, Processes DEF AtWait
  <2> QED
    BY <1>3, <1>5, <2>1 DEF SlaveOK, AtStart, AtRead, AtMerge, AtCollect, AtGive, AtLetGo
<1>11. ASSUME NEW t \in Slaves \ {s} PROVE SlaveOK(t)'
  <2>1. AtWait(t) /\ Undisturbed(t)
    BY <1>1 DEF Protocol, SlaveOK
  <2>2. AtWait(t)'
    BY <1>2, <1>4, <2>1, Stay, Processes DEF Undisturbed, AtWait
  <2> QED
    BY <1>3, <1>5, <2>2 DEF SlaveOK, AtStart, AtRead, AtMerge, AtCollect, AtGive, AtLetGo
<1>12. MasterOK' /\ ArrivedOK'
  BY <1>2, <1>3, <1>5 DEF Protocol, MasterOK, ArrivedOK
<1> QED
  BY <1>10, <1>11, <1>12 DEF Protocol

LEMMA RemoveOnly ==
  ASSUME NEW m, NEW i \in DOMAIN <<m>>
  PROVE  RemoveAt(<<m>>, i) = <<>>
<1>1. i = 1
  OBVIOUS
<1>2. SubSeq(<<m>>, 1, 0) = <<>> /\ SubSeq(<<m>>, 2, 1) = <<>> /\ <<>> \o <<>> = <<>>
  OBVIOUS
<1>3. RemoveAt(<<m>>, 1) = SubSeq(<<m>>, 1, 1 - 1) \o SubSeq(<<m>>, 1 + 1, Len(<<m>>))
  BY DEF RemoveAt
<1>4. 1 - 1 = 0 /\ 1 + 1 = 2 /\ Len(<<m>>) = 1
  OBVIOUS
<1> QED
  BY <1>1, <1>2, <1>3, <1>4

\* The statistics that are received are those of a slave that has sent them.
LEMMA CollectStatisticsFrom ==
  ASSUME Types, Protocol, NEW s \in Slaves, CollectStatistics(s)
  PROVE  job[s] = J + 1 /\ Left(s) /\ s \notin collected /\ tomaster'[s] = None
<1>2. M = "collect"
  BY DEF CollectStatistics, M
<1>3. PICK i \in DOMAIN tomaster[s] :
        /\ tomaster[s][i].tag = "ENDSORT"
        /\ tomaster' = [tomaster EXCEPT ![s] = RemoveAt(@, i)]
  BY DEF CollectStatistics
<1>5. job[s] = J + 1 /\ Left(s) /\ s \notin collected
  <2>1. \/ job[s] = J + 1 /\ Fresh(s) /\ s \in collected
        \/ Finishing(s) /\ s \notin collected
    BY <1>2 DEF Protocol, SlaveOK, AtCollect
  <2>2. ASSUME NEW t, tomaster[s] = Word(t) PROVE t = "ENDSORT"
    BY <1>3, <2>2 DEF Word
  <2>3. tomaster[s] # None
    BY <1>3 DEF None
  <2>4. ~Fresh(s)
    BY <2>2, <2>3 DEF Fresh, Channels
  <2>5. ~Sent(s)
    BY <2>2, <2>3 DEF Sent, Prints
  <2>6. ~Sending(s)
    <3>1. ASSUME NEW q, NEW last \in {"BUFFER", "ENDBUFFER"}, Buffers(q, last), i \in DOMAIN q
          PROVE  q[i].tag # "ENDSORT"
      <4>1. DOMAIN q = 1..Len(q)
        BY <3>1 DEF Buffers, IsSeq
      <4> QED
        BY <3>1, <4>1 DEF Buffers
    <3> QED
      BY <1>3, <3>1 DEF Sending
  <2> QED
    BY <2>1, <2>4, <2>5, <2>6 DEF Finishing
<1>6. tomaster[s] = <<[tag |-> "ENDSORT"]>>
  BY <1>5 DEF Left, Channels, Word
<1>7. tomaster'[s] = <<>>
  BY <1>3, <1>6, RemoveOnly DEF Types
<1> QED
  BY <1>5, <1>7 DEF None

LEMMA CollectStatisticsKeepsProtocol ==
  ASSUME Types, Protocol, NEW s \in Slaves, CollectStatistics(s)
  PROVE  Protocol'
<1>1. \A t \in Slaves \ {s} : Undisturbed(t)
  BY ExchangeFrame DEF Exchange
<1>2. /\ M = "collect" /\ program' = program /\ toslave' = toslave
      /\ posted' = posted /\ arrived' = arrived /\ collected' = collected \cup {s}
  BY DEF CollectStatistics, M, receive
<1>4. IsKind("terms") /\ posted = {}
  BY <1>2 DEF Protocol, MasterOK
<1>5. job[s] = J + 1 /\ Left(s) /\ s \notin collected /\ tomaster'[s] = None
  BY CollectStatisticsFrom
<1>6. Fresh(s)'
  <2>3. pc'[s] = "start"
    BY <1>5, Processes DEF CollectStatistics, Goto, Types, Left
  <2> QED
    BY <1>2, <1>5, <2>3 DEF Fresh, Left, Channels
<1>7. job'[s] = J + 1
  BY <1>5, Processes DEF CollectStatistics, Types
<1>8. CASE collected' # Slaves
  <2>1. M' = M /\ J' = J
    BY <1>8 DEF CollectStatistics, AllCollected, M, J
  <2>2. IsKind("terms")'
    BY <1>2, <1>4, <2>1 DEF IsKind
  <2>3. SlaveOK(s)'
    BY <1>2, <1>6, <1>7, <2>1 DEF SlaveOK, AtStart, AtRead, AtWait, AtMerge, AtCollect, AtGive, AtLetGo
  <2>4. ASSUME NEW t \in Slaves \ {s} PROVE SlaveOK(t)'
    <3>1. AtCollect(t) /\ Undisturbed(t)
      BY <1>1 DEF Protocol, SlaveOK
    <3>2. AtCollect(t)'
      BY <1>2, <2>1, <3>1, Stay DEF Undisturbed, AtCollect, Finishing
    <3> QED
      BY <1>2, <2>1, <3>2 DEF SlaveOK, AtStart, AtRead, AtWait, AtMerge, AtGive, AtLetGo
  <2>5. MasterOK' /\ ArrivedOK'
    BY <1>2, <1>4, <2>1, <2>2 DEF Protocol, MasterOK, ArrivedOK
  <2> QED
    BY <2>3, <2>4, <2>5 DEF Protocol
<1>9. CASE collected' = Slaves
  <2>1. M' = "start" /\ J' = J + 1
    BY <1>9, Processes DEF CollectStatistics, AllCollected, Types, Goto, M, J
  <2>2. ASSUME NEW t \in Slaves PROVE job'[t] = J' /\ Fresh(t)'
    <3>1. CASE t = s
      BY <1>6, <1>7, <2>1, <3>1
    <3>2. CASE t # s
      <4>1. t \in collected
        BY <1>2, <1>9, <3>2
      <4>2. job[t] = J + 1 /\ Fresh(t) /\ Undisturbed(t)
        BY <1>1, <1>2, <3>2, <4>1 DEF Protocol, SlaveOK, AtCollect
      <4> QED
        BY <2>1, <4>2, Stay DEF Undisturbed
    <3> QED
      BY <3>1, <3>2
  <2>3. \A t \in Slaves : SlaveOK(t)'
    BY <2>1, <2>2 DEF SlaveOK, AtStart, AtRead, AtWait, AtMerge, AtCollect, AtGive, AtLetGo
  <2>4. MasterOK' /\ ArrivedOK'
    BY <1>2, <1>4, <2>1 DEF Protocol, MasterOK, ArrivedOK
  <2> QED
    BY <2>3, <2>4 DEF Protocol
<1> QED
  BY <1>8, <1>9

\* Slave s has come for an expression, perhaps with the result of another.
LEMMA GiveExpressionTo ==
  ASSUME Types, Protocol, NEW s \in Slaves, GiveExpression(s)
  PROVE  /\ M = "give" /\ IsKind("expressions") /\ job[s] = J /\ pc[s] = "readmaster"
         /\ \/ TagFrom(s) = "EMPTY" /\ Channels(s, None, Word("EMPTY"))
            \/ TagFrom(s) = "DATA" /\ \E x \in Nat : Channels(s, None, Data(x))
<1>2. M = "give" /\ TagFrom(s) \notin {"none", "STDOUT"}
  BY DEF GiveExpression, M
<1>3. IsKind("expressions")
  BY <1>2 DEF Protocol, MasterOK
<1>4. job[s] = J /\ (Fresh(s) \/ Asked(s))
  BY <1>2 DEF Protocol, SlaveOK, AtGive
<1>5. Fresh(s) => ~(TagFrom(s) = "READY" /\ AtKind(s, "terms"))
  BY <1>3, <1>4, SameJob DEF IsKind
<1>6. pc[s] = "readmaster" /\ \/ TagFrom(s) = "EMPTY" /\ Channels(s, None, Word("EMPTY"))
                              \/ TagFrom(s) = "DATA" /\ \E x \in Nat : Channels(s, None, Data(x))
  BY <1>2, <1>4, <1>5, Tags
<1> QED
  BY <1>2, <1>3, <1>4, <1>6

LEMMA GiveExpressionKeepsProtocol ==
  ASSUME Types, Protocol, NEW s \in Slaves, GiveExpression(s)
  PROVE  Protocol'
<1>1. \A t \in Slaves \ {s} : Undisturbed(t)
  BY ExchangeFrame DEF Exchange
<1>2. /\ M = "give" /\ M' = M /\ J' = J /\ program' = program /\ job' = job /\ pc' = pc
      /\ posted' = posted /\ arrived' = arrived
      /\ TagFrom(s) \notin {"none", "STDOUT"} /\ Taken(s)
      /\ ToSlave(s, [tag |-> "DATA", expr |-> ninterms[Master] + 1])
  BY DEF GiveExpression, M, J, receive
<1>3. IsKind("expressions") /\ IsKind("expressions")'
  BY <1>2 DEF Protocol, MasterOK, IsKind
<1>4. job[s] = J /\ pc[s] = "readmaster"
  BY GiveExpressionTo
<1>5. toslave[s] = None /\ Tail(tomaster[s]) = None
  <2>1. Channels(s, None, Word("EMPTY")) \/ \E x \in Nat : Channels(s, None, Data(x))
    BY GiveExpressionTo
  <2> QED
    BY <2>1, WordFacts DEF Channels
<1>6. Asked(s)'
  <2>1. tomaster'[s] = None /\ toslave'[s] = Data(ninterms[Master] + 1)
    BY <1>2, <1>5, WordFacts DEF Types, Taken, ToSlave
  <2>2. ninterms[Master] + 1 \in Nat
    BY DEF Types
  <2>3. \E x \in Nat : Channels(s, Data(x), None)'
    BY <2>1, <2>2 DEF Channels
  <2> QED
    BY <1>2, <1>4, <2>3 DEF Asked
<1>7. SlaveOK(s)'
  BY <1>2, <1>4, <1>6 DEF SlaveOK, AtStart, AtRead, AtWait, AtMerge, AtCollect, AtGive, AtLetGo
<1>8. ASSUME NEW t \in Slaves \ {s} PROVE SlaveOK(t)'
  <2>1. AtGive(t) /\ Undisturbed(t)
    BY <1>1 DEF Protocol, SlaveOK
  <2>2. AtGive(t)'
    BY <1>2, <2>1, Stay DEF Undisturbed, AtGive
  <2> QED
    BY <1>2, <2>2 DEF SlaveOK, AtStart, AtRead, AtWait, AtMerge, AtCollect, AtLetGo
<1>9. MasterOK' /\ ArrivedOK'
  BY <1>2, <1>3 DEF Protocol, MasterOK, ArrivedOK
<1> QED
  BY <1>7, <1>8, <1>9 DEF Protocol

\* Slave s has come for an expression, and is told that there are none left.
LEMMA LetGoTo ==
  ASSUME Types, Protocol, NEW s \in Slaves, LetGo(s)
  PROVE  /\ M = "waitall" /\ IsKind("expressions") /\ job[s] = J /\ pc[s] = "readmaster"
         /\ \/ TagFrom(s) = "EMPTY" /\ Channels(s, None, Word("EMPTY"))
            \/ TagFrom(s) = "DATA" /\ \E x \in Nat : Channels(s, None, Data(x))
<1>2. M = "waitall" /\ s \notin has_sent /\ TagFrom(s) \in {"DATA", "EMPTY"}
  BY DEF LetGo, Probed, M
<1>3. IsKind("expressions")
  <2>1. SUFFICES ASSUME IsKind("terms") PROVE FALSE
    BY <1>2 DEF Protocol, MasterOK
  <2>2. Working(s) \/ Told(s) \/ Sending(s)
    BY <1>2, <2>1 DEF Protocol, SlaveOK, AtWait
  <2> QED
    BY <1>2, <2>2, Tags
<1>4. job[s] = J /\ (Fresh(s) \/ Asked(s))
  BY <1>2, <1>3 DEF Protocol, SlaveOK, AtLetGo
<1>5. pc[s] = "readmaster" /\ \/ TagFrom(s) = "EMPTY" /\ Channels(s, None, Word("EMPTY"))
                              \/ TagFrom(s) = "DATA" /\ \E x \in Nat : Channels(s, None, Data(x))
  BY <1>2, <1>4, Tags
<1> QED
  BY <1>2, <1>3, <1>4, <1>5

LEMMA LetGoKeepsProtocol ==
  ASSUME Types, Protocol, NEW s \in Slaves, LetGo(s)
  PROVE  Protocol'
<1>1. \A t \in Slaves \ {s} : Undisturbed(t)
  BY ExchangeFrame DEF Exchange
<1>2. /\ M = "waitall" /\ M' = M /\ J' = J /\ program' = program /\ job' = job /\ pc' = pc
      /\ posted' = posted /\ arrived' = arrived /\ s \notin has_sent
      /\ has_sent' = has_sent \cup {s}
      /\ TagFrom(s) \in {"DATA", "EMPTY"} /\ Taken(s) /\ ToSlave(s, [tag |-> "EMPTY"])
  BY DEF LetGo, Probed, M, J, receive
<1>3. IsKind("expressions") /\ job[s] = J /\ pc[s] = "readmaster"
  BY LetGoTo
<1>4. IsKind("expressions")' /\ ~IsKind("terms")'
  BY <1>2, <1>3 DEF IsKind
<1>6. toslave[s] = None /\ Tail(tomaster[s]) = None
  <2>1. Channels(s, None, Word("EMPTY")) \/ \E x \in Nat : Channels(s, None, Data(x))
    BY LetGoTo
  <2> QED
    BY <2>1, WordFacts DEF Channels
<1>7. Dismissed(s)'
  <2>1. tomaster'[s] = None /\ toslave'[s] = Word("EMPTY")
    BY <1>2, <1>6, WordFacts DEF Types, Taken, ToSlave
  <2> QED
    BY <1>2, <1>3, <2>1 DEF Dismissed, Channels
<1>8. SlaveOK(s)'
  BY <1>2, <1>3, <1>4, <1>7 DEF SlaveOK, AtStart, AtRead, AtWait, AtMerge, AtCollect, AtGive, AtLetGo
<1>9. ASSUME NEW t \in Slaves \ {s} PROVE SlaveOK(t)'
  <2>1. AtLetGo(t) /\ Undisturbed(t)
    BY <1>1 DEF Protocol, SlaveOK
  <2>2. AtLetGo(t)'
    BY <1>2, <1>3, <2>1, Stay DEF Undisturbed, AtLetGo
  <2> QED
    BY <1>2, <1>4, <2>2 DEF SlaveOK, AtStart, AtRead, AtWait, AtMerge, AtCollect, AtGive
<1>10. MasterOK' /\ ArrivedOK'
  BY <1>2, <1>4 DEF Protocol, MasterOK, ArrivedOK
<1> QED
  BY <1>8, <1>9, <1>10 DEF Protocol

-----------------------------------------------------------------------------
(* The order of the messages is kept *)

LEMMA InitProtocol ==
  ASSUME Init
  PROVE  Protocol
<1>1. M = "start" /\ J = 1 /\ posted = {}
  BY Processes DEF Init, M, J
<1>2. \A t \in Slaves : job[t] = J /\ Fresh(t)
  BY <1>1, Processes DEF Init, Fresh, Channels, None
<1>3. \A t \in Slaves : SlaveOK(t)
  BY <1>1, <1>2 DEF SlaveOK, AtStart, AtRead, AtWait, AtMerge, AtCollect, AtGive, AtLetGo
<1>4. MasterOK /\ ArrivedOK
  BY <1>1 DEF MasterOK, ArrivedOK, Init
<1> QED
  BY <1>3, <1>4 DEF Protocol

LEMMA NextKeepsProtocol ==
  ASSUME Types, Protocol, Next
  PROVE  Types' /\ Protocol'
<1>1. CASE \E s \in Slaves : SlaveStep(s) \/ PrintMessage(s)
  BY <1>1, SlaveKeepsTypes, SlaveKeepsProtocol
<1>2. CASE \E s \in Slaves : Deliver(s)
  BY <1>2, SlaveKeepsTypes, DeliverKeepsProtocol
<1>3. CASE MasterStep
  <2>1. PICK s \in Slaves : MasterElse(s) \/ MasterBuckets(s)
    BY <1>3, MasterSteps
  <2>2. ~InSsend
    BY <1>3, MasterSteps
  <2>3. Types'
    BY <2>1, MasterElseKeepsTypes, MasterBucketsKeepTypes
  <2>0. CASE \/ ReadTerm \/ NothingFrom(s) \/ GetLoserBelow \/ PutInNothing \/ AddTerms
             \/ CancelTerms \/ PutIn(s) \/ (ReturnLoser /\ pc' = pc)
    BY <2>0, <2>3, MasterWaits
  <2>4. CASE MasterElse(s)
    BY <2>0, <2>2, <2>3, <2>4, EndOfTermsKeepsProtocol, WaitSendsKeepsProtocol,
       ReturnLoserKeepsProtocol, CatchAllKeepsProtocol, StartExpressionsKeepsProtocol,
       EndOfExpressionsKeepsProtocol, EndExpressionsKeepsProtocol, HasOutputKeepsProtocol,
       WaitRbufKeepsProtocol, CatchMessageKeepsProtocol, CollectStatisticsKeepsProtocol,
       GiveExpressionKeepsProtocol, LetGoKeepsProtocol DEF MasterElse
  <2>5. CASE MasterBuckets(s)
    BY <2>0, <2>3, <2>5, StartTermsKeepsProtocol, InitTreeKeepsProtocol,
       SendBucketKeepsProtocol, SendLastKeepsProtocol DEF MasterBuckets
  <2> QED
    BY <2>1, <2>3, <2>4, <2>5
<1> QED
  BY <1>1, <1>2, <1>3 DEF Next

\* The order of the messages alone tells the master and the slaves apart what each of them is
\* about, for every number of slaves and every program: see Protocol.
THEOREM ProtocolInvariant == Spec => [](Types /\ Protocol)
<1>1. Init => Types /\ Protocol
  BY InitTypes, InitProtocol
<1>2. Types /\ Protocol /\ UNCHANGED vars => (Types /\ Protocol)'
  <2>1. SUFFICES ASSUME Types, Protocol, UNCHANGED vars PROVE (Types /\ Protocol)'
    OBVIOUS
  <2>2. Types'
    BY <2>1 DEF Types, vars, master, send, wait, ip, receive, slave, input, result
  <2>3. MasterStays /\ \A t \in Slaves : Undisturbed(t)
    BY <2>1 DEF MasterStays, Undisturbed, M, J, vars, master, send, wait, ip, receive, slave, input,
                result
  <2> QED
    BY <2>1, <2>2, <2>3, NothingHappens
<1>3. Types /\ Protocol /\ [Next]_vars => (Types /\ Protocol)'
  BY <1>2, NextKeepsProtocol
<1> QED
  BY <1>1, <1>3, PTL DEF Spec

LEMMA SomeWhere ==
  ASSUME Protocol, NEW s \in Slaves
  PROVE  \/ Fresh(s) \/ Working(s) \/ Told(s) \/ Sending(s) \/ Sent(s) \/ Left(s) \/ Asked(s)
         \/ Dismissed(s)
BY DEF Protocol, MasterOK, SlaveOK, AtStart, AtRead, AtWait, AtMerge, AtCollect, AtGive, AtLetGo,
       Finishing

\* Nobody receives a message that is meant for another place (NothingUnexpected), although
\* PF_PutIn and PF_Wait4Slave take a message of any tag.
THEOREM NothingIsUnexpected == Spec => []NothingUnexpected
<1>1. ASSUME Types, Protocol PROVE NothingUnexpected
  <2> USE Types, Protocol
  <2>1. ASSUME NEW t PROVE /\ TagsIn(Word(t)) = {t}
                           /\ TagsIn(None) = {}
                           /\ \A m : m.tag = t => TagsIn(<<m>>) = {t}
    BY DEF TagsIn, Word, None
  <2>2. QuietBetweenJobs
    <3>1. SUFFICES ASSUME pc[Master] = "start" PROVE QuietBetweenJobs
      BY DEF QuietBetweenJobs
    <3>2. posted = {} /\ \A s \in Slaves : job[s] = J /\ Fresh(s)
      BY <3>1 DEF Protocol, MasterOK, SlaveOK, AtStart, M
    <3>3. ASSUME NEW s \in Slaves
          PROVE TagsIn(tomaster[s]) \cap {"BUFFER", "ENDBUFFER", "ENDSORT", "DATA"} = {}
      <4>1. \/ tomaster[s] = None \/ tomaster[s] = Word("READY") \/ tomaster[s] = Word("EMPTY")
        BY <3>2 DEF Fresh, Channels
      <4> QED
        BY <2>1, <4>1
    <3> QED
      BY <3>2, <3>3 DEF QuietBetweenJobs, J
  <2>3. pc[Master] # "error"
    BY DEF Protocol, MasterOK, M
  <2>4. ASSUME NEW s \in Slaves PROVE TagsIn(arrived[s]) \subseteq {"BUFFER", "ENDBUFFER"}
    <3>1. CASE arrived[s] = <<>>
      BY <2>1, <3>1 DEF None
    <3>2. CASE \E m : arrived[s] = <<m>> /\ m.tag \in {"BUFFER", "ENDBUFFER"}
      <4>1. PICK m : arrived[s] = <<m>> /\ m.tag \in {"BUFFER", "ENDBUFFER"}
        BY <3>2
      <4>2. TagsIn(<<m>>) = {m.tag}
        BY <2>1
      <4> QED
        BY <4>1, <4>2
    <3> QED
      BY <3>1, <3>2 DEF Protocol, ArrivedOK
  <2>5. ASSUME NEW s \in Slaves, pc[s] = "receive"
        PROVE  TagsIn(toslave[s]) \subseteq {"TERM", "ENDSORT"}
    <3>1. toslave[s] = None \/ HasBucket(s, "TERM") \/ HasBucket(s, "ENDSORT")
      BY <2>5, SomeWhere DEF Fresh, Working, Told, Sending, Sent, Left, Asked, Dismissed, Channels
    <3>2. ASSUME NEW t, HasBucket(s, t) PROVE TagsIn(toslave[s]) = {t}
      <4>1. PICK b \in Procs, c \in Contents : toslave[s] = << Bucket(t, b, c) >>
        BY <3>2 DEF HasBucket
      <4> QED
        BY <2>1, <4>1, BucketFacts
    <3> QED
      BY <2>1, <3>1, <3>2
  <2>6. ASSUME NEW s \in Slaves, pc[s] = "readmaster"
        PROVE  TagsIn(toslave[s]) \subseteq {"DATA", "EMPTY"}
    <3>1. toslave[s] = None \/ toslave[s] = Word("EMPTY") \/ \E x \in Nat : toslave[s] = Data(x)
      BY <2>6, SomeWhere DEF Fresh, Working, Told, Sending, Sent, Left, Asked, Dismissed, Channels
    <3>2. \A x : TagsIn(Data(x)) = {"DATA"}
      BY DEF TagsIn, Data
    <3> QED
      BY <2>1, <3>1, <3>2
  <2> QED
    BY <2>2, <2>3, <2>4, <2>5, <2>6 DEF NothingUnexpected
<1> QED
  BY <1>1, ProtocolInvariant, PTL

-----------------------------------------------------------------------------
(* The memory of the buckets *)

SentBucket(s) == toslave[s] # None /\ toslave[s][1].tag \in {"TERM", "ENDSORT"}

\* A bucket on its way is in the memory of the slave's own buffer, or, when it is the last
\* one, of the buffer that was being filled: see ExchangeBuffers.
BucketIntact(s) ==
  SentBucket(s) =>
    /\ memory[toslave[s][1].buf] = toslave[s][1].content
    /\ toslave[s][1].buf = buff[s] \/ (toslave[s][1].buf = buff[0] /\ toslave[s][1].tag = "ENDSORT")
BuffersApart == \A p, q \in Procs : buff[p] = buff[q] => p = q
MemoryOK == BuffersApart /\ \A s \in Slaves : BucketIntact(s)

\* Never more than one message is on the way to a slave.
LEMMA OneOnTheWay ==
  ASSUME Protocol, NEW s \in Slaves
  PROVE  /\ toslave[s] # None => Tail(toslave[s]) = None
         /\ SentBucket(s) => /\ pc[s] = "receive" /\ infile[s] = <<>> /\ AtKind(s, "terms")
                             /\ HasBucket(s, "TERM") \/ HasBucket(s, "ENDSORT")
<1>1. ASSUME NEW t, HasBucket(s, t) PROVE Tail(toslave[s]) = None
  BY <1>1, BucketFacts DEF HasBucket
<1>2. ASSUME toslave[s] # None
      PROVE  \/ /\ pc[s] = "receive" /\ infile[s] = <<>> /\ AtKind(s, "terms")
                /\ HasBucket(s, "TERM") \/ HasBucket(s, "ENDSORT")
             \/ toslave[s] = Word("EMPTY")
             \/ \E x \in Nat : toslave[s] = Data(x)
  BY <1>2, SomeWhere DEF Fresh, Working, Told, Sending, Sent, Left, Asked, Dismissed, Channels,
                         Prints
<1>3. ASSUME toslave[s] # None PROVE Tail(toslave[s]) = None
  BY <1>1, <1>2, <1>3, WordFacts
<1>4. ASSUME SentBucket(s)
      PROVE  /\ pc[s] = "receive" /\ infile[s] = <<>> /\ AtKind(s, "terms")
             /\ HasBucket(s, "TERM") \/ HasBucket(s, "ENDSORT")
  <2>1. toslave[s] # Word("EMPTY") /\ \A x \in Nat : toslave[s] # Data(x)
    BY <1>4, WordFacts DEF SentBucket
  <2> QED
    BY <1>2, <1>4, <2>1 DEF SentBucket
<1> QED
  BY <1>3, <1>4

LEMMA NoBucket ==
  ASSUME NEW t
  PROVE  /\ toslave'[t] = None => ~SentBucket(t)'
         /\ toslave'[t] = Word("EMPTY") => ~SentBucket(t)'
         /\ \A x : toslave'[t] = Data(x) => ~SentBucket(t)'
BY WordFacts DEF SentBucket

\* The steps that leave the memory of the buckets alone.
LEMMA MemoryFrame ==
  ASSUME Types, Protocol, NEW s \in Slaves,
         SlaveStep(s) \/ PrintMessage(s) \/ Deliver(s) \/ MasterElse(s)
  PROVE  /\ memory' = memory /\ buff' = buff
         /\ \A t \in Slaves : toslave'[t] = toslave[t] \/ ~SentBucket(t)'
<1>1. memory' = memory /\ buff' = buff
  <2> USE DEF master, send
  <2>1. CASE SlaveStep(s)
    BY <2>1 DEF SlaveStep, StartSlave, AskForTerms, ReceiveTerms, Generate, SlaveEndSort,
       SendBuffer, SendEndBuffer, SendStatistics, ReadMaster, DoOneExpr
  <2>2. CASE PrintMessage(s) \/ Deliver(s)
    BY <2>2 DEF PrintMessage, Deliver
  <2>3. CASE MasterElse(s)
    BY <2>3 DEF MasterElse, EndOfTerms, WaitSends, GetLoserBelow, PutInNothing, AddTerms,
       CancelTerms, ReturnLoser, CatchErrorMessagesForAll, StartExpressions, EndOfExpressions,
       EndExpressions, NothingFrom, HasOutput, WaitRbuf, PutIn, CollectStatistics, CatchMessage,
       GiveExpression, LetGo
  <2> QED
    BY <2>1, <2>2, <2>3
<1>2. CASE GiveExpression(s)
  <2>1. toslave[s] = None
    BY <1>2, GiveExpressionTo DEF Channels
  <2>2. toslave'[s] = Data(ninterms[Master] + 1)
    BY <1>2, <2>1, WordFacts DEF GiveExpression, ToSlave, Types
  <2>3. \A t \in Slaves \ {s} : toslave'[t] = toslave[t]
    BY <1>2 DEF GiveExpression, ToSlave, Types
  <2> QED
    BY <1>1, <2>2, <2>3, NoBucket
<1>3. CASE LetGo(s)
  <2>1. toslave[s] = None
    BY <1>3, LetGoTo DEF Channels
  <2>2. toslave'[s] = Word("EMPTY")
    BY <1>3, <2>1, WordFacts DEF LetGo, ToSlave, Types
  <2>3. \A t \in Slaves \ {s} : toslave'[t] = toslave[t]
    BY <1>3 DEF LetGo, ToSlave, Types
  <2> QED
    BY <1>1, <2>2, <2>3, NoBucket
<1>4. CASE ReceiveTerms(s) \/ ReadMaster(s)
  <2>1. toslave[s] # None /\ toslave' = [toslave EXCEPT ![s] = Tail(@)]
    BY <1>4 DEF ReceiveTerms, ReadMaster, None
  <2>2. toslave'[s] = None
    BY <2>1, OneOnTheWay DEF Types
  <2> QED
    BY <1>1, <2>1, <2>2, NoBucket DEF Types
<1>5. CASE ~GiveExpression(s) /\ ~LetGo(s) /\ ~ReceiveTerms(s) /\ ~ReadMaster(s)
  <2>1. CASE SlaveStep(s)
    BY <1>1, <1>5, <2>1 DEF SlaveStep, StartSlave, AskForTerms, Generate, SlaveEndSort,
       SendBuffer, SendEndBuffer, SendStatistics, DoOneExpr
  <2>2. CASE PrintMessage(s) \/ Deliver(s)
    BY <1>1, <2>2 DEF PrintMessage, Deliver
  <2>3. CASE MasterElse(s)
    BY <1>1, <1>5, <2>3 DEF MasterElse, EndOfTerms, WaitSends, GetLoserBelow, PutInNothing, AddTerms,
       CancelTerms, ReturnLoser, CatchErrorMessagesForAll, StartExpressions, EndOfExpressions,
       EndExpressions, NothingFrom, HasOutput, WaitRbuf, PutIn, CollectStatistics, CatchMessage
  <2> QED
    BY <2>1, <2>2, <2>3
<1> QED
  BY <1>2, <1>3, <1>4, <1>5

LEMMA BucketStays ==
  ASSUME NEW t \in Slaves, BucketIntact(t), toslave'[t] = toslave[t],
         buff'[t] = buff[t], buff'[0] = buff[0],
         SentBucket(t) => memory'[toslave[t][1].buf] = memory[toslave[t][1].buf]
  PROVE  BucketIntact(t)'
BY DEF BucketIntact, SentBucket

LEMMA MemoryStays ==
  ASSUME MemoryOK, memory' = memory, buff' = buff,
         \A t \in Slaves : toslave'[t] = toslave[t] \/ ~SentBucket(t)'
  PROVE  MemoryOK'
<1>1. BuffersApart'
  BY DEF MemoryOK, BuffersApart
<1>2. ASSUME NEW t \in Slaves PROVE BucketIntact(t)'
  <2>1. CASE toslave'[t] = toslave[t]
    BY <2>1, BucketStays DEF MemoryOK
  <2>2. CASE ~SentBucket(t)'
    BY <2>2 DEF BucketIntact
  <2> QED
    BY <2>1, <2>2
<1> QED
  BY <1>1, <1>2 DEF MemoryOK

LEMMA BucketsKeepMemory ==
  ASSUME Types, Protocol, MemoryOK, NEW s \in Slaves, MasterBuckets(s)
  PROVE  MemoryOK'
<1>1. CASE StartTerms
  <2>1. \A t \in Slaves : Fresh(t)
    BY <1>1 DEF StartTerms, Protocol, SlaveOK, AtStart, M
  <2>2. \A t \in Slaves : toslave'[t] = None
    BY <1>1, <2>1 DEF StartTerms, Fresh, Channels
  <2>3. BuffersApart'
    BY <1>1 DEF StartTerms, BuffersApart, MemoryOK
  <2> QED
    BY <2>2, <2>3, NoBucket DEF MemoryOK, BucketIntact
<1>2. CASE ReadTerm
  <2>1. /\ M = "read" /\ buff' = buff /\ toslave' = toslave
        /\ \A b \in Procs : b # buff[0] => memory'[b] = memory[b]
    BY <1>2 DEF ReadTerm, M, Types
  <2>2. ASSUME NEW t \in Slaves PROVE BucketIntact(t)'
    <3>1. Working(t)
      BY <2>1 DEF Protocol, SlaveOK, AtRead
    <3>2. SentBucket(t) => toslave[t][1].tag = "TERM"
      BY <3>1, BucketFacts, OneMessage DEF Working, Channels, Prints, HasBucket, SentBucket
    <3>3. SentBucket(t) => toslave[t][1].buf = buff[t]
      BY <3>2 DEF MemoryOK, BucketIntact
    <3>4. buff[t] # buff[0] /\ buff[t] \in Procs
      BY Processes DEF MemoryOK, BuffersApart, Types, Master
    <3> QED
      BY <2>1, <3>3, <3>4, BucketStays DEF MemoryOK
  <2> QED
    BY <2>1, <2>2 DEF MemoryOK, BuffersApart
<1>3. CASE SendBucket(s)
  <2>1. /\ M = "read" /\ Channels(s, None, Word("READY"))
        /\ ToSlave(s, Bucket("TERM", buff'[s], memory[buff[0]])) /\ TagFrom(s) = "READY"
    BY <1>3, SendBucketTo
  <2>2. /\ buff'[0] = buff[s] /\ buff'[s] = buff[0]
        /\ \A t \in Procs : t # 0 /\ t # s => buff'[t] = buff[t]
    BY <1>3, <2>1, Processes DEF SendBucket, ExchangeBuffers, Types, Master
  <2>3. \A b \in Procs : b # buff'[0] => memory'[b] = memory[b]
    BY <1>3, <2>1 DEF SendBucket, Types
  <2>4. toslave'[s] = << Bucket("TERM", buff'[s], memory[buff[0]]) >>
    BY <2>1, BucketFacts DEF Channels, ToSlave, Types
  <2>5. buff[0] \in Procs /\ buff[s] \in Procs /\ buff[0] # buff[s]
    BY Processes DEF MemoryOK, BuffersApart, Types, Master
  <2>6. BucketIntact(s)'
    <3>1. toslave'[s][1] = Bucket("TERM", buff'[s], memory[buff[0]])
      BY <2>4, OneMessage
    <3>2. toslave'[s][1].buf = buff'[s] /\ toslave'[s][1].content = memory[buff[0]]
      BY <3>1, BucketFacts
    <3> QED
      BY <2>2, <2>3, <2>5, <3>2 DEF BucketIntact
  <2>7. ASSUME NEW t \in Slaves \ {s} PROVE BucketIntact(t)'
    <3>1. Working(t)
      BY <2>1 DEF Protocol, SlaveOK, AtRead
    <3>2. SentBucket(t) => toslave[t][1].tag = "TERM"
      BY <3>1, BucketFacts, OneMessage DEF Working, Channels, Prints, HasBucket, SentBucket
    <3>3. SentBucket(t) => toslave[t][1].buf = buff[t]
      BY <3>2 DEF MemoryOK, BucketIntact
    <3>4. buff[t] # buff[s] /\ buff[t] \in Procs
      BY Processes DEF MemoryOK, BuffersApart, Types
    <3>5. buff'[t] = buff[t] /\ toslave'[t] = toslave[t]
      BY <2>1, <2>2, Processes DEF ToSlave, Types
    <3>6. SentBucket(t)' <=> SentBucket(t)
      BY <3>5 DEF SentBucket
    <3> QED
      BY <2>2, <2>3, <3>3, <3>4, <3>5, <3>6 DEF MemoryOK, BucketIntact
  <2>8. BuffersApart'
    <3>1. ASSUME NEW p \in Procs, NEW q \in Procs, buff'[p] = buff'[q] PROVE p = q
      <4>1. \A i, k \in Procs : buff[i] = buff[k] => i = k
        BY DEF MemoryOK, BuffersApart
      <4>2. 0 \in Procs /\ s \in Procs
        BY Processes DEF Master
      <4>3. CASE p = 0
        BY <2>2, <3>1, <4>1, <4>2, <4>3
      <4>4. CASE p = s
        BY <2>2, <3>1, <4>1, <4>2, <4>4
      <4>5. CASE p # 0 /\ p # s
        BY <2>2, <3>1, <4>1, <4>2, <4>5
      <4> QED
        BY <4>3, <4>4, <4>5
    <3> QED
      BY <3>1 DEF BuffersApart
  <2> QED
    BY <2>6, <2>7, <2>8 DEF MemoryOK
<1>4. CASE SendLast(s)
  <2> DEFINE b == IF LastBucket THEN buff[0] ELSE buff[s]
  <2>1. /\ Channels(s, None, Word("READY")) /\ buff' = buff
        /\ ToSlave(s, Bucket("ENDSORT", b, memory'[b]))
    BY <1>4, SendLastTo DEF SendLast
  <2>2. \A c \in Procs : c # buff[s] => memory'[c] = memory[c]
    BY <1>4 DEF SendLast, Types
  <2>3. b \in {buff[0], buff[s]}
    OBVIOUS
  <2> HIDE DEF b
  <2>4. toslave'[s] = << Bucket("ENDSORT", b, memory'[b]) >>
    BY <2>1, BucketFacts DEF Channels, ToSlave, Types
  <2>5. BucketIntact(s)'
    <3>1. toslave'[s][1] = Bucket("ENDSORT", b, memory'[b])
      BY <2>4, OneMessage
    <3>2. toslave'[s][1].buf = b /\ toslave'[s][1].content = memory'[b]
          /\ toslave'[s][1].tag = "ENDSORT"
      BY <3>1, BucketFacts
    <3> QED
      BY <2>1, <2>3, <3>2 DEF BucketIntact
  <2>6. ASSUME NEW t \in Slaves \ {s} PROVE BucketIntact(t)'
    <3>1. buff[t] # buff[s] /\ buff[t] \in Procs /\ buff[0] # buff[s] /\ buff[0] \in Procs
      BY Processes DEF MemoryOK, BuffersApart, Types, Master
    <3>2. toslave'[t] = toslave[t]
      BY <2>1 DEF ToSlave, Types
    <3>3. SentBucket(t) => memory'[toslave[t][1].buf] = memory[toslave[t][1].buf]
      BY <2>2, <3>1 DEF MemoryOK, BucketIntact
    <3> QED
      BY <2>1, <3>2, <3>3, BucketStays DEF MemoryOK
  <2> QED
    BY <2>1, <2>5, <2>6 DEF MemoryOK, BuffersApart
<1>5. CASE InitTree
  <2>1. \A t \in Slaves : t \in has_sent
    BY <1>5 DEF InitTree, AllHaveSent
  <2>2. M = "waitall" /\ IsKind("terms")
    BY <1>5 DEF InitTree, M, J, IsKind, Job, Protocol, MasterOK
  <2>3. \A t \in Slaves : Sending(t)
    BY <2>1, <2>2 DEF Protocol, SlaveOK, AtWait
  <2>4. \A t \in Slaves : toslave'[t] = None
    BY <1>5, <2>3 DEF InitTree, Sending
  <2> QED
    BY <1>5, <2>4, NoBucket DEF InitTree, MemoryOK, BucketIntact, BuffersApart
<1> QED
  BY <1>1, <1>2, <1>3, <1>4, <1>5 DEF MasterBuckets

-----------------------------------------------------------------------------
(* The send buffers of the slaves *)

BufferTypes ==
  /\ active \in [Slaves -> 0..NumSBufs - 1] /\ DOMAIN sbuf = Slaves
  /\ \A s \in Slaves : DOMAIN sbuf[s] = 0..NumSBufs - 1
SBufIntact(s) ==
  \A i \in DOMAIN tomaster[s] :
    "buf" \in DOMAIN tomaster[s][i] =>
      /\ tomaster[s][i].buf \in 0..NumSBufs - 1
      /\ sbuf[s][tomaster[s][i].buf] = tomaster[s][i].content
SBufOK == BufferTypes /\ \A s \in Slaves : SBufIntact(s)

LEMMA SBufStays ==
  ASSUME NEW t \in Slaves, SBufIntact(t), tomaster'[t] = tomaster[t], sbuf'[t] = sbuf[t]
  PROVE  SBufIntact(t)'
BY DEF SBufIntact

LEMMA NoSBuf ==
  ASSUME NEW t \in Slaves,
         \/ tomaster'[t] = None
         \/ \E w : tomaster'[t] = Word(w)
         \/ \E x : tomaster'[t] = Data(x)
  PROVE  SBufIntact(t)'
<1>1. CASE tomaster'[t] = None
  BY <1>1 DEF SBufIntact, None
<1>2. CASE \E w : tomaster'[t] = Word(w)
  BY <1>2 DEF SBufIntact, Word
<1>3. CASE \E x : tomaster'[t] = Data(x)
  BY <1>3 DEF SBufIntact, Data
<1> QED
  BY <1>1, <1>2, <1>3

\* All messages of a slave but those with its terms are alone on their way.
LEMMA OnlyMessage ==
  ASSUME Protocol, NEW s \in Slaves, TagFrom(s) \notin {"none", "BUFFER", "ENDBUFFER"}
  PROVE  Tail(tomaster[s]) = None
<1>1. ~Sending(s) /\ tomaster[s] # None
  BY Tags DEF TagFrom, None
<1>2. (\E w : tomaster[s] = Word(w)) \/ (\E x : tomaster[s] = Data(x))
  BY <1>1, SomeWhere DEF Fresh, Working, Told, Sent, Left, Asked, Dismissed, Channels, Prints,
                         HasBucket
<1> QED
  BY <1>2, WordFacts

LEMMA SendKeepsBuffers ==
  ASSUME Types, Protocol, SBufOK, NEW s \in Slaves, SendBuffer(s) \/ SendEndBuffer(s)
  PROVE  SBufOK'
<1>1. pc[s] = "putout" /\ MayFill(s)
  BY DEF SendBuffer, SendEndBuffer
<1>2. IsSeq(tomaster[s])
  BY <1>1, SomeWhere DEF Fresh, Working, Told, Sending, Sent, Left, Asked, Dismissed, Buffers
<1>3. PICK tag, n : tag \in {"BUFFER", "ENDBUFFER"} /\ SendSbuf(s, tag, n)
  BY DEF SendBuffer, SendEndBuffer
<1> DEFINE c == SubSeq(out[s], 1, n)
           m == [tag |-> tag, buf |-> active[s], content |-> c]
<1>4. /\ sbuf' = [sbuf EXCEPT ![s][active[s]] = c]
      /\ active' = [active EXCEPT ![s] = (@ + 1) % NumSBufs]
      /\ tomaster' = [tomaster EXCEPT ![s] = Append(@, m)]
  BY <1>3 DEF SendSbuf, ToMaster
<1>5. m.buf = active[s] /\ m.content = c
  OBVIOUS
<1> HIDE DEF c, m
<1>6. BufferTypes'
  <2>1. \A x \in Int : (x + 1) % NumSBufs \in 0..NumSBufs - 1
    BY ParFormAssumption
  <2>2. active' \in [Slaves -> 0..NumSBufs - 1]
    BY <1>4, <2>1 DEF SBufOK, BufferTypes
  <2>3. DOMAIN sbuf' = Slaves /\ \A t \in Slaves : DOMAIN sbuf'[t] = 0..NumSBufs - 1
    BY <1>4 DEF SBufOK, BufferTypes
  <2> QED
    BY <2>2, <2>3 DEF BufferTypes
<1>7. SBufIntact(s)'
  <2>1. active[s] \in 0..NumSBufs - 1 /\ DOMAIN sbuf[s] = 0..NumSBufs - 1
    BY DEF SBufOK, BufferTypes
  <2>2. /\ sbuf'[s][active[s]] = c
        /\ \A b \in 0..NumSBufs - 1 : b # active[s] => sbuf'[s][b] = sbuf[s][b]
    BY <1>4, <2>1 DEF SBufOK, BufferTypes
  <2>3. tomaster'[s] = Append(tomaster[s], m)
    BY <1>4 DEF Types
  <2>4. ASSUME NEW i \in DOMAIN tomaster'[s], "buf" \in DOMAIN tomaster'[s][i]
        PROVE  /\ tomaster'[s][i].buf \in 0..NumSBufs - 1
               /\ sbuf'[s][tomaster'[s][i].buf] = tomaster'[s][i].content
    <3>1. DOMAIN tomaster'[s] = 1..(Len(tomaster[s]) + 1) /\ DOMAIN tomaster[s] = 1..Len(tomaster[s])
          /\ Len(tomaster[s]) \in Nat
      BY <1>2, <2>3, AppendFacts DEF IsSeq
    <3>2. CASE i = Len(tomaster[s]) + 1
      <4>1. tomaster'[s][i] = m
        BY <1>2, <2>3, <3>2, AppendFacts
      <4> QED
        BY <1>5, <2>1, <2>2, <4>1
    <3>3. CASE i # Len(tomaster[s]) + 1
      <4>1. i \in DOMAIN tomaster[s]
        BY <3>1, <3>3
      <4>2. tomaster'[s][i] = tomaster[s][i]
        BY <1>2, <2>3, <3>1, <4>1, AppendFacts
      <4>3. tomaster[s][i].buf # active[s]
        BY <1>1, <2>4, <4>1, <4>2 DEF MayFill, InTransit
      <4> QED
        BY <2>2, <2>4, <4>1, <4>2, <4>3 DEF SBufOK, SBufIntact
    <3> QED
      BY <3>2, <3>3
  <2> QED
    BY <2>4 DEF SBufIntact
<1>8. \A t \in Slaves \ {s} : SBufIntact(t)'
  BY <1>4, SBufStays DEF SBufOK, BufferTypes, Types
<1> QED
  BY <1>6, <1>7, <1>8 DEF SBufOK

\* The steps of slave s that send no terms.
SlaveElse(s) ==
  \/ StartSlave(s) \/ AskForTerms(s) \/ ReceiveTerms(s) \/ Generate(s) \/ SlaveEndSort(s)
  \/ SendStatistics(s) \/ ReadMaster(s) \/ DoOneExpr(s) \/ PrintMessage(s)

LEMMA SlaveElseSends ==
  ASSUME Types, NEW s \in Slaves, SlaveElse(s)
  PROVE  /\ sbuf' = sbuf /\ active' = active
         /\ \A t \in Slaves \ {s} : tomaster'[t] = tomaster[t]
         /\ \/ tomaster'[s] = tomaster[s]
            \/ \E w : tomaster'[s] = Word(w)
            \/ \E x : tomaster'[s] = Data(x)
<1> USE DEF result, slave
<1>1. ASSUME NEW m, AllReceived(s), ToMaster(s, m)
      PROVE  tomaster'[s] = Append(None, m) /\ \A t \in Slaves \ {s} : tomaster'[t] = tomaster[t]
  BY <1>1 DEF AllReceived, ToMaster, Types, None
<1>2. CASE ReceiveTerms(s) \/ Generate(s) \/ SlaveEndSort(s) \/ ReadMaster(s)
  BY <1>2 DEF ReceiveTerms, Generate, SlaveEndSort, ReadMaster
<1>3. CASE StartSlave(s)
  <2>1. /\ AllReceived(s) /\ sbuf' = sbuf /\ active' = active
        /\ tomaster' = tomaster \/ ToMaster(s, [tag |-> "EMPTY"])
    BY <1>3 DEF StartSlave
  <2>2. ToMaster(s, [tag |-> "EMPTY"]) =>
          tomaster'[s] = Word("EMPTY") /\ \A t \in Slaves \ {s} : tomaster'[t] = tomaster[t]
    BY <1>1, <2>1, WordFacts
  <2> QED
    BY <2>1, <2>2
<1>4. CASE AskForTerms(s)
  <2>1. AllReceived(s) /\ ToMaster(s, [tag |-> "READY"]) /\ sbuf' = sbuf /\ active' = active
    BY <1>4 DEF AskForTerms
  <2>2. tomaster'[s] = Word("READY") /\ \A t \in Slaves \ {s} : tomaster'[t] = tomaster[t]
    BY <1>1, <2>1, WordFacts
  <2> QED
    BY <2>1, <2>2
<1>5. CASE SendStatistics(s)
  <2>1. AllReceived(s) /\ ToMaster(s, [tag |-> "ENDSORT"]) /\ sbuf' = sbuf /\ active' = active
    BY <1>5 DEF SendStatistics
  <2>2. tomaster'[s] = Word("ENDSORT") /\ \A t \in Slaves \ {s} : tomaster'[t] = tomaster[t]
    BY <1>1, <2>1, WordFacts
  <2> QED
    BY <2>1, <2>2
<1>6. CASE DoOneExpr(s)
  <2>1. /\ AllReceived(s) /\ ToMaster(s, [tag |-> "DATA", expr |-> exprtodo[s]])
        /\ sbuf' = sbuf /\ active' = active
    BY <1>6 DEF DoOneExpr
  <2>2. tomaster'[s] = Data(exprtodo[s]) /\ \A t \in Slaves \ {s} : tomaster'[t] = tomaster[t]
    BY <1>1, <2>1, WordFacts
  <2> QED
    BY <2>1, <2>2
<1>7. CASE PrintMessage(s)
  <2>1. AllReceived(s) /\ ToMaster(s, [tag |-> "STDOUT"]) /\ sbuf' = sbuf /\ active' = active
    BY <1>7 DEF PrintMessage
  <2>2. tomaster'[s] = Word("STDOUT") /\ \A t \in Slaves \ {s} : tomaster'[t] = tomaster[t]
    BY <1>1, <2>1, WordFacts
  <2> QED
    BY <2>1, <2>2
<1> QED
  BY <1>2, <1>3, <1>4, <1>5, <1>6, <1>7 DEF SlaveElse

LEMMA MasterTakes ==
  ASSUME Types, Protocol, NEW s \in Slaves, MasterElse(s) \/ MasterBuckets(s)
  PROVE  /\ sbuf' = sbuf /\ active' = active
         /\ \A t \in Slaves \ {s} : tomaster'[t] = tomaster[t]
         /\ tomaster'[s] = tomaster[s] \/ tomaster'[s] = None
<1> USE DEF slave, result, master
<1>1. CASE MasterAlone(s)
  <2>1. sbuf' = sbuf /\ active' = active
    BY <1>1 DEF MasterAlone, StartTerms, ReadTerm, EndOfTerms, WaitSends, InitTree, GetLoserBelow,
       PutInNothing, AddTerms, CancelTerms, ReturnLoser, CatchErrorMessagesForAll,
       StartExpressions, EndOfExpressions, EndExpressions, NothingFrom, HasOutput, WaitRbuf, PutIn
  <2>2. \A t \in Slaves : Undisturbed(t)
    BY <1>1, AloneFrame
  <2> QED
    BY <2>1, <2>2 DEF Undisturbed
<1>2. CASE CollectStatistics(s)
  <2>1. sbuf' = sbuf /\ active' = active /\ \A t \in Slaves \ {s} : tomaster'[t] = tomaster[t]
    BY <1>2 DEF CollectStatistics, Types
  <2> QED
    BY <1>2, <2>1, CollectStatisticsFrom
<1>3. CASE SendBucket(s) \/ SendLast(s) \/ CatchMessage(s) \/ GiveExpression(s) \/ LetGo(s)
  <2>1. sbuf' = sbuf /\ active' = active /\ Taken(s)
    BY <1>3 DEF SendBucket, SendLast, CatchMessage, GiveExpression, LetGo
  <2>2. TagFrom(s) \notin {"none", "BUFFER", "ENDBUFFER"}
    <3>1. SendBucket(s) => TagFrom(s) = "READY"
      BY SendBucketTo
    <3>2. GiveExpression(s) => TagFrom(s) \in {"EMPTY", "DATA"}
      BY GiveExpressionTo
    <3> QED
      BY <1>3, <3>1, <3>2 DEF SendLast, CatchMessage, LetGo
  <2> QED
    BY <2>1, <2>2, OnlyMessage DEF Taken, Types
<1> QED
  BY <1>1, <1>2, <1>3 DEF MasterElse, MasterBuckets, MasterAlone

LEMMA NextKeepsBuffers ==
  ASSUME Types, Protocol, SBufOK, Next
  PROVE  SBufOK'
<1>1. ASSUME NEW s \in Slaves, sbuf' = sbuf, active' = active,
             \A t \in Slaves \ {s} : tomaster'[t] = tomaster[t],
             SBufIntact(s)'
      PROVE  SBufOK'
  <2>1. \A t \in Slaves : SBufIntact(t)'
    BY <1>1, SBufStays DEF SBufOK
  <2> QED
    BY <1>1, <2>1 DEF SBufOK, BufferTypes
<1>2. ASSUME NEW s \in Slaves, SlaveElse(s) PROVE SBufOK'
  <2>1. SBufIntact(s)'
    BY <1>2, SlaveElseSends, NoSBuf, SBufStays DEF SBufOK
  <2> QED
    BY <1>1, <1>2, <2>1, SlaveElseSends
<1>3. ASSUME NEW s \in Slaves, MasterElse(s) \/ MasterBuckets(s) PROVE SBufOK'
  <2>1. SBufIntact(s)'
    BY <1>3, MasterTakes, NoSBuf, SBufStays DEF SBufOK
  <2> QED
    BY <1>1, <1>3, <2>1, MasterTakes
<1>4. ASSUME NEW s \in Slaves, Deliver(s) PROVE SBufOK'
  <2>1. /\ sbuf' = sbuf /\ active' = active /\ tomaster[s] # <<>> /\ s \in posted
        /\ tomaster'[s] = Tail(tomaster[s])
        /\ \A t \in Slaves \ {s} : tomaster'[t] = tomaster[t]
    BY <1>4 DEF Deliver, Taken, slave, result, Types
  <2>2. M \in {"merge", "catch"} /\ Sending(s)
    BY <2>1 DEF Protocol, MasterOK, SlaveOK, AtMerge, StillSends
  <2>3. IsSeq(tomaster[s])
    BY <2>2 DEF Sending, Buffers
  <2>4. ASSUME NEW i \in DOMAIN Tail(tomaster[s])
        PROVE  Tail(tomaster[s])[i] = tomaster[s][i + 1] /\ i + 1 \in DOMAIN tomaster[s]
    <3>1. DOMAIN Tail(tomaster[s]) = 1..Len(Tail(tomaster[s])) /\ DOMAIN tomaster[s] = 1..Len(tomaster[s])
          /\ Len(Tail(tomaster[s])) = Len(tomaster[s]) - 1 /\ Len(tomaster[s]) \in Nat
      BY <2>1, <2>3, TailFacts DEF IsSeq
    <3>2. i \in 1..Len(Tail(tomaster[s])) /\ i + 1 \in DOMAIN tomaster[s]
      BY <3>1
    <3> QED
      BY <2>1, <2>3, <3>2, TailFacts
  <2>5. SBufIntact(s)'
    BY <2>1, <2>4 DEF SBufOK, SBufIntact
  <2> QED
    BY <1>1, <2>1, <2>5
<1>5. ASSUME NEW s \in Slaves, SendBuffer(s) \/ SendEndBuffer(s) PROVE SBufOK'
  BY <1>5, SendKeepsBuffers
<1>6. CASE MasterStep
  BY <1>3, <1>6, MasterSteps
<1> QED
  BY <1>2, <1>4, <1>5, <1>6 DEF Next, SlaveStep, SlaveElse

LEMMA NextKeepsMemory ==
  ASSUME Types, Protocol, MemoryOK, Next
  PROVE  MemoryOK'
<1>1. CASE \E s \in Slaves : SlaveStep(s) \/ PrintMessage(s) \/ Deliver(s)
  BY <1>1, MemoryFrame, MemoryStays
<1>2. CASE MasterStep
  BY <1>2, MasterSteps, MemoryFrame, MemoryStays, BucketsKeepMemory
<1> QED
  BY <1>1, <1>2 DEF Next

\* A bucket on its way to a slave is what was put in it, and so are the sorted terms on their
\* way to the master: whose the memory of a buffer is changes only when nothing refers to it.
THEOREM BuffersInvariant == Spec => [](MemoryOK /\ SBufOK)
<1>1. Init => MemoryOK /\ SBufOK
  <2>1. SUFFICES ASSUME Init PROVE MemoryOK /\ SBufOK
    OBVIOUS
  <2>2. MemoryOK
    BY <2>1 DEF Init, MemoryOK, BuffersApart, BucketIntact, SentBucket, None
  <2>3. BufferTypes
    BY <2>1, ParFormAssumption DEF Init, BufferTypes
  <2>4. \A s \in Slaves : SBufIntact(s)
    BY <2>1 DEF Init, SBufIntact
  <2> QED
    BY <2>2, <2>3, <2>4 DEF SBufOK
<1>2. Types /\ Protocol /\ MemoryOK /\ SBufOK /\ [Next]_vars => (MemoryOK /\ SBufOK)'
  <2>1. CASE UNCHANGED vars
    BY <2>1, MemoryStays, SBufStays DEF SBufOK, BufferTypes, vars, master, send, slave, result
  <2>2. CASE Next
    BY <2>2, NextKeepsMemory, NextKeepsBuffers
  <2> QED
    BY <2>1, <2>2
<1> QED
  BY <1>1, <1>2, ProtocolInvariant, PTL DEF Spec

\* A buffer that is being sent is not written (BuffersIntact): neither a bucket of the master,
\* whose memory passes from the buffer that is filled to that of a slave and later to the
\* receives of the merge, nor a buffer of sorted terms of a slave.
THEOREM BuffersAreIntact == Spec => []BuffersIntact
<1>1. ASSUME Types, Protocol, MemoryOK, SBufOK PROVE BuffersIntact
  <2>1. ASSUME NEW s \in Slaves, NEW i \in DOMAIN toslave[s], "buf" \in DOMAIN toslave[s][i]
        PROVE  memory[toslave[s][i].buf] = toslave[s][i].content
    <3>1. toslave[s] # None
      BY <2>1 DEF None
    <3>2. ASSUME NEW t, HasBucket(s, t) PROVE i = 1
      <4>1. PICK b \in Procs, c \in Contents : toslave[s] = << Bucket(t, b, c) >>
        BY <3>2 DEF HasBucket
      <4> QED
        BY <2>1, <4>1
    <3>3. toslave[s] # Word("EMPTY") /\ \A x : toslave[s] # Data(x)
      BY <2>1 DEF Word, Data
    <3>4. HasBucket(s, "TERM") \/ HasBucket(s, "ENDSORT")
      BY <1>1, <3>1, <3>3, SomeWhere DEF Fresh, Working, Told, Sending, Sent, Left, Asked, Dismissed,
                                       Channels, Prints
    <3>5. SentBucket(s)
      BY <3>4, BucketFacts, OneMessage DEF HasBucket, SentBucket
    <3> QED
      BY <1>1, <3>2, <3>4, <3>5 DEF MemoryOK, BucketIntact
  <2>2. ASSUME NEW s \in Slaves, NEW i \in DOMAIN tomaster[s], "buf" \in DOMAIN tomaster[s][i]
        PROVE  sbuf[s][tomaster[s][i].buf] = tomaster[s][i].content
    BY <1>1, <2>2 DEF SBufOK, SBufIntact
  <2> QED
    BY <2>1, <2>2 DEF BuffersIntact
<1> QED
  BY <1>1, ProtocolInvariant, BuffersInvariant, PTL

-----------------------------------------------------------------------------
(* The results of expressions *)

\* Slave s has expression x, or x or its result is on the way.
HasExpr(s, x) ==
  \/ toslave[s] = Data(x) \/ tomaster[s] = Data(x)
  \/ pc[s] = "expression" /\ exprtodo[s] = x

DoingExpressions == M = "give" \/ (M = "waitall" /\ IsKind("expressions"))

\* The master knows which expression a slave has.
HeldIsNoted ==
  \A s \in Slaves : \A x : HasExpr(s, x) => partodoexr[s] = x /\ x \in DOMAIN stored
\* Each expression that was given out is stored, or some slave has it.
NoneIsLost ==
  DoingExpressions =>
    /\ DOMAIN stored = 1..program[J].number
    /\ ninterms[Master] <= program[J].number
    /\ M = "waitall" => ninterms[Master] = program[J].number
    /\ \A x \in 1..ninterms[Master] : stored[x] = x \/ \E s \in Slaves : HasExpr(s, x)
ResultsOK == HeldIsNoted /\ NoneIsLost /\ ResultsStoredRight

LEMMA DataIsOne ==
  ASSUME NEW x, NEW y
  PROVE  /\ Data(x) = Data(y) => x = y
         /\ None # Data(x) /\ \A t : t # "DATA" => Word(t) # Data(x)
BY WordFacts

LEMMA WhoHasExpr ==
  Protocol => \A s \in Slaves : \A x : HasExpr(s, x) =>
                 Asked(s) /\ (M = "give" \/ (M = "waitall" /\ IsKind("expressions") /\ s \notin has_sent))
<1>1. SUFFICES ASSUME Protocol, NEW s \in Slaves, NEW x, HasExpr(s, x)
               PROVE  /\ Asked(s)
                      /\ M = "give" \/ (M = "waitall" /\ IsKind("expressions") /\ s \notin has_sent)
  OBVIOUS
<1>2. ~Fresh(s)
  BY <1>1, DataIsOne DEF HasExpr, Fresh, Channels
<1>3. ~Dismissed(s)
  BY <1>1, DataIsOne DEF HasExpr, Dismissed, Channels
<1>4. ~Sent(s) /\ ~Left(s)
  BY <1>1, DataIsOne DEF HasExpr, Sent, Left, Channels, Prints
<1>5. ASSUME NEW t, HasBucket(s, t), t \in {"TERM", "ENDSORT"} PROVE \A y : toslave[s] # Data(y)
  <2>1. PICK b \in Procs, c \in Contents : toslave[s] = << Bucket(t, b, c) >>
    BY <1>5 DEF HasBucket
  <2>2. Head(toslave[s]).tag = t
    BY <2>1, BucketFacts
  <2> QED
    BY <1>5, <2>2, WordFacts
<1>6. ~Working(s) /\ ~Told(s)
  <2>1. Working(s) => FALSE
    BY <1>1, <1>5, DataIsOne DEF HasExpr, Working, Channels, Prints, HasBucket
  <2>2. Told(s) => FALSE
    BY <1>1, <1>5, DataIsOne DEF HasExpr, Told, Prints, HasBucket
  <2> QED
    BY <2>1, <2>2
<1>7. ~Sending(s)
  <2>1. SUFFICES ASSUME Sending(s) PROVE FALSE
    OBVIOUS
  <2>2. tomaster[s] = Data(x)
    BY <1>1, <2>1, DataIsOne DEF HasExpr, Sending
  <2>3. tomaster[s] # None => TagFrom(s) = "DATA"
    BY <2>2, WordFacts DEF TagFrom, None
  <2> QED
    BY <2>1, <2>2, <2>3, Tags, DataIsOne
<1> QED
  BY <1>1, <1>2, <1>3, <1>4, <1>6, <1>7, SomeWhere
     DEF Protocol, MasterOK, SlaveOK, AtStart, AtRead, AtWait, AtMerge, AtCollect, AtGive, AtLetGo,
         Finishing

LEMMA WhoHasExprThen ==
  (Protocol => \A s \in Slaves : \A x : HasExpr(s, x) =>
                 Asked(s) /\ (M = "give" \/ (M = "waitall" /\ IsKind("expressions") /\ s \notin has_sent)))'
BY WhoHasExpr, PTL

LEMMA KeepsExpr ==
  ASSUME NEW t \in Slaves, Undisturbed(t)
  PROVE  \A x : HasExpr(t, x)' <=> HasExpr(t, x)
BY DEF Undisturbed, HasExpr

\* Steps that change nothing for the expressions, and steps of another job.
LEMMA ResultsStay ==
  ASSUME ResultsOK, M' = M, J' = J, program' = program, ninterms'[Master] = ninterms[Master],
         stored' = stored, partodoexr' = partodoexr,
         \A t \in Slaves : \A x : HasExpr(t, x)' <=> HasExpr(t, x)
  PROVE  ResultsOK'
<1>1. IsKind("expressions")' <=> IsKind("expressions")
  BY DEF IsKind
<1>2. HeldIsNoted'
  BY DEF ResultsOK, HeldIsNoted
<1>3. NoneIsLost'
  BY <1>1 DEF ResultsOK, NoneIsLost, DoingExpressions
<1>4. ResultsStoredRight'
  BY DEF ResultsOK, ResultsStoredRight, M, J
<1> QED
  BY <1>2, <1>3, <1>4 DEF ResultsOK

LEMMA ResultsElsewhere ==
  ASSUME ResultsOK, Protocol', stored' = stored, ~DoingExpressions',
         M' = "start" => J' > 1 /\ program'[J' - 1].kind # "expressions"
  PROVE  ResultsOK'
<1>1. \A s \in Slaves : \A x : ~HasExpr(s, x)'
  BY WhoHasExprThen DEF DoingExpressions
<1>2. HeldIsNoted' /\ NoneIsLost'
  BY <1>1 DEF HeldIsNoted, NoneIsLost
<1>3. ResultsStoredRight'
  BY DEF ResultsOK, ResultsStoredRight, M, J
<1> QED
  BY <1>2, <1>3 DEF ResultsOK

LEMMA SlaveHasExpr ==
  ASSUME Types, Protocol, NEW s \in Slaves, SlaveStep(s) \/ PrintMessage(s)
  PROVE  \A x : HasExpr(s, x)' <=> HasExpr(s, x)
<1>1. CASE ReadMaster(s)
  <2>1. pc[s] = "readmaster" /\ tomaster' = tomaster /\ toslave[s] # None
    BY <1>1 DEF ReadMaster, None
  <2>2. (\E x \in Nat : Channels(s, Data(x), None)) \/ Channels(s, Word("EMPTY"), None)
    BY <2>1, SomeWhere DEF Fresh, Working, Told, Sending, Sent, Left, Asked, Dismissed, Channels
  <2>3. CASE Channels(s, Word("EMPTY"), None)
    <3>1. pc'[s] = "start" /\ toslave'[s] = None
      <4>1. Head(toslave[s]).tag = "EMPTY" /\ Tail(toslave[s]) = None
        BY <2>3, WordFacts DEF Channels
      <4> QED
        BY <1>1, <4>1, Processes DEF ReadMaster, Goto, Types
    <3> QED
      BY <2>1, <2>3, <3>1, DataIsOne DEF HasExpr, Channels
  <2>4. CASE \E x \in Nat : Channels(s, Data(x), None)
    <3>1. PICK x \in Nat : Channels(s, Data(x), None)
      BY <2>4
    <3>2. pc'[s] = "expression" /\ toslave'[s] = None /\ exprtodo'[s] = x
      <4>1. Head(toslave[s]).tag = "DATA" /\ Head(toslave[s]).expr = x /\ Tail(toslave[s]) = None
        BY <3>1, WordFacts DEF Channels
      <4> QED
        BY <1>1, <4>1, Processes DEF ReadMaster, Goto, Types
    <3>3. \A y : Data(x) = Data(y) <=> x = y
      BY DataIsOne
    <3> QED
      BY <2>1, <3>1, <3>2, <3>3, DataIsOne DEF HasExpr, Channels
  <2> QED
    BY <2>2, <2>3, <2>4
<1>2. CASE DoOneExpr(s)
  <2>1. /\ pc[s] = "expression" /\ tomaster[s] = None /\ toslave' = toslave
        /\ tomaster'[s] = Data(exprtodo[s]) /\ pc'[s] = "readmaster"
    BY <1>2, WordFacts, Processes DEF DoOneExpr, AllReceived, ToMaster, Goto, Types, None
  <2>2. \A y : Data(exprtodo[s]) = Data(y) <=> exprtodo[s] = y
    BY DataIsOne
  <2> QED
    BY <2>1, <2>2, DataIsOne DEF HasExpr
<1>3. CASE PrintMessage(s)
  <2>1. /\ tomaster[s] = None /\ toslave' = toslave /\ pc' = pc /\ exprtodo' = exprtodo
        /\ tomaster'[s] = Word("STDOUT")
    BY <1>3, WordFacts DEF PrintMessage, AllReceived, ToMaster, Types, None
  <2> QED
    BY <2>1, DataIsOne DEF HasExpr
<1>4. CASE SlaveStep(s) /\ ~ReadMaster(s) /\ ~DoOneExpr(s)
  <2>1. pc[s] \notin {"readmaster", "expression"}
    BY <1>4 DEF SlaveStep, StartSlave, AskForTerms, ReceiveTerms, Generate, SlaveEndSort,
       SendBuffer, SendEndBuffer, SendStatistics
  <2>2. \A x : ~HasExpr(s, x)
    BY <2>1, WhoHasExpr DEF Asked
  <2>3. pc'[s] # "expression"
    BY <1>4, <2>1, Processes DEF SlaveStep, StartSlave, AskForTerms, ReceiveTerms, Generate,
       SlaveEndSort, SendBuffer, SendEndBuffer, SendStatistics, Goto, Types
  <2>4. toslave'[s] = toslave[s] \/ toslave'[s] = None
    <3>1. CASE ReceiveTerms(s)
      BY <3>1, OneOnTheWay DEF ReceiveTerms, Types, None
    <3>2. CASE ~ReceiveTerms(s)
      BY <1>4, <3>2 DEF SlaveStep, StartSlave, AskForTerms, Generate, SlaveEndSort,
         SendBuffer, SendEndBuffer, SendStatistics
    <3> QED
      BY <3>1, <3>2
  <2>5. \A x : tomaster'[s] = Data(x) => tomaster[s] = Data(x)
    <3>1. CASE SendBuffer(s) \/ SendEndBuffer(s)
      <4>1. Sending(s)
        BY <3>1, SomeWhere DEF SendBuffer, SendEndBuffer, Fresh, Working, Told, Sent, Left, Asked,
                               Dismissed
      <4>2. Sending(s)'
        BY <3>1, <4>1, SendInOrder DEF InOrder
      <4>3. ASSUME NEW x, tomaster'[s] = Data(x) PROVE FALSE
        <5>1. IsSeq(tomaster'[s]) /\ \E t : Buffers(tomaster'[s], t) /\ t \in {"BUFFER", "ENDBUFFER"}
          BY <4>2 DEF Sending, Buffers
        <5>2. Len(Data(x)) = 1 /\ Data(x)[1].tag = "DATA" /\ 1 \in 1..1
          BY DEF Data
        <5> QED
          BY <4>3, <5>1, <5>2 DEF Buffers
      <4> QED
        BY <4>3
    <3>2. CASE ~SendBuffer(s) /\ ~SendEndBuffer(s) /\ ~SendStatistics(s) /\ ~AskForTerms(s)
               /\ ~StartSlave(s)
      BY <1>4, <3>2 DEF SlaveStep, ReceiveTerms, Generate, SlaveEndSort
    <3>3. CASE SendStatistics(s)
      <4>1. tomaster'[s] = Word("ENDSORT")
        BY <3>3, WordFacts DEF SendStatistics, AllReceived, ToMaster, Types, None
      <4> QED
        BY <4>1, DataIsOne
    <3>4. CASE AskForTerms(s)
      <4>1. tomaster'[s] = Word("READY")
        BY <3>4, WordFacts DEF AskForTerms, AllReceived, ToMaster, Types, None
      <4> QED
        BY <4>1, DataIsOne
    <3>5. CASE StartSlave(s)
      <4>1. tomaster' = tomaster \/ tomaster'[s] = Word("EMPTY")
        <5>1. tomaster[s] = None /\ (tomaster' = tomaster \/ ToMaster(s, [tag |-> "EMPTY"]))
          BY <3>5 DEF StartSlave, AllReceived, None
        <5> QED
          BY <5>1, WordFacts DEF ToMaster, Types
      <4> QED
        BY <4>1, DataIsOne
    <3> QED
      BY <3>1, <3>2, <3>3, <3>4, <3>5
  <2> QED
    BY <2>2, <2>3, <2>4, <2>5, DataIsOne DEF HasExpr
<1> QED
  BY <1>1, <1>2, <1>3, <1>4

LEMMA SlaveKeepsResults ==
  ASSUME Types, Protocol, ResultsOK, NEW s \in Slaves, SlaveStep(s) \/ PrintMessage(s)
  PROVE  ResultsOK'
<1>1. stored' = stored /\ partodoexr' = partodoexr
  BY DEF SlaveStep, StartSlave, AskForTerms, ReceiveTerms, Generate, SlaveEndSort, SendBuffer,
     SendEndBuffer, SendStatistics, ReadMaster, DoOneExpr, PrintMessage, master, ip
<1>2. ninterms'[Master] = ninterms[Master]
  BY Processes DEF SlaveStep, StartSlave, AskForTerms, ReceiveTerms, Generate, SlaveEndSort, SendBuffer,
     SendEndBuffer, SendStatistics, ReadMaster, DoOneExpr, PrintMessage, Types
<1>3. MasterStays /\ \A t \in Slaves \ {s} : Undisturbed(t)
  BY SlaveFrame
<1>4. \A t \in Slaves : \A x : HasExpr(t, x)' <=> HasExpr(t, x)
  BY <1>3, SlaveHasExpr, KeepsExpr
<1> QED
  BY <1>1, <1>2, <1>3, <1>4, ResultsStay DEF MasterStays

\* The steps of the master in which it deals with terms.
DealsWithTerms(s) ==
  \/ StartTerms \/ ReadTerm \/ SendBucket(s) \/ EndOfTerms \/ SendLast(s) \/ WaitSends \/ InitTree
  \/ GetLoserBelow \/ PutInNothing \/ AddTerms \/ CancelTerms \/ ReturnLoser \/ WaitRbuf(s) \/ PutIn(s)
  \/ CatchErrorMessagesForAll \/ CollectStatistics(s) \/ Deliver(s)

LEMMA TermsKeepResults ==
  ASSUME Types, Protocol, ResultsOK, Protocol', NEW s \in Slaves, DealsWithTerms(s)
  PROVE  ResultsOK'
<1> USE Processes DEF M, Goto
<1>1. stored' = stored
  BY DEF DealsWithTerms, StartTerms, ReadTerm, SendBucket, EndOfTerms, SendLast, WaitSends, InitTree,
     GetLoserBelow, PutInNothing, AddTerms, CancelTerms, ReturnLoser, WaitRbuf, PutIn,
     CatchErrorMessagesForAll, CollectStatistics, Deliver, master, ip
<1>2. CASE M' \in {"read", "waitsends", "merge", "catch", "collect"}
  BY <1>1, <1>2, ResultsElsewhere DEF DoingExpressions
<1>3. CASE M' = "waitall" /\ IsKind("terms")'
  BY <1>1, <1>3, ResultsElsewhere DEF DoingExpressions, IsKind
<1>4. CASE StartTerms \/ ReadTerm \/ SendBucket(s)
  <2>1. M' = "read"
    <3>1. SendBucket(s) => M' = "read"
      BY SendBucketTo
    <3> QED
      BY <1>4, <3>1 DEF StartTerms, ReadTerm, Types
  <2> QED
    BY <1>2, <2>1
<1>5. CASE EndOfTerms \/ WaitSends \/ SendLast(s)
  <2>1. IsKind("terms") /\ J' = J /\ program' = program
    <3>1. SendLast(s) => IsKind("terms")
      BY SendLastTo
    <3> QED
      BY <1>5, <3>1 DEF EndOfTerms, WaitSends, SendLast, Protocol, MasterOK, J
  <2>2. M' \in {"waitall", "waitsends"}
    BY <1>5 DEF EndOfTerms, WaitSends, SendLast, Types
  <2> QED
    BY <1>2, <1>3, <2>1, <2>2 DEF IsKind
<1>6. CASE InitTree
  <2>1. M' = "merge"
    BY <1>6 DEF InitTree, Types
  <2> QED
    BY <1>2, <2>1
<1>7. CASE GetLoserBelow \/ PutInNothing \/ AddTerms \/ CancelTerms \/ WaitRbuf(s) \/ PutIn(s)
  <2>1. M' = "merge"
    BY <1>7 DEF GetLoserBelow, PutInNothing, AddTerms, CancelTerms, WaitRbuf, PutIn, AtLeaf
  <2> QED
    BY <1>2, <2>1
<1>8. CASE ReturnLoser
  <2>1. M = "merge" /\ (pc' = pc \/ Goto(Master, "catch"))
    BY <1>8 DEF ReturnLoser
  <2>2. M' \in {"merge", "catch"}
    BY <2>1 DEF Types
  <2> QED
    BY <1>2, <2>2
<1>9. CASE CatchErrorMessagesForAll
  <2>1. M' = "collect"
    BY <1>9 DEF CatchErrorMessagesForAll, Types
  <2> QED
    BY <1>2, <2>1
<1>10. CASE Deliver(s)
  <2>1. M' = M /\ s \in posted
    BY <1>10 DEF Deliver
  <2>2. M \in {"merge", "catch"}
    BY <2>1 DEF Protocol, MasterOK
  <2> QED
    BY <1>2, <2>1, <2>2
<1>11. CASE CollectStatistics(s)
  <2>1. M = "collect" /\ IsKind("terms") /\ program' = program
    BY <1>11 DEF CollectStatistics, Protocol, MasterOK
  <2>2. CASE pc' = pc
    BY <1>2, <2>1, <2>2
  <2>3. CASE pc' # pc
    <3>1. M' = "start" /\ J' = J + 1
      BY <1>11, <2>3 DEF CollectStatistics, Types, J
    <3>2. J \in Nat \ {0}
      BY DEF Types, J
    <3>3. J' > 1 /\ program'[J' - 1].kind = "terms"
      BY <2>1, <3>1, <3>2 DEF IsKind
    <3> QED
      BY <1>1, <3>1, <3>3, ResultsElsewhere DEF DoingExpressions
  <2> QED
    BY <2>2, <2>3
<1> QED
  BY <1>4, <1>5, <1>6, <1>7, <1>8, <1>9, <1>10, <1>11 DEF DealsWithTerms

LEMMA LookingKeepsResults ==
  ASSUME Types, Protocol, ResultsOK, Protocol', NEW s \in Slaves,
         NothingFrom(s) \/ HasOutput(s) \/ CatchMessage(s)
  PROVE  ResultsOK'
<1>1. /\ stored' = stored /\ partodoexr' = partodoexr /\ J' = J /\ program' = program
      /\ ninterms' = ninterms
  BY DEF NothingFrom, HasOutput, CatchMessage, J, ip, master
<1>2. M' = M
  <2>1. pc' = pc \/ Goto(Master, "error")
    BY DEF NothingFrom, HasOutput, CatchMessage
  <2>2. M' # "error"
    BY DEF Protocol, MasterOK
  <2> QED
    BY <2>1, <2>2, Processes DEF Goto, Types, M
<1>3. ASSUME NEW t \in Slaves PROVE \A x : HasExpr(t, x)' <=> HasExpr(t, x)
  <2>1. CASE t # s \/ ~CatchMessage(s)
    <3>1. Undisturbed(t)
      BY <2>1, AloneFrame, ExchangeFrame DEF MasterAlone, Exchange
    <3> QED
      BY <3>1, KeepsExpr
  <2>2. CASE t = s /\ CatchMessage(s)
    <3>1. /\ TagFrom(s) = "STDOUT" /\ toslave' = toslave /\ pc' = pc /\ exprtodo' = exprtodo
          /\ Taken(s)
      BY <2>2 DEF CatchMessage, slave
    <3>2. tomaster'[s] = None
      BY <3>1, OnlyMessage DEF Taken, Types
    <3>3. \A x : tomaster[s] # Data(x)
      BY <3>1, WordFacts DEF TagFrom
    <3> QED
      BY <2>2, <3>1, <3>2, <3>3, DataIsOne DEF HasExpr
  <2> QED
    BY <2>1, <2>2
<1> QED
  BY <1>1, <1>2, <1>3, ResultsStay

LEMMA StartExpressionsResults ==
  ASSUME Types, Protocol, ResultsOK, StartExpressions
  PROVE  ResultsOK'
<1>1. /\ M = "start" /\ M' = "give" /\ J' = J /\ program' = program
      /\ stored' = [x \in 1..program[J].number |-> 0] /\ ninterms'[Master] = 0
      /\ J <= Len(program) /\ program[J].kind = "expressions"
  BY Processes DEF StartExpressions, Types, Goto, Job, M, J
<1>2. program[J].number \in Nat
  <2>1. J \in 1..Len(program) /\ program \in Seq(Jobs)
    BY <1>1, Processes DEF Types, J
  <2>2. program[J] \in Jobs
    BY <2>1
  <2> QED
    BY <1>1, <2>2 DEF Jobs
<1>3. \A t \in Slaves : \A x : ~HasExpr(t, x)'
  <2>1. \A t \in Slaves : Undisturbed(t)
    BY AloneFrame DEF MasterAlone
  <2>2. \A t \in Slaves : \A x : ~HasExpr(t, x)
    BY <1>1, WhoHasExpr
  <2> QED
    BY <2>1, <2>2, KeepsExpr
<1>4. HeldIsNoted'
  BY <1>3 DEF HeldIsNoted
<1>5. NoneIsLost'
  <2>1. DOMAIN stored' = 1..program'[J'].number /\ ninterms'[Master] <= program'[J'].number
    BY <1>1, <1>2
  <2>2. M' # "waitall" /\ \A x \in 1..ninterms'[Master] : FALSE
    BY <1>1
  <2> QED
    BY <2>1, <2>2 DEF NoneIsLost
<1>6. ResultsStoredRight'
  BY <1>1 DEF ResultsStoredRight, M
<1> QED
  BY <1>4, <1>5, <1>6 DEF ResultsOK

\* The result that slave s has come with is stored.
LEMMA StoredFrom ==
  ASSUME Types, Protocol, ResultsOK, NEW s \in Slaves, GiveExpression(s) \/ LetGo(s)
  PROVE  /\ toslave[s] = None /\ Tail(tomaster[s]) = None /\ pc[s] = "readmaster"
         /\ DOMAIN stored' = DOMAIN stored
         /\ \A x \in DOMAIN stored : stored'[x] = x \/ stored'[x] = stored[x]
         /\ \A x \in DOMAIN stored : stored[x] = x => stored'[x] = x
         /\ \A x : HasExpr(s, x) => stored'[x] = x
<1>1. pc[s] = "readmaster"
  BY GiveExpressionTo, LetGoTo
<1>2. Store(s)
  BY DEF GiveExpression, LetGo
<1>3. CASE Channels(s, None, Word("EMPTY"))
  <2>1. TagFrom(s) = "EMPTY" /\ Tail(tomaster[s]) = None /\ toslave[s] = None
    BY <1>3, WordFacts DEF Channels, TagFrom, None
  <2>2. stored' = stored
    BY <1>2, <2>1 DEF Store
  <2>3. \A x : ~HasExpr(s, x)
    BY <1>1, <1>3, DataIsOne DEF HasExpr, Channels
  <2> QED
    BY <1>1, <2>1, <2>2, <2>3
<1>4. ASSUME NEW y \in Nat, Channels(s, None, Data(y))
      PROVE  /\ toslave[s] = None /\ Tail(tomaster[s]) = None
             /\ stored' = [stored EXCEPT ![y] = y] /\ y \in DOMAIN stored
             /\ \A x : HasExpr(s, x) => x = y
  <2>1. /\ TagFrom(s) = "DATA" /\ Tail(tomaster[s]) = None /\ toslave[s] = None
        /\ Head(tomaster[s]).expr = y
    BY <1>4, WordFacts DEF Channels, TagFrom, None
  <2>2. partodoexr[s] = y /\ y \in DOMAIN stored
    BY <1>4 DEF ResultsOK, HeldIsNoted, HasExpr, Channels
  <2>3. \A x : HasExpr(s, x) => x = y
    BY <1>1, <1>4, DataIsOne DEF HasExpr, Channels
  <2> QED
    BY <1>2, <2>1, <2>2, <2>3 DEF Store
<1>5. Channels(s, None, Word("EMPTY")) \/ \E y \in Nat : Channels(s, None, Data(y))
  BY GiveExpressionTo, LetGoTo
<1>6. CASE \E y \in Nat : Channels(s, None, Data(y))
  <2>1. PICK y \in Nat : Channels(s, None, Data(y))
    BY <1>6
  <2>2. /\ toslave[s] = None /\ Tail(tomaster[s]) = None
        /\ stored' = [stored EXCEPT ![y] = y] /\ y \in DOMAIN stored
        /\ \A x : HasExpr(s, x) => x = y
    BY <1>4, <2>1
  <2> QED
    BY <1>1, <2>2
<1> QED
  BY <1>3, <1>5, <1>6

LEMMA GiveExpressionResults ==
  ASSUME Types, Protocol, ResultsOK, NEW s \in Slaves, GiveExpression(s)
  PROVE  ResultsOK'
<1> DEFINE z == ninterms[Master] + 1
<1>1. /\ M = "give" /\ M' = M /\ J' = J /\ program' = program /\ pc' = pc /\ exprtodo' = exprtodo
      /\ Taken(s) /\ ToSlave(s, [tag |-> "DATA", expr |-> z]) /\ TagFrom(s) # "none"
      /\ ninterms'[Master] = z /\ ninterms[Master] < program[J].number
      /\ partodoexr' = [partodoexr EXCEPT ![s] = z]
  BY Processes DEF GiveExpression, NoteExpression, Types, Job, M, J, slave
<1>2. /\ toslave[s] = None /\ Tail(tomaster[s]) = None /\ pc[s] = "readmaster"
      /\ DOMAIN stored' = DOMAIN stored
      /\ \A x \in DOMAIN stored : stored'[x] = x \/ stored'[x] = stored[x]
      /\ \A x \in DOMAIN stored : stored[x] = x => stored'[x] = x
      /\ \A x : HasExpr(s, x) => stored'[x] = x
  BY StoredFrom
<1>3. tomaster'[s] = None /\ toslave'[s] = Data(z)
  BY <1>1, <1>2, WordFacts DEF Types, Taken, ToSlave
<1>4. \A x : HasExpr(s, x)' <=> x = z
  BY <1>1, <1>2, <1>3, DataIsOne DEF HasExpr
<1>5. \A t \in Slaves \ {s} : \A x : HasExpr(t, x)' <=> HasExpr(t, x)
  <2>1. \A t \in Slaves \ {s} : Undisturbed(t)
    BY ExchangeFrame DEF Exchange
  <2> QED
    BY <2>1, KeepsExpr
<1>6. /\ DOMAIN stored = 1..program[J].number
      /\ \A x \in 1..ninterms[Master] : stored[x] = x \/ \E t \in Slaves : HasExpr(t, x)
  BY <1>1 DEF ResultsOK, NoneIsLost, DoingExpressions
<1>7. program[J].number \in Nat /\ ninterms[Master] \in Nat
  <2>1. J \in 1..Len(program) /\ program \in Seq(Jobs) /\ program[J].kind = "expressions"
    BY <1>1, Processes DEF Types, J, Protocol, MasterOK, IsKind
  <2>2. program[J] \in Jobs
    BY <2>1
  <2> QED
    BY <2>1, <2>2 DEF Jobs, Types
<1>8. HeldIsNoted'
  <2>1. z \in DOMAIN stored
    BY <1>1, <1>6, <1>7
  <2>2. partodoexr'[s] = z /\ \A t \in Slaves \ {s} : partodoexr'[t] = partodoexr[t]
    BY <1>1 DEF Types
  <2>3. ASSUME NEW t \in Slaves, NEW x, HasExpr(t, x)' PROVE partodoexr'[t] = x /\ x \in DOMAIN stored'
    BY <1>2, <1>4, <1>5, <2>1, <2>2, <2>3 DEF ResultsOK, HeldIsNoted
  <2> QED
    BY <2>3 DEF HeldIsNoted
<1>9. NoneIsLost'
  <2>1. ASSUME NEW x \in 1..z PROVE stored'[x] = x \/ \E t \in Slaves : HasExpr(t, x)'
    <3>1. CASE x = z
      BY <1>4, <3>1
    <3>2. CASE x # z
      <4>1. x \in 1..ninterms[Master] /\ x \in DOMAIN stored
        BY <1>1, <1>6, <1>7, <3>2
      <4>2. stored[x] = x \/ \E t \in Slaves : HasExpr(t, x)
        BY <1>6, <4>1
      <4> QED
        BY <1>2, <1>5, <4>1, <4>2
    <3> QED
      BY <3>1, <3>2
  <2>2. z <= program[J].number
    BY <1>1, <1>7
  <2> QED
    BY <1>1, <1>2, <1>6, <2>1, <2>2 DEF NoneIsLost
<1>10. ResultsStoredRight'
  BY <1>1, <1>2 DEF ResultsStoredRight, ResultsOK, M
<1> QED
  BY <1>8, <1>9, <1>10 DEF ResultsOK

LEMMA LetGoResults ==
  ASSUME Types, Protocol, ResultsOK, NEW s \in Slaves, LetGo(s)
  PROVE  ResultsOK'
<1>1. /\ M' = M /\ J' = J /\ program' = program /\ pc' = pc /\ exprtodo' = exprtodo
      /\ Taken(s) /\ ToSlave(s, [tag |-> "EMPTY"])
      /\ ninterms' = ninterms /\ partodoexr' = partodoexr
  BY DEF LetGo, M, J, slave
<1>2. /\ toslave[s] = None /\ Tail(tomaster[s]) = None /\ pc[s] = "readmaster"
      /\ DOMAIN stored' = DOMAIN stored
      /\ \A x \in DOMAIN stored : stored'[x] = x \/ stored'[x] = stored[x]
      /\ \A x \in DOMAIN stored : stored[x] = x => stored'[x] = x
      /\ \A x : HasExpr(s, x) => stored'[x] = x
  BY StoredFrom
<1>3. tomaster'[s] = None /\ toslave'[s] = Word("EMPTY")
  BY <1>1, <1>2, WordFacts DEF Types, Taken, ToSlave
<1>4. \A x : ~HasExpr(s, x)'
  BY <1>1, <1>2, <1>3, DataIsOne DEF HasExpr
<1>5. \A t \in Slaves \ {s} : \A x : HasExpr(t, x)' <=> HasExpr(t, x)
  <2>1. \A t \in Slaves \ {s} : Undisturbed(t)
    BY ExchangeFrame DEF Exchange
  <2> QED
    BY <2>1, KeepsExpr
<1>6. M = "waitall" /\ IsKind("expressions")
  BY LetGoTo
<1>7. /\ DOMAIN stored = 1..program[J].number
      /\ ninterms[Master] <= program[J].number /\ ninterms[Master] = program[J].number
      /\ \A x \in 1..ninterms[Master] : stored[x] = x \/ \E t \in Slaves : HasExpr(t, x)
  BY <1>6 DEF ResultsOK, NoneIsLost, DoingExpressions
<1>8. HeldIsNoted'
  BY <1>1, <1>2, <1>4, <1>5 DEF ResultsOK, HeldIsNoted
<1>9. NoneIsLost'
  <2>1. ASSUME NEW x \in 1..ninterms[Master] PROVE stored'[x] = x \/ \E t \in Slaves : HasExpr(t, x)'
    <3>1. x \in DOMAIN stored
      BY <1>7
    <3> QED
      BY <1>2, <1>5, <1>7, <3>1
  <2> QED
    BY <1>1, <1>2, <1>7, <2>1 DEF NoneIsLost
<1>10. ResultsStoredRight'
  BY <1>1, <1>2, <1>6 DEF ResultsStoredRight, ResultsOK, M
<1> QED
  BY <1>8, <1>9, <1>10 DEF ResultsOK

LEMMA EndOfExpressionsResults ==
  ASSUME Types, Protocol, ResultsOK, EndOfExpressions
  PROVE  ResultsOK'
<1>1. /\ M = "give" /\ M' = "waitall" /\ J' = J /\ program' = program /\ ninterms' = ninterms
      /\ stored' = stored /\ partodoexr' = partodoexr /\ ninterms[Master] = program[J].number
  BY Processes DEF EndOfExpressions, Types, Goto, Job, M, J, ip
<1>2. \A t \in Slaves : \A x : HasExpr(t, x)' <=> HasExpr(t, x)
  <2>1. \A t \in Slaves : Undisturbed(t)
    BY AloneFrame DEF MasterAlone
  <2> QED
    BY <2>1, KeepsExpr
<1>3. HeldIsNoted'
  BY <1>1, <1>2 DEF ResultsOK, HeldIsNoted
<1>4. NoneIsLost'
  BY <1>1, <1>2 DEF ResultsOK, NoneIsLost, DoingExpressions
<1>5. ResultsStoredRight'
  BY <1>1 DEF ResultsOK, ResultsStoredRight, M
<1> QED
  BY <1>3, <1>4, <1>5 DEF ResultsOK

LEMMA EndExpressionsResults ==
  ASSUME Types, Protocol, ResultsOK, Protocol', EndExpressions
  PROVE  ResultsOK'
<1>1. /\ M = "waitall" /\ M' = "start" /\ J' = J + 1 /\ program' = program /\ stored' = stored
      /\ \A t \in Slaves : t \in has_sent
  BY Processes DEF EndExpressions, Types, Goto, M, J, AllHaveSent, master, ip
<1>2. IsKind("expressions")
  BY <1>1 DEF EndExpressions, Protocol, MasterOK, IsKind, Job, J
<1>3. \A t \in Slaves : \A x : ~HasExpr(t, x)
  BY <1>1, WhoHasExpr
<1>4. \A x \in DOMAIN stored : stored[x] = x
  BY <1>1, <1>2, <1>3 DEF ResultsOK, NoneIsLost, DoingExpressions
<1>5. \A t \in Slaves : \A x : ~HasExpr(t, x)'
  <2>1. ~DoingExpressions'
    BY <1>1 DEF DoingExpressions
  <2> QED
    BY <2>1, WhoHasExprThen DEF DoingExpressions
<1>6. HeldIsNoted' /\ NoneIsLost'
  BY <1>1, <1>5 DEF HeldIsNoted, NoneIsLost, DoingExpressions
<1>7. ResultsStoredRight'
  BY <1>1, <1>4 DEF ResultsStoredRight
<1> QED
  BY <1>6, <1>7 DEF ResultsOK

LEMMA NextKeepsResults ==
  ASSUME Types, Protocol, ResultsOK, Next, Protocol'
  PROVE  ResultsOK'
<1>1. CASE \E s \in Slaves : SlaveStep(s) \/ PrintMessage(s)
  BY <1>1, SlaveKeepsResults
<1>2. CASE \E s \in Slaves : Deliver(s)
  BY <1>2, TermsKeepResults DEF DealsWithTerms
<1>3. CASE MasterStep
  <2>1. PICK s \in Slaves : MasterElse(s) \/ MasterBuckets(s)
    BY <1>3, MasterSteps
  <2>2. CASE DealsWithTerms(s)
    BY <2>2, TermsKeepResults
  <2>3. CASE NothingFrom(s) \/ HasOutput(s) \/ CatchMessage(s)
    BY <2>3, LookingKeepsResults
  <2>4. CASE \/ StartExpressions \/ GiveExpression(s) \/ EndOfExpressions \/ LetGo(s)
             \/ EndExpressions
    BY <2>4, StartExpressionsResults, GiveExpressionResults, EndOfExpressionsResults, LetGoResults,
       EndExpressionsResults
  <2> QED
    BY <2>1, <2>2, <2>3, <2>4 DEF MasterElse, MasterBuckets, DealsWithTerms
<1> QED
  BY <1>1, <1>2, <1>3 DEF Next

\* The result of each expression is stored for that expression, and none is missing when the
\* job ends (ResultsStoredRight), for every number of slaves and of expressions: what the
\* master has noted for a slave is what the slave has (HeldIsNoted), and each expression that
\* was given out is stored or still with a slave (NoneIsLost).
THEOREM ResultsAreStoredRight == Spec => []ResultsStoredRight
<1>1. Init => ResultsOK
  <2>1. SUFFICES ASSUME Init PROVE ResultsOK
    OBVIOUS
  <2>2. M = "start" /\ J = 1 /\ DOMAIN stored = {}
    BY <2>1, Processes DEF Init, M, J
  <2>3. Protocol
    BY <2>1, InitProtocol
  <2>4. \A t \in Slaves : \A x : ~HasExpr(t, x)
    BY <2>2, <2>3, WhoHasExpr
  <2> QED
    BY <2>2, <2>4 DEF ResultsOK, HeldIsNoted, NoneIsLost, DoingExpressions, ResultsStoredRight, J
<1>2. Types /\ Protocol /\ ResultsOK /\ [Next]_vars /\ Protocol' => ResultsOK'
  <2>1. CASE UNCHANGED vars
    <3>1. SUFFICES ASSUME Types, Protocol, ResultsOK PROVE ResultsOK'
      OBVIOUS
    <3>2. \A t \in Slaves : Undisturbed(t)
      BY <2>1 DEF Undisturbed, vars, master, slave, input, result
    <3> QED
      BY <2>1, <3>1, <3>2, KeepsExpr, ResultsStay DEF M, J, vars, master, ip
  <2>2. CASE Next
    BY <2>2, NextKeepsResults
  <2> QED
    BY <2>1, <2>2
<1>3. ResultsOK => ResultsStoredRight
  BY DEF ResultsOK
<1> QED
  BY <1>1, <1>2, <1>3, ProtocolInvariant, PTL DEF Spec

-----------------------------------------------------------------------------
(* The terms of an expression *)

\* The terms in a sequence that may have the word 0 in it; each is there once.
Nums(q)     == {q[i] : i \in DOMAIN q} \ {0}
NoRepeat(q) == \A i, k \in DOMAIN q : q[i] # 0 /\ q[i] = q[k] => i = k

\* Where a term can be: in the bucket that is filled, on the way to a slave, in its input
\* buffer, or done.  A slave that has not started its job has done nothing of it.
Dealing  == M \in {"read", "waitsends", "merge"} \/ (M = "waitall" /\ IsKind("terms"))
Hand     == IF M = "read" \/ (M = "waitall" /\ 0 \notin has_sent) THEN memory[buff[0]].terms ELSE <<>>
Way(s)   == IF SentBucket(s) THEN toslave[s][1].content.terms ELSE <<>>
Input(s) == IF pc[s] = "get" THEN infile[s] ELSE <<>>
Done(s)  == IF pc[s] = "start" /\ job[s] = J THEN <<>> ELSE done[s]

Has(s) == Nums(Way(s)) \cup Nums(Input(s)) \cup Nums(Done(s))
Once(s) ==
  /\ NoRepeat(Way(s)) /\ NoRepeat(Input(s)) /\ NoRepeat(Done(s))
  /\ Nums(Way(s)) \cap Nums(Input(s)) = {} /\ Nums(Way(s)) \cap Nums(Done(s)) = {}
  /\ Nums(Input(s)) \cap Nums(Done(s)) = {}

\* Each term that was read is in one place only.
EachInOnePlace ==
  /\ NoRepeat(Hand) /\ \A s \in Slaves : Once(s)
  /\ \A s \in Slaves : Has(s) \cap Nums(Hand) = {}
  /\ \A s, t \in Slaves : s # t => Has(s) \cap Has(t) = {}
  /\ \A n : n \in 1..ninterms[Master] <=> n \in Nums(Hand) \/ \E s \in Slaves : n \in Has(s)
AllAreRead == M # "read" => ninterms[Master] = Len(program[J].terms)
TermsOK ==
  /\ done \in [Slaves -> Seq(TermNumbers)]
  /\ Dealing => EachInOnePlace /\ AllAreRead

LEMMA NumsOfFew ==
  /\ Nums(<<>>) = {} /\ NoRepeat(<<>>) /\ Nums(<<0>>) = {} /\ NoRepeat(<<0>>)
  /\ \A n : n # 0 => Nums(<<n>>) = {n} /\ NoRepeat(<<n>>)
<1>1. Nums(<<>>) = {} /\ NoRepeat(<<>>)
  BY DEF Nums, NoRepeat
<1>2. ASSUME NEW n PROVE DOMAIN <<n>> = {1} /\ <<n>>[1] = n
  OBVIOUS
<1>3. Nums(<<0>>) = {} /\ NoRepeat(<<0>>)
  BY <1>2 DEF Nums, NoRepeat
<1>4. ASSUME NEW n, n # 0 PROVE Nums(<<n>>) = {n} /\ NoRepeat(<<n>>)
  BY <1>2, <1>4 DEF Nums, NoRepeat
<1> QED
  BY <1>1, <1>3, <1>4

LEMMA NumsJoin ==
  ASSUME NEW q \in Seq(Nat), NEW r \in Seq(Nat)
  PROVE  /\ Nums(q \o r) = Nums(q) \cup Nums(r)
         /\ NoRepeat(q) /\ NoRepeat(r) /\ Nums(q) \cap Nums(r) = {} => NoRepeat(q \o r)
<1>1. /\ DOMAIN q = 1..Len(q) /\ DOMAIN r = 1..Len(r) /\ Len(q) \in Nat /\ Len(r) \in Nat
      /\ DOMAIN (q \o r) = 1..Len(q) + Len(r)
      /\ \A i \in 1..Len(q) + Len(r) : (q \o r)[i] = IF i <= Len(q) THEN q[i] ELSE r[i - Len(q)]
  OBVIOUS
<1>2. ASSUME NEW n \in Nums(q \o r) PROVE n \in Nums(q) \cup Nums(r)
  <2>1. PICK i \in 1..Len(q) + Len(r) : (q \o r)[i] = n /\ n # 0
    BY <1>1, <1>2 DEF Nums
  <2>2. CASE i <= Len(q)
    BY <1>1, <2>1, <2>2 DEF Nums
  <2>3. CASE i > Len(q)
    <3>1. i - Len(q) \in 1..Len(r) /\ r[i - Len(q)] = n
      BY <1>1, <2>1, <2>3
    <3> QED
      BY <1>1, <2>1, <3>1 DEF Nums
  <2> QED
    BY <1>1, <2>2, <2>3
<1>3. ASSUME NEW n \in Nums(q) PROVE n \in Nums(q \o r)
  <2>1. PICK i \in 1..Len(q) : q[i] = n /\ n # 0
    BY <1>1, <1>3 DEF Nums
  <2>2. i \in 1..Len(q) + Len(r) /\ (q \o r)[i] = n
    BY <1>1, <2>1
  <2> QED
    BY <1>1, <2>1, <2>2 DEF Nums
<1>4. ASSUME NEW n \in Nums(r) PROVE n \in Nums(q \o r)
  <2>1. PICK i \in 1..Len(r) : r[i] = n /\ n # 0
    BY <1>1, <1>4 DEF Nums
  <2>2. i + Len(q) \in 1..Len(q) + Len(r) /\ ~(i + Len(q) <= Len(q)) /\ i + Len(q) - Len(q) = i
    BY <1>1, <2>1
  <2>3. (q \o r)[i + Len(q)] = n
    BY <1>1, <2>1, <2>2
  <2> QED
    BY <1>1, <2>1, <2>2, <2>3 DEF Nums
<1>5. ASSUME NoRepeat(q), NoRepeat(r), Nums(q) \cap Nums(r) = {},
             NEW i \in 1..Len(q) + Len(r), NEW k \in 1..Len(q) + Len(r),
             (q \o r)[i] # 0, (q \o r)[i] = (q \o r)[k]
      PROVE  i = k
  <2>1. CASE i <= Len(q) /\ k <= Len(q)
    <3>1. i \in 1..Len(q) /\ k \in 1..Len(q)
      BY <1>1, <2>1
    <3>2. (q \o r)[i] = q[i] /\ (q \o r)[k] = q[k]
      BY <1>1, <2>1
    <3>3. q[i] # 0 /\ q[i] = q[k]
      BY <1>5, <3>2
    <3>4. QED
      BY <1>1, <1>5, <3>1, <3>3 DEF NoRepeat
  <2>2. CASE i > Len(q) /\ k > Len(q)
    <3>1. i - Len(q) \in 1..Len(r) /\ k - Len(q) \in 1..Len(r)
      BY <1>1, <2>2
    <3>2. r[i - Len(q)] # 0 /\ r[i - Len(q)] = r[k - Len(q)]
      BY <1>1, <1>5, <2>2
    <3>3. i - Len(q) = k - Len(q)
      BY <1>1, <1>5, <3>1, <3>2 DEF NoRepeat
    <3> QED
      BY <1>1, <3>3
  <2>3. ASSUME NEW a \in 1..Len(q), NEW b \in 1..Len(r), q[a] = r[b], q[a] # 0 PROVE FALSE
    <3>1. q[a] \in Nums(q) /\ q[a] \in Nums(r)
      BY <1>1, <2>3 DEF Nums
    <3> QED
      BY <1>5, <3>1
  <2>4. CASE i <= Len(q) /\ k > Len(q)
    <3>1. i \in 1..Len(q) /\ k - Len(q) \in 1..Len(r)
      BY <1>1, <2>4
    <3>2. q[i] = r[k - Len(q)] /\ q[i] # 0
      BY <1>1, <1>5, <2>4
    <3> QED
      BY <2>3, <3>1, <3>2
  <2>5. CASE i > Len(q) /\ k <= Len(q)
    <3>1. k \in 1..Len(q) /\ i - Len(q) \in 1..Len(r)
      BY <1>1, <2>5
    <3>2. q[k] = r[i - Len(q)] /\ q[k] # 0
      BY <1>1, <1>5, <2>5
    <3> QED
      BY <2>3, <3>1, <3>2
  <2> QED
    BY <1>1, <2>1, <2>2, <2>4, <2>5
<1> QED
  BY <1>1, <1>2, <1>3, <1>4, <1>5 DEF NoRepeat

\* Where a slave is when terms are dealt out.
LEMMA DealingTo ==
  ASSUME Types, Protocol, Dealing, NEW s \in Slaves
  PROVE  \/ job[s] = J /\ (Working(s) \/ Told(s) \/ Sending(s) \/ Sent(s))
         \/ job[s] = J + 1 /\ job[s] # J /\ Left(s)
<1>1. J \in Nat
  BY Processes DEF Types, J
<1>2. CASE M = "read"
  BY <1>2 DEF Protocol, SlaveOK, AtRead
<1>3. CASE M \in {"waitall", "waitsends"} /\ IsKind("terms")
  BY <1>3 DEF Protocol, SlaveOK, AtWait
<1>4. CASE M = "merge"
  BY <1>1, <1>4 DEF Protocol, SlaveOK, AtMerge, Finishing
<1> QED
  BY <1>2, <1>3, <1>4 DEF Dealing, Protocol, MasterOK

\* The terms of a slave that nothing happens to.
LEMMA KeepsTerms ==
  ASSUME NEW t \in Slaves, toslave'[t] = toslave[t], pc'[t] = pc[t], infile'[t] = infile[t],
         done'[t] = done[t], job'[t] = job[t], J' = J
  PROVE  Way(t)' = Way(t) /\ Input(t)' = Input(t) /\ Done(t)' = Done(t)
<1>1. SentBucket(t)' <=> SentBucket(t)
  BY DEF SentBucket
<1> QED
  BY <1>1 DEF Way, Input, Done

LEMMA SameParts ==
  ASSUME NEW t \in Slaves, Way(t)' = Way(t), Input(t)' = Input(t), Done(t)' = Done(t)
  PROVE  Has(t)' = Has(t) /\ (Once(t)' <=> Once(t))
BY DEF Has, Once

LEMMA NothingOnTheWay ==
  ASSUME NEW t
  PROVE  /\ toslave[t] = None => Way(t) = <<>>
         /\ toslave'[t] = None => Way(t)' = <<>>
BY DEF Way, SentBucket

\* No term changes hands.
LEMMA TermsStay ==
  ASSUME EachInOnePlace, ninterms'[Master] = ninterms[Master], Hand' = Hand,
         \A t \in Slaves : Has(t)' = Has(t) /\ Once(t)'
  PROVE  EachInOnePlace'
BY DEF EachInOnePlace

\* The terms in the hand of the master go to slave s; then the hand has the terms that are new.
LEMMA TermsGiven ==
  ASSUME EachInOnePlace, NEW s \in Slaves, Has(s)' = Has(s) \cup Nums(Hand), Once(s)',
         \A t \in Slaves \ {s} : Has(t)' = Has(t) /\ Once(t)',
         NoRepeat(Hand)', Nums(Hand)' \cap 1..ninterms[Master] = {},
         1..ninterms'[Master] = 1..ninterms[Master] \cup Nums(Hand)'
  PROVE  EachInOnePlace'
<1>1. \A t \in Slaves : Has(t)' \subseteq 1..ninterms[Master]
  BY DEF EachInOnePlace
<1>2. \A t \in Slaves : Has(t)' \cap Nums(Hand)' = {}
  BY <1>1
<1>3. \A t, u \in Slaves : t # u => Has(t)' \cap Has(u)' = {}
  BY DEF EachInOnePlace
<1>4. \A n : n \in 1..ninterms[Master] <=> \E t \in Slaves : n \in Has(t)'
  BY DEF EachInOnePlace
<1> QED
  BY <1>2, <1>3, <1>4 DEF EachInOnePlace

\* What a slave receives becomes its input.
LEMMA ReceiveTermsOnce ==
  ASSUME Types, Protocol, MemoryOK, TermsOK, Dealing, NEW s \in Slaves, ReceiveTerms(s)
  PROVE  Has(s)' = Has(s) /\ (Once(s) => Once(s)')
<1>1. /\ pc[s] = "receive" /\ toslave[s] # None /\ done' = done /\ job' = job
      /\ toslave' = [toslave EXCEPT ![s] = Tail(@)] /\ Goto(s, "get")
  BY DEF ReceiveTerms, None, input
<1>2. \E t \in {"TERM", "ENDSORT"} : HasBucket(s, t)
  BY <1>1, DealingTo DEF Working, Told, Sending, Sent, Left, Channels
<1>3. PICK t \in {"TERM", "ENDSORT"}, b \in Procs, c \in Contents : toslave[s] = << Bucket(t, b, c) >>
  BY <1>2 DEF HasBucket
<1>4. toslave[s][1] = Bucket(t, b, c) /\ Head(toslave[s]) = Bucket(t, b, c)
  BY <1>3, BucketFacts, OneMessage
<1>5. SentBucket(s) /\ toslave[s][1].content = c /\ toslave[s][1].buf = b
  BY <1>1, <1>4, BucketFacts DEF SentBucket
<1>6. memory[b] = c /\ c.terms \in Seq(TermNumbers)
  BY <1>5 DEF MemoryOK, BucketIntact, Contents
<1>7. Way(s) = c.terms /\ Input(s) = <<>> /\ Done(s) = done[s]
  BY <1>1, <1>5 DEF Way, Input, Done
<1>8. infile'[s] = c.terms \o (IF t = "ENDSORT" THEN <<0>> ELSE <<>>)
  <2>1. infile' = [infile EXCEPT ![s] = memory[Head(toslave[s]).buf].terms
                      \o (IF Head(toslave[s]).tag = "ENDSORT" THEN <<0>> ELSE <<>>)]
    BY DEF ReceiveTerms
  <2>2. Head(toslave[s]).buf = b /\ Head(toslave[s]).tag = t
    BY <1>4, BucketFacts
  <2> QED
    BY <1>6, <2>1, <2>2 DEF Types
<1>9. Way(s)' = <<>> /\ pc'[s] = "get"
  <2>1. toslave'[s] = None
    BY <1>1, <1>3, BucketFacts DEF Types
  <2> QED
    BY <1>1, <2>1, NothingOnTheWay, Processes DEF Goto, Types
<1>10. Input(s)' = infile'[s] /\ Done(s)' = done[s]
  BY <1>1, <1>9 DEF Input, Done
<1>11. Nums(infile'[s]) = Nums(c.terms) /\ (NoRepeat(c.terms) => NoRepeat(infile'[s]))
  <2>1. c.terms \in Seq(Nat) /\ <<>> \in Seq(Nat) /\ <<0>> \in Seq(Nat)
    BY <1>6 DEF TermNumbers
  <2>2. CASE t = "ENDSORT"
    <3>1. infile'[s] = c.terms \o <<0>>
      BY <1>8, <2>2
    <3>2. /\ Nums(c.terms \o <<0>>) = Nums(c.terms) \cup Nums(<<0>>)
          /\ NoRepeat(c.terms) /\ NoRepeat(<<0>>) /\ Nums(c.terms) \cap Nums(<<0>>) = {}
             => NoRepeat(c.terms \o <<0>>)
      BY <2>1, NumsJoin
    <3> QED
      BY <3>1, <3>2, NumsOfFew
  <2>3. CASE t # "ENDSORT"
    <3>1. infile'[s] = c.terms \o <<>>
      BY <1>8, <2>3
    <3> QED
      BY <2>1, <3>1, NumsJoin, NumsOfFew
  <2> QED
    BY <2>2, <2>3
<1> QED
  BY <1>7, <1>9, <1>10, <1>11, NumsOfFew DEF Has, Once

\* The terms in the buffer before a word 0 are done.
LEMMA GenerateWhat ==
  ASSUME Types, Protocol, NEW s \in Slaves, Generate(s)
  PROVE  /\ pc[s] = "get" /\ pc' = pc /\ toslave' = toslave /\ job' = job /\ toslave[s] = None
         /\ \E ts \in Seq(TermNumbers) :
              /\ done' = [done EXCEPT ![s] = @ \o ts]
              /\ \/ infile[s] = ts /\ infile'[s] = <<>>
                 \/ infile[s] = Append(ts, 0) /\ infile'[s] = <<0>>
<1>1. /\ pc[s] = "get" /\ pc' = pc /\ toslave' = toslave /\ job' = job
      /\ infile[s] # <<>> /\ infile[s][1] # 0
      /\ done' = [done EXCEPT ![s] = @ \o TermsIn(infile[s])]
      /\ infile' = [infile EXCEPT ![s] = IF Last(@) = 0 THEN <<0>> ELSE <<>>]
  BY DEF Generate
<1>2. Working(s) \/ Told(s)
  BY <1>1, SomeWhere, FreshWorks DEF Fresh, Sending, Sent, Left, Asked, Dismissed
<1>3. /\ toslave[s] = None
      /\ \/ infile[s] \in Seq(TermNumbers)
         \/ \E ts \in Seq(TermNumbers) : infile[s] = Append(ts, 0)
  BY <1>1, <1>2 DEF Working, Told, Prints
<1>4. CASE infile[s] \in Seq(TermNumbers)
  <2>1. TermsIn(infile[s]) = infile[s] /\ Last(infile[s]) # 0
    BY <1>1, <1>4, InputFacts
  <2>2. infile'[s] = <<>> /\ done' = [done EXCEPT ![s] = @ \o infile[s]]
    BY <1>1, <2>1 DEF Types
  <2> QED
    BY <1>1, <1>3, <1>4, <2>2
<1>5. CASE \E ts \in Seq(TermNumbers) : infile[s] = Append(ts, 0)
  <2>1. PICK ts \in Seq(TermNumbers) : infile[s] = Append(ts, 0)
    BY <1>5
  <2>2. TermsIn(infile[s]) = ts /\ Last(infile[s]) = 0
    BY <2>1, InputFacts
  <2>3. infile'[s] = <<0>> /\ done' = [done EXCEPT ![s] = @ \o ts]
    BY <1>1, <2>2 DEF Types
  <2> QED
    BY <1>1, <1>3, <2>1, <2>3
<1> QED
  BY <1>3, <1>4, <1>5

LEMMA GenerateOnce ==
  ASSUME Types, Protocol, TermsOK, NEW s \in Slaves, Generate(s)
  PROVE  Has(s)' = Has(s) /\ (Once(s) => Once(s)') /\ done' \in [Slaves -> Seq(TermNumbers)]
<1>1. pc[s] = "get" /\ pc' = pc /\ toslave' = toslave /\ job' = job /\ toslave[s] = None
  BY GenerateWhat
<1>2. PICK ts \in Seq(TermNumbers) :
        /\ done' = [done EXCEPT ![s] = @ \o ts]
        /\ \/ infile[s] = ts /\ infile'[s] = <<>>
           \/ infile[s] = Append(ts, 0) /\ infile'[s] = <<0>>
  BY GenerateWhat
<1>3. done \in [Slaves -> Seq(TermNumbers)]
  BY DEF TermsOK
<1>4. /\ ts \in Seq(Nat) /\ done[s] \in Seq(Nat) /\ <<0>> \in Seq(Nat) /\ done'[s] = done[s] \o ts
      /\ done'[s] \in Seq(TermNumbers)
  BY <1>2, <1>3 DEF TermNumbers
<1>5. Way(s) = <<>> /\ Way(s)' = <<>>
  BY <1>1, NothingOnTheWay
<1>6. Input(s) = infile[s] /\ Input(s)' = infile'[s] /\ Done(s) = done[s] /\ Done(s)' = done[s] \o ts
  BY <1>1, <1>4 DEF Input, Done
<1>7. Nums(infile[s]) = Nums(ts) /\ (NoRepeat(infile[s]) => NoRepeat(ts))
  <2>1. CASE infile[s] = ts
    BY <2>1
  <2>2. CASE infile[s] = Append(ts, 0)
    <3>1. infile[s] = ts \o <<0>>
      BY <2>2, InputFacts
    <3>2. Nums(infile[s]) = Nums(ts)
      <4>1. Nums(ts \o <<0>>) = Nums(ts) \cup Nums(<<0>>)
        BY <1>4, NumsJoin
      <4> QED
        BY <3>1, <4>1, NumsOfFew
    <3>3. ASSUME NoRepeat(infile[s]) PROVE NoRepeat(ts)
      <4>1. \A i \in DOMAIN ts : i \in DOMAIN infile[s] /\ infile[s][i] = ts[i]
        BY <1>4, <3>1
      <4> QED
        BY <3>3, <4>1 DEF NoRepeat
    <3> QED
      BY <3>2, <3>3
  <2> QED
    BY <1>2, <2>1, <2>2
<1>8. Nums(infile'[s]) = {} /\ NoRepeat(infile'[s])
  BY <1>2, NumsOfFew
<1>9. /\ Nums(done[s] \o ts) = Nums(done[s]) \cup Nums(ts)
      /\ NoRepeat(done[s]) /\ NoRepeat(ts) /\ Nums(done[s]) \cap Nums(ts) = {} => NoRepeat(done[s] \o ts)
  BY <1>4, NumsJoin
<1>10. Has(s)' = Has(s)
  BY <1>5, <1>6, <1>7, <1>8, <1>9 DEF Has
<1>11. Once(s) => Once(s)'
  BY <1>5, <1>6, <1>7, <1>8, <1>9, NumsOfFew DEF Once
<1>12. done' \in [Slaves -> Seq(TermNumbers)]
  BY <1>2, <1>3, <1>4
<1> QED
  BY <1>10, <1>11, <1>12

LEMMA SlaveKeepsItsTerms ==
  ASSUME Types, Protocol, MemoryOK, TermsOK, Dealing, NEW s \in Slaves, SlaveStep(s) \/ PrintMessage(s)
  PROVE  Has(s)' = Has(s) /\ (Once(s) => Once(s)')
<1> USE Processes DEF Goto, Types
<1>0. J' = J
  BY SlaveFrame DEF MasterStays
<1>1. CASE StartSlave(s)
  <2>1. pc[s] = "start" /\ tomaster[s] = None /\ toslave' = toslave /\ job' = job
    BY <1>1 DEF StartSlave, AllReceived, None
  <2>2. job[s] = J /\ AtKind(s, "terms") /\ toslave[s] = None
    BY <2>1, DealingTo, WordFacts DEF Working, Told, Sending, Sent, Left, Channels
  <2>3. pc'[s] = "get" /\ infile'[s] = <<>> /\ done'[s] = <<>>
    BY <1>1, <2>2 DEF StartSlave, AtKind
  <2>4. /\ Way(s) = <<>> /\ Way(s)' = <<>> /\ Input(s) = <<>> /\ Input(s)' = <<>>
        /\ Done(s) = <<>> /\ Done(s)' = <<>>
    BY <2>1, <2>2, <2>3, NothingOnTheWay DEF Input, Done
  <2> QED
    BY <2>4, SameParts
<1>2. CASE AskForTerms(s)
  <2>1. /\ pc[s] = "get" /\ infile[s] = <<>> /\ pc'[s] = "receive" /\ toslave' = toslave
        /\ done' = done
    BY <1>2 DEF AskForTerms, slave, input
  <2>2. Way(s)' = Way(s) /\ Input(s) = <<>> /\ Input(s)' = <<>> /\ Done(s)' = Done(s)
    BY <2>1 DEF Way, SentBucket, Input, Done
  <2> QED
    BY <2>2, SameParts
<1>3. CASE ReceiveTerms(s)
  BY <1>3, ReceiveTermsOnce
<1>4. CASE Generate(s)
  BY <1>4, GenerateOnce
<1>5. CASE SlaveEndSort(s)
  <2>1. /\ pc[s] = "get" /\ infile[s] # <<>> /\ infile[s][1] = 0 /\ pc'[s] = "putout"
        /\ toslave' = toslave /\ done' = done
    BY <1>5 DEF SlaveEndSort, input
  <2>2. ~Working(s)
    <3>1. infile[s] \notin Seq(TermNumbers)
      BY <2>1, InputFacts
    <3> QED
      BY <2>1, <3>1 DEF Working
  <2>3. Told(s)
    BY <2>1, <2>2, DealingTo DEF Sending, Sent, Left
  <2>4. infile[s] = <<0>>
    BY <2>1, <2>3, InputFacts DEF Told
  <2>5. Way(s)' = Way(s) /\ Input(s) = <<0>> /\ Input(s)' = <<>> /\ Done(s)' = Done(s)
    BY <2>1, <2>4 DEF Way, SentBucket, Input, Done
  <2> QED
    BY <2>5, NumsOfFew DEF Has, Once
<1>6. CASE SendBuffer(s) \/ SendEndBuffer(s)
  <2>1. pc[s] = "putout" /\ pc'[s] \in {"putout", "sent"} /\ toslave' = toslave /\ done' = done
    BY <1>6 DEF SendBuffer, SendEndBuffer, input
  <2>2. Way(s)' = Way(s) /\ Input(s)' = Input(s) /\ Done(s)' = Done(s)
    BY <2>1 DEF Way, SentBucket, Input, Done
  <2> QED
    BY <2>2, SameParts
<1>7. CASE SendStatistics(s)
  <2>1. /\ pc[s] = "sent" /\ pc'[s] = "start" /\ toslave' = toslave /\ done' = done
        /\ job'[s] = job[s] + 1
    BY <1>7 DEF SendStatistics, slave, input
  <2>2. job[s] = J /\ J \in Nat
    BY <2>1, DealingTo DEF Working, Told, Left, J
  <2>3. Way(s)' = Way(s) /\ Input(s)' = Input(s) /\ Done(s)' = Done(s)
    BY <1>0, <2>1, <2>2 DEF Way, SentBucket, Input, Done
  <2> QED
    BY <2>3, SameParts
<1>8. CASE ReadMaster(s) \/ DoOneExpr(s)
  <2>1. pc[s] \in {"readmaster", "expression"}
    BY <1>8 DEF ReadMaster, DoOneExpr
  <2> QED
    BY <2>1, DealingTo DEF Working, Told, Sending, Sent, Left
<1>9. CASE PrintMessage(s)
  <2>1. pc' = pc /\ toslave' = toslave /\ infile' = infile /\ done' = done /\ job' = job
    BY <1>9 DEF PrintMessage, input
  <2> QED
    BY <1>0, <2>1, KeepsTerms, SameParts
<1> QED
  BY <1>1, <1>2, <1>3, <1>4, <1>5, <1>6, <1>7, <1>8, <1>9 DEF SlaveStep

LEMMA SlaveKeepsTerms ==
  ASSUME Types, Protocol, MemoryOK, TermsOK, NEW s \in Slaves, SlaveStep(s) \/ PrintMessage(s)
  PROVE  TermsOK'
<1>1. MasterStays /\ \A t \in Slaves \ {s} : Undisturbed(t)
  BY SlaveFrame
<1>2. done' \in [Slaves -> Seq(TermNumbers)]
  <2>1. CASE Generate(s)
    BY <2>1, GenerateOnce
  <2>2. CASE ~Generate(s)
    <3>1. done' = done \/ done' = [done EXCEPT ![s] = <<>>]
      BY <2>2 DEF SlaveStep, StartSlave, AskForTerms, ReceiveTerms, SlaveEndSort, SendBuffer,
         SendEndBuffer, SendStatistics, ReadMaster, DoOneExpr, PrintMessage, slave, input
    <3>2. <<>> \in Seq(TermNumbers)
      OBVIOUS
    <3> QED
      BY <3>1, <3>2 DEF TermsOK
  <2> QED
    BY <2>1, <2>2
<1>3. ninterms'[Master] = ninterms[Master]
  BY Processes DEF SlaveStep, StartSlave, AskForTerms, ReceiveTerms, Generate, SlaveEndSort, SendBuffer,
     SendEndBuffer, SendStatistics, ReadMaster, DoOneExpr, PrintMessage, Types
<1>4. memory' = memory /\ buff' = buff
  BY MemoryFrame
<1>5. Dealing' <=> Dealing
  BY <1>1 DEF MasterStays, Dealing, IsKind
<1>6. ASSUME Dealing PROVE EachInOnePlace' /\ AllAreRead'
  <2>1. Hand' = Hand
    BY <1>1, <1>4 DEF Hand, MasterStays
  <2>2. ASSUME NEW t \in Slaves PROVE Has(t)' = Has(t) /\ Once(t)'
    <3>1. Once(t)
      BY <1>6 DEF TermsOK, EachInOnePlace
    <3>2. CASE t = s
      BY <1>6, <3>1, <3>2, SlaveKeepsItsTerms
    <3>3. CASE t # s
      BY <1>1, <3>1, <3>3, KeepsTerms, SameParts DEF Undisturbed, MasterStays
    <3> QED
      BY <3>2, <3>3
  <2>3. EachInOnePlace'
    BY <1>3, <1>6, <2>1, <2>2, TermsStay DEF TermsOK
  <2>4. AllAreRead'
    BY <1>1, <1>3, <1>6 DEF TermsOK, AllAreRead, MasterStays
  <2> QED
    BY <2>3, <2>4
<1> QED
  BY <1>2, <1>5, <1>6 DEF TermsOK

\* A step of the master, or the delivery of a message, is no step of a slave.
LEMMA SlavesStay ==
  ASSUME Types, NEW s \in Slaves, MasterElse(s) \/ MasterBuckets(s) \/ Deliver(s)
  PROVE  /\ done' = done /\ program' = program
         /\ \A t \in Slaves : pc'[t] = pc[t] /\ infile'[t] = infile[t] /\ job'[t] = job[t]
<1>1. CASE MasterAlone(s)
  <2>1. done' = done /\ program' = program
    BY <1>1 DEF MasterAlone, StartTerms, ReadTerm, EndOfTerms, WaitSends, InitTree, GetLoserBelow,
       PutInNothing, AddTerms, CancelTerms, ReturnLoser, CatchErrorMessagesForAll, StartExpressions,
       EndOfExpressions, EndExpressions, NothingFrom, HasOutput, WaitRbuf, PutIn, slave, input
  <2> QED
    BY <1>1, <2>1, AloneFrame DEF Undisturbed
<1>2. CASE Exchange(s)
  <2>1. done' = done /\ program' = program /\ infile' = infile
    BY <1>2 DEF Exchange, SendBucket, SendLast, CollectStatistics, CatchMessage, GiveExpression, LetGo,
       Deliver, slave, input
  <2>2. pc'[s] = pc[s] /\ job'[s] = job[s]
    BY <1>2, Processes DEF Exchange, SendBucket, SendLast, CollectStatistics, CatchMessage,
       GiveExpression, LetGo, Deliver, Goto, Types
  <2> QED
    BY <1>2, <2>1, <2>2, ExchangeFrame DEF Undisturbed
<1> QED
  BY <1>1, <1>2 DEF MasterElse, MasterBuckets, MasterAlone, Exchange

LEMMA NobodyGetsTerms ==
  ASSUME TermsOK, Dealing, J' = J, ninterms'[Master] = ninterms[Master], toslave' = toslave,
         NEW s \in Slaves, MasterElse(s) \/ MasterBuckets(s) \/ Deliver(s), Types,
         Hand' = Hand, AllAreRead'
  PROVE  TermsOK'
<1>1. ASSUME NEW t \in Slaves PROVE Has(t)' = Has(t) /\ Once(t)'
  BY SlavesStay, KeepsTerms, SameParts DEF TermsOK, EachInOnePlace
<1>2. EachInOnePlace'
  BY <1>1, TermsStay DEF TermsOK
<1> QED
  BY <1>2, SlavesStay DEF TermsOK

LEMMA NoMoreTerms ==
  ASSUME TermsOK, NEW s \in Slaves, MasterElse(s) \/ MasterBuckets(s) \/ Deliver(s), Types, ~Dealing'
  PROVE  TermsOK'
BY SlavesStay DEF TermsOK

\* The steps in which no term changes hands.
LEMMA OthersKeepTerms ==
  ASSUME Types, Protocol, TermsOK, NEW s \in Slaves, Protocol', MasterElse(s) \/ InitTree \/ Deliver(s)
  PROVE  TermsOK'
<1> USE Processes DEF M, J, Goto
<1>0. MasterElse(s) \/ MasterBuckets(s) \/ Deliver(s)
  BY DEF MasterBuckets
<1>1. CASE M = "merge" /\ M' = M
  <2>1. /\ J' = J /\ ninterms' = ninterms /\ toslave' = toslave
    BY <1>1 DEF MasterElse, InitTree, Deliver, EndOfTerms, WaitSends, GetLoserBelow, PutInNothing,
       AddTerms, CancelTerms, ReturnLoser, CatchErrorMessagesForAll, StartExpressions,
       EndOfExpressions, EndExpressions, NothingFrom, HasOutput, WaitRbuf, PutIn, CollectStatistics,
       CatchMessage, Catching, GiveExpression, LetGo, Probed
  <2>2. Hand' = Hand /\ Dealing
    BY <1>1 DEF Hand, Dealing
  <2>3. program' = program
    BY <1>0, SlavesStay
  <2>4. AllAreRead'
    BY <1>1, <2>1, <2>2, <2>3 DEF TermsOK, AllAreRead
  <2> QED
    BY <1>0, <2>1, <2>2, <2>4, NobodyGetsTerms
<1>2. CASE EndOfTerms
  <2>1. /\ M = "read" /\ M' = "waitall" /\ J' = J /\ ninterms' = ninterms /\ toslave' = toslave
        /\ has_sent' = {} /\ memory' = memory /\ buff' = buff /\ program' = program
        /\ ninterms[Master] = Len(program[J].terms)
    BY <1>2 DEF EndOfTerms, Types, send, Terms, Job
  <2>2. Hand' = Hand /\ Dealing /\ AllAreRead'
    BY <2>1 DEF Hand, Dealing, AllAreRead
  <2> QED
    BY <1>0, <2>1, <2>2, NobodyGetsTerms
<1>3. CASE WaitSends
  <2>1. /\ M = "waitsends" /\ M' = "waitall" /\ J' = J /\ ninterms' = ninterms /\ toslave' = toslave
        /\ has_sent' = has_sent /\ program' = program
    BY <1>3 DEF WaitSends, Types, master, wait
  <2>2. 0 \in has_sent
    BY <2>1 DEF Protocol, MasterOK
  <2>3. Hand' = Hand /\ Dealing
    BY <2>1, <2>2 DEF Hand, Dealing
  <2>4. AllAreRead'
    BY <2>1, <2>3 DEF TermsOK, AllAreRead
  <2> QED
    BY <1>0, <2>1, <2>3, <2>4, NobodyGetsTerms
<1>4. CASE InitTree
  <2>1. /\ M = "waitall" /\ M' = "merge" /\ J' = J /\ ninterms' = ninterms /\ toslave' = toslave
        /\ AllHaveSent /\ program' = program /\ Job(Master).kind = "terms"
    BY <1>4 DEF InitTree, Types
  <2>2. IsKind("terms")
    BY <2>1 DEF Protocol, MasterOK, IsKind, Job
  <2>3. 0 \in has_sent
    <3>1. 1 \in Slaves
      BY ParFormAssumption DEF Slaves
    <3> QED
      BY <2>1, <2>2, <3>1 DEF Protocol, MasterOK, AllHaveSent
  <2>4. Hand' = Hand /\ Dealing
    BY <2>1, <2>2, <2>3 DEF Hand, Dealing
  <2>5. AllAreRead'
    BY <2>1, <2>4 DEF TermsOK, AllAreRead
  <2> QED
    BY <1>0, <2>1, <2>4, <2>5, NobodyGetsTerms
<1>5. CASE NothingFrom(s) \/ HasOutput(s) \/ CatchMessage(s)
  <2>1. /\ J' = J /\ program' = program /\ ninterms' = ninterms /\ toslave' = toslave
        /\ memory' = memory /\ buff' = buff
    BY <1>5 DEF NothingFrom, HasOutput, CatchMessage, master, send
  <2>2. M' = M
    <3>1. pc' = pc \/ Goto(Master, "error")
      BY <1>5 DEF NothingFrom, HasOutput, CatchMessage
    <3>2. M' # "error"
      BY DEF Protocol, MasterOK
    <3> QED
      BY <3>1, <3>2 DEF Types
  <2>3. 0 \in has_sent' <=> 0 \in has_sent
    <3>1. has_sent' = has_sent \/ has_sent' = has_sent \cup {s}
      BY <1>5 DEF NothingFrom, HasOutput, CatchMessage, master, wait
    <3> QED
      BY <3>1
  <2>4. Hand' = Hand /\ (Dealing' <=> Dealing)
    BY <2>1, <2>2, <2>3 DEF Hand, Dealing, IsKind
  <2>5. CASE Dealing
    <3>1. AllAreRead'
      BY <2>1, <2>2, <2>5 DEF TermsOK, AllAreRead
    <3> QED
      BY <1>0, <2>1, <2>4, <2>5, <3>1, NobodyGetsTerms
  <2>6. CASE ~Dealing
    BY <1>0, <2>4, <2>6, NoMoreTerms
  <2> QED
    BY <2>5, <2>6
<1>6. CASE LetGo(s) \/ EndOfExpressions
  <2>1. M' = "waitall" /\ J' = J /\ program' = program
    BY <1>6 DEF LetGo, Probed, EndOfExpressions, Types
  <2>2. IsKind("expressions")
    <3>1. LetGo(s) => IsKind("expressions")
      BY LetGoTo
    <3>2. EndOfExpressions => IsKind("expressions")
      BY DEF EndOfExpressions, Protocol, MasterOK
    <3> QED
      BY <1>6, <3>1, <3>2
  <2>3. ~Dealing'
    BY <2>1, <2>2 DEF Dealing, IsKind
  <2> QED
    BY <1>0, <2>3, NoMoreTerms
<1>7. CASE \/ ReturnLoser /\ M' # "merge"
           \/ CatchErrorMessagesForAll \/ StartExpressions \/ EndExpressions
           \/ CollectStatistics(s) \/ GiveExpression(s)
  <2>1. ReturnLoser => (pc' = pc /\ M = "merge") \/ Goto(Master, "catch")
    BY DEF ReturnLoser
  <2>2. M' \in {"start", "catch", "collect", "give"}
    BY <1>7, <2>1 DEF CatchErrorMessagesForAll, StartExpressions, EndExpressions,
       CollectStatistics, GiveExpression, Types
  <2>3. ~Dealing'
    BY <2>2 DEF Dealing
  <2> QED
    BY <1>0, <2>3, NoMoreTerms
<1>8. CASE GetLoserBelow \/ PutInNothing \/ AddTerms \/ CancelTerms \/ WaitRbuf(s) \/ PutIn(s)
  <2>1. M = "merge" /\ M' = M
    BY <1>8 DEF GetLoserBelow, PutInNothing, AddTerms, CancelTerms, WaitRbuf, PutIn, AtLeaf
  <2> QED
    BY <1>1, <2>1
<1>9. CASE Deliver(s)
  <2>1. M' = M /\ s \in posted
    BY <1>9 DEF Deliver
  <2>2. M \in {"merge", "catch"}
    BY <2>1 DEF Protocol, MasterOK
  <2>3. M = "catch" => ~Dealing'
    BY <2>1 DEF Dealing
  <2> QED
    BY <1>0, <1>1, <2>1, <2>2, <2>3, NoMoreTerms
<1>10. CASE ReturnLoser /\ M' = "merge"
  <2>1. M = "merge"
    BY <1>10 DEF ReturnLoser
  <2> QED
    BY <1>1, <1>10, <2>1
<1> QED
  BY <1>2, <1>3, <1>4, <1>5, <1>6, <1>7, <1>8, <1>9, <1>10 DEF MasterElse

\* The terms of a job that nothing was done of.
LEMMA StartTermsKeepsTerms ==
  ASSUME Types, Protocol, TermsOK, StartTerms
  PROVE  TermsOK'
<1>1. /\ M = "start" /\ M' = "read" /\ J' = J /\ toslave' = toslave /\ ninterms'[Master] = 0
      /\ memory'[buff'[0]].terms = <<>>
  <2>1. buff'[0] \in Procs
    BY Processes DEF StartTerms, Types, Master
  <2>2. memory'[buff'[0]] = [first |-> 1, terms |-> <<>>]
    BY <2>1 DEF StartTerms, EmptyBucket
  <2> QED
    BY <2>2, Processes DEF StartTerms, Types, Goto, M, J
<1>2. IsKind("terms")
  BY DEF StartTerms, IsKind, Job, J
<1>3. Hand' = <<>>
  BY <1>1 DEF Hand
<1>4. ASSUME NEW t \in Slaves PROVE Has(t)' = {} /\ Once(t)'
  <2>1. job[t] = J /\ Fresh(t)
    BY <1>1 DEF Protocol, SlaveOK, AtStart
  <2>2. ~AtKind(t, "expressions")
    BY <1>2, <2>1, SameJob DEF IsKind
  <2>3. /\ toslave[t] = None
        /\ pc[t] = "start" \/ (pc[t] \in {"get", "receive"} /\ infile[t] = <<>> /\ done[t] = <<>>)
    BY <2>1, <2>2 DEF Fresh, Channels
  <2>4. /\ done' = done /\ pc'[t] = pc[t] /\ infile'[t] = infile[t] /\ job'[t] = job[t]
        /\ toslave'[t] = None
    BY <1>1, <2>3, SlavesStay DEF MasterBuckets
  <2>5. Way(t)' = <<>> /\ Input(t)' = <<>> /\ Done(t)' = <<>>
    BY <1>1, <2>1, <2>3, <2>4, NothingOnTheWay DEF Input, Done
  <2> QED
    BY <2>5, NumsOfFew DEF Has, Once
<1>5. EachInOnePlace'
  <2>1. Nums(Hand)' = {} /\ NoRepeat(Hand)'
    BY <1>3, NumsOfFew
  <2>2. \A n : n \notin 1..ninterms'[Master]
    BY <1>1
  <2> QED
    BY <1>4, <2>1, <2>2 DEF EachInOnePlace
<1>6. AllAreRead' /\ done' \in [Slaves -> Seq(TermNumbers)]
  <2>1. 1 \in Slaves
    BY ParFormAssumption DEF Slaves
  <2> QED
    BY <1>1, <2>1, SlavesStay DEF AllAreRead, TermsOK, MasterBuckets
<1> QED
  BY <1>5, <1>6 DEF TermsOK

LEMMA HandIs ==
  ASSUME Types
  PROVE  /\ memory[buff[0]].terms \in Seq(TermNumbers) /\ buff[0] \in Procs
         /\ Hand \in Seq(TermNumbers)
<1>1. buff[0] \in Procs /\ memory[buff[0]] \in Contents
  BY Processes DEF Types, Master
<1>2. memory[buff[0]].terms \in Seq(TermNumbers)
  BY <1>1 DEF Contents
<1> QED
  BY <1>1, <1>2 DEF Hand

LEMMA ReadTermKeepsTerms ==
  ASSUME Types, Protocol, TermsOK, ReadTerm
  PROVE  TermsOK'
<1> DEFINE n == ninterms[Master] + 1
<1>1. /\ M = "read" /\ M' = "read" /\ J' = J /\ toslave' = toslave /\ ninterms'[Master] = n
      /\ buff' = buff /\ memory' = [memory EXCEPT ![buff[0]].terms = Append(@, n)]
  BY Processes DEF ReadTerm, Types, M, J
<1>2. Hand' = Append(Hand, n) /\ Hand \in Seq(TermNumbers)
  BY <1>1, HandIs DEF Hand, Types
<1>3. ninterms[Master] \in Nat /\ n \in TermNumbers
  BY DEF Types, TermNumbers
<1>4. Dealing /\ EachInOnePlace
  BY <1>1 DEF Dealing, TermsOK
<1>5. n \notin Nums(Hand) /\ \A t \in Slaves : n \notin Has(t)
  <2>1. n \notin 1..ninterms[Master]
    BY <1>3
  <2> QED
    BY <1>4, <2>1 DEF EachInOnePlace
<1>6. Nums(Hand)' = Nums(Hand) \cup {n} /\ NoRepeat(Hand)'
  <2>1. Hand' = Hand \o <<n>> /\ Hand \in Seq(Nat) /\ <<n>> \in Seq(Nat)
    <3>1. \A q \in Seq(Nat), k \in Nat : Append(q, k) = q \o <<k>> /\ <<k>> \in Seq(Nat)
      OBVIOUS
    <3>2. Hand \in Seq(Nat) /\ n \in Nat
      BY <1>2, <1>3 DEF TermNumbers
    <3> QED
      BY <1>2, <3>1, <3>2
  <2>2. Nums(<<n>>) = {n} /\ NoRepeat(<<n>>)
    BY <1>3, NumsOfFew DEF TermNumbers
  <2>3. NoRepeat(Hand)
    BY <1>4 DEF EachInOnePlace
  <2>4. Nums(Hand \o <<n>>) = Nums(Hand) \cup {n} /\ NoRepeat(Hand \o <<n>>)
    BY <1>5, <2>1, <2>2, <2>3, NumsJoin
  <2> QED
    BY <2>1, <2>4
<1>7. \A t \in Slaves : Has(t)' = Has(t) /\ Once(t)'
  BY <1>1, <1>4, SlavesStay, KeepsTerms, SameParts DEF MasterBuckets, EachInOnePlace
<1>8. \A k : k \in 1..n <=> k \in 1..ninterms[Master] \/ k = n
  BY <1>3
<1>9. EachInOnePlace'
  BY <1>1, <1>4, <1>5, <1>6, <1>7, <1>8 DEF EachInOnePlace
<1>10. AllAreRead' /\ done' \in [Slaves -> Seq(TermNumbers)]
  <2>1. 1 \in Slaves
    BY ParFormAssumption DEF Slaves
  <2> QED
    BY <1>1, <2>1, SlavesStay DEF AllAreRead, TermsOK, MasterBuckets
<1> QED
  BY <1>9, <1>10 DEF TermsOK

\* A slave that has asked for terms gets those in the hand of the master.
LEMMA BucketToSlave ==
  ASSUME Types, Protocol, TermsOK, NEW s \in Slaves, SendBucket(s) \/ SendLast(s), J' = J,
         Channels(s, None, Word("READY")), pc[s] = "receive",
         NEW t \in {"TERM", "ENDSORT"}, NEW b, NEW c, ToSlave(s, Bucket(t, b, c)),
         c.terms = Hand, EachInOnePlace
  PROVE  /\ Has(s)' = Has(s) \cup Nums(Hand) /\ Once(s)'
         /\ \A u \in Slaves \ {s} : Has(u)' = Has(u) /\ Once(u)'
<1>1. /\ done' = done
      /\ \A u \in Slaves : pc'[u] = pc[u] /\ infile'[u] = infile[u] /\ job'[u] = job[u]
  BY SlavesStay DEF MasterElse, MasterBuckets
<1>2. toslave'[s] = << Bucket(t, b, c) >> /\ \A u \in Slaves \ {s} : toslave'[u] = toslave[u]
  BY BucketFacts DEF Channels, ToSlave, Types
<1>3. \A u \in Slaves \ {s} : Has(u)' = Has(u) /\ Once(u)'
  BY <1>1, <1>2, KeepsTerms, SameParts DEF EachInOnePlace
<1>4. SentBucket(s)' /\ toslave'[s][1].content = c
  <2>1. toslave'[s][1] = Bucket(t, b, c) /\ toslave'[s] # None
    BY <1>2, BucketFacts, OneMessage
  <2> QED
    BY <2>1, BucketFacts DEF SentBucket
<1>5. Way(s) = <<>> /\ Way(s)' = Hand
  BY <1>4, NothingOnTheWay DEF Channels, Way
<1>6. Input(s) = <<>> /\ Input(s)' = <<>> /\ Done(s) = done[s] /\ Done(s)' = done[s]
  BY <1>1 DEF Input, Done
<1>7. NoRepeat(Hand) /\ Nums(Hand) \cap Has(s) = {} /\ Once(s)
  BY DEF EachInOnePlace
<1>8. Has(s)' = Has(s) \cup Nums(Hand)
  BY <1>5, <1>6, NumsOfFew DEF Has
<1>9. Once(s)'
  BY <1>5, <1>6, <1>7, NumsOfFew DEF Has, Once
<1> QED
  BY <1>3, <1>8, <1>9

LEMMA SendBucketKeepsTerms ==
  ASSUME Types, Protocol, MemoryOK, TermsOK, NEW s \in Slaves, SendBucket(s)
  PROVE  TermsOK'
<1> DEFINE n == ninterms[Master] + 1
<1>1. /\ M = "read" /\ TagFrom(s) = "READY" /\ pc[s] = "receive" /\ pc' = pc
      /\ Channels(s, None, Word("READY"))
      /\ ToSlave(s, Bucket("TERM", buff'[s], memory[buff[0]]))
  BY SendBucketTo
<1>2. /\ J' = J /\ ninterms'[Master] = n /\ buff' = ExchangeBuffers(s)
      /\ memory' = [memory EXCEPT ![buff'[0]] = [first |-> n, terms |-> <<n>>]]
  BY <1>1, Processes DEF SendBucket, Types, J
<1>3. Hand = memory[buff[0]].terms
  BY <1>1 DEF Hand
<1>4. Hand' = <<n>>
  <2>1. buff'[0] \in Procs
    BY <1>2, Processes, MasterBucketsKeepTypes DEF MasterBuckets, Types, Master
  <2>2. memory'[buff'[0]].terms = <<n>>
    BY <1>2, <2>1 DEF Types
  <2>3. M' = "read"
    BY <1>1 DEF M
  <2> QED
    BY <2>2, <2>3 DEF Hand
<1>5. Dealing /\ EachInOnePlace
  BY <1>1 DEF Dealing, TermsOK
<1>6. ninterms[Master] \in Nat /\ n # 0
  BY DEF Types
<1>7. Nums(Hand)' = {n} /\ NoRepeat(Hand)'
  BY <1>4, <1>6, NumsOfFew
<1>8. /\ Has(s)' = Has(s) \cup Nums(Hand) /\ Once(s)'
      /\ \A u \in Slaves \ {s} : Has(u)' = Has(u) /\ Once(u)'
  BY <1>1, <1>2, <1>3, <1>5, BucketToSlave
<1>9. Nums(Hand)' \cap 1..ninterms[Master] = {}
  BY <1>6, <1>7
<1>10. 1..ninterms'[Master] = 1..ninterms[Master] \cup Nums(Hand)'
  BY <1>2, <1>6, <1>7
<1>11. EachInOnePlace'
  BY <1>5, <1>7, <1>8, <1>9, <1>10, TermsGiven
<1>12. AllAreRead' /\ done' \in [Slaves -> Seq(TermNumbers)]
  BY <1>1, SlavesStay DEF AllAreRead, TermsOK, MasterBuckets, M
<1> QED
  BY <1>11, <1>12 DEF TermsOK

LEMMA SendLastKeepsTerms ==
  ASSUME Types, Protocol, TermsOK, NEW s \in Slaves, SendLast(s)
  PROVE  TermsOK'
<1>1. /\ M = "waitall" /\ J' = J /\ ninterms' = ninterms /\ program' = program
      /\ has_sent' = has_sent \cup {0} /\ M' \in {"waitsends", "waitall"} /\ M' # "read"
  BY Processes DEF SendLast, Probed, Goto, Types, M, J
<1>2. IsKind("terms") /\ pc[s] = "receive" /\ Channels(s, None, Word("READY"))
  BY SendLastTo
<1>3. Dealing /\ EachInOnePlace /\ AllAreRead
  BY <1>1, <1>2 DEF Dealing, TermsOK
<1>4. Hand' = <<>>
  BY <1>1 DEF Hand
<1>5. Nums(Hand)' = {} /\ NoRepeat(Hand)'
  BY <1>4, NumsOfFew
<1>6. \E b, c : ToSlave(s, Bucket("ENDSORT", b, c)) /\ c.terms = Hand
  <2>1. CASE LastBucket
    <3>1. ToSlave(s, Bucket("ENDSORT", buff[0], memory'[buff[0]])) /\ memory' = memory
      BY <2>1 DEF SendLast
    <3>2. memory[buff[0]].terms = Hand
      BY <1>1, <2>1 DEF Hand, LastBucket
    <3> QED
      BY <3>1, <3>2
  <2>2. CASE ~LastBucket
    <3>1. /\ ToSlave(s, Bucket("ENDSORT", buff[s], memory'[buff[s]]))
          /\ memory' = [memory EXCEPT ![buff[s]] = [first |-> ninterms[Master], terms |-> <<>>]]
      BY <2>2 DEF SendLast
    <3>2. memory'[buff[s]].terms = <<>>
      BY <3>1, Processes DEF Types
    <3>3. Hand = <<>>
      BY <1>1, <2>2 DEF Hand, LastBucket
    <3> QED
      BY <3>1, <3>2, <3>3
  <2> QED
    BY <2>1, <2>2
<1>7. PICK b, c : ToSlave(s, Bucket("ENDSORT", b, c)) /\ c.terms = Hand
  BY <1>6
<1>8. /\ Has(s)' = Has(s) \cup Nums(Hand) /\ Once(s)'
      /\ \A u \in Slaves \ {s} : Has(u)' = Has(u) /\ Once(u)'
  BY <1>1, <1>2, <1>3, <1>7, BucketToSlave
<1>9. EachInOnePlace'
  BY <1>1, <1>3, <1>5, <1>8, TermsGiven
<1>10. AllAreRead' /\ done' \in [Slaves -> Seq(TermNumbers)]
  BY <1>1, <1>3, SlavesStay DEF AllAreRead, TermsOK, MasterBuckets
<1> QED
  BY <1>9, <1>10 DEF TermsOK

LEMMA NextKeepsTerms ==
  ASSUME Types, Protocol, MemoryOK, TermsOK, Next, Protocol'
  PROVE  TermsOK'
<1>1. CASE \E s \in Slaves : SlaveStep(s) \/ PrintMessage(s)
  BY <1>1, SlaveKeepsTerms
<1>2. CASE \E s \in Slaves : Deliver(s)
  BY <1>2, OthersKeepTerms
<1>3. CASE MasterStep
  <2>1. PICK s \in Slaves : MasterElse(s) \/ MasterBuckets(s)
    BY <1>3, MasterSteps
  <2> QED
    BY <2>1, OthersKeepTerms, StartTermsKeepsTerms, ReadTermKeepsTerms, SendBucketKeepsTerms,
       SendLastKeepsTerms DEF MasterBuckets
<1> QED
  BY <1>1, <1>2, <1>3 DEF Next

\* When the merge starts all terms are done.
LEMMA DoneAtMerge ==
  ASSUME Types, Protocol, TermsOK, M = "merge"
  PROVE  EachTermOnce
<1>1. EachInOnePlace /\ AllAreRead /\ done \in [Slaves -> Seq(TermNumbers)]
  BY DEF TermsOK, Dealing
<1>2. ninterms[Master] = Len(Terms)
  BY <1>1 DEF AllAreRead, Terms, Job, J
<1>3. ASSUME NEW s \in Slaves PROVE Has(s) = Nums(done[s]) /\ NoRepeat(done[s])
  <2>1. Finishing(s)
    BY DEF Protocol, SlaveOK, AtMerge
  <2>2. J \in Nat
    BY Processes DEF Types, J
  <2>3. /\ pc[s] \in {"putout", "sent", "start"} /\ toslave[s] = None
        /\ pc[s] = "start" => job[s] # J
    BY <2>1, <2>2 DEF Finishing, Sending, Sent, Left, Channels, Prints
  <2>4. Way(s) = <<>> /\ Input(s) = <<>> /\ Done(s) = done[s]
    BY <2>3, NothingOnTheWay DEF Input, Done
  <2>5. Once(s)
    BY <1>1 DEF EachInOnePlace
  <2> QED
    BY <2>4, <2>5, NumsOfFew DEF Has, Once
<1>4. Nums(Hand) = {}
  <2>1. Hand = <<>>
    BY DEF Hand
  <2> QED
    BY <2>1, NumsOfFew
<1>5. \A n : n \in 1..Len(Terms) <=> \E s \in Slaves : n \in Nums(done[s])
  BY <1>1, <1>2, <1>3, <1>4 DEF EachInOnePlace
<1>6. ASSUME NEW n \in 1..Len(Terms)
      PROVE  \E s \in Slaves : \E i \in DOMAIN done[s] : done[s][i] = n
  BY <1>5 DEF Nums
<1>7. ASSUME NEW s \in Slaves, NEW i \in DOMAIN done[s]
      PROVE  done[s][i] # 0 /\ done[s][i] \in Nums(done[s]) /\ done[s][i] \in 1..Len(Terms)
  <2>1. done[s][i] # 0
    BY <1>1 DEF TermNumbers
  <2> QED
    BY <1>5, <2>1 DEF Nums
<1>8. ASSUME NEW s \in Slaves, NEW i \in DOMAIN done[s], NEW t \in Slaves, NEW k \in DOMAIN done[t],
             done[s][i] = done[t][k]
      PROVE  s = t /\ i = k
  <2>1. done[s][i] \in Has(s) /\ done[s][i] \in Has(t) /\ done[s][i] # 0
    BY <1>3, <1>7, <1>8
  <2>2. s = t
    BY <1>1, <2>1 DEF EachInOnePlace
  <2> QED
    BY <1>3, <1>8, <2>1, <2>2 DEF NoRepeat
<1> QED
  BY <1>6, <1>7, <1>8 DEF EachTermOnce

\* When the merge starts every term has been done by one slave, once (EachTermOnce), for every
\* number of slaves and of terms and every size of the buckets: until then each term that was
\* read is in the hand of the master, on the way, in the input of a slave or done, and in one
\* of these places only (EachInOnePlace).
THEOREM EachTermIsDoneOnce == Spec => []EachTermOnce
<1>1. Init => TermsOK
  <2>1. SUFFICES ASSUME Init PROVE TermsOK
    OBVIOUS
  <2>2. M = "start"
    BY <2>1, Processes DEF Init, M
  <2>3. <<>> \in Seq(TermNumbers) /\ done = [s \in Slaves |-> <<>>]
    BY <2>1 DEF Init
  <2> QED
    BY <2>2, <2>3 DEF TermsOK, Dealing
<1>2. Types /\ Protocol /\ MemoryOK /\ TermsOK /\ [Next]_vars /\ Protocol' => TermsOK'
  <2>1. CASE UNCHANGED vars
    <3>1. SUFFICES ASSUME Types, Protocol, TermsOK PROVE TermsOK'
      OBVIOUS
    <3>2. /\ M' = M /\ J' = J /\ program' = program /\ ninterms' = ninterms /\ done' = done
          /\ toslave' = toslave /\ memory' = memory /\ buff' = buff /\ has_sent' = has_sent
          /\ pc' = pc /\ infile' = infile /\ job' = job
      BY <2>1 DEF M, J, vars, master, send, wait, slave, input
    <3>3. Hand' = Hand /\ (Dealing' <=> Dealing)
      BY <3>2 DEF Hand, Dealing, IsKind
    <3>4. ASSUME Dealing PROVE EachInOnePlace' /\ AllAreRead'
      <4>1. \A t \in Slaves : Has(t)' = Has(t) /\ Once(t)'
        BY <3>1, <3>2, <3>4, KeepsTerms, SameParts DEF TermsOK, EachInOnePlace
      <4> QED
        BY <3>1, <3>2, <3>3, <3>4, <4>1, TermsStay DEF TermsOK, AllAreRead
    <3> QED
      BY <3>1, <3>2, <3>3, <3>4 DEF TermsOK
  <2>2. CASE Next
    BY <2>2, NextKeepsTerms
  <2> QED
    BY <2>1, <2>2
<1>3. Types /\ Protocol /\ TermsOK => EachTermOnce
  BY DoneAtMerge DEF EachTermOnce, M
<1> QED
  BY <1>1, <1>2, <1>3, ProtocolInvariant, BuffersInvariant, PTL DEF Spec
=============================================================================
