----------------------------- MODULE SortBlocks -----------------------------
(***************************************************************************)
(* One input stream of the final sort of TFORM (form/sources/threads.c):   *)
(* a worker or sortbot writes its sorted terms with PutToMaster into a     *)
(* ring of blocks in the sort buffer of the master, and the master         *)
(* (MasterMerge) or a sortbot (SortBotMerge) reads them while they are     *)
(* being written.  There is one mutex per block and nothing else: the      *)
(* order in which locks are taken and released is the whole protocol.      *)
(*                                                                         *)
(* The buffer is modelled word by word, because the reader may look at a   *)
(* term only after it holds every block the term touches, terms straddle   *)
(* blocks, and what is left at the end of the last block is moved to the   *)
(* place before block 1 (block 0).  A word is <<t,i>>: word i of the t-th  *)
(* term of this stream; word 0 carries the size.                           *)
(***************************************************************************)
EXTENDS Integers, Sequences

CONSTANTS MasterNumBlocks,  \* blocks of the ring, NUMBEROFBLOCKSINSORT or half of it
          BlockSize,        \* words in each of them
          MaxTer,           \* words in block 0, AM.MaxTer/sizeof(WORD)
          TermSizes,        \* the sizes terms can have
          Readers,          \* which routines may read: "MasterMerge", "SortBotMerge"
          MaxTerms,         \* bound: terms in one expression
          MaxRounds         \* bound: expressions sorted through the same ring

COMPINC == 2

\* The ring has ten blocks, or five; IniSortBlocks stops when a block has no room for ten
\* terms of the largest size.
ASSUME RingAssumption ==
  /\ MasterNumBlocks \in Nat /\ MasterNumBlocks >= 2
  /\ MaxTer \in Nat \ {0} /\ BlockSize \in Nat /\ BlockSize >= MaxTer + COMPINC
  /\ TermSizes \subseteq 1..MaxTer
  /\ Readers \subseteq {"MasterMerge", "SortBotMerge"}
  /\ MaxTerms \in Nat /\ MaxRounds \in Nat

-----------------------------------------------------------------------------
(* Layout (IniSortBlocks): block 0, then the ring.  Addresses below 0 are  *)
(* the end of the ring of the neighbouring stream.                         *)

Blocks == 0..MasterNumBlocks
Start(j) == IF j = 0 THEN 0 ELSE MaxTer + (j - 1) * BlockSize
Stop(j)  == IF j = 0 THEN MaxTer ELSE Start(j) + BlockSize
Words    == -(MaxTer + COMPINC)..(Stop(MasterNumBlocks) - 1)
BlockOf(a) == CHOOSE j \in Blocks : Start(j) <= a /\ a < Stop(j)

After(j)  == IF j + 1 > MasterNumBlocks THEN 1 ELSE j + 1
Before(j) == IF j = 1 THEN MasterNumBlocks ELSE j - 1

EndMark == <<0, 0>>
Garbage == <<0, 1>>

VARIABLES
  MasterBlockLock,  \* holder of each block: "free", "writer" or "reader"
  memory,           \* the words of the buffer
  sizes,            \* sizes of the terms put for this expression, in order
  wpc,              \* where the writer is
  FillBlock,        \* the block it fills
  fill,             \* where in it
  left,             \* words of the current term it has still to copy
  ending,           \* it is writing, or has written, the end mark
  reader,           \* the routine that reads
  rpc,              \* where the reader is
  MasterBlock,      \* the block it reads
  poin,             \* address of the term it looks at
  got,              \* the terms it has taken for this expression
  round             \* expressions finished

writervars == <<sizes, wpc, FillBlock, fill, left, ending>>
readervars == <<reader, rpc, MasterBlock, poin, got>>
vars == <<MasterBlockLock, memory, writervars, readervars, round>>

Free(j)   == MasterBlockLock[j] = "free"
Lock(S, who) == MasterBlockLock' = [j \in Blocks |-> IF j \in S THEN who
                                                     ELSE MasterBlockLock[j]]
Unlock(S) == Lock(S, "free")

-----------------------------------------------------------------------------
(* The writer: FINISHEXPRESSION and PutToMaster *)

\* The first block is claimed before any term exists; ThreadClaimedBlock.  The
\* writer was woken after the reader had claimed its last block.
WriterClaim ==
  /\ wpc = "claim" /\ rpc # "claim" /\ Free(1)
  /\ Lock({1}, "writer")
  /\ wpc' = "put" /\ FillBlock' = 1 /\ fill' = Start(1)
  /\ UNCHANGED <<memory, sizes, left, ending, readervars, round>>

\* PutToMaster(term) and PutToMaster(0).
PutTerm(size) ==
  /\ wpc = "put" /\ Len(sizes) < MaxTerms
  /\ sizes' = Append(sizes, size) /\ left' = size
  /\ wpc' = "copy"
  /\ UNCHANGED <<MasterBlockLock, memory, FillBlock, fill, ending, readervars, round>>

PutZero ==
  /\ wpc = "put"
  /\ ending' = TRUE /\ left' = 1
  /\ wpc' = "copy"
  /\ UNCHANGED <<MasterBlockLock, memory, sizes, FillBlock, fill, readervars, round>>

WordsThatFit == IF left < Stop(FillBlock) - fill THEN left ELSE Stop(FillBlock) - fill

\* The inner loop: copy until the term or the block is at its end.
CopyWords ==
  LET t == Len(sizes)
      word(a) == IF ending THEN EndMark ELSE <<t, sizes[t] - left + a - fill>>
  IN /\ wpc = "copy"
     /\ memory' = [a \in Words |-> IF fill <= a /\ a < fill + WordsThatFit
                                   THEN word(a) ELSE memory[a]]
     /\ fill' = fill + WordsThatFit /\ left' = left - WordsThatFit
     /\ wpc' = IF left' > 0 THEN "nextblock" ELSE IF ending THEN "finish" ELSE "put"
     /\ UNCHANGED <<MasterBlockLock, sizes, FillBlock, ending, readervars, round>>

\* "The order is important": the next block is taken before this one is given up.
LockNextBlock ==
  /\ wpc = "nextblock" /\ Free(After(FillBlock))
  /\ Lock({After(FillBlock)}, "writer")
  /\ wpc' = "leaveblock"
  /\ UNCHANGED <<memory, sizes, FillBlock, fill, left, ending, readervars, round>>

LeaveBlock ==
  /\ wpc = "leaveblock"
  /\ Unlock({FillBlock})
  /\ FillBlock' = After(FillBlock) /\ fill' = Start(After(FillBlock))
  /\ wpc' = "copy"
  /\ UNCHANGED <<memory, sizes, left, ending, readervars, round>>

UnlockNothing == UNCHANGED MasterBlockLock

UnlockLastBlock == Unlock({FillBlock})

\* After EndSort: UNLOCK(MasterBlockLock[FillBlock])
WriterFinish ==
  /\ wpc = "finish"
  /\ UnlockLastBlock
  /\ wpc' = "done"
  /\ UNCHANGED <<memory, sizes, FillBlock, fill, left, ending, readervars, round>>

Writer ==
  \/ WriterClaim \/ (\E size \in TermSizes : PutTerm(size)) \/ PutZero \/ CopyWords
  \/ LockNextBlock \/ LeaveBlock \/ WriterFinish

-----------------------------------------------------------------------------
(* The reader *)

\* The master claims block 0 and the last block; a sortbot the last block only.
ReaderClaims == IF reader = "MasterMerge" THEN {0, MasterNumBlocks} ELSE {MasterNumBlocks}

ReaderClaim ==
  /\ rpc = "claim" /\ \A j \in ReaderClaims : Free(j)
  /\ Lock(ReaderClaims, "reader")
  /\ rpc' = "waitclaim"
  /\ UNCHANGED <<memory, writervars, reader, MasterBlock, poin, got, round>>

DoesNotWait == TRUE   \* mutant

\* MasterWaitAllBlocks
WriterHasClaimed == wpc # "claim"

WaitForClaim ==
  /\ rpc = "waitclaim" /\ WriterHasClaimed
  /\ MasterBlock' = 1
  /\ rpc' = "lock" /\ poin' = Start(1)
  /\ UNCHANGED <<MasterBlockLock, memory, writervars, reader, got, round>>

LockBlock ==
  /\ rpc = "lock" /\ Free(MasterBlock)
  /\ Lock({MasterBlock}, "reader")
  /\ rpc' = "use"
  /\ UNCHANGED <<memory, writervars, reader, MasterBlock, poin, got, round>>

SizeAt(a) == IF memory[a] = EndMark \/ memory[a][1] \notin 1..Len(sizes) THEN 0
             ELSE sizes[memory[a][1]]

NextAddress == poin + SizeAt(poin)

\* NextTerm of MasterMerge looks whether the next term reaches the end of the
\* block, SortBotMerge whether there is one that does.
CrossesTooLate == NextAddress >= Stop(MasterBlock)

CrossesBlock ==
  LET size == SizeAt(NextAddress)
  IN IF reader = "MasterMerge"
     THEN size > 0 /\ NextAddress + size + COMPINC >= Stop(MasterBlock)
     ELSE NextAddress >= Stop(MasterBlock)
          \/ (size # 0 /\ NextAddress + size + COMPINC > Stop(MasterBlock))

StaysInBlock ==
  /\ rpc = "use" /\ SizeAt(poin) > 0 /\ ~CrossesBlock
  /\ got' = Append(got, SizeAt(poin))
  /\ poin' = NextAddress
  /\ UNCHANGED <<MasterBlockLock, memory, writervars, reader, rpc, MasterBlock, round>>

\* The remainder of the last block goes to the place before block 1.
Shift == Stop(MasterNumBlocks) - Start(1)

ForgetRemainder == UNCHANGED memory

MoveRemainder ==
  memory' = [a \in Words |-> IF NextAddress - Shift <= a /\ a < Start(1)
                             THEN memory[a + Shift] ELSE memory[a]]

\* The reader keeps the block before the one it reads.
BlockGivenUp == Before(MasterBlock)

CrossBlock ==
  /\ rpc = "use" /\ SizeAt(poin) > 0 /\ CrossesBlock
  /\ got' = Append(got, SizeAt(poin))
  /\ Unlock({BlockGivenUp})
  /\ IF MasterBlock = MasterNumBlocks
     THEN MoveRemainder /\ poin' = NextAddress - Shift
     ELSE poin' = NextAddress /\ UNCHANGED memory
  /\ MasterBlock' = After(MasterBlock)
  /\ rpc' = "lock"
  /\ UNCHANGED <<writervars, reader, round>>

BlocksReleased == {MasterBlock, Before(MasterBlock)}
                  \cup (IF reader = "MasterMerge" THEN {0} ELSE {})

ReaderFinish ==
  /\ rpc = "use" /\ SizeAt(poin) = 0
  /\ Unlock(BlocksReleased)
  /\ rpc' = "done"
  /\ UNCHANGED <<memory, writervars, reader, MasterBlock, poin, got, round>>

Reader ==
  \/ ReaderClaim \/ WaitForClaim \/ LockBlock \/ StaysInBlock \/ CrossBlock
  \/ ReaderFinish

-----------------------------------------------------------------------------
\* The next expression uses the same ring (MasterWaitAll, MasterWaitAllSortBots).  The
\* words left in it stand for anything that is not a word of the new stream.
NextExpression ==
  /\ wpc = "done" /\ rpc = "done" /\ round < MaxRounds
  /\ round' = round + 1
  /\ sizes' = <<>> /\ got' = <<>> /\ ending' = FALSE
  /\ wpc' = "claim" /\ rpc' = "claim"
  /\ memory' = [a \in Words |-> Garbage]
  /\ UNCHANGED <<MasterBlockLock, FillBlock, fill, left, reader, MasterBlock, poin>>

Init ==
  /\ MasterBlockLock = [j \in Blocks |-> "free"]
  /\ memory = [a \in Words |-> Garbage]
  /\ sizes = <<>> /\ wpc = "claim" /\ FillBlock = 0 /\ fill = 0 /\ left = 0
  /\ ending = FALSE
  /\ reader \in Readers /\ rpc = "claim" /\ MasterBlock = 0 /\ poin = 0 /\ got = <<>>
  /\ round = 0

Next == Writer \/ Reader \/ NextExpression

\* Two threads that the operating system both schedules; a mutex that stays free is
\* obtained.
Spec == Init /\ [][Next]_vars /\ WF_vars(Writer) /\ WF_vars(Reader)

-----------------------------------------------------------------------------
(* Properties *)

TypeOK ==
  /\ MasterBlockLock \in [Blocks -> {"free", "writer", "reader"}]
  /\ DOMAIN memory = Words
  /\ Len(sizes) \in 0..MaxTerms /\ Len(got) \in 0..MaxTerms
  /\ wpc \in {"claim", "put", "copy", "nextblock", "leaveblock", "finish", "done"}
  /\ rpc \in {"claim", "waitclaim", "lock", "use", "done"}
  /\ FillBlock \in Blocks /\ MasterBlock \in Blocks
  /\ poin \in Words /\ left \in 0..MaxTer /\ ending \in BOOLEAN
  /\ reader \in Readers /\ round \in 0..MaxRounds

\* "We always keep the previous block ... to keep the front from overrunning the
\* tail": whenever the reader looks at a term, that term is there complete and it is
\* the next one of the stream; when it sees the end mark, it has had every term.
TermIsIntact ==
  rpc = "use" =>
    \/ /\ Len(got) < Len(sizes)
       /\ \A i \in 0..sizes[Len(got)+1]-1 :
             poin + i \in Words /\ memory[poin + i] = <<Len(got) + 1, i>>
    \/ memory[poin] = EndMark /\ ending /\ got = sizes

\* Reader and writer never touch a word of the same block: the words of the term the
\* reader looks at are in block 0 or in blocks whose mutex it holds.
ReadsOnlyHeldBlocks ==
  rpc = "use" =>
    \A a \in poin..poin + SizeAt(poin) - 1 :
       a < Start(1) \/ MasterBlockLock[BlockOf(a)] = "reader"

\* The ring of blocks is a term stream.
Stream == INSTANCE TermStream WITH
            Sizes <- TermSizes, sent <- sizes, ended <- ending, received <- got
ImplementsStream == Stream!Spec

\* With at least three blocks neither side waits for the other for ever: every
\* expression is sorted to its end.
EveryExpressionEnds == (wpc = "claim") ~> (wpc = "done" /\ rpc = "done")
=============================================================================
