-------------------------- MODULE SortBlocksProofs --------------------------
(***************************************************************************)
(* The ring of blocks for any number and size of blocks and any terms: the *)
(* reader sees every term whole, touches only blocks it holds, and the     *)
(* ring implements TermStream.                                             *)
(***************************************************************************)
EXTENDS SortBlocks, SequenceTheorems, TLAPS

Ring == 1..MasterNumBlocks

\* Positions are counted from the block that the reader keeps behind the one it reads: the
\* Tail.  The ring is laid out from there, one block after the other, up to the writer.
Now     == IF rpc \in {"lock", "use"} THEN MasterBlock ELSE 1
Tail_   == Start(Before(Now))
AddressFrom(tail, p) == IF tail + p < Stop(MasterNumBlocks) THEN tail + p ELSE tail + p - Shift
Address(p) == AddressFrom(Tail_, p)
Position(tail, j, a) == IF Start(j) >= tail THEN a - tail ELSE a - tail + Shift
FillPos == Position(Tail_, FillBlock, fill)

Running == wpc # "claim" /\ rpc \in {"waitclaim", "lock", "use"}
K       == Len(got) + 1   \* the term the reader looks at
EndSize == IF ending THEN 1 ELSE 0

WriterStates == {"claim", "put", "copy", "nextblock", "leaveblock", "finish", "done"}
ReaderStates == {"claim", "waitclaim", "lock", "use", "done"}

Types ==
  /\ wpc \in WriterStates /\ rpc \in ReaderStates /\ reader \in Readers
  /\ sizes \in Seq(TermSizes) /\ got \in Seq(TermSizes)
  /\ left \in 0..MaxTer /\ poin \in Int
  /\ memory = [a \in Words |-> memory[a]]

EndingType == ending \in BOOLEAN

\* Who holds which lock follows from where the two are, and nothing is held twice.
WriterHolds == IF wpc \in {"claim", "done"} THEN {}
               ELSE IF wpc = "leaveblock" THEN {FillBlock, After(FillBlock)}
               ELSE {FillBlock}
Front == IF reader = "MasterMerge" THEN {0} ELSE {}
ReaderHolds == IF rpc \in {"claim", "done"} THEN {}
               ELSE IF rpc = "waitclaim" THEN {MasterNumBlocks} \cup Front
               ELSE IF rpc = "lock" THEN {Before(MasterBlock)} \cup Front
               ELSE {MasterBlock, Before(MasterBlock)} \cup Front

LocksInStep ==
  /\ WriterHolds \cap ReaderHolds = {}
  /\ MasterBlockLock = [j \in Blocks |-> IF j \in WriterHolds THEN "writer"
                                         ELSE IF j \in ReaderHolds THEN "reader" ELSE "free"]

WriterInStep ==
  /\ wpc # "claim" => FillBlock \in Ring /\ fill \in Start(FillBlock)..Stop(FillBlock)
  /\ wpc \in {"claim", "put", "finish", "done"} => left = 0
  /\ wpc \in {"copy", "nextblock", "leaveblock"} => left > 0
  /\ wpc \in {"nextblock", "leaveblock"} => fill = Stop(FillBlock)
  /\ wpc \in {"claim", "put"} => EndSize = 0
  /\ wpc \in {"finish", "done"} => EndSize = 1
  /\ wpc = "claim" => sizes = <<>>
  /\ left > 0 => IF EndSize = 1 THEN left = 1
                 ELSE Len(sizes) > 0 /\ left <= sizes[Len(sizes)]

ReaderInStep ==
  /\ rpc \in {"lock", "use", "done"} => MasterBlock \in Ring
  /\ rpc = "claim" => wpc = "claim"
  /\ wpc = "claim" => rpc \in {"claim", "waitclaim"}
  /\ rpc \in {"claim", "waitclaim"} => got = <<>>
  /\ rpc = "done" => got = sizes /\ wpc \in {"finish", "done"}
  /\ Len(got) <= Len(sizes) /\ \A t \in 1..Len(got) : got[t] = sizes[t]

\* Term t starts at position pos[t], one term after the other up to where the writer is.
Spaced(pos) ==
  /\ \A t \in 1..Len(sizes) : pos[t+1] = pos[t] + sizes[t]
  /\ \A s, t \in 1..Len(sizes)+1 : s <= t => pos[s] <= pos[t]
  /\ FillPos = pos[Len(sizes)+1] + EndSize - left

\* What was written and not taken is still there.
WordsInPlace(pos) ==
  /\ \A t \in K..Len(sizes) : \A i \in 0..sizes[t]-1 :
       pos[t] + i < FillPos => memory[Address(pos[t] + i)] = <<t, i>>
  /\ EndSize = 1 /\ left = 0 => memory[Address(pos[Len(sizes)+1])] = EndMark

\* The reader is at its term, in the block it reads or the one it keeps.  Before block 1 it
\* has a copy of the end of the last block.
ReaderInPlace(pos) ==
  /\ pos[K] >= 0
  /\ rpc = "waitclaim" => pos[K] = BlockSize
  /\ rpc = "lock" => pos[K] <= BlockSize
  /\ rpc = "use" => pos[K] < 2 * BlockSize /\ (K <= Len(sizes) => pos[K+1] < 2 * BlockSize)
  /\ rpc \in {"lock", "use"} => poin = Start(Now) - BlockSize + pos[K]

Remainder(pos) ==
  Now = 1 => /\ pos[K] >= BlockSize - MaxTer - COMPINC
             /\ \A p \in pos[K]..BlockSize-1 :
                  memory[Start(1) - BlockSize + p] = memory[Address(p)]

Layout(pos) == Spaced(pos) /\ WordsInPlace(pos) /\ ReaderInPlace(pos) /\ Remainder(pos)

TermsInPlace == Running => \E pos \in [1..Len(sizes)+1 -> Int] : Layout(pos)

IInv == /\ Types /\ EndingType /\ LocksInStep /\ WriterInStep /\ ReaderInStep
        /\ TermsInPlace

-----------------------------------------------------------------------------
(* The ring *)

LEMMA TimesMonotone ==
  ASSUME NEW x \in Nat, NEW y \in Nat, NEW q \in Nat, x <= y
  PROVE  x * q <= y * q
<1>1. PICK d \in Nat : y = x + d
  <2>1. y - x \in Nat /\ y = x + (y - x)
    OBVIOUS
  <2>2. QED
    BY <2>1
<1>2. y * q = x * q + d * q /\ d * q \in Nat /\ x * q \in Nat
  BY <1>1
<1>3. QED
  BY <1>2

LEMMA Sizes ==
  /\ MasterNumBlocks \in Nat /\ MasterNumBlocks >= 2 /\ MaxTer \in Nat /\ MaxTer > 0
  /\ BlockSize \in Nat /\ BlockSize >= MaxTer + COMPINC /\ COMPINC = 2
  /\ TermSizes \subseteq 1..MaxTer
  /\ Ring \subseteq Blocks /\ 1 \in Ring /\ MasterNumBlocks \in Ring /\ 1 # MasterNumBlocks
  /\ 0 \in Blocks /\ 0 \notin Ring /\ Start(1) = MaxTer
BY RingAssumption DEF COMPINC, Ring, Blocks, Start

\* The blocks lie one after the other.
LEMMA BlockFacts ==
  /\ Shift \in Nat /\ Shift >= 2 * BlockSize /\ Stop(MasterNumBlocks) = MaxTer + Shift
  /\ \A j \in Ring : /\ Start(j) \in Nat /\ Stop(j) = Start(j) + BlockSize
                     /\ MaxTer <= Start(j) /\ Stop(j) <= MaxTer + Shift
  /\ \A i, j \in Ring : i < j => Stop(i) <= Start(j)
  /\ \A j \in Ring : j # MasterNumBlocks => j + 1 \in Ring /\ Start(j + 1) = Stop(j)
<1> USE Sizes
<1> DEFINE N == MasterNumBlocks
           B == BlockSize
<1>1. ASSUME NEW j \in Ring
      PROVE  Start(j) = MaxTer + (j - 1) * B /\ Stop(j) = MaxTer + j * B
             /\ (j - 1) * B \in Nat /\ j * B = (j - 1) * B + B /\ j \in Nat /\ j - 1 \in Nat
  <2>1. j \in Nat /\ j # 0 /\ j - 1 \in Nat
    BY DEF Ring
  <2>2. (j - 1) * B \in Nat /\ j * B = (j - 1) * B + B
    BY <2>1
  <2>3. QED
    BY <2>1, <2>2 DEF Start, Stop
<1>2. ASSUME NEW i \in Ring, NEW j \in Ring, i < j PROVE Stop(i) <= Start(j)
  <2>1. i <= j - 1
    BY <1>1, <1>2
  <2>2. i * B <= (j - 1) * B
    BY <1>1, <2>1, TimesMonotone
  <2>3. QED
    BY <1>1, <2>2
<1>3. ASSUME NEW j \in Ring, j # N PROVE j + 1 \in Ring /\ Start(j + 1) = Stop(j)
  <2>1. j + 1 \in Ring /\ (j + 1) - 1 = j
    BY <1>3 DEF Ring
  <2>2. QED
    BY <1>1, <2>1
<1>4. Shift = N * B /\ Stop(N) = MaxTer + N * B
  BY <1>1 DEF Shift
<1>5. 2 * B <= N * B /\ N * B \in Nat
  BY TimesMonotone
<1>6. ASSUME NEW j \in Ring PROVE Stop(j) <= MaxTer + N * B
  <2>1. j \in Nat /\ j <= N
    BY DEF Ring
  <2>2. j * B <= N * B
    BY <2>1, TimesMonotone
  <2>3. QED
    BY <1>1, <1>5, <2>2
<1>7. QED
  BY <1>1, <1>2, <1>3, <1>4, <1>5, <1>6

LEMMA Numbers ==
  /\ BlockSize \in Nat /\ MaxTer \in Nat /\ MaxTer > 0 /\ COMPINC = 2
  /\ BlockSize >= MaxTer + COMPINC
  /\ Shift \in Nat /\ Shift >= 2 * BlockSize
  /\ Stop(MasterNumBlocks) = MaxTer + Shift /\ Start(1) = MaxTer
BY Sizes, BlockFacts

LEMMA Neighbours ==
  ASSUME NEW j \in Ring
  PROVE  /\ After(j) \in Ring /\ Before(j) \in Ring /\ After(j) # j /\ Before(j) # j
         /\ Before(After(j)) = j /\ After(Before(j)) = j
         /\ Start(After(j)) = IF j = MasterNumBlocks THEN MaxTer ELSE Stop(j)
         /\ Start(Before(j)) = IF j = 1 THEN MaxTer + Shift - BlockSize ELSE Start(j) - BlockSize
<1>1. j \in Nat /\ 1 <= j /\ j <= MasterNumBlocks /\ MasterNumBlocks \in Nat /\ MasterNumBlocks >= 2
  BY Sizes DEF Ring
<1>2. /\ After(j) \in Ring /\ Before(j) \in Ring /\ After(j) # j /\ Before(j) # j
      /\ Before(After(j)) = j /\ After(Before(j)) = j
  BY <1>1 DEF After, Before, Ring
<1>3. Start(After(j)) = IF j = MasterNumBlocks THEN MaxTer ELSE Stop(j)
  <2>1. After(j) = IF j = MasterNumBlocks THEN 1 ELSE j + 1
    BY <1>1 DEF After
  <2>2. QED
    BY <2>1, BlockFacts, Sizes
<1>4. Start(Before(j)) = IF j = 1 THEN MaxTer + Shift - BlockSize ELSE Start(j) - BlockSize
  <2>1. CASE j = 1
    <3>1. Before(j) = MasterNumBlocks
      BY <2>1 DEF Before
    <3>2. QED
      BY <2>1, <3>1, BlockFacts, Sizes
  <2>2. CASE j # 1
    <3>1. Before(j) = j - 1 /\ j - 1 \in Ring /\ j - 1 # MasterNumBlocks /\ (j - 1) + 1 = j
      BY <1>1, <2>2 DEF Before, Ring
    <3>2. Start((j - 1) + 1) = Stop(j - 1) /\ Stop(j - 1) = Start(j - 1) + BlockSize
          /\ Start(j - 1) \in Nat
      BY <3>1, BlockFacts
    <3>3. QED
      BY <2>2, <3>1, <3>2, Sizes
  <2>3. QED
    BY <2>1, <2>2
<1>5. QED
  BY <1>2, <1>3, <1>4

\* Positions and addresses, counted from block j.
LEMMA Addresses ==
  ASSUME NEW j \in Ring, NEW p \in 0..Shift-1
  PROVE  /\ AddressFrom(Start(j), p) \in MaxTer..MaxTer+Shift-1
         /\ AddressFrom(Start(j), p) \in Words
         /\ \A q \in 0..Shift-1 : AddressFrom(Start(j), p) = AddressFrom(Start(j), q) => p = q
<1>1. /\ Start(j) \in Nat /\ MaxTer <= Start(j) /\ Start(j) + BlockSize <= MaxTer + Shift
      /\ Stop(MasterNumBlocks) = MaxTer + Shift /\ Shift \in Nat
  BY BlockFacts
<1>2. \A x \in MaxTer..MaxTer+Shift-1 : x \in Words
  BY <1>1, Sizes DEF Words
<1>3. QED
  BY <1>1, <1>2, Sizes DEF AddressFrom

LEMMA Positions ==
  ASSUME NEW j \in Ring, NEW f \in Ring, NEW a \in Start(f)..Stop(f)
  PROVE  LET P == Position(Start(j), f, a) IN
         /\ P \in 0..Shift
         /\ f = j => P <= BlockSize
         /\ f # j => P >= BlockSize
         /\ f # j /\ f # After(j) => P >= 2 * BlockSize
         /\ f = After(j) => P <= 2 * BlockSize
         /\ \A x \in Nat : a + x < Stop(f) => P + x < Shift
                                              /\ AddressFrom(Start(j), P + x) = a + x
<1> DEFINE P == Position(Start(j), f, a)
<1>1. /\ Stop(MasterNumBlocks) = MaxTer + Shift /\ Shift \in Nat /\ Shift >= 2 * BlockSize
      /\ \A b \in Ring : /\ Start(b) \in Nat /\ Stop(b) = Start(b) + BlockSize
                         /\ MaxTer <= Start(b) /\ Stop(b) <= MaxTer + Shift
      /\ \A b, c \in Ring : b < c => Stop(b) <= Start(c)
  BY BlockFacts
<1>2. /\ After(j) \in Ring /\ After(j) # j
      /\ Start(After(j)) = IF j = MasterNumBlocks THEN MaxTer ELSE Stop(j)
  BY Neighbours
<1>3. \A b \in Ring : b \in Nat /\ b <= MasterNumBlocks
  BY Sizes DEF Ring
<1>4. a \in Int /\ Start(f) <= a /\ a <= Stop(f) /\ Stop(f) = Start(f) + BlockSize
  BY <1>1, Sizes
<1>5. CASE f = j
  BY <1>1, <1>2, <1>4, <1>5, Sizes DEF Position, AddressFrom
<1>6. CASE f > j
  <2>1. Stop(j) <= Start(f) /\ Start(f) >= Start(j)
    BY <1>1, <1>6, Sizes
  <2>2. j # MasterNumBlocks
    BY <1>3, <1>6, Sizes
  <2>3. f # After(j) => Start(f) >= Start(After(j)) + BlockSize
    <3>1. f # After(j) => After(j) < f
      BY <1>2, <1>3, <1>6, <2>2 DEF After
    <3>2. QED
      BY <1>1, <1>2, <3>1
  <2>4. P = a - Start(j)
    BY <2>1 DEF Position
  <2>5. f # j
    BY <1>3, <1>6
  <2> HIDE DEF P
  <2>6. \A x \in Nat : a + x < Stop(f) => P + x < Shift /\ AddressFrom(Start(j), P + x) = a + x
    <3>1. ASSUME NEW x \in Nat, a + x < Stop(f)
          PROVE  P + x < Shift /\ Start(j) + (P + x) = a + x /\ a + x < MaxTer + Shift
      BY <1>1, <1>4, <2>4, <3>1, Sizes
    <3>2. QED
      BY <1>1, <3>1 DEF AddressFrom
  <2>7. P \in 0..Shift /\ P >= BlockSize
    BY <1>1, <1>4, <2>1, <2>4, Sizes
  <2>8. f # After(j) => P >= 2 * BlockSize
    BY <1>1, <1>2, <1>4, <2>2, <2>3, <2>4, Sizes
  <2>9. f = After(j) => P <= 2 * BlockSize
    BY <1>1, <1>2, <1>4, <2>2, <2>4, Sizes
  <2>10. QED
    BY <2>5, <2>6, <2>7, <2>8, <2>9 DEF P
<1>7. CASE f < j
  <2>1. Stop(f) <= Start(j) /\ ~(Start(f) >= Start(j)) /\ f # j
    BY <1>1, <1>3, <1>7, Sizes
  <2>2. f # After(j) \/ (f = 1 /\ j = MasterNumBlocks)
    BY <1>3, <1>7, Sizes DEF After
  <2>3. P = a - Start(j) + Shift
    BY <2>1 DEF Position
  <2> HIDE DEF P
  <2>4. \A x \in Nat : a + x < Stop(f) => P + x < Shift /\ AddressFrom(Start(j), P + x) = a + x
    <3>1. ASSUME NEW x \in Nat, a + x < Stop(f)
          PROVE  /\ P + x < Shift /\ ~(Start(j) + (P + x) < MaxTer + Shift)
                 /\ Start(j) + (P + x) - Shift = a + x
      BY <1>1, <1>4, <2>1, <2>3, <3>1, Sizes
    <3>2. QED
      BY <1>1, <3>1 DEF AddressFrom
  <2>5. P \in 0..Shift /\ P >= BlockSize
    BY <1>1, <1>4, <2>1, <2>3, Sizes
  <2>6. f # After(j) => P >= 2 * BlockSize
    <3>1. CASE j = MasterNumBlocks
      <4>1. f # After(j) => 1 < f
        BY <1>2, <1>3, <3>1 DEF After, Ring
      <4>2. f # After(j) => Start(f) >= MaxTer + BlockSize
        BY <1>1, <4>1, Sizes
      <4>3. QED
        BY <1>1, <1>4, <2>3, <3>1, <4>2, Sizes
    <3>2. CASE j # MasterNumBlocks
      <4>1. Stop(j) <= MaxTer + Shift - BlockSize
        <5>1. j < MasterNumBlocks
          BY <1>3, <3>2, Sizes
        <5>2. Stop(j) <= Start(MasterNumBlocks)
          BY <1>1, <5>1, Sizes
        <5>3. QED
          BY <1>1, <5>2, Sizes
      <4>2. QED
        BY <1>1, <1>4, <2>3, <4>1, Sizes
    <3>3. QED
      BY <3>1, <3>2
  <2>7. f = After(j) => P <= 2 * BlockSize
    <3>1. f = After(j) => Start(f) = MaxTer /\ Stop(j) = MaxTer + Shift
      BY <1>1, <1>2, <2>2
    <3>2. QED
      BY <1>1, <1>4, <2>3, <3>1, Sizes
  <2>8. QED
    BY <2>1, <2>4, <2>5, <2>6, <2>7 DEF P
<1>8. QED
  BY <1>3, <1>5, <1>6, <1>7

\* The writer goes on in the next block, unless that is the tail.
LEMMA NextPosition ==
  ASSUME NEW j \in Ring, NEW f \in Ring, After(f) # j
  PROVE  Position(Start(j), After(f), Start(After(f))) = Position(Start(j), f, Stop(f))
<1>1. /\ Stop(MasterNumBlocks) = MaxTer + Shift /\ Shift \in Nat
      /\ \A b \in Ring : /\ Start(b) \in Nat /\ Stop(b) = Start(b) + BlockSize
                         /\ MaxTer <= Start(b) /\ Stop(b) <= MaxTer + Shift
      /\ \A b, c \in Ring : b < c => Stop(b) <= Start(c)
  BY BlockFacts
<1>2. /\ After(f) \in Ring
      /\ Start(After(f)) = IF f = MasterNumBlocks THEN MaxTer ELSE Stop(f)
  BY Neighbours
<1>3. \A b, c \in Ring : b < c \/ c < b \/ b = c
  BY DEF Ring
<1>4. \A b, c \in Ring : Start(b) >= Start(c) => b = c \/ Start(b) >= Stop(c)
  BY <1>1, <1>3, Sizes
<1>5. CASE f = MasterNumBlocks
  <2>1. After(f) = 1
    BY <1>5, Sizes DEF After
  <2>2. j # 1 /\ Start(j) > MaxTer
    <3>1. j # 1 /\ 1 < j
      BY <2>1 DEF Ring
    <3>2. QED
      BY <1>1, <3>1, Sizes
  <2>3. Start(f) >= Start(j)
    <3>1. Start(f) = MaxTer + Shift - BlockSize
      BY <1>1, <1>5, Sizes
    <3>2. QED
      BY <1>1, <3>1, Sizes
  <2>4. QED
    BY <1>1, <1>2, <1>5, <2>2, <2>3, Sizes DEF Position
<1>6. CASE f # MasterNumBlocks
  <2>1. Start(After(f)) = Stop(f)
    BY <1>2, <1>6
  <2>2. Start(After(f)) # Start(j)
    <3>1. After(f) < j \/ j < After(f)
      BY <1>2, <1>3
    <3>2. Stop(After(f)) <= Start(j) \/ Stop(j) <= Start(After(f))
      BY <1>1, <1>2, <3>1
    <3>3. /\ Stop(After(f)) = Start(After(f)) + BlockSize /\ Stop(j) = Start(j) + BlockSize
          /\ Start(After(f)) \in Nat /\ Start(j) \in Nat
      BY <1>1, <1>2
    <3>4. QED
      BY <3>2, <3>3, Sizes
  <2>3. Start(f) >= Start(j) <=> Start(After(f)) >= Start(j)
    <3>1. Start(f) >= Start(j) => Start(After(f)) >= Start(j)
      BY <1>1, <2>1, Sizes
    <3>2. ASSUME Start(After(f)) >= Start(j), ~(Start(f) >= Start(j)) PROVE FALSE
      <4>1. Start(j) >= Start(f) /\ Start(j) # Start(f)
        BY <1>1, <3>2
      <4>2. Start(j) >= Stop(f)
        BY <1>4, <4>1
      <4>3. QED
        BY <1>1, <1>2, <2>1, <2>2, <3>2, <4>2
    <3>3. QED
      BY <3>1, <3>2
  <2>4. QED
    BY <2>1, <2>3 DEF Position
<1>7. QED
  BY <1>5, <1>6

\* The reader goes on: positions count from the next block, and addresses stay.
LEMMA TailMoves ==
  ASSUME NEW j \in Ring
  PROVE  /\ \A p \in BlockSize..Shift-1 :
              AddressFrom(Start(After(j)), p - BlockSize) = AddressFrom(Start(j), p)
         /\ \A f \in Ring : \A a \in Start(f)..Stop(f) :
              f # j => Position(Start(After(j)), f, a) = Position(Start(j), f, a) - BlockSize
<1>1. /\ Stop(MasterNumBlocks) = MaxTer + Shift /\ Shift \in Nat
      /\ \A b \in Ring : /\ Start(b) \in Nat /\ Stop(b) = Start(b) + BlockSize
                         /\ MaxTer <= Start(b) /\ Stop(b) <= MaxTer + Shift
      /\ \A b, c \in Ring : b < c => Stop(b) <= Start(c)
  BY BlockFacts
<1>2. /\ After(j) \in Ring
      /\ Start(After(j)) = IF j = MasterNumBlocks THEN MaxTer ELSE Stop(j)
  BY Neighbours
<1>3. \A b, c \in Ring : b < c \/ c < b \/ b = c
  BY DEF Ring
<1>4. ASSUME NEW p \in BlockSize..Shift-1
      PROVE  AddressFrom(Start(After(j)), p - BlockSize) = AddressFrom(Start(j), p)
  <2>1. CASE j = MasterNumBlocks
    BY <1>1, <1>2, <2>1, Sizes DEF AddressFrom
  <2>2. CASE j # MasterNumBlocks
    BY <1>1, <1>2, <2>2, Sizes DEF AddressFrom
  <2>3. QED
    BY <2>1, <2>2
<1>5. ASSUME NEW f \in Ring, NEW a \in Start(f)..Stop(f), f # j
      PROVE  Position(Start(After(j)), f, a) = Position(Start(j), f, a) - BlockSize
  <2>1. a \in Int
    BY <1>1
  <2>2. CASE f < j
    <3>1. Start(f) < Start(j)
      BY <1>1, <2>2, Sizes
    <3>2. CASE j = MasterNumBlocks
      BY <1>1, <1>2, <2>1, <3>1, <3>2, Sizes DEF Position
    <3>3. CASE j # MasterNumBlocks
      BY <1>1, <1>2, <2>1, <3>1, <3>3, Sizes DEF Position
    <3>4. QED
      BY <3>2, <3>3
  <2>3. CASE j < f
    <3>1. Start(f) >= Stop(j) /\ j # MasterNumBlocks
      BY <1>1, <2>3, Sizes DEF Ring
    <3>2. QED
      BY <1>1, <1>2, <2>1, <3>1, Sizes DEF Position
  <2>4. QED
    BY <1>3, <1>5, <2>2, <2>3
<1>6. QED
  BY <1>4, <1>5

-----------------------------------------------------------------------------
(* Locks, types and the places of the two, which need no positions *)

LEMMA InitIInv == Init => IInv
<1> SUFFICES ASSUME Init PROVE IInv
  OBVIOUS
<1> USE DEF Init
<1>1. <<>> \in Seq(TermSizes) /\ Len(<<>>) = 0
  OBVIOUS
<1>2. Types /\ EndingType /\ LocksInStep /\ WriterInStep
  <2>1. memory = [a \in Words |-> memory[a]]
    OBVIOUS
  <2>2. Types
    BY <1>1, <2>1, Sizes DEF Types, WriterStates, ReaderStates
  <2>3. EndingType /\ EndSize = 0
    BY DEF EndingType, EndSize
  <2>4. LocksInStep
    BY DEF LocksInStep, WriterHolds, ReaderHolds
  <2>5. WriterInStep
    BY <2>3 DEF WriterInStep
  <2>6. QED
    BY <2>2, <2>3, <2>4, <2>5
<1>3. ReaderInStep
  BY <1>1 DEF ReaderInStep
<1>4. TermsInPlace
  BY DEF TermsInPlace, Running
<1>5. QED
  BY <1>2, <1>3, <1>4 DEF IInv

LEMMA LocksHeld ==
  ASSUME IInv
  PROVE  /\ WriterHolds \subseteq Ring /\ ReaderHolds \subseteq Blocks
         /\ WriterHolds \cap ReaderHolds = {}
         /\ \A j \in Blocks : Free(j) => j \notin WriterHolds /\ j \notin ReaderHolds
         /\ \A j \in ReaderHolds : MasterBlockLock[j] = "reader"
<1>1. WriterHolds \subseteq Ring
  BY Neighbours DEF IInv, WriterInStep, WriterHolds
<1>2. ReaderHolds \subseteq Blocks
  <2>1. Front \subseteq Blocks
    BY Sizes DEF Front
  <2>2. rpc \in ReaderStates /\ (rpc \in {"lock", "use", "done"} => MasterBlock \in Ring)
    BY DEF IInv, Types, ReaderInStep
  <2>3. rpc \in {"lock", "use", "done"} => MasterBlock \in Blocks /\ Before(MasterBlock) \in Blocks
    BY <2>2, Neighbours, Sizes
  <2>4. QED
    BY <2>1, <2>2, <2>3, Sizes DEF ReaderHolds, ReaderStates
<1>3. QED
  BY <1>1, <1>2 DEF IInv, LocksInStep, Free

LEMMA LocksMove ==
  ASSUME IInv, NEW S \in SUBSET Blocks, NEW who, Lock(S, who),
         \/ /\ who = "writer" /\ \A j \in S : Free(j)
            /\ WriterHolds' = WriterHolds \cup S /\ ReaderHolds' = ReaderHolds
         \/ /\ who = "reader" /\ \A j \in S : Free(j)
            /\ WriterHolds' = WriterHolds /\ ReaderHolds' = ReaderHolds \cup S
         \/ /\ who = "free" /\ S \subseteq WriterHolds
            /\ WriterHolds' = WriterHolds \ S /\ ReaderHolds' = ReaderHolds
         \/ /\ who = "free" /\ S \subseteq ReaderHolds
            /\ WriterHolds' = WriterHolds /\ ReaderHolds' = ReaderHolds \ S
  PROVE  LocksInStep'
<1>1. MasterBlockLock' = [j \in Blocks |-> IF j \in S THEN who ELSE MasterBlockLock[j]]
  BY DEF Lock
<1>2. /\ WriterHolds \cap ReaderHolds = {}
      /\ \A j \in S : Free(j) => j \notin WriterHolds /\ j \notin ReaderHolds
  BY LocksHeld
<1>3. \A j \in Blocks : MasterBlockLock[j] = IF j \in WriterHolds THEN "writer"
                                             ELSE IF j \in ReaderHolds THEN "reader" ELSE "free"
  BY DEF IInv, LocksInStep
<1>4. WriterHolds' \cap ReaderHolds' = {}
  BY <1>2
<1>5. \A j \in Blocks : MasterBlockLock'[j] = IF j \in WriterHolds' THEN "writer"
                                             ELSE IF j \in ReaderHolds' THEN "reader" ELSE "free"
  BY <1>1, <1>2, <1>3
<1>6. QED
  BY <1>1, <1>4, <1>5 DEF LocksInStep

LEMMA LocksInStepKept ==
  ASSUME IInv, [Next]_vars
  PROVE  LocksInStep'
<1>0. /\ Types /\ LocksInStep /\ WriterInStep /\ ReaderInStep
      /\ WriterHolds \subseteq Ring /\ ReaderHolds \subseteq Blocks
  BY LocksHeld DEF IInv
<1>1. ASSUME MasterBlockLock' = MasterBlockLock, WriterHolds' = WriterHolds,
             ReaderHolds' = ReaderHolds
      PROVE  LocksInStep'
  BY <1>0, <1>1 DEF LocksInStep
<1>2. CASE WriterClaim
  <2>1. WriterHolds' = WriterHolds \cup {1} /\ ReaderHolds' = ReaderHolds
    BY <1>2 DEF WriterClaim, WriterHolds, ReaderHolds, Front, readervars
  <2>2. Lock({1}, "writer") /\ Free(1)
    BY <1>2 DEF WriterClaim
  <2>3. QED
    BY <2>1, <2>2, LocksMove, Sizes
<1>3. CASE (\E size \in TermSizes : PutTerm(size)) \/ PutZero \/ CopyWords
  <2>1. WriterHolds' = WriterHolds /\ ReaderHolds' = ReaderHolds
    BY <1>3 DEF PutTerm, PutZero, CopyWords, WriterHolds, ReaderHolds, Front, readervars
  <2>2. QED
    BY <1>1, <1>3, <2>1 DEF PutTerm, PutZero, CopyWords
<1>4. CASE LockNextBlock
  <2>1. WriterHolds' = WriterHolds \cup {After(FillBlock)} /\ ReaderHolds' = ReaderHolds
    BY <1>4 DEF LockNextBlock, WriterHolds, ReaderHolds, Front, readervars
  <2>2. Lock({After(FillBlock)}, "writer") /\ Free(After(FillBlock)) /\ FillBlock \in Ring
    BY <1>0, <1>4 DEF LockNextBlock, WriterInStep
  <2>3. QED
    BY <2>1, <2>2, LocksMove, Neighbours, Sizes
<1>5. CASE LeaveBlock
  <2>1. FillBlock \in Ring /\ FillBlock # After(FillBlock)
    BY <1>0, <1>5, Neighbours DEF LeaveBlock, WriterInStep
  <2>2. /\ WriterHolds = {FillBlock, After(FillBlock)} /\ WriterHolds' = {After(FillBlock)}
        /\ ReaderHolds' = ReaderHolds
    BY <1>5 DEF LeaveBlock, WriterHolds, ReaderHolds, Front, readervars
  <2>3. Lock({FillBlock}, "free")
    BY <1>5 DEF LeaveBlock, Unlock
  <2>4. WriterHolds' = WriterHolds \ {FillBlock}
    BY <2>1, <2>2
  <2>5. QED
    BY <2>1, <2>2, <2>3, <2>4, LocksMove, Sizes
<1>6. CASE WriterFinish
  <2>1. WriterHolds = {FillBlock} /\ WriterHolds' = {} /\ ReaderHolds' = ReaderHolds
        /\ FillBlock \in Ring
    BY <1>0, <1>6 DEF WriterFinish, WriterHolds, ReaderHolds, Front, readervars, WriterInStep
  <2>2. Lock({FillBlock}, "free")
    BY <1>6 DEF WriterFinish, UnlockLastBlock, Unlock
  <2>3. QED
    BY <2>1, <2>2, LocksMove, Sizes
<1>7. CASE ReaderClaim
  <2>1. /\ ReaderClaims = {MasterNumBlocks} \cup Front /\ ReaderClaims \subseteq Blocks
    BY Sizes DEF ReaderClaims, Front
  <2>2. WriterHolds' = WriterHolds /\ ReaderHolds = {} /\ ReaderHolds' = ReaderClaims
    BY <1>7, <2>1 DEF ReaderClaim, WriterHolds, ReaderHolds, Front, writervars
  <2>3. Lock(ReaderClaims, "reader") /\ \A j \in ReaderClaims : Free(j)
    BY <1>7 DEF ReaderClaim
  <2>4. QED
    BY <2>1, <2>2, <2>3, LocksMove
<1>8. CASE WaitForClaim
  <2>1. Before(1) = MasterNumBlocks
    BY DEF Before
  <2>2. WriterHolds' = WriterHolds /\ ReaderHolds' = ReaderHolds
    BY <1>8, <2>1 DEF WaitForClaim, WriterHolds, ReaderHolds, Front, writervars
  <2>3. QED
    BY <1>1, <1>8, <2>2 DEF WaitForClaim
<1>9. CASE LockBlock
  <2>1. WriterHolds' = WriterHolds /\ ReaderHolds' = ReaderHolds \cup {MasterBlock}
        /\ MasterBlock \in Blocks
    BY <1>0, <1>9, Sizes DEF LockBlock, WriterHolds, ReaderHolds, Front, writervars, ReaderInStep
  <2>2. Lock({MasterBlock}, "reader") /\ Free(MasterBlock)
    BY <1>9 DEF LockBlock
  <2>3. QED
    BY <2>1, <2>2, LocksMove
<1>10. CASE StaysInBlock
  <2>1. WriterHolds' = WriterHolds /\ ReaderHolds' = ReaderHolds
    BY <1>10 DEF StaysInBlock, WriterHolds, ReaderHolds, Front, writervars
  <2>2. QED
    BY <1>1, <1>10, <2>1 DEF StaysInBlock
<1>11. CASE CrossBlock
  <2>1. /\ MasterBlock \in Ring /\ Before(MasterBlock) \in Ring
        /\ Before(MasterBlock) # MasterBlock /\ Before(After(MasterBlock)) = MasterBlock
    BY <1>0, <1>11, Neighbours DEF CrossBlock, ReaderInStep
  <2>2. /\ WriterHolds' = WriterHolds
        /\ ReaderHolds = {MasterBlock, Before(MasterBlock)} \cup Front
        /\ ReaderHolds' = {MasterBlock} \cup Front
    BY <1>11, <2>1 DEF CrossBlock, WriterHolds, ReaderHolds, Front, writervars
  <2>3. Lock({Before(MasterBlock)}, "free")
    BY <1>11 DEF CrossBlock, Unlock, BlockGivenUp
  <2>4. ReaderHolds' = ReaderHolds \ {Before(MasterBlock)}
    BY <2>1, <2>2, Sizes DEF Front
  <2>5. {Before(MasterBlock)} \in SUBSET Blocks /\ {Before(MasterBlock)} \subseteq ReaderHolds
    BY <2>1, <2>2, Sizes
  <2>6. QED
    BY <2>2, <2>3, <2>4, <2>5, LocksMove
<1>12. CASE ReaderFinish
  <2>1. WriterHolds' = WriterHolds /\ ReaderHolds = BlocksReleased /\ ReaderHolds' = {}
    BY <1>12 DEF ReaderFinish, WriterHolds, ReaderHolds, Front, writervars, BlocksReleased
  <2>2. Lock(BlocksReleased, "free")
    BY <1>12 DEF ReaderFinish, Unlock
  <2>3. QED
    BY <1>0, <2>1, <2>2, LocksMove
<1>13. CASE NextExpression
  <2>1. WriterHolds' = WriterHolds /\ ReaderHolds' = ReaderHolds
    BY <1>13 DEF NextExpression, WriterHolds, ReaderHolds
  <2>2. QED
    BY <1>1, <1>13, <2>1 DEF NextExpression
<1>14. CASE UNCHANGED vars
  <2>1. WriterHolds' = WriterHolds /\ ReaderHolds' = ReaderHolds
    BY <1>14 DEF vars, writervars, readervars, WriterHolds, ReaderHolds, Front
  <2>2. QED
    BY <1>1, <1>14, <2>1 DEF vars
<1>15. QED
  BY <1>2, <1>3, <1>4, <1>5, <1>6, <1>7, <1>8, <1>9, <1>10, <1>11, <1>12, <1>13, <1>14
     DEF Next, Writer, Reader

-----------------------------------------------------------------------------
(* What the reader sees *)

LEMMA SizesOfTerms ==
  ASSUME IInv
  PROVE  /\ Len(sizes) \in Nat /\ Len(got) \in Nat /\ K \in 1..Len(sizes)+1 /\ K = Len(got) + 1
         /\ \A t \in 1..Len(sizes) : sizes[t] \in 1..MaxTer
         /\ left \in 0..MaxTer /\ EndSize \in {0, 1}
<1>1. \A t \in 1..Len(sizes) : sizes[t] \in 1..MaxTer
  BY Sizes DEF IInv, Types
<1>2. left \in 0..MaxTer /\ EndSize \in {0, 1} /\ Len(got) <= Len(sizes)
      /\ Len(sizes) \in Nat /\ Len(got) \in Nat
  BY DEF IInv, Types, EndSize, ReaderInStep
<1>3. QED
  BY <1>1, <1>2 DEF K

\* The writer is ahead of the block the reader keeps, and of the one it reads, until it is
\* done.
LEMMA WriterIsAhead ==
  ASSUME IInv, Running
  PROVE  /\ Now \in Ring /\ Before(Now) \in Ring /\ Tail_ = Start(Before(Now))
         /\ After(Before(Now)) = Now
         /\ FillBlock \in Ring /\ fill \in Start(FillBlock)..Stop(FillBlock)
         /\ Start(FillBlock) \in Nat /\ Stop(FillBlock) = Start(FillBlock) + BlockSize
         /\ FillPos \in 0..Shift
         /\ wpc # "done" => FillBlock # Before(Now) /\ FillPos >= BlockSize
         /\ wpc # "done" /\ rpc = "use" => FillBlock # Now /\ FillPos >= 2 * BlockSize
         /\ FillBlock = Before(Now) => FillPos <= BlockSize
         /\ Now \in ReaderHolds \/ rpc # "use"
         /\ Before(Now) \in ReaderHolds
<1>1. Now \in Ring /\ FillBlock \in Ring /\ fill \in Start(FillBlock)..Stop(FillBlock)
  BY Sizes DEF IInv, ReaderInStep, WriterInStep, Running, Now
<1>2. Before(Now) \in Ring /\ After(Before(Now)) = Now
  BY <1>1, Neighbours
<1>3. Before(Now) \in ReaderHolds /\ (rpc = "use" => Now \in ReaderHolds)
  BY DEF Running, Now, ReaderHolds, Before
<1>4. wpc # "done" => FillBlock \in WriterHolds
  BY DEF Running, WriterHolds
<1>5. FillPos = Position(Start(Before(Now)), FillBlock, fill)
  BY DEF FillPos, Tail_
<1>6. wpc # "done" => FillBlock # Before(Now) /\ (rpc = "use" => FillBlock # Now)
  BY <1>3, <1>4, LocksHeld
<1>7. /\ FillPos \in 0..Shift
      /\ FillBlock # Before(Now) => FillPos >= BlockSize
      /\ FillBlock # Before(Now) /\ FillBlock # Now => FillPos >= 2 * BlockSize
      /\ FillBlock = Before(Now) => FillPos <= BlockSize
  BY <1>1, <1>2, <1>5, Positions
<1>8. Start(FillBlock) \in Nat /\ Stop(FillBlock) = Start(FillBlock) + BlockSize
  BY <1>1, BlockFacts
<1>9. QED
  BY <1>1, <1>2, <1>3, <1>6, <1>7, <1>8 DEF Tail_

\* In the two blocks the reader holds, the words are where the reader looks for them.
LEMMA View ==
  ASSUME IInv, rpc \in {"lock", "use"}, Running,
         NEW pos \in [1..Len(sizes)+1 -> Int], Layout(pos),
         NEW p \in Int, pos[K] <= p, p < 2 * BlockSize
  PROVE  /\ Start(Now) - BlockSize + p \in Words
         /\ memory[Start(Now) - BlockSize + p] = memory[Address(p)]
<1> DEFINE a == Start(Now) - BlockSize + p
<1>1. /\ Now \in Ring /\ Tail_ = Start(Before(Now)) /\ pos[K] >= 0
      /\ Remainder(pos)
  BY WriterIsAhead DEF Layout, ReaderInPlace
<1>2. p >= 0 /\ pos[K] \in Int
  BY <1>1, SizesOfTerms
<1>3. /\ Start(Now) \in Nat /\ MaxTer <= Start(Now) /\ Start(Now) + BlockSize <= MaxTer + Shift
      /\ Stop(MasterNumBlocks) = MaxTer + Shift /\ Shift \in Nat
      /\ Tail_ = IF Now = 1 THEN MaxTer + Shift - BlockSize ELSE Start(Now) - BlockSize
  BY <1>1, BlockFacts, Neighbours, Sizes
<1>4. CASE Now # 1
  <2>1. Address(p) = a
    BY <1>2, <1>3, <1>4, Sizes DEF Address, AddressFrom
  <2>2. a \in Words
    <3>1. a \in Int /\ a < MaxTer + Shift /\ a >= MaxTer
      <4>1. Before(Now) \in Ring /\ Start(Before(Now)) = Start(Now) - BlockSize
        <5>1. Before(Now) \in Ring
          BY WriterIsAhead
        <5>2. QED
          BY <1>1, <1>3, <1>4, <5>1
      <4>3. Start(Before(Now)) >= MaxTer
        BY <4>1, BlockFacts
      <4>2. QED
        BY <1>2, <1>3, <4>1, <4>3, Sizes
    <3>2. QED
      BY <1>3, <3>1, Sizes DEF Words
  <2>3. QED
    BY <2>1, <2>2
<1>5. CASE Now = 1
  <2>0. pos[K] >= BlockSize - MaxTer - COMPINC
        /\ \A q \in pos[K]..BlockSize-1 : memory[Start(1) - BlockSize + q] = memory[Address(q)]
    BY <1>1, <1>5 DEF Remainder
  <2>1. a \in Words
    BY <1>2, <1>3, <1>5, <2>0, Sizes DEF Words
  <2>2. CASE p < BlockSize
    <3>1. p \in pos[K]..BlockSize-1
      BY <1>2, <2>2, Sizes
    <3>2. QED
      BY <1>5, <2>0, <2>1, <3>1
  <2>3. CASE ~(p < BlockSize)
    <3>1. Address(p) = a
      BY <1>2, <1>3, <1>5, <2>3, Sizes DEF Address, AddressFrom
    <3>2. QED
      BY <2>1, <3>1
  <2>4. QED
    BY <2>2, <2>3
<1>6. QED
  BY <1>4, <1>5

LEMMA ReaderSees ==
  ASSUME IInv, rpc = "use", Running,
         NEW pos \in [1..Len(sizes)+1 -> Int], Layout(pos),
         NEW t \in K..Len(sizes)+1, pos[t] < 2 * BlockSize,
         NEW a, a = Start(Now) - BlockSize + pos[t]
  PROVE  /\ IF t <= Len(sizes)
            THEN /\ SizeAt(a) = sizes[t] /\ SizeAt(a) > 0
                 /\ \A i \in 0..sizes[t]-1 : pos[t] + i < 2 * BlockSize =>
                      a + i \in Words /\ memory[a + i] = <<t, i>>
            ELSE /\ SizeAt(a) = 0 /\ memory[a] = EndMark /\ EndSize = 1 /\ left = 0
         /\ a \in Int
<1>1. /\ Len(sizes) \in Nat /\ K \in 1..Len(sizes)+1 /\ t \in 1..Len(sizes)+1
      /\ \A s \in 1..Len(sizes) : sizes[s] \in 1..MaxTer
      /\ left \in 0..MaxTer /\ EndSize \in {0, 1}
  BY SizesOfTerms
<1>2. /\ Spaced(pos) /\ WordsInPlace(pos)
      /\ \A s \in 1..Len(sizes)+1 : pos[s] \in Int
  BY DEF Layout
<1>3. pos[K] <= pos[t] /\ pos[t] \in Int
  BY <1>1, <1>2 DEF Spaced
<1>4. /\ wpc # "done" => FillPos >= 2 * BlockSize
      /\ wpc = "done" => EndSize = 1 /\ left = 0
      /\ FillPos \in Int /\ Start(Now) \in Nat
  BY WriterIsAhead, BlockFacts DEF IInv, WriterInStep
<1>5. FillPos = pos[Len(sizes)+1] + EndSize - left /\ pos[Len(sizes)+1] \in Int
  BY <1>1, <1>2 DEF Spaced
<1>6. a \in Int
  BY <1>3, <1>4, Sizes
<1>7. CASE t <= Len(sizes)
  <2>1. t \in K..Len(sizes) /\ sizes[t] \in 1..MaxTer
    BY <1>1, <1>7
  <2>2. pos[t] + sizes[t] <= pos[Len(sizes)+1]
    <3>1. t + 1 \in 1..Len(sizes)+1 /\ Len(sizes)+1 \in 1..Len(sizes)+1 /\ t + 1 <= Len(sizes)+1
          /\ t \in 1..Len(sizes)
      BY <1>1, <1>7
    <3>2. pos[t+1] = pos[t] + sizes[t] /\ pos[t+1] <= pos[Len(sizes)+1]
      BY <1>2, <3>1 DEF Spaced
    <3>3. QED
      BY <3>2
  <2>3. ASSUME NEW i \in 0..sizes[t]-1, pos[t] + i < 2 * BlockSize
        PROVE  a + i \in Words /\ memory[a + i] = <<t, i>>
    <3> DEFINE p == pos[t] + i
    <3>0. pos[K] \in Int /\ i \in Int /\ 0 <= i /\ i < sizes[t] /\ sizes[t] \in Int
      BY <1>1, <1>2, <2>1
    <3>1. p \in Int /\ pos[K] <= p /\ p < 2 * BlockSize
          /\ a + i = Start(Now) - BlockSize + p
      BY <1>3, <1>4, <2>3, <3>0, Sizes
    <3>4. p < FillPos
      <4>1. CASE wpc # "done"
        BY <1>4, <3>1, <4>1, Sizes
      <4>2. CASE wpc = "done"
        <5>1. FillPos = pos[Len(sizes)+1] + 1
          BY <1>4, <1>5, <4>2
        <5>2. QED
          BY <1>3, <1>5, <2>2, <3>0, <5>1
      <4>3. QED
        BY <4>1, <4>2
    <3>2. memory[Address(p)] = <<t, i>>
      BY <1>2, <2>1, <3>4 DEF WordsInPlace
    <3> HIDE DEF p
    <3>3. QED
      BY <3>1, <3>2, View
  <2>4. memory[a] = <<t, 0>>
    <3>1. 0 \in 0..sizes[t]-1 /\ a + 0 = a /\ pos[t] + 0 < 2 * BlockSize
      BY <1>3, <1>6, <2>1, Sizes
    <3>2. QED
      BY <2>3, <3>1
  <2>5. SizeAt(a) = sizes[t]
    <3>1. t # 0 /\ t \in 1..Len(sizes)
      BY <1>1, <1>7
    <3>2. <<t, 0>>[1] = t /\ <<t, 0>> # EndMark
      BY <3>1 DEF EndMark
    <3>3. QED
      BY <2>4, <3>1, <3>2 DEF SizeAt
  <2>6. QED
    BY <1>6, <1>7, <2>1, <2>3, <2>5
<1>8. CASE ~(t <= Len(sizes))
  <2>1. t = Len(sizes) + 1
    BY <1>1, <1>8
  <2>2. EndSize = 1 /\ left = 0
    <3>1. EndSize - left > 0
      BY <1>1, <1>3, <1>4, <1>5, <2>1, Sizes
    <3>2. QED
      BY <1>1, <3>1
  <2>3. memory[Address(pos[t])] = EndMark
    BY <1>2, <2>1, <2>2 DEF WordsInPlace
  <2>4. memory[a] = EndMark
    BY <1>3, <2>3, View
  <2>5. SizeAt(a) = 0
    BY <2>4 DEF SizeAt
  <2>6. QED
    BY <1>6, <1>8, <2>2, <2>4, <2>5
<1>9. QED
  BY <1>7, <1>8

\* The term under the reader is the next of the stream, or the end mark after the last one.
LEMMA AtTerm ==
  ASSUME IInv, rpc = "use"
  PROVE  /\ Running
         /\ SizeAt(poin) > 0 => K <= Len(sizes) /\ SizeAt(poin) = sizes[K]
         /\ SizeAt(poin) = 0 => /\ K = Len(sizes) + 1 /\ got = sizes /\ EndSize = 1 /\ left = 0
                                /\ memory[poin] = EndMark
         /\ SizeAt(poin) \in 0..MaxTer /\ poin \in Int
<1>1. Running
  BY DEF IInv, ReaderInStep, Running
<1>2. PICK pos \in [1..Len(sizes)+1 -> Int] : Layout(pos)
  BY <1>1 DEF IInv, TermsInPlace
<1>3. /\ K \in K..Len(sizes)+1 /\ pos[K] < 2 * BlockSize
      /\ poin = Start(Now) - BlockSize + pos[K]
  BY <1>2, SizesOfTerms DEF Layout, ReaderInPlace
<1>4. /\ IF K <= Len(sizes) THEN SizeAt(poin) = sizes[K] /\ SizeAt(poin) > 0
                            ELSE SizeAt(poin) = 0 /\ EndSize = 1 /\ left = 0
                                 /\ memory[poin] = EndMark
      /\ poin \in Int
  BY <1>1, <1>2, <1>3, ReaderSees
<1>5. K > Len(sizes) => K = Len(sizes) + 1 /\ Len(got) = Len(sizes)
  BY SizesOfTerms
<1>6. Len(got) = Len(sizes) => got = sizes
  <2>1. sizes \in Seq(TermSizes) /\ got \in Seq(TermSizes)
        /\ \A t \in 1..Len(got) : got[t] = sizes[t]
    BY DEF IInv, Types, ReaderInStep
  <2>2. QED
    BY <2>1, SeqEqual
<1>7. QED
  BY <1>1, <1>4, <1>5, <1>6, SizesOfTerms, Sizes

LEMMA AppendFacts ==
  ASSUME NEW S, NEW s \in Seq(S), NEW e \in S
  PROVE  /\ Append(s, e) \in Seq(S) /\ Len(Append(s, e)) = Len(s) + 1
         /\ \A t \in 1..Len(s) : Append(s, e)[t] = s[t]
         /\ Append(s, e)[Len(s) + 1] = e
BY AppendProperties

\* What one go of the inner loop copies.
LEMMA Fits ==
  ASSUME IInv, wpc = "copy"
  PROVE  /\ FillBlock \in Ring /\ fill \in Start(FillBlock)..Stop(FillBlock)
         /\ Start(FillBlock) \in Nat /\ Stop(FillBlock) = Start(FillBlock) + BlockSize
         /\ WordsThatFit \in 0..left /\ fill + WordsThatFit \in Start(FillBlock)..Stop(FillBlock)
         /\ left > WordsThatFit => fill + WordsThatFit = Stop(FillBlock)
         /\ left \in 0..MaxTer /\ left - WordsThatFit \in 0..MaxTer
<1>1. FillBlock \in Ring /\ fill \in Start(FillBlock)..Stop(FillBlock) /\ left \in 0..MaxTer
  BY DEF IInv, WriterInStep, Types
<1>2. Start(FillBlock) \in Nat /\ Stop(FillBlock) = Start(FillBlock) + BlockSize
  BY <1>1, BlockFacts
<1>3. QED
  BY <1>1, <1>2, Sizes DEF WordsThatFit

LEMMA TypesKept ==
  ASSUME IInv, [Next]_vars
  PROVE  Types' /\ EndingType'
<1>0. /\ Types /\ EndingType /\ TermSizes \subseteq 1..MaxTer /\ MaxTer \in Nat /\ MaxTer > 0
      /\ \A j \in Ring : Start(j) \in Nat
  BY Sizes, BlockFacts DEF IInv
<1> USE DEF Types, EndingType, WriterStates, ReaderStates
<1>1. CASE WriterClaim
  BY <1>0, <1>1 DEF WriterClaim, readervars
<1>2. ASSUME NEW size \in TermSizes, PutTerm(size) PROVE Types' /\ EndingType'
  <2>1. sizes' \in Seq(TermSizes) /\ left' \in 0..MaxTer
    BY <1>0, <1>2, AppendFacts DEF PutTerm
  <2>2. QED
    BY <1>0, <1>2, <2>1 DEF PutTerm, readervars
<1>3. CASE PutZero
  BY <1>0, <1>3 DEF PutZero, readervars
<1>4. CASE CopyWords
  <2>1. left' \in 0..MaxTer
    BY <1>4, Fits DEF CopyWords
  <2>2. wpc' \in WriterStates
    BY <1>4 DEF CopyWords
  <2>3. memory' = [a \in Words |-> memory'[a]]
    BY <1>4 DEF CopyWords
  <2>4. QED
    BY <1>0, <1>4, <2>1, <2>2, <2>3 DEF CopyWords, readervars
<1>5. CASE LockNextBlock \/ LeaveBlock \/ WriterFinish
  BY <1>0, <1>5 DEF LockNextBlock, LeaveBlock, WriterFinish, readervars
<1>6. CASE ReaderClaim \/ LockBlock \/ ReaderFinish
  BY <1>0, <1>6 DEF ReaderClaim, LockBlock, ReaderFinish, writervars
<1>7. CASE WaitForClaim
  BY <1>0, <1>7, Sizes DEF WaitForClaim, writervars
<1>8. ASSUME StaysInBlock \/ CrossBlock
      PROVE  Types' /\ EndingType'
  <2>1. rpc = "use" /\ SizeAt(poin) > 0 /\ got' = Append(got, SizeAt(poin))
        /\ rpc' \in {"use", "lock"} /\ UNCHANGED <<writervars, reader>>
    BY <1>8 DEF StaysInBlock, CrossBlock
  <2>2. SizeAt(poin) = sizes[K] /\ K \in 1..Len(sizes) /\ SizeAt(poin) \in Int /\ poin \in Int
    BY <2>1, AtTerm, SizesOfTerms
  <2>3. SizeAt(poin) \in TermSizes
    BY <1>0, <2>2
  <2>4. got' \in Seq(TermSizes)
    BY <1>0, <2>1, <2>3, AppendFacts
  <2>5. memory' = [a \in Words |-> memory'[a]]
    BY <1>0, <1>8 DEF StaysInBlock, CrossBlock, MoveRemainder
  <2>7. poin' \in Int
    <3>1. NextAddress \in Int /\ Shift \in Nat
      BY <2>2, BlockFacts DEF NextAddress
    <3>2. QED
      BY <1>8, <3>1 DEF StaysInBlock, CrossBlock
  <2>8. QED
    BY <1>0, <2>1, <2>4, <2>5, <2>7 DEF writervars
<1>9. CASE NextExpression
  <2>1. sizes' \in Seq(TermSizes) /\ got' \in Seq(TermSizes)
    BY <1>9 DEF NextExpression
  <2>2. ending' \in BOOLEAN
    BY <1>9 DEF NextExpression
  <2>3. memory' = [a \in Words |-> memory'[a]]
    BY <1>9 DEF NextExpression
  <2>4. wpc' \in WriterStates /\ rpc' \in ReaderStates /\ UNCHANGED <<reader, left, poin>>
    BY <1>9 DEF NextExpression
  <2>5. QED
    BY <1>0, <2>1, <2>2, <2>3, <2>4
<1>10. CASE UNCHANGED vars
  BY <1>0, <1>10 DEF vars, writervars, readervars
<1>11. QED
  BY <1>1, <1>2, <1>3, <1>4, <1>5, <1>6, <1>7, <1>8, <1>9, <1>10 DEF Next, Writer, Reader

LEMMA WriterInStepKept ==
  ASSUME IInv, [Next]_vars
  PROVE  WriterInStep'
<1>0. /\ Types /\ EndingType /\ WriterInStep
      /\ Len(sizes) \in Nat /\ left \in 0..MaxTer /\ EndSize \in {0, 1}
      /\ TermSizes \subseteq 1..MaxTer /\ MaxTer \in Nat
      /\ \A j \in Ring : After(j) \in Ring /\ Start(j) \in Nat /\ Stop(j) = Start(j) + BlockSize
      /\ \A j \in Ring : Start(j) \in Start(j)..Stop(j)
      /\ 1 \in Ring
  <2>1. \A j \in Ring : Start(j) \in Nat /\ Stop(j) = Start(j) + BlockSize
    BY BlockFacts
  <2>2. \A j \in Ring : Start(j) \in Start(j)..Stop(j)
    BY <2>1, Sizes
  <2>3. QED
    BY <2>1, <2>2, Sizes, SizesOfTerms, Neighbours DEF IInv
<1>1. ASSUME UNCHANGED writervars
      PROVE  WriterInStep'
  BY <1>0, <1>1 DEF WriterInStep, writervars, EndSize
<1>2. CASE WriterClaim
  BY <1>0, <1>2 DEF WriterClaim, WriterInStep, EndSize
<1>3. ASSUME NEW size \in TermSizes, PutTerm(size) PROVE WriterInStep'
  <2>1. /\ Len(sizes') = Len(sizes) + 1 /\ sizes'[Len(sizes')] = size
    BY <1>0, <1>3, AppendFacts DEF PutTerm, Types
  <2>2. EndSize' = 0 /\ left' = size /\ size > 0 /\ Len(sizes') > 0
    BY <1>0, <1>3, <2>1 DEF PutTerm, WriterInStep, EndSize
  <2>3. wpc' = "copy" /\ wpc = "put" /\ UNCHANGED <<FillBlock, fill>>
    BY <1>3 DEF PutTerm
  <2>4. QED
    BY <1>0, <2>1, <2>2, <2>3 DEF WriterInStep
<1>4. CASE PutZero
  BY <1>0, <1>4 DEF PutZero, WriterInStep, EndSize
<1>5. CASE CopyWords
  <2> DEFINE w == WordsThatFit
  <2>1. /\ FillBlock' = FillBlock /\ sizes' = sizes /\ EndSize' = EndSize /\ wpc = "copy"
        /\ fill' = fill + w /\ left' = left - w
        /\ wpc' = IF left' > 0 THEN "nextblock" ELSE IF ending THEN "finish" ELSE "put"
    BY <1>5 DEF CopyWords, EndSize
  <2>2. /\ FillBlock \in Ring /\ w \in 0..left /\ left - w \in 0..MaxTer
        /\ fill + w \in Start(FillBlock)..Stop(FillBlock)
        /\ left > w => fill + w = Stop(FillBlock)
    BY <2>1, Fits
  <2>3. left > 0 /\ (EndSize = 1 => left = 1)
        /\ (EndSize # 1 => Len(sizes) > 0 /\ left <= sizes[Len(sizes)])
    BY <1>0, <2>1 DEF WriterInStep
  <2>4. EndSize = 0 => Len(sizes) \in 1..Len(sizes) /\ sizes[Len(sizes)] \in Int
    BY <1>0, <2>3 DEF Types
  <2> HIDE DEF w
  <2>5. left' > 0 => IF EndSize = 1 THEN left' = 1
                     ELSE Len(sizes) > 0 /\ left' <= sizes[Len(sizes)]
    BY <1>0, <2>1, <2>2, <2>3, <2>4
  <2>6. /\ wpc' = "nextblock" => left' > 0 /\ fill' = Stop(FillBlock)
        /\ wpc' # "nextblock" => left' = 0
    BY <1>0, <2>1, <2>2
  <2>7. (wpc' = "finish" => EndSize = 1) /\ (wpc' = "put" => EndSize = 0)
    BY <2>1 DEF EndSize
  <2>8. wpc' \in {"nextblock", "finish", "put"}
    BY <2>1
  <2>9. QED
    BY <2>1, <2>2, <2>5, <2>6, <2>7, <2>8 DEF WriterInStep
<1>6. CASE LockNextBlock
  BY <1>0, <1>6 DEF LockNextBlock, WriterInStep, EndSize
<1>7. CASE LeaveBlock
  BY <1>0, <1>7 DEF LeaveBlock, WriterInStep, EndSize
<1>8. CASE WriterFinish
  BY <1>0, <1>8 DEF WriterFinish, WriterInStep, EndSize
<1>9. CASE Reader
  BY <1>1, <1>9 DEF Reader, ReaderClaim, WaitForClaim, LockBlock, StaysInBlock, CrossBlock,
                    ReaderFinish
<1>10. CASE NextExpression
  BY <1>0, <1>10 DEF NextExpression, WriterInStep, EndSize
<1>11. CASE UNCHANGED vars
  BY <1>1, <1>11 DEF vars
<1>12. QED
  BY <1>2, <1>3, <1>4, <1>5, <1>6, <1>7, <1>8, <1>9, <1>10, <1>11 DEF Next, Writer

LEMMA ReaderInStepKept ==
  ASSUME IInv, [Next]_vars
  PROVE  ReaderInStep'
<1>0. /\ Types /\ ReaderInStep /\ WriterInStep /\ 1 \in Ring
      /\ \A j \in Ring : After(j) \in Ring
      /\ Len(sizes) \in Nat /\ Len(got) \in Nat /\ EndSize \in {0, 1}
  BY Sizes, SizesOfTerms, Neighbours DEF IInv
<1>1. ASSUME UNCHANGED readervars, sizes' = sizes,
             wpc = "claim" <=> wpc' = "claim",
             wpc \in {"finish", "done"} => wpc' \in {"finish", "done"}
      PROVE  ReaderInStep'
  BY <1>0, <1>1 DEF ReaderInStep, readervars
<1>2. CASE WriterClaim
  <2>1. rpc = "waitclaim" /\ wpc' = "put" /\ UNCHANGED <<readervars, sizes>>
    BY <1>0, <1>2 DEF WriterClaim, ReaderInStep
  <2>2. QED
    BY <1>0, <2>1 DEF ReaderInStep, readervars
<1>3. ASSUME NEW size \in TermSizes, PutTerm(size) PROVE ReaderInStep'
  <2>1. /\ Len(sizes') = Len(sizes) + 1 /\ \A t \in 1..Len(sizes) : sizes'[t] = sizes[t]
    BY <1>0, <1>3, AppendFacts DEF PutTerm, Types
  <2>2. wpc = "put" /\ wpc' = "copy" /\ UNCHANGED readervars
    BY <1>3 DEF PutTerm
  <2>3. rpc # "done" /\ rpc # "claim"
    BY <1>0, <2>2 DEF ReaderInStep
  <2>4. Len(got) <= Len(sizes) /\ \A t \in 1..Len(got) : got[t] = sizes[t]
    BY <1>0 DEF ReaderInStep
  <2>5. Len(got) <= Len(sizes') /\ \A t \in 1..Len(got) : got[t] = sizes'[t]
    BY <1>0, <2>1, <2>4
  <2>6. QED
    BY <1>0, <2>2, <2>3, <2>5 DEF ReaderInStep, readervars
<1>4. CASE PutZero \/ LockNextBlock \/ LeaveBlock \/ WriterFinish
  BY <1>1, <1>4 DEF PutZero, LockNextBlock, LeaveBlock, WriterFinish
<1>5. CASE CopyWords
  <2>1. wpc = "copy" /\ wpc' \in {"nextblock", "finish", "put"} /\ UNCHANGED <<readervars, sizes>>
    BY <1>5 DEF CopyWords
  <2>2. QED
    BY <1>1, <2>1
<1>6. CASE ReaderClaim \/ WaitForClaim \/ LockBlock
  <2>1. CASE ReaderClaim
    BY <1>0, <2>1 DEF ReaderClaim, ReaderInStep, writervars
  <2>2. CASE WaitForClaim
    <3>1. /\ rpc = "waitclaim" /\ wpc # "claim" /\ MasterBlock' = 1 /\ rpc' = "lock"
          /\ UNCHANGED <<got, sizes, wpc>>
      BY <2>2 DEF WaitForClaim, WriterHasClaimed, writervars
    <3>2. QED
      BY <1>0, <3>1 DEF ReaderInStep
  <2>3. CASE LockBlock
    BY <1>0, <2>3 DEF LockBlock, ReaderInStep, writervars
  <2>4. QED
    BY <1>6, <2>1, <2>2, <2>3
<1>7. ASSUME StaysInBlock \/ CrossBlock
      PROVE  ReaderInStep'
  <2>1. /\ rpc = "use" /\ SizeAt(poin) > 0 /\ got' = Append(got, SizeAt(poin))
        /\ rpc' \in {"use", "lock"} /\ UNCHANGED writervars
        /\ MasterBlock' \in {MasterBlock, After(MasterBlock)}
    BY <1>7 DEF StaysInBlock, CrossBlock
  <2>2. K <= Len(sizes) /\ SizeAt(poin) = sizes[K] /\ K = Len(got) + 1
    BY <2>1, AtTerm DEF K
  <2>3. SizeAt(poin) \in TermSizes
    BY <1>0, <2>2 DEF Types
  <2>4. /\ Len(got') = Len(got) + 1 /\ got'[Len(got) + 1] = sizes[Len(got) + 1]
        /\ \A t \in 1..Len(got) : got'[t] = got[t]
    BY <1>0, <2>1, <2>2, <2>3, AppendFacts DEF Types
  <2>5. Len(got') <= Len(sizes) /\ \A t \in 1..Len(got') : got'[t] = sizes[t]
    BY <1>0, <2>2, <2>4 DEF ReaderInStep
  <2>6. MasterBlock' \in Ring /\ wpc # "claim" /\ wpc' = wpc /\ sizes' = sizes
    BY <1>0, <2>1 DEF ReaderInStep, writervars
  <2>7. QED
    BY <2>1, <2>5, <2>6 DEF ReaderInStep
<1>8. CASE ReaderFinish
  <2>1. rpc = "use" /\ SizeAt(poin) = 0 /\ rpc' = "done" /\ UNCHANGED <<writervars, MasterBlock, got>>
    BY <1>8 DEF ReaderFinish
  <2>2. got = sizes /\ EndSize = 1 /\ left = 0 /\ wpc # "claim"
    BY <1>0, <2>1, AtTerm DEF ReaderInStep
  <2>3. wpc \in {"finish", "done"}
    BY <1>0, <2>2 DEF WriterInStep, Types, WriterStates
  <2>4. QED
    BY <1>0, <2>1, <2>2, <2>3 DEF ReaderInStep, writervars
<1>9. CASE NextExpression
  BY <1>0, <1>9 DEF NextExpression, ReaderInStep
<1>10. CASE UNCHANGED vars
  BY <1>1, <1>10 DEF vars, writervars, readervars
<1>11. QED
  BY <1>2, <1>3, <1>4, <1>5, <1>6, <1>7, <1>8, <1>9, <1>10 DEF Next, Writer, Reader

-----------------------------------------------------------------------------
(* The terms in the ring, step by step *)

LEMMA LayoutFacts ==
  ASSUME IInv, Running, NEW pos \in [1..Len(sizes)+1 -> Int], Layout(pos)
  PROVE  /\ \A t \in 1..Len(sizes)+1 : pos[t] \in Int
         /\ \A t \in K..Len(sizes)+1 : pos[t] \in Nat /\ pos[K] <= pos[t]
                                       /\ pos[t] <= pos[Len(sizes)+1]
         /\ \A t \in 1..Len(sizes) : pos[t+1] = pos[t] + sizes[t]
         /\ FillPos = pos[Len(sizes)+1] + EndSize - left
<1>1. /\ Len(sizes) \in Nat /\ K \in 1..Len(sizes)+1 /\ pos[K] >= 0
      /\ Spaced(pos)
  BY SizesOfTerms DEF Layout, ReaderInPlace
<1>2. \A t \in 1..Len(sizes)+1 : pos[t] \in Int
  OBVIOUS
<1>3. ASSUME NEW t \in K..Len(sizes)+1
      PROVE  pos[t] \in Nat /\ pos[K] <= pos[t] /\ pos[t] <= pos[Len(sizes)+1]
  <2>1. t \in 1..Len(sizes)+1 /\ Len(sizes)+1 \in 1..Len(sizes)+1 /\ K <= t /\ t <= Len(sizes)+1
    BY <1>1
  <2>2. pos[K] <= pos[t] /\ pos[t] <= pos[Len(sizes)+1]
    BY <1>1, <2>1 DEF Spaced
  <2>3. QED
    BY <1>1, <1>2, <2>1, <2>2
<1>4. QED
  BY <1>1, <1>2, <1>3 DEF Spaced

\* Steps that change no position.
LEMMA LayoutStays ==
  ASSUME IInv, Running => Running', UNCHANGED <<memory, sizes, got, poin, rpc, MasterBlock>>,
         FillPos' = FillPos, EndSize' - left' = EndSize - left,
         EndSize' = 1 /\ left' = 0 => EndSize = 1 /\ left = 0,
         Running' => Running
  PROVE  TermsInPlace'
<1>1. CASE ~Running
  BY <1>1 DEF TermsInPlace
<1>2. CASE Running
  <2>1. PICK pos \in [1..Len(sizes)+1 -> Int] : Layout(pos)
    BY <1>2 DEF IInv, TermsInPlace
  <2>2. Now' = Now /\ Tail_' = Tail_ /\ K' = K
    BY DEF Now, Tail_, K
  <2>3. \A p \in Int : Address(p)' = Address(p)
    BY <2>2 DEF Address
  <2>4. Spaced(pos)'
    <3>1. FillPos = pos[Len(sizes)+1] + EndSize - left
      BY <2>1 DEF Layout, Spaced
    <3>2. pos[Len(sizes)+1] \in Int /\ EndSize \in Int /\ left \in Int
      BY SizesOfTerms
    <3>3. EndSize' \in Int
      BY DEF EndSize
    <3>4. QED
      BY <2>1, <3>1, <3>2 DEF Layout, Spaced
  <2>5. WordsInPlace(pos)'
    BY <2>1, <2>2 DEF Layout, WordsInPlace, Address
  <2>6. ReaderInPlace(pos)'
    BY <2>1, <2>2 DEF Layout, ReaderInPlace
  <2>7. Remainder(pos)'
    BY <2>1, <2>2, <2>3 DEF Layout, Remainder
  <2>8. Layout(pos)' /\ pos \in [1..Len(sizes')+1 -> Int]
    BY <2>4, <2>5, <2>6, <2>7 DEF Layout
  <2>9. QED
    BY <2>8 DEF TermsInPlace
<1>3. QED
  BY <1>1, <1>2

LEMMA WriterClaimKeeps ==
  ASSUME IInv, WriterClaim, WriterInStep'
  PROVE  TermsInPlace'
<1>1. /\ rpc = "waitclaim" /\ rpc' = rpc /\ wpc' = "put" /\ sizes = <<>> /\ got = <<>>
      /\ UNCHANGED <<memory, sizes, got, left, ending, MasterBlock, poin>>
      /\ left = 0 /\ EndSize = 0 /\ FillBlock' = 1 /\ fill' = Start(1)
  BY DEF IInv, WriterClaim, ReaderInStep, WriterInStep, readervars
<1>2. EndSize' = 0 /\ left' = 0 /\ Len(sizes') = 0 /\ K' = 1 /\ Now' = 1 /\ Running'
  BY <1>1 DEF EndSize, K, Now, Running
<1>3. Tail_' = MaxTer + Shift - BlockSize
  BY <1>2, Neighbours, Sizes DEF Tail_
<1>4. FillPos' = BlockSize
  BY <1>1, <1>3, Sizes, BlockFacts DEF FillPos, Position
<1> DEFINE pos == [t \in 1..Len(sizes')+1 |-> BlockSize]
<1>5. pos \in [1..Len(sizes')+1 -> Int] /\ pos[1] = BlockSize
  BY <1>2, Sizes
<1>6. PICK q \in [1..Len(sizes')+1 -> Int] : q[1] = BlockSize
  BY <1>5
<1>7. \A s, t \in 1..Len(sizes')+1 : s = 1 /\ t = 1
  BY <1>2
<1>8. Spaced(q)'
  BY <1>2, <1>4, <1>6, <1>7, Sizes DEF Spaced
<1>9. WordsInPlace(q)'
  BY <1>2 DEF WordsInPlace
<1>10. ReaderInPlace(q)'
  BY <1>1, <1>2, <1>6, Sizes DEF ReaderInPlace
<1>11. Remainder(q)'
  BY <1>1, <1>2, <1>6, Sizes DEF Remainder
<1>12. QED
  BY <1>6, <1>8, <1>9, <1>10, <1>11 DEF TermsInPlace, Layout

LEMMA PutTermKeeps ==
  ASSUME IInv, NEW size \in TermSizes, PutTerm(size)
  PROVE  TermsInPlace'
<1>0. /\ wpc = "put" /\ wpc' = "copy" /\ left' = size /\ sizes' = Append(sizes, size)
      /\ UNCHANGED <<memory, got, poin, rpc, MasterBlock, FillBlock, fill, ending>>
      /\ left = 0 /\ EndSize = 0 /\ EndSize' = 0
  BY DEF PutTerm, IInv, WriterInStep, readervars, EndSize
<1> SUFFICES ASSUME Running' PROVE TermsInPlace'
  BY DEF TermsInPlace
<1>1. Running
  BY <1>0 DEF Running
<1>2. PICK pos \in [1..Len(sizes)+1 -> Int] : Layout(pos)
  BY <1>1 DEF IInv, TermsInPlace
<1> DEFINE L == Len(sizes)
<1>3. /\ L \in Nat /\ Len(sizes') = L + 1 /\ sizes'[L+1] = size /\ size \in Nat
      /\ \A t \in 1..L : sizes'[t] = sizes[t]
      /\ K \in 1..L+1
  BY <1>0, AppendFacts, SizesOfTerms, Sizes DEF IInv, Types
<1>4. /\ \A t \in 1..L+1 : pos[t] \in Int
      /\ FillPos = pos[L+1] /\ FillPos' = FillPos
      /\ K' = K /\ Now' = Now /\ Tail_' = Tail_
  BY <1>0, <1>1, <1>2, <1>3, LayoutFacts DEF K, Now, Tail_, FillPos
<1>5. PICK q \in [1..L+2 -> Int] : \A t \in 1..L+2 : q[t] = IF t <= L+1 THEN pos[t] ELSE pos[L+1] + size
  <2> DEFINE f == [t \in 1..L+2 |-> IF t <= L+1 THEN pos[t] ELSE pos[L+1] + size]
  <2>1. \A t \in 1..L+2 : (IF t <= L+1 THEN pos[t] ELSE pos[L+1] + size) \in Int
    BY <1>3, <1>4
  <2>2. f \in [1..L+2 -> Int]
    BY <2>1
  <2>3. QED
    BY <2>2
<1> HIDE DEF L
<1>6. (\A t \in 1..L+1 : q[t] = pos[t]) /\ q[L+2] = pos[L+1] + size
  BY <1>3, <1>5
<1>7. \A t \in 1..L : t + 1 \in 1..L+1 /\ t \in 1..L+1
  BY <1>3
<1>8. /\ \A t \in 1..L : pos[t+1] = pos[t] + sizes[t]
      /\ \A s, t \in 1..L+1 : s <= t => pos[s] <= pos[t]
  BY <1>2 DEF Layout, Spaced, L
<1>9. Spaced(q)'
  <2>1. \A t \in 1..L+1 : q[t+1] = q[t] + sizes'[t]
    <3> TAKE t \in 1..L+1
    <3>1. CASE t <= L
      BY <1>3, <1>6, <1>7, <1>8, <3>1
    <3>2. CASE ~(t <= L)
      <4>1. t = L + 1 /\ t + 1 = L + 2 /\ L + 1 \in 1..L+1
        BY <1>3, <3>2
      <4>2. QED
        BY <1>3, <1>6, <4>1
    <3>3. QED
      BY <3>1, <3>2
  <2>2. \A s, t \in 1..L+2 : s <= t => q[s] <= q[t]
    <3>1. TAKE s, t \in 1..L+2
    <3>2. HAVE s <= t
    <3>3. CASE t <= L + 1
      <4>1. s \in 1..L+1 /\ t \in 1..L+1
        BY <1>3, <3>2, <3>3
      <4>2. QED
        BY <1>6, <1>8, <3>2, <4>1
    <3>4. CASE s = L + 2
      BY <1>3, <1>5, <3>2, <3>4
    <3>5. CASE s <= L + 1 /\ t > L + 1
      <4>1. s \in 1..L+1 /\ L + 1 \in 1..L+1 /\ s <= L+1 /\ t = L+2
        BY <1>3, <3>5
      <4>2. q[s] = pos[s] /\ pos[s] <= pos[L+1] /\ q[t] = pos[L+1] + size
            /\ pos[s] \in Int /\ pos[L+1] \in Int
        BY <1>4, <1>6, <1>8, <4>1
      <4>3. QED
        BY <1>3, <4>2
    <3>6. QED
      BY <1>3, <3>3, <3>4, <3>5
  <2>3. FillPos' = q[L+2] + EndSize' - left'
    <3>1. L + 1 \in 1..L+1
      BY <1>3
    <3>2. pos[L+1] \in Int /\ FillPos = pos[L+1]
      BY <1>4, <3>1 DEF L
    <3>3. QED
      BY <1>0, <1>3, <1>4, <1>6, <3>2
  <2>4. Len(sizes') + 1 = L + 2
    BY <1>3
  <2>5. QED
    BY <1>3, <2>1, <2>2, <2>3, <2>4 DEF Spaced
<1>10. WordsInPlace(q)'
  <2>1. ASSUME NEW t \in K..L+1, NEW i \in 0..sizes'[t]-1, q[t] + i < FillPos'
        PROVE  memory'[Address(q[t] + i)'] = <<t, i>>
    <3>1. t \in 1..L+1 /\ q[t] = pos[t] /\ pos[t] \in Int /\ i \in Nat
      BY <1>3, <1>4, <1>6 DEF L
    <3>2. CASE t = L + 1
      <4>1. FillPos' = pos[L+1] /\ pos[L+1] \in Int
        BY <1>4, <3>1, <3>2 DEF L
      <4>2. QED
        BY <2>1, <3>1, <3>2, <4>1
    <3>3. CASE t # L + 1
      <4>1. t \in K..L /\ t \in 1..L
        BY <1>3, <3>1, <3>3
      <4>2. i \in 0..sizes[t]-1 /\ pos[t] + i < FillPos
        BY <1>3, <1>4, <2>1, <3>1, <4>1
      <4>3. memory[Address(pos[t] + i)] = <<t, i>>
        BY <1>2, <4>1, <4>2 DEF Layout, WordsInPlace, L
      <4>4. QED
        BY <1>0, <1>4, <3>1, <4>3 DEF Address
    <3>4. QED
      BY <3>2, <3>3
  <2>2. EndSize' # 1 /\ K' = K /\ Len(sizes') = L + 1
    BY <1>0, <1>3, <1>4
  <2>3. QED
    BY <2>1, <2>2 DEF WordsInPlace
<1>11. ReaderInPlace(q)'
  <2>1. q[K] = pos[K]
    BY <1>3, <1>6
  <2>2. rpc = "use" => K <= L
    BY <1>0, <1>3, AtTerm, SizesOfTerms DEF L
  <2>3. rpc = "use" => q[K+1] = pos[K+1]
    BY <1>3, <1>6, <1>7, <2>2
  <2>4. QED
    BY <1>0, <1>2, <1>4, <2>1, <2>2, <2>3 DEF Layout, ReaderInPlace, L
<1>12. Remainder(q)'
  <2>1. q[K] = pos[K]
    BY <1>3, <1>6
  <2>2. QED
    BY <1>0, <1>2, <1>4, <2>1 DEF Layout, Remainder, Address
<1>13. q \in [1..Len(sizes')+1 -> Int]
  <2>1. Len(sizes') + 1 = L + 2
    BY <1>3
  <2>2. QED
    BY <2>1
<1>14. QED
  BY <1>9, <1>10, <1>11, <1>12, <1>13 DEF TermsInPlace, Layout

\* What the inner loop writes, by position.
LEMMA CopiedWords ==
  ASSUME IInv, Running, CopyWords
  PROVE  /\ FillPos' = FillPos + WordsThatFit
         /\ FillPos \in Nat /\ FillPos + WordsThatFit <= Shift /\ FillPos >= BlockSize
         /\ \A p \in 0..Shift-1 :
              memory'[Address(p)] =
                IF FillPos <= p /\ p < FillPos + WordsThatFit
                THEN IF ending THEN EndMark
                     ELSE <<Len(sizes), sizes[Len(sizes)] - left + (p - FillPos)>>
                ELSE memory[Address(p)]
         /\ \A a \in Words : a < MaxTer => memory'[a] = memory[a]
<1> DEFINE w == WordsThatFit
           P == FillPos
           tail == Tail_
<1>1. /\ wpc = "copy" /\ fill' = fill + w /\ FillBlock' = FillBlock
      /\ UNCHANGED <<rpc, MasterBlock>>
      /\ memory' = [a \in Words |-> IF fill <= a /\ a < fill + w
                      THEN IF ending THEN EndMark
                           ELSE <<Len(sizes), sizes[Len(sizes)] - left + a - fill>>
                      ELSE memory[a]]
  BY DEF CopyWords, readervars
<1>2. /\ FillBlock \in Ring /\ fill \in Start(FillBlock)..Stop(FillBlock) /\ left \in 0..MaxTer
      /\ Start(FillBlock) \in Nat /\ MaxTer <= Start(FillBlock)
      /\ Stop(FillBlock) = Start(FillBlock) + BlockSize
      /\ w \in 0..left /\ fill + w \in Start(FillBlock)..Stop(FillBlock)
  BY <1>1, Fits, BlockFacts
<1>3. /\ Before(Now) \in Ring /\ tail = Start(Before(Now)) /\ P \in 0..Shift
      /\ FillBlock # Before(Now) /\ P >= BlockSize
      /\ P = Position(tail, FillBlock, fill)
  BY <1>1, WriterIsAhead DEF FillPos
<1>4. tail \in Nat /\ Shift \in Nat
  BY <1>3, BlockFacts
<1>5. Tail_' = tail /\ FillPos' = P + w
  <2>1. Tail_' = tail
    BY <1>1 DEF Tail_, Now
  <2>2. Position(tail, FillBlock, fill + w) = P + w
    BY <1>2, <1>3, <1>4, Sizes DEF Position
  <2>3. QED
    BY <1>1, <2>1, <2>2 DEF FillPos
<1>6. \A x \in Nat : fill + x < Stop(FillBlock) =>
        P + x < Shift /\ AddressFrom(tail, P + x) = fill + x
  BY <1>2, <1>3, Positions
<1>7. P + w <= Shift
  <2>1. fill + w \in Start(FillBlock)..Stop(FillBlock)
    BY <1>2
  <2>2. Position(tail, FillBlock, fill + w) \in 0..Shift
    BY <1>2, <1>3, <2>1, Positions
  <2>3. Position(tail, FillBlock, fill + w) = P + w
    BY <1>2, <1>3, <1>4, Sizes DEF Position
  <2>4. QED
    BY <1>4, <2>2, <2>3
<1> HIDE DEF w, P, tail
<1>8. ASSUME NEW p \in 0..Shift-1
      PROVE  memory'[Address(p)] =
                IF P <= p /\ p < P + w
                THEN IF ending THEN EndMark
                     ELSE <<Len(sizes), sizes[Len(sizes)] - left + (p - P)>>
                ELSE memory[Address(p)]
  <2>1. /\ Address(p) = AddressFrom(tail, p) /\ Address(p) \in Words /\ Address(p) \in Int
        /\ \A q \in 0..Shift-1 : AddressFrom(tail, p) = AddressFrom(tail, q) => p = q
    <3>1. Address(p) = AddressFrom(tail, p)
      BY DEF Address, tail
    <3>2. /\ AddressFrom(tail, p) \in MaxTer..MaxTer+Shift-1 /\ AddressFrom(tail, p) \in Words
          /\ \A q \in 0..Shift-1 : AddressFrom(tail, p) = AddressFrom(tail, q) => p = q
      BY <1>3, Addresses
    <3>3. AddressFrom(tail, p) \in Int
      BY <1>4, <3>2, Sizes
    <3>4. QED
      BY <3>1, <3>2, <3>3
  <2>2. CASE P <= p /\ p < P + w
    <3>1. p - P \in Nat /\ fill + (p - P) < Stop(FillBlock) /\ P + (p - P) = p /\ p - P < w
      BY <1>2, <1>3, <1>4, <2>2, Sizes
    <3>2. Address(p) = fill + (p - P)
      BY <1>6, <2>1, <3>1
    <3>3. fill <= Address(p) /\ Address(p) < fill + w /\ Address(p) - fill = p - P
      BY <1>2, <3>1, <3>2, Sizes
    <3>4. CASE ending
      BY <1>1, <2>1, <2>2, <3>3, <3>4
    <3>5. CASE ~ending
      <4>1. memory'[Address(p)] = <<Len(sizes), sizes[Len(sizes)] - left + Address(p) - fill>>
        BY <1>1, <2>1, <3>3, <3>5
      <4>2. sizes[Len(sizes)] \in Int
        <5>1. EndSize = 0 /\ left > 0
          BY <1>1, <3>5 DEF IInv, WriterInStep, EndSize
        <5>2. Len(sizes) > 0
          BY <5>1 DEF IInv, WriterInStep
        <5>3. Len(sizes) \in 1..Len(sizes)
          BY <5>2, SizesOfTerms
        <5>4. QED
          BY <5>3, SizesOfTerms
      <4>3. sizes[Len(sizes)] - left + Address(p) - fill = sizes[Len(sizes)] - left + (p - P)
        BY <1>2, <2>1, <3>3, <4>2, Sizes
      <4>4. QED
        BY <2>2, <3>5, <4>1, <4>3
    <3>6. QED
      BY <3>4, <3>5 DEF IInv, EndingType
  <2>3. CASE ~(P <= p /\ p < P + w)
    <3>1. ASSUME fill <= Address(p), Address(p) < fill + w PROVE FALSE
      <4> DEFINE x == Address(p) - fill
      <4>1. x \in Nat /\ x < w /\ fill + x = Address(p) /\ fill + x < Stop(FillBlock)
        BY <1>2, <2>1, <3>1, Sizes
      <4>2. P + x < Shift /\ AddressFrom(tail, P + x) = Address(p)
        BY <1>6, <4>1
      <4> HIDE DEF x
      <4>3. P + x \in 0..Shift-1
        BY <1>3, <1>4, <4>1, <4>2
      <4>4. p = P + x
        BY <2>1, <4>2, <4>3
      <4>5. QED
        BY <1>2, <1>3, <1>4, <2>3, <4>1, <4>4, Sizes
    <3>2. QED
      BY <1>1, <2>1, <2>3, <3>1
  <2>4. QED
    BY <2>2, <2>3
<1>9. ASSUME NEW a \in Words, a < MaxTer PROVE memory'[a] = memory[a]
  <2>1. ~(fill <= a)
    <3>1. a \in Int
      BY <1>9, BlockFacts, Sizes DEF Words
    <3>2. QED
      BY <1>2, <1>9, <3>1, Sizes
  <2>2. QED
    BY <1>1, <2>1
<1>10. QED
  BY <1>3, <1>5, <1>7, <1>8, <1>9 DEF w, P

LEMMA CopyWordsKeeps ==
  ASSUME IInv, CopyWords
  PROVE  TermsInPlace'
<1> DEFINE w == WordsThatFit
           P == FillPos
           L == Len(sizes)
<1>0. /\ wpc = "copy" /\ left' = left - w
      /\ UNCHANGED <<sizes, got, poin, rpc, MasterBlock, FillBlock, ending>>
  BY DEF CopyWords, readervars
<1> SUFFICES ASSUME Running' PROVE TermsInPlace'
  BY DEF TermsInPlace
<1>1. Running
  BY <1>0 DEF Running
<1>2. PICK pos \in [1..Len(sizes)+1 -> Int] : Layout(pos)
  BY <1>1 DEF IInv, TermsInPlace
<1>3. /\ P' = P + w /\ P \in Nat /\ P + w <= Shift /\ P >= BlockSize
      /\ \A p \in 0..Shift-1 :
              memory'[Address(p)] =
                IF P <= p /\ p < P + w
                THEN IF ending THEN EndMark ELSE <<L, sizes[L] - left + (p - P)>>
                ELSE memory[Address(p)]
      /\ \A a \in Words : a < MaxTer => memory'[a] = memory[a]
  BY <1>1, CopiedWords
<1>4. /\ L \in Nat /\ K \in 1..L+1 /\ EndSize \in {0, 1} /\ left \in 1..MaxTer
      /\ \A t \in 1..L : sizes[t] \in 1..MaxTer
      /\ EndSize = 1 => left = 1
      /\ EndSize = 0 => L > 0 /\ left <= sizes[L]
      /\ ending <=> EndSize = 1
      /\ w \in 0..left /\ Shift \in Nat
  <2>1. left > 0 /\ (EndSize = 1 => left = 1) /\ (EndSize = 0 => L > 0 /\ left <= sizes[L])
    BY <1>0 DEF IInv, WriterInStep
  <2>2. ending <=> EndSize = 1
    BY DEF EndSize
  <2>3. w \in 0..left
    BY <1>0, Fits
  <2>4. left \in 1..MaxTer
    BY <2>1, SizesOfTerms
  <2>5. QED
    BY <2>1, <2>2, <2>3, <2>4, SizesOfTerms, BlockFacts
<1>5. /\ EndSize' = EndSize /\ Now' = Now /\ Tail_' = Tail_ /\ K' = K
      /\ \A p : Address(p)' = Address(p)
  BY <1>0 DEF EndSize, Now, Tail_, K, Address
<1>6. /\ \A t \in 1..L+1 : pos[t] \in Int
      /\ \A t \in K..L+1 : pos[t] \in Nat /\ pos[K] <= pos[t] /\ pos[t] <= pos[L+1]
      /\ \A t \in 1..L : pos[t+1] = pos[t] + sizes[t]
      /\ P = pos[L+1] + EndSize - left
  BY <1>1, <1>2, LayoutFacts
<1> HIDE DEF w, P, L
<1>7. pos[L+1] \in Int /\ pos[L+1] \in Nat /\ pos[K] \in Nat
  BY <1>4, <1>6
<1>8. Spaced(pos)'
  <2>1. P' = pos[L+1] + EndSize - (left - w)
    BY <1>3, <1>4, <1>6, <1>7
  <2>2. QED
    BY <1>0, <1>2, <1>5, <2>1 DEF Layout, Spaced, P, L
<1>9. WordsInPlace(pos)'
  <2>1. ASSUME NEW t \in K..L, NEW i \in 0..sizes[t]-1, pos[t] + i < P + w
        PROVE  memory'[Address(pos[t] + i)] = <<t, i>>
    <3>1. t \in 1..L /\ t \in K..L+1 /\ t + 1 \in K..L+1 /\ sizes[t] \in 1..MaxTer /\ i \in Nat
          /\ pos[t] \in Nat /\ pos[t+1] = pos[t] + sizes[t] /\ pos[t+1] <= pos[L+1]
          /\ i < sizes[t]
      <4>1. t \in 1..L /\ t \in K..L+1 /\ t + 1 \in K..L+1
        BY <1>4
      <4>2. sizes[t] \in 1..MaxTer /\ i \in Nat /\ i < sizes[t]
        BY <1>4, <4>1
      <4>3. pos[t] \in Nat /\ pos[t+1] <= pos[L+1]
        BY <1>6, <4>1
      <4>4. pos[t+1] = pos[t] + sizes[t]
        BY <1>6, <4>1
      <4>5. QED
        BY <4>1, <4>2, <4>3, <4>4
    <3> DEFINE p == pos[t] + i
    <3>0. p = pos[t] + i
      OBVIOUS
    <3>2. p \in 0..Shift-1 /\ p \in Nat
      BY <1>3, <1>4, <2>1, <3>1
    <3>6. /\ memory'[Address(p)] =
                IF P <= p /\ p < P + w
                THEN IF ending THEN EndMark ELSE <<L, sizes[L] - left + (p - P)>>
                ELSE memory[Address(p)]
          /\ p < P => memory[Address(p)] = <<t, i>>
      BY <1>2, <1>3, <3>2 DEF Layout, WordsInPlace, P, L
    <3> HIDE DEF p
    <3>3. CASE p < P
      <4>1. memory'[Address(p)] = memory[Address(p)]
        <5>1. ~(P <= p)
          BY <1>3, <3>2, <3>3
        <5>2. QED
          BY <3>6, <5>1
      <4>2. QED
        BY <3>0, <3>3, <3>6, <4>1
    <3>4. CASE ~(p < P)
      <4>1. EndSize = 0
        <5>1. EndSize = 1 => P = pos[L+1]
          BY <1>4, <1>6, <1>7
        <5>2. p < pos[L+1]
          BY <1>7, <3>0, <3>1
        <5>3. QED
          BY <1>4, <1>7, <3>2, <3>4, <5>1, <5>2
      <4>2. L \in 1..L /\ P = pos[L+1] - left /\ pos[L+1] = pos[L] + sizes[L] /\ left <= sizes[L]
            /\ pos[L] \in Int /\ sizes[L] \in Int /\ left \in Int
        <5>1. L \in 1..L /\ L \in 1..L+1
          BY <1>4, <4>1
        <5>2. pos[L] \in Int /\ pos[L+1] = pos[L] + sizes[L]
          BY <1>6, <5>1
        <5>3. sizes[L] \in Int /\ left \in Int /\ left <= sizes[L]
          BY <1>4, <4>1, <5>1
        <5>4. P = pos[L+1] - left
          <6>1. P = pos[L+1] + EndSize - left
            BY <1>6
          <6>2. QED
            BY <1>7, <4>1, <5>3, <6>1
        <5>5. QED
          BY <5>1, <5>2, <5>3, <5>4
      <4>3. t = L
        <5>1. CASE t < L
          <6>1. t + 1 \in 1..L+1 /\ L \in 1..L+1 /\ t + 1 <= L
            BY <1>4, <3>1, <5>1
          <6>2. pos[t+1] <= pos[L]
            BY <1>2, <6>1 DEF Layout, Spaced, L
          <6>3. p < pos[L] /\ pos[L] <= P
            <7>1. p < pos[t+1] /\ pos[t+1] \in Int /\ p \in Int
              BY <3>0, <3>1
            <7>2. pos[L] <= P
              BY <1>7, <4>2
            <7>3. QED
              BY <4>2, <6>2, <7>1, <7>2
          <6>4. QED
            BY <1>3, <3>2, <3>4, <4>2, <6>3
        <5>2. QED
          BY <1>4, <3>1, <5>1
      <4>4. memory'[Address(p)] = <<L, sizes[L] - left + (p - P)>>
        <5>1. P <= p /\ p < P + w
          BY <1>3, <2>1, <3>0, <3>2, <3>4
        <5>2. ~ending
          BY <1>4, <4>1
        <5>3. QED
          BY <3>6, <5>1, <5>2
      <4>5. sizes[L] - left + (p - P) = i
        <5>1. p = pos[L] + i /\ i \in Int
          BY <3>0, <3>1, <4>3
        <5>2. P = pos[L] + sizes[L] - left
          BY <4>2
        <5>3. \A x, y, z, u \in Int : y - z + ((x + u) - (x + y - z)) = u
          OBVIOUS
        <5>4. pos[L] \in Int /\ sizes[L] \in Int /\ left \in Int
          BY <4>2
        <5>5. QED
          BY <5>1, <5>2, <5>3, <5>4
      <4>6. QED
        BY <3>0, <4>3, <4>4, <4>5
    <3>5. QED
      BY <3>3, <3>4
  <2>2. ASSUME EndSize = 1, left - w = 0
        PROVE  memory'[Address(pos[L+1])] = EndMark
    <3>1. left = 1 /\ w = 1 /\ P = pos[L+1] /\ ending
      BY <1>4, <1>6, <1>7, <2>2
    <3>2. P \in 0..Shift-1 /\ P <= P /\ P < P + w
      BY <1>3, <1>4, <3>1
    <3>3. QED
      BY <1>3, <3>1, <3>2
  <2>3. QED
    BY <1>0, <1>3, <1>5, <2>1, <2>2 DEF WordsInPlace, P, L
<1>10. ReaderInPlace(pos)'
  BY <1>0, <1>2, <1>5 DEF Layout, ReaderInPlace
<1>11. Remainder(pos)'
  <2> SUFFICES ASSUME Now = 1
               PROVE  /\ pos[K] >= BlockSize - MaxTer - COMPINC
                      /\ \A p \in pos[K]..BlockSize-1 :
                            memory'[Start(1) - BlockSize + p] = memory'[Address(p)]
    BY <1>5 DEF Remainder
  <2>1. /\ pos[K] >= BlockSize - MaxTer - COMPINC
        /\ \A p \in pos[K]..BlockSize-1 : memory[Start(1) - BlockSize + p] = memory[Address(p)]
    BY <1>2 DEF Layout, Remainder
  <2>2. ASSUME NEW p \in pos[K]..BlockSize-1
        PROVE  memory'[Start(1) - BlockSize + p] = memory'[Address(p)]
    <3> DEFINE a == Start(1) - BlockSize + p
    <3>1. p \in 0..Shift-1 /\ p < P /\ p \in Nat
      BY <1>3, <1>4, <1>7, BlockFacts, Sizes
    <3>2. a \in Words /\ a < MaxTer
      <4>1. p \in Int /\ p >= BlockSize - MaxTer - COMPINC /\ p < BlockSize
        BY <1>7, <2>1, Sizes
      <4>2. a \in Int /\ a >= -COMPINC /\ a < MaxTer
        BY <4>1, Sizes
      <4> HIDE DEF a
      <4>3. QED
        BY <4>2, BlockFacts, Sizes DEF Words
    <3>3. memory'[a] = memory[a]
      BY <1>3, <3>2
    <3>4. memory'[Address(p)] = memory[Address(p)]
      <4>1. ~(P <= p)
        BY <1>3, <3>1
      <4>2. QED
        BY <1>3, <3>1, <4>1
    <3>5. QED
      BY <2>1, <3>3, <3>4
  <2>3. QED
    BY <2>1, <2>2
<1>12. QED
  BY <1>0, <1>8, <1>9, <1>10, <1>11 DEF TermsInPlace, Layout

LEMMA LeaveBlockKeeps ==
  ASSUME IInv, LeaveBlock
  PROVE  TermsInPlace'
<1>1. /\ wpc = "leaveblock" /\ wpc' = "copy" /\ FillBlock' = After(FillBlock)
      /\ fill' = Start(After(FillBlock)) /\ fill = Stop(FillBlock)
      /\ UNCHANGED <<memory, sizes, got, poin, rpc, MasterBlock, left, ending>>
  BY DEF LeaveBlock, IInv, WriterInStep, readervars
<1>2. EndSize' = EndSize /\ left' = left /\ left > 0 /\ (Running' <=> Running)
  BY <1>1 DEF EndSize, Running, IInv, WriterInStep
<1>3. ASSUME Running PROVE FillPos' = FillPos
  <2>1. Before(Now) \in Ring /\ FillBlock \in Ring /\ Before(Now) \in ReaderHolds
    BY <1>3, WriterIsAhead
  <2>2. After(FillBlock) \in WriterHolds
    BY <1>1 DEF WriterHolds
  <2>3. After(FillBlock) # Before(Now)
    BY <2>1, <2>2, LocksHeld
  <2>4. Tail_' = Tail_ /\ Tail_ = Start(Before(Now))
    BY <1>1 DEF Tail_, Now
  <2>5. QED
    BY <1>1, <2>1, <2>3, <2>4, NextPosition DEF FillPos
<1>4. CASE Running
  BY <1>1, <1>2, <1>3, <1>4, LayoutStays
<1>5. CASE ~Running
  BY <1>2, <1>5 DEF TermsInPlace
<1>6. QED
  BY <1>4, <1>5

\* The reader gets its first block, or waits no longer for the one it needs.
LEMMA ReaderGoesOn ==
  ASSUME IInv, WaitForClaim \/ LockBlock
  PROVE  TermsInPlace'
<1>1. /\ UNCHANGED <<memory, sizes, got, wpc, FillBlock, fill, left, ending, reader>>
      /\ rpc \in {"waitclaim", "lock"} /\ rpc' \in {"lock", "use"}
  BY DEF WaitForClaim, LockBlock, writervars
<1> SUFFICES ASSUME Running' PROVE TermsInPlace'
  BY DEF TermsInPlace
<1>2. Running
  BY <1>1 DEF Running
<1>3. PICK pos \in [1..Len(sizes)+1 -> Int] : Layout(pos)
  BY <1>2 DEF IInv, TermsInPlace
<1>4. Now' = Now
  BY DEF WaitForClaim, LockBlock, Now
<1>5. /\ EndSize' = EndSize /\ Tail_' = Tail_ /\ K' = K /\ FillPos' = FillPos
      /\ \A p : Address(p)' = Address(p)
  BY <1>1, <1>4 DEF EndSize, Tail_, K, FillPos, Address
<1>6. Spaced(pos)'
  BY <1>1, <1>3, <1>5 DEF Layout, Spaced
<1>7. WordsInPlace(pos)'
  BY <1>1, <1>3, <1>5 DEF Layout, WordsInPlace
<1>8. Remainder(pos)'
  BY <1>1, <1>3, <1>4, <1>5 DEF Layout, Remainder
<1>9. ReaderInPlace(pos)'
  <2>1. CASE WaitForClaim
    <3>1. rpc = "waitclaim" /\ rpc' = "lock" /\ poin' = Start(1) /\ Now' = 1
      BY <2>1 DEF WaitForClaim, Now
    <3>2. pos[K] = BlockSize
      BY <1>3, <3>1 DEF Layout, ReaderInPlace
    <3>3. poin' = Start(Now') - BlockSize + pos[K]
      BY <3>1, <3>2, Sizes
    <3>4. QED
      BY <1>5, <3>1, <3>2, <3>3, Sizes DEF ReaderInPlace
  <2>2. CASE LockBlock
    <3>1. rpc = "lock" /\ rpc' = "use" /\ poin' = poin
      BY <2>2 DEF LockBlock
    <3>2. pos[K] >= 0 /\ pos[K] <= BlockSize /\ poin = Start(Now) - BlockSize + pos[K]
          /\ pos[K] \in Int
      BY <1>2, <1>3, <3>1, LayoutFacts, SizesOfTerms DEF Layout, ReaderInPlace
    <3>3. pos[K] < 2 * BlockSize
      BY <3>2, Sizes
    <3>4. K <= Len(sizes) => pos[K+1] < 2 * BlockSize
      <4>1. K <= Len(sizes) => K \in 1..Len(sizes)
        BY SizesOfTerms
      <4>2. K <= Len(sizes) => pos[K+1] = pos[K] + sizes[K] /\ sizes[K] \in 1..MaxTer
        BY <1>2, <1>3, <4>1, LayoutFacts, SizesOfTerms
      <4>3. QED
        BY <3>2, <4>2, Sizes
    <3>5. QED
      BY <1>1, <1>4, <1>5, <3>1, <3>2, <3>3, <3>4 DEF ReaderInPlace
  <2>3. QED
    BY <2>1, <2>2
<1>10. QED
  BY <1>1, <1>3, <1>6, <1>7, <1>8, <1>9 DEF TermsInPlace, Layout

\* What the reader knows of the term it looks at and of the next one when it goes on.
LEMMA NextTermSeen ==
  ASSUME IInv, rpc = "use", SizeAt(poin) > 0,
         NEW pos \in [1..Len(sizes)+1 -> Int], Layout(pos)
  PROVE  /\ K \in 1..Len(sizes) /\ SizeAt(poin) = sizes[K] /\ Running
         /\ Now = MasterBlock /\ MasterBlock \in Ring
         /\ pos[K] \in Nat /\ pos[K+1] \in Nat /\ pos[K+1] = pos[K] + sizes[K]
         /\ pos[K+1] < 2 * BlockSize
         /\ NextAddress = Start(MasterBlock) - BlockSize + pos[K+1]
         /\ K + 1 <= Len(sizes) =>
              /\ SizeAt(NextAddress) = sizes[K+1] /\ sizes[K+1] \in 1..MaxTer
              /\ pos[K+2] = pos[K+1] + sizes[K+1]
         /\ K = Len(sizes) => SizeAt(NextAddress) = 0
<1>1. /\ Running /\ K <= Len(sizes) /\ SizeAt(poin) = sizes[K] /\ poin \in Int
  BY AtTerm
<1>2. /\ K \in 1..Len(sizes) /\ K \in K..Len(sizes)+1 /\ K + 1 \in K..Len(sizes)+1
      /\ sizes[K] \in 1..MaxTer /\ Len(sizes) \in Nat
      /\ \A t \in 1..Len(sizes) : sizes[t] \in 1..MaxTer
  BY <1>1, SizesOfTerms
<1>3. Now = MasterBlock /\ MasterBlock \in Ring
  BY WriterIsAhead, <1>1 DEF Now
<1>4. pos[K] \in Nat /\ pos[K+1] \in Nat /\ pos[K+1] = pos[K] + sizes[K]
      /\ \A t \in 1..Len(sizes) : pos[t+1] = pos[t] + sizes[t]
  BY <1>1, <1>2, LayoutFacts
<1>5. pos[K+1] < 2 * BlockSize /\ poin = Start(MasterBlock) - BlockSize + pos[K]
  BY <1>1, <1>3 DEF Layout, ReaderInPlace
<1>6. NextAddress = Start(MasterBlock) - BlockSize + pos[K+1]
  <2>1. Start(MasterBlock) \in Int
    BY <1>3, BlockFacts
  <2>2. QED
    BY <1>1, <1>2, <1>4, <1>5, <2>1, Sizes DEF NextAddress
<1>7. IF K + 1 <= Len(sizes) THEN SizeAt(NextAddress) = sizes[K+1] ELSE SizeAt(NextAddress) = 0
  BY <1>1, <1>2, <1>3, <1>5, <1>6, ReaderSees
<1>8. K + 1 <= Len(sizes) => /\ sizes[K+1] \in 1..MaxTer
                             /\ pos[K+2] = pos[K+1] + sizes[K+1]
  <2>1. K + 1 <= Len(sizes) => K + 1 \in 1..Len(sizes) /\ (K + 1) + 1 = K + 2
    BY <1>2
  <2>2. QED
    BY <1>2, <1>4, <2>1
<1>9. K = Len(sizes) => ~(K + 1 <= Len(sizes))
  BY <1>2
<1>10. QED
  BY <1>1, <1>2, <1>3, <1>4, <1>5, <1>6, <1>7, <1>8, <1>9

LEMMA TermTaken ==
  ASSUME IInv, rpc = "use", SizeAt(poin) > 0, got' = Append(got, SizeAt(poin))
  PROVE  /\ K' = K + 1 /\ Len(got') = Len(got) + 1
         /\ K \in 1..Len(sizes) /\ Len(sizes) \in Nat
<1>1. K \in 1..Len(sizes) /\ SizeAt(poin) = sizes[K] /\ Len(sizes) \in Nat
  BY AtTerm, SizesOfTerms
<1>2. SizeAt(poin) \in TermSizes /\ got \in Seq(TermSizes)
  BY <1>1 DEF IInv, Types
<1>3. Len(got') = Len(got) + 1
  BY <1>2, AppendFacts
<1>4. QED
  BY <1>1, <1>3 DEF K

LEMMA StaysInBlockKeeps ==
  ASSUME IInv, StaysInBlock
  PROVE  TermsInPlace'
<1>1. /\ rpc = "use" /\ rpc' = "use" /\ SizeAt(poin) > 0 /\ ~CrossesBlock
      /\ got' = Append(got, SizeAt(poin)) /\ poin' = NextAddress
      /\ UNCHANGED <<memory, sizes, wpc, FillBlock, fill, left, ending, reader, MasterBlock>>
  BY DEF StaysInBlock, writervars
<1>2. Running
  BY <1>1, AtTerm
<1>3. PICK pos \in [1..Len(sizes)+1 -> Int] : Layout(pos)
  BY <1>2 DEF IInv, TermsInPlace
<1>4. /\ K' = K + 1 /\ EndSize' = EndSize /\ Now' = Now /\ Tail_' = Tail_ /\ FillPos' = FillPos
      /\ \A p : Address(p)' = Address(p)
      /\ K \in 1..Len(sizes) /\ Len(sizes) \in Nat
  BY <1>1, TermTaken DEF EndSize, Now, Tail_, FillPos, Address
<1>5. /\ Now = MasterBlock /\ MasterBlock \in Ring
      /\ pos[K] \in Nat /\ pos[K+1] \in Nat /\ pos[K+1] = pos[K] + sizes[K]
      /\ pos[K+1] < 2 * BlockSize
      /\ NextAddress = Start(MasterBlock) - BlockSize + pos[K+1]
      /\ K + 1 <= Len(sizes) =>
              /\ SizeAt(NextAddress) = sizes[K+1] /\ sizes[K+1] \in 1..MaxTer
              /\ pos[K+2] = pos[K+1] + sizes[K+1]
  BY <1>1, <1>3, NextTermSeen
<1>6. pos[K] <= pos[K+1]
  <2>1. sizes[K] \in 1..MaxTer
    BY <1>4, SizesOfTerms
  <2>2. QED
    BY <1>5, <2>1, Sizes
<1>7. Spaced(pos)'
  BY <1>1, <1>3, <1>4 DEF Layout, Spaced
<1>8. WordsInPlace(pos)'
  <2>1. \A t \in (K + 1)..Len(sizes) : t \in K..Len(sizes)
    BY <1>4
  <2>2. QED
    BY <1>1, <1>3, <1>4, <2>1 DEF Layout, WordsInPlace
<1>9. Remainder(pos)'
  <2>1. \A p \in pos[K+1]..BlockSize-1 : p \in pos[K]..BlockSize-1
    BY <1>5, <1>6, Sizes
  <2>2. pos[K] >= BlockSize - MaxTer - COMPINC => pos[K+1] >= BlockSize - MaxTer - COMPINC
    BY <1>5, <1>6, Sizes
  <2>3. QED
    BY <1>1, <1>3, <1>4, <2>1, <2>2 DEF Layout, Remainder
<1>10. ReaderInPlace(pos)'
  <2>1. K + 1 <= Len(sizes) => pos[K+2] < 2 * BlockSize
    <3> SUFFICES ASSUME K + 1 <= Len(sizes) PROVE pos[K+2] < 2 * BlockSize
      OBVIOUS
    <3>1. NextAddress + sizes[K+1] + COMPINC <= Stop(MasterBlock)
      <4>1. NextAddress \in Int /\ Stop(MasterBlock) \in Int /\ sizes[K+1] \in 1..MaxTer
            /\ SizeAt(NextAddress) = sizes[K+1]
        <5>1. Start(MasterBlock) \in Nat /\ Stop(MasterBlock) = Start(MasterBlock) + BlockSize
          BY <1>5, BlockFacts
        <5>2. NextAddress \in Int /\ Stop(MasterBlock) \in Int
          <6>1. BlockSize \in Nat /\ pos[K+1] \in Nat
            BY <1>5, Sizes
          <6>2. NextAddress = Start(MasterBlock) - BlockSize + pos[K+1]
            BY <1>5
          <6>3. QED
            BY <5>1, <6>1, <6>2
        <5>3. QED
          BY <1>5, <5>2
      <4>2. CASE reader = "MasterMerge"
        BY <1>1, <4>1, <4>2, Sizes DEF CrossesBlock
      <4>3. CASE reader # "MasterMerge"
        BY <1>1, <4>1, <4>3, Sizes DEF CrossesBlock
      <4>4. QED
        BY <4>2, <4>3
    <3>2. Stop(MasterBlock) = Start(MasterBlock) + BlockSize /\ Start(MasterBlock) \in Nat
      BY <1>5, BlockFacts
    <3>3. /\ pos[K+1] \in Nat /\ sizes[K+1] \in 1..MaxTer /\ BlockSize \in Nat /\ COMPINC = 2
          /\ pos[K+2] = pos[K+1] + sizes[K+1]
          /\ NextAddress = Start(MasterBlock) - BlockSize + pos[K+1]
      BY <1>5, Sizes
    <3>4. Start(MasterBlock) - BlockSize + pos[K+1] + sizes[K+1] + COMPINC
            <= Start(MasterBlock) + BlockSize
      BY <3>1, <3>2, <3>3
    <3>5. sizes[K+1] \in Nat
      BY <3>3, Sizes
    <3>6. QED
      BY <3>2, <3>3, <3>4, <3>5
  <2>2. (K + 1) + 1 = K + 2
    BY <1>4
  <2>3. QED
    BY <1>1, <1>4, <1>5, <2>1, <2>2 DEF ReaderInPlace
<1>11. QED
  BY <1>1, <1>3, <1>7, <1>8, <1>9, <1>10 DEF TermsInPlace, Layout

\* When the reader goes to the next block, the term it has to look at starts in the block it
\* leaves, and the writer is past the block the reader gives up.
LEMMA CrossingFacts ==
  ASSUME IInv, CrossBlock, NEW pos \in [1..Len(sizes)+1 -> Int], Layout(pos)
  PROVE  /\ pos[K+1] >= 2 * BlockSize - MaxTer - COMPINC
         /\ FillBlock # Before(MasterBlock)
<1>1. rpc = "use" /\ SizeAt(poin) > 0 /\ CrossesBlock
  BY DEF CrossBlock
<1>2. /\ K \in 1..Len(sizes) /\ Running /\ Now = MasterBlock /\ MasterBlock \in Ring
      /\ pos[K+1] \in Nat /\ pos[K+1] < 2 * BlockSize
      /\ NextAddress = Start(MasterBlock) - BlockSize + pos[K+1]
      /\ K + 1 <= Len(sizes) => SizeAt(NextAddress) = sizes[K+1] /\ sizes[K+1] \in 1..MaxTer
      /\ K = Len(sizes) => SizeAt(NextAddress) = 0
  BY <1>1, NextTermSeen
<1>3. Stop(MasterBlock) = Start(MasterBlock) + BlockSize /\ Start(MasterBlock) \in Nat
  BY <1>2, BlockFacts
<1>4. SizeAt(NextAddress) \in 0..MaxTer
  <2>1. K = Len(sizes) \/ K + 1 <= Len(sizes)
    BY <1>2, SizesOfTerms
  <2>2. QED
    BY <1>2, <2>1, Sizes
<1>5. NextAddress + SizeAt(NextAddress) + COMPINC >= Stop(MasterBlock)
  <2>1. NextAddress \in Int /\ Stop(MasterBlock) \in Int /\ SizeAt(NextAddress) \in Nat
    BY <1>2, <1>3, <1>4, Sizes
  <2>2. CASE reader = "MasterMerge"
    BY <1>1, <2>1, <2>2, Sizes DEF CrossesBlock
  <2>3. CASE reader # "MasterMerge"
    BY <1>1, <2>1, <2>3, Sizes DEF CrossesBlock
  <2>4. QED
    BY <2>2, <2>3
<1>6. pos[K+1] >= 2 * BlockSize - MaxTer - COMPINC
  BY <1>2, <1>3, <1>4, <1>5, Sizes
<1>7. FillBlock # Before(MasterBlock)
  <2>1. CASE wpc # "done"
    BY <1>2, <2>1, WriterIsAhead
  <2>2. CASE wpc = "done"
    <3>1. EndSize = 1 /\ left = 0
      BY <2>2 DEF IInv, WriterInStep
    <3>2. FillPos = pos[Len(sizes)+1] + EndSize - left
      BY <1>2, LayoutFacts
    <3>3. K + 1 \in K..Len(sizes)+1 /\ Len(sizes)+1 \in 1..Len(sizes)+1
      BY <1>2, SizesOfTerms
    <3>4. pos[K+1] <= pos[Len(sizes)+1] /\ pos[Len(sizes)+1] \in Int
      BY <1>2, <3>3, LayoutFacts
    <3>5. FillPos > BlockSize
      BY <1>2, <1>6, <3>1, <3>2, <3>4, Sizes
    <3>6. FillBlock = Before(Now) => FillPos <= BlockSize
      BY <1>2, WriterIsAhead
    <3>7. FillPos \in Int
      BY <3>1, <3>2, <3>4
    <3>8. QED
      BY <1>2, <3>5, <3>6, <3>7, Sizes
  <2>3. QED
    BY <2>1, <2>2
<1>8. QED
  BY <1>6, <1>7

\* What the reader moves when it leaves the last block.
LEMMA MovedWords ==
  ASSUME IInv, CrossBlock, NEW pos \in [1..Len(sizes)+1 -> Int], Layout(pos)
  PROVE  /\ \A p \in 0..Shift-1 : memory'[Address(p)] = memory[Address(p)]
         /\ MasterBlock = MasterNumBlocks =>
              \A p \in (pos[K+1] - BlockSize)..BlockSize-1 :
                 memory'[Start(1) - BlockSize + p] = memory'[AddressFrom(Start(MasterBlock), p)]
<1>1. rpc = "use" /\ SizeAt(poin) > 0
  BY DEF CrossBlock
<1>2. /\ Running /\ Now = MasterBlock /\ MasterBlock \in Ring
      /\ pos[K+1] \in Nat /\ pos[K+1] < 2 * BlockSize
      /\ NextAddress = Start(MasterBlock) - BlockSize + pos[K+1]
      /\ pos[K+1] >= 2 * BlockSize - MaxTer - COMPINC
  BY <1>1, NextTermSeen, CrossingFacts
<1>3. Before(Now) \in Ring /\ Tail_ = Start(Before(Now))
  BY <1>2, WriterIsAhead
<1>4. /\ Shift \in Nat /\ Shift >= 2 * BlockSize
      /\ Start(MasterBlock) \in Nat /\ MaxTer <= Start(MasterBlock)
      /\ Stop(MasterNumBlocks) = MaxTer + Shift /\ Start(1) = MaxTer
      /\ MasterBlock = MasterNumBlocks => Start(MasterBlock) = MaxTer + Shift - BlockSize
  <2>1. /\ Start(MasterBlock) \in Nat /\ MaxTer <= Start(MasterBlock)
        /\ Stop(MasterBlock) = Start(MasterBlock) + BlockSize
    BY <1>2, BlockFacts
  <2>2. QED
    BY <2>1, Numbers
<1>5. \A x \in Int : x \in Words <=> -(MaxTer + COMPINC) <= x /\ x <= MaxTer + Shift - 1
  BY <1>4, Sizes DEF Words
<1>6. CASE MasterBlock # MasterNumBlocks
  BY <1>6 DEF CrossBlock
<1>7. CASE MasterBlock = MasterNumBlocks
  <2> DEFINE from == NextAddress - Shift
  <2>1. memory' = [a \in Words |-> IF from <= a /\ a < MaxTer THEN memory[a + Shift] ELSE memory[a]]
    BY <1>4, <1>7 DEF CrossBlock, MoveRemainder
  <2>2. from = MaxTer - 2 * BlockSize + pos[K+1] /\ from \in Int
    BY <1>2, <1>4, <1>7, Sizes
  <2> HIDE DEF from
  <2>3. ASSUME NEW p \in 0..Shift-1 PROVE memory'[Address(p)] = memory[Address(p)]
    <3>1. Address(p) \in MaxTer..MaxTer+Shift-1 /\ Address(p) \in Words
      BY <1>3, Addresses DEF Address
    <3>2. ~(Address(p) < MaxTer)
      BY <1>4, <3>1, Sizes
    <3>3. QED
      BY <2>1, <3>1, <3>2
  <2>4. ASSUME NEW p \in (pos[K+1] - BlockSize)..BlockSize-1
        PROVE  memory'[Start(1) - BlockSize + p] = memory'[AddressFrom(Start(MasterBlock), p)]
    <3> DEFINE a == MaxTer - BlockSize + p
    <3>1. p \in Int /\ pos[K+1] - BlockSize <= p /\ p < BlockSize /\ p >= 0
      <4>1. p \in Int /\ pos[K+1] - BlockSize <= p /\ p <= BlockSize - 1
        BY <1>2, Sizes
      <4>2. QED
        BY <1>2, <4>1, Sizes
    <3>2. a \in Int /\ from <= a /\ a < MaxTer /\ a >= -COMPINC /\ a + Shift \in Int
          /\ a + Shift >= MaxTer /\ a + Shift <= MaxTer + Shift - 1
      <4>1. from = MaxTer - 2 * BlockSize + pos[K+1] /\ pos[K+1] \in Nat
            /\ pos[K+1] >= 2 * BlockSize - MaxTer - COMPINC /\ pos[K+1] - BlockSize <= p
        BY <1>2, <2>2, <3>1
      <4>2. p \in Int /\ p < BlockSize /\ p >= BlockSize - MaxTer - COMPINC
        BY <3>1, <4>1, Numbers
      <4>3. a \in Int /\ a >= -COMPINC /\ a < MaxTer
        BY <4>2, Numbers
      <4>4. from <= a
        BY <3>1, <4>1, Numbers
      <4> HIDE DEF a
      <4>5. a + Shift \in Int /\ a + Shift >= MaxTer /\ a + Shift <= MaxTer + Shift - 1
        BY <4>3, Numbers
      <4>6. QED
        BY <4>3, <4>4, <4>5
    <3>3. AddressFrom(Start(MasterBlock), p) = a + Shift
      <4>1. Start(MasterBlock) + p = a + Shift
        BY <1>4, <1>7, <3>1, Sizes
      <4>2. Start(MasterBlock) + p < Stop(MasterNumBlocks)
        BY <1>4, <3>2, <4>1, Sizes
      <4>3. QED
        BY <4>1, <4>2 DEF AddressFrom
    <3>4. Start(1) - BlockSize + p = a
      BY <1>4
    <3> HIDE DEF a
    <3>5. a \in Words /\ a + Shift \in Words
      BY <1>4, <1>5, <3>2, Sizes
    <3>6. memory'[a] = memory[a + Shift]
      BY <2>1, <3>2, <3>5
    <3>7. ~(a + Shift < MaxTer)
      BY <3>2, Sizes
    <3>8. memory'[a + Shift] = memory[a + Shift]
      BY <2>1, <3>5, <3>7
    <3>9. QED
      BY <3>3, <3>4, <3>6, <3>8
  <2>5. QED
    BY <2>3, <2>4
<1>8. QED
  BY <1>6, <1>7

LEMMA CrossBlockKeeps ==
  ASSUME IInv, CrossBlock
  PROVE  TermsInPlace'
<1> DEFINE B == BlockSize
           L == Len(sizes)
           j == Before(MasterBlock)
<1>1. /\ rpc = "use" /\ rpc' = "lock" /\ SizeAt(poin) > 0
      /\ got' = Append(got, SizeAt(poin)) /\ MasterBlock' = After(MasterBlock)
      /\ UNCHANGED <<sizes, wpc, FillBlock, fill, left, ending, reader>>
  BY DEF CrossBlock, writervars
<1>2. Running
  BY <1>1, AtTerm
<1>3. PICK pos \in [1..Len(sizes)+1 -> Int] : Layout(pos)
  BY <1>2 DEF IInv, TermsInPlace
<1>4. /\ K' = K + 1 /\ EndSize' = EndSize /\ K \in 1..L /\ L \in Nat
  BY <1>1, TermTaken DEF EndSize
<1>5. /\ Now = MasterBlock /\ MasterBlock \in Ring
      /\ pos[K+1] \in Nat /\ pos[K+1] < 2 * B
      /\ NextAddress = Start(MasterBlock) - B + pos[K+1]
      /\ pos[K+1] >= 2 * B - MaxTer - COMPINC
      /\ FillBlock # j
  BY <1>1, <1>3, NextTermSeen, CrossingFacts
<1>6. /\ j \in Ring /\ After(j) = MasterBlock /\ Tail_ = Start(j)
      /\ Before(After(MasterBlock)) = MasterBlock /\ After(MasterBlock) \in Ring
      /\ Start(After(MasterBlock)) = IF MasterBlock = MasterNumBlocks THEN MaxTer
                                     ELSE Stop(MasterBlock)
      /\ FillBlock \in Ring /\ fill \in Start(FillBlock)..Stop(FillBlock)
      /\ FillPos \in 0..Shift /\ Shift \in Nat
      /\ Start(MasterBlock) \in Nat /\ Stop(MasterBlock) = Start(MasterBlock) + B
  <2>1. /\ j \in Ring /\ After(j) = MasterBlock /\ Tail_ = Start(j)
        /\ FillBlock \in Ring /\ fill \in Start(FillBlock)..Stop(FillBlock) /\ FillPos \in 0..Shift
    BY <1>2, <1>5, WriterIsAhead
  <2>2. QED
    BY <1>5, <2>1, Neighbours, BlockFacts
<1>7. Now' = After(MasterBlock) /\ Tail_' = Start(MasterBlock)
  BY <1>1, <1>6 DEF Now, Tail_
<1>8. /\ \A p \in B..Shift-1 : AddressFrom(Start(MasterBlock), p - B) = Address(p)
      /\ FillPos' = FillPos - B
      /\ \A p : Address(p)' = AddressFrom(Start(MasterBlock), p)
  BY <1>1, <1>5, <1>6, <1>7, TailMoves DEF Address, FillPos
<1>9. /\ \A p \in 0..Shift-1 : memory'[Address(p)] = memory[Address(p)]
      /\ MasterBlock = MasterNumBlocks =>
              \A p \in (pos[K+1] - B)..B-1 :
                 memory'[Start(1) - B + p] = memory'[AddressFrom(Start(MasterBlock), p)]
  BY <1>3, MovedWords
<1>10. PICK q \in [1..L+1 -> Int] : \A t \in 1..L+1 : q[t] = pos[t] - B
  <2> DEFINE f == [t \in 1..L+1 |-> pos[t] - B]
  <2>1. f \in [1..L+1 -> Int] /\ \A t \in 1..L+1 : f[t] = pos[t] - B
    BY Sizes
  <2>2. QED
    BY <2>1
<1> HIDE DEF B, L, j
<1>11. /\ B \in Nat /\ B > 0 /\ B = BlockSize /\ L = Len(sizes)
       /\ B >= MaxTer + COMPINC /\ MaxTer \in Nat /\ COMPINC = 2
       /\ \A t \in 1..L+1 : pos[t] \in Int
       /\ \A t \in 1..L : t \in 1..L+1 /\ t + 1 \in 1..L+1 /\ sizes[t] \in 1..MaxTer
       /\ L + 1 \in 1..L+1 /\ K + 1 \in 1..L+1
       /\ EndSize \in {0, 1} /\ left \in 0..MaxTer
  <2>1. /\ B \in Nat /\ B > 0 /\ B >= MaxTer + COMPINC /\ MaxTer \in Nat /\ COMPINC = 2
    BY Numbers DEF B
  <2>2. \A t \in 1..L+1 : pos[t] \in Int
    BY DEF L
  <2>3. \A t \in 1..L : t \in 1..L+1 /\ t + 1 \in 1..L+1
    BY <1>4
  <2>4. (\A t \in 1..L : sizes[t] \in 1..MaxTer) /\ EndSize \in {0, 1} /\ left \in 0..MaxTer
    BY SizesOfTerms DEF L
  <2>5. L + 1 \in 1..L+1 /\ K + 1 \in 1..L+1
    BY <1>4
  <2>6. QED
    BY <2>1, <2>2, <2>3, <2>4, <2>5 DEF B, L
<1>12. /\ \A t \in 1..L : pos[t+1] = pos[t] + sizes[t]
       /\ \A s, t \in 1..L+1 : s <= t => pos[s] <= pos[t]
       /\ FillPos = pos[L+1] + EndSize - left
  BY <1>3 DEF Layout, Spaced, L
<1>13. Spaced(q)'
  <2>1. \A t \in 1..L : q[t+1] = q[t] + sizes[t]
    <3> TAKE t \in 1..L
    <3>1. t \in 1..L+1 /\ t + 1 \in 1..L+1 /\ sizes[t] \in 1..MaxTer
      BY <1>11
    <3>2. q[t] = pos[t] - B /\ q[t+1] = pos[t+1] - B /\ pos[t+1] = pos[t] + sizes[t]
          /\ pos[t] \in Int
      BY <1>10, <1>11, <1>12, <3>1
    <3>3. QED
      BY <1>11, <3>1, <3>2
  <2>2. \A s, t \in 1..L+1 : s <= t => q[s] <= q[t]
    BY <1>10, <1>11, <1>12
  <2>3. FillPos' = q[L+1] + EndSize - left
    <3>1. q[L+1] = pos[L+1] - B /\ pos[L+1] \in Int /\ FillPos = pos[L+1] + EndSize - left
      BY <1>10, <1>11, <1>12
    <3>2. QED
      BY <1>8, <1>11, <3>1
  <2>4. QED
    BY <1>1, <1>4, <2>1, <2>2, <2>3 DEF Spaced, L
<1>14. WordsInPlace(q)'
  <2>1. ASSUME NEW t \in (K+1)..L, NEW i \in 0..sizes[t]-1, q[t] + i < FillPos'
        PROVE  memory'[Address(q[t] + i)'] = <<t, i>>
    <3>1. t \in K..L /\ t \in 1..L+1 /\ K + 1 <= t /\ i \in Nat /\ pos[t] \in Int
      BY <1>4, <1>11
    <3>2. q[t] = pos[t] - B /\ pos[K+1] <= pos[t]
      BY <1>10, <1>11, <1>12, <3>1
    <3> DEFINE p == pos[t] + i
    <3>3. p \in Int /\ q[t] + i = p - B
      BY <1>11, <3>1, <3>2
    <3>4. p < FillPos
      BY <1>6, <1>8, <1>11, <2>1, <3>3
    <3>5. p \in B..Shift-1 /\ p \in 0..Shift-1
      <4>1. p \in Int /\ p >= pos[t] /\ pos[t] \in Int
        BY <3>1
      <4>2. p >= B
        <5>1. pos[K+1] >= 2 * B - MaxTer - COMPINC /\ pos[K+1] \in Nat
          BY <1>5
        <5>2. pos[K+1] >= B
          BY <1>11, <5>1
        <5>3. QED
          BY <1>11, <3>2, <4>1, <5>1, <5>2
      <4>3. p < Shift
        BY <1>6, <3>4, <4>1
      <4>4. QED
        BY <1>6, <1>11, <4>1, <4>2, <4>3
    <3>6. memory[Address(p)] = <<t, i>>
      BY <1>3, <3>1, <3>4 DEF Layout, WordsInPlace, L
    <3> HIDE DEF p
    <3>7. Address(q[t] + i)' = Address(p)
      BY <1>8, <3>3, <3>5
    <3>8. QED
      BY <1>9, <3>5, <3>6, <3>7
  <2>2. ASSUME EndSize = 1, left = 0
        PROVE  memory'[Address(q[L+1])'] = EndMark
    <3>1. pos[L+1] \in Int /\ pos[K+1] <= pos[L+1] /\ FillPos = pos[L+1] + 1
          /\ q[L+1] = pos[L+1] - B
      <4>1. K + 1 <= L + 1
        BY <1>4
      <4>2. pos[L+1] \in Int /\ pos[K+1] <= pos[L+1] /\ q[L+1] = pos[L+1] - B
        BY <1>10, <1>11, <1>12, <4>1
      <4>3. FillPos = pos[L+1] + 1
        BY <1>12, <2>2, <4>2
      <4>4. QED
        BY <4>2, <4>3
    <3>2. pos[L+1] \in B..Shift-1 /\ pos[L+1] \in 0..Shift-1
      <4>1. pos[K+1] >= 2 * B - MaxTer - COMPINC /\ pos[K+1] \in Nat
        BY <1>5
      <4>2. pos[L+1] >= B
        BY <1>11, <3>1, <4>1
      <4>3. QED
        BY <1>6, <1>11, <3>1, <4>2
    <3>3. memory[Address(pos[L+1])] = EndMark
      BY <1>3, <2>2 DEF Layout, WordsInPlace, L
    <3>4. QED
      <4>1. Address(q[L+1])' = Address(pos[L+1])
        <5>1. L' = L
          BY <1>1 DEF L
        <5>2. Address(q[L+1])' = AddressFrom(Start(MasterBlock), q[L+1])
          BY <1>8, <5>1
        <5>3. QED
          BY <1>8, <3>1, <3>2, <5>2
      <4>2. QED
        BY <1>9, <3>2, <3>3, <4>1
  <2>3. QED
    BY <1>1, <1>4, <2>1, <2>2 DEF WordsInPlace, L
<1>15. q[K+1] = pos[K+1] - B /\ q[K+1] \in Int
  BY <1>10, <1>11
<1>16. ReaderInPlace(q)'
  <2>1. q[K+1] >= 0 /\ q[K+1] <= B
    BY <1>5, <1>11, <1>15 DEF B
  <2>2. poin' = Start(After(MasterBlock)) - B + q[K+1]
    <3>1. CASE MasterBlock = MasterNumBlocks
      <4>1. poin' = NextAddress - Shift /\ Start(After(MasterBlock)) = MaxTer
            /\ Start(MasterBlock) = MaxTer + Shift - B
        <5>1. poin' = NextAddress - Shift
          BY <3>1 DEF CrossBlock
        <5>2. Start(MasterBlock) = MaxTer + Shift - B
          BY <1>6, <3>1, Numbers DEF B
        <5>3. QED
          BY <1>6, <3>1, <5>1, <5>2
      <4>2. QED
        BY <1>5, <1>6, <1>11, <1>15, <4>1
    <3>2. CASE MasterBlock # MasterNumBlocks
      <4>1. poin' = NextAddress /\ Start(After(MasterBlock)) = Start(MasterBlock) + B
        BY <1>6, <3>2 DEF CrossBlock
      <4>2. QED
        BY <1>5, <1>6, <1>11, <1>15, <4>1
    <3>3. QED
      BY <3>1, <3>2
  <2>3. QED
    BY <1>1, <1>4, <1>7, <2>1, <2>2 DEF ReaderInPlace, B
<1>17. Remainder(q)'
  <2>1. q[K+1] >= B - MaxTer - COMPINC
    BY <1>5, <1>11, <1>15
  <2>2. ASSUME Now' = 1, NEW p \in q[K+1]..B-1
        PROVE  memory'[Start(1) - B + p] = memory'[Address(p)']
    <3>1. MasterBlock = MasterNumBlocks
      BY <1>5, <1>7, <2>2, Sizes DEF After, Ring
    <3>2. p \in (pos[K+1] - B)..B-1
      BY <1>15
    <3>3. QED
      BY <1>8, <1>9, <3>1, <3>2
  <2>3. QED
    BY <1>4, <2>1, <2>2 DEF Remainder, B
<1>18. QED
  BY <1>1, <1>10, <1>13, <1>14, <1>16, <1>17 DEF TermsInPlace, Layout, L

LEMMA TermsInPlaceKept ==
  ASSUME IInv, [Next]_vars, WriterInStep'
  PROVE  TermsInPlace'
<1>1. CASE WriterClaim
  BY <1>1, WriterClaimKeeps
<1>2. ASSUME NEW size \in TermSizes, PutTerm(size) PROVE TermsInPlace'
  BY <1>2, PutTermKeeps
<1>3. CASE PutZero
  <2>1. /\ EndSize = 0 /\ left = 0 /\ EndSize' = 1 /\ left' = 1 /\ wpc = "put" /\ wpc' = "copy"
        /\ UNCHANGED <<memory, sizes, got, poin, rpc, MasterBlock, FillBlock, fill>>
    BY <1>3 DEF PutZero, IInv, WriterInStep, EndSize, readervars
  <2>2. FillPos' = FillPos /\ (Running' <=> Running)
    BY <2>1 DEF FillPos, Tail_, Now, Running
  <2>3. QED
    BY <2>1, <2>2, LayoutStays
<1>4. CASE CopyWords
  BY <1>4, CopyWordsKeeps
<1>5. CASE LockNextBlock \/ WriterFinish \/ UNCHANGED vars
  <2>1. /\ UNCHANGED <<memory, sizes, got, poin, rpc, MasterBlock, FillBlock, fill, left, ending>>
        /\ wpc' = "claim" <=> wpc = "claim"
    BY <1>5 DEF LockNextBlock, WriterFinish, vars, writervars, readervars
  <2>2. FillPos' = FillPos /\ EndSize' = EndSize /\ (Running' <=> Running)
    BY <2>1 DEF FillPos, Tail_, Now, EndSize, Running
  <2>3. QED
    BY <2>1, <2>2, LayoutStays
<1>6. CASE LeaveBlock
  BY <1>6, LeaveBlockKeeps
<1>7. CASE ReaderClaim
  <2>1. wpc = "claim" /\ wpc' = wpc
    BY <1>7 DEF ReaderClaim, IInv, ReaderInStep, writervars
  <2>2. QED
    BY <2>1 DEF TermsInPlace, Running
<1>8. CASE WaitForClaim \/ LockBlock
  BY <1>8, ReaderGoesOn
<1>9. CASE StaysInBlock
  BY <1>9, StaysInBlockKeeps
<1>10. CASE CrossBlock
  BY <1>10, CrossBlockKeeps
<1>11. CASE ReaderFinish \/ NextExpression
  BY <1>11 DEF ReaderFinish, NextExpression, TermsInPlace, Running
<1>12. QED
  BY <1>1, <1>2, <1>3, <1>4, <1>5, <1>6, <1>7, <1>8, <1>9, <1>10, <1>11
     DEF Next, Writer, Reader

-----------------------------------------------------------------------------
(* Theorems *)

\* The inductive invariant: the locks of the blocks follow from where writer and reader are
\* (PutToMaster, MasterMerge, SortBotMerge), and the terms that were written and not yet
\* taken lie one after the other between them, counted from the block the reader keeps.
THEOREM SortBlocksInvariant == Spec => []IInv
<1>1. IInv /\ [Next]_vars => IInv'
  BY TypesKept, LocksInStepKept, WriterInStepKept, ReaderInStepKept, TermsInPlaceKept DEF IInv
<1>2. QED
  BY InitIInv, <1>1, PTL DEF Spec

\* "We always keep the previous block ... to keep the front from overrunning the tail":
\* whenever MasterMerge or SortBotMerge looks at a term, the whole of it is there, however
\* many blocks there are and however the terms lie in them.
THEOREM TermsAreIntact == Spec => []TermIsIntact
<1>1. ASSUME IInv PROVE TermIsIntact
  <2> SUFFICES ASSUME rpc = "use"
               PROVE  \/ /\ Len(got) < Len(sizes)
                         /\ \A i \in 0..sizes[Len(got)+1]-1 :
                               poin + i \in Words /\ memory[poin + i] = <<Len(got) + 1, i>>
                      \/ memory[poin] = EndMark /\ ending /\ got = sizes
    BY DEF TermIsIntact
  <2>1. Running /\ K = Len(got) + 1 /\ K \in 1..Len(sizes)+1 /\ Len(got) \in Nat
        /\ Len(sizes) \in Nat
    BY <1>1, AtTerm, SizesOfTerms
  <2>2. PICK pos \in [1..Len(sizes)+1 -> Int] : Layout(pos)
    BY <1>1, <2>1 DEF IInv, TermsInPlace
  <2>3. /\ K \in K..Len(sizes)+1 /\ pos[K] < 2 * BlockSize /\ pos[K] \in Int
        /\ poin = Start(Now) - BlockSize + pos[K]
        /\ K <= Len(sizes) => pos[K+1] < 2 * BlockSize
    BY <2>1, <2>2 DEF Layout, ReaderInPlace
  <2>4. CASE K <= Len(sizes)
    <3>1. \A i \in 0..sizes[K]-1 : pos[K] + i < 2 * BlockSize =>
             poin + i \in Words /\ memory[poin + i] = <<K, i>>
      BY <1>1, <2>1, <2>2, <2>3, <2>4, ReaderSees
    <3>2. K \in 1..Len(sizes) /\ sizes[K] \in 1..MaxTer /\ MaxTer \in Nat
      BY <1>1, <2>1, <2>4, SizesOfTerms, Numbers
    <3>3. pos[K+1] = pos[K] + sizes[K]
      BY <1>1, <2>1, <2>2, <3>2, LayoutFacts
    <3>4. \A i \in 0..sizes[K]-1 : pos[K] + i < 2 * BlockSize
      <4> TAKE i \in 0..sizes[K]-1
      <4>1. i \in Int /\ i < sizes[K] /\ sizes[K] \in Int
        BY <3>2
      <4>2. QED
        BY <2>3, <2>4, <3>3, <4>1, Numbers
    <3>5. Len(got) < Len(sizes)
      BY <2>1, <2>4
    <3>6. QED
      BY <2>1, <3>1, <3>4, <3>5
  <2>5. CASE ~(K <= Len(sizes))
    <3>1. SizeAt(poin) = 0
      <4>1. SizeAt(poin) > 0 => K <= Len(sizes)
        BY <1>1, AtTerm
      <4>2. SizeAt(poin) \in 0..MaxTer
        BY <1>1, AtTerm
      <4>3. QED
        BY <2>5, <4>1, <4>2, Numbers
    <3>2. got = sizes /\ EndSize = 1 /\ memory[poin] = EndMark
      BY <1>1, <3>1, AtTerm
    <3>3. ending
      BY <3>2 DEF EndSize
    <3>4. QED
      BY <3>2, <3>3
  <2>6. QED
    BY <2>4, <2>5
<1>2. QED
  BY SortBlocksInvariant, <1>1, PTL

LEMMA BlockOfWord ==
  ASSUME NEW j \in Ring, NEW a \in Int, Start(j) <= a, a < Stop(j)
  PROVE  BlockOf(a) = j
<1>1. \A i \in Blocks : Start(i) <= a /\ a < Stop(i) => i = j
  <2> TAKE i \in Blocks
  <2> HAVE Start(i) <= a /\ a < Stop(i)
  <2>1. i # 0
    <3>1. Stop(0) = MaxTer /\ MaxTer <= Start(j) /\ Start(j) \in Nat /\ MaxTer \in Nat
      BY BlockFacts, Numbers DEF Stop
    <3>2. QED
      BY <3>1
  <2>2. i \in Ring
    BY <2>1 DEF Blocks, Ring
  <2>3. /\ Start(i) \in Nat /\ Start(j) \in Nat /\ Stop(i) \in Int /\ Stop(j) \in Int
        /\ i < j => Stop(i) <= Start(j)
        /\ j < i => Stop(j) <= Start(i)
    BY <2>2, BlockFacts, Numbers
  <2>4. i < j \/ j < i \/ i = j
    BY <2>2 DEF Ring
  <2>5. QED
    BY <2>3, <2>4
<1>2. j \in Blocks
  BY Sizes
<1>3. QED
  BY <1>1, <1>2 DEF BlockOf

\* MasterMerge and SortBotMerge touch no word of a block whose mutex they do not hold; the
\* words in block 0 are their own copy.
THEOREM OnlyHeldBlocksAreRead == Spec => []ReadsOnlyHeldBlocks
<1>1. ASSUME IInv PROVE ReadsOnlyHeldBlocks
  <2> SUFFICES ASSUME rpc = "use", NEW a \in poin..poin + SizeAt(poin) - 1
               PROVE  a < Start(1) \/ MasterBlockLock[BlockOf(a)] = "reader"
    BY DEF ReadsOnlyHeldBlocks
  <2>1. Running /\ poin \in Int /\ SizeAt(poin) \in 0..MaxTer
    BY <1>1, AtTerm
  <2>2. PICK pos \in [1..Len(sizes)+1 -> Int] : Layout(pos)
    BY <1>1, <2>1 DEF IInv, TermsInPlace
  <2>3. a \in Int /\ poin <= a /\ a < poin + SizeAt(poin) /\ SizeAt(poin) > 0
    BY <2>1, Numbers
  <2>4. /\ Now = MasterBlock /\ MasterBlock \in Ring /\ pos[K] \in Nat /\ pos[K+1] < 2 * BlockSize
        /\ pos[K+1] \in Nat /\ pos[K+1] = pos[K] + SizeAt(poin)
    BY <1>1, <2>2, <2>3, NextTermSeen
  <2>5. poin = Start(MasterBlock) - BlockSize + pos[K]
    BY <2>2, <2>4 DEF Layout, ReaderInPlace
  <2>6. /\ Start(MasterBlock) \in Nat /\ Stop(MasterBlock) = Start(MasterBlock) + BlockSize
        /\ Before(MasterBlock) \in Ring
        /\ MasterBlock # 1 => Start(Before(MasterBlock)) = Start(MasterBlock) - BlockSize
        /\ Stop(Before(MasterBlock)) = Start(Before(MasterBlock)) + BlockSize
    BY <2>4, BlockFacts, Neighbours
  <2>7. a >= Start(MasterBlock) - BlockSize /\ a < Stop(MasterBlock)
    <3>1. SizeAt(poin) \in Int /\ pos[K] + SizeAt(poin) < 2 * BlockSize
      BY <2>1, <2>4, Numbers
    <3>2. poin + SizeAt(poin) <= Start(MasterBlock) + BlockSize
      BY <2>4, <2>5, <2>6, <3>1, Numbers
    <3>3. poin >= Start(MasterBlock) - BlockSize
      BY <2>4, <2>5, <2>6, Numbers
    <3>4. QED
      BY <2>1, <2>3, <2>6, <3>1, <3>2, <3>3, Numbers
  <2>8. MasterBlockLock[MasterBlock] = "reader" /\ MasterBlockLock[Before(MasterBlock)] = "reader"
    <3>1. MasterBlock \in ReaderHolds /\ Before(MasterBlock) \in ReaderHolds
      BY DEF ReaderHolds
    <3>2. QED
      BY <1>1, <3>1, LocksHeld
  <2>9. CASE a >= Start(MasterBlock)
    <3>1. BlockOf(a) = MasterBlock
      BY <2>3, <2>4, <2>7, <2>9, BlockOfWord
    <3>2. QED
      BY <2>8, <3>1
  <2>10. CASE ~(a >= Start(MasterBlock)) /\ MasterBlock = 1
    BY <2>3, <2>6, <2>10
  <2>11. CASE ~(a >= Start(MasterBlock)) /\ MasterBlock # 1
    <3>1. Start(Before(MasterBlock)) <= a /\ a < Stop(Before(MasterBlock))
      BY <2>3, <2>6, <2>7, <2>11, Numbers
    <3>2. BlockOf(a) = Before(MasterBlock)
      BY <2>3, <2>6, <3>1, BlockOfWord
    <3>3. QED
      BY <2>8, <3>2
  <2>12. QED
    BY <2>9, <2>10, <2>11
<1>2. QED
  BY SortBlocksInvariant, <1>1, PTL

\* The ring between PutToMaster and the merge is a stream of terms: per expression the reader
\* gets the terms that were put, each once, in order and complete, and the ring is used for
\* the next expression only after it has seen the end mark of this one.
THEOREM RingIsAStream == Spec => ImplementsStream
<1>1. Init => Stream!Init
  BY DEF Init, Stream!Init
<1>2. ASSUME IInv, [Next]_vars PROVE [Stream!Next]_(Stream!vars)
  <2> USE DEF Stream!vars
  <2>1. CASE WriterClaim \/ CopyWords \/ LockNextBlock \/ LeaveBlock \/ WriterFinish
             \/ ReaderClaim \/ WaitForClaim \/ LockBlock \/ ReaderFinish \/ UNCHANGED vars
    BY <2>1 DEF WriterClaim, CopyWords, LockNextBlock, LeaveBlock, WriterFinish, ReaderClaim,
                WaitForClaim, LockBlock, ReaderFinish, vars, writervars, readervars
  <2>2. ASSUME NEW size \in TermSizes, PutTerm(size) PROVE Stream!Next
    <3>1. ~ending
      BY <1>2, <2>2 DEF PutTerm, IInv, WriterInStep, EndSize
    <3>2. Stream!Put(size)
      BY <2>2, <3>1 DEF PutTerm, readervars, Stream!Put
    <3>3. QED
      BY <3>2 DEF Stream!Next
  <2>3. CASE PutZero
    <3>1. ~ending
      BY <1>2, <2>3 DEF PutZero, IInv, WriterInStep, EndSize
    <3>2. Stream!PutEnd
      BY <2>3, <3>1 DEF PutZero, readervars, Stream!PutEnd
    <3>3. QED
      BY <3>2 DEF Stream!Next
  <2>4. CASE StaysInBlock \/ CrossBlock
    <3>1. /\ rpc = "use" /\ SizeAt(poin) > 0 /\ got' = Append(got, SizeAt(poin))
          /\ UNCHANGED <<sizes, ending>>
      BY <2>4 DEF StaysInBlock, CrossBlock, writervars
    <3>2. K <= Len(sizes) /\ SizeAt(poin) = sizes[K] /\ K = Len(got) + 1
          /\ Len(got) \in Nat /\ Len(sizes) \in Nat
      BY <1>2, <3>1, AtTerm, SizesOfTerms
    <3>3. Stream!Take
      BY <3>1, <3>2 DEF Stream!Take
    <3>4. QED
      BY <3>3 DEF Stream!Next
  <2>5. CASE NextExpression
    <3>1. got = sizes /\ EndSize = 1
      BY <1>2, <2>5 DEF NextExpression, IInv, ReaderInStep, WriterInStep
    <3>2. Stream!NextExpression
      BY <2>5, <3>1 DEF NextExpression, Stream!NextExpression, EndSize
    <3>3. QED
      BY <3>2 DEF Stream!Next
  <2>6. QED
    BY <1>2, <2>1, <2>2, <2>3, <2>4, <2>5 DEF Next, Writer, Reader
<1>3. QED
  BY <1>1, <1>2, SortBlocksInvariant, PTL DEF Spec, ImplementsStream, Stream!Spec

\* Between expressions the bounds of the model and the address of the last term stay.
Bounds == /\ Len(sizes) <= MaxTerms /\ round \in 0..MaxRounds
          /\ FillBlock \in Blocks /\ MasterBlock \in Blocks
          /\ rpc \in {"claim", "waitclaim", "done"} => poin \in Words

LEMMA PoinIsAWord ==
  ASSUME IInv, rpc \in {"lock", "use"}
  PROVE  poin \in Words
<1>1. Running
  BY DEF IInv, ReaderInStep, Running
<1>2. PICK pos \in [1..Len(sizes)+1 -> Int] : Layout(pos)
  BY <1>1 DEF IInv, TermsInPlace
<1>3. poin = Start(Now) - BlockSize + pos[K] /\ pos[K] \in Int /\ pos[K] < 2 * BlockSize
  <2>1. pos[K] \in Int
    BY <1>2, SizesOfTerms
  <2>2. CASE rpc = "use"
    BY <1>2, <2>1, <2>2 DEF Layout, ReaderInPlace
  <2>3. CASE rpc = "lock"
    <3>1. pos[K] <= BlockSize /\ poin = Start(Now) - BlockSize + pos[K]
      BY <1>2, <2>3 DEF Layout, ReaderInPlace
    <3>2. QED
      BY <2>1, <3>1, Numbers
  <2>4. QED
    BY <2>2, <2>3
<1>4. pos[K] <= pos[K]
  BY <1>3
<1>5. QED
  BY <1>1, <1>2, <1>3, <1>4, View

LEMMA BoundsKept ==
  ASSUME IInv, Bounds, [Next]_vars
  PROVE  Bounds'
<1>1. /\ Ring \subseteq Blocks /\ 1 \in Ring /\ MaxTerms \in Nat /\ MaxRounds \in Nat
      /\ \A j \in Ring : After(j) \in Blocks
      /\ Len(sizes) \in Nat
  BY Sizes, Neighbours, RingAssumption, SizesOfTerms
<1>2. Bounds
  OBVIOUS
<1> USE DEF Bounds
<1>3. ASSUME NEW size \in TermSizes, PutTerm(size) PROVE Bounds'
  <2>1. Len(sizes') = Len(sizes) + 1 /\ Len(sizes) < MaxTerms
    BY <1>3, AppendFacts DEF PutTerm, IInv, Types
  <2>2. QED
    BY <1>1, <1>2, <1>3, <2>1 DEF PutTerm, readervars
<1>4. CASE WriterClaim \/ PutZero \/ CopyWords \/ LockNextBlock \/ WriterFinish
           \/ ReaderClaim \/ LockBlock \/ StaysInBlock \/ UNCHANGED vars
  BY <1>1, <1>2, <1>4 DEF WriterClaim, PutZero, CopyWords, LockNextBlock, WriterFinish,
     ReaderClaim, LockBlock, StaysInBlock, vars, readervars, writervars
<1>5. CASE LeaveBlock
  <2>1. FillBlock \in Ring
    BY <1>5 DEF LeaveBlock, IInv, WriterInStep
  <2>2. QED
    BY <1>1, <1>2, <1>5, <2>1 DEF LeaveBlock, readervars
<1>6. CASE WaitForClaim
  BY <1>1, <1>2, <1>6 DEF WaitForClaim, writervars
<1>7. CASE CrossBlock
  <2>1. MasterBlock \in Ring
    BY <1>7 DEF CrossBlock, IInv, ReaderInStep
  <2>2. QED
    BY <1>1, <1>2, <1>7, <2>1 DEF CrossBlock, writervars
<1>8. CASE ReaderFinish
  <2>1. poin \in Words
    BY <1>8, PoinIsAWord DEF ReaderFinish
  <2>2. QED
    BY <1>2, <1>8, <2>1 DEF ReaderFinish, writervars
<1>9. CASE NextExpression
  <2>1. Len(<<>>) = 0
    OBVIOUS
  <2>2. QED
    BY <1>1, <1>2, <1>9, <2>1 DEF NextExpression
<1>10. QED
  BY <1>3, <1>4, <1>5, <1>6, <1>7, <1>8, <1>9 DEF Next, Writer, Reader

\* Every variable of writer, reader and ring keeps its type; the address of the term that
\* the merge looks at never leaves the buffer.
THEOREM TypeCorrect == Spec => []TypeOK
<1>1. Init => Bounds
  BY Sizes, BlockFacts, Numbers, RingAssumption DEF Init, Bounds, Words
<1>2. IInv /\ Bounds => TypeOK
  <2> SUFFICES ASSUME IInv, Bounds PROVE TypeOK
    OBVIOUS
  <2>1. MasterBlockLock \in [Blocks -> {"free", "writer", "reader"}]
    BY DEF IInv, LocksInStep
  <2>2. DOMAIN memory = Words
    <3>1. memory = [a \in Words |-> memory[a]]
      BY DEF IInv, Types
    <3>2. DOMAIN [a \in Words |-> memory[a]] = Words
      OBVIOUS
    <3>3. QED
      BY <3>1, <3>2
  <2>3. Len(sizes) \in 0..MaxTerms /\ Len(got) \in 0..MaxTerms
    BY SizesOfTerms, RingAssumption DEF IInv, ReaderInStep, Bounds
  <2>4. poin \in Words
    BY PoinIsAWord DEF IInv, Types, ReaderStates, Bounds
  <2>5. /\ wpc \in WriterStates /\ rpc \in ReaderStates /\ left \in 0..MaxTer /\ reader \in Readers
    BY DEF IInv, Types
  <2>6. ending \in BOOLEAN
    BY DEF IInv, EndingType
  <2>7. QED
    BY <2>1, <2>2, <2>3, <2>4, <2>5, <2>6 DEF TypeOK, WriterStates, ReaderStates, Bounds
<1>3. QED
  BY SortBlocksInvariant, BoundsKept, <1>1, <1>2, PTL DEF Spec
=============================================================================
