--------------------------- MODULE SpectatorProofs ---------------------------
(***************************************************************************)
(* Spectators for any number of names, any sizes of terms, buffers and of  *)
(* the array, and any program: the array and the expressions agree, and a  *)
(* copy of a spectator has the terms that were sent to it.                 *)
(***************************************************************************)
EXTENDS Spectator, FiniteSetTheorems, SequenceTheorems, WellFoundedInduction, TLAPS

Word   == Nat \X Nat \X Nat
AllTerms == {WordsOf(t, n) : t \in Nat, n \in TermSizes}

Struct == [name : Names \cup {NoName}, open : BOOLEAN, file : Seq(Word),
           PObuffer : Seq(Word), POfill : Nat, position : Nat, readpos : Nat,
           flags : SUBSET {1, 2}]

\* A struct by itself: what is written goes to the end of the file, and holes are clean.
StructOK(s) ==
  /\ s \in Struct
  /\ s.POfill <= Len(s.PObuffer) /\ Len(s.PObuffer) <= POsize
  /\ s.position = Len(s.file) /\ s.readpos <= Len(s.file)
  /\ ~s.open => s.file = <<>>
  /\ s.name = NoName => s = Clean

Types ==
  /\ SpectatorFiles \in Seq(Struct)
  /\ \A i \in Numbers : StructOK(SpectatorFiles[i])
  /\ NumSpectatorFiles \in Nat /\ nterms \in Nat
  /\ Expressions \in [Names -> {"none", "SPECTATOREXPRESSION", "DROPSPECTATOREXPRESSION"}]
  /\ compiletype \in 0..EXECUTE
  /\ tospectator \subseteq [name : Names, spectator : Nat]
  /\ copies \in Seq([name : Names, spectator : Nat])
  /\ copying \in [name : Names \cup {NoName}, spectator : Nat, got : Seq(Seq(Word)),
                  atend : BOOLEAN]
  /\ outcome \in {"running", "null name"}
  /\ sent \in [Names -> Seq(AllTerms)]

\* The words are those of the terms, one term after the other; term k starts behind
\* position starts[k].
Layout(starts, words, terms) ==
  /\ starts \in [1..Len(terms) + 1 -> 0..Len(words)]
  /\ starts[1] = 0 /\ starts[Len(terms) + 1] = Len(words)
  /\ \A k \in 1..Len(terms) :
       /\ starts[k + 1] = starts[k] + Len(terms[k])
       /\ \A w \in 1..Len(terms[k]) : words[starts[k] + w] = terms[k][w]
AreWordsOf(words, terms) ==
  \E starts \in [1..Len(terms) + 1 -> 0..Len(words)] : Layout(starts, words, terms)

Reads(s) == s.flags # {}

\* While a spectator is written its terms are in the file and in the buffer behind it,
\* while it is read they are all in the file.
Words(s) == IF Reads(s) THEN s.file ELSE s.file \o SubSeq(s.PObuffer, 1, s.POfill)
Contents == \A i \in InUse : AreWordsOf(Words(SpectatorFiles[i]), sent[SpectatorFiles[i].name])

\* One struct per spectator, and none else.
NamesUnique == \A n \in Names :
  IF Expressions[n] = "SPECTATOREXPRESSION" THEN \E i \in Numbers : Named(n) = {i}
  ELSE Named(n) = {}
CountIsRight == NumSpectatorFiles = Cardinality(InUse)

\* The statements come in order: a module starts with empty buffers, nothing is read before
\* the definitions, and what is written or read is fixed when it runs.
StatementsInOrder ==
  /\ compiletype < EXECUTE => \A i \in Numbers : SpectatorFiles[i].POfill = 0
  /\ compiletype < DEFINITION => copies = <<>> /\ \A i \in Numbers : ~Reads(SpectatorFiles[i])
  /\ compiletype < STATEMENT => tospectator = {}
  /\ compiletype < EXECUTE => copying = NotCopying

Leads(to) == to.spectator \in Numbers /\ SpectatorFiles[to.spectator].name = to.name
StatementsLead ==
  /\ \A to \in tospectator : Leads(to) /\ ~Reads(SpectatorFiles[to.spectator])
  /\ \A j \in DOMAIN copies : Leads(copies[j]) /\ Reads(SpectatorFiles[copies[j].spectator])
  /\ copying # NotCopying => /\ copying.name \in Names
                             /\ Leads(copying) /\ Reads(SpectatorFiles[copying.spectator])

\* How far a copy has come: the terms it has got are the first ones, and the next begins
\* where the buffer, which is the part of the file before readpos, is read on.
BufferPart(s) ==
  /\ Len(s.PObuffer) <= s.readpos
  /\ \A j \in 1..Len(s.PObuffer) : s.PObuffer[j] = s.file[s.readpos - Len(s.PObuffer) + j]
Positioned(s, terms, got) ==
  /\ BufferPart(s)
  /\ \E starts \in [1..Len(terms) + 1 -> 0..Len(s.file)] :
       /\ Layout(starts, s.file, terms)
       /\ starts[Len(got) + 1] = s.readpos - Len(s.PObuffer) + s.POfill
CopySoFar(s, terms, got) ==
  /\ Len(got) <= Len(terms) /\ \A k \in 1..Len(got) : got[k] = terms[k]
  /\ s.readpos = 0 => got = <<>>
  /\ s.readpos > 0 => Positioned(s, terms, got)
CopyIsRight ==
  copying # NotCopying =>
    /\ CopySoFar(SpectatorFiles[copying.spectator], sent[copying.name], copying.got)
    /\ copying.atend => copying.got = sent[copying.name]

IInv == Types /\ Contents /\ NamesUnique /\ CountIsRight /\ StatementsInOrder
        /\ StatementsLead /\ CopyIsRight

-----------------------------------------------------------------------------
(* Sequences *)

LEMMA Sizes ==
  /\ POsize \in Nat /\ POsize > 0 /\ FirstSize \in Nat /\ FirstSize > 0
  /\ NoName \notin Names
  /\ \A n \in TermSizes : n \in Nat /\ 1 <= n /\ n <= POsize
BY SpectatorAssumption

\* A term is a sequence of words whose first word tells its length.
LEMMA TermFacts ==
  ASSUME NEW t \in AllTerms
  PROVE  /\ t \in Seq(Word) /\ Len(t) \in Nat /\ 1 <= Len(t) /\ Len(t) <= POsize
         /\ t[1][3] = Len(t)
<1>1. PICK a \in Nat, n \in TermSizes : t = [w \in 1..n |-> <<a, w, n>>]
  BY DEF AllTerms, WordsOf
<1>2. n \in Nat /\ 1 <= n /\ n <= POsize
  BY Sizes
<1>3. \A w \in 1..n : <<a, w, n>> \in Word
  BY <1>2 DEF Word
<1>4. t \in [1..n -> Word]
  BY <1>1, <1>3
<1>5. t \in Seq(Word) /\ Len(t) = n
  BY <1>2, <1>4, SeqDef
<1>6. t[1] = <<a, 1, n>>
  BY <1>1, <1>2
<1>7. QED
  BY <1>2, <1>5, <1>6

LEMMA TermsAreSeqs == AllTerms \subseteq Seq(Word)
BY TermFacts

\* A part of a sequence, element by element.
LEMMA PartOf ==
  ASSUME NEW T, NEW s \in Seq(T), NEW m \in Nat, NEW n \in Nat, m <= n, n <= Len(s)
  PROVE  /\ SubSeq(s, m + 1, n) \in Seq(T) /\ Len(SubSeq(s, m + 1, n)) = n - m
         /\ \A i \in 1..n - m : SubSeq(s, m + 1, n)[i] = s[m + i]
<1> DEFINE a == m + 1
<1>1. a \in Int /\ n \in Int /\ \A i \in a..n : s[i] \in T
  BY ElementOfSeq
<1> HIDE DEF a
<1>2. /\ SubSeq(s, a, n) \in Seq(T)
      /\ Len(SubSeq(s, a, n)) = IF a <= n THEN n - a + 1 ELSE 0
      /\ \A i \in 1 .. n - a + 1 : SubSeq(s, a, n)[i] = s[a + i - 1]
  BY <1>1, SubSeqProperties
<1> USE DEF a
<1>3. QED
  BY <1>2

LEMMA WordsInOrder ==
  ASSUME NEW a \in Seq(Word), NEW b \in Seq(Word), NEW c \in Seq(Word)
  PROVE  (a \o b) \o c = a \o (b \o c)
BY ConcatAssociative

\* Writing at the end of a file.
LEMMA WrittenAtEnd ==
  ASSUME NEW f \in Seq(Word), NEW w \in Seq(Word)
  PROVE  WriteFile(f, Len(f), w) = f \o w
<1>1. SubSeq(f, 1, Len(f)) = f
  BY SubSeqFull
<1>2. SubSeq(f, Len(f) + Len(w) + 1, Len(f)) = <<>>
  <2>1. Len(f) \in Nat /\ Len(w) \in Nat
    BY LenProperties
  <2>2. QED
    BY <2>1, SubSeqEmpty
<1>3. f \o w \in Seq(Word)
  BY ConcatProperties
<1>4. QED
  BY <1>1, <1>2, <1>3, ConcatEmptySeq DEF WriteFile

\* The words that are written are some of those there are, and the rest fits.
LEMMA WrittenIsPart ==
  ASSUME NEW n \in Nat, n > 0
  PROVE  /\ WrittenWords(n) \in Nat /\ WrittenWords(n) <= n
         /\ n - WrittenWords(n) <= POsize
         /\ WrittenWords(n) = 0 => n <= POsize
<1>1. POsize \in Nat /\ POsize > 0
  BY Sizes
<1> DEFINE q == (n - 1) \div POsize
<1>2. q \in Nat /\ n - 1 = POsize * q + ((n - 1) % POsize)
      /\ (n - 1) % POsize \in 0..POsize - 1
  BY <1>1
<1>3. POsize * q \in Nat
  BY <1>1, <1>2
<1>4. WrittenWords(n) = POsize * q
  BY DEF WrittenWords
<1> DEFINE p == POsize * q
<1> HIDE DEF q
<1>5. p \in Nat /\ n - 1 - p \in 0..POsize - 1
  BY <1>1, <1>2, <1>3
<1> HIDE DEF p
<1>6. WrittenWords(n) = p
  BY <1>4 DEF p
<1>7. QED
  BY <1>1, <1>5, <1>6

-----------------------------------------------------------------------------
(* Words and terms *)

\* One more term, its words behind the others.
LEMMA OneMoreTerm ==
  ASSUME NEW words \in Seq(Word), NEW terms \in Seq(AllTerms), NEW t \in AllTerms,
         AreWordsOf(words, terms)
  PROVE  AreWordsOf(words \o t, Append(terms, t))
<1> DEFINE m == Len(terms)
           all == words \o t
           more == Append(terms, t)
<1>1. PICK starts \in [1..m + 1 -> 0..Len(words)] : Layout(starts, words, terms)
  BY DEF AreWordsOf
<1>2. m \in Nat /\ Len(words) \in Nat /\ t \in Seq(Word) /\ Len(t) \in Nat
  BY LenProperties, TermFacts
<1>3. /\ Len(all) = Len(words) + Len(t)
      /\ \A i \in 1..Len(words) + Len(t) :
           all[i] = IF i <= Len(words) THEN words[i] ELSE t[i - Len(words)]
  BY <1>2, ConcatProperties
<1>4. Len(more) = m + 1 /\ more[m + 1] = t /\ \A k \in 1..m : more[k] = terms[k]
  BY AppendProperties
<1> DEFINE st == [k \in 1..m + 2 |-> IF k = m + 2 THEN Len(all) ELSE starts[k]]
<1>5. /\ starts[1] = 0 /\ starts[m + 1] = Len(words)
      /\ \A k \in 1..m : /\ starts[k + 1] = starts[k] + Len(terms[k])
                         /\ \A w \in 1..Len(terms[k]) : words[starts[k] + w] = terms[k][w]
  BY <1>1 DEF Layout
<1>6. st \in [1..Len(more) + 1 -> 0..Len(all)]
  <2>1. \A k \in 1..m + 1 : starts[k] \in 0..Len(all)
    BY <1>1, <1>2, <1>3
  <2>2. Len(all) \in 0..Len(all)
    BY <1>2, <1>3
  <2>3. Len(more) + 1 = m + 2
    BY <1>2, <1>4
  <2> HIDE DEF all, more
  <2>4. QED
    BY <1>2, <2>1, <2>2, <2>3
<1>7. st[1] = 0 /\ st[Len(more) + 1] = Len(all)
  BY <1>2, <1>4, <1>5
<1>8. ASSUME NEW k \in 1..Len(more)
      PROVE  /\ st[k + 1] = st[k] + Len(more[k])
             /\ \A w \in 1..Len(more[k]) : all[st[k] + w] = more[k][w]
  <2>1. CASE k = m + 1
    <3>1. more[k] = t /\ st[k + 1] = Len(words) + Len(t) /\ st[k] = Len(words)
      BY <1>2, <1>3, <1>4, <1>5, <2>1
    <3>2. \A w \in 1..Len(t) : all[Len(words) + w] = t[w]
      BY <1>2, <1>3
    <3>3. QED
      BY <3>1, <3>2
  <2>2. CASE k # m + 1
    <3>1. k \in 1..m /\ more[k] = terms[k] /\ st[k + 1] = starts[k + 1] /\ st[k] = starts[k]
      BY <1>2, <1>4, <2>2
    <3>2. starts[k] \in Nat /\ starts[k + 1] \in 0..Len(words) /\ Len(terms[k]) \in Nat
      <4>1. terms[k] \in AllTerms
        BY <1>2, <3>1, ElementOfSeq
      <4>2. k \in 1..m + 1 /\ k + 1 \in 1..m + 1
        BY <1>2, <3>1
      <4>3. starts[k] \in 0..Len(words) /\ starts[k + 1] \in 0..Len(words)
        BY <1>1, <4>2
      <4>4. Len(terms[k]) \in Nat
        BY <4>1, TermFacts
      <4>5. QED
        BY <1>2, <4>3, <4>4
    <3>3. starts[k + 1] = starts[k] + Len(terms[k])
      BY <1>5, <3>1
    <3>4. ASSUME NEW w \in 1..Len(terms[k])
          PROVE  all[starts[k] + w] = terms[k][w]
      <4>1. words[starts[k] + w] = terms[k][w]
        BY <1>5, <3>1
      <4>2. starts[k] + w \in 1..Len(words)
        BY <1>2, <3>2, <3>3
      <4>3. QED
        BY <1>2, <1>3, <4>1, <4>2
    <3> HIDE DEF st, all, more
    <3>5. QED
      BY <3>1, <3>3, <3>4
  <2>3. QED
    BY <2>1, <2>2
<1>9. Layout(st, all, more)
  BY <1>6, <1>7, <1>8 DEF Layout
<1>10. QED
  BY <1>6, <1>9 DEF AreWordsOf

\* No words, no terms.
LEMMA NoWords ==
  ASSUME NEW terms \in Seq(AllTerms), AreWordsOf(<<>>, terms)
  PROVE  terms = <<>>
<1>1. PICK starts \in [1..Len(terms) + 1 -> 0..Len(<<>>)] : Layout(starts, <<>>, terms)
  BY DEF AreWordsOf
<1>2. SUFFICES ASSUME terms # <<>> PROVE FALSE
  OBVIOUS
<1>3. Len(terms) \in Nat /\ Len(terms) >= 1
  BY <1>2, EmptySeq, LenProperties
<1>4. 1 \in 1..Len(terms) /\ Len(terms[1]) \in Nat /\ Len(terms[1]) >= 1
  BY <1>3, ElementOfSeq, TermFacts
<1>5. starts[2] = starts[1] + Len(terms[1]) /\ starts[1] = 0
  BY <1>1, <1>4 DEF Layout
<1>6. starts[2] \in 0..Len(<<>>) /\ Len(<<>>) = 0
  BY <1>1, <1>3, EmptySeq
<1>7. QED
  BY <1>4, <1>5, <1>6

LEMMA NothingSent == AreWordsOf(<<>>, <<>>)
<1>1. Len(<<>>) = 0
  BY EmptySeq
<1> DEFINE st == [k \in 1..1 |-> 0]
<1>2. st \in [1..Len(<<>>) + 1 -> 0..Len(<<>>)] /\ Layout(st, <<>>, <<>>)
  BY <1>1 DEF Layout
<1>3. QED
  BY <1>2 DEF AreWordsOf

-----------------------------------------------------------------------------
(* One struct *)

LEMMA CleanIsOK ==
  /\ StructOK(Clean) /\ ~Reads(Clean)
  /\ \A n \in Names : /\ StructOK([Clean EXCEPT !.name = n])
                      /\ ~Reads([Clean EXCEPT !.name = n])
                      /\ Words([Clean EXCEPT !.name = n]) = <<>>
<1>1. <<>> \in Seq(Word) /\ Len(<<>>) = 0
  BY EmptySeq
<1>2. SubSeq(<<>>, 1, 0) = <<>> /\ <<>> \o <<>> = <<>>
  BY <1>1, SubSeqEmpty, ConcatEmptySeq
<1>3. Clean \in Struct
  BY <1>1 DEF Struct, Clean
<1>4. StructOK(Clean) /\ ~Reads(Clean)
  <2>1. /\ Clean.file = <<>> /\ Clean.PObuffer = <<>> /\ Clean.POfill = 0
        /\ Clean.position = 0 /\ Clean.readpos = 0 /\ Clean.flags = {}
    BY DEF Clean
  <2>2. QED
    BY <1>1, <1>3, <2>1, Sizes DEF StructOK, Reads
<1>5. ASSUME NEW n \in Names
      PROVE  /\ StructOK([Clean EXCEPT !.name = n]) /\ ~Reads([Clean EXCEPT !.name = n])
             /\ Words([Clean EXCEPT !.name = n]) = <<>>
  <2> DEFINE c == [Clean EXCEPT !.name = n]
  <2>1. /\ c.file = <<>> /\ c.PObuffer = <<>> /\ c.POfill = 0 /\ c.name = n
        /\ c.position = 0 /\ c.readpos = 0 /\ c.flags = {}
    BY DEF Clean
  <2>2. c \in Struct
    BY <1>3 DEF Struct
  <2> HIDE DEF c
  <2>3. StructOK(c)
    BY <1>1, <2>1, <2>2, Sizes DEF StructOK
  <2>4. Words(c) = <<>> /\ ~Reads(c)
    BY <1>2, <2>1 DEF Words, Reads
  <2>5. QED
    BY <2>3, <2>4 DEF c
<1>6. QED
  BY <1>4, <1>5

LEMMA StructFacts ==
  ASSUME NEW s, StructOK(s)
  PROVE  /\ s \in Struct /\ s.file \in Seq(Word) /\ s.PObuffer \in Seq(Word)
         /\ Len(s.file) \in Nat /\ Len(s.PObuffer) \in Nat /\ s.POfill \in 0..Len(s.PObuffer)
         /\ Len(s.PObuffer) <= POsize /\ s.position = Len(s.file)
         /\ s.readpos \in 0..Len(s.file) /\ s.name \in Names \cup {NoName}
         /\ s.open \in BOOLEAN /\ (~s.open => s.file = <<>>) /\ s.flags \subseteq {1, 2}
         /\ SubSeq(s.PObuffer, 1, s.POfill) \in Seq(Word)
         /\ Len(SubSeq(s.PObuffer, 1, s.POfill)) = s.POfill
         /\ (Reads(s) <=> s.flags \cap READSPECTATORFLAG # {})
         /\ s.name = NoName => s = Clean
<1>1. s \in Struct /\ s.POfill <= Len(s.PObuffer) /\ Len(s.PObuffer) <= POsize
      /\ s.position = Len(s.file) /\ s.readpos <= Len(s.file) /\ (~s.open => s.file = <<>>)
      /\ (s.name = NoName => s = Clean)
  BY DEF StructOK
<1>2. /\ s.file \in Seq(Word) /\ s.PObuffer \in Seq(Word) /\ s.POfill \in Nat
      /\ s.readpos \in Nat /\ s.name \in Names \cup {NoName} /\ s.open \in BOOLEAN
      /\ s.flags \subseteq {1, 2}
  BY <1>1 DEF Struct
<1>3. Len(s.file) \in Nat /\ Len(s.PObuffer) \in Nat
  BY <1>2, LenProperties
<1>4. s.POfill \in 0..Len(s.PObuffer) /\ s.readpos \in 0..Len(s.file)
  BY <1>1, <1>2, <1>3
<1>5. /\ SubSeq(s.PObuffer, 1, s.POfill) \in Seq(Word)
      /\ Len(SubSeq(s.PObuffer, 1, s.POfill)) = s.POfill
  <2>1. 0 \in Nat /\ s.POfill <= Len(s.PObuffer) /\ 0 <= s.POfill
    BY <1>3, <1>4
  <2>2. /\ SubSeq(s.PObuffer, 0 + 1, s.POfill) \in Seq(Word)
        /\ Len(SubSeq(s.PObuffer, 0 + 1, s.POfill)) = s.POfill - 0
    BY <1>2, <2>1, PartOf
  <2>3. 0 + 1 = 1 /\ s.POfill - 0 = s.POfill
    BY <1>2
  <2>4. QED
    BY <2>2, <2>3
<1>6. Reads(s) <=> s.flags \cap READSPECTATORFLAG # {}
  BY <1>2 DEF Reads, READSPECTATORFLAG
<1>7. QED
  BY <1>1, <1>2, <1>3, <1>4, <1>5, <1>6

\* PutInSpectator: one more term behind the others, however much of it is written.
LEMMA PutInKeeps ==
  ASSUME NEW s, StructOK(s), ~Reads(s), s.name \in Names, NEW t \in AllTerms,
         NEW terms \in Seq(AllTerms), AreWordsOf(Words(s), terms)
  PROVE  /\ StructOK(PutIn(s, t)) /\ PutIn(s, t).name = s.name
         /\ ~Reads(PutIn(s, t))
         /\ AreWordsOf(Words(PutIn(s, t)), Append(terms, t))
<1> DEFINE buffered == SubSeq(s.PObuffer, 1, s.POfill)
           all == buffered \o t
           full == WrittenWords(Len(all))
           front == SubSeq(all, 1, full)
           rest == SubSeq(all, full + 1, Len(all))
<1>1. /\ s \in Struct /\ s.file \in Seq(Word) /\ Len(s.file) \in Nat
      /\ s.position = Len(s.file) /\ s.readpos \in 0..Len(s.file)
      /\ (~s.open => s.file = <<>>)
      /\ buffered \in Seq(Word)
  BY StructFacts
<1>2. t \in Seq(Word) /\ Len(t) \in Nat /\ Len(t) >= 1
  BY TermFacts
<1>3. all \in Seq(Word) /\ Len(all) \in Nat /\ Len(all) > 0
  <2>1. all \in Seq(Word) /\ Len(all) = Len(buffered) + Len(t) /\ Len(buffered) \in Nat
    BY <1>1, <1>2, ConcatProperties, LenProperties
  <2>2. QED
    BY <1>2, <2>1
<1>4. /\ full \in Nat /\ full <= Len(all) /\ Len(all) - full <= POsize
      /\ (full = 0 => Len(all) <= POsize)
  BY <1>3, WrittenIsPart
<1> HIDE DEF all, full, buffered
<1>5. front \in Seq(Word) /\ Len(front) = full
  <2>1. /\ SubSeq(all, 0 + 1, full) \in Seq(Word) /\ Len(SubSeq(all, 0 + 1, full)) = full - 0
    BY <1>3, <1>4, PartOf
  <2>2. QED
    BY <1>4, <2>1
<1>6. rest \in Seq(Word) /\ Len(rest) = Len(all) - full
  BY <1>3, <1>4, PartOf
<1>7. front \o rest = all
  <2>1. 1 \in 1..Len(all) + 1 /\ full \in 1 - 1..Len(all) /\ Len(all) \in full..Len(all)
    BY <1>3, <1>4
  <2>2. front \o rest = SubSeq(all, 1, Len(all))
    BY <1>3, <2>1, ConcatAdjacentSubSeq
  <2>3. QED
    BY <1>3, <2>2, SubSeqFull
<1>8. Words(s) = s.file \o buffered /\ Words(s) \in Seq(Word)
  BY <1>1, ConcatProperties DEF Words, buffered
<1>9. AreWordsOf(s.file \o all, Append(terms, t))
  <2>1. (s.file \o buffered) \o t = s.file \o (buffered \o t)
    <3>1. s.file \in Seq(Word) /\ buffered \in Seq(Word) /\ t \in Seq(Word)
      BY <1>1, <1>2
    <3>2. QED
      BY <3>1, WordsInOrder
  <2>2. QED
    BY <1>8, <2>1, OneMoreTerm DEF all
<1>10. CASE full = 0
  <2> DEFINE p == [s EXCEPT !.PObuffer = all, !.POfill = Len(all)]
  <2>1. PutIn(s, t) = p
    BY <1>10 DEF PutIn, full, all, buffered
  <2>2. /\ p.name = s.name /\ p.flags = s.flags /\ p.file = s.file /\ p.POfill = Len(all)
        /\ p.PObuffer = all /\ p.position = s.position /\ p.readpos = s.readpos
        /\ p.open = s.open /\ p \in Struct
    BY <1>1, <1>3 DEF Struct
  <2>3. SubSeq(p.PObuffer, 1, p.POfill) = all
    BY <1>3, <2>2, SubSeqFull
  <2> HIDE DEF p
  <2>4. StructOK(p)
    <3>1. p.name # NoName
      BY <2>2, Sizes
    <3>2. QED
      BY <1>1, <1>3, <1>4, <1>10, <2>2, <3>1 DEF StructOK
  <2>5. QED
    BY <1>9, <2>1, <2>2, <2>3, <2>4 DEF Reads, Words
<1>11. CASE full # 0
  <2> DEFINE p == [s EXCEPT !.open = TRUE, !.file = s.file \o front,
                            !.position = s.position + full,
                            !.PObuffer = rest, !.POfill = Len(rest)]
  <2>1. WriteFile(IF s.open THEN s.file ELSE <<>>, s.position, front) = s.file \o front
    <3>1. (IF s.open THEN s.file ELSE <<>>) = s.file
      BY <1>1
    <3>2. WriteFile(s.file, Len(s.file), front) = s.file \o front
      BY <1>1, <1>5, WrittenAtEnd
    <3> HIDE DEF front
    <3>3. QED
      BY <1>1, <3>1, <3>2
  <2>2. PutIn(s, t) = p
    BY <1>11, <2>1 DEF PutIn, full, all, buffered, MovePosition
  <2>3. s.file \o front \in Seq(Word) /\ Len(s.file \o front) = Len(s.file) + full
    BY <1>1, <1>5, ConcatProperties
  <2> HIDE DEF front, rest
  <2>4. /\ p.name = s.name /\ p.flags = s.flags /\ p.file = s.file \o front
        /\ p.POfill = Len(rest) /\ p.PObuffer = rest /\ p.position = Len(s.file) + full
        /\ p.readpos = s.readpos /\ p.open = TRUE /\ p \in Struct
    <3>1. /\ Len(rest) \in Nat /\ rest \in Seq(Word) /\ s.position + full \in Nat
          /\ s.position + full = Len(s.file) + full
      BY <1>1, <1>4, <1>6, LenProperties
    <3>2. s.file \o front \in Seq(Word)
      BY <2>3
    <3>3. p \in Struct
      BY <1>1, <3>1, <3>2 DEF Struct
    <3>4. QED
      BY <1>1, <3>1, <3>3 DEF Struct
  <2>5. SubSeq(p.PObuffer, 1, p.POfill) = rest
    BY <1>6, <2>4, SubSeqFull
  <2> HIDE DEF p
  <2>6. StructOK(p)
    <3>1. p.name # NoName
      BY <2>4, Sizes
    <3>2. QED
      BY <1>1, <1>4, <1>6, <2>3, <2>4, <3>1 DEF StructOK
  <2>7. (s.file \o front) \o rest = s.file \o all
    <3>1. s.file \in Seq(Word) /\ front \in Seq(Word) /\ rest \in Seq(Word)
      BY <1>1, <1>5, <1>6
    <3>2. (s.file \o front) \o rest = s.file \o (front \o rest)
      BY <3>1, WordsInOrder
    <3>3. QED
      BY <1>7, <3>2
  <2>8. QED
    BY <1>9, <2>2, <2>4, <2>5, <2>6, <2>7 DEF Reads, Words
<1>12. QED
  BY <1>10, <1>11

\* FlushSpectators: afterwards the buffer is empty and nothing is lost.
LEMMA FlushKeeps ==
  ASSUME NEW s, StructOK(s)
  PROVE  /\ StructOK(Flush(s)) /\ Flush(s).name = s.name
         /\ ~Reads(Flush(s)) /\ Flush(s).POfill = 0 /\ Words(Flush(s)) = Words(s)
<1> DEFINE buffered == SubSeq(s.PObuffer, 1, s.POfill)
<1>1. /\ s \in Struct /\ s.file \in Seq(Word) /\ Len(s.file) \in Nat
      /\ s.position = Len(s.file) /\ s.readpos \in 0..Len(s.file)
      /\ s.PObuffer \in Seq(Word) /\ Len(s.PObuffer) \in Nat
      /\ s.POfill \in 0..Len(s.PObuffer) /\ Len(s.PObuffer) <= POsize
      /\ (~s.open => s.file = <<>>) /\ (s.name = NoName => s = Clean)
      /\ buffered \in Seq(Word) /\ Len(buffered) = s.POfill
      /\ s.flags \subseteq {1, 2}
      /\ (Reads(s) <=> s.flags \cap READSPECTATORFLAG # {})
  BY StructFacts
<1>2. \A b \in Seq(Word) : s.file \o SubSeq(b, 1, 0) = s.file
  BY <1>1, SubSeqEmpty, ConcatEmptySeq
<1> HIDE DEF buffered
<1>3. CASE s.name = NoName
  <2>1. Flush(s) = s /\ s = Clean
    BY <1>1, <1>3 DEF Flush
  <2>2. QED
    BY <2>1, CleanIsOK DEF Clean, Reads
<1>4. CASE s.name # NoName /\ Reads(s)
  <2> DEFINE f == [s EXCEPT !.flags = @ \ READSPECTATORFLAG, !.POfill = 0]
  <2>1. Flush(s) = f
    BY <1>1, <1>4 DEF Flush, NotToBeWritten
  <2>2. s.flags \ READSPECTATORFLAG = {}
    BY <1>1 DEF READSPECTATORFLAG
  <2>3. /\ f.name = s.name /\ f.flags = {} /\ f.file = s.file /\ f.POfill = 0
        /\ f.PObuffer = s.PObuffer /\ f.position = s.position /\ f.readpos = s.readpos
        /\ f.open = s.open /\ f \in Struct
    BY <1>1, <2>2 DEF Struct
  <2> HIDE DEF f
  <2>4. StructOK(f) /\ ~Reads(f)
    BY <1>1, <1>4, <2>3 DEF StructOK, Reads
  <2>5. Words(f) = Words(s)
    BY <1>1, <1>2, <1>4, <2>3, <2>4 DEF Words
  <2>6. QED
    BY <2>1, <2>3, <2>4, <2>5
<1>5. CASE s.name # NoName /\ ~Reads(s) /\ s.POfill = 0
  <2>1. Flush(s) = s
    BY <1>1, <1>5 DEF Flush, NotToBeWritten
  <2>2. QED
    BY <1>5, <2>1
<1>6. CASE s.name # NoName /\ ~Reads(s) /\ s.POfill # 0
  <2> DEFINE f == [s EXCEPT !.open = TRUE, !.file = s.file \o buffered, !.POfill = 0,
                            !.position = Len(s.file \o buffered)]
  <2>1. WriteFile(IF s.open THEN s.file ELSE <<>>, IF s.open THEN s.position ELSE 0, buffered)
          = s.file \o buffered
    <3>1. (IF s.open THEN s.file ELSE <<>>) = s.file
          /\ (IF s.open THEN s.position ELSE 0) = Len(s.file)
      BY <1>1, EmptySeq
    <3>2. WriteFile(s.file, Len(s.file), buffered) = s.file \o buffered
      BY <1>1, WrittenAtEnd
    <3>3. QED
      BY <3>1, <3>2
  <2>2. Flush(s) = f
    BY <1>1, <1>6, <2>1 DEF Flush, NotToBeWritten, buffered
  <2>3. s.file \o buffered \in Seq(Word) /\ Len(s.file \o buffered) = Len(s.file) + s.POfill
    BY <1>1, ConcatProperties
  <2>4. /\ f.name = s.name /\ f.flags = s.flags /\ f.file = s.file \o buffered /\ f.POfill = 0
        /\ f.PObuffer = s.PObuffer /\ f.position = Len(s.file \o buffered)
        /\ f.readpos = s.readpos /\ f.open = TRUE /\ f \in Struct
    <3>1. s.file \o buffered \in Seq(Word) /\ Len(s.file \o buffered) \in Nat
      BY <2>3, LenProperties
    <3>2. f \in Struct
      BY <1>1, <3>1 DEF Struct
    <3>3. QED
      BY <1>1, <3>1, <3>2 DEF Struct
  <2> HIDE DEF f
  <2>5. StructOK(f) /\ ~Reads(f)
    BY <1>1, <1>6, <2>3, <2>4 DEF StructOK, Reads
  <2>6. Words(f) = s.file \o buffered
    <3>1. (s.file \o buffered) \o SubSeq(s.PObuffer, 1, 0) = s.file \o buffered
      BY <2>3, SubSeqEmpty, ConcatEmptySeq
    <3>2. QED
      BY <2>4, <2>5, <3>1 DEF Words
  <2>7. QED
    BY <1>6, <2>2, <2>4, <2>5, <2>6 DEF Words, buffered
<1>7. QED
  BY <1>3, <1>4, <1>5, <1>6

-----------------------------------------------------------------------------
(* Reading *)

LEMMA LayoutFacts ==
  ASSUME NEW words \in Seq(Word), NEW terms \in Seq(AllTerms),
         NEW starts \in [1..Len(terms) + 1 -> 0..Len(words)], Layout(starts, words, terms),
         NEW k \in 1..Len(terms)
  PROVE  /\ starts[k] \in Nat /\ Len(terms[k]) \in Nat /\ Len(terms[k]) >= 1
         /\ Len(terms[k]) <= POsize /\ terms[k] \in Seq(Word)
         /\ starts[k + 1] = starts[k] + Len(terms[k]) /\ starts[k + 1] <= Len(words)
         /\ \A w \in 1..Len(terms[k]) : words[starts[k] + w] = terms[k][w]
         /\ terms[k][1][3] = Len(terms[k])
<1>1. Len(terms) \in Nat /\ Len(words) \in Nat
  BY LenProperties
<1>2. k \in 1..Len(terms) + 1 /\ k + 1 \in 1..Len(terms) + 1
  BY <1>1
<1>3. starts[k] \in 0..Len(words) /\ starts[k + 1] \in 0..Len(words)
  BY <1>2
<1>4. terms[k] \in AllTerms
  BY ElementOfSeq
<1>5. /\ starts[k + 1] = starts[k] + Len(terms[k])
      /\ \A w \in 1..Len(terms[k]) : words[starts[k] + w] = terms[k][w]
  BY DEF Layout
<1>6. QED
  BY <1>1, <1>3, <1>4, <1>5, TermFacts

\* Where the words end the terms end.
LEMMA EndOfTerms ==
  ASSUME NEW words \in Seq(Word), NEW terms \in Seq(AllTerms),
         NEW starts \in [1..Len(terms) + 1 -> 0..Len(words)], Layout(starts, words, terms),
         NEW k \in 1..Len(terms) + 1, starts[k] = Len(words)
  PROVE  k = Len(terms) + 1
<1>1. Len(terms) \in Nat /\ Len(words) \in Nat
  BY LenProperties
<1>2. ASSUME k # Len(terms) + 1 PROVE FALSE
  <2>1. k \in 1..Len(terms)
    BY <1>1, <1>2
  <2>2. /\ starts[k] \in Nat /\ Len(terms[k]) \in Nat /\ Len(terms[k]) >= 1
        /\ starts[k + 1] = starts[k] + Len(terms[k]) /\ starts[k + 1] <= Len(words)
    BY <2>1, LayoutFacts
  <2>3. QED
    BY <1>1, <2>2
<1>3. QED
  BY <1>2

LEMMA SameTerms ==
  ASSUME NEW terms \in Seq(AllTerms), NEW got \in Seq(Seq(Word)), Len(got) = Len(terms),
         \A k \in 1..Len(got) : got[k] = terms[k]
  PROVE  got = terms
<1>1. terms \in Seq(Seq(Word))
  BY TermsAreSeqs, SeqMonotonic
<1>2. QED
  BY <1>1, SeqEqual

LEMMA FillFacts ==
  ASSUME NEW s, StructOK(s), s.name \in Names
  PROVE  LET b == FillBuffer(s)  last == b.readpos IN
         /\ StructOK(b) /\ b.name = s.name /\ b.flags = s.flags /\ b.file = s.file
         /\ b.open = s.open /\ b.POfill = 0
         /\ last \in Nat /\ s.readpos <= last /\ last <= Len(s.file)
         /\ Len(b.PObuffer) = last - s.readpos
         /\ last = s.readpos + POsize \/ last = Len(s.file)
         /\ \A j \in 1..last - s.readpos : b.PObuffer[j] = s.file[s.readpos + j]
<1> DEFINE last == IF s.readpos + POsize < Len(s.file) THEN s.readpos + POsize ELSE Len(s.file)
           part == SubSeq(s.file, s.readpos + 1, last)
           b == [s EXCEPT !.PObuffer = part, !.POfill = 0, !.readpos = last]
<1>1. /\ s \in Struct /\ s.file \in Seq(Word) /\ Len(s.file) \in Nat
      /\ s.position = Len(s.file) /\ s.readpos \in 0..Len(s.file)
      /\ (~s.open => s.file = <<>>)
  BY StructFacts
<1>2. /\ last \in Nat /\ s.readpos <= last /\ last <= Len(s.file) /\ s.readpos \in Nat
      /\ last - s.readpos <= POsize /\ last - s.readpos \in Nat
      /\ last = s.readpos + POsize \/ last = Len(s.file)
  BY <1>1, Sizes
<1> HIDE DEF last
<1>3. /\ part \in Seq(Word) /\ Len(part) = last - s.readpos
      /\ \A j \in 1..last - s.readpos : part[j] = s.file[s.readpos + j]
  BY <1>1, <1>2, PartOf
<1>4. FillBuffer(s) = b
  BY DEF FillBuffer, last
<1> HIDE DEF part
<1>5. /\ b.name = s.name /\ b.flags = s.flags /\ b.file = s.file /\ b.POfill = 0
      /\ b.PObuffer = part /\ b.position = s.position /\ b.readpos = last
      /\ b.open = s.open /\ b \in Struct
  BY <1>1, <1>2, <1>3 DEF Struct
<1> HIDE DEF b
<1>6. StructOK(b)
  <2>1. b.name # NoName
    BY <1>5, Sizes
  <2>2. QED
    BY <1>1, <1>2, <1>3, <1>5, <2>1 DEF StructOK
<1>7. QED
  BY <1>2, <1>3, <1>4, <1>5, <1>6

\* At the start of a term the buffer has the term's first word, or there are no more.
LEMMA AtStartKeeps ==
  ASSUME NEW s, StructOK(s), s.name \in Names,
         NEW terms \in Seq(AllTerms), AreWordsOf(s.file, terms),
         NEW got \in Seq(Seq(Word)), CopySoFar(s, terms, got)
  PROVE  LET b == AtStart(s) IN
         /\ StructOK(b) /\ b.name = s.name /\ b.flags = s.flags /\ b.file = s.file
         /\ b.open = s.open
         /\ Positioned(b, terms, got)
         /\ b.POfill = Len(b.PObuffer) => got = terms
<1>1. /\ s.file \in Seq(Word) /\ Len(s.file) \in Nat /\ s.PObuffer \in Seq(Word)
      /\ Len(s.PObuffer) \in Nat /\ s.POfill \in 0..Len(s.PObuffer)
      /\ s.position = Len(s.file) /\ s.readpos \in 0..Len(s.file)
  BY StructFacts
<1>2. /\ Len(got) \in Nat /\ Len(terms) \in Nat /\ Len(got) <= Len(terms)
      /\ \A k \in 1..Len(got) : got[k] = terms[k]
  BY LenProperties DEF CopySoFar
<1>3. Len(got) + 1 \in 1..Len(terms) + 1
  BY <1>2
<1>4. ASSUME NEW starts \in [1..Len(terms) + 1 -> 0..Len(s.file)],
             Layout(starts, s.file, terms), starts[Len(got) + 1] = Len(s.file)
      PROVE  got = terms
  <2>1. Len(got) + 1 = Len(terms) + 1
    BY <1>1, <1>3, <1>4, EndOfTerms
  <2>2. QED
    BY <1>2, <2>1, SameTerms
<1>5. CASE NeedsBuffer(s)
  <2> DEFINE b == FillBuffer(s)
  <2>1. /\ StructOK(b) /\ b.name = s.name /\ b.flags = s.flags /\ b.file = s.file
        /\ b.open = s.open /\ b.POfill = 0
        /\ b.readpos \in Nat /\ s.readpos <= b.readpos /\ b.readpos <= Len(s.file)
        /\ Len(b.PObuffer) = b.readpos - s.readpos
        /\ b.readpos = s.readpos + POsize \/ b.readpos = Len(s.file)
        /\ \A j \in 1..b.readpos - s.readpos : b.PObuffer[j] = s.file[s.readpos + j]
    BY FillFacts
  <2>2. AtStart(s) = b
    BY <1>5 DEF AtStart
  <2> HIDE DEF b
  <2>3. PICK starts \in [1..Len(terms) + 1 -> 0..Len(s.file)] :
          Layout(starts, s.file, terms) /\ starts[Len(got) + 1] = s.readpos
    <3>1. CASE s.readpos = 0
      <4>1. got = <<>> /\ Len(got) = 0
        BY <3>1, EmptySeq DEF CopySoFar
      <4>2. PICK starts \in [1..Len(terms) + 1 -> 0..Len(s.file)] :
              Layout(starts, s.file, terms)
        BY DEF AreWordsOf
      <4>3. starts[1] = 0
        BY <4>2 DEF Layout
      <4>4. QED
        BY <3>1, <4>1, <4>2, <4>3
    <3>2. CASE s.readpos # 0
      <4>1. s.readpos > 0 /\ s.POfill = Len(s.PObuffer)
        BY <1>1, <1>5, <3>2 DEF NeedsBuffer
      <4>2. PICK starts \in [1..Len(terms) + 1 -> 0..Len(s.file)] :
              /\ Layout(starts, s.file, terms)
              /\ starts[Len(got) + 1] = s.readpos - Len(s.PObuffer) + s.POfill
        BY <4>1 DEF CopySoFar, Positioned
      <4>3. s.readpos - Len(s.PObuffer) + s.POfill = s.readpos
        BY <1>1, <4>1
      <4>4. QED
        BY <4>2, <4>3
    <3>3. QED
      BY <3>1, <3>2
  <2>4. b.readpos - Len(b.PObuffer) = s.readpos
        /\ b.readpos - Len(b.PObuffer) + b.POfill = s.readpos /\ Len(b.PObuffer) <= b.readpos
    BY <1>1, <2>1
  <2>5. BufferPart(b)
    BY <2>1, <2>4 DEF BufferPart
  <2>6. Positioned(b, terms, got)
    BY <2>1, <2>3, <2>4, <2>5 DEF Positioned
  <2>7. ASSUME b.POfill = Len(b.PObuffer) PROVE got = terms
    <3>1. s.readpos = Len(s.file)
      BY <1>1, <2>1, <2>7, Sizes
    <3>2. QED
      BY <1>4, <2>3, <3>1
  <2>8. QED
    BY <2>1, <2>2, <2>6, <2>7
<1>6. CASE ~NeedsBuffer(s)
  <2>1. AtStart(s) = s
    BY <1>6 DEF AtStart
  <2>2. s.readpos > 0 /\ (s.POfill = Len(s.PObuffer) => s.readpos = Len(s.file))
    BY <1>1, <1>6 DEF NeedsBuffer
  <2>3. Positioned(s, terms, got)
    BY <2>2 DEF CopySoFar
  <2>4. PICK starts \in [1..Len(terms) + 1 -> 0..Len(s.file)] :
          /\ Layout(starts, s.file, terms)
          /\ starts[Len(got) + 1] = s.readpos - Len(s.PObuffer) + s.POfill
    BY <2>3 DEF Positioned
  <2>5. ASSUME s.POfill = Len(s.PObuffer) PROVE got = terms
    <3>1. s.readpos - Len(s.PObuffer) + s.POfill = Len(s.file)
      BY <1>1, <2>2, <2>5
    <3>2. QED
      BY <1>4, <2>4, <3>1
  <2>6. QED
    BY <2>1, <2>3, <2>5
<1>7. QED
  BY <1>5, <1>6

LEMMA OneMoreGot ==
  ASSUME NEW got \in Seq(Seq(Word)), NEW t \in Seq(Word)
  PROVE  /\ Append(got, t) \in Seq(Seq(Word)) /\ Len(Append(got, t)) = Len(got) + 1
         /\ \A i \in 1..Len(got) : Append(got, t)[i] = got[i]
         /\ Append(got, t)[Len(got) + 1] = t /\ Append(got, t) # <<>>
BY AppendProperties

\* A term t of which the buffer has all words, and one that goes on in the next buffer.
InOne(buf, file, fill, r, start, t) ==
  /\ buf \in Seq(Word) /\ fill \in Nat /\ r \in Nat /\ start \in Nat /\ t \in Seq(Word)
  /\ fill + Len(t) <= Len(buf) /\ start = r - Len(buf) + fill
  /\ \A j \in 1..Len(buf) : buf[j] = file[r - Len(buf) + j]
  /\ \A w \in 1..Len(t) : file[start + w] = t[w]
InTwo(buf, buf2, file, end, fill, r, r2, start, t) ==
  /\ buf \in Seq(Word) /\ buf2 \in Seq(Word) /\ end \in Nat /\ fill \in Nat
  /\ r \in Nat /\ r2 \in Nat /\ start \in Nat /\ t \in Seq(Word)
  /\ fill < Len(buf) /\ Len(t) > Len(buf) - fill /\ Len(t) <= POsize
  /\ start = r - Len(buf) + fill /\ start + Len(t) <= end
  /\ Len(buf2) = r2 - r /\ (r2 = r + POsize \/ r2 = end)
  /\ \A j \in 1..Len(buf) : buf[j] = file[r - Len(buf) + j]
  /\ \A j \in 1..Len(buf2) : buf2[j] = file[r + j]
  /\ \A w \in 1..Len(t) : file[start + w] = t[w]

EndsInTwo(buf, buf2, fill, r2, start, t, n) ==
  /\ n \in Nat /\ n <= Len(buf2)
  /\ SubSeq(buf, fill + 1, Len(buf)) \o SubSeq(buf2, 1, n) = t
  /\ start + Len(t) = r2 - Len(buf2) + n

LEMMA InOneBuffer ==
  ASSUME NEW buf, NEW file, NEW fill, NEW r, NEW start, NEW t,
         InOne(buf, file, fill, r, start, t)
  PROVE  /\ SubSeq(buf, fill + 1, fill + Len(t)) = t
         /\ start + Len(t) = r - Len(buf) + (fill + Len(t))
<1> DEFINE q == fill + Len(t)
           part == SubSeq(buf, fill + 1, q)
<1>10. /\ buf \in Seq(Word) /\ fill \in Nat /\ r \in Nat /\ start \in Nat /\ t \in Seq(Word)
       /\ fill + Len(t) <= Len(buf) /\ start = r - Len(buf) + fill
       /\ Len(t) \in Nat /\ Len(buf) \in Nat
  BY LenProperties DEF InOne
<1>1. Len(t) \in Nat /\ Len(buf) \in Nat /\ q \in Nat /\ fill <= q /\ q <= Len(buf)
      /\ q - fill = Len(t)
  BY <1>10
<1> HIDE DEF q
<1>2. /\ part \in Seq(Word) /\ Len(part) = q - fill
      /\ \A i \in 1..q - fill : part[i] = buf[fill + i]
  BY <1>1, <1>10, PartOf
<1> HIDE DEF part
<1>3. ASSUME NEW i \in 1..Len(t) PROVE part[i] = t[i]
  <2>1. part[i] = buf[fill + i]
    BY <1>1, <1>2
  <2>2. fill + i \in 1..Len(buf) /\ r - Len(buf) + (fill + i) = start + i
    BY <1>1, <1>10
  <2>3. QED
    BY <1>1, <1>10, <2>1, <2>2 DEF InOne
<1>4. part = t
  BY <1>1, <1>2, <1>3, <1>10, SeqEqual
<1>5. QED
  BY <1>1, <1>4, <1>10 DEF part, q

LEMMA InTwoBuffers ==
  ASSUME NEW buf, NEW buf2, NEW file, NEW end, NEW fill, NEW r, NEW r2, NEW start, NEW t,
         InTwo(buf, buf2, file, end, fill, r, r2, start, t)
  PROVE  EndsInTwo(buf, buf2, fill, r2, start, t, Len(t) - (Len(buf) - fill))
<1> DEFINE here == Len(buf) - fill
           n == Len(t) - here
           front == SubSeq(buf, fill + 1, Len(buf))
           rest == SubSeq(buf2, 1, n)
           words == front \o rest
<1>10. /\ buf \in Seq(Word) /\ buf2 \in Seq(Word) /\ t \in Seq(Word)
  BY DEF InTwo
<1>9. /\ end \in Nat /\ fill \in Nat /\ r \in Nat /\ r2 \in Nat /\ start \in Nat
      /\ Len(t) \in Nat /\ Len(buf) \in Nat /\ Len(buf2) \in Nat /\ POsize \in Nat
      /\ fill < Len(buf) /\ Len(t) > Len(buf) - fill /\ Len(t) <= POsize
      /\ start = r - Len(buf) + fill /\ start + Len(t) <= end
      /\ Len(buf2) = r2 - r /\ (r2 = r + POsize \/ r2 = end)
  BY <1>10, LenProperties, Sizes DEF InTwo
<1>1. /\ here \in Nat /\ n \in Nat /\ here + n = Len(t) /\ here = Len(buf) - fill
      /\ n = Len(t) - here
  BY <1>9
<1>2. /\ n <= Len(buf2) /\ start + Len(t) = r2 - Len(buf2) + n
      /\ start + here = r
  BY <1>9
<1>3. /\ front \in Seq(Word) /\ Len(front) = here
      /\ \A i \in 1..here : front[i] = buf[fill + i]
  BY <1>1, <1>9, <1>10, PartOf
<1> HIDE DEF n, here
<1>4. /\ rest \in Seq(Word) /\ Len(rest) = n /\ \A i \in 1..n : rest[i] = buf2[i]
  <2>1. /\ SubSeq(buf2, 0 + 1, n) \in Seq(Word) /\ Len(SubSeq(buf2, 0 + 1, n)) = n - 0
        /\ \A i \in 1..n - 0 : SubSeq(buf2, 0 + 1, n)[i] = buf2[0 + i]
    BY <1>1, <1>2, <1>9, <1>10, PartOf
  <2>2. n - 0 = n /\ 0 + 1 = 1 /\ \A i \in 1..n : 0 + i = i
    BY <1>1
  <2>3. QED
    BY <2>1, <2>2
<1> HIDE DEF front, rest
<1>5. /\ words \in Seq(Word) /\ Len(words) = here + n
      /\ \A i \in 1..here + n : words[i] = IF i <= here THEN front[i] ELSE rest[i - here]
  <2>1. front \in Seq(Word) /\ rest \in Seq(Word)
    BY <1>3, <1>4
  <2>2. /\ words \in Seq(Word) /\ Len(words) = Len(front) + Len(rest)
        /\ \A i \in 1..Len(front) + Len(rest) :
             words[i] = IF i <= Len(front) THEN front[i] ELSE rest[i - Len(front)]
    BY <2>1, ConcatProperties
  <2>3. QED
    BY <1>3, <1>4, <2>2
<1> HIDE DEF words
<1>6. ASSUME NEW i \in 1..Len(t) PROVE words[i] = t[i]
  <2>1. file[start + i] = t[i]
    BY DEF InTwo
  <2>2. CASE i <= here
    <3>1. words[i] = buf[fill + i]
      <4>1. i \in 1..here + n /\ i \in 1..here
        BY <1>1, <1>9, <2>2
      <4>2. QED
        BY <1>3, <1>5, <2>2, <4>1
    <3>2. fill + i \in 1..Len(buf) /\ r - Len(buf) + (fill + i) = start + i
      BY <1>1, <1>9, <2>2
    <3>3. QED
      BY <2>1, <3>1, <3>2 DEF InTwo
  <2>3. CASE ~(i <= here)
    <3>1. i - here \in 1..n /\ i - here \in 1..Len(buf2) /\ r + (i - here) = start + i
      <4>1. i \in Nat /\ i <= Len(t) /\ i > here /\ here \in Nat /\ n \in Nat
        BY <1>1, <1>9, <2>3
      <4>2. i - here \in 1..n
        BY <1>1, <4>1
      <4>3. i - here \in 1..Len(buf2)
        BY <1>2, <1>9, <4>1, <4>2
      <4>4. r + (i - here) = start + i
        <5>1. start + here = r /\ start \in Nat /\ r \in Nat
          BY <1>2, <1>9
        <5> QED
          BY <4>1, <5>1
      <4>5. QED
        BY <4>2, <4>3, <4>4
    <3>2. words[i] = buf2[i - here]
      <4>1. i \in 1..here + n
        BY <1>1, <1>9
      <4>2. QED
        BY <1>4, <1>5, <2>3, <3>1, <4>1
    <3>3. QED
      BY <2>1, <3>1, <3>2 DEF InTwo
  <2>4. QED
    BY <2>2, <2>3
<1>7. words = t
  BY <1>1, <1>5, <1>6, <1>9, <1>10, SeqEqual
<1>8. QED
  BY <1>1, <1>2, <1>7 DEF EndsInTwo, words, front, rest, n, here

\* GetFromSpectator takes the next term, from one buffer or from two.
LEMMA TermIsTaken ==
  ASSUME NEW s, StructOK(s), s.name \in Names,
         NEW terms \in Seq(AllTerms), AreWordsOf(s.file, terms),
         NEW got \in Seq(Seq(Word)), CopySoFar(s, terms, got), HasTerm(s)
  PROVE  LET a == TakeTerm(s).after  words == TakeTerm(s).words IN
         /\ StructOK(a) /\ a.name = s.name /\ a.flags = s.flags /\ a.file = s.file
         /\ words \in Seq(Word) /\ Len(words) = TakeTerm(s).size
         /\ Append(got, words) \in Seq(Seq(Word))
         /\ CopySoFar(a, terms, Append(got, words))
<1> DEFINE b == AtStart(s)
           k == Len(got) + 1
           size == b.PObuffer[b.POfill + 1][3]
           here == Len(b.PObuffer) - b.POfill
           more == FillBuffer(b)
           next == Append(got, terms[k])
<1>1. /\ StructOK(b) /\ b.name = s.name /\ b.flags = s.flags /\ b.file = s.file
      /\ Positioned(b, terms, got)
  BY AtStartKeeps
<1>2. b.POfill < Len(b.PObuffer)
  BY DEF HasTerm
<1> HIDE DEF b
<1>3. /\ b \in Struct /\ b.file \in Seq(Word) /\ Len(b.file) \in Nat
      /\ b.PObuffer \in Seq(Word) /\ Len(b.PObuffer) \in Nat
      /\ b.POfill \in 0..Len(b.PObuffer) /\ Len(b.PObuffer) <= POsize
      /\ b.readpos \in 0..Len(b.file) /\ b.position = Len(b.file)
      /\ (~b.open => b.file = <<>>)
  BY <1>1, StructFacts
<1>4. /\ Len(got) \in Nat /\ Len(terms) \in Nat /\ Len(got) <= Len(terms)
      /\ \A i \in 1..Len(got) : got[i] = terms[i]
  BY LenProperties DEF CopySoFar
<1>5. PICK starts \in [1..Len(terms) + 1 -> 0..Len(b.file)] :
        /\ Layout(starts, b.file, terms)
        /\ starts[k] = b.readpos - Len(b.PObuffer) + b.POfill
  BY <1>1 DEF Positioned
<1>6. /\ Len(b.PObuffer) <= b.readpos
      /\ \A j \in 1..Len(b.PObuffer) : b.PObuffer[j] = b.file[b.readpos - Len(b.PObuffer) + j]
  BY <1>1 DEF Positioned, BufferPart
<1>7. k \in 1..Len(terms)
  <2>1. starts[Len(terms) + 1] = Len(b.file)
    BY <1>5 DEF Layout
  <2>2. starts[k] < Len(b.file)
    BY <1>2, <1>3, <1>5
  <2>3. QED
    BY <1>4, <2>1, <2>2
<1> HIDE DEF k
<1>8. /\ starts[k] \in Nat /\ Len(terms[k]) \in Nat /\ Len(terms[k]) >= 1
      /\ Len(terms[k]) <= POsize /\ terms[k] \in Seq(Word)
      /\ starts[k + 1] = starts[k] + Len(terms[k]) /\ starts[k + 1] <= Len(b.file)
      /\ \A w \in 1..Len(terms[k]) : b.file[starts[k] + w] = terms[k][w]
      /\ terms[k][1][3] = Len(terms[k])
  BY <1>3, <1>5, <1>7, LayoutFacts
<1>9. size = Len(terms[k])
  <2>1. b.POfill + 1 \in 1..Len(b.PObuffer)
    BY <1>2, <1>3
  <2>2. b.PObuffer[b.POfill + 1] = b.file[b.readpos - Len(b.PObuffer) + (b.POfill + 1)]
    BY <1>6, <2>1
  <2>3. b.readpos - Len(b.PObuffer) + (b.POfill + 1) = starts[k] + 1
    BY <1>3, <1>5
  <2>4. b.file[starts[k] + 1] = terms[k][1]
    BY <1>8
  <2>5. QED
    BY <1>8, <2>2, <2>3, <2>4
<1>10. /\ next \in Seq(Seq(Word)) /\ Len(next) = k
       /\ \A i \in 1..Len(next) : next[i] = terms[i] /\ next # <<>>
  <2>1. terms[k] \in Seq(Word)
    BY <1>8
  <2>2. /\ next \in Seq(Seq(Word)) /\ Len(next) = Len(got) + 1
        /\ \A i \in 1..Len(got) : next[i] = got[i]
        /\ next[Len(got) + 1] = terms[k] /\ next # <<>>
    BY <2>1, OneMoreGot
  <2> HIDE DEF next
  <2>3. ASSUME NEW i \in 1..k PROVE next[i] = terms[i]
    <3>1. CASE i = k
      BY <2>2, <3>1 DEF k
    <3>2. CASE i # k
      <4>1. i \in 1..Len(got)
        BY <1>4, <3>2 DEF k
      <4>2. QED
        BY <1>4, <2>2, <4>1
    <3>3. QED
      BY <3>1, <3>2
  <2>4. Len(next) = k
    BY <2>2 DEF k
  <2>5. QED
    BY <2>2, <2>3, <2>4
<1>11. /\ Len(b.PObuffer) \in Nat /\ b.POfill \in Nat /\ b.readpos \in Nat
       /\ b.POfill < Len(b.PObuffer) /\ Len(b.PObuffer) <= b.readpos
       /\ b.readpos <= Len(b.file) /\ Len(b.file) \in Nat
  BY <1>2, <1>3, <1>6
<1>14. size \in Nat /\ size >= 1 /\ size <= POsize /\ POsize \in Nat
  BY <1>8, <1>9, Sizes
<1>15. /\ starts[k] = b.readpos - Len(b.PObuffer) + b.POfill /\ starts[k] \in Nat
       /\ starts[k + 1] = starts[k] + size /\ starts[k + 1] <= Len(b.file)
  BY <1>5, <1>8, <1>9
<1>12. CASE size <= here
  <2> DEFINE a == [b EXCEPT !.POfill = @ + size]
             words == SubSeq(b.PObuffer, b.POfill + 1, b.POfill + size)
  <2>1. TakeTerm(s) = [after |-> a, size |-> size, words |-> words]
    BY <1>12 DEF TakeTerm, b, size
  <2>2. b.POfill + size <= Len(b.PObuffer) /\ b.POfill + size \in Nat
    <3>1. size <= Len(b.PObuffer) - b.POfill
      BY <1>12
    <3>2. size \in Nat /\ b.POfill \in Nat /\ Len(b.PObuffer) \in Nat
      BY <1>11, <1>14
    <3>3. QED
      BY <3>1, <3>2
  <2>3. /\ SubSeq(b.PObuffer, b.POfill + 1, b.POfill + Len(terms[k])) = terms[k]
        /\ starts[k] + Len(terms[k]) = b.readpos - Len(b.PObuffer) + (b.POfill + Len(terms[k]))
    <3>1. /\ b.PObuffer \in Seq(Word) /\ b.POfill \in Nat /\ b.readpos \in Nat
          /\ starts[k] \in Nat /\ terms[k] \in Seq(Word) /\ b.file \in Seq(Word)
      BY <1>3, <1>8, <1>11
    <3>2. /\ b.POfill + Len(terms[k]) <= Len(b.PObuffer)
          /\ starts[k] = b.readpos - Len(b.PObuffer) + b.POfill
      BY <1>9, <1>15, <2>2
    <3>3. \A w \in 1..Len(terms[k]) : b.file[starts[k] + w] = terms[k][w]
      BY <1>8
    <3>4. \A j \in 1..Len(b.PObuffer) :
            b.PObuffer[j] = b.file[b.readpos - Len(b.PObuffer) + j]
      BY <1>6
    <3>6. InOne(b.PObuffer, b.file, b.POfill, b.readpos, starts[k], terms[k])
      BY <3>1, <3>2, <3>3, <3>4 DEF InOne
    <3>5. QED
      BY <3>6, InOneBuffer
  <2>4. words = terms[k]
    BY <1>9, <2>3
  <2> HIDE DEF words
  <2>5. /\ a.name = b.name /\ a.flags = b.flags /\ a.file = b.file /\ a.open = b.open
        /\ a.PObuffer = b.PObuffer /\ a.position = b.position /\ a.readpos = b.readpos
        /\ a.POfill = b.POfill + size /\ a \in Struct
    BY <1>3, <2>2 DEF Struct
  <2> HIDE DEF a
  <2>6. StructOK(a)
    <3>1. a.name # NoName
      BY <1>1, <2>5, Sizes
    <3>2. QED
      BY <1>3, <2>2, <2>5, <3>1 DEF StructOK
  <2>7. Positioned(a, terms, next)
    <3>1. starts[k + 1] = a.readpos - Len(a.PObuffer) + a.POfill
      BY <1>8, <1>9, <2>3, <2>5
    <3>2. BufferPart(a)
      BY <1>6, <2>5 DEF BufferPart
    <3>3. QED
      BY <1>5, <1>10, <2>5, <3>1, <3>2 DEF Positioned
  <2>8. a.readpos # 0
    BY <1>11, <2>5
  <2>9. CopySoFar(a, terms, next)
    BY <1>7, <1>10, <2>7, <2>8 DEF CopySoFar
  <2>10. QED
    BY <1>1, <1>8, <1>9, <1>10, <2>1, <2>4, <2>5, <2>6, <2>9 DEF next
<1>13. CASE ~(size <= here)
  <2> DEFINE n == size - here
             a == [more EXCEPT !.POfill = n]
             words == SubSeq(b.PObuffer, b.POfill + 1, Len(b.PObuffer))
                        \o SubSeq(more.PObuffer, 1, n)
  <2>1. TakeTerm(s) = [after |-> a, size |-> size, words |-> words]
    BY <1>13 DEF TakeTerm, b, size
  <2>2. /\ StructOK(more) /\ more.name = b.name /\ more.flags = b.flags /\ more.file = b.file
        /\ more.open = b.open /\ more.POfill = 0
        /\ more.readpos \in Nat /\ b.readpos <= more.readpos /\ more.readpos <= Len(b.file)
        /\ Len(more.PObuffer) = more.readpos - b.readpos
        /\ more.readpos = b.readpos + POsize \/ more.readpos = Len(b.file)
        /\ \A j \in 1..more.readpos - b.readpos : more.PObuffer[j] = b.file[b.readpos + j]
    BY <1>1, FillFacts
  <2>3. /\ more \in Struct /\ more.file \in Seq(Word) /\ Len(more.file) \in Nat
        /\ more.PObuffer \in Seq(Word) /\ Len(more.PObuffer) \in Nat
        /\ Len(more.PObuffer) <= POsize /\ more.position = Len(more.file)
        /\ (~more.open => more.file = <<>>)
    BY <2>2, StructFacts
  <2> HIDE DEF more
  <2>4. Len(terms[k]) > Len(b.PObuffer) - b.POfill
    <3>1. size \in Nat /\ Len(b.PObuffer) \in Nat /\ b.POfill \in Nat
      BY <1>11, <1>14
    <3>2. size > Len(b.PObuffer) - b.POfill
      BY <1>13, <3>1
    <3>3. QED
      BY <1>9, <3>2
  <2>5. /\ n \in Nat /\ n <= Len(more.PObuffer) /\ words = terms[k]
        /\ starts[k] + Len(terms[k]) = more.readpos - Len(more.PObuffer) + n
    <3>1. \A j \in 1..Len(more.PObuffer) : more.PObuffer[j] = b.file[b.readpos + j]
      BY <2>2
    <3>2. EndsInTwo(b.PObuffer, more.PObuffer, b.POfill, more.readpos, starts[k], terms[k],
                    Len(terms[k]) - (Len(b.PObuffer) - b.POfill))
      <4>1. /\ b.PObuffer \in Seq(Word) /\ more.PObuffer \in Seq(Word) /\ Len(b.file) \in Nat
            /\ b.POfill \in Nat /\ b.readpos \in Nat /\ more.readpos \in Nat
            /\ starts[k] \in Nat /\ terms[k] \in Seq(Word) /\ b.file \in Seq(Word)
        BY <1>3, <1>8, <1>11, <2>2, <2>3
      <4>2. /\ b.POfill < Len(b.PObuffer) /\ Len(terms[k]) <= POsize
            /\ starts[k] = b.readpos - Len(b.PObuffer) + b.POfill
            /\ starts[k] + Len(terms[k]) <= Len(b.file)
        BY <1>8, <1>11, <1>15
      <4>3. /\ Len(more.PObuffer) = more.readpos - b.readpos
            /\ more.readpos = b.readpos + POsize \/ more.readpos = Len(b.file)
        BY <2>2
      <4>4. \A w \in 1..Len(terms[k]) : b.file[starts[k] + w] = terms[k][w]
        BY <1>8
      <4>5. \A j \in 1..Len(b.PObuffer) :
              b.PObuffer[j] = b.file[b.readpos - Len(b.PObuffer) + j]
        BY <1>6
      <4>7. InTwo(b.PObuffer, more.PObuffer, b.file, Len(b.file), b.POfill, b.readpos,
                  more.readpos, starts[k], terms[k])
        BY <2>4, <3>1, <4>1, <4>2, <4>3, <4>4, <4>5 DEF InTwo
      <4>6. QED
        BY <4>7, InTwoBuffers
    <3>3. QED
      BY <1>9, <3>2 DEF EndsInTwo
  <2> HIDE DEF words, n
  <2>6. /\ a.name = b.name /\ a.flags = b.flags /\ a.file = b.file /\ a.open = b.open
        /\ a.PObuffer = more.PObuffer /\ a.position = more.position
        /\ a.readpos = more.readpos /\ a.POfill = n /\ a \in Struct
    BY <2>2, <2>3, <2>5 DEF Struct
  <2> HIDE DEF a
  <2>7. StructOK(a)
    <3>1. a.name # NoName
      BY <1>1, <2>6, Sizes
    <3>2. QED
      BY <1>3, <2>2, <2>3, <2>5, <2>6, <3>1 DEF StructOK
  <2>8. Positioned(a, terms, next)
    <3>1. starts[k + 1] = a.readpos - Len(a.PObuffer) + a.POfill
      BY <1>8, <2>5, <2>6
    <3>2. BufferPart(a)
      <4>1. a.readpos - Len(a.PObuffer) = b.readpos /\ Len(a.PObuffer) <= a.readpos
        BY <1>11, <2>2, <2>3, <2>6
      <4>2. QED
        BY <2>2, <2>6, <4>1 DEF BufferPart
    <3>3. QED
      BY <1>5, <1>10, <2>6, <3>1, <3>2 DEF Positioned
  <2>9. a.readpos # 0
    BY <1>11, <2>2, <2>6
  <2>10. CopySoFar(a, terms, next)
    BY <1>7, <1>10, <2>8, <2>9 DEF CopySoFar
  <2>11. QED
    BY <1>1, <1>8, <1>9, <1>10, <2>1, <2>5, <2>6, <2>7, <2>10 DEF next
<1>16. QED
  BY <1>12, <1>13

\* When there is no term left the copy has them all.
LEMMA NoTermLeft ==
  ASSUME NEW s, StructOK(s), s.name \in Names,
         NEW terms \in Seq(AllTerms), AreWordsOf(s.file, terms),
         NEW got \in Seq(Seq(Word)), CopySoFar(s, terms, got), ~HasTerm(s)
  PROVE  /\ got = terms
         /\ s.open => CopySoFar(AtStart(s), terms, got)
<1>1. /\ Len(got) \in Nat /\ Len(terms) \in Nat /\ Len(got) <= Len(terms)
      /\ \A i \in 1..Len(got) : got[i] = terms[i]
  BY LenProperties DEF CopySoFar
<1>2. CASE ~s.open
  <2>1. s.file = <<>>
    BY <1>2 DEF StructOK
  <2>2. terms = <<>>
    BY <2>1, NoWords
  <2>3. Len(got) = Len(terms)
    BY <1>1, <2>2, EmptySeq
  <2>4. QED
    BY <1>1, <1>2, <2>3, SameTerms
<1>3. CASE s.open
  <2> DEFINE b == AtStart(s)
  <2>1. /\ StructOK(b) /\ Positioned(b, terms, got)
        /\ b.POfill = Len(b.PObuffer) => got = terms
    BY AtStartKeeps
  <2>2. b.POfill = Len(b.PObuffer)
    <3>1. ~(b.POfill < Len(b.PObuffer))
      BY <1>3 DEF HasTerm
    <3> HIDE DEF b
    <3>2. b.POfill \in 0..Len(b.PObuffer) /\ Len(b.PObuffer) \in Nat
      BY <2>1, StructFacts
    <3>3. QED
      BY <3>1, <3>2
  <2>3. got = terms
    BY <2>1, <2>2
  <2> HIDE DEF b
  <2>4. b.readpos = 0 => got = <<>>
    <3>1. ASSUME b.readpos = 0 PROVE terms = <<>>
      <4>1. PICK starts \in [1..Len(terms) + 1 -> 0..Len(b.file)] :
              /\ Layout(starts, b.file, terms)
              /\ starts[Len(got) + 1] = b.readpos - Len(b.PObuffer) + b.POfill
        BY <2>1 DEF Positioned
      <4>2. b.file = s.file /\ Len(b.PObuffer) \in Nat
        <5>1. b.file = s.file
          BY AtStartKeeps DEF b
        <5>2. QED
          BY <2>1, <5>1, StructFacts
      <4>3. starts[Len(terms) + 1] = 0
        BY <2>2, <2>3, <3>1, <4>1, <4>2
      <4>4. Len(s.file) = 0 /\ s.file \in Seq(Word)
        BY <4>1, <4>2, <4>3, StructFacts DEF Layout
      <4>5. s.file = <<>>
        BY <4>4, EmptySeq
      <4>6. QED
        BY <4>5, NoWords
    <3>2. QED
      BY <2>3, <3>1
  <2>5. QED
    BY <1>1, <2>1, <2>3, <2>4 DEF CopySoFar, b
<1>4. QED
  BY <1>2, <1>3

-----------------------------------------------------------------------------
(* The array of structs *)

LEMMA FirstIsIn ==
  ASSUME NEW S \in SUBSET Nat, S # {}
  PROVE  First(S) \in S /\ \A j \in S : First(S) <= j
<1>1. IsWellFoundedOn(OpToRel(<, Nat), Nat)
  BY NatLessThanWellFounded
<1>2. \E x \in S : \A y \in S : <<y, x>> \notin OpToRel(<, Nat)
  BY <1>1, WFMin
<1>3. PICK x \in S : \A y \in S : ~(y < x)
  BY <1>2 DEF OpToRel
<1>4. \A y \in S : x <= y
  BY <1>3
<1>5. QED
  BY <1>4 DEF First

LEMMA FirstOfOne ==
  ASSUME NEW i \in Nat
  PROVE  First({i}) = i
BY FirstIsIn

\* The numbers of the structs and of those in use.
LEMMA ArrayFacts ==
  ASSUME Types
  PROVE  /\ Len(SpectatorFiles) \in Nat /\ Numbers = 1..Len(SpectatorFiles)
         /\ Numbers \subseteq Nat
         /\ InUse \subseteq Numbers /\ Holes \subseteq Numbers
         /\ SpectatorFiles \in [Numbers -> Struct]
         /\ IsFiniteSet(Numbers) /\ IsFiniteSet(InUse) /\ Cardinality(InUse) \in Nat
         /\ Cardinality(Numbers) = Len(SpectatorFiles)
         /\ Cardinality(InUse) <= Len(SpectatorFiles)
         /\ Cardinality(InUse) = Len(SpectatorFiles) => InUse = Numbers
<1>1. /\ Len(SpectatorFiles) \in Nat /\ Numbers = 1..Len(SpectatorFiles)
      /\ SpectatorFiles \in [Numbers -> Struct]
  BY LenProperties DEF Types, Numbers
<1>2. Numbers \subseteq Nat /\ InUse \subseteq Numbers /\ Holes \subseteq Numbers
  BY <1>1 DEF InUse, Holes
<1>3. IsFiniteSet(Numbers) /\ Cardinality(Numbers) = Len(SpectatorFiles)
  BY <1>1, FS_Interval
<1>4. QED
  BY <1>1, <1>2, <1>3, FS_Subset, FS_CardinalityType

\* One struct is changed.
LEMMA OneChanges ==
  ASSUME Types, NEW i \in Numbers, NEW t, StructOK(t),
         SpectatorFiles' = [SpectatorFiles EXCEPT ![i] = t]
  PROVE  /\ SpectatorFiles' \in Seq(Struct) /\ Numbers' = Numbers
         /\ Len(SpectatorFiles') = Len(SpectatorFiles)
         /\ SpectatorFiles'[i] = t
         /\ \A j \in Numbers : j # i => SpectatorFiles'[j] = SpectatorFiles[j]
         /\ \A j \in Numbers' : StructOK(SpectatorFiles'[j])
<1>1. t \in Struct
  BY DEF StructOK
<1>2. SpectatorFiles \in Seq(Struct) /\ \A j \in Numbers : StructOK(SpectatorFiles[j])
  BY DEF Types
<1>3. /\ SpectatorFiles' \in Seq(Struct) /\ Len(SpectatorFiles') = Len(SpectatorFiles)
      /\ i \in 1..Len(SpectatorFiles)
      /\ \A j \in 1..Len(SpectatorFiles) :
           SpectatorFiles'[j] = IF j = i THEN t ELSE SpectatorFiles[j]
  BY <1>1, <1>2, ExceptSeq, ArrayFacts
<1>4. Numbers' = Numbers
  BY <1>3, ArrayFacts, LenProperties DEF Numbers
<1>5. Numbers = 1..Len(SpectatorFiles)
  BY ArrayFacts
<1>6. QED
  BY <1>2, <1>3, <1>4, <1>5

\* Structs that keep their names leave the names of the array as they are.
LEMMA NamesStay ==
  ASSUME Numbers' = Numbers, \A j \in Numbers : SpectatorFiles'[j].name = SpectatorFiles[j].name
  PROVE  /\ InUse' = InUse /\ \A n \in Names : Named(n)' = Named(n)
<1>1. InUse' = InUse
  BY DEF InUse
<1>2. ASSUME NEW n \in Names PROVE Named(n)' = Named(n)
  BY DEF Named
<1>3. QED
  BY <1>1, <1>2

\* The struct of a spectator, found by its name.
LEMMA StructOfName ==
  ASSUME Types, NamesUnique, NEW n \in Names, Named(n) # {}
  PROVE  /\ Expressions[n] = "SPECTATOREXPRESSION"
         /\ First(Named(n)) \in Numbers /\ Named(n) = {First(Named(n))}
         /\ SpectatorFiles[First(Named(n))].name = n
         /\ First(Named(n)) \in InUse
<1>1. Expressions[n] = "SPECTATOREXPRESSION"
  BY DEF NamesUnique
<1>2. PICK i \in Numbers : Named(n) = {i}
  BY <1>1 DEF NamesUnique
<1>3. i \in Nat
  BY ArrayFacts
<1>4. First(Named(n)) = i
  BY <1>2, <1>3, FirstOfOne
<1>5. SpectatorFiles[i].name = n
  <2>1. i \in Named(n)
    BY <1>2
  <2>2. QED
    BY <2>1 DEF Named
<1>6. QED
  BY <1>1, <1>2, <1>4, <1>5, Sizes DEF InUse

LEMMA StructsByName ==
  ASSUME NamesUnique, NEW i \in Numbers, NEW j \in Numbers,
         SpectatorFiles[i].name \in Names, SpectatorFiles[i].name = SpectatorFiles[j].name
  PROVE  i = j
<1>1. i \in Named(SpectatorFiles[i].name) /\ j \in Named(SpectatorFiles[i].name)
  BY DEF Named
<1>2. QED
  BY <1>1 DEF NamesUnique

-----------------------------------------------------------------------------
(* Every action keeps the invariant *)

\* Before the definitions nothing is being sent or copied.
LEMMA NothingGoesOn ==
  ASSUME IInv, compiletype < DEFINITION
  PROVE  /\ tospectator = {} /\ copies = <<>> /\ copying = NotCopying
         /\ \A i \in Numbers : SpectatorFiles[i].POfill = 0 /\ ~Reads(SpectatorFiles[i])
<1>1. compiletype \in 0..EXECUTE
  BY DEF IInv, Types
<1>2. compiletype < STATEMENT /\ compiletype < EXECUTE
  BY <1>1 DEF DEFINITION, STATEMENT, EXECUTE
<1>3. QED
  BY <1>2 DEF IInv, StatementsInOrder

\* What is to be shown of a statement before the definitions, and of the end of a module.
LEMMA StaysQuiet ==
  ASSUME tospectator' = {}, copies' = <<>>, copying' = NotCopying,
         \A i \in Numbers' : SpectatorFiles'[i].POfill = 0 /\ ~Reads(SpectatorFiles'[i])
  PROVE  StatementsInOrder' /\ StatementsLead' /\ CopyIsRight'
<1>1. StatementsInOrder'
  BY DEF StatementsInOrder, Reads
<1>2. StatementsLead'
  BY DEF StatementsLead
<1>3. CopyIsRight'
  BY DEF CopyIsRight
<1>4. QED
  BY <1>1, <1>2, <1>3

LEMMA CreatedStruct ==
  ASSUME NEW n \in Names
  PROVE  [Clean EXCEPT !.name = n, !.position = 0] = [Clean EXCEPT !.name = n]
<1> DEFINE a == [Clean EXCEPT !.name = n, !.position = 0]
           b == [Clean EXCEPT !.name = n]
<1>1. Clean \in Struct /\ Clean.position = 0
  BY CleanIsOK DEF Clean, StructOK
<1>2. a \in Struct /\ b \in Struct
  BY <1>1 DEF Struct
<1>3. /\ a.name = b.name /\ a.open = b.open /\ a.file = b.file /\ a.PObuffer = b.PObuffer
      /\ a.POfill = b.POfill /\ a.position = b.position /\ a.readpos = b.readpos
      /\ a.flags = b.flags
  BY <1>1 DEF Struct
<1> HIDE DEF a, b
<1>4. a = b
  BY <1>2, <1>3 DEF Struct
<1>5. QED
  BY <1>4 DEF a, b

LEMMA CreateKeeps ==
  ASSUME IInv, NEW n \in Names, CoCreateSpectator(n)
  PROVE  IInv'
<1> DEFINE size == Len(SpectatorFiles)
           newsize == IF SpectatorFiles = <<>> THEN FirstSize ELSE 2 * Len(SpectatorFiles)
           grown == [i \in 1..newsize |-> IF i \in Numbers THEN SpectatorFiles[i] ELSE Clean]
           files == IF NumSpectatorFiles >= Len(SpectatorFiles) THEN grown ELSE SpectatorFiles
           specnum == IF NumSpectatorFiles >= Len(SpectatorFiles) THEN NumSpectatorFiles + 1
                      ELSE First(Holes)
           new == [Clean EXCEPT !.name = n]
<1>1. /\ Types /\ Contents /\ NamesUnique /\ CountIsRight /\ StatementsInOrder
      /\ \A i \in Numbers : StructOK(SpectatorFiles[i])
  BY DEF IInv, Types
<1>2. /\ outcome = "running" /\ compiletype <= DECLARATION /\ compiletype' = DECLARATION
      /\ Expressions[n] = "none"
      /\ Expressions' = [Expressions EXCEPT ![n] = "SPECTATOREXPRESSION"]
      /\ NumSpectatorFiles' = NumSpectatorFiles + 1
      /\ sent' = [sent EXCEPT ![n] = <<>>]
      /\ UNCHANGED <<tospectator, copies, copying, nterms, outcome>>
  BY DEF CoCreateSpectator, Statement
<1>3. SpectatorFiles' = [files EXCEPT ![specnum].name = n, ![specnum].position = 0]
  BY DEF CoCreateSpectator
<1>4. /\ size \in Nat /\ Numbers = 1..size /\ InUse \subseteq Numbers
      /\ Cardinality(InUse) \in Nat /\ NumSpectatorFiles = Cardinality(InUse)
      /\ NumSpectatorFiles <= size /\ IsFiniteSet(InUse)
      /\ NumSpectatorFiles = size => InUse = Numbers
      /\ SpectatorFiles \in Seq(Struct)
  BY <1>1, ArrayFacts DEF CountIsRight, Types
<1>5. /\ StructOK(Clean) /\ ~Reads(Clean) /\ Clean \in Struct /\ Clean.name = NoName
      /\ Clean.POfill = 0 /\ StructOK(new) /\ new \in Struct /\ ~Reads(new)
      /\ Words(new) = <<>> /\ new.name = n /\ new.POfill = 0
  BY CleanIsOK DEF Clean, StructOK
<1>6. /\ files \in Seq(Struct) /\ Len(files) \in Nat /\ size <= Len(files)
      /\ \A j \in 1..Len(files) : files[j] = IF j \in Numbers THEN SpectatorFiles[j] ELSE Clean
      /\ specnum \in 1..Len(files) /\ specnum \notin InUse
  <2>1. CASE NumSpectatorFiles >= size
    <3>1. newsize \in Nat /\ newsize > size
      <4>1. CASE SpectatorFiles = <<>>
        <5>1. size = 0
          BY <4>1, EmptySeq
        <5>2. QED
          BY <4>1, <5>1, Sizes
      <4>2. CASE SpectatorFiles # <<>>
        <5>1. size # 0
          BY <1>4, <4>2, EmptySeq
        <5>2. QED
          BY <1>4, <4>2, <5>1
      <4>3. QED
        BY <4>1, <4>2
    <3> HIDE DEF newsize
    <3>2. grown \in Seq(Struct) /\ Len(grown) = newsize
      <4>1. \A i \in 1..newsize : (IF i \in Numbers THEN SpectatorFiles[i] ELSE Clean) \in Struct
        BY <1>1, <1>5 DEF StructOK
      <4>2. grown \in [1..newsize -> Struct]
        BY <4>1
      <4>3. QED
        BY <3>1, <4>2, SeqDef, LenProperties
    <3>3. files = grown /\ specnum = size + 1
      BY <1>4, <2>1
    <3>4. \A j \in 1..newsize : grown[j] = IF j \in Numbers THEN SpectatorFiles[j] ELSE Clean
      OBVIOUS
    <3>5. QED
      BY <1>4, <3>1, <3>2, <3>3, <3>4
  <2>2. CASE ~(NumSpectatorFiles >= size)
    <3>1. files = SpectatorFiles /\ specnum = First(Holes)
      BY <2>2
    <3>2. InUse # Numbers
      <4>1. Cardinality(Numbers) = size
        BY <1>1, ArrayFacts
      <4>2. Cardinality(InUse) \in Nat /\ size \in Nat /\ Cardinality(InUse) # size
        BY <1>4, <2>2
      <4>3. QED
        BY <4>1, <4>2
    <3>3. Holes # {} /\ Holes \in SUBSET Nat
      <4>1. InUse \subseteq Numbers /\ Numbers \subseteq Nat
        BY <1>1, ArrayFacts
      <4>2. QED
        BY <3>2, <4>1 DEF Holes
    <3>4. specnum \in Holes
      BY <3>1, <3>3, FirstIsIn
    <3>5. QED
      BY <1>4, <3>1, <3>4 DEF Holes
  <2>3. QED
    BY <2>1, <2>2
<1> HIDE DEF files, specnum, new
<1>7. /\ Numbers \subseteq 1..Len(files) /\ files[specnum] = Clean
  <2>1. Numbers \subseteq 1..Len(files)
    BY <1>4, <1>6
  <2>2. specnum \in Numbers => SpectatorFiles[specnum] = Clean
    BY <1>1, <1>6 DEF InUse, StructOK
  <2>3. QED
    BY <1>6, <2>1, <2>2
<1>8. SpectatorFiles' = [files EXCEPT ![specnum] = new]
  <2>1. [Clean EXCEPT !.name = n, !.position = 0] = new
    BY CreatedStruct DEF new
  <2>2. SpectatorFiles' = [files EXCEPT ![specnum] = [files[specnum] EXCEPT !.name = n, !.position = 0]]
    BY <1>3
  <2>3. QED
    BY <1>7, <2>1, <2>2
<1>9. /\ SpectatorFiles' \in Seq(Struct) /\ Len(SpectatorFiles') = Len(files)
      /\ Numbers' = 1..Len(files)
      /\ SpectatorFiles'[specnum] = new
      /\ \A j \in 1..Len(files) : j # specnum => SpectatorFiles'[j] = files[j]
  <2>1. /\ SpectatorFiles' \in Seq(Struct) /\ Len(SpectatorFiles') = Len(files)
        /\ \A j \in 1..Len(files) : SpectatorFiles'[j] = IF j = specnum THEN new ELSE files[j]
    BY <1>5, <1>6, <1>8, ExceptSeq
  <2>2. Numbers' = 1..Len(files)
    BY <2>1, LenProperties DEF Numbers
  <2>3. QED
    BY <1>6, <2>1, <2>2
<1>10. \A j \in Numbers' : \/ j = specnum
                           \/ j # specnum /\ j \in Numbers /\ SpectatorFiles'[j] = SpectatorFiles[j]
                           \/ j # specnum /\ j \notin Numbers /\ SpectatorFiles'[j] = Clean
  BY <1>6, <1>9
<1>11. /\ \A i \in Numbers' : SpectatorFiles'[i].POfill = 0 /\ ~Reads(SpectatorFiles'[i])
                             /\ StructOK(SpectatorFiles'[i])
       /\ tospectator' = {} /\ copies' = <<>> /\ copying' = NotCopying
  <2>1. compiletype < DEFINITION
    BY <1>1, <1>2 DEF DECLARATION, DEFINITION, EXECUTE, Types
  <2>2. /\ \A i \in Numbers : SpectatorFiles[i].POfill = 0 /\ ~Reads(SpectatorFiles[i])
        /\ tospectator = {} /\ copies = <<>> /\ copying = NotCopying
    BY <2>1, NothingGoesOn
  <2>3. QED
    BY <1>1, <1>2, <1>5, <1>9, <1>10, <2>2
<1>12. InUse' = InUse \cup {specnum}
  <2>1. InUse' = {i \in Numbers' : SpectatorFiles'[i].name # NoName}
    BY DEF InUse
  <2>2. n # NoName
    BY Sizes
  <2>3. specnum \in Numbers' /\ Numbers \subseteq Numbers'
    BY <1>6, <1>7, <1>9
  <2>4. QED
    BY <1>5, <1>9, <1>10, <2>1, <2>2, <2>3 DEF InUse
<1>13. Named(n) = {}
  BY <1>1, <1>2 DEF NamesUnique
<1>14. \A m \in Names : Named(m)' = IF m = n THEN {specnum} ELSE Named(m)
  <2>1. ASSUME NEW m \in Names PROVE Named(m)' = IF m = n THEN {specnum} ELSE Named(m)
    <3>1. Named(m)' = {i \in Numbers' : SpectatorFiles'[i].name = m}
      BY DEF Named
    <3>2. m # NoName
      BY Sizes
    <3>3. specnum \in Numbers' /\ Numbers \subseteq Numbers'
      BY <1>6, <1>7, <1>9
    <3>4. specnum \notin Named(m)
      <4>1. specnum \in Named(m) => specnum \in InUse
        BY <3>2 DEF Named, InUse
      <4>2. QED
        BY <1>6, <4>1
    <3>5. \A i \in Numbers' : SpectatorFiles'[i].name = m <=> (i = specnum /\ m = n) \/ i \in Named(m)
      BY <1>5, <1>9, <1>10, <3>2, <3>4 DEF Named
    <3>6. Named(m) \subseteq Numbers'
      BY <3>3 DEF Named
    <3>7. QED
      BY <1>13, <3>1, <3>3, <3>5, <3>6
  <2>2. QED
    BY <2>1
<1>15. Types'
  <2>1. <<>> \in Seq(AllTerms)
    BY EmptySeq
  <2>2. sent' \in [Names -> Seq(AllTerms)]
    BY <1>1, <1>2, <2>1 DEF Types
  <2>3. /\ Expressions' \in [Names -> {"none", "SPECTATOREXPRESSION", "DROPSPECTATOREXPRESSION"}]
        /\ compiletype' \in 0..EXECUTE /\ NumSpectatorFiles' \in Nat
    BY <1>1, <1>2, <1>4 DEF Types, DECLARATION, EXECUTE
  <2>4. QED
    BY <1>1, <1>2, <1>9, <1>11, <2>2, <2>3 DEF Types
<1>16. Contents'
  <2>1. ASSUME NEW i \in InUse'
        PROVE  AreWordsOf(Words(SpectatorFiles'[i]), sent'[SpectatorFiles'[i].name])
    <3>1. CASE i = specnum
      BY <1>1, <1>2, <1>5, <1>9, <3>1, NothingSent DEF Types
    <3>2. CASE i # specnum
      <4>1. i \in InUse /\ i \in Numbers /\ SpectatorFiles'[i] = SpectatorFiles[i]
        BY <1>4, <1>6, <1>7, <1>9, <1>12, <3>2
      <4>2. SpectatorFiles[i].name \in Names /\ SpectatorFiles[i].name # n
        <5>1. SpectatorFiles[i].name \in Names
          BY <1>1, <4>1, StructFacts DEF InUse
        <5>2. QED
          BY <1>13, <4>1, <5>1 DEF Named
      <4>3. AreWordsOf(Words(SpectatorFiles[i]), sent[SpectatorFiles[i].name])
        BY <1>1, <4>1 DEF Contents
      <4>4. sent'[SpectatorFiles[i].name] = sent[SpectatorFiles[i].name]
        BY <1>1, <1>2, <4>2 DEF Types
      <4>5. QED
        BY <4>1, <4>3, <4>4
    <3>3. QED
      BY <3>1, <3>2
  <2>2. QED
    BY <2>1 DEF Contents
<1>17. NamesUnique'
  BY <1>1, <1>2, <1>6, <1>7, <1>9, <1>14 DEF NamesUnique, Types
<1>18. CountIsRight'
  BY <1>2, <1>4, <1>6, <1>12, FS_AddElement DEF CountIsRight
<1>19. StatementsInOrder' /\ StatementsLead' /\ CopyIsRight'
  BY <1>2, <1>11, StaysQuiet
<1>20. QED
  BY <1>15, <1>16, <1>17, <1>18, <1>19 DEF IInv

\* One struct is changed, keeps its name, and still has the terms that were sent.
LEMMA SpectatorChanges ==
  ASSUME IInv, NEW i \in InUse, NEW t, StructOK(t), t.name = SpectatorFiles[i].name,
         SpectatorFiles' = [SpectatorFiles EXCEPT ![i] = t],
         AreWordsOf(Words(t), sent'[t.name]),
         \A m \in Names : m # t.name => sent'[m] = sent[m],
         UNCHANGED <<NumSpectatorFiles, Expressions>>
  PROVE  /\ SpectatorFiles' \in Seq(Struct) /\ Numbers' = Numbers /\ SpectatorFiles'[i] = t
         /\ \A j \in Numbers : j # i => SpectatorFiles'[j] = SpectatorFiles[j]
         /\ \A j \in Numbers' : StructOK(SpectatorFiles'[j])
         /\ \A j \in Numbers : SpectatorFiles'[j].name = SpectatorFiles[j].name
         /\ Contents' /\ NamesUnique' /\ CountIsRight'
<1>1. Types /\ Contents /\ NamesUnique /\ CountIsRight /\ i \in Numbers
  BY DEF IInv, InUse
<1>2. /\ SpectatorFiles' \in Seq(Struct) /\ Numbers' = Numbers /\ SpectatorFiles'[i] = t
      /\ \A j \in Numbers : j # i => SpectatorFiles'[j] = SpectatorFiles[j]
      /\ \A j \in Numbers' : StructOK(SpectatorFiles'[j])
  BY <1>1, OneChanges
<1>3. \A j \in Numbers : SpectatorFiles'[j].name = SpectatorFiles[j].name
  BY <1>2
<1>4. InUse' = InUse /\ \A n \in Names : Named(n)' = Named(n)
  BY <1>2, <1>3, NamesStay
<1>5. ASSUME NEW j \in InUse'
      PROVE  AreWordsOf(Words(SpectatorFiles'[j]), sent'[SpectatorFiles'[j].name])
  <2>1. CASE j = i
    BY <1>2, <2>1
  <2>2. CASE j # i
    <3>1. j \in InUse /\ j \in Numbers /\ SpectatorFiles'[j] = SpectatorFiles[j]
      BY <1>2, <1>4, <2>2 DEF InUse
    <3>2. SpectatorFiles[j].name \in Names
      <4>1. StructOK(SpectatorFiles[j]) /\ SpectatorFiles[j].name # NoName
        BY <1>1, <3>1 DEF Types, InUse
      <4>2. QED
        BY <4>1, StructFacts
    <3>3. SpectatorFiles[j].name # t.name
      BY <1>1, <2>2, <3>1, <3>2, StructsByName
    <3>4. AreWordsOf(Words(SpectatorFiles[j]), sent[SpectatorFiles[j].name])
      BY <1>1, <3>1 DEF Contents
    <3>5. sent'[SpectatorFiles[j].name] = sent[SpectatorFiles[j].name]
      BY <3>2, <3>3
    <3>6. QED
      BY <3>1, <3>4, <3>5
  <2>3. QED
    BY <2>1, <2>2
<1>6. Contents'
  BY <1>5 DEF Contents
<1>7. NamesUnique'
  BY <1>1, <1>2, <1>4 DEF NamesUnique
<1>8. CountIsRight'
  BY <1>1, <1>4 DEF CountIsRight
<1>9. QED
  BY <1>2, <1>3, <1>6, <1>7, <1>8

LEMMA RemoveKeeps ==
  ASSUME IInv, NEW n \in Names, CoRemoveSpectator(n)
  PROVE  IInv'
<1> DEFINE i == First(Named(n))
<1>1. /\ Types /\ Contents /\ NamesUnique /\ CountIsRight
      /\ \A j \in Numbers : StructOK(SpectatorFiles[j])
  BY DEF IInv, Types
<1>2. /\ outcome = "running" /\ compiletype <= SPECIFICATION /\ compiletype' = SPECIFICATION
      /\ Named(n) # {}
      /\ Expressions' = [Expressions EXCEPT ![n] = "DROPSPECTATOREXPRESSION"]
      /\ SpectatorFiles' = [SpectatorFiles EXCEPT ![i] = Clean]
      /\ NumSpectatorFiles' = NumSpectatorFiles - 1
      /\ UNCHANGED <<tospectator, copies, copying, nterms, outcome, sent>>
  BY DEF CoRemoveSpectator, Statement, LowerCount
<1>3. i \in Numbers /\ i \in InUse /\ Named(n) = {i} /\ SpectatorFiles[i].name = n
  BY <1>1, <1>2, StructOfName
<1> HIDE DEF i
<1>4. StructOK(Clean) /\ ~Reads(Clean) /\ Clean.name = NoName /\ Clean.POfill = 0
  BY CleanIsOK DEF Clean
<1>5. /\ SpectatorFiles' \in Seq(Struct) /\ Numbers' = Numbers /\ SpectatorFiles'[i] = Clean
      /\ \A j \in Numbers : j # i => SpectatorFiles'[j] = SpectatorFiles[j]
      /\ \A j \in Numbers' : StructOK(SpectatorFiles'[j])
  BY <1>1, <1>2, <1>3, <1>4, OneChanges
<1>6. /\ \A j \in Numbers' : SpectatorFiles'[j].POfill = 0 /\ ~Reads(SpectatorFiles'[j])
      /\ tospectator' = {} /\ copies' = <<>> /\ copying' = NotCopying
  <2>1. compiletype < DEFINITION
    BY <1>1, <1>2 DEF SPECIFICATION, DEFINITION, EXECUTE, Types
  <2>2. /\ \A j \in Numbers : SpectatorFiles[j].POfill = 0 /\ ~Reads(SpectatorFiles[j])
        /\ tospectator = {} /\ copies = <<>> /\ copying = NotCopying
    BY <2>1, NothingGoesOn
  <2>3. \A j \in Numbers : SpectatorFiles'[j].POfill = 0 /\ ~Reads(SpectatorFiles'[j])
    BY <1>4, <1>5, <2>2
  <2>4. QED
    BY <1>2, <1>5, <2>2, <2>3
<1>7. InUse' = InUse \ {i}
  BY <1>3, <1>4, <1>5 DEF InUse
<1>8. \A m \in Names : Named(m)' = Named(m) \ {i}
  <2>1. ASSUME NEW m \in Names PROVE Named(m)' = Named(m) \ {i}
    <3>1. m # NoName
      BY Sizes
    <3>2. QED
      BY <1>3, <1>4, <1>5, <3>1 DEF Named
  <2>2. QED
    BY <2>1
<1>9. \A m \in Names : m # n => i \notin Named(m)
  BY <1>3 DEF Named
<1>10. IsFiniteSet(InUse) /\ Cardinality(InUse) \in Nat
  BY <1>1, ArrayFacts
<1>11. Cardinality(InUse') = Cardinality(InUse) - 1
  BY <1>3, <1>7, <1>10, FS_RemoveElement
<1>12. Types'
  <2>1. /\ Expressions' \in [Names -> {"none", "SPECTATOREXPRESSION", "DROPSPECTATOREXPRESSION"}]
        /\ compiletype' \in 0..EXECUTE
    BY <1>1, <1>2 DEF Types, SPECIFICATION, EXECUTE
  <2>2. NumSpectatorFiles' \in Nat
    <3>1. IsFiniteSet(InUse')
      BY <1>7, <1>10, FS_RemoveElement
    <3>2. Cardinality(InUse') \in Nat
      BY <3>1, FS_CardinalityType
    <3>3. NumSpectatorFiles' = Cardinality(InUse')
      BY <1>1, <1>2, <1>11 DEF CountIsRight
    <3>4. QED
      BY <3>2, <3>3
  <2>3. QED
    BY <1>1, <1>2, <1>5, <1>6, <2>1, <2>2 DEF Types
<1>13. Contents'
  <2>1. ASSUME NEW j \in InUse'
        PROVE  AreWordsOf(Words(SpectatorFiles'[j]), sent'[SpectatorFiles'[j].name])
    BY <1>1, <1>2, <1>5, <1>7 DEF Contents, InUse
  <2>2. QED
    BY <2>1 DEF Contents
<1>14. NamesUnique'
  <2>1. ASSUME NEW m \in Names
        PROVE  IF Expressions'[m] = "SPECTATOREXPRESSION"
               THEN \E j \in Numbers' : Named(m)' = {j} ELSE Named(m)' = {}
    <3>1. CASE m = n
      <4>1. Expressions'[m] # "SPECTATOREXPRESSION"
        BY <1>1, <1>2, <3>1 DEF Types
      <4>2. Named(m)' = {}
        BY <1>3, <1>8, <3>1
      <4>3. QED
        BY <4>1, <4>2
    <3>2. CASE m # n
      <4>3. Expressions'[m] = Expressions[m]
        BY <1>1, <1>2, <3>2 DEF Types
      <4>4. i \notin Named(m) /\ Named(m)' = Named(m) \ {i}
        BY <1>8, <1>9, <3>2
      <4>1. Expressions'[m] = Expressions[m] /\ Named(m)' = Named(m)
        BY <4>3, <4>4
      <4>2. QED
        BY <1>1, <1>5, <4>1 DEF NamesUnique
    <3>3. QED
      BY <3>1, <3>2
  <2>2. QED
    BY <2>1 DEF NamesUnique
<1>15. CountIsRight'
  BY <1>1, <1>2, <1>11 DEF CountIsRight
<1>16. StatementsInOrder' /\ StatementsLead' /\ CopyIsRight'
  BY <1>2, <1>6, StaysQuiet
<1>17. QED
  BY <1>12, <1>13, <1>14, <1>15, <1>16 DEF IInv

LEMMA BeforeDefinitions ==
  ASSUME Types, compiletype <= SPECIFICATION, compiletype' = SPECIFICATION
  PROVE  compiletype < DEFINITION /\ compiletype' \in 0..EXECUTE
<1>1. compiletype \in 0..EXECUTE
  BY DEF Types
<1>2. compiletype < DEFINITION
  BY <1>1 DEF SPECIFICATION, DEFINITION, EXECUTE
<1>3. compiletype' \in 0..EXECUTE
  BY DEF SPECIFICATION, EXECUTE
<1>4. QED
  BY <1>2, <1>3

LEMMA EmptiedIsOK ==
  ASSUME NEW s, StructOK(s), ~Reads(s), s.name \in Names
  PROVE  /\ StructOK(Emptied(s)) /\ Emptied(s).name = s.name /\ ~Reads(Emptied(s))
         /\ Emptied(s).POfill = 0 /\ Words(Emptied(s)) = <<>>
<1> DEFINE c == [Clean EXCEPT !.name = s.name]
           e == [Clean EXCEPT !.name = s.name, !.flags = s.flags]
<1>1. /\ StructOK(c) /\ ~Reads(c) /\ Words(c) = <<>>
  BY CleanIsOK
<1>2. s.flags = {} /\ Clean.flags = {} /\ Clean \in Struct /\ Clean.POfill = 0
  BY CleanIsOK DEF Clean, StructOK, Reads
<1>3. c = e
  <2>1. c \in Struct /\ e \in Struct
    BY <1>2 DEF Struct
  <2>2. /\ c.name = e.name /\ c.open = e.open /\ c.file = e.file /\ c.PObuffer = e.PObuffer
        /\ c.POfill = e.POfill /\ c.position = e.position /\ c.readpos = e.readpos
        /\ c.flags = e.flags
    BY <1>2 DEF Struct
  <2> HIDE DEF c, e
  <2>3. QED
    BY <2>1, <2>2 DEF Struct
<1>4. c.name = s.name /\ c.POfill = 0
  BY <1>2 DEF Struct
<1> HIDE DEF c
<1>5. QED
  BY <1>1, <1>3, <1>4 DEF Emptied

LEMMA EmptyKeeps ==
  ASSUME IInv, NEW n \in Names, CoEmptySpectator(n)
  PROVE  IInv'
<1> DEFINE i == First(Named(n))
           t == Emptied(SpectatorFiles[i])
<1>1. /\ Types /\ Contents /\ NamesUnique /\ CountIsRight
      /\ \A j \in Numbers : StructOK(SpectatorFiles[j])
  BY DEF IInv, Types
<1>2. /\ outcome = "running" /\ compiletype <= SPECIFICATION /\ compiletype' = SPECIFICATION
      /\ Named(n) # {}
      /\ UNCHANGED <<NumSpectatorFiles, Expressions, tospectator, copies, copying, nterms>>
      /\ \/ outcome' = "null name" /\ UNCHANGED <<SpectatorFiles, sent>>
         \/ /\ SpectatorFiles' = [SpectatorFiles EXCEPT ![i] = t]
            /\ sent' = [sent EXCEPT ![n] = <<>>] /\ outcome' = outcome
  BY DEF CoEmptySpectator, Statement
<1>9. compiletype <= SPECIFICATION /\ compiletype' = SPECIFICATION
  BY <1>2
<1>10. outcome = "running" /\ (outcome' = "null name" \/ outcome' = outcome)
  BY <1>2
<1>3. i \in Numbers /\ i \in InUse /\ SpectatorFiles[i].name = n
  BY <1>1, <1>2, StructOfName
<1> HIDE DEF t, i
<1>4. /\ \A j \in Numbers : SpectatorFiles[j].POfill = 0 /\ ~Reads(SpectatorFiles[j])
      /\ tospectator = {} /\ copies = <<>> /\ copying = NotCopying
  <2>1. compiletype < DEFINITION
    BY <1>1, <1>9, BeforeDefinitions
  <2>2. QED
    BY <2>1, NothingGoesOn
<1>5. compiletype' \in 0..EXECUTE /\ outcome' \in {"running", "null name"}
  BY <1>1, <1>9, <1>10, BeforeDefinitions
<1>6. CASE outcome' = "null name" /\ UNCHANGED <<SpectatorFiles, sent>>
  <2>1. Numbers' = Numbers
    BY <1>6 DEF Numbers
  <2>2. InUse' = InUse /\ \A m \in Names : Named(m)' = Named(m)
    BY <1>6, <2>1, NamesStay
  <2>3. Types' /\ Contents' /\ NamesUnique' /\ CountIsRight'
    BY <1>1, <1>2, <1>5, <1>6, <2>1, <2>2 DEF Types, Contents, NamesUnique, CountIsRight
  <2>4. StatementsInOrder' /\ StatementsLead' /\ CopyIsRight'
    BY <1>2, <1>4, <1>6, <2>1, StaysQuiet
  <2>5. QED
    BY <2>3, <2>4 DEF IInv
<1>7. CASE /\ SpectatorFiles' = [SpectatorFiles EXCEPT ![i] = t]
           /\ sent' = [sent EXCEPT ![n] = <<>>] /\ outcome' = outcome
  <2>1. /\ StructOK(t) /\ t.name = n /\ ~Reads(t) /\ t.POfill = 0 /\ Words(t) = <<>>
    BY <1>1, <1>3, <1>4, EmptiedIsOK, Sizes DEF t
  <2>2. sent'[n] = <<>> /\ \A m \in Names : m # n => sent'[m] = sent[m]
    BY <1>1, <1>7 DEF Types
  <2>3. AreWordsOf(Words(t), sent'[t.name])
    BY <2>1, <2>2, NothingSent
  <2>4. /\ SpectatorFiles' \in Seq(Struct) /\ Numbers' = Numbers /\ SpectatorFiles'[i] = t
        /\ \A j \in Numbers : j # i => SpectatorFiles'[j] = SpectatorFiles[j]
        /\ \A j \in Numbers' : StructOK(SpectatorFiles'[j])
        /\ Contents' /\ NamesUnique' /\ CountIsRight'
    BY <1>2, <1>3, <1>7, <2>1, <2>2, <2>3, SpectatorChanges
  <2>5. Types'
    <3>1. <<>> \in Seq(AllTerms)
      BY EmptySeq
    <3>2. sent' \in [Names -> Seq(AllTerms)]
      BY <1>1, <1>7, <3>1 DEF Types
    <3>3. QED
      BY <1>1, <1>2, <1>4, <1>5, <2>4, <3>2 DEF Types
  <2>6. StatementsInOrder' /\ StatementsLead' /\ CopyIsRight'
    <3>1. \A j \in Numbers' : SpectatorFiles'[j].POfill = 0 /\ ~Reads(SpectatorFiles'[j])
      BY <1>4, <2>1, <2>4
    <3>2. QED
      BY <1>2, <1>4, <3>1, StaysQuiet
  <2>7. QED
    BY <2>4, <2>5, <2>6 DEF IInv
<1>8. QED
  BY <1>2, <1>6, <1>7

LEMMA CopyStatementKeeps ==
  ASSUME IInv, NEW n \in Names, CoCopySpectator(n)
  PROVE  IInv'
<1> DEFINE i == First(Named(n))
           s == SpectatorFiles[i]
           t == [s EXCEPT !.flags = @ \cup READSPECTATORFLAG, !.readpos = 0, !.POfill = 0]
           new == [name |-> n, spectator |-> i]
<1>1. /\ Types /\ Contents /\ NamesUnique /\ CountIsRight /\ StatementsInOrder
      /\ StatementsLead /\ \A j \in Numbers : StructOK(SpectatorFiles[j])
  BY DEF IInv, Types
<1>2. /\ compiletype <= DEFINITION /\ compiletype' = DEFINITION /\ Named(n) # {}
      /\ UNCHANGED <<NumSpectatorFiles, Expressions, tospectator, copying, nterms, outcome, sent>>
  BY DEF CoCopySpectator, Statement
<1>3. /\ SpectatorFiles' = [SpectatorFiles EXCEPT ![i].flags = @ \cup READSPECTATORFLAG,
                                                  ![i].readpos = 0, ![i].POfill = 0]
      /\ copies' = Append(copies, new)
  BY DEF CoCopySpectator
<1>4. i \in Numbers /\ i \in InUse /\ SpectatorFiles[i].name = n
  BY <1>1, <1>2, StructOfName
<1> HIDE DEF i
<1>5. SpectatorFiles' = [SpectatorFiles EXCEPT ![i] = t]
  <2>1. SpectatorFiles \in [Numbers -> Struct]
    BY <1>1, ArrayFacts
  <2>2. QED
    BY <1>3, <1>4, <2>1
<1>6. /\ compiletype < STATEMENT /\ compiletype < EXECUTE /\ compiletype' \in 0..EXECUTE
  <2>1. compiletype \in 0..EXECUTE
    BY <1>1 DEF Types
  <2>2. QED
    BY <1>2, <2>1 DEF DEFINITION, STATEMENT, EXECUTE
<1>7. /\ \A j \in Numbers : SpectatorFiles[j].POfill = 0
      /\ tospectator = {} /\ copying = NotCopying
  BY <1>1, <1>6 DEF StatementsInOrder
<1>8. /\ s \in Struct /\ s.file \in Seq(Word) /\ s.PObuffer \in Seq(Word) /\ s.POfill = 0
      /\ s.flags \subseteq {1, 2} /\ StructOK(s) /\ s.name = n /\ n # NoName
      /\ Len(s.file) \in Nat /\ Len(s.PObuffer) \in Nat
  BY <1>1, <1>4, <1>7, StructFacts, Sizes
<1> HIDE DEF s
<1>9. /\ t.name = s.name /\ t.flags = s.flags \cup READSPECTATORFLAG /\ t.file = s.file
      /\ t.open = s.open /\ t.PObuffer = s.PObuffer /\ t.POfill = 0 /\ t.readpos = 0
      /\ t.position = s.position
  BY <1>8 DEF Struct
<1>10. t \in Struct
  BY <1>8 DEF Struct, READSPECTATORFLAG
<1> HIDE DEF t
<1>11. StructOK(t) /\ Reads(t)
  BY <1>8, <1>9, <1>10 DEF StructOK, Reads, READSPECTATORFLAG
<1>12. Words(t) = Words(s)
  <2>1. SubSeq(s.PObuffer, 1, s.POfill) = <<>>
    BY <1>8, SubSeqEmpty
  <2>2. s.file \o <<>> = s.file
    BY <1>8, ConcatEmptySeq
  <2>3. QED
    BY <1>9, <1>11, <2>1, <2>2 DEF Words
<1>13. AreWordsOf(Words(t), sent'[t.name])
  BY <1>1, <1>2, <1>4, <1>8, <1>9, <1>12 DEF Contents, s
<1>14. /\ SpectatorFiles' \in Seq(Struct) /\ Numbers' = Numbers /\ SpectatorFiles'[i] = t
       /\ \A j \in Numbers : j # i => SpectatorFiles'[j] = SpectatorFiles[j]
       /\ \A j \in Numbers' : StructOK(SpectatorFiles'[j])
       /\ \A j \in Numbers : SpectatorFiles'[j].name = SpectatorFiles[j].name
       /\ Contents' /\ NamesUnique' /\ CountIsRight'
  BY <1>2, <1>4, <1>5, <1>8, <1>9, <1>11, <1>13, SpectatorChanges
<1>15. /\ copies' \in Seq([name : Names, spectator : Nat]) /\ Len(copies) \in Nat
       /\ Len(copies') = Len(copies) + 1
       /\ \A j \in 1..Len(copies) : copies'[j] = copies[j]
       /\ copies'[Len(copies) + 1] = new
       /\ DOMAIN copies' = 1..Len(copies) + 1 /\ DOMAIN copies = 1..Len(copies)
  <2>1. new \in [name : Names, spectator : Nat]
    BY <1>1, <1>4, ArrayFacts
  <2> HIDE DEF new
  <2>2. copies \in Seq([name : Names, spectator : Nat])
    BY <1>1 DEF Types
  <2>3. QED
    BY <1>3, <2>1, <2>2, AppendProperties, LenProperties
<1>16. Types'
  BY <1>1, <1>2, <1>6, <1>14, <1>15 DEF Types
<1>17. StatementsInOrder'
  <2>1. \A j \in Numbers' : SpectatorFiles'[j].POfill = 0
    BY <1>7, <1>9, <1>14
  <2>2. ~(compiletype' < DEFINITION)
    BY <1>2 DEF DEFINITION
  <2>3. tospectator' = {} /\ copying' = NotCopying
    BY <1>2, <1>7
  <2>4. QED
    BY <2>1, <2>2, <2>3 DEF StatementsInOrder
<1>18. StatementsLead'
  <2>1. ASSUME NEW j \in DOMAIN copies'
        PROVE  /\ copies'[j].spectator \in Numbers'
               /\ SpectatorFiles'[copies'[j].spectator].name = copies'[j].name
               /\ Reads(SpectatorFiles'[copies'[j].spectator])
    <3>1. CASE j \in 1..Len(copies)
      <4>1. /\ copies[j].spectator \in Numbers
            /\ SpectatorFiles[copies[j].spectator].name = copies[j].name
            /\ Reads(SpectatorFiles[copies[j].spectator])
        BY <1>1, <1>15, <3>1 DEF StatementsLead, Leads
      <4>2. copies'[j] = copies[j]
        BY <1>15, <3>1
      <4>3. QED
        BY <1>11, <1>14, <4>1, <4>2
    <3>2. CASE j = Len(copies) + 1
      BY <1>4, <1>8, <1>9, <1>11, <1>14, <1>15, <3>2
    <3>3. QED
      BY <1>15, <3>1, <3>2
  <2>2. tospectator' = {} /\ copying' = NotCopying
    BY <1>2, <1>7
  <2>3. QED
    BY <2>1, <2>2 DEF StatementsLead, Leads
<1>19. CopyIsRight'
  BY <1>2, <1>7 DEF CopyIsRight
<1>20. QED
  BY <1>14, <1>16, <1>17, <1>18, <1>19 DEF IInv

\* Steps that leave the structs and what was sent as they are.
LEMMA ArrayStays ==
  ASSUME IInv, UNCHANGED <<SpectatorFiles, NumSpectatorFiles, Expressions, sent>>
  PROVE  /\ Numbers' = Numbers /\ Contents' /\ NamesUnique' /\ CountIsRight'
         /\ \A j \in Numbers' : StructOK(SpectatorFiles'[j])
<1>1. Numbers' = Numbers
  BY DEF Numbers
<1>2. InUse' = InUse /\ \A n \in Names : Named(n)' = Named(n)
  BY <1>1, NamesStay
<1>3. Contents /\ NamesUnique /\ CountIsRight /\ Types
  BY DEF IInv
<1>4. Contents'
  BY <1>2, <1>3 DEF Contents
<1>5. NamesUnique' /\ CountIsRight'
  BY <1>1, <1>2, <1>3 DEF NamesUnique, CountIsRight
<1>6. QED
  BY <1>1, <1>3, <1>4, <1>5 DEF Types

LEMMA SendStatementKeeps ==
  ASSUME IInv, NEW n \in Names, CoToSpectator(n)
  PROVE  IInv'
<1> DEFINE i == First(Named(n))
           new == [name |-> n, spectator |-> i]
<1>1. /\ Types /\ NamesUnique /\ StatementsInOrder /\ StatementsLead /\ CopyIsRight
      /\ \A j \in Numbers : StructOK(SpectatorFiles[j])
  BY DEF IInv, Types
<1>2. /\ compiletype <= STATEMENT /\ compiletype' = STATEMENT /\ Named(n) # {}
      /\ ~Reading(i) /\ tospectator' = tospectator \cup {new}
      /\ UNCHANGED <<SpectatorFiles, NumSpectatorFiles, Expressions, copies, copying, nterms,
                     outcome, sent>>
  BY DEF CoToSpectator, Statement, MayWrite, spectatorvars
<1>3. i \in Numbers /\ i \in InUse /\ SpectatorFiles[i].name = n /\ i \in Nat
  BY <1>1, <1>2, StructOfName, ArrayFacts
<1>4. ~Reads(SpectatorFiles[i])
  BY <1>1, <1>2, <1>3, StructFacts DEF Reading
<1> HIDE DEF i
<1>5. /\ Numbers' = Numbers /\ Contents' /\ NamesUnique' /\ CountIsRight'
      /\ \A j \in Numbers' : StructOK(SpectatorFiles'[j])
  BY <1>2, ArrayStays
<1>6. /\ compiletype < EXECUTE /\ compiletype' \in 0..EXECUTE
      /\ ~(compiletype' < DEFINITION) /\ ~(compiletype' < STATEMENT)
  <2>1. compiletype \in 0..EXECUTE
    BY <1>1 DEF Types
  <2>2. QED
    BY <1>2, <2>1 DEF DEFINITION, STATEMENT, EXECUTE
<1>7. Types'
  <2>1. new \in [name : Names, spectator : Nat]
    BY <1>3
  <2>2. tospectator' \subseteq [name : Names, spectator : Nat]
    BY <1>1, <1>2, <2>1 DEF Types
  <2>3. QED
    BY <1>1, <1>2, <1>5, <1>6, <2>2 DEF Types
<1>8. StatementsInOrder'
  <2>1. (\A j \in Numbers : SpectatorFiles[j].POfill = 0) /\ copying = NotCopying
    BY <1>1, <1>6 DEF StatementsInOrder
  <2>2. QED
    BY <1>2, <1>5, <1>6, <2>1 DEF StatementsInOrder
<1>9. StatementsLead'
  <2>1. ASSUME NEW to \in tospectator'
        PROVE  /\ to.spectator \in Numbers /\ SpectatorFiles[to.spectator].name = to.name
               /\ ~Reads(SpectatorFiles[to.spectator])
    <3>1. CASE to \in tospectator
      BY <1>1, <3>1 DEF StatementsLead, Leads
    <3>2. CASE to = new
      BY <1>3, <1>4, <3>2
    <3>3. QED
      BY <1>2, <3>1, <3>2
  <2>2. QED
    BY <1>1, <1>2, <1>5, <2>1 DEF StatementsLead, Leads
<1>10. CopyIsRight'
  BY <1>1, <1>2 DEF CopyIsRight
<1>11. QED
  BY <1>5, <1>7, <1>8, <1>9, <1>10 DEF IInv

\* The module begins to run.
LEMMA ExecuteKeeps ==
  ASSUME IInv, Execute
  PROVE  IInv'
<1>1. Types /\ StatementsLead /\ CopyIsRight
  BY DEF IInv
<1>2. /\ compiletype' = EXECUTE
      /\ UNCHANGED <<SpectatorFiles, NumSpectatorFiles, Expressions, tospectator, copies,
                     copying, nterms, outcome, sent>>
  BY DEF Execute, Statement, spectatorvars
<1>3. /\ Numbers' = Numbers /\ Contents' /\ NamesUnique' /\ CountIsRight'
      /\ \A j \in Numbers' : StructOK(SpectatorFiles'[j])
  BY <1>2, ArrayStays
<1>4. compiletype' \in 0..EXECUTE /\ StatementsInOrder'
  BY <1>2 DEF StatementsInOrder, DEFINITION, STATEMENT, EXECUTE
<1>5. Types'
  BY <1>1, <1>2, <1>3, <1>4 DEF Types
<1>6. StatementsLead' /\ CopyIsRight'
  BY <1>1, <1>2, <1>3 DEF StatementsLead, Leads, CopyIsRight
<1>7. QED
  BY <1>3, <1>4, <1>5, <1>6 DEF IInv

LEMMA EndCopyKeeps ==
  ASSUME IInv, EndCopy
  PROVE  IInv'
<1>1. Types /\ StatementsInOrder /\ StatementsLead
  BY DEF IInv
<1>2. /\ copying' = NotCopying
      /\ UNCHANGED <<SpectatorFiles, NumSpectatorFiles, Expressions, compiletype, tospectator,
                     copies, nterms, outcome, sent>>
  BY DEF EndCopy, spectatorvars
<1>3. /\ Numbers' = Numbers /\ Contents' /\ NamesUnique' /\ CountIsRight'
      /\ \A j \in Numbers' : StructOK(SpectatorFiles'[j])
  BY <1>2, ArrayStays
<1>4. NotCopying \in [name : Names \cup {NoName}, spectator : Nat, got : Seq(Seq(Word)),
                      atend : BOOLEAN]
  <2>1. <<>> \in Seq(Seq(Word))
    BY EmptySeq
  <2>2. QED
    BY <2>1 DEF NotCopying
<1>5. Types'
  BY <1>1, <1>2, <1>3, <1>4 DEF Types
<1>6. StatementsInOrder' /\ StatementsLead' /\ CopyIsRight'
  BY <1>1, <1>2, <1>3 DEF StatementsInOrder, StatementsLead, Leads, CopyIsRight
<1>7. QED
  BY <1>3, <1>5, <1>6 DEF IInv

LEMMA WhileItRuns ==
  ASSUME compiletype' = EXECUTE
  PROVE  StatementsInOrder'
BY DEF StatementsInOrder, DEFINITION, STATEMENT, EXECUTE

\* A term is sent to a spectator, which is not the one that is being copied.
LEMMA PutKeeps ==
  ASSUME IInv, PutInSpectator
  PROVE  IInv'
<1>1. /\ Types /\ Contents /\ NamesUnique /\ StatementsLead /\ CopyIsRight
      /\ \A j \in Numbers : StructOK(SpectatorFiles[j])
  BY DEF IInv, Types
<1>2. /\ compiletype = EXECUTE /\ nterms' = nterms + 1
      /\ UNCHANGED <<NumSpectatorFiles, Expressions, compiletype, tospectator, copies, copying,
                     outcome>>
  BY DEF PutInSpectator, modulevars
<1>3. PICK to \in tospectator, n \in TermSizes :
        /\ SpectatorFiles' = [SpectatorFiles EXCEPT
                                ![to.spectator] = PutIn(@, WordsOf(nterms + 1, n))]
        /\ sent' = [sent EXCEPT ![to.name] = Append(@, WordsOf(nterms + 1, n))]
  BY DEF PutInSpectator
<1> DEFINE i == to.spectator
           s == SpectatorFiles[i]
           term == WordsOf(nterms + 1, n)
           t == PutIn(s, term)
           terms == sent[to.name]
<1>4. term \in AllTerms
  <2>3. nterms \in Nat
    BY <1>1 DEF Types
  <2>1. nterms + 1 \in Nat
    BY <2>3
  <2>2. QED
    BY <2>1 DEF AllTerms
<1> HIDE DEF term
<1>5. /\ i \in Numbers /\ s.name = to.name /\ ~Reads(s) /\ to.name \in Names /\ i \in InUse
      /\ StructOK(s)
  <2>1. /\ i \in Numbers /\ s.name = to.name /\ ~Reads(s)
    BY <1>1 DEF StatementsLead, Leads
  <2>2. to.name \in Names
    BY <1>1 DEF Types
  <2>3. QED
    BY <1>1, <2>1, <2>2, Sizes DEF InUse
<1>6. terms \in Seq(AllTerms) /\ AreWordsOf(Words(s), terms)
  BY <1>1, <1>5 DEF Contents, Types
<1> HIDE DEF terms
<1>7. /\ StructOK(t) /\ t.name = s.name /\ ~Reads(t)
      /\ AreWordsOf(Words(t), Append(terms, term))
  BY <1>4, <1>5, <1>6, PutInKeeps
<1>8. SpectatorFiles' = [SpectatorFiles EXCEPT ![i] = t]
  BY <1>3 DEF term
<1> HIDE DEF t
<1>9. /\ sent'[to.name] = Append(terms, term)
      /\ \A m \in Names : m # to.name => sent'[m] = sent[m]
  BY <1>1, <1>3, <1>5 DEF Types, terms, term
<1>10. /\ SpectatorFiles' \in Seq(Struct) /\ Numbers' = Numbers /\ SpectatorFiles'[i] = t
       /\ \A j \in Numbers : j # i => SpectatorFiles'[j] = SpectatorFiles[j]
       /\ \A j \in Numbers' : StructOK(SpectatorFiles'[j])
       /\ \A j \in Numbers : SpectatorFiles'[j].name = SpectatorFiles[j].name
       /\ Contents' /\ NamesUnique' /\ CountIsRight'
  <2>1. AreWordsOf(Words(t), sent'[t.name])
    BY <1>5, <1>7, <1>9
  <2>2. \A m \in Names : m # t.name => sent'[m] = sent[m]
    BY <1>5, <1>7, <1>9
  <2>3. t.name = SpectatorFiles[i].name
    BY <1>7
  <2> HIDE DEF s, i
  <2>4. QED
    BY <1>2, <1>5, <1>7, <1>8, <2>1, <2>2, <2>3, SpectatorChanges
<1>11. Types'
  <2>1. Append(terms, term) \in Seq(AllTerms)
    BY <1>4, <1>6, AppendProperties
  <2>2. sent' \in [Names -> Seq(AllTerms)]
    BY <1>1, <1>3, <2>1 DEF Types, terms, term
  <2>5. nterms \in Nat
    BY <1>1 DEF Types
  <2>3. nterms' \in Nat
    BY <1>2, <2>5
  <2>4. QED
    BY <1>1, <1>2, <1>10, <2>2, <2>3 DEF Types
<1>12. \A j \in Numbers : Reads(SpectatorFiles[j]) =>
         j # i /\ SpectatorFiles'[j] = SpectatorFiles[j]
  BY <1>5, <1>10
<1>13. StatementsLead'
  <2>1. ASSUME NEW p \in tospectator'
        PROVE  /\ p.spectator \in Numbers' /\ SpectatorFiles'[p.spectator].name = p.name
               /\ ~Reads(SpectatorFiles'[p.spectator])
    <3>1. /\ p.spectator \in Numbers /\ SpectatorFiles[p.spectator].name = p.name
          /\ ~Reads(SpectatorFiles[p.spectator])
      BY <1>1, <1>2 DEF StatementsLead, Leads
    <3>2. SpectatorFiles'[p.spectator].name = p.name /\ ~Reads(SpectatorFiles'[p.spectator])
      BY <1>7, <1>10, <3>1
    <3>3. QED
      BY <1>10, <3>1, <3>2
  <2>2. \A j \in DOMAIN copies' :
          /\ copies'[j].spectator \in Numbers'
          /\ SpectatorFiles'[copies'[j].spectator].name = copies'[j].name
          /\ Reads(SpectatorFiles'[copies'[j].spectator])
    BY <1>1, <1>2, <1>10, <1>12 DEF StatementsLead, Leads
  <2>3. copying' # NotCopying =>
          /\ copying'.name \in Names /\ copying'.spectator \in Numbers'
          /\ SpectatorFiles'[copying'.spectator].name = copying'.name
          /\ Reads(SpectatorFiles'[copying'.spectator])
    BY <1>1, <1>2, <1>10, <1>12 DEF StatementsLead, Leads
  <2>4. QED
    BY <2>1, <2>2, <2>3 DEF StatementsLead, Leads
<1>14. CopyIsRight'
  <2>1. ASSUME copying # NotCopying
        PROVE  /\ SpectatorFiles'[copying.spectator] = SpectatorFiles[copying.spectator]
               /\ sent'[copying.name] = sent[copying.name]
    <3>1. /\ copying.name \in Names /\ copying.spectator \in Numbers
          /\ SpectatorFiles[copying.spectator].name = copying.name
          /\ Reads(SpectatorFiles[copying.spectator])
      BY <1>1, <2>1 DEF StatementsLead, Leads
    <3>2. /\ copying.spectator # i
          /\ SpectatorFiles'[copying.spectator] = SpectatorFiles[copying.spectator]
      BY <1>12, <3>1
    <3>3. copying.name # to.name
      BY <1>1, <1>5, <3>1, <3>2, StructsByName
    <3>4. QED
      BY <1>9, <3>1, <3>2, <3>3
  <2>2. copying' = copying
    BY <1>2
  <2>3. QED
    BY <1>1, <2>1, <2>2 DEF CopyIsRight
<1>15. StatementsInOrder'
  BY <1>2, WhileItRuns
<1>16. QED
  BY <1>10, <1>11, <1>13, <1>14, <1>15 DEF IInv

\* A copy begins at the start of the file.
LEMMA StartCopyKeeps ==
  ASSUME IInv, StartCopy
  PROVE  IInv'
<1> DEFINE i == Head(copies).spectator
           n == Head(copies).name
           s == SpectatorFiles[i]
           t == [s EXCEPT !.readpos = 0]
           new == [NotCopying EXCEPT !.name = n, !.spectator = i]
<1>1. /\ Types /\ Contents /\ NamesUnique /\ StatementsLead
      /\ \A j \in Numbers : StructOK(SpectatorFiles[j])
  BY DEF IInv, Types
<1>2. /\ compiletype = EXECUTE /\ copies # <<>> /\ copies' = Tail(copies) /\ copying' = new
      /\ UNCHANGED <<NumSpectatorFiles, Expressions, compiletype, tospectator, nterms, outcome,
                     sent>>
  BY DEF StartCopy
<1>3. SpectatorFiles' = [SpectatorFiles EXCEPT ![i].readpos = 0]
  BY DEF StartCopy
<1>4. /\ copies \in Seq([name : Names, spectator : Nat]) /\ Len(copies) \in Nat
      /\ Len(copies) > 0 /\ Head(copies) = copies[1]
      /\ copies' \in Seq([name : Names, spectator : Nat])
      /\ Len(copies') = Len(copies) - 1
      /\ \A j \in 1..Len(copies') : copies'[j] = copies[j + 1]
      /\ DOMAIN copies = 1..Len(copies) /\ DOMAIN copies' = 1..Len(copies')
  <2>1. copies \in Seq([name : Names, spectator : Nat])
    BY <1>1 DEF Types
  <2>2. copies' \in Seq([name : Names, spectator : Nat])
    BY <1>2, <2>1, HeadTailProperties
  <2>3. QED
    BY <1>2, <2>1, <2>2, HeadTailProperties, LenProperties, EmptySeq
<1>5. /\ \A j \in DOMAIN copies : /\ copies[j].spectator \in Numbers
                                  /\ SpectatorFiles[copies[j].spectator].name = copies[j].name
                                  /\ Reads(SpectatorFiles[copies[j].spectator])
  BY <1>1 DEF StatementsLead, Leads
<1>6. i \in Numbers /\ s.name = n /\ Reads(s) /\ i \in Nat /\ n \in Names
  <2>1. 1 \in DOMAIN copies
    BY <1>4
  <2>2. i \in Numbers /\ s.name = n /\ Reads(s)
    BY <1>4, <1>5, <2>1
  <2>3. Head(copies) \in [name : Names, spectator : Nat]
    BY <1>2, <1>4, HeadTailProperties
  <2>4. QED
    BY <2>2, <2>3
<1>7. copying' = [name |-> n, spectator |-> i, got |-> <<>>, atend |-> FALSE]
  BY <1>2 DEF NotCopying
<1> HIDE DEF i, n, new
<1>8. SpectatorFiles' = [SpectatorFiles EXCEPT ![i] = t]
  <2>1. SpectatorFiles \in [Numbers -> Struct]
    BY <1>1, ArrayFacts
  <2>2. QED
    BY <1>3, <1>6, <2>1
<1>9. /\ s \in Struct /\ StructOK(s) /\ n # NoName
  BY <1>1, <1>6, StructFacts, Sizes
<1>10. i \in InUse
  BY <1>6, <1>9 DEF InUse
<1>11. /\ AreWordsOf(Words(s), sent[n])
  BY <1>1, <1>6, <1>10 DEF Contents
<1> HIDE DEF s
<1>12. /\ t.name = s.name /\ t.flags = s.flags /\ t.file = s.file
       /\ t.open = s.open /\ t.PObuffer = s.PObuffer /\ t.POfill = s.POfill /\ t.readpos = 0
       /\ t.position = s.position /\ t \in Struct
  BY <1>9 DEF Struct
<1> HIDE DEF t
<1>13. StructOK(t) /\ Reads(t)
  <2>1. 0 <= Len(t.file)
    BY <1>9, <1>12, StructFacts
  <2>2. QED
    BY <1>6, <1>9, <1>12, <2>1 DEF StructOK, Reads
<1>14. Words(t) = Words(s)
  BY <1>6, <1>12, <1>13 DEF Words
<1>15. /\ SpectatorFiles' \in Seq(Struct) /\ Numbers' = Numbers /\ SpectatorFiles'[i] = t
       /\ \A j \in Numbers : j # i => SpectatorFiles'[j] = SpectatorFiles[j]
       /\ \A j \in Numbers' : StructOK(SpectatorFiles'[j])
       /\ \A j \in Numbers : SpectatorFiles'[j].name = SpectatorFiles[j].name
       /\ Contents' /\ NamesUnique' /\ CountIsRight'
  <2>1. AreWordsOf(Words(t), sent'[t.name])
    BY <1>2, <1>6, <1>11, <1>12, <1>14
  <2>2. t.name = SpectatorFiles[i].name
    BY <1>12 DEF s
  <2>3. \A m \in Names : m # t.name => sent'[m] = sent[m]
    BY <1>2
  <2>4. QED
    BY <1>2, <1>8, <1>10, <1>13, <2>1, <2>2, <2>3, SpectatorChanges
<1>16. Types'
  <2>1. <<>> \in Seq(Seq(Word))
    BY EmptySeq
  <2>2. copying' \in [name : Names \cup {NoName}, spectator : Nat, got : Seq(Seq(Word)),
                      atend : BOOLEAN]
    BY <1>6, <1>7, <2>1
  <2>3. QED
    BY <1>1, <1>2, <1>4, <1>15, <2>2 DEF Types
<1>17. \A j \in Numbers : Reads(SpectatorFiles'[j]) <=> Reads(SpectatorFiles[j])
  BY <1>12, <1>15 DEF Reads, s
<1>18. StatementsLead'
  <2>1. \A p \in tospectator' :
          /\ p.spectator \in Numbers' /\ SpectatorFiles'[p.spectator].name = p.name
          /\ ~Reads(SpectatorFiles'[p.spectator])
    BY <1>1, <1>2, <1>15, <1>17 DEF StatementsLead, Leads
  <2>2. ASSUME NEW j \in DOMAIN copies'
        PROVE  /\ copies'[j].spectator \in Numbers'
               /\ SpectatorFiles'[copies'[j].spectator].name = copies'[j].name
               /\ Reads(SpectatorFiles'[copies'[j].spectator])
    <3>1. j + 1 \in DOMAIN copies /\ copies'[j] = copies[j + 1]
      BY <1>4
    <3>2. QED
      BY <1>5, <1>15, <1>17, <3>1
  <2>3. /\ copying'.name \in Names /\ copying'.spectator \in Numbers'
        /\ SpectatorFiles'[copying'.spectator].name = copying'.name
        /\ Reads(SpectatorFiles'[copying'.spectator])
    BY <1>6, <1>7, <1>12, <1>13, <1>15
  <2>4. QED
    BY <2>1, <2>2, <2>3 DEF StatementsLead, Leads
<1>19. CopyIsRight'
  <2>1. copying'.got = <<>> /\ ~copying'.atend /\ copying'.spectator = i /\ copying'.name = n
    BY <1>7
  <2>2. sent'[n] \in Seq(AllTerms)
    BY <1>1, <1>2, <1>6 DEF Types
  <2>3. CopySoFar(t, sent'[n], <<>>)
    <3>1. Len(<<>>) = 0 /\ Len(sent'[n]) \in Nat
      BY <2>2, LenProperties, EmptySeq
    <3>2. QED
      BY <1>12, <3>1 DEF CopySoFar
  <2>4. QED
    BY <1>15, <2>1, <2>3 DEF CopyIsRight
<1>20. StatementsInOrder'
  BY <1>2, WhileItRuns
<1>21. QED
  BY <1>15, <1>16, <1>18, <1>19, <1>20 DEF IInv

\* The copy gets the next term, or finds that there is none.
LEMMA GetKeeps ==
  ASSUME IInv, GetFromSpectator
  PROVE  IInv'
<1> DEFINE i == copying.spectator
           n == copying.name
           s == SpectatorFiles[i]
           terms == sent[n]
           got == copying.got
<1>1. /\ Types /\ Contents /\ NamesUnique /\ StatementsInOrder /\ StatementsLead /\ CopyIsRight
      /\ \A j \in Numbers : StructOK(SpectatorFiles[j])
  BY DEF IInv, Types
<1>2. /\ outcome = "running" /\ copying # NotCopying /\ ~copying.atend
      /\ UNCHANGED <<NumSpectatorFiles, Expressions, compiletype, tospectator, copies, nterms,
                     sent>>
  BY DEF GetFromSpectator
<1>3. \/ /\ HasTerm(s)
         /\ SpectatorFiles' = [SpectatorFiles EXCEPT ![i] = TakeTerm(s).after]
         /\ copying' = [copying EXCEPT !.got = Append(@, TakeTerm(s).words)]
         /\ outcome' = IF Len(TakeTerm(s).words) = TakeTerm(s).size THEN "running"
                       ELSE "incomplete"
      \/ /\ ~HasTerm(s)
         /\ SpectatorFiles' = IF s.open THEN [SpectatorFiles EXCEPT ![i] = AtStart(s)]
                              ELSE SpectatorFiles
         /\ copying' = [copying EXCEPT !.atend = TRUE]
         /\ outcome' = outcome
  BY DEF GetFromSpectator
<1>4. compiletype = EXECUTE
  <2>1. compiletype \in 0..EXECUTE /\ ~(compiletype < EXECUTE)
    BY <1>1, <1>2 DEF Types, StatementsInOrder
  <2>2. QED
    BY <2>1 DEF EXECUTE
<1>5. /\ n \in Names /\ i \in Numbers /\ s.name = n /\ Reads(s) /\ StructOK(s) /\ i \in InUse
  <2>1. /\ n \in Names /\ i \in Numbers /\ s.name = n /\ Reads(s)
    BY <1>1, <1>2 DEF StatementsLead, Leads
  <2>2. QED
    BY <1>1, <2>1, Sizes DEF InUse
<1>6. /\ copying \in [name : Names \cup {NoName}, spectator : Nat, got : Seq(Seq(Word)),
                      atend : BOOLEAN]
      /\ got \in Seq(Seq(Word)) /\ terms \in Seq(AllTerms)
  BY <1>1, <1>5 DEF Types
<1>7. CopySoFar(s, terms, got)
  BY <1>1, <1>2 DEF CopyIsRight
<1>8. AreWordsOf(s.file, terms)
  <2>1. AreWordsOf(Words(s), terms)
    BY <1>1, <1>5 DEF Contents
  <2>2. QED
    BY <1>5, <2>1 DEF Words
<1> HIDE DEF s, i, n, terms, got
\* What follows from the struct t that takes the place of s, and the state c of the copy.
<1>9. ASSUME NEW t, StructOK(t), t.name = s.name, t.flags = s.flags, t.file = s.file,
             SpectatorFiles' = [SpectatorFiles EXCEPT ![i] = t],
             copying'.name = n, copying'.spectator = i, copying'.got \in Seq(Seq(Word)),
             copying' \in [name : Names \cup {NoName}, spectator : Nat, got : Seq(Seq(Word)),
                           atend : BOOLEAN],
             CopySoFar(t, terms, copying'.got), copying'.atend => copying'.got = terms,
             outcome' = "running"
      PROVE  IInv'
  <2>1. Reads(t) /\ Words(t) = t.file
    BY <1>5, <1>9 DEF Reads, Words
  <2>2. /\ SpectatorFiles' \in Seq(Struct) /\ Numbers' = Numbers /\ SpectatorFiles'[i] = t
        /\ \A j \in Numbers : j # i => SpectatorFiles'[j] = SpectatorFiles[j]
        /\ \A j \in Numbers' : StructOK(SpectatorFiles'[j])
        /\ \A j \in Numbers : SpectatorFiles'[j].name = SpectatorFiles[j].name
        /\ Contents' /\ NamesUnique' /\ CountIsRight'
    <3>1. AreWordsOf(Words(t), sent'[t.name])
      BY <1>2, <1>5, <1>8, <1>9, <2>1 DEF terms
    <3>2. t.name = SpectatorFiles[i].name
      BY <1>9 DEF s
    <3>3. \A m \in Names : m # t.name => sent'[m] = sent[m]
      BY <1>2
    <3>4. QED
      BY <1>2, <1>5, <1>9, <3>1, <3>2, <3>3, SpectatorChanges
  <2>3. Types'
    BY <1>1, <1>2, <1>9, <2>2 DEF Types
  <2>4. \A j \in Numbers : Reads(SpectatorFiles'[j]) <=> Reads(SpectatorFiles[j])
    BY <1>9, <2>2 DEF Reads, s
  <2>5. StatementsLead'
    <3>1. \A p \in tospectator' :
            /\ p.spectator \in Numbers' /\ SpectatorFiles'[p.spectator].name = p.name
            /\ ~Reads(SpectatorFiles'[p.spectator])
      BY <1>1, <1>2, <2>2, <2>4 DEF StatementsLead, Leads
    <3>2. \A j \in DOMAIN copies' :
            /\ copies'[j].spectator \in Numbers'
            /\ SpectatorFiles'[copies'[j].spectator].name = copies'[j].name
            /\ Reads(SpectatorFiles'[copies'[j].spectator])
      BY <1>1, <1>2, <2>2, <2>4 DEF StatementsLead, Leads
    <3>3. /\ copying'.name \in Names /\ copying'.spectator \in Numbers'
          /\ SpectatorFiles'[copying'.spectator].name = copying'.name
          /\ Reads(SpectatorFiles'[copying'.spectator])
      BY <1>5, <1>9, <2>1, <2>2
    <3>4. QED
      BY <3>1, <3>2, <3>3 DEF StatementsLead, Leads
  <2>6. CopyIsRight'
    BY <1>2, <1>9, <2>2 DEF CopyIsRight, terms
  <2>7. StatementsInOrder'
    BY <1>2, <1>4, WhileItRuns
  <2>8. QED
    BY <2>2, <2>3, <2>5, <2>6, <2>7 DEF IInv
<1>10. CASE /\ HasTerm(s)
            /\ SpectatorFiles' = [SpectatorFiles EXCEPT ![i] = TakeTerm(s).after]
            /\ copying' = [copying EXCEPT !.got = Append(@, TakeTerm(s).words)]
            /\ outcome' = IF Len(TakeTerm(s).words) = TakeTerm(s).size THEN "running"
                          ELSE "incomplete"
  <2> DEFINE t == TakeTerm(s).after
             words == TakeTerm(s).words
  <2>1. /\ StructOK(t) /\ t.name = s.name /\ t.flags = s.flags /\ t.file = s.file
        /\ words \in Seq(Word) /\ Len(words) = TakeTerm(s).size
        /\ Append(got, words) \in Seq(Seq(Word))
        /\ CopySoFar(t, terms, Append(got, words))
    BY <1>5, <1>6, <1>7, <1>8, <1>10, TermIsTaken
  <2>2. outcome' = "running" /\ SpectatorFiles' = [SpectatorFiles EXCEPT ![i] = t]
        /\ copying' = [copying EXCEPT !.got = Append(@, words)]
    BY <1>10, <2>1
  <2> HIDE DEF t, words
  <2>3. /\ copying'.name = n /\ copying'.spectator = i /\ copying'.got = Append(got, words)
        /\ ~copying'.atend
        /\ copying' \in [name : Names \cup {NoName}, spectator : Nat, got : Seq(Seq(Word)),
                         atend : BOOLEAN]
    BY <1>2, <1>6, <2>1, <2>2 DEF n, i, got
  <2>4. QED
    BY <1>9, <2>1, <2>2, <2>3
<1>11. CASE /\ ~HasTerm(s)
            /\ SpectatorFiles' = IF s.open THEN [SpectatorFiles EXCEPT ![i] = AtStart(s)]
                                 ELSE SpectatorFiles
            /\ copying' = [copying EXCEPT !.atend = TRUE]
            /\ outcome' = outcome
  <2>1. got = terms /\ (s.open => CopySoFar(AtStart(s), terms, got))
    BY <1>5, <1>6, <1>7, <1>8, <1>11, NoTermLeft
  <2>2. /\ copying'.name = n /\ copying'.spectator = i /\ copying'.got = got
        /\ copying' \in [name : Names \cup {NoName}, spectator : Nat, got : Seq(Seq(Word)),
                         atend : BOOLEAN]
        /\ outcome' = "running"
    BY <1>2, <1>6, <1>11 DEF n, i, got
  <2>3. CASE s.open
    <3> DEFINE t == AtStart(s)
    <3>1. /\ StructOK(t) /\ t.name = s.name /\ t.flags = s.flags /\ t.file = s.file
      BY <1>5, <1>6, <1>7, <1>8, AtStartKeeps
    <3>2. SpectatorFiles' = [SpectatorFiles EXCEPT ![i] = t] /\ CopySoFar(t, terms, got)
      BY <1>11, <2>1, <2>3
    <3> HIDE DEF t
    <3>3. QED
      BY <1>6, <1>9, <2>1, <2>2, <3>1, <3>2
  <2>4. CASE ~s.open
    <3>1. SpectatorFiles' = SpectatorFiles
      BY <1>11, <2>4
    <3>2. SpectatorFiles' = [SpectatorFiles EXCEPT ![i] = s]
      <4>1. SpectatorFiles \in [Numbers -> Struct]
        BY <1>1, ArrayFacts
      <4>2. QED
        BY <3>1, <4>1 DEF s
    <3>3. QED
      BY <1>5, <1>6, <1>7, <1>9, <2>1, <2>2, <3>2
  <2>5. QED
    BY <2>3, <2>4
<1>12. QED
  BY <1>3, <1>10, <1>11 DEF s, i

\* At the end of a module what is in the buffers is written, and what was read is as it was.
LEMMA EndSortKeeps ==
  ASSUME IInv, EndSort
  PROVE  IInv'
<1>1. /\ Types /\ Contents /\ NamesUnique /\ CountIsRight
      /\ \A j \in Numbers : StructOK(SpectatorFiles[j])
  BY DEF IInv, Types
<1>2. /\ copies = <<>> /\ copying = NotCopying /\ compiletype' = 0 /\ tospectator' = {}
      /\ copies' = copies /\ copying' = copying
      /\ Expressions' = [n \in Names |-> IF Expressions[n] = "DROPSPECTATOREXPRESSION"
                                         THEN "none" ELSE Expressions[n]]
      /\ UNCHANGED <<NumSpectatorFiles, nterms, outcome, sent>>
  BY DEF EndSort, ModuleIsDone, NewModule
<1>3. SpectatorFiles' = IF NumSpectatorFiles <= 0 THEN SpectatorFiles
                        ELSE [i \in Numbers |-> Flush(SpectatorFiles[i])]
  BY DEF EndSort
<1>4. /\ SpectatorFiles' \in Seq(Struct) /\ Numbers' = Numbers
      /\ \A j \in Numbers :
           LET t == SpectatorFiles'[j]
           IN StructOK(t) /\ t.name = SpectatorFiles[j].name /\ ~Reads(t) /\ t.POfill = 0
              /\ Words(t) = Words(SpectatorFiles[j])
  <2>1. CASE NumSpectatorFiles <= 0
    <3>1. SpectatorFiles' = SpectatorFiles /\ Numbers' = Numbers
      BY <1>3, <2>1 DEF Numbers
    <3>2. InUse = {}
      <4>1. IsFiniteSet(InUse) /\ Cardinality(InUse) = 0
        BY <1>1, <2>1, ArrayFacts DEF CountIsRight
      <4>2. QED
        BY <4>1, FS_EmptySet
    <3>3. \A j \in Numbers : SpectatorFiles[j] = Clean
      BY <1>1, <3>2 DEF InUse, StructOK
    <3>4. ~Reads(Clean) /\ Clean.POfill = 0
      BY CleanIsOK DEF Clean
    <3>5. QED
      BY <1>1, <3>1, <3>3, <3>4 DEF Types
  <2>2. CASE ~(NumSpectatorFiles <= 0)
    <3>1. SpectatorFiles' = [i \in Numbers |-> Flush(SpectatorFiles[i])]
      BY <1>3, <2>2
    <3>2. Numbers' = Numbers /\ \A j \in Numbers : SpectatorFiles'[j] = Flush(SpectatorFiles[j])
      BY <3>1 DEF Numbers
    <3>3. ASSUME NEW j \in Numbers
          PROVE  /\ StructOK(SpectatorFiles'[j])
                 /\ SpectatorFiles'[j].name = SpectatorFiles[j].name
                 /\ ~Reads(SpectatorFiles'[j]) /\ SpectatorFiles'[j].POfill = 0
                 /\ Words(SpectatorFiles'[j]) = Words(SpectatorFiles[j])
      BY <1>1, <3>2, FlushKeeps
    <3>4. SpectatorFiles' \in Seq(Struct)
      <4>1. Len(SpectatorFiles) \in Nat /\ Numbers = 1..Len(SpectatorFiles)
        BY <1>1, ArrayFacts
      <4>2. \A j \in Numbers : Flush(SpectatorFiles[j]) \in Struct
        BY <3>2, <3>3 DEF StructOK
      <4>3. SpectatorFiles' \in [1..Len(SpectatorFiles) -> Struct]
        BY <3>1, <4>1, <4>2
      <4>4. QED
        BY <4>1, <4>3, SeqDef
    <3>5. QED
      BY <3>2, <3>3, <3>4
  <2>3. QED
    BY <2>1, <2>2
<1>5. InUse' = InUse /\ \A n \in Names : Named(n)' = Named(n)
  BY <1>4, NamesStay
<1>6. Types'
  <2>1. Expressions' \in [Names -> {"none", "SPECTATOREXPRESSION", "DROPSPECTATOREXPRESSION"}]
    BY <1>1, <1>2 DEF Types
  <2>2. compiletype' \in 0..EXECUTE
    BY <1>2 DEF EXECUTE
  <2>3. QED
    BY <1>1, <1>2, <1>4, <2>1, <2>2 DEF Types
<1>7. Contents'
  <2>1. ASSUME NEW j \in InUse'
        PROVE  AreWordsOf(Words(SpectatorFiles'[j]), sent'[SpectatorFiles'[j].name])
    <3>1. j \in InUse /\ j \in Numbers
      BY <1>5 DEF InUse
    <3>2. AreWordsOf(Words(SpectatorFiles[j]), sent[SpectatorFiles[j].name])
      BY <1>1, <3>1 DEF Contents
    <3>3. QED
      BY <1>2, <1>4, <3>1, <3>2
  <2>2. QED
    BY <2>1 DEF Contents
<1>8. NamesUnique'
  <2>1. \A n \in Names : Expressions'[n] = "SPECTATOREXPRESSION"
                           <=> Expressions[n] = "SPECTATOREXPRESSION"
    BY <1>2
  <2>2. QED
    BY <1>1, <1>4, <1>5, <2>1 DEF NamesUnique
<1>9. CountIsRight'
  BY <1>1, <1>2, <1>5 DEF CountIsRight
<1>10. StatementsInOrder' /\ StatementsLead' /\ CopyIsRight'
  BY <1>2, <1>4, StaysQuiet
<1>11. QED
  BY <1>6, <1>7, <1>8, <1>9, <1>10 DEF IInv

LEMMA EndClearKeeps ==
  ASSUME IInv, EndClear
  PROVE  IInv'
<1>1. Types
  BY DEF IInv
<1>2. /\ copies = <<>> /\ copying = NotCopying /\ compiletype' = 0 /\ tospectator' = {}
      /\ copies' = copies /\ copying' = copying /\ NumSpectatorFiles' = 0
      /\ Expressions' = [n \in Names |-> "none"] /\ SpectatorFiles' = [i \in Numbers |-> Clean]
      /\ UNCHANGED <<nterms, outcome, sent>>
  BY DEF EndClear, ModuleIsDone, NewModule
<1>3. StructOK(Clean) /\ ~Reads(Clean) /\ Clean.POfill = 0 /\ Clean.name = NoName
  BY CleanIsOK DEF Clean
<1>4. Numbers' = Numbers /\ \A j \in Numbers' : SpectatorFiles'[j] = Clean
  BY <1>2 DEF Numbers
<1>5. SpectatorFiles' \in Seq(Struct)
  <2>1. Len(SpectatorFiles) \in Nat /\ Numbers = 1..Len(SpectatorFiles)
    BY <1>1, ArrayFacts
  <2>2. Clean \in Struct
    BY <1>3 DEF StructOK
  <2>3. SpectatorFiles' \in [1..Len(SpectatorFiles) -> Struct]
    BY <1>2, <2>1, <2>2
  <2>4. QED
    BY <2>1, <2>3, SeqDef
<1>6. InUse' = {} /\ \A n \in Names : Named(n)' = {}
  BY <1>3, <1>4, Sizes DEF InUse, Named
<1>7. Types'
  <2>1. Expressions' \in [Names -> {"none", "SPECTATOREXPRESSION", "DROPSPECTATOREXPRESSION"}]
    BY <1>2
  <2>2. compiletype' \in 0..EXECUTE /\ NumSpectatorFiles' \in Nat
    BY <1>2 DEF EXECUTE
  <2>3. QED
    BY <1>1, <1>2, <1>3, <1>4, <1>5, <2>1, <2>2 DEF Types
<1>8. Contents'
  BY <1>6 DEF Contents
<1>9. NamesUnique'
  BY <1>2, <1>6 DEF NamesUnique
<1>10. CountIsRight'
  BY <1>2, <1>6, FS_EmptySet DEF CountIsRight
<1>11. StatementsInOrder' /\ StatementsLead' /\ CopyIsRight'
  BY <1>2, <1>3, <1>4, StaysQuiet
<1>12. QED
  BY <1>7, <1>8, <1>9, <1>10, <1>11 DEF IInv

-----------------------------------------------------------------------------
(* The theorems *)

LEMMA InitIInv == Init => IInv
<1> SUFFICES ASSUME Init PROVE IInv
  OBVIOUS
<1>1. /\ SpectatorFiles = <<>> /\ NumSpectatorFiles = 0
      /\ Expressions = [n \in Names |-> "none"]
      /\ compiletype = 0 /\ tospectator = {} /\ copies = <<>> /\ copying = NotCopying
      /\ nterms = 0 /\ outcome = "running" /\ sent = [n \in Names |-> <<>>]
  BY DEF Init
<1>2. Numbers = {} /\ InUse = {} /\ \A n \in Names : Named(n) = {}
  BY <1>1, EmptySeq DEF Numbers, InUse, Named
<1>3. Types
  <2>1. /\ SpectatorFiles \in Seq(Struct) /\ <<>> \in Seq(Seq(Word)) /\ <<>> \in Seq(AllTerms)
        /\ copies \in Seq([name : Names, spectator : Nat])
    BY <1>1, EmptySeq
  <2>2. copying \in [name : Names \cup {NoName}, spectator : Nat, got : Seq(Seq(Word)),
                     atend : BOOLEAN]
    BY <1>1, <2>1 DEF NotCopying
  <2>3. sent \in [Names -> Seq(AllTerms)]
    BY <1>1, <2>1
  <2>4. /\ Expressions \in [Names -> {"none", "SPECTATOREXPRESSION", "DROPSPECTATOREXPRESSION"}]
        /\ compiletype \in 0..EXECUTE /\ NumSpectatorFiles \in Nat /\ nterms \in Nat
    BY <1>1 DEF EXECUTE
  <2>5. QED
    BY <1>1, <1>2, <2>1, <2>2, <2>3, <2>4 DEF Types
<1>4. Contents /\ NamesUnique
  BY <1>1, <1>2 DEF Contents, NamesUnique
<1>5. CountIsRight
  BY <1>1, <1>2, FS_EmptySet DEF CountIsRight
<1>6. StatementsInOrder /\ StatementsLead /\ CopyIsRight
  BY <1>1, <1>2 DEF StatementsInOrder, StatementsLead, CopyIsRight
<1>7. QED
  BY <1>3, <1>4, <1>5, <1>6 DEF IInv

LEMMA NextKeepsIInv == IInv /\ [Next]_vars => IInv'
<1> SUFFICES ASSUME IInv, [Next]_vars PROVE IInv'
  OBVIOUS
<1>1. ASSUME NEW n \in Names, CoCreateSpectator(n) PROVE IInv'
  BY <1>1, CreateKeeps
<1>2. ASSUME NEW n \in Names, CoRemoveSpectator(n) PROVE IInv'
  BY <1>2, RemoveKeeps
<1>3. ASSUME NEW n \in Names, CoEmptySpectator(n) PROVE IInv'
  BY <1>3, EmptyKeeps
<1>4. ASSUME NEW n \in Names, CoCopySpectator(n) PROVE IInv'
  BY <1>4, CopyStatementKeeps
<1>5. ASSUME NEW n \in Names, CoToSpectator(n) PROVE IInv'
  BY <1>5, SendStatementKeeps
<1>6. CASE Execute
  BY <1>6, ExecuteKeeps
<1>7. CASE PutInSpectator
  BY <1>7, PutKeeps
<1>8. CASE StartCopy
  BY <1>8, StartCopyKeeps
<1>9. CASE GetFromSpectator
  BY <1>9, GetKeeps
<1>10. CASE EndCopy
  BY <1>10, EndCopyKeeps
<1>11. CASE EndSort
  BY <1>11, EndSortKeeps
<1>12. CASE EndClear
  BY <1>12, EndClearKeeps
<1>13. CASE UNCHANGED vars
  <2>1. UNCHANGED <<SpectatorFiles, NumSpectatorFiles, Expressions, compiletype, tospectator,
                    copies, copying, nterms, outcome, sent>>
    BY <1>13 DEF vars, spectatorvars, modulevars
  <2>2. Types /\ StatementsInOrder /\ StatementsLead /\ CopyIsRight
    BY DEF IInv
  <2>3. /\ Numbers' = Numbers /\ Contents' /\ NamesUnique' /\ CountIsRight'
        /\ \A j \in Numbers' : StructOK(SpectatorFiles'[j])
    BY <2>1, ArrayStays
  <2>4. Types'
    BY <2>1, <2>2, <2>3 DEF Types
  <2>5. StatementsInOrder' /\ StatementsLead' /\ CopyIsRight'
    BY <2>1, <2>2, <2>3 DEF StatementsInOrder, StatementsLead, Leads, CopyIsRight
  <2>6. QED
    BY <2>3, <2>4, <2>5 DEF IInv
<1>14. QED
  BY <1>1, <1>2, <1>3, <1>4, <1>5, <1>6, <1>7, <1>8, <1>9, <1>10, <1>11, <1>12, <1>13 DEF Next

\* The inductive invariant holds throughout: the array, what is in the files and buffers,
\* the statements of the module and the copy under way all agree.
THEOREM SpectatorInvariant == Spec => []IInv
BY InitIInv, NextKeepsIInv, PTL DEF Spec

\* The structs of the array, the count and the status of the expressions have their types;
\* POfill stays within the buffer (spectator.c: PutInSpectator, GetFromSpectator).
THEOREM TypeCorrect == Spec => []TypeOK
<1>1. IInv => TypeOK
  <2> SUFFICES ASSUME IInv PROVE TypeOK
    OBVIOUS
  <2>1. Types /\ CountIsRight
    BY DEF IInv
  <2>2. ASSUME NEW i \in Numbers
        PROVE  /\ SpectatorFiles[i].name \in Names \cup {NoName}
               /\ SpectatorFiles[i].POfill \in 0..Len(SpectatorFiles[i].PObuffer)
               /\ Len(SpectatorFiles[i].PObuffer) <= POsize
               /\ SpectatorFiles[i].flags \subseteq {1, 2}
    <3>1. StructOK(SpectatorFiles[i])
      BY <2>1 DEF Types
    <3>2. QED
      BY <3>1, StructFacts
  <2>3. NumSpectatorFiles \in 0..Len(SpectatorFiles)
    <3>1. /\ Len(SpectatorFiles) \in Nat /\ Cardinality(InUse) \in Nat
          /\ Cardinality(InUse) <= Len(SpectatorFiles)
      BY <2>1, ArrayFacts
    <3>2. QED
      BY <2>1, <3>1 DEF CountIsRight
  <2>4. QED
    BY <2>1, <2>2, <2>3 DEF Types, TypeOK
<1>2. QED
  BY <1>1, SpectatorInvariant, PTL

\* One struct per spectator and none else, and the count by which CreateSpectator decides
\* whether there is a hole to fill is the number of structs in use.
THEOREM NamesAgree == Spec => []NamesMatch
<1>1. IInv => NamesMatch
  <2> SUFFICES ASSUME IInv PROVE NamesMatch
    OBVIOUS
  <2>1. NamesUnique /\ CountIsRight
    BY DEF IInv
  <2>2. ASSUME NEW n \in Names
        PROVE  Cardinality(Named(n)) = IF Expressions[n] = "SPECTATOREXPRESSION" THEN 1 ELSE 0
    <3>1. CASE Expressions[n] = "SPECTATOREXPRESSION"
      <4>1. PICK i \in Numbers : Named(n) = {i}
        BY <2>1, <3>1 DEF NamesUnique
      <4>2. Cardinality({i}) = 1
        BY FS_Singleton
      <4>3. QED
        BY <3>1, <4>1, <4>2
    <3>2. CASE Expressions[n] # "SPECTATOREXPRESSION"
      <4>1. Named(n) = {}
        BY <2>1, <3>2 DEF NamesUnique
      <4>2. QED
        BY <3>2, <4>1, FS_EmptySet
    <3>3. QED
      BY <3>1, <3>2
  <2>3. QED
    BY <2>1, <2>2 DEF NamesMatch, CountIsRight
<1>2. QED
  BY <1>1, SpectatorInvariant, PTL

\* A copy that is complete has exactly the terms that were sent since the spectator was
\* created or emptied, in the order in which they were sent, and no term is torn.
THEOREM CopiesAreComplete == Spec => []EveryTermComesBack
<1>1. IInv => EveryTermComesBack
  <2> SUFFICES ASSUME IInv PROVE EveryTermComesBack
    OBVIOUS
  <2>1. outcome # "incomplete"
    BY DEF IInv, Types
  <2>2. NotCopying.atend = FALSE
    BY DEF NotCopying
  <2>3. copying.atend => copying # NotCopying
    BY <2>2
  <2>4. QED
    BY <2>1, <2>3 DEF IInv, CopyIsRight, EveryTermComesBack
<1>2. QED
  BY <1>1, SpectatorInvariant, PTL
=============================================================================
