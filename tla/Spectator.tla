------------------------------ MODULE Spectator ------------------------------
(***************************************************************************)
(* Spectator files of FORM (form/sources/spectator.c): terms that are not  *)
(* needed for some modules are sent to a file with ToSpectator and come    *)
(* back, in a later module, in an expression made by CopySpectator.  One   *)
(* buffer per spectator serves for writing and for reading, so that a      *)
(* module either adds to a spectator or reads it.                          *)
(*                                                                         *)
(* A program is a sequence of modules.  The statements of a module come in *)
(* the order declarations, specifications, definitions, executable         *)
(* statements (compiler.c; the setup parameter OldOrderFlag is off); a     *)
(* statement with an error does not let the module run and is left out.    *)
(* PutInSpectator holds a lock and only one thread reads: a call is a      *)
(* step.  Spectators have different files, and writing does not fail.      *)
(***************************************************************************)
EXTENDS Integers, Sequences, FiniteSets

CONSTANTS Names,      \* names of spectators
          NoName,
          FirstSize,  \* elements in the first array of spectators; 10 in the code
          POsize,     \* words in the buffer of a spectator
          TermSizes,  \* words in a term
          MaxTerms,   \* terms that are sent to spectators
          MaxCopies   \* CopySpectator statements in a module

ASSUME SpectatorAssumption ==
  /\ NoName \notin Names /\ FirstSize \in Nat \ {0} /\ POsize \in Nat \ {0}
  /\ TermSizes \subseteq 1..POsize

VARIABLES
  SpectatorFiles,     \* AM.SpectatorFiles, a sequence of structs
  NumSpectatorFiles,
  Expressions,        \* status of the expression with the name of a spectator
  compiletype,        \* how far the module is compiled; EXECUTE while it runs
  tospectator,        \* compiled ToSpectator statements: name, number of the spectator
  copies,             \* prototypes with a spectator yet to be filled, in order
  copying,            \* the expression being filled
  nterms,             \* terms sent so far
  outcome,
  sent                \* (history) the terms sent to a spectator since it was emptied

spectatorvars == <<SpectatorFiles, NumSpectatorFiles, Expressions>>
modulevars == <<compiletype, tospectator, copies, copying>>
vars == <<spectatorvars, modulevars, nterms, outcome, sent>>

DECLARATION == 1
SPECIFICATION == 2
DEFINITION == 3
STATEMENT == 4
EXECUTE == 5

\* The flags share a bit: READSPECTATORFLAG is 3, GLOBALSPECTATORFLAG is 1.
GLOBALSPECTATORFLAG == {1}
READSPECTATORFLAG == {1, 2}

Clean == [name |-> NoName, open |-> FALSE, file |-> <<>>, PObuffer |-> <<>>, POfill |-> 0,
          position |-> 0, readpos |-> 0, flags |-> {}]

NotCopying == [name |-> NoName, spectator |-> 0, got |-> <<>>, atend |-> FALSE]

Numbers == DOMAIN SpectatorFiles
InUse == {i \in Numbers : SpectatorFiles[i].name # NoName}
Holes == Numbers \ InUse

First(S) == CHOOSE i \in S : \A j \in S : i <= j

\* The scans of the array by name.
Named(n) == {i \in Numbers : SpectatorFiles[i].name = n}

Reading(i) == SpectatorFiles[i].flags \cap READSPECTATORFLAG # {}

-----------------------------------------------------------------------------
(* The buffer and the file *)

WriteFile(file, position, words) ==
  SubSeq(file, 1, position) \o words
    \o SubSeq(file, position + Len(words) + 1, Len(file))

\* The word w of a term t of n words, of which the first tells n.
WordsOf(t, n) == [w \in 1..n |-> <<t, w, n>>]

MovePosition(s, size) == s.position + size

\* Of n words those that are written before the last of them is put in the buffer: the
\* buffer is written when p > fi->POstop.
WrittenWords(n) == POsize * ((n - 1) \div POsize)

\* PutInSpectator: whenever the buffer is full it is written, in the middle of a term
\* too; the file is created with the first write.
PutIn(s, words) ==
  LET all  == SubSeq(s.PObuffer, 1, s.POfill) \o words
      full == WrittenWords(Len(all))
      file == IF s.open THEN s.file ELSE <<>>
      rest == SubSeq(all, full + 1, Len(all))
  IN IF full = 0 THEN [s EXCEPT !.PObuffer = all, !.POfill = Len(all)]
     ELSE [s EXCEPT !.open = TRUE,
                    !.file = WriteFile(file, s.position, SubSeq(all, 1, full)),
                    !.position = MovePosition(s, full),
                    !.PObuffer = rest, !.POfill = Len(rest)]

\* FlushSpectators: after reading the buffer is not written.
NotToBeWritten(s) == s.flags \cap READSPECTATORFLAG # {}

Flush(s) ==
  LET position == IF s.open THEN s.position ELSE 0
      file == WriteFile(IF s.open THEN s.file ELSE <<>>, position,
                        SubSeq(s.PObuffer, 1, s.POfill))
  IN IF s.name = NoName THEN s
     ELSE IF NotToBeWritten(s)
     THEN [s EXCEPT !.flags = @ \ READSPECTATORFLAG, !.POfill = 0]
     ELSE IF s.POfill = 0 THEN s
     ELSE [s EXCEPT !.open = TRUE, !.file = file, !.POfill = 0, !.position = Len(file)]

\* The next part of the file to the buffer.
FillBuffer(s) ==
  LET last == IF s.readpos + POsize < Len(s.file) THEN s.readpos + POsize ELSE Len(s.file)
  IN [s EXCEPT !.PObuffer = SubSeq(s.file, s.readpos + 1, last),
               !.POfill = 0, !.readpos = last]

\* GetFromSpectator at the start of a term.
NeedsBuffer(s) ==
  s.readpos = 0 \/ (s.POfill = Len(s.PObuffer) /\ s.readpos < s.position)

AtStart(s) == IF NeedsBuffer(s) THEN FillBuffer(s) ELSE s

HasTerm(s) == s.open /\ AtStart(s).POfill < Len(AtStart(s).PObuffer)

\* A term that crosses the end of the buffer is taken from two buffers.
TakeTerm(s) ==
  LET b == AtStart(s)
      size == b.PObuffer[b.POfill + 1][3]
      here == Len(b.PObuffer) - b.POfill
      more == FillBuffer(b)
  IN IF size <= here
     THEN [after |-> [b EXCEPT !.POfill = @ + size], size |-> size,
           words |-> SubSeq(b.PObuffer, b.POfill + 1, b.POfill + size)]
     ELSE [after |-> [more EXCEPT !.POfill = size - here], size |-> size,
           words |-> SubSeq(b.PObuffer, b.POfill + 1, Len(b.PObuffer))
                       \o SubSeq(more.PObuffer, 1, size - here)]

-----------------------------------------------------------------------------
(* The statements *)

Statement(type) ==
  /\ outcome = "running" /\ compiletype <= type
  /\ compiletype' = type

\* There is a hole to fill, or the array is made twice as large.
CoCreateSpectator(n) ==
  LET newsize == IF SpectatorFiles = <<>> THEN FirstSize ELSE 2 * Len(SpectatorFiles)
      grown == [i \in 1..newsize |-> IF i \in Numbers THEN SpectatorFiles[i] ELSE Clean]
      files == IF NumSpectatorFiles >= Len(SpectatorFiles) THEN grown ELSE SpectatorFiles
      specnum == IF NumSpectatorFiles >= Len(SpectatorFiles) THEN NumSpectatorFiles + 1
                 ELSE First(Holes)
  IN /\ Statement(DECLARATION) /\ Expressions[n] = "none"
     /\ Expressions' = [Expressions EXCEPT ![n] = "SPECTATOREXPRESSION"]
     /\ SpectatorFiles' = [files EXCEPT ![specnum].name = n, ![specnum].position = 0]
     /\ NumSpectatorFiles' = NumSpectatorFiles + 1
     /\ sent' = [sent EXCEPT ![n] = <<>>]
     /\ UNCHANGED <<tospectator, copies, copying, nterms, outcome>>

CountNotLowered == NumSpectatorFiles' = NumSpectatorFiles

LowerCount == NumSpectatorFiles' = NumSpectatorFiles - 1

\* The file is removed and the struct becomes a hole; the expression goes at the end of
\* the module.
CoRemoveSpectator(n) ==
  /\ Statement(SPECIFICATION)
  /\ Expressions[n] = "SPECTATOREXPRESSION" /\ Named(n) # {}
  /\ Expressions' = [Expressions EXCEPT ![n] = "DROPSPECTATOREXPRESSION"]
  /\ SpectatorFiles' = [SpectatorFiles EXCEPT ![First(Named(n))] = Clean]
  /\ LowerCount
  /\ UNCHANGED <<tospectator, copies, copying, nterms, outcome, sent>>

Emptied(s) == [Clean EXCEPT !.name = s.name, !.flags = s.flags]

\* This scan compares the names of holes too, and a hole has no name.
CoEmptySpectator(n) ==
  /\ Statement(SPECIFICATION)
  /\ Expressions[n] = "SPECTATOREXPRESSION" /\ Named(n) # {}
  /\ IF \E i \in Holes : i < First(Named(n))
     THEN outcome' = "null name" /\ UNCHANGED <<SpectatorFiles, sent>>
     ELSE /\ SpectatorFiles' = [SpectatorFiles EXCEPT ![First(Named(n))] = Emptied(@)]
          /\ sent' = [sent EXCEPT ![n] = <<>>]
          /\ UNCHANGED outcome
  /\ UNCHANGED <<NumSpectatorFiles, Expressions, tospectator, copies, copying, nterms>>

CoCopySpectator(n) ==
  /\ Statement(DEFINITION)
  /\ NumSpectatorFiles > 0 /\ Named(n) # {} /\ Len(copies) < MaxCopies
  /\ LET i == First(Named(n))
     IN /\ SpectatorFiles' = [SpectatorFiles EXCEPT ![i].flags = @ \cup READSPECTATORFLAG,
                                                    ![i].readpos = 0, ![i].POfill = 0]
        /\ copies' = Append(copies, [name |-> n, spectator |-> i])
  /\ UNCHANGED <<NumSpectatorFiles, Expressions, tospectator, copying, nterms, outcome, sent>>

WriteAnyway(i) == TRUE

\* "It is not permitted to read from and write to the same spectator in one module."
MayWrite(i) == ~Reading(i)

CoToSpectator(n) ==
  /\ Statement(STATEMENT)
  /\ Expressions[n] = "SPECTATOREXPRESSION" /\ Named(n) # {} /\ MayWrite(First(Named(n)))
  /\ tospectator' = tospectator \cup {[name |-> n, spectator |-> First(Named(n))]}
  /\ UNCHANGED <<spectatorvars, copies, copying, nterms, outcome, sent>>

-----------------------------------------------------------------------------
(* The execution of a module, and its end *)

Execute ==
  /\ Statement(EXECUTE) /\ compiletype < EXECUTE
  /\ UNCHANGED <<spectatorvars, tospectator, copies, copying, nterms, outcome, sent>>

PutInSpectator ==
  /\ outcome = "running" /\ compiletype = EXECUTE /\ nterms < MaxTerms
  /\ \E to \in tospectator, n \in TermSizes :
       /\ SpectatorFiles' = [SpectatorFiles EXCEPT
                               ![to.spectator] = PutIn(@, WordsOf(nterms + 1, n))]
       /\ sent' = [sent EXCEPT ![to.name] = Append(@, WordsOf(nterms + 1, n))]
  /\ nterms' = nterms + 1
  /\ UNCHANGED <<NumSpectatorFiles, Expressions, modulevars, outcome>>

\* Processor comes to an expression whose prototype tells of a spectator.
StartCopy ==
  /\ outcome = "running" /\ compiletype = EXECUTE /\ copies # <<>> /\ copying = NotCopying
  /\ copying' = [NotCopying EXCEPT !.name = Head(copies).name,
                                   !.spectator = Head(copies).spectator]
  /\ copies' = Tail(copies)
  /\ SpectatorFiles' = [SpectatorFiles EXCEPT ![Head(copies).spectator].readpos = 0]
  /\ UNCHANGED <<NumSpectatorFiles, Expressions, compiletype, tospectator, nterms, outcome,
                 sent>>

GetFromSpectator ==
  LET s == SpectatorFiles[copying.spectator]
      put(t) == [SpectatorFiles EXCEPT ![copying.spectator] = t]
  IN /\ outcome = "running" /\ copying # NotCopying /\ ~copying.atend
     /\ IF HasTerm(s)
        THEN /\ SpectatorFiles' = put(TakeTerm(s).after)
             /\ copying' = [copying EXCEPT !.got = Append(@, TakeTerm(s).words)]
             /\ outcome' = IF Len(TakeTerm(s).words) = TakeTerm(s).size THEN "running"
                           ELSE "incomplete"
        ELSE /\ SpectatorFiles' = IF s.open THEN put(AtStart(s)) ELSE SpectatorFiles
             /\ copying' = [copying EXCEPT !.atend = TRUE]
             /\ UNCHANGED outcome
     /\ UNCHANGED <<NumSpectatorFiles, Expressions, compiletype, tospectator, copies, nterms,
                    sent>>

EndCopy ==
  /\ outcome = "running" /\ copying.atend
  /\ copying' = NotCopying
  /\ UNCHANGED <<spectatorvars, compiletype, tospectator, copies, nterms, outcome, sent>>

ModuleIsDone ==
  outcome = "running" /\ compiletype = EXECUTE /\ copies = <<>> /\ copying = NotCopying

NewModule == compiletype' = 0 /\ tospectator' = {} /\ UNCHANGED <<copies, copying>>

\* .sort: TestDrop and CleanExpr, which ends with FlushSpectators.
EndSort ==
  /\ ModuleIsDone /\ NewModule
  /\ Expressions' = [n \in Names |-> IF Expressions[n] = "DROPSPECTATOREXPRESSION"
                                     THEN "none" ELSE Expressions[n]]
  /\ SpectatorFiles' = IF NumSpectatorFiles <= 0 THEN SpectatorFiles
                       ELSE [i \in Numbers |-> Flush(SpectatorFiles[i])]
  /\ UNCHANGED <<NumSpectatorFiles, nterms, outcome, sent>>

\* .clear: ClearSpectators, after which there are no expressions.
EndClear ==
  /\ ModuleIsDone /\ NewModule
  /\ Expressions' = [n \in Names |-> "none"]
  /\ SpectatorFiles' = [i \in Numbers |-> Clean]
  /\ NumSpectatorFiles' = 0
  /\ UNCHANGED <<nterms, outcome, sent>>

Init ==
  /\ SpectatorFiles = <<>> /\ NumSpectatorFiles = 0
  /\ Expressions = [n \in Names |-> "none"]
  /\ compiletype = 0 /\ tospectator = {} /\ copies = <<>> /\ copying = NotCopying
  /\ nterms = 0 /\ outcome = "running"
  /\ sent = [n \in Names |-> <<>>]

Next ==
  \/ \E n \in Names : CoCreateSpectator(n) \/ CoRemoveSpectator(n) \/ CoEmptySpectator(n)
                      \/ CoCopySpectator(n) \/ CoToSpectator(n)
  \/ Execute \/ PutInSpectator \/ StartCopy \/ GetFromSpectator \/ EndCopy
  \/ EndSort \/ EndClear

Spec == Init /\ [][Next]_vars

-----------------------------------------------------------------------------
(* Properties *)

TypeOK ==
  /\ \A i \in Numbers :
       /\ SpectatorFiles[i].name \in Names \cup {NoName}
       /\ SpectatorFiles[i].POfill \in 0..Len(SpectatorFiles[i].PObuffer)
       /\ Len(SpectatorFiles[i].PObuffer) <= POsize
       /\ SpectatorFiles[i].flags \subseteq {1, 2}
  /\ NumSpectatorFiles \in 0..Len(SpectatorFiles)
  /\ Expressions \in [Names -> {"none", "SPECTATOREXPRESSION", "DROPSPECTATOREXPRESSION"}]
  /\ compiletype \in 0..EXECUTE
  /\ outcome \in {"running", "null name", "incomplete"}

\* The array and the expressions agree: every spectator has one struct with its name and
\* no other struct has a name, and the count that CreateSpectator relies on to find a
\* hole is the number of structs in use, whatever was removed and created before.
NamesMatch ==
  /\ \A n \in Names :
       Cardinality(Named(n)) = IF Expressions[n] = "SPECTATOREXPRESSION" THEN 1 ELSE 0
  /\ NumSpectatorFiles = Cardinality(InUse)

\* An expression filled by CopySpectator has exactly the terms that were sent to the
\* spectator since it was created or emptied, in any number of modules, each once and
\* whole, although writing and reading go through one buffer and terms cross its end.
EveryTermComesBack ==
  /\ outcome # "incomplete"
  /\ copying.atend => copying.got = sent[copying.name]

=============================================================================
