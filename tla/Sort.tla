-------------------------------- MODULE Sort --------------------------------
(***************************************************************************)
(* The sorting of terms (sort.c).  Terms are stored in the small buffer;   *)
(* when that is full it is sorted and becomes a patch of the large buffer; *)
(* when that is full its patches are merged to a patch of the sort file;   *)
(* when the sort file has as many patches as can be merged at once, their  *)
(* list is written behind them and a new group begins ("stage 4").  At the *)
(* end everything is merged to the output, in as many cycles as it takes,  *)
(* from the sort file to the stage file and back.                          *)
(*                                                                         *)
(* Sorts are nested: level 0 is the sort of an expression, level 1 the     *)
(* sort of the argument of a function, which is made while the terms of    *)
(* the expression are being generated.  The positions OldPosIn and         *)
(* OldPosOut and the stage file are shared by all levels.                  *)
(*                                                                         *)
(* A term is a key, which stands for everything that CompareTerms looks    *)
(* at, and a coefficient.  A file is a sequence of entries, patches and    *)
(* lists of patches, and a position in it the number of entries before.    *)
(* The algorithms that sort and merge are those of MergeTerms.             *)
(***************************************************************************)
EXTENDS Integers, SequencesExt

CONSTANTS
  Settings,       \* the setups (see SettingOK) and the bounds of the runs
  Sorting(_),     \* a sequence of terms sorted and added up (SplitMerge)
  Merging(_)      \* sorted sequences merged (MergePatches): the terms, how many less

SettingOK(s) ==
  /\ s.TermsInSmall \in Nat \ {0} /\ s.MaxPatches \in Nat \ {0} /\ s.MaxFpatches \in Nat \ {0, 1}
  /\ s.LargeTerms \in Nat /\ s.LargeTerms >= s.TermsInSmall  \* AllocSort: LargeSize >= 2*SmallSize
  /\ s.terms >= 0 /\ s.subTerms >= 0 /\ s.subSorts >= 0 /\ s.expressions >= 1
  /\ s.keys \in Nat \ {0} /\ s.coefs \subseteq Int \ {0}

ASSUME SettingsAssumption == \A s \in Settings : SettingOK(s)

VARIABLES
  setting,     \* the setup of this run
  sLevel,      \* AR.sLevel, -1 when no sort is going on
  S,           \* AN.FunSorts[0] and [1]: the buffers and patches of the levels
  files,       \* S->file of the two levels and AR.FoStage4[0]
  OldPosOut,   \* AN.OldPosOut: where the list of the last group was written
  OldPosIn,    \* AN.OldPosIn: the same of the file that is being merged
  merge,       \* what MergePatches(0) is doing
  result,      \* what EndSort gave: the output, and the argument of a function
  counter,     \* Expressions[AR.CurExpr].counter
  stored,      \* history: per level the terms given to StoreTerm, added up
  left         \* bounds: terms, terms of an argument, nested sorts and
               \* expressions that may still come
sortvars == <<setting, sLevel, S, files, OldPosOut, OldPosIn, merge, result,
              counter, stored, left>>

Levels == 0..1
File(level) == IF level = 0 THEN "sort" ELSE "sub"
Keys == 1..setting.keys
Terms == [key : Keys, coef : setting.coefs]

(***************************************************************************)
(* The buffers of a level and its sort file.  A context c holds what one   *)
(* call may change: the level's struct S, the file fout that is written    *)
(* and OldPosOut.                                                          *)
(***************************************************************************)
NoFile == [open |-> FALSE, data |-> <<>>]
NewFile == [open |-> TRUE, data |-> <<>>]
End(f) == Len(f.data)
Put(f, entry) == [f EXCEPT !.data = Append(@, entry)]

EmptySort == [sBuffer |-> <<>>, Patches |-> <<>>, fPatches |-> <<0>>,
              stage4 |-> FALSE, TermsLeft |-> 0]
fPatchN(s) == Len(s.fPatches) - 1    \* fPatches[0..fPatchN] in the code

\* The sums of the first numbers of a sequence, and the number of terms in patches.
Sums(f) == LET sum[n \in 0..Len(f)] == IF n = 0 THEN 0 ELSE sum[n - 1] + f[n] IN sum
NumberIn(patches) == Sums([i \in DOMAIN patches |-> Len(patches[i])])[Len(patches)]

\* The large buffer holds patches p: is there room for one of n more terms?
LargeBufferFull(p, n) ==
  \/ Len(p) >= setting.MaxPatches
  \/ NumberIn(p) + n > setting.LargeTerms

\* Mutant of GroupIsFull: off by one.
GroupIsOverfull(s) == fPatchN(s) > setting.MaxFpatches
\* As many patches as can be merged in one pass.
GroupIsFull(s) == fPatchN(s) >= setting.MaxFpatches

\* The list of a group: where its patches are and where the list of the
\* group before is.  A stage 4 for an argument ends the program.
StageSort(c) ==
  IF ~GroupIsFull(c.S) THEN c
  ELSE [c EXCEPT
          !.fout = Put(@, [patches |-> c.S.fPatches, before |-> c.OldPosOut]),
          !.OldPosOut = End(c.fout),
          !.S.fPatches = <<End(c.fout) + 1>>, !.S.stage4 = TRUE]
Forbidden(level, c) == level > 0 /\ GroupIsFull(c.S)

\* FileMake of MergePatches: the file is made and its positions set to zero.
FileMake(c) == [c EXCEPT !.fout = NewFile, !.OldPosOut = 0, !.S.fPatches = <<0>>]

\* A new patch at the end of the file.
AddPatch(c, terms) == [c EXCEPT !.fout = Put(@, [terms |-> terms]),
                                !.S.fPatches = Append(@, End(c.fout) + 1)]

\* MergePatches(1): the large buffer goes to the sort file.
ToSortFile(c) == IF c.fout.open THEN c ELSE FileMake(c)
WriteLargeBuffer(c) ==
  LET m == Merging(c.S.Patches)
  IN [AddPatch(StageSort(ToSortFile(c)), m.out) EXCEPT !.S.TermsLeft = @ - m.less]

Context(level) == [S |-> S[level], fout |-> files[File(level)], OldPosOut |-> OldPosOut]
Keep(level, c) == /\ S' = [S EXCEPT ![level] = c.S]
                  /\ files' = [files EXCEPT ![File(level)] = c.fout]
                  /\ OldPosOut' = c.OldPosOut

\* Mutant of SmallBufferSorted: the count stays as it was.
SmallBufferUncounted(c) == [c EXCEPT !.S.sBuffer = Sorting(@)]
\* The small buffer, sorted, and the count of the terms that are left.
SmallBufferSorted(c) ==
  LET ss == Sorting(c.S.sBuffer)
  IN [c EXCEPT !.S.sBuffer = ss, !.S.TermsLeft = @ - (Len(c.S.sBuffer) - Len(ss))]

\* The sorted small buffer becomes a patch of the large buffer.
AddToLargeBuffer(c) == [c EXCEPT !.S.Patches = Append(@, c.S.sBuffer), !.S.sBuffer = <<>>]

EmptyLargeBuffer(c) == [c EXCEPT !.S.Patches = <<>>]

(***************************************************************************)
(* NewSort and StoreTerm.                                                  *)
(***************************************************************************)
NotWritten == [written |-> FALSE, terms |-> <<>>]
NotMerging == [at |-> "no", fin |-> "sort", iPatches |-> <<>>]
NoTerms == [key \in Keys |-> 0]

InitSort ==
  /\ setting \in Settings
  /\ sLevel = -1
  /\ S = [level \in Levels |-> EmptySort]
  /\ files = [f \in {"sort", "sub", "stage"} |-> NoFile]
  /\ OldPosOut = 0 /\ OldPosIn = 0
  /\ merge = NotMerging
  /\ result = [level \in Levels |-> NotWritten]
  /\ counter = 0
  /\ stored = [level \in Levels |-> NoTerms]
  /\ left = [terms |-> setting.terms, subTerms |-> 0,
             subSorts |-> setting.subSorts, expressions |-> setting.expressions]

Idle == merge.at = "no"

\* What the caller still has to do: an expression, or an argument in it.
MayBegin == IF sLevel = -1 THEN left.expressions > 0
            ELSE sLevel = 0 /\ left.subSorts > 0
Begun == IF sLevel = -1
         THEN [left EXCEPT !.expressions = @ - 1, !.terms = setting.terms]
         ELSE [left EXCEPT !.subSorts = @ - 1, !.subTerms = setting.subTerms]
MayStore == IF sLevel = 0 THEN left.terms > 0 ELSE left.subTerms > 0
OneLess == IF sLevel = 0 THEN [left EXCEPT !.terms = @ - 1]
                         ELSE [left EXCEPT !.subTerms = @ - 1]

NewSort ==
  /\ Idle /\ MayBegin
  /\ sLevel' = sLevel + 1
  /\ S' = [S EXCEPT ![sLevel + 1] = EmptySort]
  /\ result' = [result EXCEPT ![sLevel + 1] = NotWritten]
  /\ stored' = [stored EXCEPT ![sLevel + 1] = NoTerms]
  /\ left' = Begun
  /\ UNCHANGED <<setting, files, OldPosOut, OldPosIn, merge, counter>>

SmallBufferFull(c) == Len(c.S.sBuffer) >= setting.TermsInSmall

\* The full small buffer goes to the large buffer, which first, if it is too
\* full itself, goes to the sort file.
MakeRoom(c) ==
  LET sorted == SmallBufferSorted(c)
      full == LargeBufferFull(c.S.Patches, Len(sorted.S.sBuffer))
  IN AddToLargeBuffer(IF full THEN EmptyLargeBuffer(WriteLargeBuffer(sorted)) ELSE sorted)

\* Stage 4 is asked for where the program refuses it.
Refused(level, c) ==
  Forbidden(level, ToSortFile(c))
    /\ LargeBufferFull(c.S.Patches, Len(Sorting(c.S.sBuffer)))

Terminate == /\ merge' = [NotMerging EXCEPT !.at = "terminated"]
             /\ UNCHANGED <<setting, sLevel, S, files, OldPosOut, OldPosIn, result,
                            counter, stored, left>>

StoreTerm(term) ==
  LET c == Context(sLevel)
      roomy == IF SmallBufferFull(c) THEN MakeRoom(c) ELSE c
  IN
  /\ Idle /\ sLevel >= 0 /\ MayStore
  /\ IF SmallBufferFull(c) /\ Refused(sLevel, c)
     THEN Terminate
     ELSE /\ Keep(sLevel, [roomy EXCEPT !.S.sBuffer = Append(@, term),
                                        !.S.TermsLeft = @ + 1])
          /\ stored' = [stored EXCEPT ![sLevel][term.key] = @ + term.coef]
          /\ left' = OneLess
          /\ UNCHANGED <<setting, sLevel, OldPosIn, merge, result, counter>>

(***************************************************************************)
(* EndSort.  The end of it, when the result is there (or not):             *)
(***************************************************************************)
Return(level, s, res) ==
  /\ sLevel' = level - 1
  /\ result' = [result EXCEPT ![level] = res]
  /\ counter' = IF level = 0 THEN s.TermsLeft ELSE counter
  /\ S' = [S EXCEPT ![level] = s]
  /\ merge' = NotMerging
  /\ UNCHANGED <<setting, stored, left>>
Output(terms) == [written |-> TRUE, terms |-> terms]

\* Nothing but the small buffer: it goes to the output directly.
EndFromSmallBuffer ==
  LET c == Context(sLevel)
      ss == Sorting(c.S.sBuffer)
  IN
  /\ Idle /\ sLevel >= 0
  /\ c.S.Patches = <<>> /\ ~c.fout.open
  /\ Return(sLevel, [c.S EXCEPT !.TermsLeft = IF sLevel = 0 THEN Len(ss) ELSE @],
            Output(ss))
  /\ UNCHANGED <<files, OldPosOut, OldPosIn>>

\* The small buffer fits in the large one and there is no sort file:
\* MergePatches(2) merges the large buffer to the output.
EndFromLargeBuffer ==
  LET c == AddToLargeBuffer(SmallBufferSorted(Context(sLevel)))
      m == Merging(c.S.Patches)
  IN
  /\ Idle /\ sLevel >= 0
  /\ S[sLevel].Patches # <<>> /\ ~c.fout.open
  /\ ~LargeBufferFull(S[sLevel].Patches, Len(Last(c.S.Patches)))
  /\ Return(sLevel, [c.S EXCEPT !.TermsLeft = @ - m.less], Output(m.out))
  /\ UNCHANGED <<files, OldPosOut, OldPosIn>>

\* There is, or there must be, a sort file.  If the small buffer fits it is
\* written with the large one, otherwise as a patch of its own, unless all
\* its terms cancelled.
ToFile(c) ==
  LET sorted == SmallBufferSorted(c)
      full == LargeBufferFull(c.S.Patches, Len(sorted.S.sBuffer))
      staged == StageSort(EmptyLargeBuffer(WriteLargeBuffer(sorted)))
  IN IF ~full THEN EmptyLargeBuffer(WriteLargeBuffer(AddToLargeBuffer(sorted)))
     ELSE IF sorted.S.sBuffer = <<>> THEN staged
     ELSE [AddPatch(staged, sorted.S.sBuffer) EXCEPT !.S.sBuffer = <<>>]

\* The second StageSort of EndSort, after the large buffer was written.
RefusedAtEnd(level, c) ==
  LET sorted == SmallBufferSorted(c) IN
  \/ Forbidden(level, ToSortFile(c))
  \/ /\ LargeBufferFull(c.S.Patches, Len(sorted.S.sBuffer))
     /\ Forbidden(level, WriteLargeBuffer(sorted))

EndFromFile ==
  LET c == Context(sLevel)
      full == LargeBufferFull(c.S.Patches, Len(Sorting(c.S.sBuffer)))
  IN
  /\ Idle /\ sLevel >= 0
  /\ c.S.Patches # <<>> /\ (c.fout.open \/ full)
  /\ IF RefusedAtEnd(sLevel, c)
     THEN Terminate
     ELSE /\ Keep(sLevel, ToFile(c))
          /\ merge' = [NotMerging EXCEPT !.at = "newmerge", !.fin = File(sLevel)]
          /\ UNCHANGED <<setting, sLevel, OldPosIn, result, counter, stored, left>>

(***************************************************************************)
(* MergePatches(0).  It changes between the sort file and the stage file   *)
(* as long as one pass is not enough.                                      *)
(***************************************************************************)
OtherFile(f) == IF f = "sort" THEN "stage" ELSE "sort"
PatchesOf(f, patches) == [i \in 1..Len(patches) - 1 |-> files[f].data[patches[i] + 1].terms]
\* Mutant of Close: always the file of the level, not the one just read.
CloseOwnFile(f) == [files EXCEPT ![File(sLevel)] = NoFile]
Close(f) == [files EXCEPT ![f] = NoFile]

\* One pass is enough: to the output.  EndSort closes the sort file if the
\* merge has not done it.
LastPass ==
  LET s == S[sLevel]
      m == Merging(PatchesOf(merge.fin, s.fPatches))
  IN
  /\ merge.at = "newmerge" /\ ~s.stage4
  /\ Return(sLevel, [s EXCEPT !.TermsLeft = @ - m.less], Output(m.out))
  /\ files' = Close(merge.fin)
  /\ UNCHANGED <<OldPosOut, OldPosIn>>

\* More are needed: the other file is made, and the last group is the first
\* to be merged.
BeginCycle ==
  LET c == FileMake([S |-> S[sLevel], fout |-> files[OtherFile(merge.fin)],
                     OldPosOut |-> OldPosOut])
  IN
  /\ merge.at = "newmerge" /\ S[sLevel].stage4
  /\ merge' = [merge EXCEPT !.at = "group", !.iPatches = S[sLevel].fPatches]
  /\ OldPosIn' = OldPosOut
  /\ S' = [S EXCEPT ![sLevel] = [c.S EXCEPT !.stage4 = FALSE]]
  /\ files' = [files EXCEPT ![OtherFile(merge.fin)] = c.fout]
  /\ OldPosOut' = c.OldPosOut
  /\ UNCHANGED <<setting, sLevel, result, counter, stored, left>>

\* Mutant of GroupsLeft: the position of the other file is tested.
GroupsLeftOut == OldPosOut # 0
GroupsLeft == OldPosIn # 0
NextGroup == files[merge.fin].data[OldPosIn + 1]

\* One group is merged to a patch of the other file; then the list of the
\* group before it is read, or, after the first group of the file, the two
\* files change places.
MergeGroup ==
  LET m == Merging(PatchesOf(merge.fin, merge.iPatches))
      f == OtherFile(merge.fin)
      c == AddPatch(StageSort([S |-> S[sLevel], fout |-> files[f],
                               OldPosOut |-> OldPosOut]), m.out)
  IN
  /\ merge.at = "group" /\ Len(merge.iPatches) > 1
  /\ S' = [S EXCEPT ![sLevel] = [c.S EXCEPT !.TermsLeft = @ - m.less]]
  /\ OldPosOut' = c.OldPosOut
  /\ IF GroupsLeft
     THEN /\ merge' = [merge EXCEPT !.iPatches = NextGroup.patches]
          /\ OldPosIn' = NextGroup.before
          /\ files' = [files EXCEPT ![f] = c.fout]
     ELSE /\ merge' = [merge EXCEPT !.at = "newmerge", !.fin = f, !.iPatches = <<>>]
          /\ OldPosIn' = OldPosIn
          /\ files' = [Close(merge.fin) EXCEPT ![f] = c.fout]
  /\ UNCHANGED <<setting, sLevel, result, counter, stored, left>>

\* A last group without patches: MergePatches returns at once, and EndSort
\* closes the sort file.
NoGroup ==
  /\ merge.at = "group" /\ Len(merge.iPatches) = 1
  /\ Return(sLevel, S[sLevel], NotWritten)
  /\ files' = Close(File(sLevel))
  /\ UNCHANGED <<OldPosOut, OldPosIn>>

EndSort == EndFromSmallBuffer \/ EndFromLargeBuffer \/ EndFromFile
MergePatches == LastPass \/ BeginCycle \/ MergeGroup \/ NoGroup

NextSort == NewSort \/ (\E term \in Terms : StoreTerm(term)) \/ EndSort \/ MergePatches
SpecSort == InitSort /\ [][NextSort]_sortvars

(***************************************************************************)
(* Properties.                                                             *)
(***************************************************************************)
KeySum(terms, key) ==
  Sums([i \in DOMAIN terms |-> IF terms[i].key = key THEN terms[i].coef ELSE 0])[Len(terms)]
SumOf(terms) == [key \in Keys |-> KeySum(terms, key)]
Sorted(terms) == /\ \A i \in 1..Len(terms) - 1 : terms[i].key < terms[i + 1].key
                 /\ \A i \in 1..Len(terms) : terms[i].coef # 0

\* What EndSort has written, whichever way the terms took, is sorted, has no
\* two terms that could be added, and is the sum of what was stored.  (When
\* the last group is empty nothing at all is written: see NoGroup.)
OutputIsTheSum == \A level \in Levels :
  result[level].written /\ level > sLevel =>
    Sorted(result[level].terms) /\ SumOf(result[level].terms) = stored[level]

\* The number of terms in a group of file f and in the groups before it.
InFile(f, patches, before) ==
  LET Behind[p \in 0..End(files[f])] ==
        IF p = 0 THEN 0
        ELSE LET list == files[f].data[p + 1]
             IN NumberIn(PatchesOf(f, list.patches))
                + IF list.before \in 0..p - 1 THEN Behind[list.before] ELSE 0
  IN NumberIn(PatchesOf(f, patches)) + Behind[before]

\* The number of terms of a level: in the buffers, in the groups of the sort
\* file that can still be found, and in the file to which they are being merged.
Held(level) ==
  LET merging == merge.at \in {"newmerge", "group"} /\ level = sLevel
      f == IF merge.at = "group" THEN OtherFile(merge.fin) ELSE merge.fin
  IN Len(S[level].sBuffer) + NumberIn(S[level].Patches)
     + (IF merge.at = "group" /\ merging
        THEN InFile(merge.fin, merge.iPatches, OldPosIn) ELSE 0)
     + (IF merging THEN InFile(f, S[level].fPatches, OldPosOut)
        ELSE IF files[File(level)].open
             THEN InFile(File(level), S[level].fPatches,
                         IF level = 0 THEN OldPosOut ELSE 0)
             ELSE 0)

\* TermsLeft, which the statistics print and which becomes the number of
\* terms of the expression, is at every moment the number of terms that are
\* held, after any additions, cancellations, stages and nested sorts.
TermsLeftExact ==
  /\ \A level \in 0..sLevel : S[level].TermsLeft = Held(level)
  /\ result[0].written => counter = Len(result[0].terms)

\* No merge has more streams than the arrays of AllocSort have room for.
PatchesFit ==
  /\ \A level \in Levels : /\ Len(S[level].Patches) <= setting.MaxPatches
                           /\ fPatchN(S[level]) <= setting.MaxFpatches
  /\ Len(merge.iPatches) <= setting.MaxFpatches + 1

\* A sort leaves no file behind, in whichever of the files its merge ended, but for a
\* stage file that was made for an empty group (NoGroup) and has nothing in it.
FilesClosed ==
  /\ sLevel < 1 => ~files["sub"].open
  /\ sLevel = -1 => ~files["sort"].open /\ files["stage"].data = <<>>

(***************************************************************************)
(* What OutputIsTheSum and TermsLeftExact rest on: that the algorithms are *)
(* right, for the sums of the given keys and the given buffers and patches *)
(* (at least one, each sorted); and that no nested sort makes a file while *)
(* its outer sort has groups, the list of which it would lose.             *)
(***************************************************************************)
AnyTerm == [key : Nat, coef : Int \ {0}]
SortedTerms == {terms \in Seq(AnyTerm) : Sorted(terms)}

SortingIsRight(keys, buffers) == \A terms \in buffers :
  LET out == Sorting(terms)
  IN /\ out \in Seq(AnyTerm) /\ Sorted(out) /\ Len(out) <= Len(terms)
     /\ \A key \in keys : KeySum(out, key) = KeySum(terms, key)

MergingIsRight(keys, merges) == \A patches \in merges :
  LET m == Merging(patches)
  IN /\ m.out \in Seq(AnyTerm) /\ Sorted(m.out) /\ m.less = NumberIn(patches) - Len(m.out)
     /\ \A key \in keys : KeySum(m.out, key) =
          Sums([i \in DOMAIN patches |-> KeySum(patches[i], key)])[Len(patches)]

AlgorithmsRight == /\ SortingIsRight(Nat, Seq(AnyTerm))
                   /\ MergingIsRight(Nat, Seq(SortedTerms) \ {<<>>})

NestedKeepsGroups == ~(files["sub"].open /\ S[0].stage4)
=============================================================================
