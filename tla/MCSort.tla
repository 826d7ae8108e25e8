------------------------------- MODULE MCSort -------------------------------
EXTENDS Sort, TLC

M == INSTANCE MergeTerms
MCSorting(s) == M!SplitMerge(s)
MCMerging(s) == M!Merged(s)

Setup(small, patches, fpatches, large) ==
  [TermsInSmall |-> small, MaxPatches |-> patches, MaxFpatches |-> fpatches,
   LargeTerms |-> large]
Run(setup, terms, subTerms, subSorts, keys, coefs) == setup @@
  [terms |-> terms, subTerms |-> subTerms, subSorts |-> subSorts,
   expressions |-> 1, keys |-> keys, coefs |-> coefs]

MCSettings ==
  { \* two cycles of stage 4: up to four groups of two patches
    Run(Setup(1, 1, 2, 9), 7, 0, 0, 2, {1, -1}),
    \* a last group that is empty
    Run(Setup(2, 1, 2, 9), 6, 0, 0, 2, {1, -1}),
    \* trees of up to four streams, and of three in the sort file
    Run(Setup(1, 4, 3, 9), 7, 0, 0, 2, {1, -1}),
    \* a large buffer limited by its space; small buffers that cancel
    Run(Setup(2, 3, 2, 3), 6, 0, 0, 2, {1, -1}),
    \* nested sorts with a sort file, up to the stage 4 that is refused
    Run(Setup(1, 1, 2, 9), 2, 5, 1, 2, {1, -1}),
    \* nested sorts without a sort file, with stage 4 in the outer sort
    Run(Setup(1, 2, 2, 9), 9, 2, 2, 1, {1, -1}),
    \* two expressions
    [Run(Setup(1, 1, 2, 9), 5, 0, 0, 1, {1, -1}) EXCEPT !.expressions = 2],
    \* the same, and the first leaves a stage file
    [Run(Setup(2, 1, 2, 9), 6, 0, 0, 1, {1, -1}) EXCEPT !.expressions = 2],
    \* SplitMerge
    Run(Setup(6, 1, 2, 9), 6, 0, 0, 3, {1, -1}) }

\* The algorithms are right for all small inputs: buffers of up to five terms, and merges of
\* up to three sorted patches of three keys or of four of two keys.
MCTerms(keys) == [key : keys, coef : {1, -1}]
MCPatches(keys) == {terms \in BoundedSeq(MCTerms(keys), 3) : Sorted(terms)}
ASSUME SortingIsRightHere == SortingIsRight(0..4, BoundedSeq(MCTerms(1..3), 5))
ASSUME MergingIsRightHere ==
  /\ MergingIsRight(0..4, BoundedSeq(MCPatches(1..3), 3) \ {<<>>})
  /\ MergingIsRight(0..3, [1..4 -> MCPatches(1..2)])
=============================================================================
