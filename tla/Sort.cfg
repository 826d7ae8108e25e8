CONSTANT Settings <- MCSettings
CONSTANT Sorting <- MCSorting
CONSTANT Merging <- MCMerging
SPECIFICATION SpecSort
INVARIANT OutputIsTheSum
INVARIANT TermsLeftExact
INVARIANT PatchesFit
INVARIANT FilesClosed
\* The program ends.
CHECK_DEADLOCK FALSE
