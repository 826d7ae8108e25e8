----------------------------- MODULE MCSortBots -----------------------------
(* Outputs of four workers for the model checker. *)
EXTENDS SortBots

\* The longest output goes round its ring; the others hold terms that are equal to its
\* terms, with sums that stay or vanish in a sortbot or in the master, or nothing.
MCInputs ==
  { << <<<<1,1>>, <<2,1>>, <<3,1>>, <<4,1>>>>, <<<<2,1>>>>, <<<<1,-1>>, <<3,2>>>>, <<>> >>,
    << <<>>, <<<<2,2>>>>, <<<<2,-1>>, <<3,1>>>>, <<<<2,-1>>>> >> }
=============================================================================
