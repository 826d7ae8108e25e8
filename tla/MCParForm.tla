----------------------------- MODULE MCParForm ------------------------------
(* Programs of one or two jobs for the model checker. *)
EXTENDS ParForm

\* What is generated from three terms overlaps, adds up and cancels.  What one term makes
\* fills three buffers.
Three == << <<1,1,0>>, <<0,-1,0>>, <<1,0,0>> >>
One   == << <<1,1,1>> >>

MCPrograms ==
  { << [kind |-> "terms", terms |-> Three] >>,
    << [kind |-> "terms", terms |-> <<>>], [kind |-> "terms", terms |-> One] >>,
    << [kind |-> "expressions", number |-> 2], [kind |-> "terms", terms |-> <<>>] >>,
    << [kind |-> "expressions", number |-> 4] >> }
=============================================================================
