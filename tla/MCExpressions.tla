--------------------------- MODULE MCExpressions ---------------------------
(* The instance of Expressions that TLC checks; one name is like another. *)
EXTENDS Expressions, TLC

Symmetry == Permutations(Names)

=============================================================================
