----------------------------- MODULE TermStream -----------------------------
(***************************************************************************)
(* What the block buffers of the final sort promise (the commentary of     *)
(* MasterMerge and PutToMaster in form/sources/threads.c): per expression, *)
(* the reader gets the terms of its input stream complete, in order, each  *)
(* exactly once, and then the end mark; the buffer can be used again for   *)
(* the next expression only after the reader has seen that end mark.       *)
(***************************************************************************)
EXTENDS Naturals, Sequences

CONSTANT Sizes  \* the sizes terms can have

VARIABLES sent,     \* the terms the writer has put, in order
          ended,    \* the writer has put the end mark
          received  \* the terms the reader has taken, in order

Init == sent = <<>> /\ ended = FALSE /\ received = <<>>

Put(size) == ~ended /\ sent' = Append(sent, size) /\ UNCHANGED <<ended, received>>

PutEnd == ~ended /\ ended' = TRUE /\ UNCHANGED <<sent, received>>

Take ==
  /\ Len(received) < Len(sent)
  /\ received' = Append(received, sent[Len(received) + 1])
  /\ UNCHANGED <<sent, ended>>

NextExpression ==
  /\ ended /\ received = sent
  /\ sent' = <<>> /\ ended' = FALSE /\ received' = <<>>

Next == (\E size \in Sizes : Put(size)) \/ PutEnd \/ Take \/ NextExpression

vars == <<sent, ended, received>>
Spec == Init /\ [][Next]_vars
=============================================================================
