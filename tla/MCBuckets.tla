------------------------------ MODULE MCBuckets ------------------------------
(***************************************************************************)
(* Buckets and BucketMemory for TLC.  The master compiles statements only  *)
(* when no expression is executed; here they follow the expression.  The   *)
(* sizes of the two modules are not connected: a bucket of BucketSize      *)
(* terms stands for any.                                                   *)
(***************************************************************************)
EXTENDS Buckets, BucketMemory

MCInit == Init /\ InitMemory

Execute == Next /\ UNCHANGED memoryvars

Compile == mpc = "done" /\ NextMemory /\ UNCHANGED vars

MCSpec ==
  /\ MCInit
  /\ [][Execute \/ Compile]_<<vars, memoryvars>>
  /\ WF_vars(Master) /\ \A w \in Workers : WF_vars(Worker(w))
=============================================================================
