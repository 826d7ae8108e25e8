-------------------------- MODULE ThreadPoolClear --------------------------
(***************************************************************************)
(* ThreadPool with the .clear instruction: FullCleanUp is followed by      *)
(* ClearAllThreads, which waits for all workers and then sends every one   *)
(* of them CLEARCLOCK, without taking it from the stack of available       *)
(* workers.                                                                *)
(***************************************************************************)
EXTENDS ThreadPool

CONSTANT MaxClears  \* bound: .clear instructions in the user's program
VARIABLE clears     \* .clear instructions so far

BeginClear ==
  /\ mpc = "choose" /\ clears < MaxClears
  /\ clears' = clears + 1
  /\ Goto("clear", "waitall")
  /\ UNCHANGED <<listvars, availabilitylock, wakeuplocks, wakeup, wakeupmaster,
                 numberclaimed, workervars, mid, exprtodo, tasks, exprs, spurious>>

ClearNext == BeginClear \/ (Next /\ UNCHANGED clears)

ClearSpec == Init /\ clears = 0 /\ [][ClearNext]_<<vars, clears>>
=============================================================================
