----------------------------- MODULE MCScheduler -----------------------------
(* Instances of Scheduler for TLC. *)
EXTENDS SchedulerInv, SchedulerRefinement

\* The coroutines but Main are alike.
Alike == Permutations(Coro \ {Main})
=============================================================================
