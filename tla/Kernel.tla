------------------------------- MODULE Kernel -------------------------------
(***************************************************************************)
(* What the coroutines of a driver and its clients rely on: the scheduler  *)
(* of src/coroutine.cpp without its timers, with each call one step.  The  *)
(* races inside the calls are the subject of Scheduler.                    *)
(***************************************************************************)
EXTENDS ListOps

CONSTANTS
  NULL,
  INT8_MAX      \* the most that Waitable::semaphore, an int8_t, can hold

ASSUME KernelAssumption == INT8_MAX \in Nat \ {0}

VARIABLES
  ready2run,    \* list of coroutines; its head is the running one
  waitchain,    \* by Waitable: the coroutine that is chained, or NULL
  semaphore     \* by Waitable

kernel == <<ready2run, waitchain, semaphore>>

Runs(p) == ready2run # <<>> /\ ll_peek_head(ready2run) = p

\* yield(): p, which runs, goes to the back.
Yields(p) == ready2run' = ll_push_back(ll_pop_front(ready2run), p)

\* yield_and_start(): so does p, behind the coroutine that it starts.
Starts(p, new) ==
  ready2run' = ll_push_back(ll_push_back(ll_pop_front(ready2run), new), p)

\* yield_and_wait4wakeup() and yield_and_exit(): it leaves the run queue.
Leaves(p) == ready2run' = ll_pop_front(ready2run)

\* wakeup() of p, which is not running.
Wakes(p) == ready2run' = ll_push_back(ready2run, p)

Int8 == -INT8_MAX - 1..INT8_MAX

\* ++ on an int8_t.
Increment(n) == IF n = INT8_MAX THEN -INT8_MAX - 1 ELSE n + 1

\* signal(): one more signal, and the coroutine that is chained wakes up.
Signals(w) ==
  /\ semaphore' = [semaphore EXCEPT ![w] = Increment(@)]
  /\ waitchain' = [waitchain EXCEPT ![w] = NULL]
  /\ IF waitchain[w] # NULL THEN Wakes(waitchain[w]) ELSE UNCHANGED ready2run

\* yield_and_wait4signal(): p consumes a signal and returns,
Takes(w) ==
  /\ semaphore[w] > 0
  /\ semaphore' = [semaphore EXCEPT ![w] = @ - 1]
  /\ UNCHANGED <<ready2run, waitchain>>

\* or is chained, in the place of whoever was, and falls asleep.
Chains(p, w) ==
  /\ semaphore[w] <= 0
  /\ waitchain' = [waitchain EXCEPT ![w] = p]
  /\ Leaves(p)
  /\ UNCHANGED semaphore
=============================================================================
