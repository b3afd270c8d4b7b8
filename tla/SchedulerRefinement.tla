------------------------- MODULE SchedulerRefinement -------------------------
(***************************************************************************)
(* Scheduler implements Waiting: the two halves of each waiting call, the  *)
(* counter that absorbs an early wakeup, the lists and the alarm together  *)
(* amount to one step that looks and falls asleep, and to a sleep that     *)
(* ends with the event it was for.                                         *)
(***************************************************************************)
EXTENDS Scheduler

\* What a coroutine on waiting4timer sleeps for.  One that has called a
\* waiting function and is not there yet counts as awake.
SleepsFor(c) ==
  IF \A i \in DOMAIN waiting4timer : waiting4timer[i] # c THEN [for |-> "nothing", what |-> NULL]
  ELSE IF wakeuptime[c] \in Time THEN [for |-> "time", what |-> wakeuptime[c]]
  ELSE IF pc[c] = "wait" THEN [for |-> "signal", what |-> other[c]]
  ELSE [for |-> "hardware", what |-> NULL]

Asleep == [c \in Coro |-> SleepsFor(c)]

W == INSTANCE Waiting WITH
       value <- semaphore, asleep <- Asleep, Exited <- INT8_MAX

\* The scheduler keeps the promises of its waiting calls: no event is missed
\* between the look and the sleep, none ends somebody else's sleep, and no
\* timeout comes before its time.  yield_and_wait4signal(), wakeup_locked(),
\* schedule_next() and timeouthandler(), with any interrupt in between.
KeepsPromises == W!Spec
=============================================================================
