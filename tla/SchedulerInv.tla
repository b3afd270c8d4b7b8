----------------------------- MODULE SchedulerInv -----------------------------
(***************************************************************************)
(* The inductive invariant of Scheduler: what its safety properties rest   *)
(* on but do not say themselves.                                           *)
(***************************************************************************)
EXTENDS Scheduler

\* Some interrupt or signal() may still call wakeup_locked() for c.
Wakeable(c) == armed[c] \/ \E w \in Waitable : waitchain[w] = c

\* The head of the run queue executes, or is on its way into schedule_next().
Active(h) == cpu \in {"coro", "yield"} /\ h = Current

\* Where the control of the cpu is, in terms of the lists.
CpuInv ==
  /\ cpu \in {"coro", "yield"} => ready2run # <<>>
  /\ cpu \in {"boot", "sched"} => ~irq
  /\ cpu = "boot" => /\ ready2run = <<>> /\ waiting4timer = <<>>
                     /\ \A h \in Header : sp[h] = "null" /\ sleepcount[h] = 0
  /\ cpu # "boot" => exiting[initialisercoro]

\* Where the code of each coroutine is, and what its other is used for.
PcInv ==
  \A c \in Coro :
    /\ pc[c] \in {"wait", "chained", "poll"} <=> other[c] # NULL
    /\ pc[c] \in {"armed", "chained"} => cpu = "coro" /\ c = Current
    /\ ~is_live(c) => pc[c] = "app"
    /\ armed[c] => pc[c] \in {"app", "armed"}

\* Who is chained waits for that Waitable.
ChainInv ==
  \A w \in Waitable : \A c \in Coro :
    waitchain[w] = c => other[c] = w /\ pc[c] \in {"wait", "chained"}

\* Whoever may be woken sleeps without a timeout, or is about to.
WakeableInv ==
  \A c \in Coro : Wakeable(c) =>
    /\ is_live(c)
    /\ \/ /\ c \in ToSet(waiting4timer)
          /\ wakeuptime[c] = at_the_end_of_time
       \/ /\ cpu = "yield" /\ c = Current
          /\ sleepcount[c] = 1 /\ wakeuptime[c] = at_the_end_of_time
       \/ cpu = "coro" /\ c = Current /\ pc[c] \in {"armed", "chained"}

\* sleepcount is one for who sleeps and zero for who is ready.  It differs for
\* the active coroutine only: one if it is about to sleep, minus one if it was
\* woken before it got to that.
SleepInv ==
  /\ \A c \in ToSet(waiting4timer) : sleepcount[c] = 1
  /\ \A h \in ToSet(ready2run) : ~Active(h) => sleepcount[h] = 0
  /\ cpu = "yield" => sleepcount[Current] \in {0, 1}
  /\ cpu = "coro" => sleepcount[Current] =
       IF pc[Current] \in {"armed", "chained"} /\ ~Wakeable(Current) THEN -1 ELSE 0

\* Only the active coroutine exits, and not while it is asleep.
ExitInv ==
  /\ \A h \in ToSet(ready2run) :
       exiting[h] => /\ cpu = "yield" /\ h = Current /\ sleepcount[h] = 0
                     /\ h \in Coro => pc[h] = "app"
  /\ \A c \in ToSet(waiting4timer) : ~exiting[c]

IInv ==
  /\ TypeOK /\ NothingLost /\ NoStrayAlarm
  /\ CpuInv /\ PcInv /\ ChainInv /\ WakeableInv /\ SleepInv /\ ExitInv

-----------------------------------------------------------------------------
(* What the waiting calls rest on in addition, when the contract is kept.  *)

\* A Waitable has one waiter, and a coroutine that is waited for was started.
WaiterInv ==
  \A c \in Coro : \A w \in Waitable : Awaits(c, w) =>
    /\ \A d \in Coro : Awaits(d, w) => d = c
    /\ w \in Coro => sp[w] # "null"

\* Whoever sleeps without a timeout, or is about to, may still be woken.
SleeperInv ==
  /\ \A c \in ToSet(waiting4timer) :
       wakeuptime[c] = at_the_end_of_time => Wakeable(c)
  /\ cpu = "yield" /\ sleepcount[Current] = 1
       /\ wakeuptime[Current] = at_the_end_of_time => Wakeable(Current)

\* No semaphore has wrapped around.
SemaphoreInv == \A w \in Waitable : semaphore[w] >= 0

WaitInv == WaiterInv /\ SleeperInv /\ SignalledHasNoWaiter /\ SemaphoreInv
-----------------------------------------------------------------------------
(* What SleeperHasAlarm rests on in addition, with any contract.           *)

\* Between two runs of prime_scheduler_timer_locked() the alarm is the one for
\* soonesttime2wake, and no sleeper is due before that.
TimerInv ==
  /\ TimerSorted
  /\ soonesttime2wake \in Time => \E a \in alarms : a.time = soonesttime2wake
  /\ ~Priming =>
       \A c \in ToSet(waiting4timer) : soonesttime2wake <= wakeuptime[c]
=============================================================================
