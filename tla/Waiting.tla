------------------------------- MODULE Waiting -------------------------------
(***************************************************************************)
(* What the calls of src/coroutine.h that wait promise: a coroutine that   *)
(* waits for a signal, a time or its hardware looks whether that is there  *)
(* and falls asleep in one step, and it sleeps until just that event.      *)
(* There is no run queue, no timer queue and no alarm here; Scheduler      *)
(* implements this with all of them (SchedulerRefinement).                 *)
(***************************************************************************)
EXTENDS Integers

CONSTANTS
  Coro,         \* the coroutines
  Waitable,     \* what can be signalled; a coroutine is when it has exited
  NULL,
  Exited,       \* the value of the semaphore of a coroutine that has exited
  MaxTime       \* bound: time advances no further

VARIABLES
  value,    \* by Waitable: its semaphore
  asleep,   \* by coroutine: what it sleeps for, Awake when it does not
  armed,    \* by coroutine: its hardware is going to interrupt
  now

vars == <<value, asleep, armed, now>>

Awake == [for |-> "nothing", what |-> NULL]
Signal(w) == [for |-> "signal", what |-> w]
Time(t) == [for |-> "time", what |-> t]
Hardware == [for |-> "hardware", what |-> NULL]

\* Whoever sleeps for this wakes up.
Released(event) ==
  asleep' = [c \in Coro |-> IF asleep[c] = event THEN Awake ELSE asleep[c]]

FallsAsleep(c, event) ==
  /\ asleep[c] = Awake /\ asleep'[c] = event
  /\ asleep' = [asleep EXCEPT ![c] = event]

Init ==
  /\ value = [w \in Waitable |-> 0]
  /\ asleep = [c \in Coro |-> Awake]
  /\ armed = [c \in Coro |-> FALSE]
  /\ now = 0

\* A new life of a coroutine that nobody waits for yet.
start(c) ==
  /\ value' = [value EXCEPT ![c] = 0]
  /\ UNCHANGED <<armed, now, asleep>>
  /\ asleep[c] = Awake
  /\ \A d \in Coro : asleep[d] # Signal(c)

exit(h) ==
  /\ h \in Coro => asleep[h] = Awake
  /\ value' = [value EXCEPT ![h] = Exited]
  /\ Released(Signal(h))
  /\ UNCHANGED <<armed, now>>

signal(w) ==
  /\ value' = [value EXCEPT ![w] = @ + 1]
  /\ Released(Signal(w))
  /\ UNCHANGED <<armed, now>>

take(w) ==
  /\ value[w] > 0
  /\ value' = [value EXCEPT ![w] = @ - 1]
  /\ UNCHANGED <<asleep, armed, now>>

wait4signal(c, w) ==
  /\ UNCHANGED <<value, armed, now>>
  /\ value[w] = 0
  /\ FallsAsleep(c, Signal(w))

wait4time(c, t) ==
  /\ FallsAsleep(c, Time(t))
  /\ UNCHANGED <<value, armed, now>>

timeout(c) ==
  /\ \E t \in 0..now : asleep[c] = Time(t)
  /\ asleep' = [asleep EXCEPT ![c] = Awake]
  /\ UNCHANGED <<value, armed, now>>

arm(c) ==
  /\ armed' = [armed EXCEPT ![c] = TRUE]
  /\ UNCHANGED <<value, asleep, now>>

wait4wakeup(c) ==
  /\ armed[c]
  /\ FallsAsleep(c, Hardware)
  /\ UNCHANGED <<value, armed, now>>

interrupt(c) ==
  /\ armed[c]
  /\ armed' = [armed EXCEPT ![c] = FALSE]
  /\ asleep' = [asleep EXCEPT ![c] = IF @ = Hardware THEN Awake ELSE @]
  /\ UNCHANGED <<value, now>>

tick ==
  /\ now < MaxTime
  /\ now' = now + 1
  /\ UNCHANGED <<value, asleep, armed>>

Next ==
  \/ \E c \in Coro :
       \/ start(c) \/ arm(c) \/ wait4wakeup(c) \/ interrupt(c) \/ timeout(c)
       \/ \E t \in 0..MaxTime : wait4time(c, t)
       \/ \E w \in Waitable : wait4signal(c, w)
  \/ \E w \in Waitable : exit(w) \/ signal(w) \/ take(w)
  \/ tick

Spec == Init /\ [][Next]_vars
=============================================================================
