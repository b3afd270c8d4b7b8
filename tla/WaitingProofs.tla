---------------------------- MODULE WaitingProofs ----------------------------
(***************************************************************************)
(* When coroutines keep the contract and no semaphore overflows, no wakeup *)
(* is lost, and Scheduler implements Waiting: WaitInv is an invariant, and *)
(* with it each step of Scheduler is a step of Waiting or none.            *)
(***************************************************************************)
EXTENDS SchedulerProofs, SchedulerRefinement

USE SchedulerAssumption
USE DEF lists, timer, sleep, signals, code, ll_peek_head

\* The contract: only coroutines that were started are waited for, none is
\* started again while it is, and 128 signals do not pile up.
Contract == Lax = {} /\ SemBound <= INT8_MAX

\* Who waited for a Waitable still does, or has stopped.
LEMMA WaiterKept ==
  ASSUME WaiterInv,
         \A c \in Coro : \A w \in Waitable : Awaits(c, w)' => Awaits(c, w),
         \A w \in Coro : sp[w] # "null" => sp'[w] # "null"
  PROVE  WaiterInv'
BY DEF WaiterInv

\* Who slept may still be woken, or has stopped sleeping.
LEMMA SleeperKept ==
  ASSUME SleeperInv,
         ToSet(waiting4timer') \subseteq ToSet(waiting4timer),
         \A d \in ToSet(waiting4timer') :
           /\ wakeuptime'[d] = wakeuptime[d]
           /\ wakeuptime[d] = at_the_end_of_time /\ Wakeable(d) => Wakeable(d)',
         cpu' = "yield" /\ sleepcount'[Current'] = 1
           /\ wakeuptime'[Current'] = at_the_end_of_time => Wakeable(Current)'
  PROVE  SleeperInv'
BY DEF SleeperInv

\* A coroutine that sleeps without a timeout is known to the Waitable it waits
\* for, or to its hardware, and to nobody else.
LEMMA SleeperFacts ==
  ASSUME IInv, WaitInv, NEW c \in ToSet(waiting4timer), wakeuptime[c] \notin Time
  PROVE  /\ c \in Coro /\ wakeuptime[c] = at_the_end_of_time
         /\ pc[c] = "wait" => /\ ~armed[c] /\ other[c] \in Waitable
                              /\ waitchain[other[c]] = c
         /\ pc[c] # "wait" => /\ armed[c]
                              /\ \A w \in Waitable : waitchain[w] # c
<1>1. c \in Coro /\ c \in Header
  BY ListFacts DEF Header
<1>2. wakeuptime[c] = at_the_end_of_time
  BY <1>1 DEF IInv, TypeOK
<1>3. Wakeable(c)
  BY <1>2 DEF WaitInv, SleeperInv
<1>4. pc[c] # "chained"
  BY <1>1, ListFacts DEF IInv, PcInv, CpuInv
<1>5. \A w \in Waitable : waitchain[w] = c => pc[c] = "wait" /\ other[c] = w
  BY <1>1, <1>4 DEF IInv, ChainInv
<1>6. armed[c] => pc[c] # "wait"
  BY <1>1 DEF IInv, PcInv
<1> QED BY <1>1, <1>2, <1>3, <1>5, <1>6 DEF Wakeable

\* The steps of the running coroutine, one by one.
LEMMA Wait_OwnCode ==
  ASSUME Contract, IInv, WaitInv, NEW c \in Coro, OwnCode(c)
  PROVE  WaitInv'
<1>1. /\ c = Current /\ cpu = "coro" /\ ~irq /\ Running(c)
      /\ c \notin ToSet(waiting4timer) /\ is_live(c) /\ c \in Header
      /\ UNCHANGED <<lists, timer, sp, irq, now>> /\ Current' = Current
      /\ \A h \in Header : h # c => wakeuptime'[h] = wakeuptime[h]
      /\ \A d \in Coro : d # c => pc'[d] = pc[d] /\ other'[d] = other[d]
  BY OwnCodeFacts, ListFacts DEF Running, Current, Header, IInv, CpuInv
<1>2. /\ pc[c] \notin {"armed", "chained"} => sleepcount[c] = 0
      /\ pc[c] \in {"armed", "chained"} =>
           sleepcount[c] = IF Wakeable(c) THEN 0 ELSE -1
  BY <1>1, RunningFacts
<1>3. /\ semaphore \in [Waitable -> -INT8_MAX - 1 .. INT8_MAX]
      /\ waitchain \in [Waitable -> Coro \cup {NULL}]
      /\ pc \in [Coro -> {"app", "armed", "wait", "chained", "poll"}]
      /\ other \in [Coro -> Coro \cup Event \cup {NULL}]
      /\ armed \in [Coro -> BOOLEAN]
      /\ sleepcount \in [Header -> -INT8_MAX - 1 .. INT8_MAX]
      /\ wakeuptime \in [Header -> Time \cup {at_the_end_of_time}]
  BY DEF IInv, TypeOK
<1>4. /\ \A d \in ToSet(waiting4timer) : d # c /\ d \in Header
      /\ \A w \in Coro \cup Event : w \in Waitable
      /\ at_the_end_of_time \notin Time
  BY <1>1, ListFacts DEF Header, Waitable, Time, at_the_end_of_time
<1>5. ASSUME UNCHANGED <<pc, other>> \/ pc'[c] \notin {"wait", "chained"}
      PROVE  WaiterInv'
  BY <1>1, <1>5, WaiterKept DEF WaitInv, Awaits
<1>6. CASE yield(c) \/ yield_and_exit(c)
  <2>1. UNCHANGED <<waitchain, semaphore, pc, other, armed, sleep>>
        /\ sleepcount[c] = 0
    BY <1>2, <1>6 DEF yield, yield_and_exit
  <2>2. SleeperInv'
    BY <1>1, <2>1, SleeperKept DEF WaitInv, Wakeable
  <2> QED BY <1>5, <2>1, <2>2 DEF WaitInv, SignalledHasNoWaiter, SemaphoreInv
<1>7. CASE arm(c)
  <2>1. /\ UNCHANGED <<waitchain, semaphore, other, sleep, cpu>>
        /\ pc'[c] = "armed" /\ \A d \in Coro : armed[d] => armed'[d]
    BY <1>3, <1>7 DEF arm
  <2>2. SleeperInv'
    BY <1>1, <2>1, ListFacts, SleeperKept DEF WaitInv, Wakeable
  <2> QED BY <1>5, <2>1, <2>2 DEF WaitInv, SignalledHasNoWaiter, SemaphoreInv
<1>8. CASE yield_and_wait4wakeup(c)
  <2>1. /\ UNCHANGED <<waitchain, semaphore, other, armed>>
        /\ pc[c] \in {"armed", "chained"}
        /\ pc' = [pc EXCEPT ![c] = IF @ = "armed" THEN "app" ELSE "wait"]
        /\ sleepcount' = [sleepcount EXCEPT ![c] = Int8(@ + 1)]
    BY <1>8 DEF yield_and_wait4wakeup, fall_asleep
  <2>2. sleepcount'[c] = 1 => Wakeable(c)
    BY <1>1, <1>2, <1>3, <2>1, Int8Step
  <2>3. SleeperInv'
    BY <1>1, <1>4, <2>1, <2>2, SleeperKept DEF WaitInv, Wakeable
  <2>4. WaiterInv'
    <3>1. \A d \in Coro : \A w \in Waitable : Awaits(d, w)' => Awaits(d, w)
      BY <1>1, <1>3, <2>1 DEF Awaits
    <3> QED BY <1>1, <3>1, WaiterKept DEF WaitInv
  <2> QED BY <2>1, <2>3, <2>4 DEF WaitInv, SignalledHasNoWaiter, SemaphoreInv
<1>9. CASE wait4signal_take(c)
  <2>1. PICK w \in Waitable : w = other[c]
    BY <1>3, <1>4, <1>9 DEF wait4signal_take, IInv, PcInv
  <2>2. /\ UNCHANGED <<waitchain, armed, sleep, cpu>> /\ semaphore[w] > 0
        /\ semaphore' = [semaphore EXCEPT ![w] = Int8(@ - 1)]
        /\ pc'[c] = "app"
    BY <1>3, <1>9, <2>1 DEF wait4signal_take
  <2>3. Int8(semaphore[w] - 1) = semaphore[w] - 1
    BY <1>3, <2>1, <2>2 DEF Int8
  <2>4. \A v \in Waitable : /\ semaphore'[v] >= 0
                            /\ semaphore'[v] > 0 => semaphore[v] > 0
    BY <1>3, <2>2, <2>3 DEF WaitInv, SemaphoreInv
  <2>5. SleeperInv'
    BY <1>1, <2>2, SleeperKept DEF WaitInv, Wakeable
  <2> QED BY <1>5, <2>2, <2>4, <2>5 DEF WaitInv, SignalledHasNoWaiter, SemaphoreInv
<1>10. CASE wait4signal_chain(c)
  <2>1. PICK w \in Waitable : w = other[c]
    BY <1>3, <1>4, <1>10 DEF wait4signal_chain, IInv, PcInv
  <2>2. /\ UNCHANGED <<semaphore, armed, other, sleep, cpu>> /\ semaphore[w] <= 0
        /\ waitchain' = [waitchain EXCEPT ![w] = c]
        /\ pc[c] = "wait" /\ pc' = [pc EXCEPT ![c] = "chained"]
    BY <1>3, <1>10, <2>1 DEF wait4signal_chain
  <2>3. WaiterInv'
    <3>1. \A d \in Coro : \A v \in Waitable : Awaits(d, v)' => Awaits(d, v)
      BY <1>1, <1>3, <2>2 DEF Awaits
    <3> QED BY <1>1, <3>1, WaiterKept DEF WaitInv
  <2>4. ASSUME NEW d \in Coro, d # c, Wakeable(d) PROVE Wakeable(d)'
    <3>1. Awaits(c, w)
      BY <2>1, <2>2 DEF Awaits
    <3>2. waitchain[w] # d
      <4>1. waitchain[w] = d => Awaits(d, w)
        BY <2>4 DEF IInv, ChainInv, Awaits
      <4> QED BY <2>4, <3>1, <4>1 DEF WaitInv, WaiterInv
    <3>3. \A v \in Waitable : waitchain[v] = d => waitchain'[v] = d
      BY <1>3, <2>2, <3>2
    <3> QED BY <2>2, <2>4, <3>3 DEF Wakeable
  <2>5. SleeperInv'
    BY <1>1, <1>4, <2>2, <2>4, ListFacts, SleeperKept DEF WaitInv
  <2>6. SignalledHasNoWaiter'
    BY <1>3, <2>2 DEF WaitInv, SignalledHasNoWaiter
  <2> QED BY <2>2, <2>3, <2>5, <2>6 DEF WaitInv, SemaphoreInv
<1>11. CASE check4signal_done(c)
  <2>1. PICK w \in Waitable : w = other[c]
    BY <1>3, <1>4, <1>11 DEF check4signal_done, IInv, PcInv
  <2>2. /\ UNCHANGED <<waitchain, armed, sleep, cpu>>
        /\ semaphore' = [semaphore EXCEPT ![w] = IF @ > 0 THEN Int8(@ - 1) ELSE @]
        /\ pc'[c] = "app"
    BY <1>3, <1>11, <2>1 DEF check4signal_done
  <2>3. semaphore[w] > 0 => Int8(semaphore[w] - 1) = semaphore[w] - 1
    BY <1>3, <2>1 DEF Int8
  <2>4. \A v \in Waitable : /\ semaphore'[v] >= 0
                            /\ semaphore'[v] > 0 => semaphore[v] > 0
    BY <1>3, <2>2, <2>3 DEF WaitInv, SemaphoreInv
  <2>5. SleeperInv'
    BY <1>1, <2>2, SleeperKept DEF WaitInv, Wakeable
  <2> QED BY <1>5, <2>2, <2>4, <2>5 DEF WaitInv, SignalledHasNoWaiter, SemaphoreInv
<1>12. ASSUME NEW until \in Time, yield_and_wait4time(c, until) PROVE WaitInv'
  <2>1. /\ UNCHANGED <<waitchain, semaphore, pc, other, armed>>
        /\ wakeuptime'[c] = until
    BY <1>1, <1>3, <1>12 DEF yield_and_wait4time, fall_asleep
  <2>2. SleeperInv'
    BY <1>1, <1>4, <2>1, SleeperKept DEF WaitInv, Wakeable
  <2> QED BY <1>5, <2>1, <2>2 DEF WaitInv, SignalledHasNoWaiter, SemaphoreInv
<1>13. ASSUME NEW w \in Coro \cup Event, yield_and_check4signal(c, w)
       PROVE  WaitInv'
  <2>1. /\ UNCHANGED <<waitchain, semaphore, armed, sleep>>
        /\ sleepcount[c] = 0 /\ pc'[c] = "poll"
    BY <1>2, <1>3, <1>13 DEF yield_and_check4signal
  <2>2. SleeperInv'
    BY <1>1, <2>1, SleeperKept DEF WaitInv, Wakeable
  <2> QED BY <1>5, <2>1, <2>2 DEF WaitInv, SignalledHasNoWaiter, SemaphoreInv
<1>14. ASSUME NEW w \in Coro \cup Event, wait4signal_enter(c, w) PROVE WaitInv'
  <2>1. /\ UNCHANGED <<waitchain, semaphore, armed, sleep, cpu>>
        /\ MayWait(c, w)
        /\ pc' = [pc EXCEPT ![c] = "wait"] /\ other' = [other EXCEPT ![c] = w]
    BY <1>14 DEF wait4signal_enter
  <2>2. SleeperInv'
    BY <1>1, <2>1, SleeperKept DEF WaitInv, Wakeable
  <2>3. /\ \A d \in Coro : ~Awaits(d, w)
        /\ w \in Coro => sp[w] # "null"
    BY <2>1 DEF MayWait, Contract
  <2>4. \A d \in Coro : \A v \in Waitable :
          Awaits(d, v)' <=> IF d = c THEN v = w ELSE Awaits(d, v)
    BY <1>1, <1>3, <2>1 DEF Awaits
  <2>5. WaiterInv'
    BY <1>1, <2>3, <2>4 DEF WaitInv, WaiterInv
  <2> QED BY <2>1, <2>2, <2>5 DEF WaitInv, SignalledHasNoWaiter, SemaphoreInv
<1> QED
  BY <1>6, <1>7, <1>8, <1>9, <1>10, <1>11, <1>12, <1>13, <1>14
     DEF OwnCode, Proceeds

\* Only a coroutine is about to sleep, never initialisercoro.
LEMMA AboutToSleep ==
  ASSUME IInv, cpu = "yield", sleepcount[Current] = 1
  PROVE  Current \in Coro
<1>1. Current \in Header /\ (exiting[Current] => sleepcount[Current] = 0)
  BY YieldFacts
<1> QED BY <1>1 DEF IInv, CpuInv, Header

\* wakeup_locked() takes just c out of the set of sleepers.
LEMMA WokenSet ==
  ASSUME IInv, NEW c \in Coro, NEW queue, wakeup_locked(c, queue)
  PROVE  /\ ToSet(waiting4timer') = ToSet(waiting4timer) \ {c}
         /\ \A h \in Header : h # c => /\ wakeuptime'[h] = wakeuptime[h]
                                       /\ sleepcount'[h] = sleepcount[h]
         /\ sleepcount'[c] = Int8(sleepcount[c] - 1)
<1>1. /\ waiting4timer' = ll_remove(waiting4timer, c)
      /\ sleepcount' = [sleepcount EXCEPT ![c] = Int8(sleepcount[c] - 1)]
      /\ wakeuptime' = [wakeuptime EXCEPT ![c] = nil_time]
  BY DEF wakeup_locked
<1>2. /\ sleepcount \in [Header -> -INT8_MAX - 1 .. INT8_MAX] /\ c \in Header
      /\ wakeuptime \in [Header -> Time \cup {at_the_end_of_time}]
  BY DEF IInv, TypeOK, Header
<1>3. ToSet(waiting4timer') = ToSet(waiting4timer) \ {c}
  BY <1>1, TimerTypes, RemoveProps
<1> QED BY <1>1, <1>2, <1>3

\* Waking c takes no wakeup away from anybody else.
LEMMA WokenKeepsSleepers ==
  ASSUME IInv, WaitInv, LockFree, NEW c \in Coro,
         Wakeable(c) \/ c \in ToSet(waiting4timer),
         wakeup_locked(c, ready2run), cpu' = cpu,
         \A d \in Coro : d # c /\ Wakeable(d) => Wakeable(d)'
  PROVE  SleeperInv'
<1>1. /\ ToSet(waiting4timer') = ToSet(waiting4timer) \ {c}
      /\ \A h \in Header : h # c => /\ wakeuptime'[h] = wakeuptime[h]
                                    /\ sleepcount'[h] = sleepcount[h]
      /\ sleepcount'[c] = Int8(sleepcount[c] - 1)
  BY WokenSet
<1>2. \A d \in ToSet(waiting4timer') :
        /\ d \in Coro /\ d # c /\ wakeuptime'[d] = wakeuptime[d]
        /\ Wakeable(d) => Wakeable(d)'
  BY <1>1, ListFacts DEF Header
<1>3. ASSUME cpu' = "yield", sleepcount'[Current'] = 1,
             wakeuptime'[Current'] = at_the_end_of_time
      PROVE  Wakeable(Current)'
  <2>1. /\ Current' = Current /\ Current \in Header
        /\ Current \notin ToSet(waiting4timer)
    BY <1>3, WakeupKeepsHead, YieldFacts
  <2>2. Current # c
    <3>1. SUFFICES ASSUME Current = c PROVE FALSE
      OBVIOUS
    <3>2. sleepcount[c] = 1
      BY <1>3, <2>1, <3>1 DEF IInv, WakeableInv
    <3> QED BY <1>1, <1>3, <2>1, <3>1, <3>2, Int8Step
  <2>3. /\ sleepcount[Current] = 1 /\ wakeuptime[Current] = at_the_end_of_time
    BY <1>1, <1>3, <2>1, <2>2
  <2>4. Current \in Coro /\ Wakeable(Current)
    BY <1>3, <2>3, AboutToSleep DEF WaitInv, SleeperInv
  <2>5. \A d \in Coro : d = Current => Wakeable(d)'
    BY <2>2, <2>4
  <2>6. \A d \in Coro : d = Current' => Wakeable(Current)'
    BY <2>1, <2>5 DEF Wakeable
  <2> QED BY <2>1, <2>4, <2>6
<1> QED BY <1>1, <1>2, <1>3, SleeperKept DEF WaitInv

\* The semaphore is counted up without wrapping around.
LEMMA SignalCounts ==
  ASSUME Contract, IInv, WaitInv, NEW w \in Event, signal(w)
  PROVE  /\ semaphore[w] \in 0..INT8_MAX - 1
         /\ semaphore' = [semaphore EXCEPT ![w] = @ + 1]
<1>1. w \in Waitable /\ semaphore[w] \in Int /\ semaphore[w] >= 0
  BY DEF IInv, TypeOK, Waitable, WaitInv, SemaphoreInv
<1>2. semaphore[w] < SemBound /\ SemBound <= INT8_MAX
  BY DEF signal, Contract
<1>3. semaphore[w] \in 0..INT8_MAX - 1
  BY <1>1, <1>2
<1>4. Int8(semaphore[w] + 1) = semaphore[w] + 1
  BY <1>3 DEF Int8
<1> QED BY <1>3, <1>4 DEF signal

LEMMA Wait_signal ==
  ASSUME Contract, IInv, WaitInv, NEW w \in Event, signal(w)
  PROVE  WaitInv'
<1>1. /\ LockFree /\ UNCHANGED <<timer, code, sp, exiting, cpu, irq, now>>
      /\ w \in Waitable
  BY DEF signal, Waitable
<1>2. /\ semaphore \in [Waitable -> -INT8_MAX - 1 .. INT8_MAX]
      /\ waitchain \in [Waitable -> Coro \cup {NULL}]
  BY DEF IInv, TypeOK
<1>3. SemaphoreInv'
  BY <1>1, <1>2, SignalCounts DEF WaitInv, SemaphoreInv
<1>4. WaiterInv'
  BY <1>1, WaiterKept DEF WaitInv, Awaits
<1>5. CASE waitchain[w] = NULL
  <2>1. UNCHANGED <<lists, sleep, waitchain>> /\ Current' = Current
    BY <1>5 DEF signal, Current
  <2>2. SleeperInv'
    BY <1>1, <2>1, SleeperKept DEF WaitInv, SleeperInv, Wakeable
  <2>3. SignalledHasNoWaiter'
    BY <1>1, <1>2, <1>5, <2>1, SignalCounts DEF WaitInv, SignalledHasNoWaiter
  <2> QED BY <1>3, <1>4, <2>2, <2>3 DEF WaitInv
<1>6. CASE waitchain[w] # NULL
  <2>1. PICK c \in Coro : c = waitchain[w]
    BY <1>1, <1>2, <1>6
  <2>2. /\ wakeup_locked(c, ready2run)
        /\ waitchain' = [waitchain EXCEPT ![w] = NULL]
    BY <1>6, <2>1 DEF signal
  <2>3. Wakeable(c) /\ \A d \in Coro : d # c /\ Wakeable(d) => Wakeable(d)'
    BY <1>1, <1>2, <2>1, <2>2 DEF Wakeable
  <2>4. SleeperInv'
    BY <1>1, <2>2, <2>3, WokenKeepsSleepers
  <2>5. SignalledHasNoWaiter'
    BY <1>1, <1>2, <2>2, SignalCounts DEF WaitInv, SignalledHasNoWaiter
  <2> QED BY <1>3, <1>4, <2>4, <2>5 DEF WaitInv
<1> QED BY <1>5, <1>6

LEMMA Wait_wakeup ==
  ASSUME IInv, WaitInv, NEW c \in Coro, wakeup(c)
  PROVE  WaitInv'
<1>1. /\ LockFree /\ armed[c] /\ wakeup_locked(c, ready2run)
      /\ armed' = [armed EXCEPT ![c] = FALSE]
      /\ UNCHANGED <<signals, pc, other, sp, cpu>>
  BY DEF wakeup
<1>2. Wakeable(c) /\ \A d \in Coro : d # c /\ Wakeable(d) => Wakeable(d)'
  BY <1>1 DEF Wakeable, IInv, TypeOK
<1>3. SleeperInv'
  BY <1>1, <1>2, WokenKeepsSleepers
<1>4. WaiterInv'
  BY <1>1, WaiterKept DEF WaitInv, Awaits
<1> QED BY <1>1, <1>3, <1>4 DEF WaitInv, SignalledHasNoWaiter, SemaphoreInv

LEMMA Wait_timeouthandler ==
  ASSUME IInv, WaitInv, NEW a \in alarms, timeouthandler(a)
  PROVE  WaitInv'
<1>1. /\ LockFree /\ wakeup_locked(a.coro, ready2run)
      /\ UNCHANGED <<signals, code, sp, cpu>>
  BY DEF timeouthandler
<1>2. a.coro \in Coro /\ a.coro \in ToSet(waiting4timer)
  BY ListFacts DEF IInv, NoStrayAlarm
<1>3. \A d \in Coro : Wakeable(d) => Wakeable(d)'
  BY <1>1 DEF Wakeable
<1>4. SleeperInv'
  BY <1>1, <1>2, <1>3, WokenKeepsSleepers
<1>5. WaiterInv'
  BY <1>1, WaiterKept DEF WaitInv, Awaits
<1> QED BY <1>1, <1>4, <1>5 DEF WaitInv, SignalledHasNoWaiter, SemaphoreInv

\* An exit is a signal to the one that waits for it.
LEMMA Wait_schedule_next_exit ==
  ASSUME IInv, WaitInv, schedule_next_exit
  PROVE  WaitInv'
<1>1. PICK c : c = Current
  OBVIOUS
<1>2. /\ cpu = "yield" /\ cpu' = "sched"
      /\ sp' = [sp EXCEPT ![c] = "exited"]
      /\ semaphore' = [semaphore EXCEPT ![c] = INT8_MAX]
      /\ UNCHANGED <<timer, code>>
  BY <1>1 DEF schedule_next_exit
<1>3. c \in Header /\ c \in Waitable
  BY <1>1, <1>2, YieldFacts DEF Waitable
<1>4. /\ semaphore \in [Waitable -> -INT8_MAX - 1 .. INT8_MAX]
      /\ waitchain \in [Waitable -> Coro \cup {NULL}]
      /\ sp \in [Header -> {"null", "stack", "exited"}]
  BY DEF IInv, TypeOK
<1>5. SemaphoreInv'
  BY <1>2, <1>3, <1>4 DEF WaitInv, SemaphoreInv
<1>6. WaiterInv'
  BY <1>2, <1>4, WaiterKept DEF WaitInv, Awaits, Header
<1>7. CASE waitchain[c] = NULL
  <2>1. UNCHANGED <<waiting4timer, sleep, waitchain>>
    BY <1>1, <1>7 DEF schedule_next_exit
  <2>2. SleeperInv'
    BY <1>2, <2>1 DEF WaitInv, SleeperInv, Wakeable
  <2>3. SignalledHasNoWaiter'
    BY <1>2, <1>4, <1>7, <2>1 DEF WaitInv, SignalledHasNoWaiter
  <2> QED BY <1>5, <1>6, <2>2, <2>3 DEF WaitInv
<1>8. CASE waitchain[c] # NULL
  <2>1. PICK d \in Coro : d = waitchain[c]
    BY <1>3, <1>4, <1>8
  <2>2. /\ wakeup_locked(d, ll_pop_front(ready2run))
        /\ waitchain' = [waitchain EXCEPT ![c] = NULL]
    BY <1>1, <1>8, <2>1 DEF schedule_next_exit
  <2>3. \A e \in Coro : e # d /\ Wakeable(e) => Wakeable(e)'
    BY <1>2, <1>4, <2>1, <2>2 DEF Wakeable
  <2>4. SleeperInv'
    BY <1>2, <2>2, <2>3, WokenSet, ListFacts, SleeperKept DEF WaitInv, Header
  <2>5. SignalledHasNoWaiter'
    BY <1>2, <1>4, <2>2 DEF WaitInv, SignalledHasNoWaiter
  <2> QED BY <1>5, <1>6, <2>4, <2>5 DEF WaitInv
<1> QED BY <1>7, <1>8

\* When the contract is kept, nobody waits for a coroutine that is started.
LEMMA StartedIsFree ==
  ASSUME Contract, IInv, WaitInv, NEW new \in Coro, ~is_live(new), MayStart(new)
  PROVE  \A d \in Coro : ~Awaits(d, new)
<1>1. sp[new] = "null" \/ sp[new] = "exited"
  BY DEF IInv, TypeOK, is_live, Header
<1>2. sp[new] = "exited" => \A d \in Coro : ~Awaits(d, new)
  BY DEF MayStart, Contract
<1>3. sp[new] = "null" => \A d \in Coro : ~Awaits(d, new)
  BY DEF WaitInv, WaiterInv, Waitable, Header
<1> QED BY <1>1, <1>2, <1>3

LEMMA Wait_yield_and_start ==
  ASSUME Contract, IInv, WaitInv, NEW c \in Coro, NEW new \in Coro,
         yield_and_start(c, new)
  PROVE  WaitInv'
<1>1. /\ c = Current /\ cpu = "coro" /\ ready2run # <<>> /\ is_live(c)
      /\ sleepcount[c] = 0
  BY RunningFacts DEF yield_and_start
<1>2. /\ sp' = [sp EXCEPT ![new] = "stack"]
      /\ waitchain' = [waitchain EXCEPT ![new] = NULL]
      /\ semaphore' = [semaphore EXCEPT ![new] = 0]
      /\ sleepcount' = [sleepcount EXCEPT ![new] = 0]
      /\ pc' = [pc EXCEPT ![new] = "app"]
      /\ ready2run' = ll_push_back(ready2run, new)
      /\ ~is_live(new) /\ MayStart(new)
      /\ UNCHANGED <<waiting4timer, wakeuptime, other, armed>>
  BY DEF yield_and_start, prepare
<1>3. /\ semaphore \in [Waitable -> -INT8_MAX - 1 .. INT8_MAX]
      /\ waitchain \in [Waitable -> Coro \cup {NULL}]
      /\ sp \in [Header -> {"null", "stack", "exited"}]
      /\ pc \in [Coro -> {"app", "armed", "wait", "chained", "poll"}]
      /\ sleepcount \in [Header -> -INT8_MAX - 1 .. INT8_MAX]
      /\ ready2run \in Seq(Header) /\ new \in Header
  BY DEF IInv, TypeOK, Header
<1>4. Current' = Current
  <2>1. Head(ll_push_back(ready2run, new)) = Head(ready2run)
    BY <1>1, <1>3, PushBackProps
  <2> QED BY <1>1, <1>2, <2>1 DEF Current
<1>5. \A d \in Coro : ~Awaits(d, new)
  BY <1>2, StartedIsFree
<1>6. \A d \in Coro : \A w \in Waitable : Awaits(d, w)' => Awaits(d, w)
  BY <1>2, <1>3 DEF Awaits
<1>7. WaiterInv'
  BY <1>2, <1>3, <1>6, WaiterKept DEF WaitInv, Header
<1>8. ASSUME NEW d \in Coro, Wakeable(d) PROVE Wakeable(d)'
  <2>1. waitchain[new] # d
    BY <1>5 DEF IInv, ChainInv, Awaits, Waitable, Header
  <2> QED BY <1>2, <1>3, <1>8, <2>1 DEF Wakeable
<1>9. sleepcount'[Current'] = 0
  BY <1>1, <1>2, <1>3, <1>4
<1>10. SleeperInv'
  BY <1>2, <1>8, <1>9, ListFacts, SleeperKept DEF WaitInv
<1>11. SignalledHasNoWaiter' /\ SemaphoreInv'
  BY <1>2, <1>3 DEF WaitInv, SignalledHasNoWaiter, SemaphoreInv
<1> QED BY <1>7, <1>10, <1>11 DEF WaitInv

LEMMA Wait_yield_and_start_first ==
  ASSUME IInv, WaitInv, yield_and_start_first
  PROVE  WaitInv'
<1>1. /\ cpu = "boot" /\ waiting4timer' = <<>>
      /\ sp' = [sp EXCEPT ![Main] = "stack"]
      /\ waitchain' = [waitchain EXCEPT ![Main] = NULL]
      /\ semaphore' = [semaphore EXCEPT ![Main] = 0]
      /\ sleepcount' = [sleepcount EXCEPT ![Main] = 0]
      /\ pc' = [pc EXCEPT ![Main] = "app"]
      /\ UNCHANGED other
  BY DEF yield_and_start_first, prepare
<1>2. /\ semaphore \in [Waitable -> -INT8_MAX - 1 .. INT8_MAX]
      /\ waitchain \in [Waitable -> Coro \cup {NULL}]
      /\ sp \in [Header -> {"null", "stack", "exited"}]
      /\ pc \in [Coro -> {"app", "armed", "wait", "chained", "poll"}]
      /\ sleepcount \in [Header -> -INT8_MAX - 1 .. INT8_MAX]
  BY DEF IInv, TypeOK
<1>3. WaiterInv'
  BY <1>1, <1>2, WaiterKept DEF WaitInv, Awaits
<1>4. Current' \in Header
  <2>1. IInv'
    BY Step_yield_and_start_first
  <2>2. cpu' = "yield"
    BY DEF yield_and_start_first
  <2>3. ready2run' \in Seq(Header) /\ ready2run' # <<>>
    BY <2>1, <2>2 DEF IInv, TypeOK, CpuInv
  <2> QED BY <2>3, PopFrontProps DEF Current
<1>5. sleepcount'[Current'] = 0
  BY <1>1, <1>2, <1>4 DEF IInv, CpuInv
<1>6. SleeperInv'
  BY <1>1, <1>5 DEF SleeperInv, ToSet
<1>7. SignalledHasNoWaiter' /\ SemaphoreInv'
  BY <1>1, <1>2 DEF WaitInv, SignalledHasNoWaiter, SemaphoreInv
<1> QED BY <1>3, <1>6, <1>7 DEF WaitInv

\* schedule_next() puts just the active coroutine to sleep.
LEMMA FallenAsleep ==
  ASSUME IInv, schedule_next_sleep, NEW c, c = Current
  PROVE  ToSet(waiting4timer') = ToSet(waiting4timer) \cup {c}
<1>1. c \in Coro /\ c \notin ToSet(waiting4timer)
  BY AboutToSleep, YieldFacts DEF schedule_next_sleep
<1>2. waiting4timer \in Seq(Coro) /\ IsInjective(waiting4timer)
  BY DEF IInv, TypeOK, NothingLost
<1>3. ToSet(ll_push_back(waiting4timer, c)) = ToSet(waiting4timer) \cup {c}
  BY <1>1, <1>2, PushBackProps
<1>4. ToSet(ll_sorted_insert(waiting4timer, c, wakeuptime))
        = ToSet(waiting4timer) \cup {c}
  BY <1>1, <1>2, SortedInsertProps
<1> QED BY <1>3, <1>4 DEF schedule_next_sleep

\* Who falls asleep could be woken on the way there already.
LEMMA Wait_schedule_next_sleep ==
  ASSUME IInv, WaitInv, schedule_next_sleep
  PROVE  WaitInv'
<1>1. PICK c : c = Current
  OBVIOUS
<1>2. /\ cpu = "yield" /\ cpu' = "sched" /\ sleepcount[c] = 1
      /\ UNCHANGED <<sleep, signals, code, sp>>
  BY <1>1, YieldFacts DEF schedule_next_sleep
<1>3. ToSet(waiting4timer') = ToSet(waiting4timer) \cup {c}
  BY <1>1, FallenAsleep
<1>4. SleeperInv'
  BY <1>1, <1>2, <1>3 DEF WaitInv, SleeperInv, Wakeable
<1>5. WaiterInv'
  BY <1>2, WaiterKept DEF WaitInv, Awaits
<1> QED BY <1>2, <1>4, <1>5 DEF WaitInv, SignalledHasNoWaiter, SemaphoreInv

\* The head of waiting4timer, moved to the run queue.
LEMMA ExpiredSet ==
  ASSUME IInv, prime_expired, NEW c, c = ll_peek_head(waiting4timer)
  PROVE  /\ c \in ToSet(waiting4timer) /\ c \in Coro /\ wakeuptime[c] \in Time
         /\ ToSet(waiting4timer') = ToSet(waiting4timer) \ {c}
         /\ cpu = "yield" => Current' = Current /\ Current # c
<1>1. /\ waiting4timer # <<>> /\ c = Head(waiting4timer)
      /\ c \in ToSet(waiting4timer) /\ c \in Coro /\ wakeuptime[c] \in Time
  BY PrimingFacts DEF prime_expired
<1>2. ToSet(waiting4timer') = ToSet(waiting4timer) \ {c}
  <2>1. waiting4timer \in Seq(Coro) /\ IsInjective(waiting4timer)
    BY DEF IInv, TypeOK, NothingLost
  <2>2. ToSet(ll_pop_front(waiting4timer)) = ToSet(waiting4timer) \ {c}
    BY <1>1, <2>1, PopFrontProps
  <2> QED BY <2>2 DEF prime_expired
<1>3. ASSUME cpu = "yield" PROVE Current' = Current /\ Current # c
  <2>1. ready2run \in Seq(Header) /\ ready2run # <<>> /\ c \in Header
    BY <1>1, <1>3 DEF IInv, TypeOK, CpuInv, Header
  <2>2. Head(ll_push_back(ready2run, c)) = Head(ready2run)
    BY <2>1, PushBackProps
  <2> QED BY <1>1, <1>3, <2>2, YieldFacts DEF prime_expired, Current
<1> QED BY <1>1, <1>2, <1>3

LEMMA Wait_prime_expired ==
  ASSUME IInv, WaitInv, prime_expired
  PROVE  WaitInv'
<1>1. PICK c : c = ll_peek_head(waiting4timer)
  OBVIOUS
<1>2. /\ sleepcount' = [sleepcount EXCEPT ![c] = Int8(@ - 1)]
      /\ UNCHANGED <<wakeuptime, signals, code, sp, cpu>>
  BY <1>1 DEF prime_expired
<1>3. sleepcount \in [Header -> -INT8_MAX - 1 .. INT8_MAX]
  BY DEF IInv, TypeOK
<1>4. cpu = "yield" => sleepcount'[Current'] = sleepcount[Current]
  BY <1>1, <1>2, <1>3, ExpiredSet, YieldFacts
<1>5. SleeperInv'
  <2>1. \A d : Wakeable(d)' <=> Wakeable(d)
    BY <1>2 DEF Wakeable
  <2>2. ASSUME cpu' = "yield", sleepcount'[Current'] = 1,
               wakeuptime'[Current'] = at_the_end_of_time
        PROVE  Wakeable(Current)'
    <3>1. cpu = "yield" /\ Current' = Current /\ sleepcount[Current] = 1
      BY <1>1, <1>2, <1>4, <2>2, ExpiredSet
    <3>2. Wakeable(Current)
      BY <1>2, <2>2, <3>1 DEF WaitInv, SleeperInv
    <3> QED BY <1>2, <3>1, <3>2 DEF Wakeable
  <2> QED BY <1>1, <1>2, <2>1, <2>2, ExpiredSet, SleeperKept DEF WaitInv
<1>6. WaiterInv'
  BY <1>2, WaiterKept DEF WaitInv, Awaits
<1> QED BY <1>2, <1>5, <1>6 DEF WaitInv, SignalledHasNoWaiter, SemaphoreInv

\* The steps that neither wake anybody nor put anybody to sleep.
LEMMA Wait_others ==
  ASSUME IInv, WaitInv,
         \/ schedule_next_resched \/ idle_wakes \/ prime_alarm \/ prime_nothing
         \/ Tick \/ UNCHANGED vars
  PROVE  WaitInv'
<1>1. UNCHANGED <<waiting4timer, sleep, signals, code, sp>>
  BY DEF schedule_next_resched, idle_wakes, prime_alarm, prime_nothing, Tick, vars
<1>2. cpu' = "yield" => cpu = "yield" /\ Current' = Current
  BY DEF schedule_next_resched, idle_wakes, prime_alarm, prime_nothing, Tick,
         vars, Primed, Current
<1>3. WaiterInv'
  BY <1>1, WaiterKept DEF WaitInv, Awaits
<1>4. SleeperInv'
  BY <1>1, <1>2 DEF WaitInv, SleeperInv, Wakeable
<1> QED BY <1>1, <1>3, <1>4 DEF WaitInv, SignalledHasNoWaiter, SemaphoreInv

LEMMA WaitInitial == Init => WaitInv
<1> SUFFICES ASSUME Init PROVE WaitInv
  OBVIOUS
<1>1. ToSet(waiting4timer) = {}
  BY DEF Init, ToSet
<1> QED BY <1>1 DEF Init, WaitInv, WaiterInv, Awaits, SleeperInv,
                    SignalledHasNoWaiter, SemaphoreInv

LEMMA WaitNext ==
  ASSUME Contract PROVE IInv /\ WaitInv /\ [Next]_vars => WaitInv'
<1> SUFFICES ASSUME IInv, WaitInv, [Next]_vars PROVE WaitInv'
  OBVIOUS
<1> QED
  BY NextCases, Wait_OwnCode, Wait_wakeup, Wait_signal, Wait_timeouthandler,
     Wait_schedule_next_exit, Wait_schedule_next_sleep, Wait_prime_expired,
     Wait_yield_and_start, Wait_yield_and_start_first, Wait_others

-----------------------------------------------------------------------------
\* Waiters, their Waitables and the semaphores agree, for any number of
\* coroutines, when the contract is kept.
THEOREM WaitInvariance == ASSUME Contract PROVE Spec => []WaitInv
BY WaitInitial, WaitNext, Invariance, PTL DEF Spec

\* yield_and_wait4signal(), yield_and_wait4wakeup() and wakeup_locked() lose no
\* wakeup: a coroutine that sleeps without a timeout has its hardware armed or
\* is chained to the Waitable it waits for.
THEOREM WakeupsArrive == ASSUME Contract PROVE Spec => []NoLostWakeup
<1>1. IInv /\ WaitInv => NoLostWakeup
  BY SleeperFacts DEF NoLostWakeup, Time, at_the_end_of_time
<1> QED BY <1>1, Invariance, WaitInvariance, PTL

\* The assertion of yield_and_wait4signal() holds: nobody stays chained to a
\* Waitable that has been signalled.
THEOREM WaitersWait == ASSUME Contract PROVE Spec => []SignalledHasNoWaiter
<1>1. WaitInv => SignalledHasNoWaiter
  BY DEF WaitInv
<1> QED BY <1>1, WaitInvariance, PTL

-----------------------------------------------------------------------------
(* The refinement. *)

USE DEF W!Awake, W!Signal, W!Time, W!Hardware

\* What c sleeps for, before and after a step.
LEMMA WhatFor ==
  ASSUME NEW c
  PROVE  /\ c \notin ToSet(waiting4timer) => SleepsFor(c) = W!Awake
         /\ c \in ToSet(waiting4timer) =>
              SleepsFor(c) = IF wakeuptime[c] \in Time THEN W!Time(wakeuptime[c])
                             ELSE IF pc[c] = "wait" THEN W!Signal(other[c])
                             ELSE W!Hardware
BY DEF SleepsFor, ToSet

LEMMA WhatForNext ==
  ASSUME NEW c
  PROVE  /\ c \notin ToSet(waiting4timer') => SleepsFor(c)' = W!Awake
         /\ c \in ToSet(waiting4timer') =>
              SleepsFor(c)' = IF wakeuptime'[c] \in Time THEN W!Time(wakeuptime'[c])
                              ELSE IF pc'[c] = "wait" THEN W!Signal(other'[c])
                              ELSE W!Hardware
BY DEF SleepsFor, ToSet

\* Whoever sleeps as before sleeps for the same.
LEMMA SleepsOn ==
  ASSUME NEW c,
         c \in ToSet(waiting4timer') <=> c \in ToSet(waiting4timer),
         c \in ToSet(waiting4timer) =>
           wakeuptime'[c] = wakeuptime[c] /\ pc'[c] = pc[c] /\ other'[c] = other[c]
  PROVE  SleepsFor(c)' = SleepsFor(c)
BY WhatFor, WhatForNext

LEMMA AllSleepOn ==
  ASSUME ToSet(waiting4timer') = ToSet(waiting4timer),
         \A c \in Coro : c \in ToSet(waiting4timer) =>
           wakeuptime'[c] = wakeuptime[c] /\ pc'[c] = pc[c] /\ other'[c] = other[c]
  PROVE  Asleep' = Asleep
<1>1. \A c \in Coro : SleepsFor(c)' = SleepsFor(c)
  BY SleepsOn
<1> QED BY <1>1 DEF Asleep

\* No step of Waiting: nothing it knows of changes.
LEMMA Stutters ==
  ASSUME Asleep' = Asleep, UNCHANGED <<semaphore, armed, now>>
  PROVE  [W!Next]_W!vars
BY DEF W!vars

\* Taking a signal is a step of its own, looking in vain is none.
LEMMA Takes ==
  ASSUME NEW w \in Waitable, semaphore[w] > 0, Asleep' = Asleep,
         semaphore' = [semaphore EXCEPT ![w] = @ - 1], UNCHANGED <<armed, now>>
  PROVE  [W!Next]_W!vars
BY DEF W!Next, W!take

LEMMA Keeps_OwnCode ==
  ASSUME Contract, IInv, WaitInv, NEW c \in Coro, OwnCode(c)
  PROVE  [W!Next]_W!vars
<1>1. /\ c = Current /\ cpu = "coro" /\ Running(c)
      /\ c \notin ToSet(waiting4timer)
      /\ UNCHANGED <<waiting4timer, now>>
      /\ \A h \in Header : h # c => wakeuptime'[h] = wakeuptime[h]
      /\ \A d \in Coro : d # c => pc'[d] = pc[d] /\ other'[d] = other[d]
  BY OwnCodeFacts, ListFacts DEF Running, Current, Header, IInv, CpuInv
<1>2. Asleep' = Asleep
  BY <1>1, AllSleepOn DEF Header
<1>3. /\ semaphore \in [Waitable -> -INT8_MAX - 1 .. INT8_MAX]
      /\ other \in [Coro -> Coro \cup Event \cup {NULL}]
      /\ \A w \in Coro \cup Event : w \in Waitable
      /\ armed \in [Coro -> BOOLEAN]
  BY DEF IInv, TypeOK, Waitable, Header
<1>4. CASE arm(c)
  BY <1>1, <1>2, <1>4 DEF arm, W!Next, W!arm
<1>5. CASE wait4signal_take(c) \/ check4signal_done(c)
  <2>1. PICK w \in Waitable : w = other[c]
    BY <1>3, <1>5 DEF wait4signal_take, check4signal_done, IInv, PcInv
  <2>2. CASE semaphore[w] > 0
    <3>1. Int8(semaphore[w] - 1) = semaphore[w] - 1
      BY <1>3, <2>1, <2>2 DEF Int8
    <3>2. /\ semaphore' = [semaphore EXCEPT ![w] = @ - 1]
          /\ armed' = armed
      BY <1>3, <1>5, <2>1, <2>2, <3>1 DEF wait4signal_take, check4signal_done
    <3> QED BY <1>1, <1>2, <2>2, <3>2, Takes
  <2>3. CASE ~(semaphore[w] > 0)
    <3>1. semaphore' = semaphore /\ armed' = armed
      BY <1>3, <1>5, <2>1, <2>3 DEF wait4signal_take, check4signal_done
    <3> QED BY <1>1, <1>2, <3>1, Stutters
  <2> QED BY <2>2, <2>3
<1>6. CASE yield(c) \/ yield_and_exit(c) \/ yield_and_wait4wakeup(c)
           \/ wait4signal_chain(c)
  BY <1>1, <1>2, <1>6, Stutters
     DEF yield, yield_and_exit, yield_and_wait4wakeup, wait4signal_chain, fall_asleep
<1>7. ASSUME NEW until \in Time, yield_and_wait4time(c, until)
      PROVE  [W!Next]_W!vars
  BY <1>1, <1>2, <1>7, Stutters DEF yield_and_wait4time, fall_asleep
<1>8. ASSUME NEW w \in Coro \cup Event,
             yield_and_check4signal(c, w) \/ wait4signal_enter(c, w)
      PROVE  [W!Next]_W!vars
  BY <1>1, <1>2, <1>8, Stutters DEF yield_and_check4signal, wait4signal_enter
<1> QED BY <1>4, <1>5, <1>6, <1>7, <1>8 DEF OwnCode, Proceeds

\* Who is started sleeps for nothing, and nobody sleeps for it.
LEMMA Keeps_yield_and_start ==
  ASSUME Contract, IInv, WaitInv, NEW c \in Coro, NEW new \in Coro,
         yield_and_start(c, new)
  PROVE  [W!Next]_W!vars
<1>1. /\ semaphore' = [semaphore EXCEPT ![new] = 0]
      /\ pc' = [pc EXCEPT ![new] = "app"]
      /\ ~is_live(new) /\ MayStart(new)
      /\ UNCHANGED <<waiting4timer, wakeuptime, other, armed, now>>
  BY DEF yield_and_start, prepare
<1>2. pc \in [Coro -> {"app", "armed", "wait", "chained", "poll"}]
  BY DEF IInv, TypeOK
<1>3. new \notin ToSet(waiting4timer)
  BY <1>1 DEF IInv, NothingLost, Scheduled
<1>4. Asleep' = Asleep
  BY <1>1, <1>2, <1>3, AllSleepOn
<1>5. Asleep[new] = W!Awake
  BY <1>3, WhatFor DEF Asleep
<1>6. ASSUME NEW d \in Coro PROVE Asleep[d] # W!Signal(new)
  <2>1. ~Awaits(d, new)
    BY <1>1, StartedIsFree
  <2>2. d \in ToSet(waiting4timer) /\ pc[d] = "wait" => other[d] # new
    BY <2>1 DEF Awaits
  <2> QED BY <2>2, WhatFor DEF Asleep
<1>7. W!start(new)
  BY <1>1, <1>4, <1>5, <1>6 DEF W!start
<1> QED BY <1>7 DEF W!Next

LEMMA Keeps_yield_and_start_first ==
  ASSUME IInv, yield_and_start_first
  PROVE  [W!Next]_W!vars
<1>1. /\ semaphore' = [semaphore EXCEPT ![Main] = 0]
      /\ cpu = "boot" /\ waiting4timer' = <<>>
      /\ UNCHANGED <<armed, now>>
  BY DEF yield_and_start_first, prepare
<1>2. waiting4timer = <<>>
  BY <1>1 DEF IInv, CpuInv
<1>3. ToSet(waiting4timer) = {} /\ ToSet(waiting4timer') = {}
  BY <1>1, <1>2 DEF ToSet
<1>4. Asleep' = Asleep /\ \A c \in Coro : Asleep[c] = W!Awake
  BY <1>3, AllSleepOn, WhatFor DEF Asleep
<1>5. W!start(Main)
  BY <1>1, <1>4 DEF W!start
<1> QED BY <1>5 DEF W!Next

\* Whom signal() and an exit wake sleeps for that signal or is awake still, and
\* nobody else sleeps for it.
LEMMA Signalled ==
  ASSUME IInv, WaitInv, NEW w \in Waitable
  PROVE  /\ \A c \in Coro : c # waitchain[w] => Asleep[c] # W!Signal(w)
         /\ \A c \in Coro : c = waitchain[w] /\ pc[c] # "app" =>
              Asleep[c] \in {W!Awake, W!Signal(w)}
<1>1. ASSUME NEW c \in Coro, c # waitchain[w] PROVE Asleep[c] # W!Signal(w)
  <2>1. c \in ToSet(waiting4timer) /\ wakeuptime[c] \notin Time /\ pc[c] = "wait"
          => other[c] # w
    BY <1>1, SleeperFacts
  <2> QED BY <2>1, WhatFor DEF Asleep
<1>2. ASSUME NEW c \in Coro, c = waitchain[w], c \in ToSet(waiting4timer)
      PROVE  Asleep[c] = W!Signal(w)
  <2>1. Wakeable(c)
    BY <1>2 DEF Wakeable
  <2>2. wakeuptime[c] = at_the_end_of_time
    BY <1>2, <2>1, ListFacts DEF IInv, WakeableInv, CpuInv
  <2>3. wakeuptime[c] \notin Time
    BY <2>2 DEF Time, at_the_end_of_time
  <2>4. other[c] = w /\ pc[c] = "wait"
    BY <1>2, ListFacts DEF IInv, ChainInv, PcInv, CpuInv
  <2> QED BY <1>2, <2>3, <2>4, WhatFor DEF Asleep
<1>3. \A c \in Coro : c \notin ToSet(waiting4timer) => Asleep[c] = W!Awake
  BY WhatFor DEF Asleep
<1> QED BY <1>1, <1>2, <1>3

\* wakeup_locked() ends the sleep of c only.
LEMMA Woken ==
  ASSUME IInv, NEW c \in Coro, NEW queue, wakeup_locked(c, queue),
         UNCHANGED <<pc, other>>
  PROVE  Asleep' = [Asleep EXCEPT ![c] = W!Awake]
<1>1. /\ ToSet(waiting4timer') = ToSet(waiting4timer) \ {c}
      /\ \A h \in Header : h # c => wakeuptime'[h] = wakeuptime[h]
  BY WokenSet
<1>2. SleepsFor(c)' = W!Awake
  BY <1>1, WhatForNext
<1>3. \A d \in Coro : d # c => SleepsFor(d)' = SleepsFor(d)
  BY <1>1, SleepsOn DEF Header
<1> QED BY <1>2, <1>3 DEF Asleep

\* So a signal and an exit release just those that sleep for it.
LEMMA Releases ==
  ASSUME IInv, WaitInv, NEW w \in Waitable,
         waitchain[w] = NULL => Asleep' = Asleep,
         waitchain[w] # NULL => Asleep' = [Asleep EXCEPT ![waitchain[w]] = W!Awake]
  PROVE  W!Released(W!Signal(w))
<1>1. waitchain[w] \in Coro \cup {NULL} /\ NULL \notin Coro
  BY DEF IInv, TypeOK
<1>2. \A c \in Coro : c = waitchain[w] => pc[c] # "app"
  BY DEF IInv, ChainInv
<1>3. /\ \A c \in Coro : c # waitchain[w] => Asleep[c] # W!Signal(w)
      /\ \A c \in Coro : c = waitchain[w] => Asleep[c] \in {W!Awake, W!Signal(w)}
  BY <1>2, Signalled
<1>4. Asleep = [c \in Coro |-> Asleep[c]]
  BY DEF Asleep
<1>5. CASE waitchain[w] = NULL
  BY <1>1, <1>3, <1>4, <1>5 DEF W!Released
<1>6. CASE waitchain[w] # NULL
  BY <1>1, <1>3, <1>4, <1>6 DEF W!Released
<1> QED BY <1>5, <1>6

LEMMA Keeps_signal ==
  ASSUME Contract, IInv, WaitInv, NEW w \in Event, signal(w)
  PROVE  [W!Next]_W!vars
<1>1. /\ w \in Waitable /\ semaphore' = [semaphore EXCEPT ![w] = @ + 1]
      /\ UNCHANGED <<code, now>>
  BY SignalCounts DEF signal, Waitable
<1>2. waitchain[w] = NULL => Asleep' = Asleep
  BY AllSleepOn DEF signal
<1>3. waitchain[w] # NULL => Asleep' = [Asleep EXCEPT ![waitchain[w]] = W!Awake]
  BY <1>1, Woken DEF signal, IInv, TypeOK
<1>4. W!signal(w)
  BY <1>1, <1>2, <1>3, Releases DEF W!signal
<1> QED BY <1>1, <1>4 DEF W!Next

LEMMA Keeps_schedule_next_exit ==
  ASSUME IInv, WaitInv, schedule_next_exit
  PROVE  [W!Next]_W!vars
<1>1. PICK h : h = Current
  OBVIOUS
<1>2. /\ cpu = "yield" /\ UNCHANGED <<code, now>>
      /\ semaphore' = [semaphore EXCEPT ![h] = INT8_MAX]
  BY <1>1 DEF schedule_next_exit
<1>3. h \in Waitable /\ h \notin ToSet(waiting4timer)
  BY <1>1, <1>2, YieldFacts DEF Waitable
<1>4. waitchain[h] = NULL => Asleep' = Asleep
  BY <1>1, AllSleepOn DEF schedule_next_exit
<1>5. waitchain[h] # NULL => Asleep' = [Asleep EXCEPT ![waitchain[h]] = W!Awake]
  BY <1>1, <1>2, <1>3, Woken DEF schedule_next_exit, IInv, TypeOK
<1>6. h \in Coro => Asleep[h] = W!Awake
  BY <1>3, WhatFor DEF Asleep
<1>7. W!exit(h)
  BY <1>2, <1>3, <1>4, <1>5, <1>6, Releases DEF W!exit
<1> QED BY <1>3, <1>7 DEF W!Next

\* wakeup() ends a sleep for hardware, or is early.
LEMMA Keeps_wakeup ==
  ASSUME IInv, WaitInv, NEW c \in Coro, wakeup(c)
  PROVE  [W!Next]_W!vars
<1>1. /\ armed[c] /\ armed' = [armed EXCEPT ![c] = FALSE]
      /\ UNCHANGED <<semaphore, now>>
      /\ Asleep' = [Asleep EXCEPT ![c] = W!Awake]
  BY Woken DEF wakeup
<1>2. c \in ToSet(waiting4timer) => wakeuptime[c] = at_the_end_of_time
  BY <1>1, ListFacts DEF IInv, WakeableInv, Wakeable, CpuInv
<1>3. pc[c] # "wait"
  BY <1>1 DEF IInv, PcInv
<1>4. Asleep[c] \in {W!Awake, W!Hardware}
  BY <1>2, <1>3, WhatFor DEF Asleep, Time, at_the_end_of_time
<1>5. W!interrupt(c)
  BY <1>1, <1>4 DEF W!interrupt
<1> QED BY <1>5 DEF W!Next

LEMMA Keeps_timeouthandler ==
  ASSUME IInv, NEW a \in alarms, timeouthandler(a)
  PROVE  [W!Next]_W!vars
<1>1. /\ a.coro \in Coro /\ a.coro \in ToSet(waiting4timer)
      /\ a.time = wakeuptime[a.coro] /\ a.time \in Time
  BY ListFacts DEF IInv, NoStrayAlarm, TypeOK, Alarm
<1>2. a.time <= now /\ now \in Time
  BY DEF timeouthandler, IInv, TypeOK
<1>3. a.time \in 0..now
  BY <1>1, <1>2 DEF Time
<1>4. Asleep[a.coro] = W!Time(a.time)
  BY <1>1, WhatFor DEF Asleep
<1>5. /\ Asleep' = [Asleep EXCEPT ![a.coro] = W!Awake]
      /\ UNCHANGED <<semaphore, armed, now>>
  BY <1>1, Woken DEF timeouthandler
<1>6. W!timeout(a.coro)
  BY <1>3, <1>4, <1>5 DEF W!timeout
<1> QED BY <1>1, <1>6 DEF W!Next

LEMMA Keeps_prime_expired ==
  ASSUME IInv, prime_expired
  PROVE  [W!Next]_W!vars
<1>1. PICK c : c = ll_peek_head(waiting4timer)
  OBVIOUS
<1>2. /\ wakeuptime[c] <= now /\ now \in Time
      /\ UNCHANGED <<wakeuptime, signals, code, now>>
  BY <1>1 DEF prime_expired, IInv, TypeOK
<1>3. /\ c \in ToSet(waiting4timer) /\ c \in Coro /\ wakeuptime[c] \in Time
      /\ ToSet(waiting4timer') = ToSet(waiting4timer) \ {c}
  BY <1>1, ExpiredSet
<1>4. wakeuptime[c] \in 0..now
  BY <1>2, <1>3 DEF Time
<1>5. Asleep[c] = W!Time(wakeuptime[c])
  BY <1>3, WhatFor DEF Asleep
<1>6. SleepsFor(c)' = W!Awake
  BY <1>3, WhatForNext
<1>7. \A d \in Coro : d # c => SleepsFor(d)' = SleepsFor(d)
  BY <1>2, <1>3, SleepsOn
<1>8. Asleep' = [Asleep EXCEPT ![c] = W!Awake]
  BY <1>6, <1>7 DEF Asleep
<1>9. W!timeout(c)
  BY <1>2, <1>4, <1>5, <1>8 DEF W!timeout
<1> QED BY <1>3, <1>9 DEF W!Next

\* Falling asleep is one step although the look was long before: whatever
\* would have ended the sleep in between has undone the count.
LEMMA Keeps_schedule_next_sleep ==
  ASSUME IInv, WaitInv, schedule_next_sleep
  PROVE  [W!Next]_W!vars
<1>1. PICK c : c = Current
  OBVIOUS
<1>2. /\ cpu = "yield" /\ sleepcount[c] = 1
      /\ UNCHANGED <<sleep, signals, code, now>>
  BY <1>1, YieldFacts DEF schedule_next_sleep
<1>3. c \in Coro /\ c \notin ToSet(waiting4timer)
  BY <1>1, <1>2, AboutToSleep, YieldFacts
<1>4. ToSet(waiting4timer') = ToSet(waiting4timer) \cup {c}
  BY <1>1, FallenAsleep
<1>5. \A d \in Coro : d # c => SleepsFor(d)' = SleepsFor(d)
  BY <1>2, <1>4, SleepsOn
<1>6. Asleep' = [Asleep EXCEPT ![c] = SleepsFor(c)'] /\ Asleep'[c] = SleepsFor(c)'
  BY <1>3, <1>5 DEF Asleep
<1>7. Asleep[c] = W!Awake
  BY <1>3, WhatFor DEF Asleep
<1>8. c \in ToSet(waiting4timer')
  BY <1>4
<1>9. CASE wakeuptime[c] \in Time
  <2>1. SleepsFor(c)' = W!Time(wakeuptime[c])
    BY <1>2, <1>8, <1>9, WhatForNext
  <2>2. W!wait4time(c, wakeuptime[c])
    BY <1>2, <1>6, <1>7, <2>1 DEF W!wait4time, W!FallsAsleep
  <2> QED BY <1>3, <1>9, <2>2 DEF W!Next, Time
<1>10. CASE wakeuptime[c] \notin Time
  <2>1. wakeuptime[c] = at_the_end_of_time
    BY <1>3, <1>10 DEF IInv, TypeOK, Header
  <2>2. Wakeable(c)
    BY <1>1, <1>2, <2>1 DEF WaitInv, SleeperInv
  <2>3. CASE pc[c] = "wait"
    <3>1. ~armed[c]
      BY <1>3, <2>3 DEF IInv, PcInv
    <3>2. PICK w \in Waitable : waitchain[w] = c
      BY <2>2, <3>1 DEF Wakeable
    <3>3. other[c] = w
      BY <1>3, <3>2 DEF IInv, ChainInv
    <3>4. semaphore[w] = 0
      <4>1. c # NULL /\ semaphore[w] \in Int
        BY <1>3 DEF IInv, TypeOK
      <4> QED BY <3>2, <4>1 DEF WaitInv, SignalledHasNoWaiter, SemaphoreInv
    <3>5. SleepsFor(c)' = W!Signal(w)
      BY <1>2, <1>8, <1>10, <2>3, <3>3, WhatForNext
    <3>6. W!wait4signal(c, w)
      BY <1>2, <1>6, <1>7, <3>4, <3>5 DEF W!wait4signal, W!FallsAsleep
    <3> QED BY <1>3, <3>6 DEF W!Next
  <2>4. CASE pc[c] # "wait"
    <3>1. pc[c] # "chained"
      BY <1>2, <1>3 DEF IInv, PcInv
    <3>2. armed[c]
      BY <1>3, <2>2, <2>4, <3>1 DEF Wakeable, IInv, ChainInv
    <3>3. SleepsFor(c)' = W!Hardware
      BY <1>2, <1>8, <1>10, <2>4, WhatForNext
    <3>4. W!wait4wakeup(c)
      BY <1>2, <1>6, <1>7, <3>2, <3>3 DEF W!wait4wakeup, W!FallsAsleep
    <3> QED BY <1>3, <3>4 DEF W!Next
  <2> QED BY <2>3, <2>4
<1> QED BY <1>9, <1>10

LEMMA Keeps_others ==
  ASSUME \/ schedule_next_resched \/ idle_wakes \/ prime_alarm \/ prime_nothing
         \/ Tick \/ UNCHANGED vars
  PROVE  [W!Next]_W!vars
<1>1. UNCHANGED <<waiting4timer, wakeuptime, code, semaphore>>
  BY DEF schedule_next_resched, idle_wakes, prime_alarm, prime_nothing, Tick, vars
<1>2. Asleep' = Asleep
  BY <1>1, AllSleepOn
<1>3. CASE now' = now
  BY <1>1, <1>2, <1>3, Stutters
<1>4. CASE now' # now
  <2>1. Tick
    BY <1>4 DEF schedule_next_resched, idle_wakes, prime_alarm, prime_nothing, vars
  <2>2. W!tick
    BY <1>1, <1>2, <2>1 DEF Tick, W!tick
  <2> QED BY <2>2 DEF W!Next
<1> QED BY <1>3, <1>4

LEMMA KeepsInitially == Init => W!Init
<1> SUFFICES ASSUME Init PROVE W!Init
  OBVIOUS
<1>1. ToSet(waiting4timer) = {}
  BY DEF Init, ToSet
<1>2. Asleep = [c \in Coro |-> W!Awake]
  BY <1>1, WhatFor DEF Asleep
<1> QED BY <1>2 DEF Init, W!Init

LEMMA KeepsNext ==
  ASSUME Contract PROVE IInv /\ WaitInv /\ [Next]_vars => [W!Next]_W!vars
<1> SUFFICES ASSUME IInv, WaitInv, [Next]_vars PROVE [W!Next]_W!vars
  OBVIOUS
<1> QED
  BY NextCases, Keeps_OwnCode, Keeps_wakeup, Keeps_signal, Keeps_timeouthandler,
     Keeps_schedule_next_exit, Keeps_schedule_next_sleep, Keeps_prime_expired,
     Keeps_yield_and_start, Keeps_yield_and_start_first, Keeps_others

-----------------------------------------------------------------------------
\* Scheduler implements Waiting: for any number of coroutines, and whatever
\* interrupts come between the two halves of its waiting calls, they look and
\* fall asleep at once, and each sleep ends with the event it was for.
THEOREM Promises == ASSUME Contract PROVE Spec => KeepsPromises
BY KeepsInitially, KeepsNext, Invariance, WaitInvariance, PTL
   DEF Spec, KeepsPromises, W!Spec
=============================================================================
