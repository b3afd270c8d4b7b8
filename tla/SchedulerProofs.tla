--------------------------- MODULE SchedulerProofs ---------------------------
(***************************************************************************)
(* IInv is an invariant of Scheduler, for every value of its constants:    *)
(* one lemma Step_NAME for each action NAME, the lemmas that several of    *)
(* them share, and the theorems that follow. The second part is about the  *)
(* order of the timer queue, its alarm, and the order of the run queue.    *)
(***************************************************************************)
EXTENDS SchedulerInv, ListOpsProofs, TLAPS

USE SchedulerAssumption
USE DEF lists, timer, sleep, signals, code, ll_peek_head

\* An increment or a decrement of an int8_t is an int8_t, wrapped if need be.
LEMMA Int8Type ==
  ASSUME NEW n \in -INT8_MAX - 2 .. INT8_MAX + 1
  PROVE  Int8(n) \in -INT8_MAX - 1 .. INT8_MAX
BY DEF Int8

\* Small numbers do not wrap.
LEMMA Int8Small == \A n \in -1..1 : Int8(n) = n
BY DEF Int8

\* The values that sleepcount takes: they are counted up and down exactly.
LEMMA Int8Step == \A n \in {0, 1} : Int8(n - 1) = n - 1 /\ Int8(n - 1 + 1) = n
                                 /\ Int8(0 + 1) = 1 /\ Int8(-1 + 1) = 0
BY DEF Int8

\* Who is in the lists, and who is at their heads.
LEMMA ListFacts ==
  ASSUME IInv
  PROVE  /\ ToSet(ready2run) \subseteq Header /\ ToSet(waiting4timer) \subseteq Coro
         /\ ready2run # <<>> =>
              /\ Current \in ToSet(ready2run)
              /\ Current \notin ToSet(waiting4timer)
              /\ Current \in Header
              /\ is_live(Current) \/ Current = initialisercoro
         /\ waiting4timer # <<>> =>
              /\ Head(waiting4timer) \in ToSet(waiting4timer)
              /\ Head(waiting4timer) \notin ToSet(ready2run)
              /\ is_live(Head(waiting4timer))
<1>1. /\ ready2run \in Seq(Header) /\ waiting4timer \in Seq(Coro)
      /\ ToSet(ready2run) \cap ToSet(waiting4timer) = {}
      /\ ToSet(ready2run) \cup ToSet(waiting4timer) = Scheduled
  BY DEF IInv, TypeOK, NothingLost
<1>2. ToSet(ready2run) \subseteq Header /\ ToSet(waiting4timer) \subseteq Coro
  BY <1>1 DEF ToSet
<1>3. ready2run # <<>> => Head(ready2run) \in ToSet(ready2run)
  BY <1>1, PopFrontProps
<1>4. waiting4timer # <<>> => Head(waiting4timer) \in ToSet(waiting4timer)
  BY <1>1, PopFrontProps
<1> QED BY <1>1, <1>2, <1>3, <1>4 DEF Current, ll_peek_head, Scheduled

\* A coroutine that executes is live, awake and at the head of the run queue.
\* Only while it is inside wait4signal or has hardware started may it be woken.
LEMMA RunningFacts ==
  ASSUME IInv, NEW c \in Coro, Running(c)
  PROVE  /\ c = Current /\ cpu = "coro" /\ ~irq /\ ready2run # <<>>
         /\ c \in ToSet(ready2run) /\ c \notin ToSet(waiting4timer)
         /\ is_live(c) /\ ~exiting[c]
         /\ sleepcount[c] \in -1..0
         /\ pc[c] \notin {"armed", "chained"} => sleepcount[c] = 0 /\ ~Wakeable(c)
         /\ pc[c] \in {"armed", "chained"} =>
              sleepcount[c] = IF Wakeable(c) THEN 0 ELSE -1
<1>1. c = Current /\ cpu = "coro" /\ ~irq /\ ready2run # <<>>
  BY DEF Running, IInv, CpuInv
<1>2. c \in ToSet(ready2run) /\ c \notin ToSet(waiting4timer) /\ is_live(c)
  BY <1>1, ListFacts
<1>3. ~exiting[c]
  BY <1>1, <1>2 DEF IInv, ExitInv
<1>4. sleepcount[c] = IF pc[c] \in {"armed", "chained"} /\ ~Wakeable(c) THEN -1 ELSE 0
  BY <1>1 DEF IInv, SleepInv
<1>5. Wakeable(c) => pc[c] \in {"armed", "chained"}
  BY <1>1, <1>2 DEF IInv, WakeableInv
<1> QED BY <1>1, <1>2, <1>3, <1>4, <1>5

\* yield_and_wait4time(): nobody but the alarm may wake the coroutine.
LEMMA Step_yield_and_wait4time ==
  ASSUME IInv, NEW c \in Coro, NEW until \in Time, yield_and_wait4time(c, until)
  PROVE  IInv'
<1>1. /\ c = Current /\ cpu = "coro" /\ ~irq /\ ready2run # <<>>
      /\ c \in ToSet(ready2run) /\ c \notin ToSet(waiting4timer)
      /\ is_live(c) /\ ~exiting[c]
      /\ sleepcount[c] = 0 /\ ~Wakeable(c) /\ pc[c] = "app"
  BY RunningFacts DEF yield_and_wait4time
<1>2. /\ sleepcount' = [sleepcount EXCEPT ![c] = 1]
      /\ wakeuptime' = [wakeuptime EXCEPT ![c] = until]
      /\ cpu' = "yield" /\ Current' = Current
      /\ UNCHANGED <<lists, timer, signals, code, sp, exiting, irq, now>>
  BY <1>1, Int8Step DEF yield_and_wait4time, fall_asleep, Current
<1>3. c \in Header
  BY DEF Header
<1>4. TypeOK'
  BY <1>1, <1>2, <1>3 DEF IInv, TypeOK
<1>5. NothingLost'
  BY <1>1, <1>2, <1>3 DEF IInv, NothingLost, Scheduled, is_live
<1>6. NoStrayAlarm'
  BY <1>1, <1>2, <1>3 DEF IInv, TypeOK, NoStrayAlarm
<1>7. CpuInv'
  BY <1>1, <1>2, <1>3 DEF IInv, TypeOK, CpuInv
<1>8. PcInv'
  BY <1>1, <1>2, <1>3 DEF IInv, TypeOK, PcInv, is_live, Wakeable
<1>9. ChainInv'
  BY <1>1, <1>2, <1>3 DEF IInv, TypeOK, PcInv, ChainInv, Wakeable
<1>10. WakeableInv'
  BY <1>1, <1>2, <1>3 DEF IInv, TypeOK, PcInv, WakeableInv, Wakeable, is_live
<1>11. SleepInv'
  BY <1>1, <1>2, <1>3 DEF IInv, TypeOK, SleepInv, Active, Wakeable
<1>12. ExitInv'
  BY <1>1, <1>2, <1>3 DEF IInv, TypeOK, PcInv, ExitInv
<1> QED BY <1>4, <1>5, <1>6, <1>7, <1>8, <1>9, <1>10, <1>11, <1>12 DEF IInv

\* yield_and_wait4wakeup(): sleepcount is one, or zero if the wakeup came first.
LEMMA Step_yield_and_wait4wakeup ==
  ASSUME IInv, NEW c \in Coro, yield_and_wait4wakeup(c)
  PROVE  IInv'
<1>1. /\ c = Current /\ cpu = "coro" /\ ~irq /\ ready2run # <<>>
      /\ c \in ToSet(ready2run) /\ c \notin ToSet(waiting4timer)
      /\ is_live(c) /\ ~exiting[c]
      /\ pc[c] \in {"armed", "chained"}
      /\ sleepcount[c] = IF Wakeable(c) THEN 0 ELSE -1
  BY RunningFacts DEF yield_and_wait4wakeup
<1>2. /\ sleepcount' = [sleepcount EXCEPT ![c] = IF Wakeable(c) THEN 1 ELSE 0]
      /\ wakeuptime' = [wakeuptime EXCEPT ![c] = at_the_end_of_time]
      /\ pc' = [pc EXCEPT ![c] = IF pc[c] = "armed" THEN "app" ELSE "wait"]
      /\ cpu' = "yield" /\ Current' = Current
      /\ UNCHANGED <<lists, timer, signals, other, armed, sp, exiting, irq, now>>
  BY <1>1, Int8Step DEF yield_and_wait4wakeup, fall_asleep, Current
<1>3. c \in Header
  BY DEF Header
<1>4. TypeOK'
  BY <1>1, <1>2, <1>3 DEF IInv, TypeOK
<1>5. NothingLost'
  BY <1>1, <1>2, <1>3 DEF IInv, NothingLost, Scheduled, is_live
<1>6. NoStrayAlarm'
  BY <1>1, <1>2, <1>3 DEF IInv, TypeOK, NoStrayAlarm
<1>7. CpuInv'
  BY <1>1, <1>2, <1>3 DEF IInv, TypeOK, CpuInv
<1>8. PcInv'
  BY <1>1, <1>2, <1>3 DEF IInv, TypeOK, PcInv, is_live, Wakeable
<1>9. ChainInv'
  BY <1>1, <1>2, <1>3 DEF IInv, TypeOK, PcInv, ChainInv, Wakeable
<1>10. WakeableInv'
  BY <1>1, <1>2, <1>3 DEF IInv, TypeOK, PcInv, WakeableInv, Wakeable, is_live
<1>11. SleepInv'
  BY <1>1, <1>2, <1>3 DEF IInv, TypeOK, SleepInv, Active, Wakeable
<1>12. ExitInv'
  BY <1>1, <1>2, <1>3 DEF IInv, TypeOK, PcInv, ExitInv
<1> QED BY <1>4, <1>5, <1>6, <1>7, <1>8, <1>9, <1>10, <1>11, <1>12 DEF IInv

\* yield_and_exit(): only a coroutine that is awake gets here.
LEMMA Step_yield_and_exit ==
  ASSUME IInv, NEW c \in Coro, yield_and_exit(c)
  PROVE  IInv'
<1>1. /\ c = Current /\ cpu = "coro" /\ ~irq /\ ready2run # <<>>
      /\ c \in ToSet(ready2run) /\ c \notin ToSet(waiting4timer)
      /\ is_live(c) /\ ~exiting[c]
      /\ sleepcount[c] = 0 /\ pc[c] = "app"
  BY RunningFacts DEF yield_and_exit
<1>2. /\ exiting' = [exiting EXCEPT ![c] = TRUE]
      /\ cpu' = "yield" /\ Current' = Current
      /\ UNCHANGED <<lists, timer, sleep, signals, code, sp, irq, now>>
  BY DEF yield_and_exit, Current
<1>3. c \in Header
  BY DEF Header
<1>4. TypeOK'
  BY <1>1, <1>2, <1>3 DEF IInv, TypeOK
<1>5. NothingLost'
  BY <1>1, <1>2, <1>3 DEF IInv, NothingLost, Scheduled, is_live
<1>6. NoStrayAlarm'
  BY <1>1, <1>2, <1>3 DEF IInv, TypeOK, NoStrayAlarm
<1>7. CpuInv'
  BY <1>1, <1>2, <1>3 DEF IInv, TypeOK, CpuInv
<1>8. PcInv'
  BY <1>1, <1>2, <1>3 DEF IInv, TypeOK, PcInv, is_live, Wakeable
<1>9. ChainInv'
  BY <1>1, <1>2, <1>3 DEF IInv, TypeOK, PcInv, ChainInv, Wakeable
<1>10. WakeableInv'
  BY <1>1, <1>2, <1>3 DEF IInv, TypeOK, PcInv, WakeableInv, Wakeable, is_live
<1>11. SleepInv'
  BY <1>1, <1>2, <1>3 DEF IInv, TypeOK, SleepInv, Active, Wakeable
<1>12. ExitInv'
  BY <1>1, <1>2, <1>3 DEF IInv, TypeOK, PcInv, ExitInv
<1> QED BY <1>4, <1>5, <1>6, <1>7, <1>8, <1>9, <1>10, <1>11, <1>12 DEF IInv

\* yield(): the run queue stays as it is until schedule_next().
LEMMA Step_yield ==
  ASSUME IInv, NEW c \in Coro, yield(c)
  PROVE  IInv'
<1>1. /\ c = Current /\ cpu = "coro" /\ ~irq /\ ready2run # <<>>
      /\ c \in ToSet(ready2run) /\ c \notin ToSet(waiting4timer)
      /\ is_live(c) /\ ~exiting[c]
      /\ sleepcount[c] = 0 /\ pc[c] = "app" /\ ~Wakeable(c)
  BY RunningFacts DEF yield
<1>2. /\ cpu' = "yield" /\ Current' = Current
      /\ UNCHANGED <<lists, timer, sleep, signals, code, sp, exiting, irq, now>>
  BY DEF yield, Current
<1>3. c \in Header
  BY DEF Header
<1>4. TypeOK'
  BY <1>1, <1>2, <1>3 DEF IInv, TypeOK
<1>5. NothingLost'
  BY <1>1, <1>2, <1>3 DEF IInv, NothingLost, Scheduled, is_live
<1>6. NoStrayAlarm'
  BY <1>1, <1>2, <1>3 DEF IInv, TypeOK, NoStrayAlarm
<1>7. CpuInv'
  BY <1>1, <1>2, <1>3 DEF IInv, TypeOK, CpuInv
<1>8. PcInv'
  BY <1>1, <1>2, <1>3 DEF IInv, TypeOK, PcInv, is_live, Wakeable
<1>9. ChainInv'
  BY <1>1, <1>2, <1>3 DEF IInv, TypeOK, PcInv, ChainInv, Wakeable
<1>10. WakeableInv'
  BY <1>1, <1>2, <1>3 DEF IInv, TypeOK, PcInv, WakeableInv, Wakeable, is_live
<1>11. SleepInv'
  BY <1>1, <1>2, <1>3 DEF IInv, TypeOK, SleepInv, Active, Wakeable
<1>12. ExitInv'
  BY <1>1, <1>2, <1>3 DEF IInv, TypeOK, PcInv, ExitInv
<1> QED BY <1>4, <1>5, <1>6, <1>7, <1>8, <1>9, <1>10, <1>11, <1>12 DEF IInv

\* From now on an interrupt may wake the coroutine.
LEMMA Step_arm ==
  ASSUME IInv, NEW c \in Coro, arm(c)
  PROVE  IInv'
<1>1. /\ c = Current /\ cpu = "coro" /\ ~irq /\ ready2run # <<>>
      /\ c \in ToSet(ready2run) /\ c \notin ToSet(waiting4timer)
      /\ is_live(c) /\ ~exiting[c]
      /\ sleepcount[c] = 0 /\ pc[c] = "app"
  BY RunningFacts DEF arm
<1>2. /\ armed' = [armed EXCEPT ![c] = TRUE]
      /\ pc' = [pc EXCEPT ![c] = "armed"]
      /\ Current' = Current
      /\ UNCHANGED <<lists, timer, sleep, signals, other, sp, exiting, cpu, irq,
                     now>>
  BY DEF arm, Current
<1>3. c \in Header
  BY DEF Header
<1>4. TypeOK'
  BY <1>1, <1>2, <1>3 DEF IInv, TypeOK
<1>5. NothingLost'
  BY <1>1, <1>2, <1>3 DEF IInv, NothingLost, Scheduled, is_live
<1>6. NoStrayAlarm'
  BY <1>1, <1>2, <1>3 DEF IInv, TypeOK, NoStrayAlarm
<1>7. CpuInv'
  BY <1>1, <1>2, <1>3 DEF IInv, TypeOK, CpuInv
<1>8. PcInv'
  BY <1>1, <1>2, <1>3 DEF IInv, TypeOK, PcInv, is_live, Wakeable
<1>9. ChainInv'
  BY <1>1, <1>2, <1>3 DEF IInv, TypeOK, PcInv, ChainInv, Wakeable
<1>10. WakeableInv'
  BY <1>1, <1>2, <1>3 DEF IInv, TypeOK, PcInv, WakeableInv, Wakeable, is_live
<1>11. SleepInv'
  BY <1>1, <1>2, <1>3 DEF IInv, TypeOK, SleepInv, Active, Wakeable
<1>12. ExitInv'
  BY <1>1, <1>2, <1>3 DEF IInv, TypeOK, PcInv, ExitInv
<1> QED BY <1>4, <1>5, <1>6, <1>7, <1>8, <1>9, <1>10, <1>11, <1>12 DEF IInv

\* yield_and_wait4signal() changes nothing the scheduler sees yet.
LEMMA Step_wait4signal_enter ==
  ASSUME IInv, NEW c \in Coro, NEW w \in Coro \cup Event, wait4signal_enter(c, w)
  PROVE  IInv'
<1>1. /\ c = Current /\ cpu = "coro" /\ ~irq /\ ready2run # <<>>
      /\ c \in ToSet(ready2run) /\ c \notin ToSet(waiting4timer)
      /\ is_live(c) /\ ~exiting[c]
      /\ sleepcount[c] = 0 /\ pc[c] = "app" /\ ~Wakeable(c)
      /\ w # NULL
  BY RunningFacts DEF wait4signal_enter
<1>2. /\ pc' = [pc EXCEPT ![c] = "wait"]
      /\ other' = [other EXCEPT ![c] = w]
      /\ Current' = Current
      /\ UNCHANGED <<lists, timer, sleep, signals, armed, sp, exiting, cpu, irq,
                     now>>
  BY DEF wait4signal_enter, Current
<1>3. c \in Header
  BY DEF Header
<1>4. TypeOK'
  BY <1>1, <1>2, <1>3 DEF IInv, TypeOK
<1>5. NothingLost'
  BY <1>1, <1>2, <1>3 DEF IInv, NothingLost, Scheduled, is_live
<1>6. NoStrayAlarm'
  BY <1>1, <1>2, <1>3 DEF IInv, TypeOK, NoStrayAlarm
<1>7. CpuInv'
  BY <1>1, <1>2, <1>3 DEF IInv, TypeOK, CpuInv
<1>8. PcInv'
  BY <1>1, <1>2, <1>3 DEF IInv, TypeOK, PcInv, is_live, Wakeable
<1>9. ChainInv'
  BY <1>1, <1>2, <1>3 DEF IInv, TypeOK, PcInv, ChainInv, Wakeable
<1>10. WakeableInv'
  BY <1>1, <1>2, <1>3 DEF IInv, TypeOK, PcInv, WakeableInv, Wakeable, is_live
<1>11. SleepInv'
  BY <1>1, <1>2, <1>3 DEF IInv, TypeOK, SleepInv, Active, Wakeable
<1>12. ExitInv'
  BY <1>1, <1>2, <1>3 DEF IInv, TypeOK, PcInv, ExitInv
<1> QED BY <1>4, <1>5, <1>6, <1>7, <1>8, <1>9, <1>10, <1>11, <1>12 DEF IInv

\* yield_and_wait4signal() returns: the coroutine is chained nowhere.
LEMMA Step_wait4signal_take ==
  ASSUME IInv, NEW c \in Coro, wait4signal_take(c)
  PROVE  IInv'
<1>1. /\ c = Current /\ cpu = "coro" /\ ~irq /\ ready2run # <<>>
      /\ c \in ToSet(ready2run) /\ c \notin ToSet(waiting4timer)
      /\ is_live(c) /\ ~exiting[c]
      /\ sleepcount[c] = 0 /\ pc[c] = "wait" /\ ~Wakeable(c)
  BY RunningFacts DEF wait4signal_take
<1>2. /\ semaphore' = [semaphore EXCEPT ![other[c]] = Int8(@ - 1)]
      /\ pc' = [pc EXCEPT ![c] = "app"]
      /\ other' = [other EXCEPT ![c] = NULL]
      /\ Current' = Current
      /\ UNCHANGED <<lists, timer, sleep, waitchain, armed, sp, exiting, cpu,
                     irq, now>>
  BY DEF wait4signal_take, Current
<1>3. c \in Header
  BY DEF Header
<1>4. TypeOK'
  <2>1. other[c] \in Waitable /\ semaphore[other[c]] \in 1..INT8_MAX
    BY <1>1 DEF IInv, TypeOK, PcInv, Waitable, Header, wait4signal_take
  <2>2. Int8(semaphore[other[c]] - 1) \in -INT8_MAX - 1 .. INT8_MAX
    BY <2>1, Int8Type
  <2> QED BY <1>2, <2>1, <2>2 DEF IInv, TypeOK
<1>5. NothingLost'
  BY <1>1, <1>2, <1>3 DEF IInv, NothingLost, Scheduled, is_live
<1>6. NoStrayAlarm'
  BY <1>1, <1>2, <1>3 DEF IInv, TypeOK, NoStrayAlarm
<1>7. CpuInv'
  BY <1>1, <1>2, <1>3 DEF IInv, TypeOK, CpuInv
<1>8. PcInv'
  BY <1>1, <1>2, <1>3 DEF IInv, TypeOK, PcInv, is_live, Wakeable
<1>9. ChainInv'
  BY <1>1, <1>2, <1>3 DEF IInv, TypeOK, PcInv, ChainInv, Wakeable
<1>10. WakeableInv'
  BY <1>1, <1>2, <1>3 DEF IInv, TypeOK, PcInv, WakeableInv, Wakeable, is_live
<1>11. SleepInv'
  BY <1>1, <1>2, <1>3 DEF IInv, TypeOK, SleepInv, Active, Wakeable
<1>12. ExitInv'
  BY <1>1, <1>2, <1>3 DEF IInv, TypeOK, PcInv, ExitInv
<1> QED BY <1>4, <1>5, <1>6, <1>7, <1>8, <1>9, <1>10, <1>11, <1>12 DEF IInv

\* From now on signal() may wake the coroutine.
LEMMA Step_wait4signal_chain ==
  ASSUME IInv, NEW c \in Coro, wait4signal_chain(c)
  PROVE  IInv'
<1>1. /\ c = Current /\ cpu = "coro" /\ ~irq /\ ready2run # <<>>
      /\ c \in ToSet(ready2run) /\ c \notin ToSet(waiting4timer)
      /\ is_live(c) /\ ~exiting[c]
      /\ sleepcount[c] = 0 /\ pc[c] = "wait" /\ ~Wakeable(c)
  BY RunningFacts DEF wait4signal_chain
<1>2. /\ waitchain' = [waitchain EXCEPT ![other[c]] = c]
      /\ pc' = [pc EXCEPT ![c] = "chained"]
      /\ other[c] \in Waitable
      /\ Current' = Current
      /\ UNCHANGED <<lists, timer, sleep, semaphore, other, armed, sp, exiting,
                     cpu, irq, now>>
  BY <1>1 DEF wait4signal_chain, Current, IInv, TypeOK, PcInv, Waitable, Header
<1>3. c \in Header
  BY DEF Header
<1>4. TypeOK'
  BY <1>1, <1>2, <1>3 DEF IInv, TypeOK
<1>5. NothingLost'
  BY <1>1, <1>2, <1>3 DEF IInv, NothingLost, Scheduled, is_live
<1>6. NoStrayAlarm'
  BY <1>1, <1>2, <1>3 DEF IInv, TypeOK, NoStrayAlarm
<1>7. CpuInv'
  BY <1>1, <1>2, <1>3 DEF IInv, TypeOK, CpuInv
<1>8. PcInv'
  BY <1>1, <1>2, <1>3 DEF IInv, TypeOK, PcInv, is_live, Wakeable
<1>9. ChainInv'
  BY <1>1, <1>2, <1>3 DEF IInv, TypeOK, PcInv, ChainInv, Wakeable
<1>10. WakeableInv'
  BY <1>1, <1>2, <1>3 DEF IInv, TypeOK, PcInv, WakeableInv, Wakeable, is_live
<1>11. SleepInv'
  BY <1>1, <1>2, <1>3 DEF IInv, TypeOK, SleepInv, Active, Wakeable
<1>12. ExitInv'
  BY <1>1, <1>2, <1>3 DEF IInv, TypeOK, PcInv, ExitInv
<1> QED BY <1>4, <1>5, <1>6, <1>7, <1>8, <1>9, <1>10, <1>11, <1>12 DEF IInv

\* yield_and_check4signal() is a yield() first.
LEMMA Step_yield_and_check4signal ==
  ASSUME IInv, NEW c \in Coro, NEW w \in Coro \cup Event, yield_and_check4signal(c, w)
  PROVE  IInv'
<1>1. /\ c = Current /\ cpu = "coro" /\ ~irq /\ ready2run # <<>>
      /\ c \in ToSet(ready2run) /\ c \notin ToSet(waiting4timer)
      /\ is_live(c) /\ ~exiting[c]
      /\ sleepcount[c] = 0 /\ pc[c] = "app" /\ ~Wakeable(c)
      /\ w # NULL
  BY RunningFacts DEF yield_and_check4signal
<1>2. /\ pc' = [pc EXCEPT ![c] = "poll"]
      /\ other' = [other EXCEPT ![c] = w]
      /\ cpu' = "yield" /\ Current' = Current
      /\ UNCHANGED <<lists, timer, sleep, signals, armed, sp, exiting, irq, now>>
  BY DEF yield_and_check4signal, Current
<1>3. c \in Header
  BY DEF Header
<1>4. TypeOK'
  BY <1>1, <1>2, <1>3 DEF IInv, TypeOK
<1>5. NothingLost'
  BY <1>1, <1>2, <1>3 DEF IInv, NothingLost, Scheduled, is_live
<1>6. NoStrayAlarm'
  BY <1>1, <1>2, <1>3 DEF IInv, TypeOK, NoStrayAlarm
<1>7. CpuInv'
  BY <1>1, <1>2, <1>3 DEF IInv, TypeOK, CpuInv
<1>8. PcInv'
  BY <1>1, <1>2, <1>3 DEF IInv, TypeOK, PcInv, is_live, Wakeable
<1>9. ChainInv'
  BY <1>1, <1>2, <1>3 DEF IInv, TypeOK, PcInv, ChainInv, Wakeable
<1>10. WakeableInv'
  BY <1>1, <1>2, <1>3 DEF IInv, TypeOK, PcInv, WakeableInv, Wakeable, is_live
<1>11. SleepInv'
  BY <1>1, <1>2, <1>3 DEF IInv, TypeOK, SleepInv, Active, Wakeable
<1>12. ExitInv'
  BY <1>1, <1>2, <1>3 DEF IInv, TypeOK, PcInv, ExitInv
<1> QED BY <1>4, <1>5, <1>6, <1>7, <1>8, <1>9, <1>10, <1>11, <1>12 DEF IInv

\* yield_and_check4signal() takes a signal if there is one.
LEMMA Step_check4signal_done ==
  ASSUME IInv, NEW c \in Coro, check4signal_done(c)
  PROVE  IInv'
<1>1. /\ c = Current /\ cpu = "coro" /\ ~irq /\ ready2run # <<>>
      /\ c \in ToSet(ready2run) /\ c \notin ToSet(waiting4timer)
      /\ is_live(c) /\ ~exiting[c]
      /\ sleepcount[c] = 0 /\ pc[c] = "poll" /\ ~Wakeable(c)
  BY RunningFacts DEF check4signal_done
<1>2. /\ semaphore' = [semaphore EXCEPT
                         ![other[c]] = IF @ > 0 THEN Int8(@ - 1) ELSE @]
      /\ pc' = [pc EXCEPT ![c] = "app"]
      /\ other' = [other EXCEPT ![c] = NULL]
      /\ Current' = Current
      /\ UNCHANGED <<lists, timer, sleep, waitchain, armed, sp, exiting, cpu,
                     irq, now>>
  BY DEF check4signal_done, Current
<1>3. c \in Header
  BY DEF Header
<1>4. TypeOK'
  <2>1. /\ other[c] \in Waitable
        /\ semaphore[other[c]] \in -INT8_MAX - 1 .. INT8_MAX
    BY <1>1 DEF IInv, TypeOK, PcInv, Waitable, Header
  <2>2. semaphore[other[c]] > 0 =>
          Int8(semaphore[other[c]] - 1) \in -INT8_MAX - 1 .. INT8_MAX
    BY <2>1, Int8Type
  <2> QED BY <1>2, <2>1, <2>2 DEF IInv, TypeOK
<1>5. NothingLost'
  BY <1>1, <1>2, <1>3 DEF IInv, NothingLost, Scheduled, is_live
<1>6. NoStrayAlarm'
  BY <1>1, <1>2, <1>3 DEF IInv, TypeOK, NoStrayAlarm
<1>7. CpuInv'
  BY <1>1, <1>2, <1>3 DEF IInv, TypeOK, CpuInv
<1>8. PcInv'
  BY <1>1, <1>2, <1>3 DEF IInv, TypeOK, PcInv, is_live, Wakeable
<1>9. ChainInv'
  BY <1>1, <1>2, <1>3 DEF IInv, TypeOK, PcInv, ChainInv, Wakeable
<1>10. WakeableInv'
  BY <1>1, <1>2, <1>3 DEF IInv, TypeOK, PcInv, WakeableInv, Wakeable, is_live
<1>11. SleepInv'
  BY <1>1, <1>2, <1>3 DEF IInv, TypeOK, SleepInv, Active, Wakeable
<1>12. ExitInv'
  BY <1>1, <1>2, <1>3 DEF IInv, TypeOK, PcInv, ExitInv
<1> QED BY <1>4, <1>5, <1>6, <1>7, <1>8, <1>9, <1>10, <1>11, <1>12 DEF IInv

\* What wakeup_locked() does to the lists when c sleeps in waiting4timer ...
LEMMA WakeupAsleep ==
  ASSUME NEW queue \in Seq(Header), NEW c \in Coro,
         waiting4timer \in Seq(Coro), IsInjective(queue),
         IsInjective(waiting4timer), c \notin ToSet(queue),
         wakeup_locked(c, queue)
  PROVE  /\ ready2run' \in Seq(Header) /\ waiting4timer' \in Seq(Coro)
         /\ IsInjective(ready2run') /\ IsInjective(waiting4timer')
         /\ ToSet(ready2run') = ToSet(queue) \cup {c}
         /\ ToSet(waiting4timer') = ToSet(waiting4timer) \ {c}
         /\ queue # <<>> => Head(ready2run') = Head(queue)
         /\ ready2run' # <<>>
<1>1. queue # <<>> => Head(queue) # c
  BY PopFrontProps
<1>2. ready2run' = ll_push_back(queue, c)
  BY <1>1 DEF wakeup_locked
<1>3. waiting4timer' = ll_remove(waiting4timer, c)
  BY DEF wakeup_locked
<1>4. c \in Header
  BY DEF Header
<1>5. /\ waiting4timer' \in Seq(Coro) /\ IsInjective(waiting4timer')
      /\ ToSet(waiting4timer') = ToSet(waiting4timer) \ {c}
  BY <1>3, RemoveProps
<1>6. /\ ready2run' \in Seq(Header) /\ IsInjective(ready2run')
      /\ ToSet(ready2run') = ToSet(queue) \cup {c}
      /\ queue # <<>> => Head(ready2run') = Head(queue)
      /\ ready2run' # <<>>
  <2> DEFINE longer == ll_push_back(queue, c)
  <2>1. /\ longer \in Seq(Header) /\ ToSet(longer) = ToSet(queue) \cup {c}
        /\ IsInjective(longer) /\ longer # <<>>
        /\ queue # <<>> => Head(longer) = Head(queue)
    BY <1>4, PushBackProps
  <2> QED BY <2>1, <1>2
<1> QED BY <1>5, <1>6

\* ... and when c is the head of the run queue.
LEMMA WakeupHead ==
  ASSUME ready2run \in Seq(Header), waiting4timer \in Seq(Coro),
         IsInjective(waiting4timer),
         NEW c \in Coro, ready2run # <<>>, c = Head(ready2run),
         c \notin ToSet(waiting4timer), wakeup_locked(c, ready2run)
  PROVE  /\ ready2run' = ready2run /\ waiting4timer' \in Seq(Coro)
         /\ IsInjective(waiting4timer')
         /\ ToSet(waiting4timer') = ToSet(waiting4timer)
<1>1. ready2run' = ready2run /\ waiting4timer' = ll_remove(waiting4timer, c)
  BY DEF wakeup_locked
<1>2. /\ waiting4timer' \in Seq(Coro) /\ IsInjective(waiting4timer')
      /\ ToSet(waiting4timer') = ToSet(waiting4timer) \ {c}
  BY <1>1, RemoveProps
<1> QED BY <1>1, <1>2

\* Waking whoever may be woken, from wakeup() or signal(), keeps the invariant
\* once it may not be woken again.
LEMMA WakeupKeepsInv ==
  ASSUME IInv, NEW c \in Coro, LockFree, Wakeable(c),
         wakeup_locked(c, ready2run),
         waitchain' \in [Waitable -> Coro \cup {NULL}],
         armed' \in [Coro -> BOOLEAN],
         semaphore' \in [Waitable -> -INT8_MAX - 1 .. INT8_MAX],
         \A w \in Waitable : waitchain'[w] = waitchain[w] \/ waitchain'[w] = NULL,
         \A d \in Coro : armed'[d] => armed[d],
         \A d \in Coro : d # c => (Wakeable(d)' <=> Wakeable(d)),
         ~Wakeable(c)',
         UNCHANGED <<timer, pc, other, sp, exiting, cpu, irq, now>>
  PROVE  IInv'
<1> DEFINE asleep == c \in ToSet(waiting4timer)
<1>1. /\ ready2run \in Seq(Header) /\ waiting4timer \in Seq(Coro)
      /\ IsInjective(ready2run) /\ IsInjective(waiting4timer)
      /\ ToSet(ready2run) \cap ToSet(waiting4timer) = {}
      /\ cpu \in {"coro", "yield"} => ready2run # <<>>
  BY DEF IInv, TypeOK, NothingLost, CpuInv
<1>2. /\ is_live(c) /\ c \in Header /\ cpu \in {"coro", "yield", "idle"}
      /\ \/ asleep /\ wakeuptime[c] = at_the_end_of_time
         \/ /\ ~asleep /\ c = Current /\ ready2run # <<>>
            /\ \/ cpu = "yield" /\ sleepcount[c] = 1
               \/ cpu = "coro" /\ pc[c] \in {"armed", "chained"}
  BY <1>1, ListFacts DEF IInv, WakeableInv, Header, LockFree
<1>3. /\ sleepcount' = [sleepcount EXCEPT ![c] = Int8(sleepcount[c] - 1)]
      /\ wakeuptime' = [wakeuptime EXCEPT ![c] = nil_time]
  BY DEF wakeup_locked
<1>4. sleepcount[c] = IF cpu = "coro" /\ c = Current THEN 0 ELSE 1
  BY <1>2, ListFacts DEF IInv, SleepInv
<1>5. Int8(sleepcount[c] - 1) = IF cpu = "coro" /\ c = Current THEN -1 ELSE 0
  BY <1>4, Int8Step
<1>6. /\ ready2run' \in Seq(Header) /\ waiting4timer' \in Seq(Coro)
      /\ IsInjective(ready2run') /\ IsInjective(waiting4timer')
      /\ ToSet(ready2run') = ToSet(ready2run) \cup {c}
      /\ ToSet(waiting4timer') = ToSet(waiting4timer) \ {c}
      /\ ready2run # <<>> => Current' = Current /\ ready2run' # <<>>
  <2>1. CASE asleep
    BY <2>1, <1>1, WakeupAsleep DEF Current
  <2>2. CASE ~asleep
    <3>1. c \in ToSet(ready2run)
      BY <1>2, <2>2, ListFacts
    <3> QED BY <2>2, <3>1, <1>1, <1>2, WakeupHead DEF Current
  <2> QED BY <2>1, <2>2
<1>7. ToSet(ready2run') \cap ToSet(waiting4timer') = {}
  BY <1>1, <1>6
<1>8. cpu \in {"coro", "yield"} => Current' = Current
  BY <1>1, <1>6
<1> HIDE DEF asleep
<1>9. TypeOK'
  <2>1. sleepcount' \in [Header -> -INT8_MAX - 1 .. INT8_MAX]
    <3>1. Int8(sleepcount[c] - 1) \in -INT8_MAX - 1 .. INT8_MAX
      BY <1>5
    <3>2. sleepcount \in [Header -> -INT8_MAX - 1 .. INT8_MAX]
      BY DEF IInv, TypeOK
    <3> QED BY <1>3, <3>1, <3>2
  <2>2. wakeuptime' \in [Header -> Time \cup {at_the_end_of_time}]
    <3>1. nil_time \in Time
      BY SchedulerAssumption DEF nil_time, Time
    <3>2. wakeuptime \in [Header -> Time \cup {at_the_end_of_time}]
      BY DEF IInv, TypeOK
    <3> QED BY <1>3, <3>1, <3>2
  <2> QED BY <1>2, <1>6, <2>1, <2>2 DEF IInv, TypeOK
<1>10. NothingLost'
  BY <1>2, <1>6, <1>7, ListFacts DEF IInv, NothingLost, Scheduled, is_live, asleep
<1>11. NoStrayAlarm'
  <2>1. \A a \in alarms : a.coro # c
    BY <1>2, ListFacts DEF IInv, TypeOK, NoStrayAlarm, asleep, Alarm, Time, at_the_end_of_time
  <2> QED BY <2>1, <1>3, <1>6 DEF IInv, TypeOK, NoStrayAlarm, Alarm
<1>12. CpuInv'
  BY <1>2, <1>6, <1>8 DEF IInv, CpuInv
<1>13. PcInv'
  BY <1>2, <1>8 DEF IInv, PcInv, is_live
<1>14. ChainInv'
  <2>1. \A w \in Waitable : \A d \in Coro : waitchain'[w] = d => waitchain[w] = d
    OBVIOUS
  <2> QED BY <2>1 DEF IInv, ChainInv
<1>15. WakeableInv'
  <2>1. \A d \in Coro : Wakeable(d)' => d # c /\ Wakeable(d)
    OBVIOUS
  <2>2. \A d \in Coro : d # c =>
          /\ wakeuptime'[d] = wakeuptime[d] /\ sleepcount'[d] = sleepcount[d]
          /\ d \in ToSet(waiting4timer) => d \in ToSet(waiting4timer')
    BY <1>2, <1>3, <1>6 DEF IInv, TypeOK, Header
  <2> QED BY <2>1, <2>2, <1>8 DEF IInv, WakeableInv, is_live
<1>16. SleepInv'
  <2>1. /\ sleepcount'[c] = IF cpu = "coro" /\ c = Current THEN -1 ELSE 0
        /\ \A h \in Header : h # c => sleepcount'[h] = sleepcount[h]
    BY <1>2, <1>3, <1>5 DEF IInv, TypeOK
  <2>2. \A d \in ToSet(waiting4timer') : sleepcount'[d] = 1
    BY <2>1, <1>6, ListFacts DEF IInv, SleepInv, Header
  <2>3. \A h \in ToSet(ready2run') : ~Active(h)' => sleepcount'[h] = 0
    BY <2>1, <1>2, <1>6, <1>8, ListFacts DEF IInv, SleepInv, Active
  <2>4. cpu' = "yield" => sleepcount'[Current'] \in {0, 1}
    BY <2>1, <1>2, <1>8, <1>1, ListFacts DEF IInv, SleepInv
  <2>5. cpu' = "coro" => sleepcount'[Current'] =
          IF pc'[Current'] \in {"armed", "chained"} /\ ~Wakeable(Current)'
            THEN -1 ELSE 0
    <3>1. SUFFICES ASSUME cpu = "coro" PROVE sleepcount'[Current] =
          IF pc[Current] \in {"armed", "chained"} /\ ~Wakeable(Current)'
            THEN -1 ELSE 0
      BY <1>8
    <3>2. CASE c = Current
      <4>1. pc[Current] \in {"armed", "chained"}
        BY <3>1, <3>2, <1>1, <1>2, ListFacts DEF asleep
      <4>2. ~Wakeable(Current)'
        BY <3>1, <3>2, <1>8 DEF Wakeable
      <4> QED BY <4>1, <4>2, <3>1, <3>2, <2>1
    <3>3. CASE c # Current
      <4>1. Current \in Coro
        BY <3>1, <1>1, ListFacts DEF IInv, CpuInv, ExitInv, Header
      <4>2. Wakeable(Current)' <=> Wakeable(Current)
        BY <3>3, <4>1, <1>8, <3>1
      <4> QED BY <3>1, <3>3, <4>1, <4>2, <2>1 DEF IInv, SleepInv, Header
    <3> QED BY <3>2, <3>3
  <2> QED BY <2>2, <2>3, <2>4, <2>5 DEF SleepInv
<1>17. ExitInv'
  <2>1. ~exiting[c]
    BY <1>1, <1>2, <1>4, ListFacts DEF IInv, ExitInv, asleep
  <2>2. \A h \in Header : h # c => sleepcount'[h] = sleepcount[h]
    BY <1>3 DEF IInv, TypeOK
  <2> QED BY <2>1, <2>2, <1>6, <1>8, ListFacts DEF IInv, ExitInv
<1> QED BY <1>9, <1>10, <1>11, <1>12, <1>13, <1>14, <1>15, <1>16, <1>17 DEF IInv

\* wakeup() disarms the coroutine it wakes.
LEMMA Step_wakeup ==
  ASSUME IInv, NEW c \in Coro, wakeup(c)
  PROVE  IInv'
<1>1. /\ LockFree /\ wakeup_locked(c, ready2run) /\ armed[c]
      /\ armed' = [armed EXCEPT ![c] = FALSE]
      /\ UNCHANGED <<timer, signals, pc, other, sp, exiting, cpu, irq, now>>
  BY DEF wakeup
<1>2. \A w \in Waitable : waitchain[w] # c
  BY <1>1 DEF IInv, PcInv, ChainInv
<1>3. armed \in [Coro -> BOOLEAN] /\ waitchain \in [Waitable -> Coro \cup {NULL}]
      /\ semaphore \in [Waitable -> -INT8_MAX - 1 .. INT8_MAX]
  BY DEF IInv, TypeOK
<1>4. armed' \in [Coro -> BOOLEAN] /\ ~armed'[c]
      /\ \A d \in Coro : d # c => (armed'[d] <=> armed[d])
  BY <1>1, <1>3
<1>5. Wakeable(c) /\ ~Wakeable(c)'
      /\ \A d \in Coro : d # c => (Wakeable(d)' <=> Wakeable(d))
  BY <1>1, <1>2, <1>4 DEF Wakeable
<1>6. \A d \in Coro : armed'[d] => armed[d]
  BY <1>1, <1>4
<1> QED BY <1>1, <1>3, <1>4, <1>5, <1>6, WakeupKeepsInv

\* signal() unchains the coroutine it wakes.
LEMMA Step_signal ==
  ASSUME IInv, NEW w \in Event, signal(w)
  PROVE  IInv'
<1>1. /\ LockFree
      /\ semaphore' = [semaphore EXCEPT ![w] = Int8(semaphore[w] + 1)]
      /\ UNCHANGED <<timer, code, sp, exiting, cpu, irq, now>>
  BY DEF signal
<1>2. w \in Waitable /\ semaphore[w] \in -INT8_MAX - 1 .. INT8_MAX
  BY DEF IInv, TypeOK, Waitable
<1>3. semaphore' \in [Waitable -> -INT8_MAX - 1 .. INT8_MAX]
  <2>1. Int8(semaphore[w] + 1) \in -INT8_MAX - 1 .. INT8_MAX
    BY <1>2, Int8Type
  <2> QED BY <1>1, <1>2, <2>1 DEF IInv, TypeOK
<1>4. CASE waitchain[w] = NULL
  <2>1. UNCHANGED <<lists, sleep, waitchain, Current>>
    BY <1>4 DEF signal, Current
  <2>2. TypeOK'
    BY <1>1, <1>3, <2>1 DEF IInv, TypeOK
  <2>3. NothingLost' /\ NoStrayAlarm' /\ CpuInv' /\ PcInv' /\ ChainInv'
    BY <1>1, <2>1 DEF IInv, NothingLost, Scheduled, is_live, NoStrayAlarm,
                      CpuInv, PcInv, ChainInv
  <2>4. WakeableInv' /\ SleepInv' /\ ExitInv'
    BY <1>1, <2>1 DEF IInv, WakeableInv, Wakeable, is_live, SleepInv, Active,
                      ExitInv
  <2> QED BY <2>2, <2>3, <2>4 DEF IInv
<1>5. CASE waitchain[w] # NULL
  <2>0. waitchain[w] \in Coro
    BY <1>2, <1>5 DEF IInv, TypeOK
  <2>c. PICK c \in Coro : c = waitchain[w]
    BY <2>0
  <2>1. /\ c \in Coro /\ wakeup_locked(c, ready2run)
        /\ waitchain' = [waitchain EXCEPT ![w] = NULL]
    BY <2>c, <1>5 DEF signal
  <2>2. /\ waitchain \in [Waitable -> Coro \cup {NULL}]
        /\ armed \in [Coro -> BOOLEAN]
    BY DEF IInv, TypeOK
  <2>3. ~armed[c] /\ \A v \in Waitable : waitchain[v] = c => v = w
    BY <1>2, <2>c DEF IInv, PcInv, ChainInv
  <2>4. /\ waitchain' \in [Waitable -> Coro \cup {NULL}]
        /\ waitchain'[w] = NULL
        /\ \A v \in Waitable : v # w => waitchain'[v] = waitchain[v]
    BY <1>2, <2>1, <2>2
  <2>5. Wakeable(c)
    BY <1>2, <2>c DEF Wakeable
  <2>6. armed' = armed
    BY <1>1
  <2>7. ~Wakeable(c)'
    <3>1. \A v \in Waitable : waitchain'[v] # c
      BY <2>1, <2>3, <2>4
    <3> QED BY <3>1, <2>3, <2>6 DEF Wakeable
  <2>8. ASSUME NEW d \in Coro, d # c PROVE Wakeable(d)' <=> Wakeable(d)
    <3>1. \A v \in Waitable : waitchain'[v] = d <=> waitchain[v] = d
      BY <2>4, <2>8, <2>c
    <3> QED BY <3>1, <2>6 DEF Wakeable
  <2>9. UNCHANGED <<timer, pc, other, sp, exiting, cpu, irq, now>>
    BY <1>1
  <2>10. \A v \in Waitable : waitchain'[v] = waitchain[v] \/ waitchain'[v] = NULL
    BY <2>4
  <2> QED BY <1>1, <1>3, <2>1, <2>2, <2>4, <2>5, <2>6, <2>7, <2>8, <2>9, <2>10,
             WakeupKeepsInv
<1> QED BY <1>4, <1>5

\* A coroutine whose timeout is due: it sleeps and nobody else may wake it.
LEMMA TimedFacts ==
  ASSUME IInv, NEW c \in ToSet(waiting4timer), wakeuptime[c] \in Time
  PROVE  /\ c \in Coro /\ c \in Header /\ c \notin ToSet(ready2run)
         /\ is_live(c) /\ ~exiting[c] /\ ~Wakeable(c)
         /\ sleepcount[c] = 1 /\ Int8(sleepcount[c] - 1) = 0
         /\ pc[c] \notin {"armed", "chained"}
<1>1. c \in Coro /\ c \in Header
  BY ListFacts DEF Header
<1>2. c \notin ToSet(ready2run) /\ is_live(c)
  BY <1>1 DEF IInv, NothingLost, Scheduled
<1>3. ~exiting[c] /\ sleepcount[c] = 1
  BY DEF IInv, ExitInv, SleepInv
<1>4. cpu \in {"coro", "yield"} => c # Current
  BY ListFacts DEF IInv, CpuInv
<1>5. wakeuptime[c] # at_the_end_of_time
  BY DEF Time, at_the_end_of_time
<1>6. ~Wakeable(c) /\ pc[c] \notin {"armed", "chained"}
  BY <1>1, <1>4, <1>5 DEF IInv, WakeableInv, PcInv
<1> QED BY <1>1, <1>2, <1>3, <1>6, Int8Step

\* Moving a coroutine whose timeout is due to the run queue keeps the invariant.
LEMMA ExpireKeepsInv ==
  ASSUME IInv, NEW c \in ToSet(waiting4timer), wakeuptime[c] \in Time,
         ready2run' \in Seq(Header), waiting4timer' \in Seq(Coro),
         IsInjective(ready2run'), IsInjective(waiting4timer'),
         ToSet(ready2run') = ToSet(ready2run) \cup {c},
         ToSet(waiting4timer') = ToSet(waiting4timer) \ {c},
         ready2run' # <<>>, ready2run # <<>> => Current' = Current,
         sleepcount' = [sleepcount EXCEPT ![c] = Int8(sleepcount[c] - 1)],
         wakeuptime' \in [Header -> Time \cup {at_the_end_of_time}],
         \A h \in Header : h # c => wakeuptime'[h] = wakeuptime[h],
         alarms' = {}, soonesttime2wake' = at_the_end_of_time,
         soonestalarmid' \in Alarm \cup {NULL},
         irq' \in BOOLEAN, cpu # "boot", cpu = "sched" => ~irq',
         UNCHANGED <<signals, code, sp, exiting, cpu, now>>
  PROVE  IInv'
<1>1. /\ c \in Coro /\ c \in Header /\ c \notin ToSet(ready2run)
      /\ is_live(c) /\ ~exiting[c] /\ ~Wakeable(c)
      /\ pc[c] \notin {"armed", "chained"}
      /\ sleepcount' = [sleepcount EXCEPT ![c] = 0]
  BY TimedFacts
<1>2. cpu \in {"coro", "yield"} =>
        /\ ready2run # <<>> /\ Current' = Current /\ Current # c
        /\ Current \in ToSet(ready2run)
  BY <1>1, ListFacts DEF IInv, CpuInv
<1>3. /\ sleepcount'[c] = 0
      /\ \A h \in Header : h # c => sleepcount'[h] = sleepcount[h]
  BY <1>1 DEF IInv, TypeOK
<1>4. TypeOK'
  <2>1. alarms' \subseteq Alarm
    OBVIOUS
  <2>2. sleepcount' \in [Header -> -INT8_MAX - 1 .. INT8_MAX]
    BY <1>1 DEF IInv, TypeOK
  <2> QED BY <2>1, <2>2 DEF IInv, TypeOK
<1>5. NothingLost'
  BY <1>1 DEF IInv, NothingLost, Scheduled, is_live
<1>6. NoStrayAlarm'
  BY DEF NoStrayAlarm
<1>7. CpuInv'
  BY <1>2 DEF IInv, CpuInv
<1>8. PcInv'
  BY <1>2 DEF IInv, PcInv, is_live
<1>9. ChainInv'
  BY DEF IInv, ChainInv
<1>10. WakeableInv'
  <2>1. \A d \in Coro : Wakeable(d)' <=> Wakeable(d)
    BY DEF Wakeable
  <2>2. \A d \in Coro : d # c =>
          /\ wakeuptime'[d] = wakeuptime[d] /\ sleepcount'[d] = sleepcount[d]
          /\ d \in ToSet(waiting4timer) => d \in ToSet(waiting4timer')
    BY <1>3 DEF Header
  <2> QED BY <2>1, <2>2, <1>1, <1>2 DEF IInv, WakeableInv, is_live
<1>11. SleepInv'
  <2>1. cpu = "coro" => Wakeable(Current)' = Wakeable(Current)
    BY <1>2 DEF Wakeable
  <2> QED BY <2>1, <1>1, <1>2, <1>3, ListFacts DEF IInv, SleepInv, Active, Header
<1>12. ExitInv'
  BY <1>1, <1>2, <1>3, ListFacts DEF IInv, ExitInv
<1> QED BY <1>4, <1>5, <1>6, <1>7, <1>8, <1>9, <1>10, <1>11, <1>12 DEF IInv

\* timeouthandler() wakes a coroutine that nobody else may wake.
LEMMA Step_timeouthandler ==
  ASSUME IInv, NEW a \in alarms, timeouthandler(a)
  PROVE  IInv'
<1>1. PICK c \in Coro : c = a.coro
  BY DEF IInv, TypeOK, Alarm
<1>2. /\ LockFree /\ alarms' = alarms \ {a}
      /\ wakeup_locked(c, ready2run)
      /\ soonesttime2wake' = at_the_end_of_time /\ irq' = TRUE
      /\ UNCHANGED <<soonestalarmid, signals, code, sp, exiting, cpu, now>>
  BY <1>1 DEF timeouthandler
<1>3. /\ alarms' = {} /\ c \in ToSet(waiting4timer) /\ wakeuptime[c] \in Time
  BY <1>1, <1>2 DEF IInv, NoStrayAlarm, TypeOK, Alarm
<1>4. c \notin ToSet(ready2run) /\ c \in Header
  BY <1>3, TimedFacts
<1>5. /\ ready2run \in Seq(Header) /\ waiting4timer \in Seq(Coro)
      /\ IsInjective(ready2run) /\ IsInjective(waiting4timer)
  BY DEF IInv, TypeOK, NothingLost
<1>6. /\ ready2run' \in Seq(Header) /\ waiting4timer' \in Seq(Coro)
      /\ IsInjective(ready2run') /\ IsInjective(waiting4timer')
      /\ ToSet(ready2run') = ToSet(ready2run) \cup {c}
      /\ ToSet(waiting4timer') = ToSet(waiting4timer) \ {c}
      /\ ready2run' # <<>>
      /\ ready2run # <<>> => Current' = Current
  BY <1>2, <1>4, <1>5, WakeupAsleep DEF Current
<1>7. /\ sleepcount' = [sleepcount EXCEPT ![c] = Int8(sleepcount[c] - 1)]
      /\ wakeuptime' = [wakeuptime EXCEPT ![c] = nil_time]
  BY <1>2 DEF wakeup_locked
<1>8. /\ wakeuptime' \in [Header -> Time \cup {at_the_end_of_time}]
      /\ \A h \in Header : h # c => wakeuptime'[h] = wakeuptime[h]
  BY <1>4, <1>7 DEF IInv, TypeOK, Time, nil_time
<1>9. /\ soonestalarmid' \in Alarm \cup {NULL} /\ irq' \in BOOLEAN
      /\ cpu \notin {"boot", "sched"}
  BY <1>2 DEF IInv, TypeOK, LockFree
<1> QED BY <1>2, <1>3, <1>6, <1>7, <1>8, <1>9, ExpireKeepsInv

\* The coroutine at the head of waiting4timer, when the timer must be primed.
LEMMA PrimingFacts ==
  ASSUME IInv, Priming, MustPrime, NEW c, c = ll_peek_head(waiting4timer)
  PROVE  /\ waiting4timer # <<>> /\ c = Head(waiting4timer)
         /\ c \in ToSet(waiting4timer) /\ c \in Coro /\ c \in Header
         /\ wakeuptime[c] \in Time
         /\ cpu # "boot" /\ (cpu = "sched" => ~irq)
         /\ alarms \subseteq {soonestalarmid}
<1>1. waiting4timer # <<>> /\ c = Head(waiting4timer)
  BY DEF MustPrime
<1>2. c \in ToSet(waiting4timer) /\ c \in Coro /\ c \in Header
  BY <1>1, ListFacts DEF Header
<1>3. /\ wakeuptime[c] \in Time \cup {at_the_end_of_time}
      /\ soonesttime2wake \in Time \cup {at_the_end_of_time}
      /\ wakeuptime[c] < soonesttime2wake
  BY <1>2 DEF IInv, TypeOK, MustPrime
<1>4. wakeuptime[c] \in Time
  BY <1>3 DEF Time, at_the_end_of_time
<1>5. cpu # "boot" /\ (cpu = "sched" => ~irq)
  BY DEF Priming, IInv, CpuInv
<1>6. alarms \subseteq {soonestalarmid}
  BY DEF IInv, NoStrayAlarm
<1> QED BY <1>1, <1>2, <1>4, <1>5, <1>6

\* A timeout in the past moves its coroutine to the run queue.
LEMMA Step_prime_expired ==
  ASSUME IInv, prime_expired
  PROVE  IInv'
<1>1. PICK c : c = ll_peek_head(waiting4timer)
  OBVIOUS
<1>2. /\ Priming /\ MustPrime
      /\ alarms' = alarms \ {soonestalarmid} /\ soonestalarmid' = NULL
      /\ soonesttime2wake' = at_the_end_of_time
      /\ waiting4timer' = ll_pop_front(waiting4timer)
      /\ ready2run' = ll_push_back(ready2run, c)
      /\ sleepcount' = [sleepcount EXCEPT ![c] = Int8(sleepcount[c] - 1)]
      /\ UNCHANGED <<wakeuptime, signals, code, sp, exiting, cpu, irq, now>>
  BY <1>1 DEF prime_expired
<1>3. /\ waiting4timer # <<>> /\ c = Head(waiting4timer)
      /\ c \in ToSet(waiting4timer) /\ c \in Coro /\ c \in Header
      /\ wakeuptime[c] \in Time /\ cpu # "boot" /\ (cpu = "sched" => ~irq)
      /\ alarms' = {}
  BY <1>1, <1>2, PrimingFacts
<1>4. c \notin ToSet(ready2run)
  BY <1>3, TimedFacts
<1>5. /\ ready2run \in Seq(Header) /\ waiting4timer \in Seq(Coro)
      /\ IsInjective(ready2run) /\ IsInjective(waiting4timer)
      /\ wakeuptime \in [Header -> Time \cup {at_the_end_of_time}]
      /\ irq \in BOOLEAN
  BY DEF IInv, TypeOK, NothingLost
<1>6. /\ waiting4timer' \in Seq(Coro) /\ IsInjective(waiting4timer')
      /\ ToSet(waiting4timer') = ToSet(waiting4timer) \ {c}
  <2> DEFINE rest == ll_pop_front(waiting4timer)
  <2>1. /\ rest \in Seq(Coro) /\ IsInjective(rest)
        /\ ToSet(rest) = ToSet(waiting4timer) \ {Head(waiting4timer)}
    BY <1>3, <1>5, PopFrontProps
  <2> QED BY <2>1, <1>2, <1>3
<1>7. /\ ready2run' \in Seq(Header) /\ IsInjective(ready2run')
      /\ ToSet(ready2run') = ToSet(ready2run) \cup {c}
      /\ ready2run' # <<>>
      /\ ready2run # <<>> => Current' = Current
  <2> DEFINE longer == ll_push_back(ready2run, c)
  <2>1. /\ longer \in Seq(Header) /\ ToSet(longer) = ToSet(ready2run) \cup {c}
        /\ IsInjective(longer) /\ longer # <<>>
        /\ ready2run # <<>> => Head(longer) = Head(ready2run)
    <3>1. ready2run \in Seq(Header) /\ c \in Header
          /\ IsInjective(ready2run) /\ c \notin ToSet(ready2run)
      BY <1>3, <1>4, <1>5
    <3> QED BY <3>1, PushBackProps
  <2>2. ready2run' = longer
    BY <1>2
  <2> HIDE DEF longer
  <2> QED BY <2>1, <2>2 DEF Current
<1> QED BY <1>2, <1>3, <1>5, <1>6, <1>7, ExpireKeepsInv

\* Leaving prime_scheduler_timer_locked() keeps what does not depend on the
\* timer.
LEMMA PrimedKeepsInv ==
  ASSUME IInv, Priming, Primed,
         alarms' \subseteq Alarm, soonestalarmid' \in Alarm \cup {NULL},
         soonesttime2wake' \in Time \cup {at_the_end_of_time},
         NoStrayAlarm',
         UNCHANGED <<lists, sleep, signals, code, sp, exiting, now>>
  PROVE  IInv'
<1>1. Current' = Current
  BY DEF Current
<1>2. CASE irq
  <2>1. irq' = FALSE /\ cpu' = cpu /\ cpu \notin {"boot", "sched"}
    BY <1>2 DEF Primed, IInv, CpuInv
  <2>2. TypeOK'
    BY <2>1 DEF IInv, TypeOK
  <2>3. NothingLost' /\ CpuInv' /\ PcInv' /\ ChainInv'
    BY <2>1, <1>1 DEF IInv, NothingLost, Scheduled, is_live, CpuInv, PcInv,
                      ChainInv
  <2>4. WakeableInv' /\ SleepInv' /\ ExitInv'
    BY <2>1, <1>1 DEF IInv, WakeableInv, Wakeable, is_live, SleepInv, Active,
                      ExitInv
  <2> QED BY <2>2, <2>3, <2>4 DEF IInv
<1>3. CASE ~irq
  <2>1. /\ cpu = "sched" /\ irq' = irq
        /\ cpu' = IF ready2run = <<>> THEN "idle" ELSE "coro"
    BY <1>3 DEF Primed, Priming
  <2>2. TypeOK'
    BY <2>1 DEF IInv, TypeOK
  <2>3. NothingLost'
    BY <2>1 DEF IInv, NothingLost, Scheduled, is_live
  <2>4. CpuInv' /\ PcInv' /\ ChainInv'
    BY <2>1, <1>1, <1>3 DEF IInv, CpuInv, PcInv, is_live, ChainInv
  <2>5. WakeableInv'
    BY <2>1, <1>1 DEF IInv, WakeableInv, Wakeable, is_live
  <2>6. cpu' = "coro" => /\ Current \in ToSet(ready2run) /\ ~exiting[Current]
                         /\ Current \in Coro /\ sleepcount[Current] = 0
                         /\ pc[Current] \notin {"armed", "chained"}
    <3>1. SUFFICES ASSUME ready2run # <<>>
                   PROVE  /\ Current \in ToSet(ready2run) /\ ~exiting[Current]
                          /\ Current \in Coro /\ sleepcount[Current] = 0
                          /\ pc[Current] \notin {"armed", "chained"}
      BY <2>1
    <3>2. /\ Current \in ToSet(ready2run) /\ Current \in Header
          /\ ~exiting[Current] /\ sleepcount[Current] = 0
      BY <2>1, <3>1, ListFacts DEF IInv, ExitInv, SleepInv, Active
    <3>3. Current \in Coro
      BY <2>1, <3>2 DEF IInv, CpuInv, Header
    <3> QED BY <2>1, <3>2, <3>3 DEF IInv, PcInv
  <2>7. SleepInv'
    BY <2>1, <2>6, <1>1 DEF IInv, SleepInv, Active
  <2>8. ExitInv'
    BY <2>1, <2>6, <1>1 DEF IInv, ExitInv
  <2> QED BY <2>2, <2>3, <2>4, <2>5, <2>7, <2>8 DEF IInv
<1> QED BY <1>2, <1>3

\* The new alarm replaces the one there was.
LEMMA Step_prime_alarm ==
  ASSUME IInv, prime_alarm
  PROVE  IInv'
<1>1. PICK c : c = ll_peek_head(waiting4timer)
  OBVIOUS
<1>2. PICK a : a = [coro |-> c, time |-> wakeuptime[c]]
  OBVIOUS
<1>3. /\ Priming /\ MustPrime /\ Primed
      /\ alarms' = (alarms \ {soonestalarmid}) \cup {a} /\ soonestalarmid' = a
      /\ soonesttime2wake' = wakeuptime[c]
      /\ UNCHANGED <<lists, sleep, signals, code, sp, exiting, now>>
  BY <1>1, <1>2 DEF prime_alarm
<1>4. /\ c \in ToSet(waiting4timer) /\ c \in Coro /\ wakeuptime[c] \in Time
      /\ alarms' = {a}
  BY <1>1, <1>3, PrimingFacts
<1>5. a \in Alarm /\ a.coro = c /\ a.time = wakeuptime[c]
  BY <1>2, <1>4 DEF Alarm
<1>6. NoStrayAlarm'
  BY <1>3, <1>4, <1>5 DEF NoStrayAlarm
<1> QED BY <1>3, <1>4, <1>5, <1>6, PrimedKeepsInv

\* The alarm there is serves.
LEMMA Step_prime_nothing ==
  ASSUME IInv, prime_nothing
  PROVE  IInv'
<1>1. /\ Priming /\ Primed
      /\ UNCHANGED <<lists, timer, sleep, signals, code, sp, exiting, now>>
  BY DEF prime_nothing
<1>2. NoStrayAlarm'
  BY <1>1 DEF IInv, NoStrayAlarm
<1> QED BY <1>1, <1>2, PrimedKeepsInv DEF IInv, TypeOK

\* What schedule_next() takes off the run queue.
LEMMA YieldFacts ==
  ASSUME IInv, cpu = "yield", NEW c, c = Current
  PROVE  /\ ready2run # <<>> /\ c \in Header
         /\ c \in ToSet(ready2run) /\ c \notin ToSet(waiting4timer)
         /\ sleepcount[c] \in {0, 1}
         /\ is_live(c) \/ c = initialisercoro
         /\ exiting[c] => sleepcount[c] = 0 /\ (c \in Coro => pc[c] = "app")
         /\ ll_pop_front(ready2run) \in Seq(Header)
         /\ IsInjective(ll_pop_front(ready2run))
         /\ ToSet(ll_pop_front(ready2run)) = ToSet(ready2run) \ {c}
         /\ \A d \in Coro : pc[d] \notin {"armed", "chained"}
<1>1. ready2run # <<>> /\ c = Head(ready2run)
  BY DEF IInv, CpuInv, Current
<1>2. /\ ready2run \in Seq(Header) /\ IsInjective(ready2run)
      /\ waiting4timer \in Seq(Coro)
  BY DEF IInv, TypeOK, NothingLost
<1>3. /\ ll_pop_front(ready2run) \in Seq(Header)
      /\ IsInjective(ll_pop_front(ready2run))
      /\ ToSet(ll_pop_front(ready2run)) = ToSet(ready2run) \ {c}
  BY <1>1, <1>2, PopFrontProps
<1>4. /\ c \in ToSet(ready2run) /\ c \notin ToSet(waiting4timer) /\ c \in Header
      /\ is_live(c) \/ c = initialisercoro
  BY <1>1, ListFacts
<1>5. /\ sleepcount[c] \in {0, 1}
      /\ exiting[c] => sleepcount[c] = 0 /\ (c \in Coro => pc[c] = "app")
  BY <1>4 DEF IInv, SleepInv, ExitInv
<1>6. \A d \in Coro : pc[d] \notin {"armed", "chained"}
  BY DEF IInv, PcInv
<1> QED BY <1>1, <1>3, <1>4, <1>5, <1>6

\* ChainInv survives as long as nobody is chained anew.
LEMMA ChainKept ==
  ASSUME ChainInv, UNCHANGED <<pc, other>>,
         \A w \in Waitable : waitchain'[w] = waitchain[w] \/ waitchain'[w] = NULL
  PROVE  ChainInv'
<1>1. \A d \in Coro : d # NULL
  OBVIOUS
<1> QED BY <1>1 DEF ChainInv

\* Giving the head of the run queue away keeps the invariant, provided that
\* the lists hold who they should and nobody in them is about to sleep.
LEMMA SchedKeepsInv ==
  ASSUME IInv, cpu = "yield", irq = FALSE, cpu' = "sched",
         ready2run' \in Seq(Header), waiting4timer' \in Seq(Coro),
         IsInjective(ready2run'), IsInjective(waiting4timer'),
         ToSet(ready2run') \cap ToSet(waiting4timer') = {},
         ToSet(ready2run') \cup ToSet(waiting4timer') = Scheduled',
         sp' \in [Header -> {"null", "stack", "exited"}],
         sleepcount' \in [Header -> -INT8_MAX - 1 .. INT8_MAX],
         wakeuptime' \in [Header -> Time \cup {at_the_end_of_time}],
         waitchain' \in [Waitable -> Coro \cup {NULL}],
         semaphore' \in [Waitable -> -INT8_MAX - 1 .. INT8_MAX],
         NoStrayAlarm',
         \A h \in ToSet(ready2run') : sleepcount'[h] = 0 /\ ~exiting[h],
         \A h \in ToSet(waiting4timer') : sleepcount'[h] = 1 /\ ~exiting[h],
         \A d \in Coro : ~is_live(d)' => pc[d] = "app",
         \A w \in Waitable : waitchain'[w] = waitchain[w] \/ waitchain'[w] = NULL,
         \A d \in Coro : Wakeable(d)' =>
            /\ is_live(d)'
            /\ d \in ToSet(waiting4timer') /\ wakeuptime'[d] = at_the_end_of_time,
         UNCHANGED <<timer, code, exiting, irq, now>>
  PROVE  IInv'
<1>1. TypeOK'
  BY DEF IInv, TypeOK
<1>2. NothingLost' /\ NoStrayAlarm'
  BY DEF NothingLost
<1>3. CpuInv'
  BY DEF IInv, CpuInv
<1>4. PcInv'
  <2>1. \A d \in Coro : pc[d] \notin {"armed", "chained"}
    BY DEF IInv, PcInv
  <2> QED BY <2>1 DEF IInv, PcInv
<1>5. ChainInv'
  BY ChainKept DEF IInv
<1>6. WakeableInv'
  BY DEF WakeableInv
<1>7. SleepInv' /\ ExitInv'
  BY DEF SleepInv, Active, ExitInv
<1> QED BY <1>1, <1>2, <1>3, <1>4, <1>5, <1>6, <1>7 DEF IInv

\* The head of the run queue moves to its back.
LEMMA Step_schedule_next_resched ==
  ASSUME IInv, schedule_next_resched
  PROVE  IInv'
<1>1. PICK c : c = Current
  OBVIOUS
<1>2. /\ cpu = "yield" /\ irq = FALSE /\ ~exiting[c] /\ sleepcount[c] <= 0
      /\ ready2run' = ll_push_back(ll_pop_front(ready2run), c)
      /\ cpu' = "sched"
      /\ UNCHANGED <<waiting4timer, timer, sleep, signals, code, sp, exiting,
                     irq, now>>
  BY <1>1 DEF schedule_next_resched, IInv, TypeOK
<1>3. PICK rest : rest = ll_pop_front(ready2run)
  OBVIOUS
<1>4. /\ c \in Header /\ c \in ToSet(ready2run) /\ c \notin ToSet(waiting4timer)
      /\ sleepcount[c] = 0
      /\ rest \in Seq(Header) /\ IsInjective(rest)
      /\ ToSet(rest) = ToSet(ready2run) \ {c}
  BY <1>1, <1>2, <1>3, YieldFacts
<1>5. /\ ready2run' \in Seq(Header) /\ IsInjective(ready2run')
      /\ ToSet(ready2run') = ToSet(ready2run)
  <2> DEFINE longer == ll_push_back(rest, c)
  <2>1. /\ longer \in Seq(Header) /\ ToSet(longer) = ToSet(rest) \cup {c}
        /\ IsInjective(longer)
    <3>1. rest \in Seq(Header) /\ c \in Header
          /\ IsInjective(rest) /\ c \notin ToSet(rest)
      BY <1>4
    <3> QED BY <3>1, PushBackProps
  <2>2. ready2run' = longer
    BY <1>2, <1>3
  <2> HIDE DEF longer
  <2> QED BY <2>1, <2>2, <1>4
<1>6. NothingLost'
  BY <1>2, <1>5 DEF IInv, NothingLost, Scheduled, is_live
<1>7. NoStrayAlarm'
  BY <1>2 DEF IInv, NoStrayAlarm
<1>8. \A h \in ToSet(ready2run) : sleepcount[h] = 0 /\ ~exiting[h]
  BY <1>1, <1>2, <1>4 DEF IInv, SleepInv, ExitInv, Active
<1>9. \A h \in ToSet(waiting4timer) : sleepcount[h] = 1 /\ ~exiting[h]
  BY DEF IInv, SleepInv, ExitInv
<1>10. \A d \in Coro : Wakeable(d) =>
         /\ is_live(d) /\ d \in ToSet(waiting4timer)
         /\ wakeuptime[d] = at_the_end_of_time
  BY <1>1, <1>2, <1>4 DEF IInv, WakeableInv
<1>11. \A d \in Coro : ~is_live(d) => pc[d] = "app"
  BY DEF IInv, PcInv
<1>12. /\ TypeOK
       /\ \A d \in Coro : /\ Wakeable(d)' <=> Wakeable(d)
                          /\ is_live(d)' <=> is_live(d)
  BY <1>2 DEF IInv, Wakeable, is_live
<1> QED BY <1>2, <1>5, <1>6, <1>7, <1>8, <1>9, <1>10, <1>11, <1>12,
           SchedKeepsInv DEF TypeOK, NothingLost

\* The head of the run queue moves into waiting4timer.
LEMMA Step_schedule_next_sleep ==
  ASSUME IInv, schedule_next_sleep
  PROVE  IInv'
<1>1. PICK c : c = Current
  OBVIOUS
<1>2. /\ cpu = "yield" /\ irq = FALSE /\ ~exiting[c] /\ sleepcount[c] > 0
      /\ ready2run' = ll_pop_front(ready2run)
      /\ \/ waiting4timer' = ll_push_back(waiting4timer, c)
         \/ waiting4timer' = ll_sorted_insert(waiting4timer, c, wakeuptime)
      /\ cpu' = "sched"
      /\ UNCHANGED <<timer, sleep, signals, code, sp, exiting, irq, now>>
  BY <1>1 DEF schedule_next_sleep, IInv, TypeOK
<1>3. /\ c \in Header /\ c \in ToSet(ready2run) /\ c \notin ToSet(waiting4timer)
      /\ sleepcount[c] = 1
      /\ is_live(c) \/ c = initialisercoro
      /\ ready2run' \in Seq(Header) /\ IsInjective(ready2run')
      /\ ToSet(ready2run') = ToSet(ready2run) \ {c}
  BY <1>1, <1>2, YieldFacts
<1>4. c \in Coro
  BY <1>2, <1>3 DEF IInv, CpuInv, Header
<1>5. waiting4timer \in Seq(Coro) /\ IsInjective(waiting4timer)
  BY DEF IInv, TypeOK, NothingLost
<1>6. /\ waiting4timer' \in Seq(Coro) /\ IsInjective(waiting4timer')
      /\ ToSet(waiting4timer') = ToSet(waiting4timer) \cup {c}
  <2> DEFINE longer == ll_push_back(waiting4timer, c)
             sorted == ll_sorted_insert(waiting4timer, c, wakeuptime)
  <2>1. /\ longer \in Seq(Coro) /\ ToSet(longer) = ToSet(waiting4timer) \cup {c}
        /\ IsInjective(longer)
    BY <1>3, <1>4, <1>5, PushBackProps
  <2>2. /\ sorted \in Seq(Coro) /\ ToSet(sorted) = ToSet(waiting4timer) \cup {c}
        /\ IsInjective(sorted)
    BY <1>3, <1>4, <1>5, SortedInsertProps
  <2>3. waiting4timer' = longer \/ waiting4timer' = sorted
    BY <1>2
  <2> HIDE DEF longer, sorted
  <2> QED BY <2>1, <2>2, <2>3
<1>7. NothingLost'
  BY <1>2, <1>3, <1>6 DEF IInv, NothingLost, Scheduled, is_live
<1>8. NoStrayAlarm'
  BY <1>2, <1>6 DEF IInv, NoStrayAlarm
<1>9. \A h \in ToSet(ready2run') : sleepcount[h] = 0 /\ ~exiting[h]
  BY <1>1, <1>2, <1>3 DEF IInv, SleepInv, ExitInv, Active
<1>10. \A h \in ToSet(waiting4timer') : sleepcount[h] = 1 /\ ~exiting[h]
  BY <1>2, <1>3, <1>6 DEF IInv, SleepInv, ExitInv
<1>11. \A d \in Coro : Wakeable(d) =>
         /\ is_live(d) /\ d \in ToSet(waiting4timer')
         /\ wakeuptime[d] = at_the_end_of_time
  BY <1>1, <1>2, <1>6 DEF IInv, WakeableInv
<1>12. \A d \in Coro : ~is_live(d) => pc[d] = "app"
  BY DEF IInv, PcInv
<1>13. /\ TypeOK
       /\ \A d \in Coro : /\ Wakeable(d)' <=> Wakeable(d)
                          /\ is_live(d)' <=> is_live(d)
  BY <1>2 DEF IInv, Wakeable, is_live
<1> QED BY <1>2, <1>3, <1>6, <1>7, <1>8, <1>9, <1>10, <1>11, <1>12, <1>13,
           SchedKeepsInv DEF TypeOK, NothingLost

\* The head of the run queue leaves the lists, and who waits for it is woken.
LEMMA Step_schedule_next_exit ==
  ASSUME IInv, schedule_next_exit
  PROVE  IInv'
<1>1. PICK c : c = Current
  OBVIOUS
<1>2. PICK rest : rest = ll_pop_front(ready2run)
  OBVIOUS
<1>3. /\ cpu = "yield" /\ irq = FALSE /\ exiting[c]
      /\ sp' = [sp EXCEPT ![c] = "exited"]
      /\ semaphore' = [semaphore EXCEPT ![c] = INT8_MAX]
      /\ cpu' = "sched"
      /\ UNCHANGED <<timer, code, exiting, irq, now>>
  BY <1>1 DEF schedule_next_exit, IInv, TypeOK
<1>4. /\ c \in Header /\ c \in ToSet(ready2run) /\ c \notin ToSet(waiting4timer)
      /\ sleepcount[c] = 0 /\ (c \in Coro => pc[c] = "app")
      /\ is_live(c) \/ c = initialisercoro
      /\ rest \in Seq(Header) /\ IsInjective(rest)
      /\ ToSet(rest) = ToSet(ready2run) \ {c}
  BY <1>1, <1>2, <1>3, YieldFacts
<1>5. TypeOK /\ NothingLost
  BY DEF IInv
<1>6. sp' \in [Header -> {"null", "stack", "exited"}]
      /\ semaphore' \in [Waitable -> -INT8_MAX - 1 .. INT8_MAX]
  BY <1>3, <1>4, <1>5 DEF TypeOK, Waitable
<1>7. Scheduled' = Scheduled \ {c}
  BY <1>3, <1>4, <1>5 DEF Scheduled, is_live, TypeOK, Header
<1>8. \A d \in Coro : Wakeable(d) =>
        /\ d # c /\ is_live(d) /\ d \in ToSet(waiting4timer)
        /\ wakeuptime[d] = at_the_end_of_time
  BY <1>1, <1>3, <1>4 DEF IInv, WakeableInv
<1>9. \A d \in Coro : (is_live(d)' <=> is_live(d) /\ d # c)
  BY <1>3, <1>4, <1>5 DEF is_live, TypeOK, Header
<1>10. \A d \in Coro : ~is_live(d)' => pc[d] = "app"
  BY <1>4, <1>9 DEF IInv, PcInv
<1>11. \A h \in ToSet(rest) : sleepcount[h] = 0 /\ ~exiting[h]
  BY <1>1, <1>4 DEF IInv, SleepInv, ExitInv, Active
<1>12. \A h \in ToSet(waiting4timer) : sleepcount[h] = 1 /\ ~exiting[h]
  BY DEF IInv, SleepInv, ExitInv
<1>13. /\ ready2run \in Seq(Header) /\ waiting4timer \in Seq(Coro)
       /\ IsInjective(waiting4timer)
       /\ ToSet(ready2run) \cap ToSet(waiting4timer) = {}
       /\ ToSet(ready2run) \cup ToSet(waiting4timer) = Scheduled
  BY <1>5 DEF TypeOK, NothingLost
<1>14. c \in Waitable
  BY <1>4 DEF Waitable
<1>15. CASE waitchain[c] = NULL
  <2>1. ready2run' = rest /\ UNCHANGED <<waiting4timer, sleep, waitchain>>
    BY <1>1, <1>2, <1>15 DEF schedule_next_exit
  <2>2. NoStrayAlarm'
    BY <1>3, <2>1 DEF IInv, NoStrayAlarm
  <2>3. \A d \in Coro : Wakeable(d)' <=> Wakeable(d)
    BY <1>3, <2>1 DEF Wakeable
  <2>4. /\ ToSet(rest) \cap ToSet(waiting4timer) = {}
        /\ ToSet(rest) \cup ToSet(waiting4timer) = Scheduled'
    BY <1>4, <1>7, <1>13
  <2> QED BY <1>3, <1>4, <1>5, <1>6, <1>8, <1>9, <1>10, <1>11, <1>12, <1>13,
             <2>1, <2>2, <2>3, <2>4, SchedKeepsInv DEF TypeOK
<1>16. CASE waitchain[c] # NULL
  <2>1. PICK d \in Coro : d = waitchain[c]
    BY <1>5, <1>14, <1>16 DEF TypeOK
  <2>2. /\ wakeup_locked(d, rest)
        /\ waitchain' = [waitchain EXCEPT ![c] = NULL]
    BY <1>1, <1>2, <1>16, <2>1 DEF schedule_next_exit
  <2>3. Wakeable(d) /\ d \in Header
    BY <1>14, <2>1 DEF Wakeable, Header
  <2>4. /\ d # c /\ d \in ToSet(waiting4timer) /\ d \notin ToSet(rest)
        /\ sleepcount[d] = 1 /\ ~exiting[d]
        /\ wakeuptime[d] = at_the_end_of_time
    BY <1>4, <1>8, <1>12, <1>13, <2>3
  <2>5. /\ ready2run' \in Seq(Header) /\ waiting4timer' \in Seq(Coro)
        /\ IsInjective(ready2run') /\ IsInjective(waiting4timer')
        /\ ToSet(ready2run') = ToSet(rest) \cup {d}
        /\ ToSet(waiting4timer') = ToSet(waiting4timer) \ {d}
    BY <1>4, <1>13, <2>2, <2>4, WakeupAsleep
  <2>6. /\ sleepcount' = [sleepcount EXCEPT ![d] = 0]
        /\ wakeuptime' = [wakeuptime EXCEPT ![d] = nil_time]
    <3>1. Int8(sleepcount[d] - 1) = 0
      BY <2>4, Int8Step
    <3> QED BY <2>2, <3>1 DEF wakeup_locked
  <2>7. /\ sleepcount' \in [Header -> -INT8_MAX - 1 .. INT8_MAX]
        /\ wakeuptime' \in [Header -> Time \cup {at_the_end_of_time}]
        /\ sleepcount'[d] = 0
        /\ \A h \in Header : h # d => /\ sleepcount'[h] = sleepcount[h]
                                      /\ wakeuptime'[h] = wakeuptime[h]
    BY <1>5, <2>3, <2>6 DEF TypeOK, Time, nil_time
  <2>8. /\ waitchain' \in [Waitable -> Coro \cup {NULL}]
        /\ \A w \in Waitable : waitchain'[w] = IF w = c THEN NULL ELSE waitchain[w]
    BY <1>5, <1>14, <2>2 DEF TypeOK
  <2>9. NoStrayAlarm'
    <3>1. \A a \in alarms : a.coro # d /\ a.coro \in Coro
      BY <1>5, <2>4 DEF IInv, TypeOK, NoStrayAlarm, Alarm, Time, at_the_end_of_time
    <3> QED BY <1>3, <2>5, <2>7, <3>1 DEF IInv, NoStrayAlarm, Header
  <2>10. \A e \in Coro : Wakeable(e)' => e # d /\ Wakeable(e)
    <3>1. ~armed[d] /\ \A w \in Waitable : waitchain[w] = d => w = c
      BY <1>14, <2>1 DEF IInv, PcInv, ChainInv
    <3>2. ASSUME NEW e \in Coro, Wakeable(e)' PROVE e # d /\ Wakeable(e)
      <4>1. armed[e] \/ \E w \in Waitable : waitchain'[w] = e
        BY <1>3, <3>2 DEF Wakeable
      <4>2. \A w \in Waitable : waitchain'[w] = e => waitchain[w] = e /\ w # c
        BY <2>8
      <4> QED BY <3>1, <4>1, <4>2 DEF Wakeable
    <3> QED BY <3>2
  <2>11. \A e \in Coro : Wakeable(e)' =>
           /\ is_live(e)' /\ e \in ToSet(waiting4timer')
           /\ wakeuptime'[e] = at_the_end_of_time
    BY <1>8, <1>9, <2>5, <2>7, <2>10 DEF Header
  <2>12. \A h \in ToSet(ready2run') : sleepcount'[h] = 0 /\ ~exiting[h]
    BY <1>4, <1>11, <2>4, <2>5, <2>7, ListFacts
  <2>13. \A h \in ToSet(waiting4timer') : sleepcount'[h] = 1 /\ ~exiting[h]
    BY <1>12, <2>5, <2>7, ListFacts DEF Header
  <2>14. /\ ToSet(ready2run') \cap ToSet(waiting4timer') = {}
         /\ ToSet(ready2run') \cup ToSet(waiting4timer') = Scheduled'
    BY <1>4, <1>7, <1>13, <2>4, <2>5
  <2>15. \A w \in Waitable : waitchain'[w] = waitchain[w] \/ waitchain'[w] = NULL
    BY <2>8
  <2> QED BY <1>3, <1>6, <1>10, <2>5, <2>7, <2>8, <2>9, <2>11, <2>12, <2>13,
             <2>14, <2>15, SchedKeepsInv
<1> QED BY <1>15, <1>16

\* schedule_next() switches to whom an interrupt made ready.
LEMMA Step_idle_wakes ==
  ASSUME IInv, idle_wakes
  PROVE  IInv'
<1>1. /\ cpu = "idle" /\ ready2run # <<>> /\ cpu' = "coro"
      /\ Current' = Current
      /\ UNCHANGED <<lists, timer, sleep, signals, code, sp, exiting, irq, now>>
  BY DEF idle_wakes, Current
<1>2. /\ Current \in ToSet(ready2run) /\ Current \in Header
      /\ ~exiting[Current] /\ sleepcount[Current] = 0
  BY <1>1, ListFacts DEF IInv, ExitInv, SleepInv, Active
<1>3. Current \in Coro
  BY <1>1, <1>2 DEF IInv, CpuInv, Header
<1>4. \A d \in Coro : pc[d] \notin {"armed", "chained"}
  BY <1>1 DEF IInv, PcInv
<1>5. TypeOK'
  BY <1>1 DEF IInv, TypeOK
<1>6. NothingLost' /\ NoStrayAlarm'
  BY <1>1 DEF IInv, NothingLost, Scheduled, is_live, NoStrayAlarm
<1>7. CpuInv' /\ PcInv' /\ ChainInv'
  BY <1>1 DEF IInv, CpuInv, PcInv, is_live, ChainInv
<1>8. WakeableInv'
  BY <1>1 DEF IInv, WakeableInv, Wakeable, is_live
<1>9. SleepInv'
  BY <1>1, <1>2, <1>3, <1>4 DEF IInv, SleepInv, Active
<1>10. ExitInv'
  BY <1>1, <1>2 DEF IInv, ExitInv
<1> QED BY <1>5, <1>6, <1>7, <1>8, <1>9, <1>10 DEF IInv

\* Time passes.
LEMMA Step_Tick ==
  ASSUME IInv, Tick
  PROVE  IInv'
<1>1. /\ UNCHANGED <<lists, timer, sleep, signals, code, sp, exiting, cpu, irq>>
      /\ now' \in Time
  BY DEF Tick, IInv, TypeOK, Time
<1>2. TypeOK'
  BY <1>1 DEF IInv, TypeOK
<1>3. NothingLost' /\ NoStrayAlarm' /\ CpuInv' /\ PcInv' /\ ChainInv'
  BY <1>1 DEF IInv, NothingLost, Scheduled, is_live, NoStrayAlarm, CpuInv,
              Current, PcInv, ChainInv
<1>4. WakeableInv' /\ SleepInv' /\ ExitInv'
  BY <1>1 DEF IInv, WakeableInv, Wakeable, is_live, SleepInv, Active, Current,
              ExitInv
<1> QED BY <1>2, <1>3, <1>4 DEF IInv

\* The first yield_and_start() makes the two headers it queues.
LEMMA Step_yield_and_start_first ==
  ASSUME IInv, yield_and_start_first
  PROVE  IInv'
<1>1. /\ cpu = "boot" /\ irq = FALSE /\ cpu' = "yield"
      /\ sp' = [sp EXCEPT ![Main] = "stack"]
      /\ waitchain' = [waitchain EXCEPT ![Main] = NULL]
      /\ semaphore' = [semaphore EXCEPT ![Main] = 0]
      /\ sleepcount' = [sleepcount EXCEPT ![Main] = 0]
      /\ pc' = [pc EXCEPT ![Main] = "app"]
      /\ exiting' = [exiting EXCEPT ![initialisercoro] = TRUE, ![Main] = FALSE]
      /\ waiting4timer' = <<>>
      /\ soonesttime2wake' = at_the_end_of_time /\ soonestalarmid' = NULL
      /\ UNCHANGED <<wakeuptime, irq, other, armed, alarms, now>>
  BY DEF yield_and_start_first, prepare, IInv, TypeOK, CpuInv
<1>2. /\ Main \in Header /\ initialisercoro \in Header /\ Main # initialisercoro
      /\ Main \in Waitable
  BY DEF Header, Waitable
<1>3. TypeOK /\ waiting4timer = <<>>
      /\ \A h \in Header : sp[h] = "null" /\ sleepcount[h] = 0
  BY <1>1 DEF IInv, CpuInv
<1>4. /\ Current' = initialisercoro /\ ready2run' # <<>>
      /\ ToSet(ready2run') = {initialisercoro, Main}
      /\ ready2run' \in Seq(Header) /\ IsInjective(ready2run')
  <2> DEFINE one == ll_push_back(<<>>, initialisercoro)
             two == ll_push_back(one, Main)
  <2>1. /\ <<>> \in Seq(Header) /\ IsInjective(<<>>) /\ ToSet(<<>>) = {}
    BY DEF IsInjective, ToSet
  <2>2. /\ one \in Seq(Header) /\ IsInjective(one) /\ one # <<>>
        /\ ToSet(one) = ToSet(<<>>) \cup {initialisercoro}
    BY <1>2, <2>1, PushBackProps
  <2>3. Head(one) = initialisercoro
    BY DEF ll_push_back
  <2> HIDE DEF one
  <2>4. /\ two \in Seq(Header) /\ IsInjective(two) /\ two # <<>>
        /\ ToSet(two) = ToSet(one) \cup {Main}
        /\ Head(two) = Head(one)
    <3>1. one \in Seq(Header) /\ Main \in Header /\ Main \notin ToSet(one)
          /\ IsInjective(one) /\ one # <<>>
      BY <1>2, <2>1, <2>2
    <3> QED BY <3>1, PushBackProps
  <2>5. ToSet(two) = {initialisercoro, Main}
    BY <2>1, <2>2, <2>4
  <2>6. ready2run' = two
    BY DEF yield_and_start_first, one
  <2> HIDE DEF two
  <2> QED BY <2>3, <2>4, <2>5, <2>6 DEF Current
<1>5. ToSet(waiting4timer) = {} /\ ToSet(waiting4timer') = {}
      /\ IsInjective(waiting4timer') /\ waiting4timer' \in Seq(Coro)
  BY <1>1, <1>3 DEF ToSet, IsInjective
<1>6. /\ \A d \in Coro : pc[d] = "app" /\ other[d] = NULL /\ ~armed[d]
      /\ \A d \in Coro : ~Wakeable(d)
      /\ alarms = {}
  <2>1. \A d \in Coro : ~is_live(d)
    BY <1>3 DEF is_live, Header
  <2>2. \A d \in Coro : pc[d] = "app" /\ ~Wakeable(d)
    BY <2>1 DEF IInv, PcInv, WakeableInv
  <2>3. \A d \in Coro : other[d] = NULL /\ ~armed[d]
    BY <2>2 DEF IInv, PcInv, Wakeable
  <2>4. alarms = {}
    BY <1>5 DEF IInv, NoStrayAlarm
  <2> QED BY <2>2, <2>3, <2>4
<1>7. TypeOK'
  BY <1>1, <1>2, <1>3, <1>4, <1>5 DEF TypeOK
<1>8. NothingLost'
  <2>1. sp'[Main] = "stack" /\ \A h \in Header : h # Main => sp'[h] = "null"
    BY <1>1, <1>2, <1>3 DEF TypeOK
  <2>2. Scheduled' = {initialisercoro, Main}
    BY <1>1, <1>2, <2>1 DEF Scheduled, is_live, Header
  <2> QED BY <1>4, <1>5, <2>2 DEF NothingLost
<1>9. NoStrayAlarm'
  BY <1>1, <1>6 DEF NoStrayAlarm
<1>10. CpuInv'
  BY <1>1, <1>2, <1>3, <1>4 DEF CpuInv, TypeOK
<1>11. \A d \in Coro : pc'[d] = "app"
  BY <1>1, <1>3, <1>6 DEF TypeOK
<1>12. PcInv'
  BY <1>1, <1>6, <1>11 DEF PcInv
<1>13. \A w \in Waitable : \A d \in Coro : waitchain'[w] # d
  BY <1>1, <1>3, <1>6 DEF Wakeable, TypeOK
<1>14. ChainInv' /\ WakeableInv'
  BY <1>1, <1>6, <1>13 DEF ChainInv, WakeableInv, Wakeable
<1>15. \A h \in {initialisercoro, Main} : sleepcount'[h] = 0
  BY <1>1, <1>2, <1>3 DEF TypeOK
<1>16. SleepInv'
  BY <1>1, <1>4, <1>5, <1>15 DEF SleepInv, Active
<1>17. ExitInv'
  <2>1. exiting'[Main] = FALSE
    BY <1>1, <1>2, <1>3 DEF TypeOK
  <2> QED BY <1>1, <1>4, <1>5, <1>15, <2>1 DEF ExitInv
<1> QED BY <1>7, <1>8, <1>9, <1>10, <1>12, <1>14, <1>16, <1>17 DEF IInv

\* A coroutine that is started is in no list and may not be woken yet.
LEMMA Step_yield_and_start ==
  ASSUME IInv, NEW c \in Coro, NEW new \in Coro, yield_and_start(c, new)
  PROVE  IInv'
<1>1. /\ c = Current /\ cpu = "coro" /\ irq = FALSE /\ ready2run # <<>>
      /\ c \in ToSet(ready2run) /\ c \notin ToSet(waiting4timer)
      /\ is_live(c) /\ ~exiting[c]
      /\ sleepcount[c] = 0 /\ pc[c] = "app"
  BY RunningFacts DEF yield_and_start, IInv, TypeOK
<1>2. /\ sp' = [sp EXCEPT ![new] = "stack"]
      /\ waitchain' = [waitchain EXCEPT ![new] = NULL]
      /\ semaphore' = [semaphore EXCEPT ![new] = 0]
      /\ sleepcount' = [sleepcount EXCEPT ![new] = 0]
      /\ pc' = [pc EXCEPT ![new] = "app"]
      /\ exiting' = [exiting EXCEPT ![new] = FALSE]
      /\ ready2run' = ll_push_back(ready2run, new)
      /\ cpu' = "yield" /\ ~is_live(new)
      /\ UNCHANGED <<waiting4timer, timer, wakeuptime, irq, other, armed, now>>
  BY DEF yield_and_start, prepare
<1>3. /\ new \in Header /\ new \in Waitable /\ new # initialisercoro /\ new # c
      /\ c \in Header
  BY <1>1, <1>2 DEF Header, Waitable
<1>4. TypeOK /\ NothingLost
  BY DEF IInv
<1>5. new \notin ToSet(ready2run) /\ new \notin ToSet(waiting4timer)
  BY <1>2, <1>3, <1>4 DEF NothingLost, Scheduled
<1>6. /\ ready2run' \in Seq(Header) /\ IsInjective(ready2run')
      /\ ToSet(ready2run') = ToSet(ready2run) \cup {new}
      /\ Current' = Current /\ ready2run' # <<>>
  <2> DEFINE longer == ll_push_back(ready2run, new)
  <2>1. /\ ready2run \in Seq(Header) /\ IsInjective(ready2run)
        /\ new \in Header /\ new \notin ToSet(ready2run) /\ ready2run # <<>>
    BY <1>1, <1>3, <1>4, <1>5 DEF TypeOK, NothingLost
  <2>2. /\ longer \in Seq(Header) /\ ToSet(longer) = ToSet(ready2run) \cup {new}
        /\ IsInjective(longer) /\ longer # <<>> /\ Head(longer) = Head(ready2run)
    BY <2>1, PushBackProps
  <2>3. ready2run' = longer
    BY <1>2
  <2> HIDE DEF longer
  <2> QED BY <2>2, <2>3 DEF Current
<1>7. /\ sleepcount'[new] = 0 /\ exiting'[new] = FALSE /\ pc'[new] = "app"
      /\ pc[new] = "app" /\ sp'[new] = "stack"
      /\ \A h \in Header : h # new => /\ sleepcount'[h] = sleepcount[h]
                                      /\ exiting'[h] = exiting[h]
                                      /\ sp'[h] = sp[h]
      /\ \A d \in Coro : d # new => pc'[d] = pc[d]
  BY <1>2, <1>3, <1>4 DEF TypeOK, IInv, PcInv
<1>8. \A w \in Waitable : waitchain'[w] = waitchain[w] \/ waitchain'[w] = NULL
  BY <1>2, <1>3, <1>4 DEF TypeOK
<1>9. TypeOK'
  BY <1>2, <1>3, <1>4, <1>6 DEF TypeOK
<1>10. NothingLost'
  <2>1. Scheduled' = Scheduled \cup {new}
    BY <1>1, <1>2, <1>3, <1>7 DEF Scheduled, is_live, Header
  <2> QED BY <1>2, <1>4, <1>5, <1>6, <2>1 DEF NothingLost
<1>11. NoStrayAlarm'
  BY <1>2 DEF IInv, NoStrayAlarm
<1>12. CpuInv'
  BY <1>1, <1>2, <1>3, <1>6, <1>7 DEF IInv, CpuInv, Header
<1>13. \A d \in Coro : pc'[d] = pc[d] /\ pc[d] \notin {"armed", "chained"}
  BY <1>1, <1>7 DEF IInv, PcInv
<1>14. PcInv'
  BY <1>2, <1>7, <1>13 DEF IInv, PcInv, is_live, Header
<1>15. ChainInv'
  <2>1. pc' = pc /\ other' = other
    BY <1>2, <1>4, <1>13 DEF TypeOK
  <2> QED BY <2>1, <1>8, ChainKept DEF IInv
<1>16. WakeableInv'
  <2>1. ASSUME NEW d \in Coro, Wakeable(d)' PROVE Wakeable(d)
    <3>1. \A w \in Waitable : waitchain'[w] = d => waitchain[w] = d
      BY <1>8
    <3> QED BY <1>2, <2>1, <3>1 DEF Wakeable
  <2>2. ASSUME NEW d \in Coro, Wakeable(d)
        PROVE  /\ d # new /\ is_live(d) /\ d \in ToSet(waiting4timer)
               /\ wakeuptime[d] = at_the_end_of_time
    BY <1>1, <1>2, <2>2, <1>13 DEF IInv, WakeableInv
  <2>3. \A d \in Coro : Wakeable(d)' =>
          /\ is_live(d)' /\ d \in ToSet(waiting4timer')
          /\ wakeuptime'[d] = at_the_end_of_time
    BY <2>1, <2>2, <1>2, <1>7 DEF is_live, Header
  <2> QED BY <2>3 DEF WakeableInv
<1>17. SleepInv'
  BY <1>1, <1>2, <1>3, <1>5, <1>6, <1>7, ListFacts DEF IInv, SleepInv, Active, Header
<1>18. ExitInv'
  BY <1>1, <1>2, <1>3, <1>5, <1>6, <1>7, ListFacts DEF IInv, ExitInv, Header
<1> QED BY <1>9, <1>10, <1>11, <1>12, <1>14, <1>15, <1>16, <1>17, <1>18 DEF IInv

\* Before the first yield_and_start() there is nothing to schedule.
LEMMA InitInv == Init => IInv
<1> SUFFICES ASSUME Init PROVE IInv
  OBVIOUS
<1>1. ToSet(ready2run) = {} /\ ToSet(waiting4timer) = {}
  BY DEF Init, ToSet
<1>2. TypeOK
  <2>1. nil_time \in Time \cup {at_the_end_of_time} /\ 0 \in Time
    BY DEF Time, nil_time
  <2>2. 0 \in -INT8_MAX - 1 .. INT8_MAX
    OBVIOUS
  <2>3. ready2run \in Seq(Header) /\ waiting4timer \in Seq(Coro)
    BY DEF Init
  <2>4. soonesttime2wake \in Time \cup {at_the_end_of_time}
    BY DEF Init
  <2> QED BY <2>1, <2>2, <2>3, <2>4 DEF Init, TypeOK
<1>3. NothingLost
  BY <1>1 DEF Init, NothingLost, IsInjective, Scheduled, is_live, Header
<1>4. NoStrayAlarm /\ CpuInv /\ PcInv
  BY DEF Init, NoStrayAlarm, CpuInv, PcInv, is_live
<1>5. \A w \in Waitable : \A c \in Coro : waitchain[w] # c
  BY DEF Init
<1>6. ChainInv /\ WakeableInv
  BY <1>5 DEF Init, ChainInv, WakeableInv, Wakeable
<1>7. SleepInv /\ ExitInv
  BY <1>1 DEF Init, SleepInv, ExitInv
<1> QED BY <1>2, <1>3, <1>4, <1>6, <1>7 DEF IInv

\* Every step of the scheduler, of a coroutine or of an interrupt handler keeps
\* the invariant.
LEMMA NextInv == IInv /\ [Next]_vars => IInv'
<1> SUFFICES ASSUME IInv, [Next]_vars PROVE IInv'
  OBVIOUS
<1>1. ASSUME NEW c \in Coro, GivesUpCpu(c) PROVE IInv'
  BY <1>1, Step_yield, Step_yield_and_exit, Step_yield_and_wait4time,
     Step_yield_and_start, Step_yield_and_check4signal DEF GivesUpCpu
<1>2. ASSUME NEW c \in Coro, Proceeds(c) PROVE IInv'
  BY <1>2, Step_yield_and_wait4wakeup, Step_wait4signal_take,
     Step_wait4signal_chain, Step_check4signal_done DEF Proceeds
<1>3. ASSUME NEW c \in Coro, arm(c) PROVE IInv'
  BY <1>3, Step_arm
<1>4. ASSUME NEW c \in Coro, NEW w \in Coro \cup Event, wait4signal_enter(c, w)
      PROVE  IInv'
  BY <1>4, Step_wait4signal_enter
<1>5. ASSUME NEW c \in Coro, wakeup(c) PROVE IInv'
  BY <1>5, Step_wakeup
<1>6. ASSUME NEW w \in Event, signal(w) PROVE IInv'
  BY <1>6, Step_signal
<1>7. ASSUME NEW a \in alarms, timeouthandler(a) PROVE IInv'
  BY <1>7, Step_timeouthandler
<1>8. ASSUME Schedule PROVE IInv'
  BY <1>8, Step_schedule_next_exit, Step_schedule_next_sleep,
     Step_schedule_next_resched, Step_idle_wakes DEF Schedule
<1>9. ASSUME Prime PROVE IInv'
  BY <1>9, Step_prime_expired, Step_prime_alarm, Step_prime_nothing DEF Prime
<1>10. CASE UNCHANGED vars
  <2>1. TypeOK' /\ NothingLost' /\ NoStrayAlarm'
    BY <1>10 DEF vars, IInv, TypeOK, NothingLost, Scheduled, is_live, NoStrayAlarm
  <2>2. CpuInv' /\ PcInv' /\ ChainInv'
    BY <1>10 DEF vars, IInv, CpuInv, PcInv, is_live, Current, ChainInv
  <2>3. WakeableInv' /\ SleepInv' /\ ExitInv'
    BY <1>10 DEF vars, IInv, WakeableInv, Wakeable, is_live, SleepInv, Active,
                 Current, ExitInv
  <2> QED BY <2>1, <2>2, <2>3 DEF IInv
<1> QED
  BY <1>1, <1>2, <1>3, <1>4, <1>5, <1>6, <1>7, <1>8, <1>9, <1>10,
     Step_yield_and_start_first, Step_Tick DEF Next

-----------------------------------------------------------------------------
\* The invariant of the scheduler holds for any number of coroutines and
\* Waitables, any clock and whatever interrupts do.
THEOREM Invariance == Spec => []IInv
BY InitInv, NextInv, PTL DEF Spec

\* The scheduler's variables keep their types: sleepcount and the semaphores
\* stay in an int8_t.
THEOREM TypeCorrect == Spec => []TypeOK
<1>1. IInv => TypeOK
  BY DEF IInv
<1> QED BY <1>1, Invariance, PTL

\* ready2run and waiting4timer hold each live coroutine exactly once, and
\* nothing else.
THEOREM Scheduling == Spec => []NothingLost
<1>1. IInv => NothingLost
  BY DEF IInv
<1> QED BY <1>1, Invariance, PTL

\* prime_scheduler_timer_locked() leaves no alarm behind that is not the one of
\* soonestalarmid, for a coroutine that sleeps until just then.
THEOREM Alarms == Spec => []NoStrayAlarm
<1>1. IInv => NoStrayAlarm
  BY DEF IInv
<1> QED BY <1>1, Invariance, PTL

\* schedule_next() switches only to a coroutine that is live and awake, and a
\* coroutine that exits is awake.
THEOREM Switching == Spec => []RunningIsRunnable
<1>1. ASSUME IInv, cpu = "coro"
      PROVE  /\ ready2run # <<>> /\ is_live(Current)
             /\ ~exiting[Current] /\ sleepcount[Current] <= 0
  <2>1. ready2run # <<>> /\ Current \in ToSet(ready2run) /\ Current \in Header
    BY <1>1, ListFacts DEF IInv, CpuInv
  <2>2. ~exiting[Current]
    BY <1>1, <2>1 DEF IInv, ExitInv
  <2>3. is_live(Current)
    BY <1>1, <2>1, <2>2, ListFacts DEF IInv, CpuInv
  <2>4. sleepcount[Current] <= 0
    BY <1>1 DEF IInv, SleepInv
  <2> QED BY <2>1, <2>2, <2>3, <2>4
<1>2. ASSUME IInv, cpu = "yield", exiting[Current] PROVE sleepcount[Current] <= 0
  BY <1>2, YieldFacts
<1>3. IInv => RunningIsRunnable
  BY <1>1, <1>2 DEF RunningIsRunnable
<1> QED BY <1>3, Invariance, PTL

\* wakeup_locked() is called for live coroutines only.
THEOREM Targets == Spec => []TargetsLive
<1>1. ASSUME IInv, NEW c \in Coro, Wakeable(c) PROVE is_live(c)
  BY <1>1 DEF IInv, WakeableInv
<1>2. ASSUME IInv, NEW a \in alarms PROVE is_live(a.coro)
  BY <1>2, TimedFacts DEF IInv, NoStrayAlarm, TypeOK, Alarm
<1>3. IInv => TargetsLive
  BY <1>1, <1>2 DEF TargetsLive, Wakeable
<1> QED BY <1>3, Invariance, PTL

-----------------------------------------------------------------------------
(* The timers: waiting4timer stays sorted, and the alarm that is set fires  *)
(* no later than the first sleeper is due: TimerInv is an invariant, too,   *)
(* whatever parts of the contract the coroutines drop.  And the running     *)
(* coroutine keeps the cpu until it gives it up.                            *)

\* What the running coroutine does but for starting another one.
OwnCode(c) ==
  \/ yield(c) \/ yield_and_exit(c) \/ arm(c) \/ Proceeds(c)
  \/ \E until \in Time : yield_and_wait4time(c, until)
  \/ \E w \in Coro \cup Event : yield_and_check4signal(c, w)
  \/ \E w \in Coro \cup Event : wait4signal_enter(c, w)

\* The steps of Next, told apart by what they do to the lists.
LEMMA NextCases ==
  ASSUME [Next]_vars
  PROVE  \/ yield_and_start_first
         \/ \E c \in Coro : OwnCode(c)
         \/ \E c, new \in Coro : yield_and_start(c, new)
         \/ \E c \in Coro : wakeup(c)
         \/ \E w \in Event : signal(w)
         \/ \E a \in alarms : timeouthandler(a)
         \/ schedule_next_exit \/ schedule_next_sleep \/ schedule_next_resched
         \/ idle_wakes \/ prime_expired \/ prime_alarm \/ prime_nothing
         \/ Tick \/ UNCHANGED vars
<1>1. ASSUME NEW c \in Coro, GivesUpCpu(c)
      PROVE  OwnCode(c) \/ \E new \in Coro : yield_and_start(c, new)
  BY <1>1 DEF GivesUpCpu, OwnCode
<1>2. ASSUME NEW c \in Coro,
             Proceeds(c) \/ arm(c) \/ \E w \in Coro \cup Event : wait4signal_enter(c, w)
      PROVE  OwnCode(c)
  BY <1>2 DEF OwnCode
<1> QED BY <1>1, <1>2 DEF Next, Schedule, Prime

\* The running coroutine is in the run queue and changes neither list, nor
\* what others sleep for.
LEMMA OwnCodeFacts ==
  ASSUME IInv, NEW c \in Coro, OwnCode(c)
  PROVE  /\ c = Current /\ cpu = "coro" /\ ~irq
         /\ c \in ToSet(ready2run) /\ c \notin ToSet(waiting4timer)
         /\ cpu' \in {"coro", "yield"}
         /\ UNCHANGED <<lists, timer, sp, irq, now>>
         /\ \A h \in Header : h # c => wakeuptime'[h] = wakeuptime[h]
         /\ \A d \in Coro : d # c => pc'[d] = pc[d] /\ other'[d] = other[d]
<1>1. Running(c)
  BY DEF OwnCode, Proceeds, yield, yield_and_exit, arm, yield_and_wait4wakeup,
         wait4signal_take, wait4signal_chain, check4signal_done,
         yield_and_wait4time, yield_and_check4signal, wait4signal_enter
<1>2. /\ c = Current /\ cpu = "coro" /\ ~irq
      /\ c \in ToSet(ready2run) /\ c \notin ToSet(waiting4timer)
  BY <1>1, RunningFacts
<1>3. /\ wakeuptime \in [Header -> Time \cup {at_the_end_of_time}]
      /\ pc \in [Coro -> {"app", "armed", "wait", "chained", "poll"}]
      /\ other \in [Coro -> Coro \cup Event \cup {NULL}]
  BY DEF IInv, TypeOK
<1> DEFINE Others ==
             /\ cpu' \in {"coro", "yield"}
             /\ UNCHANGED <<lists, timer, sp, irq, now>>
             /\ \A h \in Header : h # c => wakeuptime'[h] = wakeuptime[h]
             /\ \A d \in Coro : d # c => pc'[d] = pc[d] /\ other'[d] = other[d]
<1>4. ASSUME yield(c) PROVE Others
  BY <1>2, <1>3, <1>4 DEF yield
<1>5. ASSUME yield_and_exit(c) PROVE Others
  BY <1>2, <1>3, <1>5 DEF yield_and_exit
<1>6. ASSUME arm(c) PROVE Others
  BY <1>2, <1>3, <1>6 DEF arm
<1>7. ASSUME yield_and_wait4wakeup(c) PROVE Others
  BY <1>2, <1>3, <1>7 DEF yield_and_wait4wakeup, fall_asleep
<1>8. ASSUME wait4signal_take(c) PROVE Others
  BY <1>2, <1>3, <1>8 DEF wait4signal_take
<1>9. ASSUME wait4signal_chain(c) PROVE Others
  BY <1>2, <1>3, <1>9 DEF wait4signal_chain
<1>10. ASSUME check4signal_done(c) PROVE Others
  BY <1>2, <1>3, <1>10 DEF check4signal_done
<1>11. ASSUME NEW until \in Time, yield_and_wait4time(c, until) PROVE Others
  BY <1>2, <1>3, <1>11 DEF yield_and_wait4time, fall_asleep
<1>12. ASSUME NEW w \in Coro \cup Event, yield_and_check4signal(c, w) PROVE Others
  BY <1>2, <1>3, <1>12 DEF yield_and_check4signal
<1>13. ASSUME NEW w \in Coro \cup Event, wait4signal_enter(c, w) PROVE Others
  BY <1>2, <1>3, <1>13 DEF wait4signal_enter
<1> HIDE DEF Others
<1>14. Others
  BY <1>4, <1>5, <1>6, <1>7, <1>8, <1>9, <1>10, <1>11, <1>12, <1>13
     DEF OwnCode, Proceeds
<1> QED BY <1>2, <1>14 DEF Others
-----------------------------------------------------------------------------
\* The types that the order of waiting4timer is about.
LEMMA TimerTypes ==
  ASSUME IInv
  PROVE  /\ waiting4timer \in Seq(Header) /\ IsInjective(waiting4timer)
         /\ ToSet(waiting4timer) \subseteq Coro /\ Coro \subseteq Header
         /\ wakeuptime \in [Header -> Int]
         /\ soonesttime2wake \in Int
<1>1. Time \subseteq Int /\ at_the_end_of_time \in Int
  BY DEF Time, at_the_end_of_time
<1>2. Coro \subseteq Header
  BY DEF Header
<1>3. waiting4timer \in Seq(Coro) /\ IsInjective(waiting4timer)
  BY DEF IInv, TypeOK, NothingLost
<1>4. waiting4timer \in Seq(Header)
  BY <1>2, <1>3
<1>5. wakeuptime \in [Header -> Int] /\ soonesttime2wake \in Int
  <2>1. /\ wakeuptime \in [Header -> Time \cup {at_the_end_of_time}]
        /\ soonesttime2wake \in Time \cup {at_the_end_of_time}
    BY DEF IInv, TypeOK
  <2>2. Time \cup {at_the_end_of_time} \subseteq Int
    BY <1>1
  <2> QED BY <2>1, <2>2
<1> QED BY <1>2, <1>3, <1>4, <1>5, ListFacts

LEMMA TimerSortedDef == TimerSorted <=> Sorted(waiting4timer, wakeuptime)
BY DEF TimerSorted, IsSorted, Sorted

\* A step that leaves the timer alone and puts nobody to sleep keeps TimerInv,
\* unless it ends a run of prime_scheduler_timer_locked().
LEMMA TimerKept ==
  ASSUME TimerInv, UNCHANGED timer, TimerSorted',
         ToSet(waiting4timer') \subseteq ToSet(waiting4timer),
         \A d \in ToSet(waiting4timer') : wakeuptime'[d] = wakeuptime[d],
         Priming => Priming'
  PROVE  TimerInv'
<1>1. soonesttime2wake' \in Time => \E a \in alarms' : a.time = soonesttime2wake'
  BY DEF TimerInv
<1>2. ~Priming' =>
        \A d \in ToSet(waiting4timer') : soonesttime2wake' <= wakeuptime'[d]
  BY DEF TimerInv
<1> QED BY <1>1, <1>2 DEF TimerInv

\* A step that leaves waiting4timer alone keeps it sorted, if it leaves alone
\* the times of those who are in it.
LEMMA OrderKept ==
  ASSUME IInv, TimerSorted, UNCHANGED waiting4timer,
         \A d \in ToSet(waiting4timer) : wakeuptime'[d] = wakeuptime[d]
  PROVE  TimerSorted'
<1>1. Sorted(waiting4timer, wakeuptime')
  BY TimerTypes, TimerSortedDef, SortedRekey
<1>2. Sorted(waiting4timer, wakeuptime)'
  BY <1>1
<1>3. TimerSorted' <=> Sorted(waiting4timer, wakeuptime)'
  BY DEF TimerSorted, IsSorted, Sorted
<1> QED BY <1>2, <1>3

\* wakeup_locked() takes c out of waiting4timer, if it is there, and keeps the
\* order of the others.
LEMMA WakeupKeepsOrder ==
  ASSUME IInv, TimerSorted, NEW c \in Coro, NEW queue, wakeup_locked(c, queue)
  PROVE  /\ TimerSorted'
         /\ ToSet(waiting4timer') = ToSet(waiting4timer) \ {c}
         /\ \A d \in ToSet(waiting4timer') : wakeuptime'[d] = wakeuptime[d]
<1>1. /\ waiting4timer' = ll_remove(waiting4timer, c)
      /\ wakeuptime' = [wakeuptime EXCEPT ![c] = nil_time]
  BY DEF wakeup_locked
<1> DEFINE rest == ll_remove(waiting4timer, c)
<1>2. /\ rest \in Seq(Header)
      /\ ToSet(rest) = ToSet(waiting4timer) \ {c}
      /\ Sorted(rest, wakeuptime)
  BY TimerTypes, TimerSortedDef, RemoveProps, SortedRemove
<1>3. waiting4timer' = rest
  BY <1>1
<1> HIDE DEF rest
<1>4. \A d \in ToSet(rest) : wakeuptime'[d] = wakeuptime[d]
  BY <1>1, <1>2, TimerTypes
<1>5. Sorted(rest, wakeuptime')
  BY <1>2, <1>4, SortedRekey
<1>6. TimerSorted' <=> Sorted(waiting4timer', wakeuptime')
  BY DEF TimerSorted, IsSorted, Sorted
<1> QED BY <1>2, <1>3, <1>4, <1>5, <1>6

LEMMA Timer_OwnCode ==
  ASSUME IInv, TimerInv, NEW c \in Coro, OwnCode(c)
  PROVE  TimerInv'
<1>1. /\ UNCHANGED <<lists, timer, irq>> /\ cpu = "coro" /\ ~irq
      /\ c \notin ToSet(waiting4timer)
      /\ \A h \in Header : h # c => wakeuptime'[h] = wakeuptime[h]
  BY OwnCodeFacts
<1>2. \A d \in ToSet(waiting4timer) : wakeuptime'[d] = wakeuptime[d]
  BY <1>1, TimerTypes
<1>3. TimerSorted'
  BY <1>1, <1>2, OrderKept DEF TimerInv
<1> QED BY <1>1, <1>2, <1>3, TimerKept DEF Priming

LEMMA Timer_signal ==
  ASSUME IInv, TimerInv, NEW w \in Event, signal(w)
  PROVE  TimerInv'
<1>1. UNCHANGED <<timer, cpu, irq>>
  BY DEF signal
<1>2. CASE waitchain[w] = NULL
  <2>1. UNCHANGED <<lists, sleep>>
    BY <1>2 DEF signal
  <2>2. TimerSorted'
    BY <2>1, OrderKept DEF TimerInv
  <2> QED BY <1>1, <2>1, <2>2, TimerKept DEF Priming
<1>3. CASE waitchain[w] # NULL
  <2>1. PICK c \in Coro : c = waitchain[w]
    BY <1>3 DEF IInv, TypeOK, Waitable
  <2>2. wakeup_locked(c, ready2run)
    BY <1>3, <2>1 DEF signal
  <2> QED BY <1>1, <2>2, WakeupKeepsOrder, TimerKept DEF TimerInv, Priming
<1> QED BY <1>2, <1>3

LEMMA Timer_wakeup ==
  ASSUME IInv, TimerInv, NEW c \in Coro, wakeup(c)
  PROVE  TimerInv'
<1>1. UNCHANGED <<timer, cpu, irq>> /\ wakeup_locked(c, ready2run)
  BY DEF wakeup
<1> QED BY <1>1, WakeupKeepsOrder, TimerKept DEF TimerInv, Priming

\* timeouthandler() forgets the alarm and primes the timer anew.
LEMMA Timer_timeouthandler ==
  ASSUME IInv, TimerInv, NEW a \in alarms, timeouthandler(a)
  PROVE  TimerInv'
<1>1. PICK c \in Coro : c = a.coro
  BY DEF IInv, TypeOK, Alarm
<1>2. /\ wakeup_locked(c, ready2run)
      /\ soonesttime2wake' = at_the_end_of_time /\ irq' = TRUE
  BY <1>1 DEF timeouthandler
<1>3. at_the_end_of_time \notin Time
  BY DEF at_the_end_of_time, Time
<1> QED BY <1>2, <1>3, WakeupKeepsOrder DEF TimerInv, Priming

\* Whoever wakes at the head of waiting4timer leaves the rest sorted.
LEMMA Timer_prime_expired ==
  ASSUME IInv, TimerInv, prime_expired
  PROVE  TimerInv'
<1>1. /\ Priming /\ MustPrime /\ UNCHANGED <<wakeuptime, cpu, irq>>
      /\ waiting4timer' = ll_pop_front(waiting4timer)
      /\ soonesttime2wake' = at_the_end_of_time
  BY DEF prime_expired
<1>2. Sorted(ll_pop_front(waiting4timer), wakeuptime)
  BY <1>1, TimerTypes, TimerSortedDef, SortedHead DEF MustPrime, TimerInv
<1>3. TimerSorted' <=> Sorted(waiting4timer', wakeuptime')
  BY DEF TimerSorted, IsSorted, Sorted
<1>4. TimerSorted'
  BY <1>1, <1>2, <1>3
<1>5. at_the_end_of_time \notin Time
  BY DEF at_the_end_of_time, Time
<1> QED BY <1>1, <1>4, <1>5 DEF TimerInv, Priming

\* The new alarm is for the first sleeper, so nobody is due before it.
LEMMA Timer_prime_alarm ==
  ASSUME IInv, TimerInv, prime_alarm
  PROVE  TimerInv'
<1>1. PICK c : c = ll_peek_head(waiting4timer)
  OBVIOUS
<1>2. PICK a : a = [coro |-> c, time |-> wakeuptime[c]]
  OBVIOUS
<1>3. /\ Priming /\ MustPrime
      /\ a \in alarms' /\ soonesttime2wake' = wakeuptime[c]
      /\ UNCHANGED <<lists, sleep>>
  BY <1>1, <1>2 DEF prime_alarm
<1>4. waiting4timer # <<>> /\ c = Head(waiting4timer)
  BY <1>1, <1>3 DEF MustPrime
<1>5. \A d \in ToSet(waiting4timer) : wakeuptime[c] <= wakeuptime[d]
  BY <1>4, TimerTypes, TimerSortedDef, SortedHead DEF TimerInv
<1>6. TimerSorted'
  BY <1>3, OrderKept DEF TimerInv
<1>7. a.time = soonesttime2wake'
  BY <1>2, <1>3
<1> QED BY <1>3, <1>5, <1>6, <1>7 DEF TimerInv

\* The alarm there is is for the first sleeper or somebody before it.
LEMMA Timer_prime_nothing ==
  ASSUME IInv, TimerInv, prime_nothing
  PROVE  TimerInv'
<1>1. ~MustPrime /\ UNCHANGED <<lists, timer, sleep>>
  BY DEF prime_nothing
<1>2. ASSUME NEW d \in ToSet(waiting4timer)
      PROVE  soonesttime2wake <= wakeuptime[d]
  <2>1. waiting4timer # <<>>
    BY DEF ToSet
  <2>2. /\ wakeuptime[Head(waiting4timer)] <= wakeuptime[d]
        /\ Head(waiting4timer) \in Header /\ d \in Header
    BY <2>1, TimerTypes, TimerSortedDef, SortedHead, PopFrontProps DEF TimerInv
  <2>3. ~(wakeuptime[Head(waiting4timer)] < soonesttime2wake)
    BY <1>1, <2>1 DEF MustPrime
  <2>4. /\ wakeuptime[Head(waiting4timer)] \in Int /\ wakeuptime[d] \in Int
        /\ soonesttime2wake \in Int
    BY <2>2, TimerTypes
  <2> QED BY <2>2, <2>3, <2>4
<1>3. TimerSorted'
  BY <1>1, OrderKept DEF TimerInv
<1> QED BY <1>1, <1>2, <1>3 DEF TimerInv

\* A coroutine that falls asleep goes to the place of its timeout.
LEMMA Timer_schedule_next_sleep ==
  ASSUME IInv, TimerInv, schedule_next_sleep
  PROVE  TimerInv'
<1>1. PICK c : c = Current
  OBVIOUS
<1>2. /\ cpu = "yield" /\ ~exiting[c] /\ cpu' = "sched"
      /\ UNCHANGED <<timer, sleep, irq>>
      /\ waiting4timer' = IF wakeuptime[c] = at_the_end_of_time
                          THEN ll_push_back(waiting4timer, c)
                          ELSE ll_sorted_insert(waiting4timer, c, wakeuptime)
  BY <1>1 DEF schedule_next_sleep
<1>3. c \in Header
  BY <1>1, <1>2, YieldFacts
<1>4. Sorted(waiting4timer', wakeuptime)
  <2>1. CASE wakeuptime[c] = at_the_end_of_time
    <3>1. \A d \in ToSet(waiting4timer) : wakeuptime[d] <= wakeuptime[c]
      <4>1. wakeuptime \in [Header -> Time \cup {at_the_end_of_time}]
        BY DEF IInv, TypeOK
      <4>2. \A d \in Header : wakeuptime[d] <= at_the_end_of_time
        BY <4>1 DEF Time, at_the_end_of_time
      <4> QED BY <2>1, <4>2, TimerTypes
    <3>2. Sorted(ll_push_back(waiting4timer, c), wakeuptime)
      BY <1>3, <3>1, TimerTypes, TimerSortedDef, SortedPushBack DEF TimerInv
    <3> QED BY <1>2, <2>1, <3>2
  <2>2. CASE wakeuptime[c] # at_the_end_of_time
    <3>1. Sorted(ll_sorted_insert(waiting4timer, c, wakeuptime), wakeuptime)
      BY <1>3, TimerTypes, TimerSortedDef, SortedInsert DEF TimerInv
    <3> QED BY <1>2, <2>2, <3>1
  <2> QED BY <2>1, <2>2
<1>5. TimerSorted' <=> Sorted(waiting4timer', wakeuptime')
  BY DEF TimerSorted, IsSorted, Sorted
<1>6. TimerSorted'
  BY <1>2, <1>4, <1>5
<1> QED BY <1>2, <1>6 DEF TimerInv, Priming

LEMMA Timer_schedule_next_exit ==
  ASSUME IInv, TimerInv, schedule_next_exit
  PROVE  TimerInv'
<1>1. PICK c : c = Current
  OBVIOUS
<1>2. cpu = "yield" /\ cpu' = "sched" /\ UNCHANGED <<timer, irq>>
  BY DEF schedule_next_exit
<1>3. CASE waitchain[c] = NULL
  <2>1. UNCHANGED <<waiting4timer, sleep>>
    BY <1>1, <1>3 DEF schedule_next_exit
  <2>2. TimerSorted'
    BY <2>1, OrderKept DEF TimerInv
  <2> QED BY <1>2, <2>1, <2>2, TimerKept DEF Priming
<1>4. CASE waitchain[c] # NULL
  <2>1. c \in Waitable
    BY <1>1, <1>2, YieldFacts DEF Waitable
  <2>2. PICK d \in Coro : d = waitchain[c]
    BY <1>4, <2>1 DEF IInv, TypeOK
  <2>3. wakeup_locked(d, ll_pop_front(ready2run))
    BY <1>1, <1>4, <2>2 DEF schedule_next_exit
  <2> QED BY <1>2, <2>3, WakeupKeepsOrder, TimerKept DEF TimerInv, Priming
<1> QED BY <1>3, <1>4

\* The steps that do nothing to waiting4timer or the timer.
LEMMA Timer_others ==
  ASSUME IInv, TimerInv,
         \/ \E c, new \in Coro : yield_and_start(c, new)
         \/ schedule_next_resched \/ idle_wakes \/ Tick \/ UNCHANGED vars
  PROVE  TimerInv'
<1>1. UNCHANGED <<waiting4timer, timer, wakeuptime>>
  BY DEF yield_and_start, schedule_next_resched, idle_wakes, Tick, vars
<1>2. Priming => Priming'
  BY DEF yield_and_start, schedule_next_resched, idle_wakes, Tick, vars, Priming,
         Running
<1>3. TimerSorted'
  BY <1>1, OrderKept DEF TimerInv
<1> QED BY <1>1, <1>2, <1>3, TimerKept

LEMMA Timer_yield_and_start_first ==
  ASSUME IInv, TimerInv, yield_and_start_first
  PROVE  TimerInv'
<1>1. waiting4timer' = <<>> /\ soonesttime2wake' = at_the_end_of_time
  BY DEF yield_and_start_first
<1>2. ToSet(waiting4timer') = {} /\ TimerSorted'
  BY <1>1 DEF ToSet, TimerSorted, IsSorted
<1>3. at_the_end_of_time \notin Time
  BY DEF at_the_end_of_time, Time
<1> QED BY <1>1, <1>2, <1>3 DEF TimerInv

LEMMA TimerInitial == Init => TimerInv
<1> SUFFICES ASSUME Init PROVE TimerInv
  OBVIOUS
<1>1. ToSet(waiting4timer) = {} /\ TimerSorted
  BY DEF Init, ToSet, TimerSorted, IsSorted
<1>2. soonesttime2wake = at_the_end_of_time /\ at_the_end_of_time \notin Time
  BY DEF Init, at_the_end_of_time, Time
<1> QED BY <1>1, <1>2 DEF TimerInv

LEMMA TimerNext == IInv /\ TimerInv /\ [Next]_vars => TimerInv'
<1> SUFFICES ASSUME IInv, TimerInv, [Next]_vars PROVE TimerInv'
  OBVIOUS
<1> QED
  BY NextCases, Timer_OwnCode, Timer_wakeup, Timer_signal, Timer_timeouthandler,
     Timer_schedule_next_exit, Timer_schedule_next_sleep, Timer_prime_expired,
     Timer_prime_alarm, Timer_prime_nothing, Timer_others,
     Timer_yield_and_start_first

-----------------------------------------------------------------------------
\* The alarm, the time it is set for and the order of the sleepers agree, for
\* any number of coroutines and any use of their interface.
THEOREM TimerInvariance == Spec => []TimerInv
BY TimerInitial, TimerNext, Invariance, PTL DEF Spec

\* waiting4timer is in the order of the timeouts, so that looking at its head
\* is enough for prime_scheduler_timer_locked().
THEOREM SleepersSorted == Spec => []TimerSorted
<1>1. TimerInv => TimerSorted
  BY DEF TimerInv
<1> QED BY <1>1, TimerInvariance, PTL

\* No coroutine sleeps past its timeout for want of an alarm: whenever the
\* scheduler's lock is free one is pending that fires in time.
THEOREM SleepersHaveAlarms == Spec => []SleeperHasAlarm
<1>1. IInv /\ TimerInv => SleeperHasAlarm
  <2> SUFFICES ASSUME IInv, TimerInv, LockFree,
                      NEW c \in ToSet(waiting4timer), wakeuptime[c] \in Time
               PROVE  \E a \in alarms : a.time <= wakeuptime[c]
    BY DEF SleeperHasAlarm
  <2>1. soonesttime2wake <= wakeuptime[c]
    BY DEF TimerInv, LockFree, Priming
  <2>2. /\ soonesttime2wake \in Time \cup {at_the_end_of_time}
        /\ wakeuptime[c] \in Time
    BY DEF IInv, TypeOK
  <2>3. soonesttime2wake \in Time
    BY <2>1, <2>2 DEF Time, at_the_end_of_time
  <2>4. PICK a \in alarms : a.time = soonesttime2wake
    BY <2>3 DEF TimerInv
  <2> QED BY <2>1, <2>4
<1> QED BY <1>1, Invariance, TimerInvariance, PTL

\* What wakeup_locked() does to a run queue with somebody in it.
LEMMA WakeupKeepsHead ==
  ASSUME IInv, ready2run # <<>>, NEW c \in Coro, wakeup_locked(c, ready2run)
  PROVE  Current' = Current
<1>1. ready2run \in Seq(Header) /\ c \in Header
  BY DEF IInv, TypeOK, Header
<1>2. ready2run' = ready2run \/ ready2run' = ll_push_back(ready2run, c)
  BY DEF wakeup_locked
<1>3. Head(ll_push_back(ready2run, c)) = Head(ready2run)
  BY <1>1, PushBackProps
<1> QED BY <1>2, <1>3 DEF Current

\* Cooperative multitasking: whatever interrupts do to the run queue, its head
\* stays until that coroutine yields.
THEOREM Cooperative == Spec => NeverPreempted
<1> DEFINE Stays ==
             /\ cpu \in {"coro", "yield"} /\ cpu' # "sched" => Current' = Current
             /\ cpu = "coro" => cpu' \in {"coro", "yield"}
<1>1. IInv /\ [Next]_vars => Stays
  <2> SUFFICES ASSUME IInv, [Next]_vars, cpu \in {"coro", "yield"}
               PROVE  Stays
    OBVIOUS
  <2>1. ready2run \in Seq(Header) /\ ready2run # <<>>
    BY DEF IInv, TypeOK, CpuInv
  <2>2. \A h \in Header : Head(ll_push_back(ready2run, h)) = Head(ready2run)
    BY <2>1, PushBackProps
  <2>3. ASSUME NEW c \in Coro, OwnCode(c) PROVE Stays
    BY <2>3, OwnCodeFacts DEF Current
  <2>4. ASSUME NEW c \in Coro, NEW new \in Coro, yield_and_start(c, new)
        PROVE  Stays
    BY <2>2, <2>4 DEF yield_and_start, Current, Header
  <2>5. ASSUME NEW c \in Coro, wakeup(c) PROVE Stays
    BY <2>1, <2>5, WakeupKeepsHead DEF wakeup
  <2>6. ASSUME NEW w \in Event, signal(w) PROVE Stays
    <3>1. cpu' = cpu
      BY <2>6 DEF signal
    <3>2. CASE waitchain[w] = NULL
      BY <2>6, <3>1, <3>2 DEF signal, Current
    <3>3. CASE waitchain[w] # NULL
      <4>1. waitchain[w] \in Coro
        BY <3>3 DEF IInv, TypeOK, Waitable
      <4> QED BY <2>1, <2>6, <3>1, <3>3, <4>1, WakeupKeepsHead DEF signal
    <3> QED BY <3>2, <3>3
  <2>7. ASSUME NEW a \in alarms, timeouthandler(a) PROVE Stays
    <3>1. a.coro \in Coro
      BY DEF IInv, TypeOK, Alarm
    <3> QED BY <2>1, <2>7, <3>1, WakeupKeepsHead DEF timeouthandler
  <2>8. CASE schedule_next_exit \/ schedule_next_sleep \/ schedule_next_resched
    BY <2>8 DEF schedule_next_exit, schedule_next_sleep, schedule_next_resched
  <2>9. CASE prime_expired
    <3>1. PICK c : c = ll_peek_head(waiting4timer)
      OBVIOUS
    <3>2. c \in Header
      BY <2>9, <3>1, PrimingFacts DEF prime_expired
    <3> QED BY <2>2, <2>9, <3>1, <3>2 DEF prime_expired, Current
  <2>10. CASE prime_alarm \/ prime_nothing
    BY <2>10 DEF prime_alarm, prime_nothing, Priming, Primed, Current
  <2>11. CASE yield_and_start_first \/ idle_wakes \/ Tick \/ UNCHANGED vars
    BY <2>11 DEF yield_and_start_first, idle_wakes, Tick, vars, Current
  <2> QED BY <2>3, <2>4, <2>5, <2>6, <2>7, <2>8, <2>9, <2>10, <2>11, NextCases
<1> QED BY <1>1, Invariance, PTL DEF Spec, NeverPreempted

\* First come, first run: interrupts, starts and timeouts only add to the back
\* of the run queue, and only schedule_next() takes its head off, so that the
\* coroutine at place n runs after n - 1 switches at the latest, whoever else
\* becomes ready in the meantime.  This is why a coroutine that is ready runs.
QueueMovesOn ==
  IF cpu = "yield" /\ cpu' = "sched" THEN IsPrefix(ll_pop_front(ready2run), ready2run')
                                     ELSE IsPrefix(ready2run, ready2run')

\* wakeup_locked() adds to the back, if at all.
LEMMA WakeupAppends ==
  ASSUME NEW queue \in Seq(Header), NEW c \in Coro, wakeup_locked(c, queue)
  PROVE  IsPrefix(queue, ready2run')
<1>1. ready2run' = queue \/ ready2run' = ll_push_back(queue, c)
  BY DEF wakeup_locked
<1>2. c \in Header
  BY DEF Header
<1> QED BY <1>1, <1>2, PushBackPrefix

THEOREM FirstComeFirstRun == Spec => [][QueueMovesOn]_vars
<1>1. IInv /\ [Next]_vars => QueueMovesOn
  <2> SUFFICES ASSUME IInv, [Next]_vars PROVE QueueMovesOn
    OBVIOUS
  <2>1. ready2run \in Seq(Header) /\ Coro \subseteq Header
    BY DEF IInv, TypeOK, Header
  <2>2. \A h \in Header : IsPrefix(ready2run, ll_push_back(ready2run, h))
    BY <2>1, PushBackPrefix
  <2>3. IsPrefix(ready2run, ready2run)
    BY <2>1, PushBackPrefix
  <2>4. ASSUME NEW c \in Coro, OwnCode(c) PROVE QueueMovesOn
    BY <2>3, <2>4, OwnCodeFacts DEF QueueMovesOn
  <2>5. ASSUME NEW c \in Coro, NEW new \in Coro, yield_and_start(c, new)
        PROVE  QueueMovesOn
    BY <2>1, <2>2, <2>5 DEF yield_and_start, QueueMovesOn
  <2>6. ASSUME NEW c \in Coro, wakeup(c) PROVE QueueMovesOn
    BY <2>1, <2>6, WakeupAppends DEF wakeup, QueueMovesOn
  <2>7. ASSUME NEW w \in Event, signal(w) PROVE QueueMovesOn
    <3>1. cpu' = cpu
      BY <2>7 DEF signal
    <3>2. CASE waitchain[w] = NULL
      BY <2>3, <2>7, <3>1, <3>2 DEF signal, QueueMovesOn
    <3>3. CASE waitchain[w] # NULL
      <4>1. waitchain[w] \in Coro
        BY <3>3 DEF IInv, TypeOK, Waitable
      <4> QED BY <2>1, <2>7, <3>1, <3>3, <4>1, WakeupAppends DEF signal, QueueMovesOn
    <3> QED BY <3>2, <3>3
  <2>8. ASSUME NEW a \in alarms, timeouthandler(a) PROVE QueueMovesOn
    <3>1. a.coro \in Coro
      BY DEF IInv, TypeOK, Alarm
    <3> QED BY <2>1, <2>8, <3>1, WakeupAppends DEF timeouthandler, QueueMovesOn
  <2>9. CASE schedule_next_exit \/ schedule_next_sleep \/ schedule_next_resched
    <3> DEFINE rest == ll_pop_front(ready2run)
    <3>1. /\ cpu = "yield" /\ cpu' = "sched"
          /\ rest \in Seq(Header) /\ Current \in Header
      BY <2>9, YieldFacts
         DEF schedule_next_exit, schedule_next_sleep, schedule_next_resched
    <3>2. IsPrefix(rest, rest) /\ IsPrefix(rest, ll_push_back(rest, Current))
      BY <3>1, PushBackPrefix
    <3>3. ASSUME schedule_next_exit PROVE IsPrefix(rest, ready2run')
      <4>1. CASE waitchain[Current] = NULL
        BY <3>2, <3>3, <4>1 DEF schedule_next_exit
      <4>2. CASE waitchain[Current] # NULL
        <5>1. waitchain[Current] \in Coro
          BY <3>1, <4>2 DEF IInv, TypeOK, Waitable
        <5>2. wakeup_locked(waitchain[Current], rest)
          BY <3>3, <4>2 DEF schedule_next_exit
        <5> HIDE DEF rest
        <5> QED BY <3>1, <5>1, <5>2, WakeupAppends
      <4> QED BY <4>1, <4>2
    <3>4. ASSUME schedule_next_sleep PROVE ready2run' = rest
      BY <3>4 DEF schedule_next_sleep
    <3>5. ASSUME schedule_next_resched PROVE ready2run' = ll_push_back(rest, Current)
      BY <3>5 DEF schedule_next_resched
    <3> QED BY <2>9, <3>1, <3>2, <3>3, <3>4, <3>5 DEF QueueMovesOn
  <2>10. CASE prime_expired
    <3>1. PICK c : c = ll_peek_head(waiting4timer)
      OBVIOUS
    <3>2. c \in Header
      BY <2>10, <3>1, PrimingFacts DEF prime_expired
    <3> QED BY <2>2, <2>10, <3>1, <3>2 DEF prime_expired, QueueMovesOn
  <2>11. CASE prime_alarm \/ prime_nothing \/ idle_wakes \/ Tick \/ UNCHANGED vars
    <3>1. ready2run' = ready2run
      BY <2>11 DEF prime_alarm, prime_nothing, idle_wakes, Tick, vars
    <3>2. ~(cpu = "yield" /\ cpu' = "sched")
      BY <2>11 DEF prime_alarm, prime_nothing, Primed, Priming, idle_wakes, Tick, vars
    <3> QED BY <2>3, <3>1, <3>2 DEF QueueMovesOn
  <2>12. CASE yield_and_start_first
    <3>1. ready2run = <<>> /\ cpu = "boot"
      BY <2>12 DEF yield_and_start_first, IInv, CpuInv
    <3>2. IsPrefix(<<>>, ready2run')
      <4>1. ready2run' \in Seq(Header)
        BY <2>1, <2>12, EmptySeq, PushBackProps DEF yield_and_start_first, Header
      <4> QED BY <4>1, EmptySeq, LenProperties DEF IsPrefix
    <3> QED BY <3>1, <3>2 DEF QueueMovesOn
  <2> QED BY <2>4, <2>5, <2>6, <2>7, <2>8, <2>9, <2>10, <2>11, <2>12, NextCases
<1> QED BY <1>1, Invariance, PTL DEF Spec
=============================================================================
