------------------------------ MODULE Scheduler ------------------------------
(***************************************************************************)
(* The cooperative scheduler of src/coroutine.cpp: run queue, timer queue, *)
(* semaphores with a wait chain of length one, one SDK alarm for the       *)
(* soonest timeout, and the interrupt handlers that run between any two    *)
(* critical sections of the code.                                          *)
(*                                                                         *)
(* A step is what the code does in one critical section, together with the *)
(* unlocked writes before it that no interrupt handler can observe.  The   *)
(* coroutines' own code is any sequence of calls that keeps the contract   *)
(* coroutine.h states; the freedoms in Lax drop parts of that contract.    *)
(*                                                                         *)
(* A definition NAME_but_... is no part of the model: it is NAME with a    *)
(* plausible mistake, which one of the properties has to notice.           *)
(***************************************************************************)
EXTENDS ListOps

CONSTANTS
  Coro,             \* the coroutines: storage handed to yield_and_start()
  Main,             \* the coroutine started by the first yield_and_start()
  initialisercoro,  \* header that receives the sp of the code before Main
  Event,            \* Waitables that do not belong to a coroutine
  NULL,
  INT8_MAX,         \* 127: the largest value of an int8_t
  MaxTime,          \* bound: time advances no further
  SemBound,         \* bound: an Event gets no more unconsumed signals
  ExitWaits,        \* bound: waits for a coroutine that has exited already
  Lax               \* parts of the contract that calls need not keep

ASSUME SchedulerAssumption ==
  /\ Main \in Coro /\ initialisercoro \notin Coro
  /\ Event \cap (Coro \cup {initialisercoro}) = {}
  /\ NULL \notin Coro \cup {initialisercoro} \cup Event
  /\ NULL \notin [coro : Coro, time : 0..MaxTime]
  /\ INT8_MAX \in Nat \ {0} /\ MaxTime \in Nat
  /\ SemBound \in Nat /\ ExitWaits \in 0..INT8_MAX + 1
  \* "early": wait for a coroutine that was never started;
  \* "restart": start an exited coroutine again while somebody waits for it.
  /\ Lax \subseteq {"early", "restart"}

Header == Coro \cup {initialisercoro}
Waitable == Header \cup Event
Time == 0..MaxTime
nil_time == 0
at_the_end_of_time == MaxTime + 1
Alarm == [coro : Coro, time : Time]

VARIABLES
  ready2run,        \* list; its head is the running coroutine
  waiting4timer,    \* list; sorted by wakeuptime
  soonestalarmid,   \* the alarm last added, NULL for none; may be stale
  soonesttime2wake,
  sp,               \* by header: "null", "stack" (inside its stack), "exited"
  sleepcount, wakeuptime, exiting,    \* by header
  waitchain, semaphore,               \* by waitable
  cpu,      \* "boot", "coro" (head executes), "yield" (head is on its way
            \* into schedule_next), "sched" (schedule_next holds the lock),
            \* "idle" (schedule_next waits for an event, lock released)
  irq,      \* timeouthandler holds the lock
  pc,       \* by coroutine: where its code is between two kernel steps
  other,    \* by coroutine: the Waitable it waits for or polls
  now, alarms,      \* SDK: the time and the pending alarms
  armed             \* hardware that will call wakeup() once for a coroutine

lists == <<ready2run, waiting4timer>>
timer == <<soonestalarmid, soonesttime2wake, alarms>>
sleep == <<sleepcount, wakeuptime>>
signals == <<waitchain, semaphore>>
code == <<pc, other, armed>>
vars == <<lists, timer, sleep, signals, code, sp, exiting, cpu, irq, now>>

\* An int8_t wraps around.
Int8(n) == IF n > INT8_MAX THEN n - 2 * (INT8_MAX + 1)
           ELSE IF n < -INT8_MAX - 1 THEN n + 2 * (INT8_MAX + 1) ELSE n

is_live(c) == sp[c] = "stack"
Current == ll_peek_head(ready2run)
Running(c) == cpu = "coro" /\ ~irq /\ Current = c
LockFree == cpu \in {"coro", "yield", "idle"} /\ ~irq

-----------------------------------------------------------------------------
(* What the contract of coroutine.h lets a coroutine call. *)

Awaits(d, w) == pc[d] \in {"wait", "chained"} /\ other[d] = w

\* Bound: the semaphore of an exited coroutine is asked ExitWaits times only.
Askable(w) == w \in Coro /\ sp[w] = "exited" => semaphore[w] > INT8_MAX - ExitWaits

\* "only 1 coro can wait"; a coroutine does not wait for itself; a wait for a
\* coroutine comes after it was started.
MayWait(c, w) ==
  /\ w # c /\ Askable(w)
  /\ \A d \in Coro : ~Awaits(d, w)
  /\ w \in Coro /\ sp[w] = "null" => "early" \in Lax

MayStart(c) ==
  "restart" \notin Lax /\ sp[c] = "exited" => \A d \in Coro : ~Awaits(d, c)
-----------------------------------------------------------------------------
Init ==
  /\ ready2run = <<>> /\ waiting4timer = <<>>
  /\ soonestalarmid = NULL /\ soonesttime2wake = at_the_end_of_time
  /\ sp = [h \in Header |-> "null"]
  /\ sleepcount = [h \in Header |-> 0]
  /\ wakeuptime = [h \in Header |-> nil_time]
  /\ exiting = [h \in Header |-> FALSE]
  /\ waitchain = [w \in Waitable |-> NULL]
  /\ semaphore = [w \in Waitable |-> 0]
  /\ cpu = "boot" /\ irq = FALSE
  /\ pc = [c \in Coro |-> "app"]
  /\ other = [c \in Coro |-> NULL]
  /\ now = 0 /\ alarms = {} /\ armed = [c \in Coro |-> FALSE]

wakeup_locked_but_head_too(c, queue) ==
  /\ sleepcount' = [sleepcount EXCEPT ![c] = Int8(@ - 1)]
  /\ wakeuptime' = [wakeuptime EXCEPT ![c] = nil_time]
  /\ waiting4timer' = ll_remove(waiting4timer, c)
  /\ ready2run' = ll_push_back(queue, c)

\* wakeup_locked(), given the run queue it finds.
wakeup_locked(c, queue) ==
  /\ sleepcount' = [sleepcount EXCEPT ![c] = Int8(@ - 1)]
  /\ wakeuptime' = [wakeuptime EXCEPT ![c] = nil_time]
  /\ waiting4timer' = ll_remove(waiting4timer, c)
  /\ ready2run' = IF queue # <<>> /\ ll_peek_head(queue) = c
                  THEN queue ELSE ll_push_back(queue, c)
-----------------------------------------------------------------------------
(* The calls of the running coroutine c. *)

\* yield_and_start_ex(): the header and the stack are set up anew ...
prepare(c) ==
  /\ sp' = [sp EXCEPT ![c] = "stack"]
  /\ waitchain' = [waitchain EXCEPT ![c] = NULL]
  /\ semaphore' = [semaphore EXCEPT ![c] = 0]
  /\ sleepcount' = [sleepcount EXCEPT ![c] = 0]
  /\ pc' = [pc EXCEPT ![c] = "app"]

\* ... outside of any coroutine, where the scheduler is initialised too,
yield_and_start_first ==
  /\ cpu = "boot"
  /\ prepare(Main)
  /\ ready2run' = ll_push_back(ll_push_back(<<>>, initialisercoro), Main)
  /\ waiting4timer' = <<>>
  /\ soonesttime2wake' = at_the_end_of_time /\ soonestalarmid' = NULL
  /\ exiting' = [exiting EXCEPT ![initialisercoro] = TRUE, ![Main] = FALSE]
  /\ cpu' = "yield"
  /\ UNCHANGED <<wakeuptime, irq, other, armed, alarms, now>>

\* ... or by the coroutine c; starting a live one is just a yield().
yield_and_start(c, new) ==
  /\ Running(c) /\ pc[c] = "app"
  /\ ~is_live(new) /\ MayStart(new)
  /\ prepare(new)
  /\ exiting' = [exiting EXCEPT ![new] = FALSE]
  /\ ready2run' = ll_push_back(ready2run, new)
  /\ cpu' = "yield"
  /\ UNCHANGED <<waiting4timer, timer, wakeuptime, irq, other, armed, now>>

yield(c) ==
  /\ Running(c) /\ pc[c] = "app"
  /\ cpu' = "yield"
  /\ UNCHANGED <<lists, timer, sleep, signals, code, sp, exiting, irq, now>>

yield_and_exit(c) ==
  /\ Running(c) /\ pc[c] = "app"
  /\ exiting' = [exiting EXCEPT ![c] = TRUE]
  /\ cpu' = "yield"
  /\ UNCHANGED <<lists, timer, sleep, signals, code, sp, irq, now>>

fall_asleep_but_early_wakeup_forgotten(c, until) ==
  /\ sleepcount' = [sleepcount EXCEPT ![c] = 1]
  /\ wakeuptime' = [wakeuptime EXCEPT ![c] = until]
  /\ cpu' = "yield"
  /\ UNCHANGED <<lists, timer, signals, other, armed, sp, exiting, irq, now>>

fall_asleep(c, until) ==
  /\ sleepcount' = [sleepcount EXCEPT ![c] = Int8(@ + 1)]
  /\ wakeuptime' = [wakeuptime EXCEPT ![c] = until]
  /\ cpu' = "yield"
  /\ UNCHANGED <<lists, timer, signals, other, armed, sp, exiting, irq, now>>

yield_and_wait4time(c, until) ==
  /\ Running(c) /\ pc[c] = "app"
  /\ fall_asleep(c, until)
  /\ UNCHANGED pc

\* The coroutine starts the hardware whose interrupt will call wakeup(c) ...
arm(c) ==
  /\ Running(c) /\ pc[c] = "app"
  /\ armed' = [armed EXCEPT ![c] = TRUE]
  /\ pc' = [pc EXCEPT ![c] = "armed"]
  /\ UNCHANGED <<lists, timer, sleep, signals, other, sp, exiting, cpu, irq,
                 now>>

\* ... and waits for it; or it waits as the inner loop of wait4signal does.
yield_and_wait4wakeup(c) ==
  /\ Running(c) /\ pc[c] \in {"armed", "chained"}
  /\ fall_asleep(c, at_the_end_of_time)
  /\ pc' = [pc EXCEPT ![c] = IF @ = "armed" THEN "app" ELSE "wait"]

\* yield_and_wait4signal(): entering it,
wait4signal_enter(c, w) ==
  /\ Running(c) /\ pc[c] = "app"
  /\ MayWait(c, w)
  /\ waitchain[w] = NULL
  /\ pc' = [pc EXCEPT ![c] = "wait"]
  /\ other' = [other EXCEPT ![c] = w]
  /\ UNCHANGED <<lists, timer, sleep, signals, armed, sp, exiting, cpu, irq,
                 now>>

\* consuming a signal and returning,
wait4signal_take(c) ==
  /\ Running(c) /\ pc[c] = "wait"
  /\ semaphore[other[c]] > 0
  /\ semaphore' = [semaphore EXCEPT ![other[c]] = Int8(@ - 1)]
  /\ pc' = [pc EXCEPT ![c] = "app"]
  /\ other' = [other EXCEPT ![c] = NULL]
  /\ UNCHANGED <<lists, timer, sleep, waitchain, armed, sp, exiting, cpu, irq,
                 now>>

\* and registering for one, on the way to yield_and_wait4wakeup().
wait4signal_chain(c) ==
  /\ Running(c) /\ pc[c] = "wait"
  /\ semaphore[other[c]] <= 0
  /\ waitchain' = [waitchain EXCEPT ![other[c]] = c]
  /\ pc' = [pc EXCEPT ![c] = "chained"]
  /\ UNCHANGED <<lists, timer, sleep, semaphore, other, armed, sp, exiting,
                 cpu, irq, now>>

\* yield_and_check4signal(): the yield() first,
yield_and_check4signal(c, w) ==
  /\ Running(c) /\ pc[c] = "app"
  /\ w # c /\ Askable(w)
  /\ pc' = [pc EXCEPT ![c] = "poll"]
  /\ other' = [other EXCEPT ![c] = w]
  /\ cpu' = "yield"
  /\ UNCHANGED <<lists, timer, sleep, signals, armed, sp, exiting, irq, now>>

\* then the look at the semaphore.
check4signal_done(c) ==
  /\ Running(c) /\ pc[c] = "poll"
  /\ semaphore' = [semaphore EXCEPT
                     ![other[c]] = IF @ > 0 THEN Int8(@ - 1) ELSE @]
  /\ pc' = [pc EXCEPT ![c] = "app"]
  /\ other' = [other EXCEPT ![c] = NULL]
  /\ UNCHANGED <<lists, timer, sleep, waitchain, armed, sp, exiting, cpu, irq,
                 now>>
-----------------------------------------------------------------------------
(* Calls that interrupt handlers may make, at any moment the lock is free. *)

signal_but_chain_kept(w) ==
  /\ LockFree
  /\ semaphore[w] < SemBound
  /\ semaphore' = [semaphore EXCEPT ![w] = Int8(@ + 1)]
  /\ IF waitchain[w] # NULL
     THEN wakeup_locked(waitchain[w], ready2run)
     ELSE UNCHANGED <<lists, sleep>>
  /\ UNCHANGED <<timer, waitchain, code, sp, exiting, cpu, irq, now>>

signal_but_nobody_woken(w) ==
  /\ LockFree
  /\ semaphore[w] < SemBound
  /\ semaphore' = [semaphore EXCEPT ![w] = Int8(@ + 1)]
  /\ waitchain' = [waitchain EXCEPT ![w] = NULL]
  /\ UNCHANGED <<lists, timer, sleep, code, sp, exiting, cpu, irq, now>>

\* signal(): called by a coroutine or by an interrupt handler.
signal(w) ==
  /\ LockFree
  /\ semaphore[w] < SemBound
  /\ semaphore' = [semaphore EXCEPT ![w] = Int8(@ + 1)]
  /\ IF waitchain[w] # NULL
     THEN /\ wakeup_locked(waitchain[w], ready2run)
          /\ waitchain' = [waitchain EXCEPT ![w] = NULL]
     ELSE UNCHANGED <<lists, sleep, waitchain>>
  /\ UNCHANGED <<timer, code, sp, exiting, cpu, irq, now>>

\* wakeup() by the interrupt of the hardware that c started.
wakeup(c) ==
  /\ LockFree /\ armed[c]
  /\ armed' = [armed EXCEPT ![c] = FALSE]
  /\ wakeup_locked(c, ready2run)
  /\ UNCHANGED <<timer, signals, pc, other, sp, exiting, cpu, irq, now>>

timeouthandler_but_not_rearmed(a) ==
  /\ LockFree
  /\ a \in alarms /\ a.time <= now
  /\ alarms' = alarms \ {a}
  /\ wakeup_locked(a.coro, ready2run)
  /\ irq' = TRUE
  /\ UNCHANGED <<soonesttime2wake, soonestalarmid, signals, code, sp, exiting,
                 cpu, now>>

\* The alarm interrupt: wakes its coroutine, then goes on to prime the timer.
timeouthandler(a) ==
  /\ LockFree
  /\ a \in alarms /\ a.time <= now
  /\ alarms' = alarms \ {a}
  /\ wakeup_locked(a.coro, ready2run)
  /\ soonesttime2wake' = at_the_end_of_time
  /\ irq' = TRUE
  /\ UNCHANGED <<soonestalarmid, signals, code, sp, exiting, cpu, now>>
-----------------------------------------------------------------------------
(* prime_scheduler_timer_locked(), one step per turn of its loop, and what *)
(* its caller does when it returns.                                        *)

Priming == cpu = "sched" \/ irq

MustPrime_but_at_the_end_of_time_too ==
  /\ waiting4timer # <<>>
  /\ wakeuptime[ll_peek_head(waiting4timer)] <= soonesttime2wake

MustPrime ==
  /\ waiting4timer # <<>>
  /\ wakeuptime[ll_peek_head(waiting4timer)] < soonesttime2wake

\* The timer is set: timeouthandler() returns, and schedule_next() switches
\* to the head of the run queue or waits for there to be one.
Primed ==
  IF irq THEN irq' = FALSE /\ UNCHANGED cpu
  ELSE /\ cpu' = IF ready2run = <<>> THEN "idle" ELSE "coro"
       /\ UNCHANGED irq

prime_expired_but_still_asleep ==
  LET c == ll_peek_head(waiting4timer) IN
  /\ Priming /\ MustPrime
  /\ wakeuptime[c] <= now
  /\ alarms' = alarms \ {soonestalarmid}
  /\ soonestalarmid' = NULL
  /\ soonesttime2wake' = at_the_end_of_time
  /\ waiting4timer' = ll_pop_front(waiting4timer)
  /\ ready2run' = ll_push_back(ready2run, c)
  /\ UNCHANGED <<sleep, signals, code, sp, exiting, cpu, irq, now>>

prime_expired_but_in_front ==
  LET c == ll_peek_head(waiting4timer) IN
  /\ Priming /\ MustPrime
  /\ wakeuptime[c] <= now
  /\ alarms' = alarms \ {soonestalarmid}
  /\ soonestalarmid' = NULL
  /\ soonesttime2wake' = at_the_end_of_time
  /\ waiting4timer' = ll_pop_front(waiting4timer)
  /\ ready2run' = ll_push_front(ready2run, c)
  /\ sleepcount' = [sleepcount EXCEPT ![c] = Int8(@ - 1)]
  /\ UNCHANGED <<wakeuptime, signals, code, sp, exiting, cpu, irq, now>>

prime_expired ==
  LET c == ll_peek_head(waiting4timer) IN
  /\ Priming /\ MustPrime
  /\ wakeuptime[c] <= now
  /\ alarms' = alarms \ {soonestalarmid}
  /\ soonestalarmid' = NULL
  /\ soonesttime2wake' = at_the_end_of_time
  /\ waiting4timer' = ll_pop_front(waiting4timer)
  /\ ready2run' = ll_push_back(ready2run, c)
  /\ sleepcount' = [sleepcount EXCEPT ![c] = Int8(@ - 1)]
  /\ UNCHANGED <<wakeuptime, signals, code, sp, exiting, cpu, irq, now>>

prime_alarm_but_nothing_cancelled ==
  LET c == ll_peek_head(waiting4timer)
      a == [coro |-> c, time |-> wakeuptime[c]] IN
  /\ Priming /\ MustPrime
  /\ wakeuptime[c] > now
  /\ alarms' = alarms \cup {a}
  /\ soonestalarmid' = a
  /\ soonesttime2wake' = wakeuptime[c]
  /\ Primed
  /\ UNCHANGED <<lists, sleep, signals, code, sp, exiting, now>>

prime_alarm ==
  LET c == ll_peek_head(waiting4timer)
      a == [coro |-> c, time |-> wakeuptime[c]] IN
  /\ Priming /\ MustPrime
  /\ wakeuptime[c] > now
  /\ alarms' = (alarms \ {soonestalarmid}) \cup {a}
  /\ soonestalarmid' = a
  /\ soonesttime2wake' = wakeuptime[c]
  /\ Primed
  /\ UNCHANGED <<lists, sleep, signals, code, sp, exiting, now>>

prime_nothing ==
  /\ Priming /\ ~MustPrime
  /\ Primed
  /\ UNCHANGED <<lists, timer, sleep, signals, code, sp, exiting, now>>
-----------------------------------------------------------------------------
(* schedule_next() up to the call of prime_scheduler_timer_locked(): the   *)
(* head of the run queue exits, falls asleep or goes to the back.          *)

schedule_next_exit_but_chain_kept ==
  LET c == Current
      rest == ll_pop_front(ready2run) IN
  /\ cpu = "yield" /\ ~irq
  /\ exiting[c] /\ sleepcount[c] <= 0
  /\ sp' = [sp EXCEPT ![c] = "exited"]
  /\ semaphore' = [semaphore EXCEPT ![c] = INT8_MAX]
  /\ IF waitchain[c] # NULL
     THEN wakeup_locked(waitchain[c], rest)
     ELSE ready2run' = rest /\ UNCHANGED <<waiting4timer, sleep>>
  /\ cpu' = "sched"
  /\ UNCHANGED <<timer, waitchain, code, exiting, irq, now>>

schedule_next_exit_but_nobody_woken ==
  LET c == Current IN
  /\ cpu = "yield" /\ ~irq
  /\ exiting[c] /\ sleepcount[c] <= 0
  /\ sp' = [sp EXCEPT ![c] = "exited"]
  /\ semaphore' = [semaphore EXCEPT ![c] = INT8_MAX]
  /\ ready2run' = ll_pop_front(ready2run)
  /\ cpu' = "sched"
  /\ UNCHANGED <<waiting4timer, sleep, waitchain, timer, code, exiting, irq,
                 now>>

schedule_next_exit ==
  LET c == Current
      rest == ll_pop_front(ready2run) IN
  /\ cpu = "yield" /\ ~irq
  /\ exiting[c] /\ sleepcount[c] <= 0     \* assert(!is_sleeping)
  /\ sp' = [sp EXCEPT ![c] = "exited"]
  /\ semaphore' = [semaphore EXCEPT ![c] = INT8_MAX]
  /\ IF waitchain[c] # NULL
     THEN /\ wakeup_locked(waitchain[c], rest)
          /\ waitchain' = [waitchain EXCEPT ![c] = NULL]
     ELSE /\ ready2run' = rest
          /\ UNCHANGED <<waiting4timer, sleep, waitchain>>
  /\ cpu' = "sched"
  /\ UNCHANGED <<timer, code, exiting, irq, now>>

schedule_next_sleep_but_unsorted ==
  LET c == Current IN
  /\ cpu = "yield" /\ ~irq
  /\ ~exiting[c] /\ sleepcount[c] > 0
  /\ ready2run' = ll_pop_front(ready2run)
  /\ waiting4timer' = ll_push_back(waiting4timer, c)
  /\ cpu' = "sched"
  /\ UNCHANGED <<timer, sleep, signals, code, sp, exiting, irq, now>>

schedule_next_sleep ==
  LET c == Current IN
  /\ cpu = "yield" /\ ~irq
  /\ ~exiting[c] /\ sleepcount[c] > 0
  /\ ready2run' = ll_pop_front(ready2run)
  /\ waiting4timer' = IF wakeuptime[c] = at_the_end_of_time
                      THEN ll_push_back(waiting4timer, c)
                      ELSE ll_sorted_insert(waiting4timer, c, wakeuptime)
  /\ cpu' = "sched"
  /\ UNCHANGED <<timer, sleep, signals, code, sp, exiting, irq, now>>

schedule_next_resched_but_in_front ==
  LET c == Current IN
  /\ cpu = "yield" /\ ~irq
  /\ ~exiting[c] /\ sleepcount[c] <= 0
  /\ ready2run' = ll_push_front(ll_pop_front(ready2run), c)
  /\ cpu' = "sched"
  /\ UNCHANGED <<waiting4timer, timer, sleep, signals, code, sp, exiting, irq,
                 now>>

schedule_next_resched ==
  LET c == Current IN
  /\ cpu = "yield" /\ ~irq
  /\ ~exiting[c] /\ sleepcount[c] <= 0
  /\ ready2run' = ll_push_back(ll_pop_front(ready2run), c)
  /\ cpu' = "sched"
  /\ UNCHANGED <<waiting4timer, timer, sleep, signals, code, sp, exiting, irq,
                 now>>

\* The end of schedule_next() once an interrupt made a coroutine ready.
idle_wakes ==
  /\ cpu = "idle" /\ ~irq
  /\ ready2run # <<>>
  /\ cpu' = "coro"
  /\ UNCHANGED <<lists, timer, sleep, signals, code, sp, exiting, irq, now>>

Tick ==
  /\ now < MaxTime
  /\ now' = now + 1
  /\ UNCHANGED <<lists, timer, sleep, signals, code, sp, exiting, cpu, irq>>
-----------------------------------------------------------------------------
GivesUpCpu(c) ==
  \/ yield(c)
  \/ yield_and_exit(c)
  \/ \E until \in Time : yield_and_wait4time(c, until)
  \/ \E new \in Coro : yield_and_start(c, new)
  \/ \E w \in Coro \cup Event : yield_and_check4signal(c, w)

\* Steps inside a call that c has made already.
Proceeds(c) ==
  \/ yield_and_wait4wakeup(c)
  \/ wait4signal_take(c)
  \/ wait4signal_chain(c)
  \/ check4signal_done(c)

Schedule ==
  \/ schedule_next_exit
  \/ schedule_next_sleep
  \/ schedule_next_resched
  \/ idle_wakes

Prime ==
  \/ prime_expired
  \/ prime_alarm
  \/ prime_nothing

Next ==
  \/ yield_and_start_first
  \/ \E c \in Coro :
       \/ GivesUpCpu(c)
       \/ Proceeds(c)
       \/ arm(c)
       \/ \E w \in Coro \cup Event : wait4signal_enter(c, w)
       \/ wakeup(c)
  \/ \E w \in Event : signal(w)
  \/ \E a \in alarms : timeouthandler(a)
  \/ Schedule
  \/ Prime
  \/ Tick

Spec == Init /\ [][Next]_vars

\* Coroutines are cooperative: each one gives up the cpu again and again, and
\* goes on inside the calls it made.  The scheduler runs on, time passes and
\* the interrupts that are due arrive.
Fairness ==
  /\ WF_vars(yield_and_start_first)
  /\ \A c \in Coro : /\ SF_vars(GivesUpCpu(c)) /\ SF_vars(Proceeds(c))
                     /\ SF_vars(wakeup(c))
  /\ \A c \in Coro : SF_vars(\E a \in alarms : a.coro = c /\ timeouthandler(a))
  /\ SF_vars(Schedule) /\ WF_vars(Prime) /\ WF_vars(Tick)

LiveSpec == Spec /\ Fairness
-----------------------------------------------------------------------------
TypeOK ==
  /\ ready2run \in Seq(Header) /\ waiting4timer \in Seq(Coro)
  /\ soonestalarmid \in Alarm \cup {NULL}
  /\ soonesttime2wake \in Time \cup {at_the_end_of_time}
  /\ sp \in [Header -> {"null", "stack", "exited"}]
  /\ sleepcount \in [Header -> -INT8_MAX - 1 .. INT8_MAX]
  /\ wakeuptime \in [Header -> Time \cup {at_the_end_of_time}]
  /\ exiting \in [Header -> BOOLEAN]
  /\ waitchain \in [Waitable -> Coro \cup {NULL}]
  /\ semaphore \in [Waitable -> -INT8_MAX - 1 .. INT8_MAX]
  /\ cpu \in {"boot", "coro", "yield", "sched", "idle"} /\ irq \in BOOLEAN
  /\ pc \in [Coro -> {"app", "armed", "wait", "chained", "poll"}]
  /\ other \in [Coro -> Coro \cup Event \cup {NULL}]
  /\ now \in Time /\ alarms \subseteq Alarm /\ armed \in [Coro -> BOOLEAN]

\* No coroutine is lost or queued twice, whatever interrupts do: the entries
\* of the two lists are distinct, and they are the live coroutines (and
\* initialisercoro until it has been switched away from).
Scheduled ==
  {c \in Coro : is_live(c)} \cup
  {h \in {initialisercoro} : cpu # "boot" /\ sp[h] = "null"}

NothingLost ==
  /\ IsInjective(ready2run) /\ IsInjective(waiting4timer)
  /\ ToSet(ready2run) \cap ToSet(waiting4timer) = {}
  /\ ToSet(ready2run) \cup ToSet(waiting4timer) = Scheduled

\* A coroutine that sleeps without a timeout can still be woken: hardware is
\* going to call wakeup() for it, or the Waitable it waits for has it chained.
\* yield_and_wait4signal() and wakeup_locked() before schedule_next().
NoLostWakeup ==
  \A c \in ToSet(waiting4timer) :
    wakeuptime[c] = at_the_end_of_time =>
      armed[c] \/ (pc[c] = "wait" /\ waitchain[other[c]] = c)

\* Every coroutine that sleeps until a time has an alarm pending that fires no
\* later, whenever the scheduler's lock is free: timeouthandler() and
\* schedule_next() leave the timer primed.
SleeperHasAlarm ==
  LockFree =>
    \A c \in ToSet(waiting4timer) :
      wakeuptime[c] \in Time => \E a \in alarms : a.time <= wakeuptime[c]

\* A pending alarm is the one of soonestalarmid and belongs to a coroutine
\* that sleeps until just that time: none is left over from an earlier sleep.
NoStrayAlarm ==
  \A a \in alarms :
    /\ a = soonestalarmid
    /\ a.coro \in ToSet(waiting4timer)
    /\ a.time = wakeuptime[a.coro]

\* waiting4timer is sorted by wakeuptime, so its head is the next to time out.
TimerSorted ==
  IsSorted(waiting4timer, LAMBDA c, d : wakeuptime[c] <= wakeuptime[d])

\* What schedule_next() switches to has a stack to switch to, has not exited
\* and is not asleep (assert(upnext->sleepcount <= 0)); and what exits is not
\* asleep either (assert(!is_sleeping)).
RunningIsRunnable ==
  /\ cpu = "coro" => /\ ready2run # <<>> /\ is_live(Current)
                     /\ ~exiting[Current]
                     /\ sleepcount[Current] <= 0
  /\ cpu = "yield" /\ exiting[Current] => sleepcount[Current] <= 0

\* The coroutine whose alarm fires is the head of waiting4timer, as
\* timeouthandler() asserts.
FiredIsHead ==
  [][\A a \in alarms :
       timeouthandler(a) => a.coro = ll_peek_head(waiting4timer)]_vars

\* Whoever wakeup_locked() can be called for is live, as it asserts.
TargetsLive ==
  \A c \in Coro :
    armed[c] \/ (\E w \in Waitable : waitchain[w] = c)
             \/ (\E a \in alarms : a.coro = c) => is_live(c)

\* Nobody is chained to a Waitable that is signalled already, as
\* yield_and_wait4signal() asserts.
SignalledHasNoWaiter ==
  \A w \in Waitable : semaphore[w] > 0 => waitchain[w] = NULL

\* Multitasking is cooperative: while a coroutine executes, interrupts may
\* queue others but the head of the run queue stays, until it yields.
NeverPreempted ==
  [][/\ cpu \in {"coro", "yield"} /\ cpu' # "sched" => Current' = Current
     /\ cpu = "coro" => cpu' \in {"coro", "yield"}]_vars

\* A coroutine that queues behind others in the run queue gets to run.
ReadyRuns ==
  \A c \in Coro :
    c \in ToSet(ready2run) /\ c # Current ~> cpu = "coro" /\ Current = c

\* A coroutine that sleeps until a time gets to run after it.
TimedWakes ==
  \A c \in Coro :
    c \in ToSet(waiting4timer) /\ wakeuptime[c] \in Time
      ~> cpu = "coro" /\ Current = c

\* A coroutine that waits for hardware returns from yield_and_wait4wakeup(),
\* also when the interrupt comes before it is asleep.
ArmedWakes ==
  \A c \in Coro :
    pc[c] = "armed" ~> cpu = "coro" /\ Current = c /\ pc[c] = "app"

\* A coroutine that waits for a signalled Waitable returns, or somebody else
\* has taken the signal.
SignalledWakes ==
  \A c \in Coro : \A w \in Event :
    Awaits(c, w) /\ semaphore[w] > 0 ~> ~Awaits(c, w) \/ semaphore[w] <= 0

\* "Yields execution until other has exited": a wait for a coroutine returns
\* once that has exited.
ExitWakes ==
  \A c \in Coro : \A d \in Coro \ {c} :
    Awaits(c, d) /\ exiting[d] /\ is_live(d) ~> ~Awaits(c, d)
=============================================================================
