# A specification of picoro

picoro is a library of cooperative coroutines for the Raspberry Pi Pico, with an
I2C driver and a Wi-Fi driver built on it. Nothing in it is preemptive, but
interrupt handlers run between any two instructions of the coroutines, call
back into the scheduler, and meet it halfway through a call. This directory
holds TLA+ modules of that code, what TLC checks of them and what TLAPS proves.

Line numbers are those of `src/`.

## 1. The system

| component | source | state | operations |
|---|---|---|---|
| scheduler | `coroutine.cpp`, `coroutine.h` | `ready2run` (its head is the running coroutine), `waiting4timer`, the alarm of the soonest timeout, per coroutine `sp`, `sleepcount`, `wakeuptime`, `flags`, per Waitable `waitchain` and `semaphore` | `yield_and_start`, `yield`, `yield_and_exit`, `yield_and_wait4time`, `yield_and_wait4wakeup`, `yield_and_wait4signal`, `yield_and_check4signal`; from interrupts too: `wakeup`, `signal`, and the alarm's `timeouthandler` |
| linked list | `linkedlist.h` | `head` and `tail`, one intrusive link per entry | push, pop, `ll_remove`, `ll_sorted_insert` |
| ring buffer | `ringbuffer.h` | `begin`, `end` | push, peek, pop, full, empty |
| I2C driver | `i2c.cpp`, `i2c.h` | per controller: a ring buffer of commands with a Waitable each, flags shared with the interrupt handlers, two DMA channels, the interrupt mask | `queue_cmds`, `stop_i2c_driver_async`, the driver coroutine, `i2chandler`, `dma_irq_handler` |
| Wi-Fi driver | `picowwifi.cpp` | a ring buffer of commands, the state of the one connection in progress | connect, disconnect, UDP, TCP, HTTP HEAD, NTP, and the callbacks of lwIP |
| stack guards | `coroutine.cpp`, `mpu.cpp` | eight MPU regions | install, uninstall |
| LED strip | `sk6812.cpp` | one coroutine, one DMA channel | update |
| charge hysteresis | `chargehysteresis.h` | one flag | update |
| profiler | `profiler.cpp` | a list of functions with counters | link up, sample, dump |
| power saving | `usb.cpp` | none | power down |

How they interact: a driver is a coroutine that waits for its `newcmdswaitable`;
clients put a command into its ring buffer, `signal()` that Waitable, and wait
for the Waitable in their slot. Hardware tells the driver by an interrupt whose
handler calls `wakeup()`. The scheduler's own interrupt is the SDK's alarm. The
lock is a critical section, that is, interrupts are off while it is held: what
one critical section does is atomic, and everything may happen between two.

What is hard, and what makes each component correct:

- *scheduler*: wakeups that come before the sleep they are meant for, alarms
  that are stale, equal or expired, exits and restarts of coroutines somebody
  waits for. Correct means that no coroutine is lost or queued twice, no wakeup
  and no timeout is missed, none comes from an earlier sleep, and the coroutine
  that runs is never replaced under its own feet.
- *linked list*: entries have one link, so a value pushed twice destroys both
  lists. `wakeup_locked()` calls `ll_remove()` with entries that are elsewhere.
- *ring buffer and I2C driver*: abort, DMA completion and empty fifo race for
  each transfer; slots and their Waitables are used again; the driver starts
  and stops. Correct means that every client that waits is woken, when its own
  command is through, with the right success, and the hardware is at rest.
- *Wi-Fi driver*: callbacks after a timeout or an error, in any order and number
  per poll, that all step one counter `seq`; a queue that one command ends, and a
  driver that any later call starts again with what is left in it. Correct means
  that success is only reported when it is true, results are those of this
  command, nothing in lwIP refers to a stack frame that is gone, every command
  ends, and no command is overlooked.
- *stack guards*: regions are few, and must be given back.
- *LED strip*: one coroutine and one Waitable serve all updates.

`PROJECT.json` lists the hazards one by one with the properties that cover them.

## 2. The modules

| module | models | notes |
|---|---|---|
| `ListOps` | `linkedlist.h` as operators on sequences | used by all that follow |
| `ListOpsProofs` | | lemmas: what these operators do to the set of entries, to distinctness and to order |
| `LinkedList` | `linkedlist.h` as pointers | shows that `ListOps` is what the pointers do |
| `LinkedListProofs` | | its inductive invariant and theorems |
| `Scheduler` | `coroutine.cpp` | the core |
| `SchedulerInv` | | its inductive invariant |
| `SchedulerProofs` | | its theorems about the two lists, the timer queue, the alarm, and the order of the run queue |
| `WaitingProofs` | | those about waiting, and the refinement |
| `MCScheduler` | | instance with symmetry |
| `Kernel` | `coroutine.cpp` for drivers and clients: each call one step, no timers | the interface between the two |
| `RingBuffer` | `ringbuffer.h` | |
| `KernelProofs` | | lemmas on the calls of `Kernel`, the order of its run queue, and the slots of `RingBuffer` |
| `I2CDriver` | `i2c.cpp`, with its clients and its hardware | extends `Kernel` and `RingBuffer` |
| `MCI2CDriver` | | instance with symmetry |
| `I2CDriverProofs` | | its inductive invariant and theorems |
| `Waiting` | what the waiting calls of `coroutine.h` promise | no queues, no alarm: look and fall asleep in one step |
| `SchedulerRefinement` | | `Scheduler` implements `Waiting` |
| `WifiConnection` | the handlers of `picowwifi.cpp` and their lwIP callbacks | one command after the other |
| `WifiConnectionProofs` | | its inductive invariant and theorems, and those on `NtpTime` |
| `Devices` | the Wi-Fi command queue, `sk6812.cpp`, the stack guards | extends `Kernel` and `RingBuffer` |
| `DevicesProofs` | | its inductive invariant and theorems, and that on `ChargeHysteresis` |
| `MCDrivers` | | `WifiConnection` and `Devices` in one run |
| `NtpTime` | the arithmetic of `getntp_recv()` | operators only |
| `ChargeHysteresis` | `chargehysteresis.h` | |

Definitions keep the names of the functions and variables they model. A
definition `NAME_but_...` is not part of a model: it is `NAME` with a plausible
mistake; each property of a passing run finds one of them.

### Scheduler

A step of the model is a critical section, together with the unlocked writes
before it that no interrupt can see. `cpu` says where the one thread of control
is:

    boot    before the first yield_and_start()
    coro    the head of ready2run executes
    yield   it has called yield() and is on its way into schedule_next()
    sched   schedule_next() holds the lock and primes the timer
    idle    schedule_next() waits for an event with the lock released

`irq` says that `timeouthandler()` holds the lock. `prime_scheduler_timer_locked()`
is one action per turn of its loop (`prime_expired`, `prime_alarm`,
`prime_nothing`), so that time may pass between a turn and the next: the alarm
may turn out to be too late at any of them. `signal`, `wakeup` and
`timeouthandler` may happen whenever the lock is free, in particular between
the two halves of a call: after `sleepcount` is counted up and before the
coroutine is on the list, or between registering in `waitchain` and sleeping
(`pc` is "chained").

The fields are modelled as they are: `sleepcount` and `semaphore` as `int8_t`
that wrap, `soonestalarmid` as the alarm that was set last, stale or not,
`initialisercoro` as the entry that receives the first stack pointer and falls
off the queue. `sp` is reduced to what `is_live()` tells apart.

The coroutines' code is any sequence of calls that keeps the contract of
`coroutine.h`: one waiter per Waitable, no wait for oneself, no wait for a
coroutine that has never been started, no start of an exited coroutine while
somebody waits for it, `wakeup()` only for hardware that the coroutine itself
started. `Lax` names the parts of it that a configuration drops. `signal()` of
an `Event` comes from anywhere, at any time.

### LinkedList

The pointers `head`, `tail` and `next`, with an auxiliary variable `content`,
the sequence each list stands for, which is changed by the operators of
`ListOps`. The loops of `ll_remove` and `ll_sorted_insert` take a step per
turn. Entries are pushed when they are in no list; `ll_remove` is called with
any entry and any list; keys change while an entry is listed, as
`wakeup_locked()` does it. `Builds` has the debug build, which overwrites the
link of a removed entry, and the release build, which leaves it.

### Kernel, RingBuffer and I2CDriver

`Kernel` is what the scheduler promises to coroutines that use no timer:
`ready2run`, `waitchain` and `semaphore`, with the calls as single steps. It
has the weaknesses of the code, too: one coroutine per wait chain, the last one
in. `I2CDriver` adds the driver coroutine (`drv`: at the top of its loop, in a
transfer, waiting for commands), the clients (`pc`, `slot`), the interrupt
handlers, and the hardware as the code relies on it: two DMA channels that
complete in any order, a fifo that drains, an abort at any time while there is
something to send. `dma_channel_abort()` may leave a completion interrupt
behind. An interrupt that is pending is taken before the coroutines go on; that
the scheduler survives one in the middle of its calls is `Scheduler`'s matter.

A client keeps one command outstanding. What it may do beside that is in `Lax`:
queue a command before the driver has had its first turn ("rush"), do something
else before it waits ("dawdle"), or never wait ("forget").
`stop_i2c_driver_async()` is called once per life of the driver, and not while
a client is inside `queue_cmds()`. The commands themselves, addresses, and
result bytes are left out.

### Waiting and SchedulerRefinement

`Waiting` has no run queue, no timer queue, no alarm and no halves of calls. A
coroutine looks whether its event is there and falls asleep in one step, and it
sleeps for one thing: a signal of a Waitable, a time, or its hardware.
`SchedulerRefinement` maps who is on `waiting4timer`, and for what, to `asleep`;
a coroutine that has registered and not yet slept counts as awake. A lost
wakeup, a wakeup by the wrong event, a timeout before its time or a stale alarm
would each be a step of `Scheduler` that `Waiting` does not have.

### WifiConnection

`wififunc()` carries out one command after the other. A handler is a loop: poll
lwIP, which may call back any number of times, then do what `seq` says. An action
of `Handler` is the part after the poll; an action of `Callback` is one callback.
They interleave freely, which is what "poll, then switch" amounts to. `seq` is a
number, because the callbacks do `seq++` on whatever it is: `RESOLVE` to `CLOSE`
are 11 to 18 and `ERROR` is -1, in the order of the enumerations, which start at
`__LINE__`. A step out of `ERROR` is therefore none of the states of the switch,
as in the code, where the release build, whose assertions are gone, goes round
(`spin`).

`pcb`, `sock`, `dns`, `receiving` and `unacked` are what lwIP holds, `acked`,
`answered` and `hungup` record what it has told. Payloads are counted in
bytes, received ones with how many are in the first pbuf; an HTTP date is there or is
not, an NTP answer relays our timestamp or it does not, before or after the timeout. What lwIP may do is external: a lookup succeeds, fails or
is pending; `tcp_connect()` may fail; a connection is refused, reset or closed at
any time; acknowledgements and data come in portions; `tcp_write()` may fail,
and then nothing is ever acknowledged. `HTTPHEAD` starts with any `sendbufleft`,
since it never sets it.

### Devices

Clients call the Wi-Fi driver (`call_wifi`: started if it is not live, then
`put_wifi`: a command and a signal, then `await_wifi`), one of them also updates
the LED strip. `wififunc()` is `wifi`: at the top of its loop, in a handler, which
sleeps up to `Turns` times, waiting for `newcmdswaitable`, or leaving after a
DISCONNECT. What it leaves in the ring buffer and in the semaphore the next
driver finds. `mpu` says whose stack each region guards; a coroutine that starts
takes the first free one, if there is one. The code finds a region again by the
address of the 256 bytes it covers (`coroutine.cpp:309-333`); a value of `mpu` stands
for that block, and no two stacks that live share one, as none is shorter.
`initialisercoro` exits through the same code before the first client runs: whichever
region that has freed, `DevicesInit` leaves it open. The strip shows `pixels` when the DMA
channel is done; that it is done within the time `sk6812func()` sleeps, 1 ms more
than it takes, is an assumption.

### NtpTime and ChargeHysteresis

`NtpTime` has the shifts, the subtraction in a `uint64_t` and the table of rounded
bits as they are. `ChargeHysteresis` is the switch, with the value at its last
turn as an auxiliary variable.

## 3. What is checked

| run | instance | states | result |
|---|---|---|---|
| `Scheduler_safety` | 3 coroutines, 1 event, times 0..2 | 1,480,000 | passes |
| `Scheduler_liveness` | 2 coroutines, 1 event, times 0..1 | 12,000 | passes |
| `Scheduler_assert` | 2 coroutines, times 0..1 | | violation |
| `Scheduler_restart` | 3 coroutines, no times | | violation |
| `LinkedList` | 3 entries, 2 lists, 2 keys, both builds | 21,000 | passes |
| `I2CDriver` | 2 clients, ring buffer of 3 | 81,000 | passes |
| `I2CDriver_lax` | 2 clients, ring buffer of 2, all of `Lax` | 285,000 | passes |
| `I2CDriver_rush` | 2 clients, "rush" | | violation |
| `I2CDriver_late_wait` | 2 clients, "dawdle" | | violation |
| `MCDrivers` | all commands, buffers of 2, timeouts of 1 to 4 turns; 2 clients, ring buffer of 3, 2 regions, semaphores up to 4 | 179,000 | passes |
| `WifiConnection_chain` | as `MCDrivers` | | violation |
| `WifiConnection_late` | as `MCDrivers` | | violation |

**Scheduler_safety.** `NothingLost`: live coroutines are in exactly one list,
once. `NoLostWakeup`: who sleeps without a timeout can still be woken.
`SleeperHasAlarm`: who sleeps until a time has an alarm that fires no later.
`NoStrayAlarm`: a pending alarm belongs to the sleep it was set for.
`TimerSorted`, `RunningIsRunnable`, `TargetsLive`, `SignalledHasNoWaiter`: what
the assertions of the code say in part. `NeverPreempted`: the head of the run
queue stays while it executes. `KeepsPromises`: the refinement of `Waiting`.
**Scheduler_liveness.** `ReadyRuns`, `TimedWakes`,
`ArmedWakes`, `SignalledWakes`, `ExitWakes`: everybody who has a reason to run
does.

**LinkedList.** `Represents`: the pointers stand for `content`; `ScanInOrder`:
a scan stays in its list, with `p` just before `i`, and has passed nothing it
looks for; `ScansEnd`: its loop ends.

**I2CDriver.** With clients that wait for a command at once: `NobodyForgotten`
(whoever sleeps is going to be woken, nobody is queued twice),
`WaitMeansDone` (a wait does not return before its command is through),
`NewCmdThere` (the assertion of the driver), `Served`, `Stops`.
**I2CDriver_lax.** Whatever clients do: `SuccessIsTrue`, `TransferEnds` (a
driver in a transfer has something to be woken by), `HardwareQuiet` (a transfer
leaves nothing behind for the next). Deadlock is not checked there, because the
ring buffer gets full, and the client that finds it so stops at the
`__breakpoint()` in `queue_cmds()` (`i2c.cpp:353`); nor in the runs of `Scheduler`,
where all coroutines may exit; nor in `MCDrivers`, where after the wrap described
below driver and clients all sleep.

**MCDrivers** is two checks in one: a behaviour is one of `WifiConnection`, with
13,400 states, or one of `Devices`, with the other at rest; the two share no
state, as a handler touches none of the queue. `SuccessMeansSent`: success of
`send_tcp()` means that all of the request was acknowledged and the response is
complete, although `seq` only counts callbacks. `NothingLeft`: a handler leaves
nothing in lwIP that points to its stack; for the lookup of a name this rests on the
resolver giving up first, for sockets on the handlers alone. `CommandsEnd`: CONNECT, SENDUDP and GETNTP end
whatever the network does. `NothingUnseen`: a driver that waits has a signal for
every command in the ring buffer, also one that was restarted, until the signals
that its lives left behind may have wrapped (`InRange`). `CommandDone`: no
wait ends before its command, also one that outlived its driver. `UpdateShown`:
an update that is over is on the strip. `GuardsOfTheLive`: regions follow the live
coroutines and none is used up. `ServedUnlessOff`: clients are served unless
somebody disconnects, or the signals do not count any more. `UpdatesEnd`: a painter
that waits for an update goes on. TLC goes through the wrap, as `INT8_MAX` is
4 there: all but `NothingUnseen` and `ServedUnlessOff`, which say so, hold after it
too.

### Disagreements found

1. `Scheduler_assert`: the assertion in `timeouthandler()` (`coroutine.cpp:67`,
   with the comment "might not be guaranteed???") fails when two coroutines
   sleep until the same time: the second is inserted in front of the first,
   whose alarm stays. Release builds go on correctly: all the passing
   properties hold in spite of it.
2. `Scheduler_restart`: the wait for an exit (`coroutine.h:121`) may miss it
   when the coroutine is started again before the waiter has run, because the
   semaphore is reset (`coroutine.cpp:438`).
3. `I2CDriver_rush`: the driver's "there better be a new command!"
   (`i2c.cpp:264`) fails when a second client queues a command between `init()`
   and the driver's first turn. A debug build stops already in `rb_peek_front()`
   (`ringbuffer.h:46`), called on an empty ring buffer.
4. `I2CDriver_late_wait`: "can yield_and_wait on the return value"
   (`i2c.h:27`) is not enough: a signal that is still unconsumed in a slot is
   taken for that of the next command there.
5. `WifiConnection_late`: a callback between the timeout of `send_tcp()`
   (`picowwifi.cpp:630`) and the turn that would handle it steps `seq` from ERROR
   to 0. The release build then spins without yielding, for ever, and the debug
   build stops at `assert(false)`: against "up to some (unspecified) timeout
   expires" (`picowwifi.h:29`). SENDUDP has no such callback and ends.
6. `WifiConnection_chain`: "it will receive at most responsebufferlength and discard
   the rest" (`picowwifi.h:30`), but `tcpclient_recv_callback()` copies the first pbuf
   of a chain only (`p->len`, `picowwifi.cpp:260`) and acknowledges and frees all of
   it. lwIP hands over a chain when segments arrived out of order; `AnswerKept` then
   fails: success, with a part of the answer, and room in the buffer. With single
   pbufs (`m = n` in `recv`) TLC finds it true.

Seen while modelling, without a run of their own, since no line of the repository
says otherwise or the reason lies outside it:

- A restarted Wi-Fi driver that finds a command takes it without consuming its
  signal. One signal is left over per DISCONNECT that has a command behind it;
  when 127 are, the next one wraps the `int8_t` of `newcmdswaitable`, and the driver
  sleeps on the commands that come in. `InRange` says up to when that cannot be. With
  semaphores up to 4, and two DISCONNECTs more allowed (`INT8_MAX + 2` in `InRange`),
  TLC finds `NothingUnseen` violated after 42 steps.
- An answer to an NTP request that comes in the poll after the timeout (line 903) is
  still taken (`ntp` = "late"), though the comment there has a later one be of not
  much use. It is one poll late at most, 10 ms and what else runs meanwhile.
- `i2c.h:29` says that `queue_cmds()` "does not itself yield internally, unless
  internal ringbuffer is full". The call that starts the driver yields too, in
  `init()`, and a full ring buffer stops at a `__breakpoint()` (`i2c.cpp:353`, with a
  FIXME that doubts the wait behind it) in every build.
- HTTPHEAD without a Date header in the answer leaves `*bufferlength` as the
  caller had it, so that it cannot be told from a date of that length
  (`picowwifi.h:19`).
- A client whose command is left behind by a DISCONNECT waits until somebody
  calls the driver again (so `ServedUnlessOff` ends where it does). After a
  DISCONNECT the chip is deinitialised (`picowwifi.cpp:95`) and nothing
  initialises it again.
- `handle_httphead()` has no timeout, ignores an error of `tcp_connect()`, and
  calls `tcp_close()` before it returns, of which the comment in
  `handle_sendudptcp()` says "there is no later" (line 644). A callback in that
  pcb may come after its state is gone; `NothingLeft` excludes it therefore, and
  `begin` forgets that pcb: what such a callback overwrites is not modelled.
- `send_udp()` with a response buffer registers no receive callback, so it always
  waits until its timeout and reports failure.
- The error callback leaves `tcpsock`, which the handler then aborts although
  lwIP has freed it.
- A start of the I2C driver empties the ring buffer, also when a client that was
  signalled by the driver's last life has not run yet. A second client that
  queues a command before the driver's first turn (three clients, "rush") may
  then get that client's slot and takes the signal for its own command, which
  is not done. So 3 costs more than an assertion, and `Contract` below excludes
  it.
- The comment "i think at this point we have like 2ms rounding error already"
  (line 802): the exact bounds are -3.67 ms and +1.16 ms, by `FractionClose`.

### Bounds, and why they are enough

- `Coro`: with three, one runs, one waits and one wakes; the queues have a
  head, a middle and a tail. The theorems hold for any number.
- `MaxTime`: 2 gives an expired, a soonest and a later timeout. Time stops
  there; liveness needs no more than that it reaches the last timeout.
- `SemBound`, the unconsumed signals of an event, or of a slot nobody waits
  for: 1 is enough to be taken early; more of them differ from it only near
  127, where an `int8_t` ends.
- `ExitWaits`: how often a coroutine that has exited is waited for again. The
  semaphore then starts at 127 and the model does not count it down.
- `INT8_MAX` is the real one, 127, for the scheduler and the I2C driver. In
  `MCDrivers` it is 4: with two clients `InRange` then lasts for two DISCONNECTs,
  left over signals and queued commands mix, and TLC explores what comes after the
  wrap as well. `ended`, which counts DISCONNECTs, stops at `INT8_MAX`, when
  `InRange` is long false. The theorem has it for any width.
- `BufferLength` 2: the request is acknowledged at once or in two parts.
  `MaxRoom` 2 and `MaxAnswer` 3: the answer is shorter than the buffer, fills it or
  exceeds it. The theorems hold for any. `MaxRounds` (6000 in the code),
  `ConnectRounds` (3000) and `NtpRounds` (100) are counted in turns of the loop;
  callbacks may come before, at and after each of them. `DnsRounds` is smaller than
  `MaxRounds`, as lwIP gives up within 4 s (`picowwifi.cpp:534`) and the command
  after 60.
- `Turns` 1: the handler sleeps or does not. `Regions` 2 with one of them taken is
  one region for two coroutines, with none taken it is enough.
- `RINGBUFFER_SIZE` is 4 in the code. 3 (two commands) and 2 (one command, so
  that the ring is full most of the time) both wrap the indices.

### Fairness

- A coroutine gives up the cpu again and again and goes on inside a call it
  made (`GivesUpCpu`, `Proceeds`, strong): that is what cooperative means, and
  a coroutine that never yields is outside the contract.
- `Schedule`, `Prime`: the scheduler's own code runs on. Interrupts disable
  `Schedule` for a moment, so it is strongly fair.
- Time passes, and an alarm that is due or hardware that was started raises its
  interrupt; the SDK and the hardware see to that.
- `I2CDriver`: transfers complete or are aborted, interrupts are taken, the
  driver and the clients go on, and a client that queued a command waits for it.
  Nothing makes a client queue one, or an abort happen.
- `WifiConnection`: a handler goes on (`WF(Handler)`), as its loop does, and the
  resolver answers (`WF(domainfound)`), by a timeout of its own. No other callback
  ever has to come. lwIP runs inside `cyw43_arch_poll()` only, which is the
  configuration the code polls for.
- `Devices`: the driver, the strip and the clients go on, the DMA channel
  completes and alarms fire. Nothing makes a client call.

## 4. What is proved

`SchedulerProofs` proves, for all coroutines, events, times and bounds, and for
every `Lax`, that

    Invariance     Spec => []IInv
    TypeCorrect    Spec => []TypeOK
    Scheduling     Spec => []NothingLost
    Alarms         Spec => []NoStrayAlarm
    Switching      Spec => []RunningIsRunnable
    Targets        Spec => []TargetsLive

from `SchedulerAssumption` alone: `Main` is a coroutine, the sets of names are
disjoint, and the numbers are natural. That they hold for every `Lax` means that
no breach of the contract by waiting early or restarting destroys a list: all it
can do is leave somebody asleep.

None of these properties is inductive. `wakeup_locked()` pushes its coroutine
unless it is the head of the run queue; that this does not queue it twice rests
on where a coroutine can be when somebody may still wake it. `IInv` says so:

- `WakeableInv`: whoever is armed or chained is live and either sleeps without
  a timeout, or is the active coroutine and about to. It is never further down
  the run queue, nor asleep with a timeout.
- `SleepInv`: `sleepcount` is 1 for sleepers and 0 for those that are ready;
  only the active coroutine differs: 1 when it is about to sleep, -1 when it
  was woken before that. This is the precise sense in which the counter absorbs
  a wakeup that comes early, and why it never gets near the ends of an `int8_t`.
- `ChainInv`, `PcInv`: who is chained waits for just that Waitable, and is not
  in two waits.
- `ExitInv`: only the active coroutine exits, and not while it is about to
  sleep, so that an exit leaves no alarm, no chain and no entry behind.
- `NoStrayAlarm`: the pending alarm belongs to a coroutine that sleeps until
  that time; so an alarm wakes nobody who is on the run queue.
- `CpuInv`: the lists are empty or not as the phases of `cpu` need it.

The proof has a lemma `Step_NAME` per action, with a step per conjunct; lemmas
on `wakeup_locked()` and on the lists are shared. `ListOpsProofs` has what the
operators on lists do to membership, distinctness, length and order.

Its second part goes on from there, still for every `Lax`:

    TimerInvariance      Spec => []TimerInv
    SleepersSorted       Spec => []TimerSorted
    SleepersHaveAlarms   Spec => []SleeperHasAlarm
    Cooperative          Spec => NeverPreempted
    FirstComeFirstRun    Spec => [][QueueMovesOn]_vars

`SleeperHasAlarm` is not inductive, as it says nothing while the lock is held.
`TimerInv` does: the alarm for `soonesttime2wake` is pending whenever that is a
time, no sleeper is due before it unless the timer is about to be primed, and
the queue is sorted, so that its head stands for all of it. Keys of sleepers
never change while they are listed; that is why inserting and removing keep the
order. `QueueMovesOn` is an action property: a step either takes the head off the
run queue, in `schedule_next()`, or leaves it as a prefix of the new one. So who
is ready at place n runs after n - 1 switches, whatever interrupts push; it is
the safety half of `ReadyRuns`.

`WaitingProofs` assumes `Contract`: `Lax` is empty, and `SemBound` is no more
than an `int8_t` holds. The runs that drop the contract show why. Then

    WaitInvariance   Spec => []WaitInv
    WakeupsArrive    Spec => []NoLostWakeup
    WaitersWait      Spec => []SignalledHasNoWaiter
    Promises         Spec => KeepsPromises

- `WaiterInv`: a Waitable has one waiter, and it was started if it is a
  coroutine. So nobody takes another's place in a wait chain, and no start
  clears one.
- `SleeperInv`: whoever sleeps without a timeout, or has counted itself asleep
  and is on its way, may still be woken. A wakeup on the way there leaves
  `sleepcount` at 0, so that `schedule_next()` does not put it to sleep: this is
  where a lost wakeup would show.
- `SemaphoreInv`: no semaphore is below zero.

`Promises` maps each step of `Scheduler` to one of `Waiting` or to none: a
coroutine falls asleep in `Waiting` when `schedule_next()` moves it to the timer
queue, long after it looked at the semaphore, and what it saw is still so
because a signal in between would have woken it (`Keeps_schedule_next_sleep`).

`LinkedListProofs` proves, for any lists, entries and keys,

    ListInvariance    Spec => []ListInv
    ListTypeCorrect   Spec => []TypeOK
    ListsRepresent    Spec => []Represents
    ListsApart        Spec => []OneList
    ScansGoOn         Spec => []ScanInOrder
    ScansAdvance      Spec => [][ScansPass]_vars

`Represents` needs the others. A push writes the link of the last entry, a
removal that of the entry before: that no other list changes by it is
`OneList`, no entry is linked twice. `ll_remove()` and `ll_sorted_insert()`
write where their scan has come to, so `ScanInOrder` must still know where that
is; and that the end of the scan is the right place to insert needs
`InsertsNew`: the value is in no list yet, and the list is not empty. The
lemmas `Chain...` say for one list what each operation's writes do to it, and
`OneListChanged` puts the lists together. `ScansPass` is the safety half of
`ScansEnd`: each turn passes one more entry of a list that does not change.

`WifiConnectionProofs` proves, for every length of buffers and answers and every
timeout, from `WifiConnectionAssumption`,

    ConnectionTypeCorrect   Spec => []TypeOK
    SuccessIsSent           Spec => []SuccessMeansSent
    ReturnsClean            Spec => []NothingLeft

from one inductive invariant. `SendTcpInv` is the heart of it: from SEND_WAITING
on, `seq` is SEND_WAITING plus one for a complete request plus one for a complete
response, in either order; each can only be counted once, as `sendbufleft` and
`responsebufleft` reach zero once. `CountInv` bounds what callbacks may add to
`seq` after an error by those that are still pending, three at most, so that it
never comes round to a state of the switch. `HoldsInv` ties what lwIP holds to
`seq`; it needs that the resolver gives up first. `RoomInv` keeps what is left of
the response buffer within what there was.

`I2CDriverProofs` proves, for any number of clients, any length of the ring
buffer and every `Lax`,

    I2CInvariance    Spec => []I2CInv
    I2CTypeCorrect   Spec => []TypeOK
    SuccessTold      Spec => []SuccessIsTrue
    DriverWoken      Spec => []TransferEnds
    QuietBetween     Spec => []HardwareQuiet

Its heart is `TransferInv`. While a transfer is on: once the driver was woken,
or an empty fifo may wake it, no channel is busy; before that an abort is
pending, or each channel is busy or accounted for in its flag; and `wasaborted`
or the pending abort say that the controller gave up. Outside of a transfer all
of it is at rest and no interrupt can come (`AtRest`). `KernelInv` and
`DriverInv` are there to know that a driver in a transfer is awake just when
`haswokenup` says so.

Who wakes whom depends on what clients do. `Contract` is that they keep to all
of it (`Lax = {}`), are fewer than the ring buffer has slots, and that the ring buffer
is no longer than an `int8_t` counts. `I2CDriver_rush` and `I2CDriver_late_wait` show
what goes wrong otherwise. Under it

    ContractInvariance   Spec => []ContractInv
    NobodyIsForgotten    Spec => []NobodyForgotten
    WaitingIsDone        Spec => []WaitMeansDone
    CommandIsThere       Spec => NewCmdThere
    NoBreakpoint         Spec => [](\A c \in Client : pc[c] = "put" => ~rb_is_full(cmdindices))

- `QueueInv`: the slots in use and the clients with a command that is not done
  correspond one to one. `TurnInv`: such a client runs and is about to wait, or
  sleeps in the wait chain of its slot.
- `PutInv`: whoever is inside `queue_cmds()` has a driver that will live to see
  the command, and has its turn after the `init()` of a driver it started.
- `DoneInv`: between the end of a command and the turn of its client the signal
  in the slot is all there is to tell that client. Slots are used in a circle,
  so another command can only get that slot after all those before it, and
  the clients that could queue so many must run before this one. `DoneInv` says
  that they are too few: no more clients are ahead of it in the run queue than
  there are steps from `end` to its slot. A driver that starts over with an
  empty ring buffer breaks the count, so this client is ahead of that driver.
- `CountInv`: `newcmdswaitable` has a signal for each command and for the stop,
  and the driver at the top of its loop has taken one.

The lemmas of `KernelProofs` say what the calls of `Kernel` do to the order of the
run queue (`Before`) and what a push and a pop do to the slots in use and to
the steps between them.

`DevicesProofs` proves, for any number of clients that is less than that of slots,
any number of regions and of turns, and any width of the semaphores, from
`KernelAssumption` and `DevicesAssumption`,

    DevicesInvariance    DevicesSpec => []DevicesInv
    DevicesTypeCorrect   DevicesSpec => []DevicesTypeOK
    NothingIsUnseen      DevicesSpec => []NothingUnseen
    CommandsStay         DevicesSpec => []CommandDone
    UpdatesAreShown      DevicesSpec => []UpdateShown
    GuardsGuardTheLive   DevicesSpec => []GuardsOfTheLive

- `ChainInv`, `AwakeInv`: who is chained to what, and that nobody else sleeps.
- `CommandInv`, `DoneInv`: as for I2C, with one difference. The Wi-Fi driver does
  not reset its ring buffer when it starts, so commands and clients it left
  behind stay together, and no client needs to be ahead of the driver.
- `SignalInv`: there is a signal for every command, but for the one the driver
  has taken, and to spare there is at most one for each DISCONNECT carried out
  (`ended`). So as long as `ended` and the number of clients, who have one command
  each, are together no more than `INT8_MAX` nothing wraps (`InRange`). The bounds
  of `SignalInv` are under that condition, and so is `NothingUnseen`: what comes
  after 127 DISCONNECTs is not promised, because it is not so.
- `StripInv`: one update at a time, and the DMA channel runs only while its
  coroutine sleeps.
- `GuardsOfTheLive` is inductive with the types; two regions are enough for two
  drivers because the first free one is taken and exits give theirs back.

On operators: `NtpTimeClose` proves that the result of an NTP request is the middle
of the server's two timestamps in milliseconds since 1970, less than 3.67 ms
early and 1.16 ms late, through the shifts, the halving, the subtraction
(which does not wrap, `NoWrap`) and the sum of rounded bits, for every pair of
timestamps from 1970 to the end of the era in 2036. It rests on `FractionClose`;
`FractionBelowASecond` has the milliseconds below 998, and
`MillisecondsMonotone` has a later time never give an earlier result.
`NoChatter`, in `DevicesProofs`, has two turns of the charger more than H - L apart.

Only model-checked: the liveness properties, as fairness is out of the prover's
reach. All other properties of the passing runs are theorems, under the conditions
given with them. What the violation runs check is false, and stays with TLC.

## 5. What is not modelled

- `block_unused_flash()`, `setup_irq_stack()`, `init_sk6812()` and the start of the
  cyw43 chip, which configure hardware once at boot; the bits of region registers;
  the PIO program.
- lwIP, the SDK and the hardware, beyond what the code sees of them. The contents
  of packets, and the search for a date in an HTTP header.
- A call to the Wi-Fi driver with a full ring buffer, which stops at
  `__breakpoint()` (`picowwifi.cpp:1004`), and what a debugger would continue to
  there and behind that of `queue_cmds()` (`i2c.cpp:353`). Two updates of the LED strip
  at once, the second of which is ignored.
- NTP timestamps after the era ends in 2036, for which the subtraction wraps
  (`SinceEpoch` has the wrap; `NtpTimeClose` ends where it begins).
- The profiler, an aid for debugging; `usb.cpp`, which writes registers once;
  `example.cpp`, which only calls the rest.
- In the scheduler: execution times, exit codes, the saving of registers, the
  contents of stacks, `setup_irq_stack()`, and the detection of a debugger. The
  second core: the library is single threaded.
- Violations of the contract other than those in `Lax`: mixing `wakeup()` with
  `yield_and_wait4time()` or `signal()` (`coroutine.h:139`), more than 127
  signals nobody consumes, waiting for a coroutine more than 127 times after
  its exit.

## 6. Plan

1. Done: lists, scheduler with its invariant and its refinement of `Waiting`, ring
   buffer, kernel, I2C driver, Wi-Fi driver, LED strip, stack guards, NTP, charge
   hysteresis.
2. Done: a theorem for each safety property of the passing runs.
3. `Scheduler` implements `Kernel`, up to the order of the run queue. Not exactly:
   when `yield_and_start()` has pushed the new coroutine and an interrupt wakes
   another before `schedule_next()` moves the running one to the tail, the queue
   is new, woken, running, while `Kernel`, which starts in one step, has the
   woken one first or last. What the drivers' proofs use of the order, that whoever
   starts a coroutine runs after it, is the same in both.
4. An abstract service, in which a client's command is queued, carried out and
   reported, implemented by `I2CDriver` under `Contract` and by `Devices`.
