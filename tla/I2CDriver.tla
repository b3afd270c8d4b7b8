------------------------------ MODULE I2CDriver ------------------------------
(***************************************************************************)
(* src/i2c.cpp for one I2C instance: the clients that call queue_cmds()    *)
(* and wait for the Waitable it returns, the driver coroutine that sends   *)
(* one command after the other, its two interrupt handlers, and the DMA    *)
(* channels and the I2C controller that raise the interrupts.              *)
(*                                                                         *)
(* A client has one command outstanding.  Interrupts are taken before any  *)
(* coroutine takes its next step.                                          *)
(*                                                                         *)
(* A definition NAME_but_... is no part of the model: it is NAME with a    *)
(* plausible mistake, which one of the properties has to notice.           *)
(***************************************************************************)
EXTENDS Kernel, RingBuffer, FiniteSets

CONSTANTS
  Client,
  i2cdriverblock,       \* the driver's coroutine
  newcmdswaitable,
  SemBound,             \* bound: signals nobody waits for, per slot
  Lax                   \* parts of the contract that clients need not keep

ASSUME I2CDriverAssumption ==
  /\ i2cdriverblock \notin Client /\ NULL \notin Client \cup {i2cdriverblock}
  /\ newcmdswaitable \notin Slot /\ NULL \notin Slot
  /\ SemBound \in Nat /\ IsFiniteSet(Client)
  \* "rush": queue a command before the driver has run for the first time;
  \* "dawdle": yield between queueing a command and waiting for it;
  \* "forget": queue a command and never wait for it.
  /\ Lax \subseteq {"rush", "dawdle", "forget"}

VARIABLES
  \* DriverState; dmareadchannel is -1 when drv is "off"
  cmdindices, cmdringbuffer, drivershouldexit,
  datareadcaused, datawritecaused, haswokenup, wasaborted,
  drv,          \* the driver: "off", "start", "top" (of its loop), "xfer"
                \* (yield_and_wait4wakeup), "wait" (yield_and_wait4signal)
  pc,           \* by client: "app", "put" (queue_cmds, past init), "wait" (for
                \* its command)
  slot,         \* by client: where its command is, NULL for none
  success,      \* by client: what *success says
  reads,        \* by client: it has queued a command that has results
  \* DMA channels: "off", "on" or "done" (interrupt pending)
  readdma, writedma,
  \* I2C controller
  tx_abrt, tx_empty, intr_mask, irq_enabled,
  aborted,      \* auxiliary: the controller gave the current command up
  fate          \* auxiliary, by client: its last command is "none", "queued",
                \* "sent" or "failed"

flags == <<datareadcaused, datawritecaused, haswokenup, wasaborted>>
ring == <<cmdindices, cmdringbuffer>>
client == <<pc, slot, success, reads, fate>>
hardware == <<readdma, writedma, tx_abrt, tx_empty, intr_mask, irq_enabled,
              aborted>>
vars == <<kernel, ring, flags, drv, drivershouldexit, client, hardware>>

Waitable == Slot \cup {newcmdswaitable}

I2CPending ==
  /\ irq_enabled
  /\ \/ tx_abrt /\ "TX_ABRT" \in intr_mask
     \/ tx_empty /\ "TX_EMPTY" \in intr_mask

DMAPending == readdma = "done" \/ writedma = "done"

\* A coroutine takes a step when it runs and no interrupt is pending.
Executes(p) == Runs(p) /\ ~I2CPending /\ ~DMAPending

FrontSlot == rb_peek_front(cmdindices)

Init ==
  /\ ready2run \in {s \in [1..Cardinality(Client) -> Client] : IsInjective(s)}
  /\ waitchain = [w \in Waitable |-> NULL] /\ semaphore = [w \in Waitable |-> 0]
  /\ cmdindices = rb_init_ringbuffer /\ cmdringbuffer = [s \in Slot |-> NULL]
  /\ drivershouldexit = FALSE
  /\ datareadcaused = FALSE /\ datawritecaused = FALSE
  /\ haswokenup = FALSE /\ wasaborted = FALSE
  /\ drv = "off"
  /\ pc = [c \in Client |-> "app"] /\ slot = [c \in Client |-> NULL]
  /\ success = [c \in Client |-> FALSE] /\ reads = [c \in Client |-> FALSE]
  /\ readdma = "off" /\ writedma = "off"
  /\ tx_abrt = FALSE /\ tx_empty = TRUE
  /\ intr_mask = {} /\ irq_enabled = FALSE
  /\ aborted = FALSE /\ fate = [c \in Client |-> "none"]
-----------------------------------------------------------------------------
(* Clients. *)

\* init() of a driver that is off, at the start of queue_cmds() ...
init ==
  /\ drivershouldexit' = FALSE
  /\ cmdindices' = rb_init_ringbuffer
  /\ semaphore' = [semaphore EXCEPT ![newcmdswaitable] = 0]
  /\ waitchain' = [waitchain EXCEPT ![newcmdswaitable] = NULL]
  /\ drv' = "start"
  /\ UNCHANGED <<cmdringbuffer, flags, hardware>>

\* ... which yields, or there is nothing to do.
queue_cmds(c) ==
  /\ Executes(c) /\ pc[c] = "app" /\ slot[c] = NULL
  /\ drv = "start" => "rush" \in Lax
  /\ pc' = [pc EXCEPT ![c] = "put"]
  /\ IF drv = "off"
     THEN init /\ Starts(c, i2cdriverblock)
     ELSE UNCHANGED <<kernel, ring, flags, drv, drivershouldexit, hardware>>
  /\ UNCHANGED <<slot, success, reads, fate>>

put_but_not_signalled(c, r) ==
  LET s == cmdindices.end IN
  /\ Executes(c) /\ pc[c] = "put"
  /\ ~rb_is_full(cmdindices)
  /\ cmdindices' = rb_push_back(cmdindices)
  /\ cmdringbuffer' = [cmdringbuffer EXCEPT ![s] = c]
  /\ pc' = [pc EXCEPT ![c] = "app"]
  /\ slot' = [slot EXCEPT ![c] = s]
  /\ reads' = [reads EXCEPT ![c] = r]
  /\ fate' = [fate EXCEPT ![c] = "queued"]
  /\ UNCHANGED <<kernel, success, flags, drv, drivershouldexit, hardware>>

\* The rest of queue_cmds() if the ring buffer has a slot.  If it has none the
\* client runs into the __breakpoint() there, in every build: it stays at "put",
\* and as no other coroutine gets the cpu the system stops.
put(c, r) ==
  LET s == cmdindices.end IN
  /\ Executes(c) /\ pc[c] = "put"
  /\ ~rb_is_full(cmdindices)
  /\ cmdindices' = rb_push_back(cmdindices)
  /\ cmdringbuffer' = [cmdringbuffer EXCEPT ![s] = c]
  /\ Signals(newcmdswaitable)
  /\ pc' = [pc EXCEPT ![c] = "app"]
  /\ slot' = [slot EXCEPT ![c] = s]
  /\ reads' = [reads EXCEPT ![c] = r]
  /\ fate' = [fate EXCEPT ![c] = "queued"]
  /\ UNCHANGED <<success, flags, drv, drivershouldexit, hardware>>

\* yield_and_wait4signal() on what queue_cmds() returned.
wait(c) ==
  /\ Executes(c) /\ pc[c] \in {"app", "wait"} /\ slot[c] # NULL
  /\ \/ /\ Takes(slot[c])
        /\ pc' = [pc EXCEPT ![c] = "app"]
        /\ slot' = [slot EXCEPT ![c] = NULL]
     \/ /\ Chains(c, slot[c])
        /\ pc' = [pc EXCEPT ![c] = "wait"]
        /\ UNCHANGED slot
  /\ UNCHANGED <<success, reads, fate, ring, flags, drv, drivershouldexit,
                 hardware>>

\* The client never waits for the command; it passed no success pointer.
forget(c) ==
  /\ "forget" \in Lax
  /\ Executes(c) /\ pc[c] = "app" /\ slot[c] # NULL
  /\ semaphore[slot[c]] < SemBound
  /\ cmdringbuffer' = [cmdringbuffer EXCEPT ![slot[c]] = IF @ = c THEN NULL ELSE @]
  /\ slot' = [slot EXCEPT ![c] = NULL]
  /\ reads' = [reads EXCEPT ![c] = FALSE]
  /\ fate' = [fate EXCEPT ![c] = "none"]
  /\ UNCHANGED <<kernel, cmdindices, pc, success, flags, drv,
                 drivershouldexit, hardware>>

yield(c) ==
  /\ Executes(c) /\ pc[c] = "app"
  /\ slot[c] # NULL => "dawdle" \in Lax
  /\ Yields(c)
  /\ UNCHANGED <<waitchain, semaphore, ring, flags, drv, drivershouldexit,
                 client, hardware>>

\* Once per life of the driver, and not while a client is in queue_cmds().
stop_i2c_driver_async(c) ==
  /\ Executes(c) /\ pc[c] = "app" /\ slot[c] = NULL
  /\ drv # "off" /\ ~drivershouldexit
  /\ \A d \in Client : pc[d] \in {"app", "wait"}
  /\ drivershouldexit' = TRUE
  /\ Signals(newcmdswaitable)
  /\ UNCHANGED <<ring, flags, drv, client, hardware>>
-----------------------------------------------------------------------------
(* The driver, i2cdriver_func(). *)

drv_begin_but_flag_kept ==
  /\ Executes(i2cdriverblock) /\ drv \in {"start", "top"}
  /\ ~rb_is_empty(cmdindices)
  /\ \E r \in BOOLEAN :
       /\ cmdringbuffer[FrontSlot] # NULL => r = reads[cmdringbuffer[FrontSlot]]
       /\ datareadcaused' = ~r
       /\ readdma' = IF r THEN "on" ELSE readdma
  /\ datawritecaused' = FALSE /\ writedma' = "on"
  /\ wasaborted' = FALSE /\ aborted' = FALSE
  /\ intr_mask' = {"TX_ABRT"} /\ irq_enabled' = TRUE
  /\ drv' = "xfer" /\ Leaves(i2cdriverblock)
  /\ UNCHANGED <<waitchain, semaphore, ring, haswokenup, drivershouldexit, client, tx_abrt,
                 tx_empty>>

\* With a command in the ring buffer it starts the transfer and sleeps until
\* an interrupt handler wakes it,
drv_begin ==
  /\ Executes(i2cdriverblock) /\ drv \in {"start", "top"}
  /\ ~rb_is_empty(cmdindices)
  /\ \E r \in BOOLEAN :
       /\ cmdringbuffer[FrontSlot] # NULL => r = reads[cmdringbuffer[FrontSlot]]
       /\ datareadcaused' = ~r
       /\ readdma' = IF r THEN "on" ELSE readdma
  /\ datawritecaused' = FALSE /\ writedma' = "on"
  /\ wasaborted' = FALSE /\ aborted' = FALSE
  /\ haswokenup' = FALSE
  /\ intr_mask' = {"TX_ABRT"} /\ irq_enabled' = TRUE
  /\ drv' = "xfer" /\ Leaves(i2cdriverblock)
  /\ UNCHANGED <<waitchain, semaphore, ring, drivershouldexit, client, tx_abrt,
                 tx_empty>>

\* without one it goes to wait for new ones.
drv_idle ==
  /\ Executes(i2cdriverblock) /\ drv \in {"start", "top"}
  /\ rb_is_empty(cmdindices)
  /\ drv' = "wait"
  /\ UNCHANGED <<kernel, ring, flags, drivershouldexit, client, hardware>>

drv_finish_but_popped_first ==
  LET c == cmdringbuffer[FrontSlot] IN
  /\ Executes(i2cdriverblock) /\ drv = "xfer"
  /\ irq_enabled' = FALSE
  /\ success' = IF c = NULL THEN success ELSE [success EXCEPT ![c] = ~wasaborted]
  /\ fate' = IF c = NULL THEN fate
             ELSE [fate EXCEPT ![c] = IF aborted THEN "failed" ELSE "sent"]
  /\ reads' = IF c = NULL THEN reads ELSE [reads EXCEPT ![c] = FALSE]
  /\ Signals(Following(FrontSlot))
  /\ cmdindices' = rb_pop_front(cmdindices)
  /\ drv' = "wait"
  /\ UNCHANGED <<cmdringbuffer, flags, drivershouldexit, pc, slot,
                 readdma, writedma, tx_abrt, tx_empty, intr_mask, aborted>>

\* Woken up, it reports to the client and takes the command off the ring.
drv_finish ==
  LET c == cmdringbuffer[FrontSlot] IN
  /\ Executes(i2cdriverblock) /\ drv = "xfer"
  /\ irq_enabled' = FALSE
  /\ success' = IF c = NULL THEN success ELSE [success EXCEPT ![c] = ~wasaborted]
  /\ fate' = IF c = NULL THEN fate
             ELSE [fate EXCEPT ![c] = IF aborted THEN "failed" ELSE "sent"]
  /\ reads' = IF c = NULL THEN reads ELSE [reads EXCEPT ![c] = FALSE]
  /\ Signals(FrontSlot)
  /\ cmdindices' = rb_pop_front(cmdindices)
  /\ drv' = "wait"
  /\ UNCHANGED <<cmdringbuffer, flags, drivershouldexit, pc, slot,
                 readdma, writedma, tx_abrt, tx_empty, intr_mask, aborted>>

\* deinit(): the handlers are taken down, the channels given back.
deinit == drv' = "off" /\ irq_enabled' = FALSE

drv_wait_but_never_exits ==
  /\ Executes(i2cdriverblock) /\ drv = "wait"
  /\ \/ Takes(newcmdswaitable) /\ drv' = "top"
     \/ Chains(i2cdriverblock, newcmdswaitable) /\ UNCHANGED drv
  /\ UNCHANGED <<ring, flags, drivershouldexit, client, hardware>>

\* Signalled, it exits by way of deinit() if it should and the ring buffer is
\* empty; otherwise it looks for a command again.
drv_wait ==
  /\ Executes(i2cdriverblock) /\ drv = "wait"
  /\ \/ /\ Takes(newcmdswaitable)
        /\ ~(drivershouldexit /\ rb_is_empty(cmdindices))
        /\ drv' = "top"
        /\ UNCHANGED irq_enabled
     \/ /\ semaphore[newcmdswaitable] > 0
        /\ drivershouldexit /\ rb_is_empty(cmdindices)
        /\ semaphore' = [semaphore EXCEPT ![newcmdswaitable] = @ - 1]
        /\ deinit /\ Leaves(i2cdriverblock)
        /\ UNCHANGED waitchain
     \/ /\ Chains(i2cdriverblock, newcmdswaitable)
        /\ UNCHANGED <<drv, irq_enabled>>
  /\ UNCHANGED <<ring, flags, drivershouldexit, client, readdma, writedma,
                 tx_abrt, tx_empty, intr_mask, aborted>>
-----------------------------------------------------------------------------
(* Interrupt handlers. *)

wake_driver ==
  IF haswokenup THEN UNCHANGED <<haswokenup, ready2run>>
                ELSE haswokenup' = TRUE /\ Wakes(i2cdriverblock)

\* dma_channel_abort(): a channel that makes progress may raise its interrupt.
Cancelled(channel, channel2) ==
  channel2 \in IF channel = "on" THEN {"off", "done"} ELSE {channel}

i2chandler_but_wakes_always ==
  /\ I2CPending
  /\ IF tx_abrt /\ "TX_ABRT" \in intr_mask
     THEN /\ wasaborted' = TRUE /\ tx_abrt' = FALSE
          /\ Cancelled(readdma, readdma') /\ Cancelled(writedma, writedma')
          /\ UNCHANGED intr_mask
     ELSE /\ intr_mask' = intr_mask \ {"TX_EMPTY"}
          /\ UNCHANGED <<wasaborted, tx_abrt, readdma, writedma>>
  /\ haswokenup' = TRUE /\ Wakes(i2cdriverblock)
  /\ UNCHANGED <<waitchain, semaphore, ring, datareadcaused, datawritecaused,
                 drv, drivershouldexit, client, tx_empty, irq_enabled, aborted>>

i2chandler_but_empty_wins ==
  /\ I2CPending
  /\ IF tx_empty /\ "TX_EMPTY" \in intr_mask
     THEN /\ intr_mask' = intr_mask \ {"TX_EMPTY"}
          /\ tx_abrt' = FALSE
          /\ UNCHANGED <<wasaborted, readdma, writedma>>
     ELSE /\ wasaborted' = TRUE /\ tx_abrt' = FALSE
          /\ Cancelled(readdma, readdma') /\ Cancelled(writedma, writedma')
          /\ UNCHANGED intr_mask
  /\ wake_driver
  /\ UNCHANGED <<waitchain, semaphore, ring, datareadcaused, datawritecaused,
                 drv, drivershouldexit, client, tx_empty, irq_enabled, aborted>>

i2chandler_but_dma_goes_on ==
  /\ I2CPending
  /\ IF tx_abrt /\ "TX_ABRT" \in intr_mask
     THEN /\ wasaborted' = TRUE /\ tx_abrt' = FALSE
          /\ UNCHANGED intr_mask
     ELSE /\ intr_mask' = intr_mask \ {"TX_EMPTY"}
          /\ UNCHANGED <<wasaborted, tx_abrt>>
  /\ wake_driver
  /\ UNCHANGED <<waitchain, semaphore, ring, datareadcaused, datawritecaused,
                 drv, drivershouldexit, client, readdma, writedma, tx_empty,
                 irq_enabled, aborted>>

\* An abort wins over an empty TX fifo.
i2chandler ==
  /\ I2CPending
  /\ IF tx_abrt /\ "TX_ABRT" \in intr_mask
     THEN /\ wasaborted' = TRUE /\ tx_abrt' = FALSE
          /\ Cancelled(readdma, readdma') /\ Cancelled(writedma, writedma')
          /\ UNCHANGED intr_mask
     ELSE /\ intr_mask' = intr_mask \ {"TX_EMPTY"}
          /\ UNCHANGED <<wasaborted, tx_abrt, readdma, writedma>>
  /\ wake_driver
  /\ UNCHANGED <<waitchain, semaphore, ring, datareadcaused, datawritecaused,
                 drv, drivershouldexit, client, tx_empty, irq_enabled, aborted>>

Acked(channel) == IF channel = "done" THEN "off" ELSE channel

\* When both channels are through, an empty TX fifo ends the transfer.
dma_irq_handler ==
  LET r == datareadcaused \/ readdma = "done"
      w == datawritecaused \/ writedma = "done" IN
  /\ DMAPending
  /\ readdma' = Acked(readdma) /\ writedma' = Acked(writedma)
  /\ datareadcaused' = (r /\ ~w) /\ datawritecaused' = (w /\ ~r)
  /\ intr_mask' = IF r /\ w THEN intr_mask \cup {"TX_EMPTY"} ELSE intr_mask
  /\ UNCHANGED <<kernel, ring, haswokenup, wasaborted, drv, drivershouldexit,
                 client, tx_abrt, tx_empty, irq_enabled, aborted>>
-----------------------------------------------------------------------------
(* The hardware: external, as far as the code above relies on it. *)

software == <<kernel, ring, flags, drv, drivershouldexit, client>>

\* All commands are in the TX fifo, where an abort in progress drops them.
WriteDone ==
  /\ writedma = "on" /\ writedma' = "done"
  /\ tx_empty' \in IF tx_abrt THEN {TRUE} ELSE BOOLEAN
  /\ UNCHANGED <<software, readdma, tx_abrt, intr_mask, irq_enabled, aborted>>

\* All results are in memory.
ReadDone ==
  /\ readdma = "on" /\ ~tx_abrt /\ readdma' = "done"
  /\ UNCHANGED <<software, writedma, tx_abrt, tx_empty, intr_mask, irq_enabled,
                 aborted>>

\* All bits are on the wire.
Drained ==
  /\ ~tx_empty /\ tx_empty' = TRUE
  /\ UNCHANGED <<software, readdma, writedma, tx_abrt, intr_mask, irq_enabled,
                 aborted>>

\* The device does not answer: the fifo is flushed.
Abort ==
  /\ ~aborted /\ (writedma = "on" \/ ~tx_empty)
  /\ aborted' = TRUE /\ tx_abrt' = TRUE /\ tx_empty' = TRUE
  /\ UNCHANGED <<software, readdma, writedma, intr_mask, irq_enabled>>

Hardware == WriteDone \/ ReadDone \/ Drained

Driver == drv_begin \/ drv_idle \/ drv_finish \/ drv_wait

Interrupt == i2chandler \/ dma_irq_handler

ClientGoesOn(c) == (\E r \in BOOLEAN : put(c, r)) \/ yield(c)

Next ==
  \/ \E c \in Client :
       \/ queue_cmds(c)
       \/ ClientGoesOn(c)
       \/ wait(c)
       \/ forget(c)
       \/ stop_i2c_driver_async(c)
  \/ Driver
  \/ Interrupt
  \/ Hardware
  \/ Abort

Spec == Init /\ [][Next]_vars

\* Transfers and interrupts complete, and coroutines give up the cpu; a client
\* waits for the command it queued.
Fairness ==
  /\ WF_vars(Driver) /\ WF_vars(Interrupt) /\ WF_vars(Hardware)
  /\ \A c \in Client : WF_vars(ClientGoesOn(c)) /\ WF_vars(wait(c))

LiveSpec == Spec /\ Fairness
-----------------------------------------------------------------------------
TypeOK ==
  /\ ready2run \in Seq(Client \cup {i2cdriverblock})
  /\ waitchain \in [Waitable -> Client \cup {i2cdriverblock, NULL}]
  /\ semaphore \in [Waitable -> Int8]
  /\ cmdindices \in Ring /\ cmdringbuffer \in [Slot -> Client \cup {NULL}]
  /\ {drivershouldexit, datareadcaused, datawritecaused, haswokenup,
      wasaborted, tx_abrt, tx_empty, irq_enabled, aborted} \subseteq BOOLEAN
  /\ drv \in {"off", "start", "top", "xfer", "wait"}
  /\ pc \in [Client -> {"app", "put", "wait"}]
  /\ slot \in [Client -> Slot \cup {NULL}]
  /\ success \in [Client -> BOOLEAN] /\ reads \in [Client -> BOOLEAN]
  /\ readdma \in {"off", "on", "done"} /\ writedma \in {"off", "on", "done"}
  /\ intr_mask \subseteq {"TX_ABRT", "TX_EMPTY"}
  /\ fate \in [Client -> {"none", "queued", "sent", "failed"}]

\* Nobody is queued to run twice, and nobody sleeps who is not going to be
\* woken: a client is chained to the Waitable of its command, the driver to
\* newcmdswaitable unless a transfer is on.
Asleep(p) == p \notin ToSet(ready2run)

NobodyForgotten ==
  /\ IsInjective(ready2run)
  /\ \A c \in Client : Asleep(c) => \E s \in Slot : waitchain[s] = c
  /\ Asleep(i2cdriverblock) =>
       drv \in {"off", "xfer"} \/ waitchain[newcmdswaitable] = i2cdriverblock

\* The wait for the Waitable of queue_cmds() returns once the command has been
\* carried out, not before: its slot has not been signalled for another one.
WaitMeansDone ==
  \A c \in Client : fate[c] = "queued" =>
    /\ slot[c] # NULL /\ cmdringbuffer[slot[c]] = c
    /\ \E n \in DOMAIN Contents(cmdindices) : Contents(cmdindices)[n] = slot[c]

\* *success tells whether that very command was aborted.
SuccessIsTrue ==
  \A c \in Client : fate[c] \in {"sent", "failed"} => success[c] = (fate[c] = "sent")

\* While the driver sleeps in a transfer it is going to be woken: there is
\* a DMA channel to complete, a fifo to drain or an interrupt to come.
TransferEnds ==
  drv = "xfer" /\ Asleep(i2cdriverblock) =>
    /\ irq_enabled /\ "TX_ABRT" \in intr_mask /\ ~haswokenup
    /\ \/ tx_abrt
       \/ "TX_EMPTY" \in intr_mask
       \/ /\ datareadcaused \/ readdma # "off"
          /\ datawritecaused \/ writedma # "off"

\* "tx fifo should be empty! we make sure of that after each transfer": when
\* the driver goes on, the hardware has finished with its command.
HardwareQuiet ==
  Executes(i2cdriverblock) /\ drv # "off" =>
    tx_empty /\ ~tx_abrt /\ readdma = "off" /\ writedma = "off"

\* "if we've been signaled that there's a new cmd than there better be a new
\* command!": signalled and not to exit, the driver finds one.
NewCmdThere ==
  [][drv = "wait" /\ drv' = "top" => ~rb_is_empty(cmdindices)]_vars

\* A client in queue_cmds() comes back from it, with no __breakpoint() on the
\* way, and one that waits for its command comes back from that.
Served == \A c \in Client : pc[c] \in {"put", "wait"} ~> pc[c] = "app"

\* A driver told to stop does, unless clients go on queueing commands.
Stops == drivershouldexit ~> drv = "off" \/ ~rb_is_empty(cmdindices)
=============================================================================
