--------------------------- MODULE I2CDriverProofs ---------------------------
(***************************************************************************)
(* Whatever clients do, the I2C driver reports the truth, is woken at the  *)
(* end of each transfer and leaves nothing of it behind: for any number of *)
(* clients, any length of the ring buffer and any use of the interface.    *)
(* And as long as they keep to Contract, nobody is forgotten, and nobody   *)
(* is woken for a command that is not done.                                *)
(***************************************************************************)
EXTENDS I2CDriver, KernelProofs

USE I2CDriverAssumption, RingBufferAssumption, KernelAssumption
USE DEF kernel, flags, ring, client, hardware, software, vars, FrontSlot

Coroutine == Client \cup {i2cdriverblock}

\* The driver is chained to newcmdswaitable, clients to slots.
KernelInv ==
  /\ Queues(Coroutine, Waitable)
  /\ \A w \in Waitable : waitchain[w] # NULL =>
       (waitchain[w] = i2cdriverblock <=> w = newcmdswaitable)

\* In a transfer haswokenup says whether the driver is awake.
DriverInv ==
  /\ waitchain[newcmdswaitable] # NULL => drv = "wait"
  /\ drv = "off" => Asleep(i2cdriverblock)
  /\ drv = "xfer" => (haswokenup <=> ~Asleep(i2cdriverblock))

\* Where the two DMA channels and the controller can be in a transfer.
TransferInv ==
  /\ irq_enabled /\ "TX_ABRT" \in intr_mask
  /\ tx_abrt => tx_empty
  /\ aborted <=> wasaborted \/ tx_abrt
  /\ datareadcaused => readdma = "off"
  /\ datawritecaused => writedma = "off"
  /\ haswokenup \/ "TX_EMPTY" \in intr_mask => readdma # "on" /\ writedma # "on"
  /\ haswokenup => tx_empty /\ ~tx_abrt
  /\ \/ haswokenup \/ tx_abrt \/ "TX_EMPTY" \in intr_mask
     \/ /\ datareadcaused \/ readdma # "off"
        /\ datawritecaused \/ writedma # "off"

AtRest ==
  ~irq_enabled /\ tx_empty /\ ~tx_abrt /\ readdma = "off" /\ writedma = "off"

HardwareInv == IF drv = "xfer" THEN TransferInv ELSE AtRest

I2CInv ==
  /\ TypeOK /\ KernelInv /\ DriverInv /\ HardwareInv
  /\ SuccessIsTrue

-----------------------------------------------------------------------------
(* The ring buffer and the kernel. *)

LEMMA RingSteps ==
  ASSUME NEW rb \in Ring
  PROVE  /\ rb_init_ringbuffer \in Ring /\ rb_push_back(rb) \in Ring
         /\ rb_pop_front(rb) \in Ring /\ rb.begin \in Slot /\ rb.end \in Slot
BY RingTypes

LEMMA SlotsDiffer ==
  /\ \A s \in Slot : s \in Waitable /\ s # newcmdswaitable
  /\ newcmdswaitable \in Waitable /\ NULL \notin Coroutine
BY DEF Waitable, Coroutine

LEMMA KernelSignals ==
  ASSUME KernelInv, NEW w \in Waitable, Signals(w)
  PROVE  /\ KernelInv'
         /\ ToSet(ready2run') = ToSet(ready2run) \cup ({waitchain[w]} \ {NULL})
         /\ waitchain' = [waitchain EXCEPT ![w] = NULL]
         /\ semaphore' = [semaphore EXCEPT ![w] = Increment(@)]
         /\ SameOrder(ready2run, ready2run')
<1>1. /\ Queues(Coroutine, Waitable)'
      /\ ToSet(ready2run') = ToSet(ready2run) \cup ({waitchain[w]} \ {NULL})
      /\ waitchain' = [waitchain EXCEPT ![w] = NULL]
      /\ semaphore' = [semaphore EXCEPT ![w] = Increment(@)]
      /\ SameOrder(ready2run, ready2run')
  BY SlotsDiffer, SignalsSafe DEF KernelInv
<1> QED BY <1>1 DEF KernelInv, Queues

LEMMA KernelHead ==
  ASSUME KernelInv, NEW p, Runs(p)
  PROVE  /\ p \in Coroutine /\ p \in ToSet(ready2run) /\ p \notin ToSet(ll_pop_front(ready2run))
         /\ ll_pop_front(ready2run) \in Seq(Coroutine)
         /\ IsInjective(ll_pop_front(ready2run))
         /\ ToSet(ll_pop_front(ready2run)) = ToSet(ready2run) \ {p}
         /\ \A w \in Waitable : waitchain[w] # p
BY SlotsDiffer, HeadFacts DEF KernelInv

LEMMA KernelLeaves ==
  ASSUME KernelInv, NEW p, Runs(p), Leaves(p), UNCHANGED waitchain,
         semaphore' \in [Waitable -> Int8]
  PROVE  /\ KernelInv' /\ ToSet(ready2run') = ToSet(ready2run) \ {p}
         /\ \A x, y : Before(ready2run', x, y) <=> x # p /\ Before(ready2run, x, y)
<1>1. /\ Queues(Coroutine, Waitable)' /\ ToSet(ready2run') = ToSet(ready2run) \ {p}
      /\ \A x, y : Before(ready2run', x, y) <=> x # p /\ Before(ready2run, x, y)
  BY SlotsDiffer, LeavesSafe DEF KernelInv
<1> QED BY <1>1 DEF KernelInv

LEMMA KernelChains ==
  ASSUME KernelInv, NEW p, NEW w \in Waitable, Runs(p), Chains(p, w),
         p = i2cdriverblock <=> w = newcmdswaitable
  PROVE  /\ KernelInv' /\ ToSet(ready2run') = ToSet(ready2run) \ {p}
         /\ waitchain' = [waitchain EXCEPT ![w] = p]
         /\ semaphore' = semaphore /\ semaphore[w] <= 0
         /\ \A x, y : Before(ready2run', x, y) <=> x # p /\ Before(ready2run, x, y)
<1>1. /\ Queues(Coroutine, Waitable)' /\ ToSet(ready2run') = ToSet(ready2run) \ {p}
      /\ waitchain' = [waitchain EXCEPT ![w] = p]
      /\ semaphore' = semaphore /\ semaphore[w] <= 0
      /\ \A x, y : Before(ready2run', x, y) <=> x # p /\ Before(ready2run, x, y)
  BY SlotsDiffer, ChainsSafe DEF KernelInv
<1> QED BY <1>1 DEF KernelInv, Queues

LEMMA KernelTakes ==
  ASSUME KernelInv, NEW w \in Waitable, Takes(w)
  PROVE  /\ KernelInv' /\ UNCHANGED <<ready2run, waitchain>>
         /\ semaphore[w] > 0 /\ semaphore' = [semaphore EXCEPT ![w] = @ - 1]
<1>1. /\ Queues(Coroutine, Waitable)' /\ UNCHANGED <<ready2run, waitchain>>
      /\ semaphore[w] > 0 /\ semaphore' = [semaphore EXCEPT ![w] = @ - 1]
  BY TakesSafe DEF KernelInv
<1> QED BY <1>1 DEF KernelInv

LEMMA KernelYields ==
  ASSUME KernelInv, NEW p, Runs(p), Yields(p), UNCHANGED <<waitchain, semaphore>>
  PROVE  /\ KernelInv' /\ ToSet(ready2run') = ToSet(ready2run)
         /\ \A x, y : y # p =>
              (Before(ready2run', x, y) <=> x # p /\ Before(ready2run, x, y))
<1>1. /\ Queues(Coroutine, Waitable)' /\ ToSet(ready2run') = ToSet(ready2run)
      /\ \A x, y : y # p =>
           (Before(ready2run', x, y) <=> x # p /\ Before(ready2run, x, y))
  BY SlotsDiffer, YieldsSafe DEF KernelInv
<1> QED BY <1>1 DEF KernelInv

\* init() starts the driver, behind the others but for the client that calls.
LEMMA KernelStarts ==
  ASSUME KernelInv, NEW p, NEW new \in Coroutine, Runs(p), Starts(p, new),
         new \notin ToSet(ready2run),
         waitchain' = [waitchain EXCEPT ![newcmdswaitable] = NULL],
         semaphore' = [semaphore EXCEPT ![newcmdswaitable] = 0],
         \A w \in Waitable \ {newcmdswaitable} : waitchain[w] # new
  PROVE  /\ KernelInv' /\ ToSet(ready2run') = ToSet(ready2run) \cup {new}
         /\ Before(ready2run', new, p)
         /\ \A x \in ToSet(ready2run) : x # p => Before(ready2run', x, new)
         /\ \A x, y : y \notin {p, new} =>
              (Before(ready2run', x, y) <=> x # p /\ Before(ready2run, x, y))
<1>1. /\ waitchain' \in [Waitable -> Coroutine \cup {NULL}]
      /\ semaphore' \in [Waitable -> Int8]
      /\ \A w \in Waitable : waitchain'[w] \in {waitchain[w], NULL} /\ waitchain'[w] # new
  BY SlotsDiffer, Int8Has DEF KernelInv, Queues
<1>2. /\ Queues(Coroutine, Waitable)' /\ ToSet(ready2run') = ToSet(ready2run) \cup {new}
      /\ Before(ready2run', new, p)
      /\ \A x \in ToSet(ready2run) : x # p => Before(ready2run', x, new)
      /\ \A x, y : y \notin {p, new} =>
           (Before(ready2run', x, y) <=> x # p /\ Before(ready2run, x, y))
  BY <1>1, SlotsDiffer, StartsSafe DEF KernelInv
<1> QED BY <1>1, <1>2 DEF KernelInv, Queues

-----------------------------------------------------------------------------
(* Clients.  They touch neither the hardware nor what the driver does. *)

LEMMA ClientKeeps ==
  ASSUME I2CInv, TypeOK', KernelInv',
         UNCHANGED <<flags, drv, hardware, success>>,
         waitchain'[newcmdswaitable] \in {waitchain[newcmdswaitable], NULL},
         \/ drv = "wait"
         \/ i2cdriverblock \in ToSet(ready2run') <=> i2cdriverblock \in ToSet(ready2run),
         \A c \in Client : fate'[c] \in {"sent", "failed"} => fate'[c] = fate[c]
  PROVE  I2CInv'
<1>1. DriverInv'
  BY DEF I2CInv, DriverInv, Asleep
<1>2. HardwareInv'
  BY DEF I2CInv, HardwareInv, TransferInv, AtRest
<1>3. SuccessIsTrue'
  BY DEF I2CInv, SuccessIsTrue
<1> QED BY <1>1, <1>2, <1>3 DEF I2CInv

\* A signal for the driver finds it chained only while it waits.
LEMMA SignalDriver ==
  ASSUME I2CInv, Signals(newcmdswaitable)
  PROVE  /\ KernelInv' /\ waitchain'[newcmdswaitable] = NULL
         /\ \/ drv = "wait"
            \/ i2cdriverblock \in ToSet(ready2run') <=> i2cdriverblock \in ToSet(ready2run)
<1>1. /\ KernelInv'
      /\ ToSet(ready2run') = ToSet(ready2run) \cup ({waitchain[newcmdswaitable]} \ {NULL})
      /\ waitchain' = [waitchain EXCEPT ![newcmdswaitable] = NULL]
  BY KernelSignals, SlotsDiffer DEF I2CInv
<1>2. waitchain'[newcmdswaitable] = NULL
  BY <1>1, SlotsDiffer DEF I2CInv, KernelInv, Queues
<1> QED BY <1>1, <1>2 DEF I2CInv, DriverInv

LEMMA Step_queue_cmds ==
  ASSUME I2CInv, NEW c \in Client, queue_cmds(c)
  PROVE  I2CInv'
<1>1. /\ Runs(c) /\ pc[c] = "app" /\ c # i2cdriverblock
      /\ pc' = [pc EXCEPT ![c] = "put"] /\ UNCHANGED <<slot, success, reads, fate>>
  BY DEF queue_cmds, Executes, I2CInv, TypeOK
<1>2. CASE drv # "off"
  <2>1. UNCHANGED <<kernel, ring, flags, drv, drivershouldexit, hardware>>
    BY <1>2 DEF queue_cmds
  <2>2. KernelInv'
    BY <2>1 DEF I2CInv, KernelInv, Queues
  <2>3. TypeOK'
    BY <1>1, <2>1 DEF I2CInv, TypeOK
  <2> QED BY <1>1, <2>1, <2>2, <2>3, ClientKeeps
<1>3. CASE drv = "off"
  <2>1. /\ init /\ Starts(c, i2cdriverblock)
        /\ waitchain' = [waitchain EXCEPT ![newcmdswaitable] = NULL]
        /\ semaphore' = [semaphore EXCEPT ![newcmdswaitable] = 0]
        /\ drv' = "start" /\ UNCHANGED <<cmdringbuffer, flags, hardware>>
    BY <1>3 DEF queue_cmds, init
  <2>2. /\ i2cdriverblock \notin ToSet(ready2run) /\ i2cdriverblock \in Coroutine
        /\ \A w \in Waitable \ {newcmdswaitable} : waitchain[w] # i2cdriverblock
    BY <1>3, SlotsDiffer DEF I2CInv, DriverInv, KernelInv, Queues, Asleep, Coroutine
  <2>3. KernelInv'
    BY <1>1, <2>1, <2>2, KernelStarts DEF I2CInv
  <2>4. TypeOK'
    <3>1. rb_init_ringbuffer \in Ring
      BY RingSteps DEF I2CInv, TypeOK
    <3>2. cmdindices' = rb_init_ringbuffer /\ drivershouldexit' = FALSE
      BY <2>1 DEF init
    <3> QED BY <1>1, <2>1, <2>3, <3>1, <3>2
               DEF I2CInv, TypeOK, KernelInv, Queues, Coroutine
  <2>5. DriverInv'
    BY <2>1, SlotsDiffer DEF DriverInv, I2CInv, KernelInv, Queues
  <2>6. HardwareInv'
    BY <1>3, <2>1 DEF I2CInv, HardwareInv, AtRest
  <2>7. SuccessIsTrue'
    BY <1>1 DEF I2CInv, SuccessIsTrue
  <2> QED BY <1>1, <2>3, <2>4, <2>5, <2>6, <2>7 DEF I2CInv
<1> QED BY <1>2, <1>3

LEMMA Step_put ==
  ASSUME I2CInv, NEW c \in Client, NEW r \in BOOLEAN, put(c, r)
  PROVE  I2CInv'
<1>1. PICK s : s = cmdindices.end
  OBVIOUS
<1>2. s \in Slot /\ rb_push_back(cmdindices) \in Ring
  BY <1>1, RingSteps DEF I2CInv, TypeOK
<1>3. /\ pc[c] = "put" /\ Signals(newcmdswaitable)
      /\ cmdindices' = rb_push_back(cmdindices)
      /\ cmdringbuffer' = [cmdringbuffer EXCEPT ![s] = c]
      /\ pc' = [pc EXCEPT ![c] = "app"]
      /\ slot' = [slot EXCEPT ![c] = s]
      /\ reads' = [reads EXCEPT ![c] = r]
      /\ fate' = [fate EXCEPT ![c] = "queued"]
      /\ UNCHANGED <<success, flags, drv, drivershouldexit, hardware>>
  BY <1>1 DEF put
<1>4. /\ KernelInv' /\ waitchain'[newcmdswaitable] = NULL
      /\ \/ drv = "wait"
         \/ i2cdriverblock \in ToSet(ready2run') <=> i2cdriverblock \in ToSet(ready2run)
  BY <1>3, SignalDriver
<1>5. TypeOK'
  BY <1>2, <1>3, <1>4 DEF I2CInv, TypeOK, KernelInv, Queues, Coroutine
<1>6. \A d \in Client : fate'[d] \in {"sent", "failed"} => fate'[d] = fate[d]
  BY <1>3 DEF I2CInv, TypeOK
<1> QED BY <1>3, <1>4, <1>5, <1>6, ClientKeeps

\* What Takes and Chains do, called by a client for a slot.
LEMMA ClientWaits ==
  ASSUME I2CInv, NEW c \in Client, NEW s \in Slot, Runs(c), Takes(s) \/ Chains(c, s)
  PROVE  /\ KernelInv' /\ waitchain'[newcmdswaitable] = waitchain[newcmdswaitable]
         /\ i2cdriverblock \in ToSet(ready2run') <=> i2cdriverblock \in ToSet(ready2run)
<1>1. /\ KernelInv /\ s \in Waitable /\ s # newcmdswaitable /\ c # i2cdriverblock
      /\ newcmdswaitable \in Waitable
      /\ waitchain \in [Waitable -> Coroutine \cup {NULL}]
  BY SlotsDiffer DEF I2CInv, KernelInv, Queues
<1>2. CASE Takes(s)
  BY <1>1, <1>2, KernelTakes
<1>3. CASE Chains(c, s)
  <2>1. /\ KernelInv' /\ ToSet(ready2run') = ToSet(ready2run) \ {c}
        /\ waitchain' = [waitchain EXCEPT ![s] = c]
    BY <1>1, <1>3, KernelChains
  <2> QED BY <1>1, <2>1
<1> QED BY <1>2, <1>3

LEMMA Step_wait ==
  ASSUME I2CInv, NEW c \in Client, wait(c)
  PROVE  I2CInv'
<1>1. /\ KernelInv' /\ waitchain'[newcmdswaitable] = waitchain[newcmdswaitable]
      /\ i2cdriverblock \in ToSet(ready2run') <=> i2cdriverblock \in ToSet(ready2run)
  BY ClientWaits DEF wait, Executes, I2CInv, TypeOK
<1>2. /\ \/ /\ pc' = [pc EXCEPT ![c] = "app"]
            /\ slot' = [slot EXCEPT ![c] = NULL]
         \/ pc' = [pc EXCEPT ![c] = "wait"] /\ slot' = slot
      /\ UNCHANGED <<success, reads, fate, ring, flags, drv, drivershouldexit, hardware>>
  BY DEF wait
<1>3. TypeOK'
  <2>1. /\ pc' \in [Client -> {"app", "put", "wait"}]
        /\ slot' \in [Client -> Slot \cup {NULL}]
    BY <1>2 DEF I2CInv, TypeOK
  <2> QED BY <1>1, <1>2, <2>1 DEF I2CInv, TypeOK, KernelInv, Queues, Coroutine
<1> QED BY <1>1, <1>2, <1>3, ClientKeeps

LEMMA Step_forget ==
  ASSUME I2CInv, NEW c \in Client, forget(c)
  PROVE  I2CInv'
<1>1. /\ pc[c] = "app" /\ slot[c] # NULL
      /\ cmdringbuffer' = [cmdringbuffer EXCEPT ![slot[c]] = IF @ = c THEN NULL ELSE @]
      /\ slot' = [slot EXCEPT ![c] = NULL]
      /\ reads' = [reads EXCEPT ![c] = FALSE]
      /\ fate' = [fate EXCEPT ![c] = "none"]
      /\ UNCHANGED <<kernel, cmdindices, pc, success, flags, drv, drivershouldexit, hardware>>
  BY DEF forget
<1>2. KernelInv'
  BY <1>1 DEF I2CInv, KernelInv, Queues
<1>3. TypeOK'
  <2>1. slot[c] \in Slot
    BY <1>1 DEF I2CInv, TypeOK
  <2>2. /\ cmdringbuffer' \in [Slot -> Client \cup {NULL}]
        /\ slot' \in [Client -> Slot \cup {NULL}]
        /\ reads' \in [Client -> BOOLEAN]
        /\ fate' \in [Client -> {"none", "queued", "sent", "failed"}]
    BY <1>1, <2>1 DEF I2CInv, TypeOK
  <2> QED BY <1>1, <2>2 DEF I2CInv, TypeOK
<1>4. \A d \in Client : fate'[d] \in {"sent", "failed"} => fate'[d] = fate[d]
  BY <1>1 DEF I2CInv, TypeOK
<1> QED BY <1>1, <1>2, <1>3, <1>4, ClientKeeps

LEMMA Step_yield ==
  ASSUME I2CInv, NEW c \in Client, yield(c)
  PROVE  I2CInv'
<1>1. /\ Runs(c) /\ Yields(c)
      /\ UNCHANGED <<waitchain, semaphore, ring, flags, drv, drivershouldexit, client, hardware>>
  BY DEF yield, Executes
<1>2. KernelInv' /\ ToSet(ready2run') = ToSet(ready2run)
  BY <1>1, KernelYields DEF I2CInv
<1>3. TypeOK'
  BY <1>1, <1>2 DEF I2CInv, TypeOK, KernelInv, Queues, Coroutine
<1> QED BY <1>1, <1>2, <1>3, ClientKeeps

LEMMA Step_stop_i2c_driver_async ==
  ASSUME I2CInv, NEW c \in Client, stop_i2c_driver_async(c)
  PROVE  I2CInv'
<1>1. /\ Signals(newcmdswaitable) /\ drivershouldexit' = TRUE
      /\ UNCHANGED <<ring, flags, drv, client, hardware>>
  BY DEF stop_i2c_driver_async
<1>2. /\ KernelInv' /\ waitchain'[newcmdswaitable] = NULL
      /\ \/ drv = "wait"
         \/ i2cdriverblock \in ToSet(ready2run') <=> i2cdriverblock \in ToSet(ready2run)
  BY <1>1, SignalDriver
<1>3. TypeOK'
  BY <1>1, <1>2 DEF I2CInv, TypeOK, KernelInv, Queues, Coroutine
<1> QED BY <1>1, <1>2, <1>3, ClientKeeps

-----------------------------------------------------------------------------
(* The driver. *)

\* When it goes on the transfer is over: whatever ended it, the controller and
\* both channels are at rest, and wasaborted tells what became of it.
LEMMA TransferOver ==
  ASSUME I2CInv, Executes(i2cdriverblock), drv = "xfer"
  PROVE  /\ tx_empty /\ ~tx_abrt /\ readdma = "off" /\ writedma = "off"
         /\ aborted = wasaborted
<1>1. i2cdriverblock \in ToSet(ready2run) /\ ~DMAPending
  BY KernelHead DEF Executes, I2CInv
<1>2. haswokenup /\ TransferInv
  BY <1>1 DEF I2CInv, DriverInv, HardwareInv, Asleep
<1>3. tx_empty /\ ~tx_abrt /\ readdma # "on" /\ writedma # "on"
      /\ (aborted <=> wasaborted)
  BY <1>2 DEF TransferInv
<1>4. /\ readdma \in {"off", "on", "done"} /\ writedma \in {"off", "on", "done"}
      /\ aborted \in BOOLEAN /\ wasaborted \in BOOLEAN
  BY DEF I2CInv, TypeOK
<1> QED BY <1>1, <1>3, <1>4 DEF DMAPending

LEMMA Step_drv_begin ==
  ASSUME I2CInv, drv_begin
  PROVE  I2CInv'
<1>1. /\ Runs(i2cdriverblock) /\ Leaves(i2cdriverblock) /\ drv \in {"start", "top"}
      /\ datawritecaused' = FALSE /\ writedma' = "on"
      /\ wasaborted' = FALSE /\ aborted' = FALSE /\ haswokenup' = FALSE
      /\ intr_mask' = {"TX_ABRT"} /\ irq_enabled' = TRUE /\ drv' = "xfer"
      /\ UNCHANGED <<waitchain, semaphore, ring, drivershouldexit, client, tx_abrt, tx_empty>>
  BY DEF drv_begin, Executes
<1>2. PICK r \in BOOLEAN :
        /\ datareadcaused' = ~r
        /\ readdma' = IF r THEN "on" ELSE readdma
  BY DEF drv_begin
<1>3. KernelInv' /\ ToSet(ready2run') = ToSet(ready2run) \ {i2cdriverblock}
  BY <1>1, KernelLeaves DEF I2CInv, KernelInv, Queues
<1>4. AtRest
  BY <1>1 DEF I2CInv, HardwareInv
<1>5. HardwareInv'
  BY <1>1, <1>2, <1>4 DEF HardwareInv, TransferInv, AtRest
<1>6. DriverInv'
  <2>1. waitchain[newcmdswaitable] = NULL
    BY <1>1 DEF I2CInv, DriverInv
  <2> QED BY <1>1, <1>3, <2>1 DEF DriverInv, Asleep
<1>7. TypeOK'
  BY <1>1, <1>2, <1>3 DEF I2CInv, TypeOK, KernelInv, Queues, Coroutine
<1>8. SuccessIsTrue'
  BY <1>1 DEF I2CInv, SuccessIsTrue
<1> QED BY <1>3, <1>5, <1>6, <1>7, <1>8 DEF I2CInv

LEMMA Step_drv_idle ==
  ASSUME I2CInv, drv_idle
  PROVE  I2CInv'
<1>1. /\ drv \in {"start", "top"} /\ drv' = "wait"
      /\ UNCHANGED <<kernel, ring, flags, drivershouldexit, client, hardware>>
  BY DEF drv_idle
<1>2. KernelInv' /\ TypeOK'
  BY <1>1 DEF I2CInv, KernelInv, Queues, TypeOK
<1> QED BY <1>1, <1>2 DEF I2CInv, DriverInv, HardwareInv, AtRest, SuccessIsTrue

LEMMA Step_drv_finish ==
  ASSUME I2CInv, drv_finish
  PROVE  I2CInv'
<1>1. PICK c : c = cmdringbuffer[FrontSlot]
  OBVIOUS
<1>2. /\ Executes(i2cdriverblock) /\ drv = "xfer" /\ irq_enabled' = FALSE
      /\ success' = IF c = NULL THEN success ELSE [success EXCEPT ![c] = ~wasaborted]
      /\ fate' = IF c = NULL THEN fate
                 ELSE [fate EXCEPT ![c] = IF aborted THEN "failed" ELSE "sent"]
      /\ reads' = IF c = NULL THEN reads ELSE [reads EXCEPT ![c] = FALSE]
      /\ Signals(FrontSlot)
      /\ cmdindices' = rb_pop_front(cmdindices)
      /\ drv' = "wait"
      /\ UNCHANGED <<cmdringbuffer, flags, drivershouldexit, pc, slot,
                     readdma, writedma, tx_abrt, tx_empty, intr_mask, aborted>>
  BY <1>1 DEF drv_finish
<1>3. FrontSlot \in Slot /\ rb_pop_front(cmdindices) \in Ring /\ c \in Client \cup {NULL}
  BY <1>1, RingSteps DEF I2CInv, TypeOK, rb_peek_front
<1>4. KernelInv'
  BY <1>2, <1>3, KernelSignals, SlotsDiffer DEF I2CInv
<1>5. TypeOK'
  <2>1. /\ success' \in [Client -> BOOLEAN] /\ reads' \in [Client -> BOOLEAN]
        /\ fate' \in [Client -> {"none", "queued", "sent", "failed"}]
    BY <1>2, <1>3 DEF I2CInv, TypeOK
  <2>2. irq_enabled' \in BOOLEAN /\ cmdindices' \in Ring
    BY <1>2, <1>3
  <2> QED BY <1>2, <1>4, <2>1, <2>2 DEF I2CInv, TypeOK, KernelInv, Queues, Coroutine
<1>6. HardwareInv' /\ DriverInv'
  BY <1>2, TransferOver DEF HardwareInv, AtRest, DriverInv
<1>7. SuccessIsTrue'
  <2>1. /\ aborted = wasaborted /\ wasaborted \in BOOLEAN
        /\ success \in [Client -> BOOLEAN]
        /\ fate \in [Client -> {"none", "queued", "sent", "failed"}]
    BY <1>2, TransferOver DEF I2CInv, TypeOK
  <2> QED BY <1>2, <1>3, <2>1 DEF I2CInv, SuccessIsTrue
<1> QED BY <1>4, <1>5, <1>6, <1>7 DEF I2CInv

LEMMA Step_drv_wait ==
  ASSUME I2CInv, drv_wait
  PROVE  I2CInv'
<1>1. /\ Runs(i2cdriverblock) /\ drv = "wait" /\ AtRest
      /\ UNCHANGED <<ring, flags, drivershouldexit, client, readdma, writedma,
                     tx_abrt, tx_empty, intr_mask, aborted>>
  BY DEF drv_wait, Executes, I2CInv, HardwareInv
<1>2. waitchain[newcmdswaitable] = NULL
  BY <1>1, KernelHead, SlotsDiffer DEF I2CInv, KernelInv, Queues
<1>3. SuccessIsTrue'
  BY <1>1 DEF I2CInv, SuccessIsTrue
<1>4. ASSUME KernelInv', drv' \in {"off", "top", "wait"},
             irq_enabled' \in {irq_enabled, FALSE}
      PROVE  TypeOK' /\ HardwareInv'
  <2>1. irq_enabled = FALSE /\ irq_enabled' = FALSE
    BY <1>1, <1>4 DEF AtRest, I2CInv, TypeOK
  <2>2. HardwareInv'
    BY <1>1, <1>4, <2>1 DEF HardwareInv, AtRest
  <2>3. drv' \in {"off", "start", "top", "xfer", "wait"} /\ irq_enabled' \in BOOLEAN
    BY <1>4, <2>1
  <2>4. /\ ready2run' \in Seq(Client \cup {i2cdriverblock})
        /\ waitchain' \in [Waitable -> Client \cup {i2cdriverblock, NULL}]
        /\ semaphore' \in [Waitable -> Int8]
    BY <1>4 DEF KernelInv, Queues, Coroutine
  <2>5. TypeOK'
    BY <1>1, <2>3, <2>4 DEF I2CInv, TypeOK
  <2> QED BY <2>2, <2>5
<1>5. CASE Takes(newcmdswaitable) /\ drv' = "top" /\ irq_enabled' = irq_enabled
  <2>1. KernelInv' /\ waitchain' = waitchain
    BY <1>5, KernelTakes, SlotsDiffer DEF I2CInv
  <2> QED BY <1>2, <1>3, <1>4, <1>5, <2>1 DEF I2CInv, DriverInv
<1>6. CASE /\ semaphore[newcmdswaitable] > 0 /\ waitchain' = waitchain
           /\ semaphore' = [semaphore EXCEPT ![newcmdswaitable] = @ - 1]
           /\ drv' = "off" /\ irq_enabled' = FALSE
           /\ Leaves(i2cdriverblock)
  <2>1. /\ ready2run' = ll_pop_front(ready2run)
        /\ semaphore' \in [Waitable -> Int8]
    <3>1. semaphore \in [Waitable -> Int8]
      BY DEF I2CInv, KernelInv, Queues
    <3>2. semaphore[newcmdswaitable] - 1 \in Int8
      BY <1>6, <3>1, SlotsDiffer, Int8Facts
    <3> QED BY <1>6, <3>1, <3>2, SlotsDiffer DEF Leaves
  <2>2. KernelInv' /\ i2cdriverblock \notin ToSet(ready2run')
    BY <1>1, <1>6, <2>1, KernelHead DEF I2CInv, KernelInv, Queues
  <2> QED BY <1>2, <1>3, <1>4, <1>6, <2>2 DEF I2CInv, DriverInv, Asleep
<1>7. CASE /\ Chains(i2cdriverblock, newcmdswaitable)
           /\ UNCHANGED <<drv, irq_enabled>>
  <2>1. KernelInv'
    BY <1>1, <1>7, KernelChains, SlotsDiffer DEF I2CInv
  <2> QED BY <1>1, <1>3, <1>4, <1>7, <2>1 DEF I2CInv, DriverInv
<1> QED BY <1>5, <1>6, <1>7 DEF drv_wait, deinit

-----------------------------------------------------------------------------
(* Interrupts and hardware.  Outside of a transfer there are none. *)

LEMMA HardwareKeeps ==
  ASSUME I2CInv, TypeOK', TransferInv', drv = "xfer",
         UNCHANGED <<kernel, drv, haswokenup, client>>
  PROVE  I2CInv'
<1>1. KernelInv'
  BY DEF I2CInv, KernelInv, Queues
<1>2. DriverInv'
  BY DEF I2CInv, DriverInv, Asleep
<1> QED BY <1>1, <1>2 DEF I2CInv, HardwareInv, SuccessIsTrue

\* An abort stops both channels, and an empty fifo comes after both: nobody
\* is left to wake the driver a second time.
LEMMA Step_i2chandler ==
  ASSUME I2CInv, i2chandler
  PROVE  I2CInv'
<1>1. /\ drv = "xfer" /\ TransferInv
      /\ irq_enabled /\ (tx_abrt \/ (tx_empty /\ "TX_EMPTY" \in intr_mask))
  BY DEF i2chandler, I2CPending, I2CInv, HardwareInv, AtRest
<1>2. /\ readdma \in {"off", "on", "done"} /\ writedma \in {"off", "on", "done"}
      /\ intr_mask \subseteq {"TX_ABRT", "TX_EMPTY"}
      /\ {tx_abrt, wasaborted, haswokenup} \subseteq BOOLEAN
  BY DEF I2CInv, TypeOK
<1>3. /\ wake_driver
      /\ UNCHANGED <<waitchain, semaphore, ring, datareadcaused, datawritecaused,
                     drv, drivershouldexit, client, tx_empty, irq_enabled, aborted>>
  BY DEF i2chandler
<1>4. \/ /\ tx_abrt /\ wasaborted' = TRUE /\ tx_abrt' = FALSE
         /\ readdma' # "on" /\ writedma' # "on"
         /\ readdma = "off" => readdma' = "off"
         /\ writedma = "off" => writedma' = "off"
         /\ intr_mask' = intr_mask
      \/ /\ ~tx_abrt /\ tx_empty /\ "TX_EMPTY" \in intr_mask
         /\ intr_mask' = intr_mask \ {"TX_EMPTY"}
         /\ UNCHANGED <<wasaborted, tx_abrt, readdma, writedma>>
  <2>1. CASE tx_abrt
    <3>1. /\ wasaborted' = TRUE /\ tx_abrt' = FALSE /\ intr_mask' = intr_mask
          /\ Cancelled(readdma, readdma') /\ Cancelled(writedma, writedma')
      BY <1>1, <2>1 DEF i2chandler, TransferInv
    <3> QED BY <2>1, <3>1 DEF Cancelled
  <2>2. CASE ~tx_abrt
    BY <1>1, <2>2 DEF i2chandler
  <2> QED BY <2>1, <2>2
<1>5. /\ readdma' \in {"off", "on", "done"} /\ writedma' \in {"off", "on", "done"}
  BY <1>2 DEF i2chandler, Cancelled
<1>6. haswokenup' = TRUE
  BY <1>2, <1>3 DEF wake_driver
<1>7. TransferInv'
  BY <1>1, <1>3, <1>4, <1>6 DEF TransferInv
<1>8. KernelInv' /\ DriverInv'
  <2>1. CASE haswokenup
    <3>1. ready2run' = ready2run
      BY <1>3, <2>1 DEF wake_driver
    <3> QED BY <1>1, <1>3, <1>6, <2>1, <3>1
            DEF I2CInv, KernelInv, Queues, DriverInv, Asleep
  <2>2. CASE ~haswokenup
    <3>1. /\ ready2run' = ll_push_back(ready2run, i2cdriverblock)
          /\ i2cdriverblock \notin ToSet(ready2run) /\ waitchain[newcmdswaitable] = NULL
          /\ i2cdriverblock \in Coroutine
      BY <1>1, <1>3, <2>2 DEF wake_driver, Wakes, I2CInv, DriverInv, Asleep, Coroutine
    <3>2. /\ ready2run' \in Seq(Coroutine) /\ IsInjective(ready2run')
          /\ ToSet(ready2run') = ToSet(ready2run) \cup {i2cdriverblock}
      BY <3>1, Pushed DEF I2CInv, KernelInv, Queues
    <3>3. \A w \in Waitable : waitchain[w] # i2cdriverblock
      BY <3>1, SlotsDiffer DEF I2CInv, KernelInv, Queues
    <3>4. KernelInv'
      BY <1>3, <3>2, <3>3 DEF I2CInv, KernelInv, Queues
    <3> QED BY <1>1, <1>3, <1>6, <3>1, <3>2, <3>4 DEF DriverInv, Asleep
  <2> QED BY <2>1, <2>2
<1>9. TypeOK'
  <2>1. /\ intr_mask' \subseteq {"TX_ABRT", "TX_EMPTY"}
        /\ {tx_abrt', wasaborted', haswokenup'} \subseteq BOOLEAN
    BY <1>2, <1>4, <1>6
  <2> QED BY <1>3, <1>5, <1>8, <2>1 DEF I2CInv, TypeOK, KernelInv, Queues, Coroutine
<1>10. SuccessIsTrue'
  BY <1>3 DEF I2CInv, SuccessIsTrue
<1> QED BY <1>1, <1>3, <1>7, <1>8, <1>9, <1>10 DEF I2CInv, HardwareInv

\* TX_EMPTY is let in when both channels are through.
LEMMA Step_dma_irq_handler ==
  ASSUME I2CInv, dma_irq_handler
  PROVE  I2CInv'
<1>1. drv = "xfer" /\ TransferInv
  BY DEF dma_irq_handler, DMAPending, I2CInv, HardwareInv, AtRest
<1>2. PICK r \in BOOLEAN, w \in BOOLEAN :
        /\ r <=> datareadcaused \/ readdma = "done"
        /\ w <=> datawritecaused \/ writedma = "done"
  OBVIOUS
<1>3. /\ readdma' = Acked(readdma) /\ writedma' = Acked(writedma)
      /\ datareadcaused' = (r /\ ~w) /\ datawritecaused' = (w /\ ~r)
      /\ intr_mask' = IF r /\ w THEN intr_mask \cup {"TX_EMPTY"} ELSE intr_mask
      /\ UNCHANGED <<kernel, ring, haswokenup, wasaborted, drv, drivershouldexit,
                     client, tx_abrt, tx_empty, irq_enabled, aborted>>
  BY <1>2 DEF dma_irq_handler
<1>4. /\ readdma \in {"off", "on", "done"} /\ writedma \in {"off", "on", "done"}
      /\ intr_mask \subseteq {"TX_ABRT", "TX_EMPTY"}
  BY DEF I2CInv, TypeOK
<1>5. /\ readdma' = IF readdma = "on" THEN "on" ELSE "off"
      /\ writedma' = IF writedma = "on" THEN "on" ELSE "off"
  BY <1>3, <1>4 DEF Acked
<1>6. TransferInv'
  BY <1>1, <1>2, <1>3, <1>4, <1>5 DEF TransferInv
<1>7. TypeOK'
  <2>1. /\ readdma' \in {"off", "on", "done"} /\ writedma' \in {"off", "on", "done"}
        /\ intr_mask' \subseteq {"TX_ABRT", "TX_EMPTY"}
        /\ datareadcaused' \in BOOLEAN /\ datawritecaused' \in BOOLEAN
    BY <1>3, <1>4, <1>5
  <2> QED BY <1>3, <2>1 DEF I2CInv, TypeOK
<1> QED BY <1>1, <1>3, <1>6, <1>7, HardwareKeeps

LEMMA Step_Hardware ==
  ASSUME I2CInv, Hardware \/ Abort
  PROVE  I2CInv'
<1>1. drv = "xfer" /\ TransferInv
  BY DEF Hardware, WriteDone, ReadDone, Drained, Abort, I2CInv, HardwareInv, AtRest
<1>2. /\ UNCHANGED software /\ irq_enabled' = irq_enabled /\ intr_mask' = intr_mask
  BY DEF Hardware, WriteDone, ReadDone, Drained, Abort
<1>3. TransferInv'
  <2>1. CASE WriteDone
    <3>1. /\ writedma = "on" /\ writedma' = "done"
          /\ tx_abrt => tx_empty' = TRUE
          /\ UNCHANGED <<readdma, tx_abrt, aborted>>
      BY <2>1 DEF WriteDone
    <3>2. ~haswokenup /\ ~datawritecaused /\ "TX_EMPTY" \notin intr_mask
      BY <1>1, <3>1 DEF TransferInv
    <3> QED BY <1>1, <1>2, <3>1, <3>2 DEF TransferInv
  <2>2. CASE ReadDone
    BY <1>1, <1>2, <2>2 DEF ReadDone, TransferInv
  <2>3. CASE Drained
    BY <1>1, <1>2, <2>3 DEF Drained, TransferInv
  <2>4. CASE Abort
    BY <1>1, <1>2, <2>4 DEF Abort, TransferInv
  <2> QED BY <2>1, <2>2, <2>3, <2>4 DEF Hardware
<1>4. TypeOK'
  <2>1. /\ readdma' \in {"off", "on", "done"} /\ writedma' \in {"off", "on", "done"}
        /\ {tx_abrt', tx_empty', aborted'} \subseteq BOOLEAN
    BY DEF Hardware, WriteDone, ReadDone, Drained, Abort, I2CInv, TypeOK
  <2> QED BY <1>2, <2>1 DEF I2CInv, TypeOK
<1> QED BY <1>1, <1>2, <1>3, <1>4, HardwareKeeps

-----------------------------------------------------------------------------
LEMMA I2CInitial == Init => I2CInv
<1> SUFFICES ASSUME Init PROVE I2CInv
  OBVIOUS
<1>1. Cardinality(Client) \in Nat
  BY FS_CardinalityType
<1>2. ready2run \in [1..Cardinality(Client) -> Client] /\ IsInjective(ready2run)
  BY DEF Init
<1>3. ready2run \in Seq(Client)
  BY <1>1, <1>2, IsASeq
<1>4. ready2run \in Seq(Coroutine) /\ i2cdriverblock \notin ToSet(ready2run)
  BY <1>2, <1>3 DEF Coroutine, ToSet
<1>5. rb_init_ringbuffer \in Ring
  BY DEF rb_init_ringbuffer, Ring, Slot
<1>6. KernelInv /\ TypeOK
  BY <1>2, <1>4, <1>5, Int8Has DEF Init, KernelInv, Queues, TypeOK, Coroutine
<1> QED BY <1>4, <1>6, SlotsDiffer
        DEF Init, I2CInv, DriverInv, HardwareInv, AtRest, SuccessIsTrue, Asleep

LEMMA I2CNext == I2CInv /\ [Next]_vars => I2CInv'
<1> SUFFICES ASSUME I2CInv, [Next]_vars PROVE I2CInv'
  OBVIOUS
<1>1. CASE UNCHANGED vars
  <2>1. KernelInv' /\ TypeOK'
    BY <1>1 DEF I2CInv, KernelInv, Queues, TypeOK
  <2> QED BY <1>1, <2>1 DEF I2CInv, DriverInv, HardwareInv, TransferInv, AtRest,
                           SuccessIsTrue, Asleep
<1>2. CASE Driver
  BY <1>2, Step_drv_begin, Step_drv_idle, Step_drv_finish, Step_drv_wait DEF Driver
<1>3. CASE Interrupt
  BY <1>3, Step_i2chandler, Step_dma_irq_handler DEF Interrupt
<1>4. CASE Hardware \/ Abort
  BY <1>4, Step_Hardware
<1>5. ASSUME NEW c \in Client,
             queue_cmds(c) \/ ClientGoesOn(c) \/ wait(c) \/ forget(c)
               \/ stop_i2c_driver_async(c)
      PROVE  I2CInv'
  BY <1>5, Step_queue_cmds, Step_put, Step_wait, Step_forget,
     Step_yield, Step_stop_i2c_driver_async DEF ClientGoesOn
<1> QED BY <1>1, <1>2, <1>3, <1>4, <1>5 DEF Next

-----------------------------------------------------------------------------
\* What the driver, its interrupt handlers and its hardware know of each other
\* agrees, whatever clients do.
THEOREM I2CInvariance == Spec => []I2CInv
BY I2CInitial, I2CNext, PTL DEF Spec

\* Every variable keeps its type: the indices stay in the ring buffer.
THEOREM I2CTypeCorrect == Spec => []TypeOK
<1>1. I2CInv => TypeOK
  BY DEF I2CInv
<1> QED BY <1>1, I2CInvariance, PTL

\* What *success says of a command is so: it was not aborted, or it was.
THEOREM SuccessTold == Spec => []SuccessIsTrue
<1>1. I2CInv => SuccessIsTrue
  BY DEF I2CInv
<1> QED BY <1>1, I2CInvariance, PTL

\* i2chandler() and dma_irq_handler() between them always wake the driver.
THEOREM DriverWoken == Spec => []TransferEnds
<1>1. I2CInv => TransferEnds
  BY DEF I2CInv, DriverInv, HardwareInv, TransferInv, TransferEnds
<1> QED BY <1>1, I2CInvariance, PTL

\* Each command finds the hardware as the one before it found it.
THEOREM QuietBetween == Spec => []HardwareQuiet
<1>1. I2CInv => HardwareQuiet
  BY TransferOver DEF I2CInv, HardwareInv, AtRest, HardwareQuiet
<1> QED BY <1>1, I2CInvariance, PTL

-----------------------------------------------------------------------------
(* With clients that keep to the contract of queue_cmds(), fewer of them than  *)
(* the ring buffer has slots: nobody is forgotten or taken for another one.   *)

Contract ==
  Lax = {} /\ Cardinality(Client) < RINGBUFFER_SIZE /\ RINGBUFFER_SIZE <= INT8_MAX

\* There is a command in each slot in use, and each belongs to a client.
QueueInv ==
  /\ \A c \in Client : /\ pc[c] = "put" => slot[c] = NULL
                       /\ pc[c] = "wait" => slot[c] # NULL
  /\ \A c \in Client : fate[c] = "queued" =>
       slot[c] \in InUse(cmdindices) /\ cmdringbuffer[slot[c]] = c
  /\ \A s \in InUse(cmdindices) : \E c \in Client :
       cmdringbuffer[s] = c /\ fate[c] = "queued" /\ slot[c] = s

\* A client goes on to wait when it has queued a command, and sleeps until that
\* has been carried out.
TurnInv ==
  /\ \A c \in Client : Asleep(c) => fate[c] = "queued"
  /\ \A c \in Client : fate[c] = "queued" =>
       \/ Runs(c) /\ pc[c] = "app"
       \/ Asleep(c) /\ pc[c] = "wait" /\ waitchain[slot[c]] = c
  /\ \A s \in Slot : waitchain[s] # NULL =>
       fate[waitchain[s]] = "queued" /\ slot[waitchain[s]] = s
  /\ Asleep(i2cdriverblock) =>
       drv \in {"off", "xfer"} \/ waitchain[newcmdswaitable] = i2cdriverblock

\* A client in queue_cmds() runs, or has started the driver, which is not told
\* to stop before it has the command.
PutInv ==
  \A c \in Client : pc[c] = "put" =>
    /\ drv # "off" /\ (Runs(c) \/ ~drivershouldexit)
    /\ drv = "start" => Before(ready2run, i2cdriverblock, c)

\* The command was carried out, and the client does not know.
Done(c) == slot[c] # NULL /\ fate[c] # "queued"

\* Clients that may queue a command before it is c's turn, one each.
Ahead(c) == {d \in Client : fate[d] # "queued" /\ Before(ready2run, d, c)}

\* The signal for a client stays until the client has taken it: before there
\* can be so many new commands that one gets its slot, and before a driver that
\* starts over with an empty ring buffer has run.
DoneInv ==
  /\ \A c \in Client : Done(c) =>
       /\ slot[c] \notin InUse(cmdindices) /\ semaphore[slot[c]] = 1
       /\ IF drv = "start" THEN Before(ready2run, c, i2cdriverblock)
          ELSE Cardinality(Ahead(c)) <= Steps(cmdindices.end, slot[c])
  /\ \A c, d \in Client : Done(c) /\ Done(d) /\ slot[c] = slot[d] => c = d
  /\ \A s \in Slot : semaphore[s] # 0 => \E c \in Client : Done(c) /\ slot[c] = s

\* One signal for each command and one to stop; the driver has taken one while
\* it sees to a command.
CountInv ==
  LET due == Used(cmdindices) + (IF drivershouldexit THEN 1 ELSE 0) IN
  /\ drv \in {"start", "wait"} => semaphore[newcmdswaitable] = due
  /\ drv \in {"top", "xfer"} =>
       semaphore[newcmdswaitable] + 1 = due /\ Used(cmdindices) > 0
  /\ drv \in {"off", "start"} => Used(cmdindices) = 0

ContractInv == I2CInv /\ QueueInv /\ TurnInv /\ PutInv /\ DoneInv /\ CountInv

LEMMA HeadOfQueue ==
  ASSUME I2CInv, NEW p, Runs(p)
  PROVE  /\ p \in Coroutine /\ ~Asleep(p) /\ \A q : Runs(q) => q = p
         /\ \A w \in Waitable : waitchain[w] # p
         /\ \A y \in ToSet(ready2run) : y # p => Before(ready2run, p, y)
         /\ \A x : ~Before(ready2run, x, p)
BY SlotsDiffer, HeadFacts DEF I2CInv, KernelInv, Asleep, Runs

\* signal() of a slot or of newcmdswaitable, while p runs.
LEMMA SignalFacts ==
  ASSUME I2CInv, NEW w \in Waitable, Signals(w), NEW p, Runs(p)
  PROVE  /\ ToSet(ready2run') = ToSet(ready2run) \cup ({waitchain[w]} \ {NULL})
         /\ waitchain'[w] = NULL /\ semaphore'[w] = Increment(semaphore[w])
         /\ \A v \in Waitable \ {w} :
              waitchain'[v] = waitchain[v] /\ semaphore'[v] = semaphore[v]
         /\ SameOrder(ready2run, ready2run') /\ Runs(p)'
<1>1. /\ ToSet(ready2run') = ToSet(ready2run) \cup ({waitchain[w]} \ {NULL})
      /\ waitchain' = [waitchain EXCEPT ![w] = NULL]
      /\ semaphore' = [semaphore EXCEPT ![w] = Increment(@)]
      /\ SameOrder(ready2run, ready2run')
  BY KernelSignals DEF I2CInv
<1>2. /\ waitchain \in [Waitable -> Coroutine \cup {NULL}]
      /\ semaphore \in [Waitable -> Int8] /\ ready2run \in Seq(Coroutine)
  BY DEF I2CInv, KernelInv, Queues
<1>3. Runs(p)'
  <2>1. CASE waitchain[w] = NULL
    BY <2>1 DEF Signals, Runs
  <2>2. CASE waitchain[w] # NULL
    <3>1. ready2run' = ll_push_back(ready2run, waitchain[w]) /\ waitchain[w] \in Coroutine
      BY <1>2, <2>2 DEF Signals, Wakes
    <3> QED BY <1>2, <3>1, RunsOn DEF Runs
  <2> QED BY <2>1, <2>2
<1> QED BY <1>1, <1>2, <1>3

\* Every client that sleeps has a command in the ring buffer.
LEMMA QueuedFacts ==
  ASSUME I2CInv, QueueInv, NEW c \in Client
  PROVE  /\ fate[c] = "queued" => slot[c] # NULL /\ slot[c] \in Slot
         /\ slot[c] # NULL => slot[c] \in Slot
         /\ pc[c] = "put" => fate[c] # "queued"
         /\ InUse(cmdindices) \subseteq Slot
BY InUseIsNear DEF I2CInv, TypeOK, QueueInv

LEMMA ReadyClients ==
  ASSUME I2CInv, Contract, QueueInv, NEW T \in SUBSET Client,
         \A c \in T : fate[c] # "queued"
  PROVE  /\ IsFiniteSet(T) /\ Cardinality(T) \in Nat /\ Used(cmdindices) \in Nat
         /\ Cardinality(T) + Used(cmdindices) < RINGBUFFER_SIZE
<1> DEFINE Q == {c \in Client : fate[c] = "queued"}
<1>1. /\ T \in SUBSET Client /\ Q \in SUBSET Client /\ T \cap Q = {} /\ IsFiniteSet(Client)
      /\ T \cup Q \in SUBSET Client
  OBVIOUS
<1>2. /\ IsFiniteSet(T) /\ IsFiniteSet(Q) /\ IsFiniteSet(T \cup Q)
      /\ Cardinality(T \cup Q) <= Cardinality(Client)
  BY <1>1, FS_Subset
<1>3. /\ IsFiniteSet(InUse(cmdindices)) /\ Cardinality(InUse(cmdindices)) = Used(cmdindices)
  BY InUseCount DEF I2CInv, TypeOK
<1>4. Used(cmdindices) <= Cardinality(Q)
  <2> DEFINE owner == [s \in InUse(cmdindices) |-> cmdringbuffer[s]]
  <2>1. owner \in [InUse(cmdindices) -> Q]
    BY DEF QueueInv
  <2>2. \A s, t \in InUse(cmdindices) : owner[s] = owner[t] => s = t
    BY DEF QueueInv
  <2> HIDE DEF owner, Q
  <2>3. owner \in Injection(InUse(cmdindices), Q)
    BY <2>1, <2>2 DEF Injection, IsInjective
  <2> QED BY <1>2, <1>3, <2>3, FS_Injection
<1> HIDE DEF Q
<1>5. /\ Cardinality(T) \in Nat /\ Cardinality(Q) \in Nat
      /\ Cardinality(Client) \in Nat /\ Used(cmdindices) \in Nat
  BY <1>1, <1>2, <1>3, FS_CardinalityType
<1>6. Cardinality(T \cup Q) = Cardinality(T) + Cardinality(Q)
  <2>1. Cardinality(T \cup Q) = Cardinality(T) + Cardinality(Q) - Cardinality(T \cap Q)
    BY <1>2, FS_Union
  <2>2. Cardinality(T \cap Q) = 0
    BY <1>1, FS_EmptySet
  <2> QED BY <1>5, <2>1, <2>2
<1>7. Cardinality(Client) < RINGBUFFER_SIZE
  BY DEF Contract
<1> QED BY <1>2, <1>4, <1>5, <1>6, <1>7

\* A client in queue_cmds() finds a slot that is free.
LEMMA NeverFull ==
  ASSUME I2CInv, Contract, QueueInv, NEW c \in Client, pc[c] = "put"
  PROVE  ~rb_is_full(cmdindices)
<1>1. fate[c] # "queued"
  BY QueuedFacts
<1>2. /\ Cardinality({c}) + Used(cmdindices) < RINGBUFFER_SIZE
      /\ Used(cmdindices) \in Nat
  <2>1. {c} \in SUBSET Client /\ \A d \in {c} : fate[d] # "queued"
    BY <1>1
  <2> QED BY <2>1, ReadyClients
<1>3. Cardinality({c}) = 1
  BY FS_Singleton
<1> QED BY <1>2, <1>3, EmptyOrFull DEF I2CInv, TypeOK

\* newcmdswaitable has no more signals than the ring buffer has slots, so that
\* there is room in an int8_t to count another one.
LEMMA CountFacts ==
  ASSUME Contract, ContractInv
  PROVE  /\ semaphore[newcmdswaitable] \in Int8 /\ semaphore[newcmdswaitable] \in Int
         /\ Used(cmdindices) \in Nat
         /\ drv # "off" => semaphore[newcmdswaitable] \in Nat
         /\ drv # "off" /\ (~drivershouldexit \/ ~rb_is_full(cmdindices)) =>
              Increment(semaphore[newcmdswaitable]) = semaphore[newcmdswaitable] + 1
<1>1. PICK n : n = semaphore[newcmdswaitable]
  OBVIOUS
<1>2. n \in Int8 /\ n \in Int
  BY <1>1, SlotsDiffer, Int8Facts DEF ContractInv, I2CInv, TypeOK
<1>3. PICK u \in Nat : u = Used(cmdindices) /\ u < RINGBUFFER_SIZE
  BY RingTypes DEF ContractInv, I2CInv, TypeOK, Slot
<1>4. /\ rb_is_full(cmdindices) <=> u = RINGBUFFER_SIZE - 1
      /\ drivershouldexit \in BOOLEAN /\ drv \in {"off", "start", "top", "xfer", "wait"}
  BY <1>3, EmptyOrFull DEF ContractInv, I2CInv, TypeOK
<1>5. drv # "off" => n \in Nat /\ n <= u + (IF drivershouldexit THEN 1 ELSE 0)
  BY <1>1, <1>2, <1>3, <1>4 DEF ContractInv, CountInv
<1>6. drv # "off" /\ (~drivershouldexit \/ ~rb_is_full(cmdindices)) => n < INT8_MAX
  BY <1>2, <1>3, <1>4, <1>5 DEF Contract
<1> QED BY <1>1, <1>2, <1>3, <1>5, <1>6, Int8Facts

-----------------------------------------------------------------------------
(* What a step leaves as it is. *)

LEMMA I2CTurnKept ==
  ASSUME I2CInv, QueueInv, TurnInv, UNCHANGED <<slot, fate>>,
         \A s \in Slot : waitchain'[s] = waitchain[s],
         \A c \in Client : Asleep(c)' <=> Asleep(c),
         \A c \in Client : fate[c] = "queued" =>
           pc'[c] = pc[c] /\ (Runs(c) => Runs(c)'),
         Asleep(i2cdriverblock)' =>
           drv' \in {"off", "xfer"} \/ waitchain'[newcmdswaitable] = i2cdriverblock
  PROVE  TurnInv'
BY QueuedFacts DEF TurnInv

LEMMA I2CDoneKept ==
  ASSUME I2CInv, QueueInv, DoneInv, UNCHANGED <<cmdindices, slot, fate>>,
         \A s \in Slot : semaphore'[s] = semaphore[s],
         \A c, d \in Client : Done(c) /\ Before(ready2run', d, c) => Before(ready2run, d, c),
         drv' = "start" => drv = "start",
         drv' = "start" => \A c \in Client : Done(c) /\ Before(ready2run, c, i2cdriverblock) =>
                             Before(ready2run', c, i2cdriverblock),
         drv = "start" => drv' = "start" \/ Runs(i2cdriverblock)
  PROVE  DoneInv'
<1>1. \A c \in Client : (Done(c)' <=> Done(c)) /\ (Done(c) => slot[c] \in Slot)
  BY QueuedFacts DEF Done
<1>2. ASSUME NEW c \in Client, Done(c), drv' # "start"
      PROVE  Cardinality(Ahead(c)') <= Steps(cmdindices.end, slot[c])
  <2>1. drv # "start"
    BY <1>2, HeadOfQueue DEF DoneInv
  <2>2. Cardinality(Ahead(c)) <= Steps(cmdindices.end, slot[c])
    BY <1>2, <2>1 DEF DoneInv
  <2>3. Ahead(c)' \in SUBSET Ahead(c) /\ Ahead(c) \in SUBSET Client
    BY <1>2 DEF Ahead
  <2>4. /\ IsFiniteSet(Ahead(c)) /\ IsFiniteSet(Ahead(c)')
        /\ Cardinality(Ahead(c)') <= Cardinality(Ahead(c))
    BY <2>3, FS_Subset
  <2>5. /\ Cardinality(Ahead(c)) \in Nat /\ Cardinality(Ahead(c)') \in Nat
        /\ Steps(cmdindices.end, slot[c]) \in Slot
    BY <1>1, <1>2, <2>4, FS_CardinalityType, RingTypes, StepsSmall DEF I2CInv, TypeOK
  <2> QED BY <2>2, <2>4, <2>5, SlotType
<1> QED BY <1>1, <1>2 DEF DoneInv

\* A step of the hardware, or one that stutters.
LEMMA I2CQuietStep ==
  ASSUME ContractInv, UNCHANGED <<kernel, ring, client, drv, drivershouldexit>>
  PROVE  QueueInv' /\ TurnInv' /\ PutInv' /\ DoneInv' /\ CountInv'
<1>1. QueueInv' /\ PutInv' /\ CountInv'
  BY DEF ContractInv, QueueInv, PutInv, CountInv, Runs
<1>2. TurnInv'
  BY I2CTurnKept DEF ContractInv, TurnInv, Asleep, Runs
<1>3. DoneInv'
  BY I2CDoneKept DEF ContractInv
<1> QED BY <1>1, <1>2, <1>3

-----------------------------------------------------------------------------
(* Clients. *)

LEMMA Care_queue_cmds ==
  ASSUME Contract, ContractInv, NEW c \in Client, queue_cmds(c)
  PROVE  QueueInv' /\ TurnInv' /\ PutInv' /\ DoneInv' /\ CountInv'
<1>1. /\ Runs(c) /\ pc[c] = "app" /\ slot[c] = NULL /\ drv # "start"
      /\ pc' = [pc EXCEPT ![c] = "put"]
      /\ UNCHANGED <<slot, success, reads, fate>>
  BY DEF queue_cmds, Executes, Contract
<1>2. /\ pc'[c] = "put" /\ \A d \in Client \ {c} : pc'[d] = pc[d]
      /\ fate[c] # "queued" /\ c # i2cdriverblock
  BY <1>1, QueuedFacts DEF ContractInv, I2CInv, TypeOK
<1>3. CASE drv # "off"
  <2>1. UNCHANGED <<kernel, ring, flags, drv, drivershouldexit, hardware>>
    BY <1>3 DEF queue_cmds
  <2>2. QueueInv' /\ CountInv'
    BY <1>1, <1>2, <2>1 DEF ContractInv, QueueInv, CountInv
  <2>3. TurnInv'
    BY <1>1, <1>2, <2>1, I2CTurnKept DEF ContractInv, TurnInv, Asleep, Runs
  <2>4. PutInv'
    BY <1>1, <1>2, <1>3, <2>1 DEF ContractInv, PutInv, Runs
  <2>5. DoneInv'
    BY <1>1, <2>1, I2CDoneKept DEF ContractInv
  <2> QED BY <2>2, <2>3, <2>4, <2>5
<1>4. CASE drv = "off"
  <2>1. /\ cmdindices' = rb_init_ringbuffer /\ cmdringbuffer' = cmdringbuffer
        /\ drivershouldexit' = FALSE
        /\ Starts(c, i2cdriverblock) /\ drv' = "start"
        /\ waitchain' = [waitchain EXCEPT ![newcmdswaitable] = NULL]
        /\ semaphore' = [semaphore EXCEPT ![newcmdswaitable] = 0]
    BY <1>4 DEF queue_cmds, init
  <2>2. /\ semaphore'[newcmdswaitable] = 0
        /\ \A s \in Slot : waitchain'[s] = waitchain[s] /\ semaphore'[s] = semaphore[s]
    BY <2>1, SlotsDiffer DEF ContractInv, I2CInv, KernelInv, Queues
  <2>3. /\ ToSet(ready2run') = ToSet(ready2run) \cup {i2cdriverblock}
        /\ Before(ready2run', i2cdriverblock, c)
        /\ \A x \in ToSet(ready2run) : x # c => Before(ready2run', x, i2cdriverblock)
    <3>1. /\ i2cdriverblock \notin ToSet(ready2run) /\ i2cdriverblock \in Coroutine
          /\ \A w \in Waitable \ {newcmdswaitable} : waitchain[w] # i2cdriverblock
      BY <1>4, SlotsDiffer DEF ContractInv, I2CInv, DriverInv, KernelInv, Queues, Asleep, Coroutine
    <3> QED BY <1>1, <2>1, <3>1, KernelStarts DEF ContractInv, I2CInv
  <2>4. InUse(cmdindices) = {} /\ InUse(cmdindices') = {} /\ Used(cmdindices') = 0
    <3>1. Used(cmdindices) = 0 /\ cmdindices \in Ring
      BY <1>4 DEF ContractInv, CountInv, I2CInv, TypeOK
    <3>2. cmdindices' \in Ring /\ Used(cmdindices') = 0
      BY <2>1, <3>1, RingTypes, EmptyOrFull
    <3> QED BY <3>1, <3>2, InUseCount, FS_EmptySet
  <2>5. \A d \in Client : fate[d] # "queued" /\ d \in ToSet(ready2run) /\ pc[d] # "put"
    BY <1>4, <2>4 DEF ContractInv, QueueInv, TurnInv, PutInv, Asleep
  <2>6. QueueInv'
    BY <1>1, <1>2, <2>4, <2>5 DEF ContractInv, QueueInv
  <2>7. TurnInv'
    <3>1. \A s \in Slot : waitchain[s] = NULL
      <4>1. \A s \in Slot : waitchain[s] # NULL => waitchain[s] \in Client
        BY SlotsDiffer DEF ContractInv, I2CInv, TypeOK, KernelInv
      <4> QED BY <2>5, <4>1 DEF ContractInv, TurnInv
    <3> QED BY <1>1, <2>2, <2>3, <2>5, <3>1 DEF TurnInv, Asleep
  <2>8. PutInv'
    BY <1>2, <2>1, <2>3, <2>5 DEF PutInv
  <2>9. DoneInv'
    <3>1. \A d \in Client : Done(d)' <=> Done(d)
      BY <1>1 DEF Done
    <3>2. \A d \in Client : Done(d) =>
            slot[d] \in Slot /\ d \in ToSet(ready2run) /\ d # c
      BY <1>1, <2>5, QueuedFacts DEF Done, ContractInv
    <3> QED BY <1>1, <2>1, <2>2, <2>3, <2>4, <3>1, <3>2 DEF ContractInv, DoneInv
  <2>10. CountInv'
    BY <2>1, <2>2, <2>4 DEF CountInv
  <2> QED BY <2>6, <2>7, <2>8, <2>9, <2>10
<1> QED BY <1>3, <1>4

\* The slot was given back by whoever had it: c is ahead of all whose command
\* is done.
LEMMA SlotGivenBack ==
  ASSUME ContractInv, NEW c \in Client, Runs(c), pc[c] = "put", NEW a \in Client, Done(a)
  PROVE  /\ slot[a] # cmdindices.end /\ c \in Ahead(a) /\ a # c
         /\ IsFiniteSet(Ahead(a)) /\ drv # "start"
         /\ Cardinality(Ahead(a)) <= Steps(cmdindices.end, slot[a])
<1>1. a # c /\ a \in ToSet(ready2run) /\ slot[a] \in Slot /\ fate[c] # "queued"
  BY QueuedFacts DEF ContractInv, QueueInv, TurnInv, Done, Asleep
<1>2. drv # "start" /\ c \in Ahead(a)
  BY <1>1, HeadOfQueue DEF ContractInv, PutInv, Ahead
<1>3. IsFiniteSet(Ahead(a))
  BY FS_Subset DEF Ahead
<1>4. Cardinality(Ahead(a)) # 0 /\ Cardinality(Ahead(a)) \in Nat
  BY <1>2, <1>3, FS_EmptySet, FS_CardinalityType
<1>5. Cardinality(Ahead(a)) <= Steps(cmdindices.end, slot[a])
  BY <1>2 DEF ContractInv, DoneInv
<1>6. slot[a] # cmdindices.end
  BY <1>1, <1>4, <1>5, RingTypes, StepsSmall DEF ContractInv, I2CInv, TypeOK
<1> QED BY <1>1, <1>2, <1>3, <1>5, <1>6

LEMMA Care_put ==
  ASSUME Contract, ContractInv, NEW c \in Client, NEW r \in BOOLEAN, put(c, r)
  PROVE  QueueInv' /\ TurnInv' /\ PutInv' /\ DoneInv' /\ CountInv'
<1>1. PICK s : s = cmdindices.end
  OBVIOUS
<1>2. /\ Runs(c) /\ pc[c] = "put" /\ ~rb_is_full(cmdindices)
      /\ Signals(newcmdswaitable)
      /\ cmdindices' = rb_push_back(cmdindices)
      /\ cmdringbuffer' = [cmdringbuffer EXCEPT ![s] = c]
      /\ pc' = [pc EXCEPT ![c] = "app"]
      /\ slot' = [slot EXCEPT ![c] = s]
      /\ fate' = [fate EXCEPT ![c] = "queued"]
      /\ UNCHANGED <<drv, drivershouldexit>>
  BY <1>1 DEF put, Executes
<1>3. /\ s \in Slot /\ s # NULL /\ cmdindices' \in Ring /\ cmdindices \in Ring
      /\ s \notin InUse(cmdindices)
      /\ InUse(cmdindices') = InUse(cmdindices) \cup {s}
      /\ Used(cmdindices') = Used(cmdindices) + 1
      /\ \A t \in Slot \ {s} : Steps(cmdindices'.end, t) = Steps(s, t) - 1
  <2>1. PICK rb \in Ring : rb = cmdindices
    BY DEF ContractInv, I2CInv, TypeOK
  <2>2. cmdindices' = rb_push_back(rb) /\ ~rb_is_full(rb) /\ s = rb.end
    BY <1>1, <1>2, <2>1
  <2>3. s \in Slot /\ s # NULL /\ rb_push_back(rb) \in Ring
    BY <2>2, RingTypes
  <2> QED BY <2>1, <2>2, <2>3, RingPushed
<1>4. /\ pc'[c] = "app" /\ slot'[c] = s /\ cmdringbuffer'[s] = c /\ fate'[c] = "queued"
      /\ \A d \in Client \ {c} : pc'[d] = pc[d] /\ slot'[d] = slot[d] /\ fate'[d] = fate[d]
      /\ \A t \in Slot \ {s} : cmdringbuffer'[t] = cmdringbuffer[t]
      /\ fate[c] # "queued" /\ slot[c] = NULL
  BY <1>2, <1>3, QueuedFacts DEF ContractInv, I2CInv, TypeOK, QueueInv
<1>5. /\ ToSet(ready2run') = ToSet(ready2run) \cup ({waitchain[newcmdswaitable]} \ {NULL})
      /\ semaphore'[newcmdswaitable] = semaphore[newcmdswaitable] + 1
      /\ \A t \in Slot : waitchain'[t] = waitchain[t] /\ semaphore'[t] = semaphore[t]
      /\ SameOrder(ready2run, ready2run') /\ Runs(c)'
  <2>1. Increment(semaphore[newcmdswaitable]) = semaphore[newcmdswaitable] + 1
    BY <1>2, CountFacts DEF ContractInv, PutInv
  <2> QED BY <1>2, <2>1, SlotsDiffer, SignalFacts DEF ContractInv
<1>6. /\ ~Asleep(c) /\ c # i2cdriverblock /\ drv \notin {"off", "start"}
      /\ \A d \in Client : Asleep(d)' <=> Asleep(d)
  <2>1. waitchain[newcmdswaitable] \in {NULL, i2cdriverblock}
    BY SlotsDiffer DEF ContractInv, I2CInv, KernelInv
  <2>2. ~Asleep(c) /\ drv # "start"
    BY <1>2, HeadOfQueue DEF ContractInv, PutInv
  <2> QED BY <1>2, <1>5, <2>1, <2>2 DEF ContractInv, PutInv, Asleep
<1>7. \A d \in Client : fate[d] = "queued" =>
        /\ d # c /\ slot[d] \in Slot /\ slot[d] # s
        /\ Asleep(d) /\ pc[d] = "wait" /\ waitchain[slot[d]] = d
  <2>1. \A d \in Client : Runs(d) => d = c
    BY <1>2, HeadOfQueue DEF ContractInv
  <2> QED BY <1>3, <1>4, <2>1, QueuedFacts DEF ContractInv, QueueInv, TurnInv
<1>8. QueueInv'
  BY <1>2, <1>3, <1>4, <1>7 DEF ContractInv, QueueInv
<1>9. TurnInv'
  <2>1. \A t \in Slot : waitchain[t] # NULL =>
          waitchain[t] \in Client /\ waitchain[t] # c
    BY <1>4, SlotsDiffer DEF ContractInv, TurnInv, I2CInv, TypeOK, KernelInv
  <2>2. Asleep(i2cdriverblock)' => drv' \in {"off", "xfer"}
    BY <1>2, <1>5 DEF ContractInv, TurnInv, Asleep
  <2> QED BY <1>4, <1>5, <1>6, <1>7, <2>1, <2>2 DEF ContractInv, TurnInv
<1>10. PutInv'
  <2>1. \A d \in Client : Runs(d) => d = c
    BY <1>2, HeadOfQueue DEF ContractInv
  <2> QED BY <1>2, <1>4, <1>6, <2>1 DEF ContractInv, PutInv
<1>11. DoneInv'
  <2>1. \A a \in Client : (Done(a)' <=> Done(a)) /\ (Done(a) =>
          a # c /\ slot[a] \in Slot /\ slot[a] # s /\ a \in ToSet(ready2run))
    BY <1>1, <1>2, <1>4, SlotGivenBack, QueuedFacts DEF Done, ContractInv, TurnInv, Asleep
  <2>2. ASSUME NEW a \in Client, Done(a)
        PROVE  Cardinality(Ahead(a)') <= Steps(cmdindices'.end, slot'[a])
    <3>1. /\ c \in Ahead(a) /\ IsFiniteSet(Ahead(a))
          /\ Cardinality(Ahead(a)) <= Steps(s, slot[a])
      BY <1>1, <1>2, <2>2, SlotGivenBack
    <3>2. Ahead(a)' \in SUBSET (Ahead(a) \ {c})
      BY <1>4, <1>5, <2>1, <2>2 DEF Ahead, SameOrder
    <3>3. /\ IsFiniteSet(Ahead(a) \ {c})
          /\ Cardinality(Ahead(a) \ {c}) = Cardinality(Ahead(a)) - 1
      BY <3>1, FS_RemoveElement
    <3>4. IsFiniteSet(Ahead(a)') /\ Cardinality(Ahead(a)') <= Cardinality(Ahead(a)) - 1
      BY <3>2, <3>3, FS_Subset
    <3>5. /\ Cardinality(Ahead(a)) \in Nat /\ Cardinality(Ahead(a)') \in Nat
          /\ Steps(s, slot[a]) \in Int
      BY <1>3, <2>1, <2>2, <3>1, <3>4, FS_CardinalityType, StepsSmall, SlotType
    <3>6. Steps(cmdindices'.end, slot'[a]) = Steps(s, slot[a]) - 1
      BY <1>3, <1>4, <2>1, <2>2
    <3> QED BY <3>1, <3>4, <3>5, <3>6
  <2>3. \A a \in Client : Done(a)' =>
          slot'[a] \notin InUse(cmdindices') /\ semaphore'[slot'[a]] = 1
    BY <1>3, <1>4, <1>5, <2>1 DEF ContractInv, DoneInv
  <2>4. \A a, b \in Client : Done(a)' /\ Done(b)' /\ slot'[a] = slot'[b] => a = b
    BY <1>4, <2>1 DEF ContractInv, DoneInv
  <2>5. \A t \in Slot : semaphore'[t] # 0 => \E a \in Client : Done(a)' /\ slot'[a] = t
    BY <1>4, <1>5, <2>1 DEF ContractInv, DoneInv
  <2> QED BY <1>2, <1>6, <2>1, <2>2, <2>3, <2>4, <2>5 DEF DoneInv
<1>12. CountInv'
  <2>1. Used(cmdindices) \in Int /\ semaphore[newcmdswaitable] \in Int
    BY CountFacts
  <2>2. Used(cmdindices) \in Nat
    BY CountFacts
  <2> QED BY <1>2, <1>3, <1>5, <1>6, <2>1, <2>2 DEF ContractInv, CountInv
<1> QED BY <1>8, <1>9, <1>10, <1>11, <1>12

LEMMA Care_wait ==
  ASSUME Contract, ContractInv, NEW c \in Client, wait(c)
  PROVE  QueueInv' /\ TurnInv' /\ PutInv' /\ DoneInv' /\ CountInv'
<1>1. /\ Runs(c) /\ pc[c] \in {"app", "wait"}
      /\ UNCHANGED <<success, reads, fate, ring, flags, drv, drivershouldexit>>
  BY DEF wait, Executes
<1>2. PICK s \in Slot : s = slot[c]
  BY QueuedFacts DEF wait, ContractInv
<1>3. /\ ~Asleep(c) /\ c # i2cdriverblock /\ \A d : Runs(d) => d = c
      /\ \A w \in Waitable : waitchain[w] # c
  BY <1>1, HeadOfQueue DEF ContractInv
<1>4. CASE Takes(s) /\ pc' = [pc EXCEPT ![c] = "app"] /\ slot' = [slot EXCEPT ![c] = NULL]
  <2>1. /\ UNCHANGED <<ready2run, waitchain>>
        /\ semaphore[s] > 0 /\ semaphore' = [semaphore EXCEPT ![s] = @ - 1]
    BY <1>4, SlotsDiffer, KernelTakes DEF ContractInv, I2CInv
  <2>2. /\ pc'[c] = "app" /\ slot'[c] = NULL
        /\ \A d \in Client \ {c} : pc'[d] = pc[d] /\ slot'[d] = slot[d]
    BY <1>4 DEF ContractInv, I2CInv, TypeOK
  <2>3. Done(c)
    <3>1. PICK d \in Client : Done(d) /\ slot[d] = s
      BY <2>1 DEF ContractInv, DoneInv
    <3>2. s \notin InUse(cmdindices)
      BY <3>1 DEF ContractInv, DoneInv
    <3> QED BY <1>2, <3>2 DEF Done, ContractInv, QueueInv
  <2>4. /\ semaphore'[s] = 0
        /\ \A w \in Waitable \ {s} : semaphore'[w] = semaphore[w]
    BY <1>2, <2>1, <2>3, SlotsDiffer DEF ContractInv, DoneInv, I2CInv, TypeOK
  <2>5. fate[c] # "queued"
    BY <2>3 DEF Done
  <2>6. QueueInv'
    BY <1>1, <2>2, <2>5 DEF ContractInv, QueueInv
  <2>7. TurnInv'
    <3>1. \A t \in Slot : waitchain[t] # NULL => waitchain[t] \in Client
      BY SlotsDiffer DEF ContractInv, I2CInv, TypeOK, KernelInv
    <3> QED BY <1>1, <1>3, <2>1, <2>2, <2>5, <3>1 DEF ContractInv, TurnInv, Asleep, Runs
  <2>8. PutInv'
    BY <1>1, <2>1, <2>2 DEF ContractInv, PutInv, Runs
  <2>9. DoneInv'
    <3>1. \A a \in Client : Done(a)' <=> Done(a) /\ a # c
      BY <1>1, <2>2 DEF Done
    <3>2. \A a \in Client : Done(a) /\ a # c => slot[a] \in Slot /\ slot[a] # s
      BY <1>2, <2>3, QueuedFacts DEF Done, ContractInv, DoneInv
    <3>3. \A a \in Client : Ahead(a)' = Ahead(a)
      BY <1>1, <2>1 DEF Ahead
    <3>4. \A a \in Client : Done(a)' =>
            /\ slot'[a] \notin InUse(cmdindices') /\ semaphore'[slot'[a]] = 1
            /\ IF drv' = "start" THEN Before(ready2run', a, i2cdriverblock)
               ELSE Cardinality(Ahead(a)') <= Steps(cmdindices'.end, slot'[a])
      BY <1>1, <2>1, <2>2, <2>4, <3>1, <3>2, <3>3, SlotsDiffer DEF ContractInv, DoneInv
    <3>5. \A a, b \in Client : Done(a)' /\ Done(b)' /\ slot'[a] = slot'[b] => a = b
      BY <2>2, <3>1 DEF ContractInv, DoneInv
    <3>6. \A t \in Slot : semaphore'[t] # 0 => \E a \in Client : Done(a)' /\ slot'[a] = t
      BY <1>2, <2>2, <2>4, <3>1, SlotsDiffer DEF ContractInv, DoneInv
    <3> QED BY <3>4, <3>5, <3>6 DEF DoneInv
  <2>10. CountInv'
    BY <1>1, <2>4, SlotsDiffer DEF ContractInv, CountInv
  <2> QED BY <2>6, <2>7, <2>8, <2>9, <2>10
<1>5. CASE Chains(c, s) /\ pc' = [pc EXCEPT ![c] = "wait"] /\ slot' = slot
  <2>1. /\ ToSet(ready2run') = ToSet(ready2run) \ {c}
        /\ waitchain' = [waitchain EXCEPT ![s] = c]
        /\ semaphore' = semaphore /\ semaphore[s] <= 0
        /\ \A x, y : Before(ready2run', x, y) <=> x # c /\ Before(ready2run, x, y)
    BY <1>1, <1>3, <1>5, SlotsDiffer, KernelChains DEF ContractInv, I2CInv
  <2>2. fate[c] = "queued"
    BY <1>2, <2>1 DEF Done, ContractInv, DoneInv
  <2>3. /\ pc'[c] = "wait" /\ waitchain'[s] = c
        /\ \A d \in Client \ {c} : pc'[d] = pc[d]
        /\ \A w \in Waitable \ {s} : waitchain'[w] = waitchain[w]
    BY <1>5, <2>1, SlotsDiffer DEF ContractInv, I2CInv, TypeOK
  <2>4. \A d \in Client \ {c} : fate[d] = "queued" =>
          /\ slot[d] \in Slot /\ slot[d] # s
          /\ Asleep(d) /\ pc[d] = "wait" /\ waitchain[slot[d]] = d
    BY <1>2, <1>3, <2>2, QueuedFacts DEF ContractInv, QueueInv, TurnInv
  <2>5. QueueInv'
    BY <1>1, <1>2, <1>5, <2>3 DEF ContractInv, QueueInv
  <2>6. TurnInv'
    <3>1. \A d \in Client \ {c} : Asleep(d)' <=> Asleep(d)
      BY <2>1 DEF Asleep
    <3>2. Asleep(c)' /\ (Asleep(i2cdriverblock)' <=> Asleep(i2cdriverblock))
      BY <1>3, <2>1 DEF Asleep
    <3> QED BY <1>1, <1>2, <1>5, <2>2, <2>3, <2>4, <3>1, <3>2, SlotsDiffer DEF ContractInv, TurnInv
  <2>7. PutInv'
    BY <1>1, <1>3, <2>1, <2>3 DEF ContractInv, PutInv
  <2>8. DoneInv'
    BY <1>1, <1>3, <1>5, <2>1, <2>2, I2CDoneKept DEF ContractInv, Done
  <2>9. CountInv'
    BY <1>1, <2>1 DEF ContractInv, CountInv
  <2> QED BY <2>5, <2>6, <2>7, <2>8, <2>9
<1> QED BY <1>2, <1>4, <1>5 DEF wait

LEMMA Care_yield ==
  ASSUME Contract, ContractInv, NEW c \in Client, yield(c)
  PROVE  QueueInv' /\ TurnInv' /\ PutInv' /\ DoneInv' /\ CountInv'
<1>1. /\ Runs(c) /\ pc[c] = "app" /\ slot[c] = NULL /\ Yields(c)
      /\ UNCHANGED <<waitchain, semaphore, ring, flags, drv, drivershouldexit,
                     client, hardware>>
  BY DEF yield, Executes, Contract
<1>2. /\ ToSet(ready2run') = ToSet(ready2run)
      /\ \A x, y : y # c =>
           (Before(ready2run', x, y) <=> x # c /\ Before(ready2run, x, y))
  BY <1>1, KernelYields DEF ContractInv, I2CInv
<1>3. c # i2cdriverblock /\ fate[c] # "queued" /\ \A d : Runs(d) => d = c
  BY <1>1, HeadOfQueue, QueuedFacts DEF ContractInv
<1>4. QueueInv' /\ CountInv'
  BY <1>1 DEF ContractInv, QueueInv, CountInv
<1>5. TurnInv'
  BY <1>1, <1>2, <1>3, I2CTurnKept DEF ContractInv, TurnInv, Asleep
<1>6. PutInv'
  BY <1>1, <1>2, <1>3 DEF ContractInv, PutInv
<1>7. DoneInv'
  BY <1>1, <1>2, <1>3, I2CDoneKept DEF ContractInv, Done
<1> QED BY <1>4, <1>5, <1>6, <1>7

LEMMA Care_stop_i2c_driver_async ==
  ASSUME Contract, ContractInv, NEW c \in Client, stop_i2c_driver_async(c)
  PROVE  QueueInv' /\ TurnInv' /\ PutInv' /\ DoneInv' /\ CountInv'
<1>1. /\ Runs(c) /\ drv # "off" /\ drivershouldexit = FALSE /\ drivershouldexit' = TRUE
      /\ \A d \in Client : pc[d] # "put"
      /\ Signals(newcmdswaitable)
      /\ UNCHANGED <<ring, flags, drv, client, hardware>>
  BY DEF stop_i2c_driver_async, Executes, ContractInv, I2CInv, TypeOK
<1>2. /\ ToSet(ready2run') = ToSet(ready2run) \cup ({waitchain[newcmdswaitable]} \ {NULL})
      /\ semaphore'[newcmdswaitable] = semaphore[newcmdswaitable] + 1
      /\ \A t \in Slot : waitchain'[t] = waitchain[t] /\ semaphore'[t] = semaphore[t]
      /\ SameOrder(ready2run, ready2run') /\ Runs(c)'
  <2>1. Increment(semaphore[newcmdswaitable]) = semaphore[newcmdswaitable] + 1
    BY <1>1, CountFacts
  <2> QED BY <1>1, <2>1, SlotsDiffer, SignalFacts DEF ContractInv
<1>3. waitchain[newcmdswaitable] \in {NULL, i2cdriverblock}
  BY SlotsDiffer DEF ContractInv, I2CInv, KernelInv
<1>4. QueueInv' /\ PutInv'
  BY <1>1 DEF ContractInv, QueueInv, PutInv
<1>5. TurnInv'
  <2>1. \A d \in Client : Asleep(d)' <=> Asleep(d)
    BY <1>2, <1>3 DEF Asleep
  <2>2. \A d : Runs(d) => d = c
    BY <1>1, HeadOfQueue DEF ContractInv
  <2>3. Asleep(i2cdriverblock)' => drv' \in {"off", "xfer"}
    BY <1>1, <1>2, SlotsDiffer DEF ContractInv, TurnInv, Asleep
  <2> QED BY <1>1, <1>2, <2>1, <2>2, <2>3, I2CTurnKept DEF ContractInv
<1>6. DoneInv'
  <2>1. \A a \in Client : Done(a) => a \in ToSet(ready2run)
    BY DEF Done, ContractInv, TurnInv, Asleep
  <2>2. \A a, b \in Client : Done(a) /\ Before(ready2run', b, a) => Before(ready2run, b, a)
    BY <1>2, <2>1 DEF SameOrder
  <2>3. \A a : Before(ready2run, a, i2cdriverblock) => Before(ready2run', a, i2cdriverblock)
    BY <1>2, BeforeInQueue DEF SameOrder
  <2> QED BY <1>1, <1>2, <2>2, <2>3, I2CDoneKept DEF ContractInv
<1>7. CountInv'
  <2>1. Used(cmdindices) \in Nat /\ semaphore[newcmdswaitable] \in Nat
    BY <1>1, CountFacts
  <2> QED BY <1>1, <1>2, <2>1 DEF ContractInv, CountInv
<1> QED BY <1>4, <1>5, <1>6, <1>7

-----------------------------------------------------------------------------
(* The driver. *)

LEMMA Care_drv_begin ==
  ASSUME ContractInv, drv_begin
  PROVE  QueueInv' /\ TurnInv' /\ PutInv' /\ DoneInv' /\ CountInv'
<1>1. /\ Runs(i2cdriverblock) /\ Leaves(i2cdriverblock)
      /\ drv \in {"start", "top"} /\ drv' = "xfer" /\ ~rb_is_empty(cmdindices)
      /\ UNCHANGED <<waitchain, semaphore, ring, drivershouldexit, client>>
  BY DEF drv_begin, Executes
<1>2. drv = "top"
  BY <1>1, EmptyOrFull DEF ContractInv, CountInv, I2CInv, TypeOK
<1>3. /\ ToSet(ready2run') = ToSet(ready2run) \ {i2cdriverblock}
      /\ \A x, y : Before(ready2run', x, y) <=> x # i2cdriverblock /\ Before(ready2run, x, y)
  BY <1>1, KernelLeaves DEF ContractInv, I2CInv, KernelInv, Queues
<1>4. \A d \in Client : d # i2cdriverblock /\ ~Runs(d)
  BY <1>1, HeadOfQueue DEF ContractInv
<1>5. QueueInv' /\ PutInv' /\ CountInv'
  BY <1>1, <1>2, <1>4 DEF ContractInv, QueueInv, PutInv, CountInv
<1>6. TurnInv'
  BY <1>1, <1>3, <1>4, I2CTurnKept DEF ContractInv, Asleep
<1>7. DoneInv'
  BY <1>1, <1>2, <1>3, I2CDoneKept DEF ContractInv
<1> QED BY <1>5, <1>6, <1>7

LEMMA Care_drv_idle ==
  ASSUME ContractInv, drv_idle
  PROVE  QueueInv' /\ TurnInv' /\ PutInv' /\ DoneInv' /\ CountInv'
<1>1. /\ Runs(i2cdriverblock) /\ drv \in {"start", "top"} /\ drv' = "wait"
      /\ rb_is_empty(cmdindices)
      /\ UNCHANGED <<kernel, ring, drivershouldexit, client>>
  BY DEF drv_idle, Executes
<1>2. drv = "start"
  BY <1>1, EmptyOrFull DEF ContractInv, CountInv, I2CInv, TypeOK
<1>3. ~Asleep(i2cdriverblock)
  BY <1>1, HeadOfQueue DEF ContractInv
<1>4. QueueInv' /\ PutInv' /\ CountInv'
  BY <1>1, <1>2 DEF ContractInv, QueueInv, PutInv, CountInv, Runs
<1>5. TurnInv'
  BY <1>1, <1>3, I2CTurnKept DEF ContractInv, Asleep, Runs
<1>6. DoneInv'
  BY <1>1, I2CDoneKept DEF ContractInv
<1> QED BY <1>4, <1>5, <1>6

LEMMA Care_drv_wait ==
  ASSUME Contract, ContractInv, drv_wait
  PROVE  /\ QueueInv' /\ TurnInv' /\ PutInv' /\ DoneInv' /\ CountInv'
         /\ drv' = "top" => ~rb_is_empty(cmdindices)
<1>1. /\ Runs(i2cdriverblock) /\ drv = "wait"
      /\ UNCHANGED <<ring, drivershouldexit, client>>
  BY DEF drv_wait, Executes
<1>2. /\ \A d \in Client : d # i2cdriverblock /\ ~Runs(d)
      /\ ~Asleep(i2cdriverblock)
  BY <1>1, HeadOfQueue DEF ContractInv
<1>3. /\ Used(cmdindices) \in Nat /\ semaphore[newcmdswaitable] \in Nat
      /\ rb_is_empty(cmdindices) <=> Used(cmdindices) = 0
      /\ drivershouldexit \in BOOLEAN
  BY <1>1, CountFacts, EmptyOrFull DEF ContractInv, I2CInv, TypeOK
<1>4. semaphore[newcmdswaitable] = Used(cmdindices) + (IF drivershouldexit THEN 1 ELSE 0)
  BY <1>1 DEF ContractInv, CountInv
<1>5. QueueInv'
  BY <1>1 DEF ContractInv, QueueInv
<1>6. CASE /\ Takes(newcmdswaitable) /\ ~(drivershouldexit /\ rb_is_empty(cmdindices))
           /\ drv' = "top"
  <2>1. /\ UNCHANGED <<ready2run, waitchain>> /\ semaphore[newcmdswaitable] > 0
        /\ semaphore' = [semaphore EXCEPT ![newcmdswaitable] = @ - 1]
    BY <1>6, SlotsDiffer, KernelTakes DEF ContractInv, I2CInv
  <2>2. /\ semaphore'[newcmdswaitable] = semaphore[newcmdswaitable] - 1
        /\ \A t \in Slot : semaphore'[t] = semaphore[t]
    BY <2>1, SlotsDiffer DEF ContractInv, I2CInv, TypeOK
  <2>3. Used(cmdindices) > 0
    BY <1>3, <1>4, <1>6, <2>1
  <2>4. CountInv'
    BY <1>1, <1>3, <1>4, <1>6, <2>2, <2>3 DEF CountInv
  <2>5. PutInv'
    BY <1>1, <1>2, <1>6 DEF ContractInv, PutInv
  <2>6. TurnInv'
    BY <1>1, <1>2, <2>1, I2CTurnKept DEF ContractInv, Asleep, Runs
  <2>7. DoneInv'
    BY <1>1, <1>6, <2>1, <2>2, I2CDoneKept DEF ContractInv
  <2> QED BY <1>3, <1>5, <2>3, <2>4, <2>5, <2>6, <2>7
<1>7. CASE /\ drivershouldexit /\ rb_is_empty(cmdindices)
           /\ semaphore' = [semaphore EXCEPT ![newcmdswaitable] = @ - 1]
           /\ semaphore[newcmdswaitable] > 0
           /\ drv' = "off" /\ Leaves(i2cdriverblock) /\ waitchain' = waitchain
  <2>1. /\ semaphore' \in [Waitable -> Int8]
        /\ \A t \in Slot : semaphore'[t] = semaphore[t]
    <3>1. semaphore \in [Waitable -> Int8]
      BY DEF ContractInv, I2CInv, TypeOK
    <3>2. semaphore[newcmdswaitable] - 1 \in Int8
      BY <1>7, CountFacts, Int8Facts
    <3> QED BY <1>7, <3>1, <3>2, SlotsDiffer
  <2>2. /\ ToSet(ready2run') = ToSet(ready2run) \ {i2cdriverblock}
        /\ \A x, y : Before(ready2run', x, y) <=> x # i2cdriverblock /\ Before(ready2run, x, y)
    BY <1>1, <1>7, <2>1, KernelLeaves DEF ContractInv, I2CInv
  <2>3. \A d \in Client : pc[d] # "put"
    BY <1>2, <1>7 DEF ContractInv, PutInv
  <2>4. CountInv' /\ PutInv'
    BY <1>1, <1>3, <1>7, <2>3 DEF CountInv, PutInv
  <2>5. TurnInv'
    BY <1>1, <1>2, <1>7, <2>2, I2CTurnKept DEF ContractInv, Asleep
  <2>6. DoneInv'
    BY <1>1, <1>7, <2>1, <2>2, I2CDoneKept DEF ContractInv
  <2> QED BY <1>5, <1>7, <2>4, <2>5, <2>6
<1>8. CASE Chains(i2cdriverblock, newcmdswaitable) /\ drv' = drv
  <2>1. /\ ToSet(ready2run') = ToSet(ready2run) \ {i2cdriverblock}
        /\ waitchain' = [waitchain EXCEPT ![newcmdswaitable] = i2cdriverblock]
        /\ semaphore' = semaphore
        /\ \A x, y : Before(ready2run', x, y) <=> x # i2cdriverblock /\ Before(ready2run, x, y)
    BY <1>1, <1>8, SlotsDiffer, KernelChains DEF ContractInv, I2CInv
  <2>2. /\ waitchain'[newcmdswaitable] = i2cdriverblock
        /\ \A t \in Slot : waitchain'[t] = waitchain[t]
    BY <2>1, SlotsDiffer DEF ContractInv, I2CInv, TypeOK
  <2>3. CountInv' /\ PutInv'
    BY <1>1, <1>2, <1>8, <2>1 DEF ContractInv, CountInv, PutInv
  <2>4. TurnInv'
    BY <1>1, <1>2, <2>1, <2>2, I2CTurnKept DEF ContractInv, Asleep
  <2>5. DoneInv'
    BY <1>1, <1>8, <2>1, I2CDoneKept DEF ContractInv
  <2> QED BY <1>1, <1>5, <1>8, <2>3, <2>4, <2>5
<1> QED BY <1>6, <1>7, <1>8 DEF drv_wait, deinit

\* The client of the command that ends sleeps, chained to its slot; no caller
\* in the run queue can reach that slot before it has taken the signal.
LEMMA Care_drv_finish ==
  ASSUME Contract, ContractInv, drv_finish
  PROVE  QueueInv' /\ TurnInv' /\ PutInv' /\ DoneInv' /\ CountInv'
<1>1. PICK b : b = cmdindices.begin
  OBVIOUS
<1>2. PICK q : q = cmdringbuffer[b]
  OBVIOUS
<1>3. /\ Runs(i2cdriverblock) /\ drv = "xfer" /\ drv' = "wait"
      /\ fate' = IF q = NULL THEN fate
                 ELSE [fate EXCEPT ![q] = IF aborted THEN "failed" ELSE "sent"]
      /\ Signals(b) /\ cmdindices' = rb_pop_front(cmdindices)
      /\ UNCHANGED <<cmdringbuffer, drivershouldexit, pc, slot>>
  BY <1>1, <1>2 DEF drv_finish, Executes, rb_peek_front
<1>4. /\ Used(cmdindices) \in Nat /\ Used(cmdindices') = Used(cmdindices) - 1
      /\ b \in Slot /\ b \in InUse(cmdindices) /\ cmdindices' \in Ring
      /\ InUse(cmdindices') = InUse(cmdindices) \ {b}
      /\ cmdindices'.end = cmdindices.end
      /\ Steps(cmdindices.end, b) = RINGBUFFER_SIZE - Used(cmdindices)
  <2>1. PICK rb \in Ring : rb = cmdindices
    BY DEF ContractInv, I2CInv, TypeOK
  <2>2. ~rb_is_empty(rb) /\ Used(rb) \in Nat
    BY <1>3, <2>1, EmptyOrFull, RingTypes DEF ContractInv, CountInv, Slot
  <2>3. cmdindices' = rb_pop_front(rb) /\ b = rb.begin
    BY <1>1, <1>3, <2>1
  <2>4. rb_pop_front(rb) \in Ring /\ b \in Slot
    BY <2>3, RingTypes
  <2> QED BY <2>1, <2>2, <2>3, <2>4, RingPopped
<1>5. q \in Client /\ fate[q] = "queued" /\ slot[q] = b
  BY <1>2, <1>4 DEF ContractInv, QueueInv
<1>6. /\ \A d \in Client : d # i2cdriverblock /\ ~Runs(d)
      /\ ~Asleep(i2cdriverblock)
  BY <1>3, HeadOfQueue DEF ContractInv
<1>7. Asleep(q) /\ pc[q] = "wait" /\ waitchain[b] = q /\ q # NULL
  BY <1>5, <1>6 DEF ContractInv, TurnInv
<1>8. fate'[q] # "queued" /\ \A d \in Client \ {q} : fate'[d] = fate[d]
  BY <1>3, <1>5, <1>7 DEF ContractInv, I2CInv, TypeOK
<1>9. semaphore[b] = 0
  BY <1>4 DEF ContractInv, DoneInv
<1>10. /\ ToSet(ready2run') = ToSet(ready2run) \cup {q}
       /\ waitchain'[b] = NULL /\ semaphore'[b] = 1
       /\ \A v \in Waitable \ {b} :
            waitchain'[v] = waitchain[v] /\ semaphore'[v] = semaphore[v]
       /\ SameOrder(ready2run, ready2run') /\ Runs(i2cdriverblock)'
  <2>1. Increment(semaphore[b]) = 1
    BY <1>9 DEF Increment
  <2> QED BY <1>3, <1>4, <1>7, <2>1, SlotsDiffer, SignalFacts DEF ContractInv
<1>11. QueueInv'
  BY <1>3, <1>4, <1>5, <1>8 DEF ContractInv, QueueInv
<1>12. TurnInv'
  <2>1. \A d \in Client : (Asleep(d)' <=> Asleep(d) /\ d # q)
    BY <1>10 DEF Asleep
  <2>2. ~Asleep(i2cdriverblock)'
    BY <1>6, <1>10 DEF Asleep
  <2>3. \A d \in Client \ {q} : fate[d] = "queued" =>
          /\ slot[d] \in Slot /\ slot[d] # b
          /\ Asleep(d) /\ pc[d] = "wait" /\ waitchain[slot[d]] = d
    BY <1>2, <1>5, <1>6, QueuedFacts DEF ContractInv, QueueInv, TurnInv
  <2>4. \A s \in Slot : waitchain[s] # NULL => waitchain[s] \in Client
    BY SlotsDiffer DEF ContractInv, I2CInv, TypeOK, KernelInv
  <2> QED BY <1>3, <1>4, <1>5, <1>8, <1>10, <2>1, <2>2, <2>3, <2>4, SlotsDiffer
          DEF ContractInv, TurnInv
<1>13. PutInv'
  BY <1>3, <1>6 DEF ContractInv, PutInv
<1>14. CountInv'
  <2>1. semaphore'[newcmdswaitable] = semaphore[newcmdswaitable]
    BY <1>4, <1>10, SlotsDiffer
  <2>2. semaphore[newcmdswaitable] \in Nat
    BY <1>3, CountFacts
  <2> QED BY <1>3, <1>4, <2>1, <2>2 DEF ContractInv, CountInv
<1>15. DoneInv'
  <2>1. \A a \in Client : Done(a)' <=> Done(a) \/ a = q
    BY <1>3, <1>4, <1>5, <1>8 DEF Done
  <2>2. \A a \in Client : Done(a) =>
          a # q /\ slot[a] # b /\ slot[a] \in Slot /\ a \in ToSet(ready2run)
    BY <1>4, <1>5, QueuedFacts DEF Done, ContractInv, DoneInv, TurnInv, Asleep
  <2>3. ASSUME NEW a \in Client, Done(a) PROVE Ahead(a)' = Ahead(a)
    <3>1. ~Before(ready2run, q, a)
      BY <1>7, BeforeInQueue DEF Asleep
    <3> QED BY <1>8, <1>10, <2>2, <2>3, <3>1 DEF Ahead, SameOrder
  <2>4. Cardinality(Ahead(q)') <= Steps(cmdindices.end, b)
    <3> DEFINE T == {d \in Client : fate[d] # "queued"}
    <3>1. T \in SUBSET Client /\ \A d \in T : fate[d] # "queued"
      OBVIOUS
    <3> HIDE DEF T
    <3>2. /\ IsFiniteSet(T) /\ Cardinality(T) \in Nat
          /\ Cardinality(T) + Used(cmdindices) < RINGBUFFER_SIZE
      BY <3>1, ReadyClients DEF ContractInv
    <3>3. ~Before(ready2run', q, q)
      <4>1. IsInjective(ready2run') /\ ready2run' \in Seq(Coroutine)
        BY <1>3, <1>4, SlotsDiffer, KernelSignals DEF ContractInv, I2CInv, KernelInv, Queues
      <4> QED BY <4>1 DEF Before, IsInjective
    <3>4. Ahead(q)' \in SUBSET T
      BY <1>8, <3>3 DEF Ahead, T
    <3>5. Cardinality(Ahead(q)') <= Cardinality(T) /\ Cardinality(Ahead(q)') \in Nat
      BY <3>2, <3>4, FS_Subset, FS_CardinalityType
    <3> QED BY <1>4, <3>2, <3>5
  <2>5. ASSUME NEW a \in Client, Done(a)'
        PROVE  /\ slot'[a] \notin InUse(cmdindices') /\ semaphore'[slot'[a]] = 1
               /\ Cardinality(Ahead(a)') <= Steps(cmdindices'.end, slot'[a])
    <3>1. CASE a = q
      BY <1>3, <1>4, <1>5, <1>10, <2>4, <3>1
    <3>2. CASE a # q
      <4>1. Done(a)
        BY <2>1, <2>5, <3>2
      <4> QED BY <1>3, <1>4, <1>10, <2>2, <2>3, <4>1, SlotsDiffer DEF ContractInv, DoneInv
    <3> QED BY <3>1, <3>2
  <2>6. \A a, d \in Client : Done(a)' /\ Done(d)' /\ slot'[a] = slot'[d] => a = d
    BY <1>3, <1>5, <2>1, <2>2 DEF ContractInv, DoneInv
  <2>7. \A t \in Slot : semaphore'[t] # 0 => \E a \in Client : Done(a)' /\ slot'[a] = t
    BY <1>3, <1>5, <1>10, <2>1, SlotsDiffer DEF ContractInv, DoneInv
  <2> QED BY <1>3, <2>5, <2>6, <2>7 DEF DoneInv
<1> QED BY <1>11, <1>12, <1>13, <1>14, <1>15

-----------------------------------------------------------------------------
(* Interrupts. *)

LEMMA Care_i2chandler ==
  ASSUME ContractInv, i2chandler
  PROVE  QueueInv' /\ TurnInv' /\ PutInv' /\ DoneInv' /\ CountInv'
<1>1. /\ drv = "xfer"
      /\ UNCHANGED <<waitchain, semaphore, ring, drv, drivershouldexit, client>>
  BY DEF i2chandler, I2CPending, ContractInv, I2CInv, HardwareInv, AtRest
<1>2. CASE ready2run' = ready2run
  BY <1>1, <1>2, I2CQuietStep
<1>3. CASE Wakes(i2cdriverblock) /\ ~haswokenup
  <2>1. /\ ready2run' = ll_push_back(ready2run, i2cdriverblock)
        /\ i2cdriverblock \notin ToSet(ready2run) /\ i2cdriverblock \in Coroutine
        /\ ready2run \in Seq(Coroutine)
    BY <1>1, <1>3 DEF Wakes, ContractInv, I2CInv, DriverInv, KernelInv, Queues, Asleep, Coroutine
  <2>2. /\ ToSet(ready2run') = ToSet(ready2run) \cup {i2cdriverblock}
        /\ \A x, y : y # i2cdriverblock => (Before(ready2run', x, y) <=> Before(ready2run, x, y))
    BY <2>1, PushBackProps, BeforePushed
  <2>3. \A d \in Client : d # i2cdriverblock /\ (Runs(d) => Runs(d)')
    BY <2>1, RunsOn DEF Runs
  <2>4. QueueInv' /\ CountInv'
    BY <1>1 DEF ContractInv, QueueInv, CountInv
  <2>5. PutInv'
    BY <1>1, <2>3 DEF ContractInv, PutInv
  <2>6. TurnInv'
    BY <1>1, <2>2, <2>3, I2CTurnKept DEF ContractInv, Asleep
  <2>7. DoneInv'
    BY <1>1, <2>2, <2>3, I2CDoneKept DEF ContractInv
  <2> QED BY <2>4, <2>5, <2>6, <2>7
<1> QED BY <1>2, <1>3 DEF i2chandler, wake_driver

-----------------------------------------------------------------------------
LEMMA ContractStart == Init => ContractInv
<1> SUFFICES ASSUME Init PROVE ContractInv
  OBVIOUS
<1> DEFINE n == Cardinality(Client)
<1>1. ready2run \in [1..n -> Client] /\ IsInjective(ready2run)
  BY DEF Init
<1>2. ToSet(ready2run) = Client
  <2>1. n \in Nat
    BY FS_CardinalityType
  <2>2. ready2run \in Injection(1..n, Client)
    BY <1>1 DEF Injection
  <2>3. Cardinality(1..n) = n
    BY <2>1, FS_Interval
  <2>4. ready2run \in Surjection(1..n, Client)
    BY <2>2, <2>3, FS_Injection
  <2> HIDE DEF n
  <2>5. DOMAIN ready2run = 1..n
    BY <1>1
  <2> QED BY <1>1, <2>4, <2>5 DEF Surjection, ToSet
<1>3. I2CInv
  BY I2CInitial
<1>4. Used(cmdindices) = 0 /\ InUse(cmdindices) = {}
  <2>1. cmdindices = rb_init_ringbuffer /\ cmdindices \in Ring
    BY <1>3 DEF Init, I2CInv, TypeOK
  <2>2. Used(cmdindices) = 0
    BY <2>1, EmptyOrFull
  <2> QED BY <2>1, <2>2, InUseCount, FS_EmptySet
<1>5. QueueInv /\ TurnInv /\ PutInv /\ DoneInv /\ CountInv
  BY <1>2, <1>4, SlotsDiffer
     DEF Init, QueueInv, TurnInv, PutInv, DoneInv, Done, CountInv, Asleep
<1> QED BY <1>3, <1>5 DEF ContractInv

LEMMA ContractStep ==
  ASSUME Contract
  PROVE  ContractInv /\ [Next]_vars =>
           ContractInv' /\ (drv = "wait" /\ drv' = "top" => ~rb_is_empty(cmdindices))
<1> SUFFICES ASSUME ContractInv, [Next]_vars
             PROVE  ContractInv' /\ (drv = "wait" /\ drv' = "top" => ~rb_is_empty(cmdindices))
  OBVIOUS
<1> DEFINE Kept == QueueInv' /\ TurnInv' /\ PutInv' /\ DoneInv' /\ CountInv'
           Found == drv = "wait" /\ drv' = "top" => ~rb_is_empty(cmdindices)
<1>1. I2CInv'
  BY I2CNext DEF ContractInv
<1>2. CASE UNCHANGED vars \/ Hardware \/ Abort \/ dma_irq_handler
  <2>1. UNCHANGED <<kernel, ring, client, drv, drivershouldexit>>
    BY <1>2 DEF Hardware, WriteDone, ReadDone, Drained, Abort, dma_irq_handler
  <2> QED BY <2>1, <1>1, I2CQuietStep DEF ContractInv
<1>3. CASE i2chandler
  <2>1. Kept /\ Found
    BY <1>3, Care_i2chandler DEF i2chandler
  <2> QED BY <1>1, <2>1 DEF ContractInv
<1>4. CASE Driver
  <2>1. CASE drv_begin
    BY <1>1, <2>1, Care_drv_begin DEF drv_begin, ContractInv
  <2>2. CASE drv_idle
    BY <1>1, <2>2, Care_drv_idle DEF drv_idle, ContractInv
  <2>3. CASE drv_finish
    BY <1>1, <2>3, Care_drv_finish DEF drv_finish, ContractInv
  <2>4. CASE drv_wait
    BY <1>1, <2>4, Care_drv_wait DEF ContractInv
  <2> QED BY <1>4, <2>1, <2>2, <2>3, <2>4 DEF Driver
<1>5. ASSUME NEW c \in Client,
             queue_cmds(c) \/ ClientGoesOn(c) \/ wait(c) \/ forget(c)
               \/ stop_i2c_driver_async(c)
      PROVE  ContractInv' /\ Found
  <2>1. CASE queue_cmds(c)
    <3>1. Found
      BY <2>1 DEF queue_cmds, init
    <3> QED BY <1>1, <2>1, <3>1, Care_queue_cmds DEF ContractInv
  <2>2. ASSUME NEW r \in BOOLEAN, put(c, r) PROVE ContractInv' /\ Found
    <3>1. Found
      BY <2>2 DEF put
    <3> QED BY <1>1, <2>2, <3>1, Care_put DEF ContractInv
  <2>3. CASE yield(c)
    <3>1. Found
      BY <2>3 DEF yield
    <3> QED BY <1>1, <2>3, <3>1, Care_yield DEF ContractInv
  <2>4. CASE wait(c)
    <3>1. Found
      BY <2>4 DEF wait
    <3> QED BY <1>1, <2>4, <3>1, Care_wait DEF ContractInv
  <2>5. ~forget(c)
    BY DEF forget, Contract
  <2>6. CASE stop_i2c_driver_async(c)
    <3>1. Found
      BY <2>6 DEF stop_i2c_driver_async
    <3> QED BY <1>1, <2>6, <3>1, Care_stop_i2c_driver_async DEF ContractInv
  <2> QED BY <1>5, <2>1, <2>2, <2>3, <2>4, <2>5, <2>6 DEF ClientGoesOn
<1> QED BY <1>2, <1>3, <1>4, <1>5 DEF Next, Interrupt

\* Under the contract each command is known to the client it belongs to and to
\* nobody else until that client knows of its end.
THEOREM ContractInvariance ==
  ASSUME Contract
  PROVE  Spec => []ContractInv
<1>1. Init => ContractInv
  BY ContractStart
<1>2. ContractInv /\ [Next]_vars => ContractInv'
  BY ContractStep
<1> QED BY <1>1, <1>2, PTL DEF Spec

\* Nobody sleeps who is not going to be woken.
THEOREM NobodyIsForgotten ==
  ASSUME Contract
  PROVE  Spec => []NobodyForgotten
<1>1. ContractInv => NobodyForgotten
  <2> SUFFICES ASSUME ContractInv PROVE NobodyForgotten
    OBVIOUS
  <2>1. IsInjective(ready2run)
    BY DEF ContractInv, I2CInv, KernelInv, Queues
  <2>2. ASSUME NEW c \in Client, Asleep(c) PROVE \E s \in Slot : waitchain[s] = c
    BY <2>2, HeadOfQueue, QueuedFacts DEF ContractInv, TurnInv
  <2> QED BY <2>1, <2>2 DEF ContractInv, TurnInv, NobodyForgotten
<1> QED BY <1>1, ContractInvariance, PTL

\* A client returns from its wait when its own command was carried out.
THEOREM WaitingIsDone ==
  ASSUME Contract
  PROVE  Spec => []WaitMeansDone
<1>1. ContractInv => WaitMeansDone
  <2> SUFFICES ASSUME ContractInv, NEW c \in Client, fate[c] = "queued"
               PROVE  /\ slot[c] # NULL /\ cmdringbuffer[slot[c]] = c
                      /\ \E n \in DOMAIN Contents(cmdindices) : Contents(cmdindices)[n] = slot[c]
    BY DEF WaitMeansDone
  <2> QED BY QueuedFacts DEF ContractInv, QueueInv, InUse, Range
<1> QED BY <1>1, ContractInvariance, PTL

\* queue_cmds() does not run into its __breakpoint(): with fewer clients than
\* slots the ring buffer has one for each of them.
THEOREM NoBreakpoint ==
  ASSUME Contract
  PROVE  Spec => [](\A c \in Client : pc[c] = "put" => ~rb_is_full(cmdindices))
<1>1. ContractInv => \A c \in Client : pc[c] = "put" => ~rb_is_full(cmdindices)
  BY NeverFull DEF ContractInv
<1> QED BY <1>1, ContractInvariance, PTL

\* The assertion of i2cdriver_func(): signalled and not to exit, it finds a
\* command.
THEOREM CommandIsThere ==
  ASSUME Contract
  PROVE  Spec => NewCmdThere
<1>1. ContractInv /\ [Next]_vars =>
        [drv = "wait" /\ drv' = "top" => ~rb_is_empty(cmdindices)]_vars
  BY ContractStep
<1> QED BY <1>1, ContractInvariance, PTL DEF Spec, NewCmdThere
=============================================================================
