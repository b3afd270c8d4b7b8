------------------------------- MODULE Devices -------------------------------
(***************************************************************************)
(* The drivers that come and go, on one scheduler: the command queue of    *)
(* src/picowwifi.cpp, whose driver coroutine wififunc() is started by any  *)
(* call and ended by a DISCONNECT, and the LED strip of src/sk6812.cpp,    *)
(* which starts a coroutine for each update; with the stack guards that    *)
(* src/coroutine.cpp puts up for a coroutine that starts and takes down    *)
(* when it exits.                                                          *)
(*                                                                         *)
(* A client waits for the command it queued before it does anything else.  *)
(* What a command does is the subject of WifiConnection: here a handler    *)
(* sleeps a number of times and ends.                                      *)
(*                                                                         *)
(* A definition NAME_but_... is no part of the model: it is NAME with a    *)
(* plausible mistake, which one of the properties has to notice.           *)
(***************************************************************************)
EXTENDS Kernel, RingBuffer, FiniteSets

CONSTANTS
  Client,
  Painter,              \* the one that updates the LED strip
  wifiblock,            \* the driver's coroutine
  sk6812block,          \* that of an update, and its Waitable
  newcmdswaitable,
  Regions,              \* MPU regions (8 of them)
  Guarded,              \* what may hold a region since before: the stacks of
                        \* the SDK, the scheduler and the clients, the flash
  Turns                 \* bound: how often a command sleeps

ASSUME DevicesAssumption ==
  /\ Painter \in Client /\ {wifiblock, sk6812block} \cap Client = {}
  /\ wifiblock # sk6812block
  /\ Slot \cap {newcmdswaitable, sk6812block} = {}
  /\ newcmdswaitable # sk6812block
  /\ NULL \notin Client \cup Slot \cup Guarded \cup {wifiblock, sk6812block}
  \* A call that finds the ring buffer full runs into __breakpoint().
  /\ IsFiniteSet(Client) /\ Cardinality(Client) < RINGBUFFER_SIZE
  /\ Regions \in Nat /\ IsFiniteSet(Guarded) /\ Cardinality(Guarded) <= Regions
  /\ Guarded \cap {wifiblock, sk6812block} = {}
  /\ Turns \in Nat

VARIABLES
  cmdindices,
  cmdringbuffer,        \* by slot in use: whose command it is; what is in the
                        \* others nobody reads
  wifi,                 \* wififunc(): "off", "top" (of its loop), "busy" (in a
                        \* handler), "wait" (yield_and_wait4signal), "exit"
  turns,                \* how often the handler has slept
  led,                  \* sk6812func(): "off", "start" or "sleep"
  dma,                  \* the pixels are on their way
  pixels, shown,        \* what is in the frame buffer and what on the strip
  mpu,                  \* by region: whose stack it guards, or NULL
  pc,                   \* by client: "app", "put" (in a call, past the start of
                        \* the driver), "wait" (for its command), "strip"
  slot,                 \* by client: where its command is, or NULL
  disconnects,          \* clients whose command, to be carried out, is a
                        \* DISCONNECT
  queued,               \* auxiliary: clients whose command was not carried out
  ended                 \* auxiliary: DISCONNECTs carried out, as far as INT8_MAX

wififunc_vars == <<cmdindices, cmdringbuffer, wifi, turns, disconnects, queued,
                   ended>>
strip == <<led, dma, shown>>
devices == <<kernel, wififunc_vars, strip, pixels, mpu, pc, slot>>

DeviceWaitable == Slot \cup {newcmdswaitable, sk6812block}
Region == 1..Regions

\* "when a coro exits the semaphore count doesnt matter": 0x7F.
ExitSignals == INT8_MAX

FrontSlot == rb_peek_front(cmdindices)
Sleeps(p) == p \notin ToSet(ready2run)

DevicesOff ==
  /\ waitchain = [w \in DeviceWaitable |-> NULL]
  /\ semaphore = [w \in DeviceWaitable |-> 0]
  /\ cmdindices = rb_init_ringbuffer /\ cmdringbuffer = [s \in Slot |-> NULL]
  /\ wifi = "off" /\ turns = 0 /\ led = "off" /\ dma = FALSE
  /\ pixels = FALSE /\ shown = FALSE
  /\ pc = [c \in Client |-> "app"] /\ slot = [c \in Client |-> NULL]
  /\ disconnects = {} /\ queued = {} /\ ended = 0

\* The clients have been started, in any order.  The coroutine that started them
\* has exited, and with it went its guard, whichever region that had: any of
\* Guarded may have one, or none.
DevicesInit ==
  /\ DevicesOff
  /\ ready2run \in {s \in [1..Cardinality(Client) -> Client] : IsInjective(s)}
  /\ mpu \in {m \in [Region -> Guarded \cup {NULL}] :
                \A r, q \in Region : m[r] = m[q] /\ m[r] # NULL => r = q}
-----------------------------------------------------------------------------
(* Stack guards.  A region covers 256 bytes, and is found again by their    *)
(* address.  A value of mpu stands for such a block: the one that the stack *)
(* of that coroutine begins in, and no other stack, since none is shorter. *)

\* The first region that is not in use; without one the stack has no guard.
install_stack_guard(p) ==
  LET free == {r \in Region : mpu[r] = NULL} IN
  mpu' = [r \in Region |-> IF r \in free /\ \A f \in free : r <= f THEN p
                           ELSE mpu[r]]

uninstall_stack_guard_but_first(p) ==
  mpu' = [r \in Region |->
            IF mpu[r] \notin Guarded /\ \A f \in Region : mpu[f] \notin Guarded => r <= f
            THEN NULL ELSE mpu[r]]

\* The first region with that address, if there is one.
uninstall_stack_guard(p) ==
  LET found == {r \in Region : mpu[r] = p} IN
  mpu' = [r \in Region |-> IF r \in found /\ \A f \in found : r <= f THEN NULL
                           ELSE mpu[r]]
-----------------------------------------------------------------------------
(* Clients. *)

\* connect_wifi(), disconnect_wifi(), get_ntp(), send_tcp(), send_udp() or
\* httpreq_head(): "safe to start multiple times", and to be "live" is to have
\* been started and not to have exited.
call_wifi(c) ==
  /\ Runs(c) /\ pc[c] = "app"
  /\ pc' = [pc EXCEPT ![c] = "put"]
  /\ disconnects' \in {disconnects, disconnects \cup {c}}
  /\ IF wifi = "off"
     THEN /\ wifi' = "top"
          /\ Starts(c, wifiblock) /\ install_stack_guard(wifiblock)
     ELSE Yields(c) /\ UNCHANGED <<wifi, mpu>>
  /\ UNCHANGED <<waitchain, semaphore, cmdindices, cmdringbuffer, turns, queued,
                 ended, strip, pixels, slot>>

put_wifi_but_only_if_empty(c) ==
  LET s == cmdindices.end IN
  /\ Runs(c) /\ pc[c] = "put" /\ ~rb_is_full(cmdindices)
  /\ cmdindices' = rb_push_back(cmdindices)
  /\ cmdringbuffer' = [cmdringbuffer EXCEPT ![s] = c]
  /\ IF rb_is_empty(cmdindices) THEN Signals(newcmdswaitable) ELSE UNCHANGED kernel
  /\ pc' = [pc EXCEPT ![c] = "wait"] /\ slot' = [slot EXCEPT ![c] = s]
  /\ queued' = queued \cup {c}
  /\ UNCHANGED <<wifi, turns, disconnects, ended, strip, pixels, mpu>>

\* "tell driver that there are new cmds waiting".
put_wifi(c) ==
  LET s == cmdindices.end IN
  /\ Runs(c) /\ pc[c] = "put" /\ ~rb_is_full(cmdindices)
  /\ cmdindices' = rb_push_back(cmdindices)
  /\ cmdringbuffer' = [cmdringbuffer EXCEPT ![s] = c]
  /\ Signals(newcmdswaitable)
  /\ pc' = [pc EXCEPT ![c] = "wait"] /\ slot' = [slot EXCEPT ![c] = s]
  /\ queued' = queued \cup {c}
  /\ UNCHANGED <<wifi, turns, disconnects, ended, strip, pixels, mpu>>

\* yield_and_wait4signal() for the Waitable that the call returned.
await_wifi(c) ==
  /\ Runs(c) /\ pc[c] = "wait"
  /\ \/ /\ Takes(slot[c])
        /\ pc' = [pc EXCEPT ![c] = "app"] /\ slot' = [slot EXCEPT ![c] = NULL]
     \/ Chains(c, slot[c]) /\ UNCHANGED <<pc, slot>>
  /\ UNCHANGED <<wififunc_vars, strip, pixels, mpu>>

update_sk6812ledstrip_but_not_reset ==
  LET c == Painter IN
  /\ Runs(c) /\ pc[c] = "app"
  /\ pixels' \in BOOLEAN
  /\ pc' = [pc EXCEPT ![c] = "strip"]
  /\ IF led = "off"
     THEN /\ led' = "start"
          /\ Starts(c, sk6812block) /\ install_stack_guard(sk6812block)
     ELSE Yields(c) /\ UNCHANGED <<led, mpu>>
  /\ UNCHANGED <<semaphore, waitchain, wififunc_vars, dma, shown, slot>>

\* It paints, and starts the coroutine that sends the pixels: yield_and_start()
\* resets the Waitable, unless the coroutine is live.
update_sk6812ledstrip ==
  LET c == Painter IN
  /\ Runs(c) /\ pc[c] = "app"
  /\ pixels' \in BOOLEAN
  /\ pc' = [pc EXCEPT ![c] = "strip"]
  /\ IF led = "off"
     THEN /\ led' = "start"
          /\ semaphore' = [semaphore EXCEPT ![sk6812block] = 0]
          /\ waitchain' = [waitchain EXCEPT ![sk6812block] = NULL]
          /\ Starts(c, sk6812block) /\ install_stack_guard(sk6812block)
     ELSE Yields(c) /\ UNCHANGED <<led, mpu, semaphore, waitchain>>
  /\ UNCHANGED <<wififunc_vars, dma, shown, slot>>

\* yield_and_wait4signal() for the end of the update.
await_strip ==
  LET c == Painter IN
  /\ Runs(c) /\ pc[c] = "strip"
  /\ \/ Takes(sk6812block) /\ pc' = [pc EXCEPT ![c] = "app"]
     \/ Chains(c, sk6812block) /\ UNCHANGED pc
  /\ UNCHANGED <<wififunc_vars, strip, pixels, mpu, slot>>

client_yield(c) ==
  /\ Runs(c) /\ pc[c] = "app" /\ Yields(c)
  /\ UNCHANGED <<waitchain, semaphore, wififunc_vars, strip, pixels, mpu, pc,
                 slot>>
-----------------------------------------------------------------------------
(* wififunc(). *)

\* A command at the front is carried out, or there is none.
wififunc_top ==
  /\ Runs(wifiblock) /\ wifi = "top"
  /\ wifi' = IF rb_is_empty(cmdindices) THEN "wait" ELSE "busy"
  /\ UNCHANGED <<kernel, cmdindices, cmdringbuffer, turns, disconnects, queued,
                 ended, strip, pixels, mpu, pc, slot>>

IsDisconnect == cmdringbuffer[FrontSlot] \in disconnects

EndsCounted == ended' = IF IsDisconnect /\ ended < INT8_MAX THEN ended + 1 ELSE ended

\* yield_and_wait4time() in a handler; handle_disconnect() has none.
wififunc_sleep ==
  /\ Runs(wifiblock) /\ wifi = "busy" /\ ~IsDisconnect
  /\ turns < Turns /\ turns' = turns + 1
  /\ Leaves(wifiblock)
  /\ UNCHANGED <<waitchain, semaphore, cmdindices, cmdringbuffer, wifi,
                 disconnects, queued, ended, strip, pixels, mpu, pc, slot>>

wififunc_end_but_popped_first ==
  /\ Runs(wifiblock) /\ wifi = "busy"
  /\ cmdindices' = rb_pop_front(cmdindices)
  /\ cmdringbuffer' = [cmdringbuffer EXCEPT ![FrontSlot] = NULL]
  /\ Signals(rb_peek_front(rb_pop_front(cmdindices)))
  /\ wifi' = (IF IsDisconnect THEN "exit" ELSE "wait") /\ turns' = 0
  /\ queued' = queued \ {cmdringbuffer[FrontSlot]}
  /\ disconnects' = disconnects \ {cmdringbuffer[FrontSlot]} /\ EndsCounted
  /\ UNCHANGED <<strip, pixels, mpu, pc, slot>>

\* The handler returns: the client is signalled, the command is popped.
wififunc_end ==
  /\ Runs(wifiblock) /\ wifi = "busy"
  /\ Signals(FrontSlot)
  /\ cmdindices' = rb_pop_front(cmdindices)
  /\ cmdringbuffer' = [cmdringbuffer EXCEPT ![FrontSlot] = NULL]
  /\ wifi' = (IF IsDisconnect THEN "exit" ELSE "wait") /\ turns' = 0
  /\ queued' = queued \ {cmdringbuffer[FrontSlot]}
  /\ disconnects' = disconnects \ {cmdringbuffer[FrontSlot]} /\ EndsCounted
  /\ UNCHANGED <<strip, pixels, mpu, pc, slot>>

\* yield_and_wait4signal(&newcmdswaitable), whatever is in the ring buffer.
wififunc_wait ==
  /\ Runs(wifiblock) /\ wifi = "wait"
  /\ \/ Takes(newcmdswaitable) /\ wifi' = "top"
     \/ Chains(wifiblock, newcmdswaitable) /\ UNCHANGED wifi
  /\ UNCHANGED <<cmdindices, cmdringbuffer, turns, disconnects, queued, ended,
                 strip, pixels, mpu, pc, slot>>

\* After a DISCONNECT, with whatever is in the ring buffer.
wififunc_exit ==
  /\ Runs(wifiblock) /\ wifi = "exit"
  /\ wifi' = "off"
  /\ Leaves(wifiblock) /\ uninstall_stack_guard(wifiblock)
  /\ UNCHANGED <<waitchain, semaphore, cmdindices, cmdringbuffer, turns,
                 disconnects, queued, ended, strip, pixels, pc, slot>>
-----------------------------------------------------------------------------
(* sk6812func(). *)

\* It starts the DMA channel and sleeps for as long as that takes.
sk6812func ==
  /\ Runs(sk6812block) /\ led = "start"
  /\ led' = "sleep" /\ dma' = TRUE
  /\ Leaves(sk6812block)
  /\ UNCHANGED <<waitchain, semaphore, wififunc_vars, shown, pixels, mpu, pc,
                 slot>>

sk6812func_exit_but_nobody_woken ==
  /\ Runs(sk6812block) /\ led = "sleep"
  /\ led' = "off"
  /\ semaphore' = [semaphore EXCEPT ![sk6812block] = ExitSignals]
  /\ Leaves(sk6812block)
  /\ uninstall_stack_guard(sk6812block)
  /\ UNCHANGED <<waitchain, wififunc_vars, dma, shown, pixels, pc, slot>>

\* It exits, and is worth ExitSignals signals then.
sk6812func_exit ==
  LET waiter == waitchain[sk6812block] IN
  /\ Runs(sk6812block) /\ led = "sleep"
  /\ led' = "off"
  /\ semaphore' = [semaphore EXCEPT ![sk6812block] = ExitSignals]
  /\ waitchain' = [waitchain EXCEPT ![sk6812block] = NULL]
  /\ ready2run' = LET rest == ll_pop_front(ready2run) IN
                  IF waiter # NULL THEN ll_push_back(rest, waiter) ELSE rest
  /\ uninstall_stack_guard(sk6812block)
  /\ UNCHANGED <<wififunc_vars, dma, shown, pixels, pc, slot>>
-----------------------------------------------------------------------------
(* The hardware: external. *)

\* The DMA channel has sent the pixels, as they are, in 4980 us; sk6812func()
\* sleeps for 1 ms more than that.
dma_done ==
  /\ dma /\ dma' = FALSE /\ shown' = pixels
  /\ UNCHANGED <<kernel, wififunc_vars, led, pixels, mpu, pc, slot>>

\* The alarm of a coroutine that is in yield_and_wait4time().
timer_fired(p) ==
  /\ \/ p = wifiblock /\ wifi = "busy"
     \/ p = sk6812block /\ led = "sleep" /\ ~dma
  /\ Sleeps(p) /\ Wakes(p)
  /\ UNCHANGED <<waitchain, semaphore, wififunc_vars, strip, pixels, mpu, pc,
                 slot>>
-----------------------------------------------------------------------------
WifiFunc ==
  \/ wififunc_top \/ wififunc_sleep \/ wififunc_end \/ wififunc_wait
  \/ wififunc_exit

Strip == sk6812func \/ sk6812func_exit

ClientsTurn(c) == put_wifi(c) \/ await_wifi(c) \/ client_yield(c)

DevicesNext ==
  \/ \E c \in Client : call_wifi(c) \/ ClientsTurn(c)
  \/ update_sk6812ledstrip
  \/ await_strip
  \/ WifiFunc
  \/ Strip
  \/ dma_done
  \/ \E p \in {wifiblock, sk6812block} : timer_fired(p)

\* Coroutines give up the cpu, and the hardware does what it is for.
DevicesFairness ==
  /\ WF_devices(WifiFunc) /\ WF_devices(Strip) /\ WF_devices(await_strip)
  /\ WF_devices(dma_done)
  /\ \A p \in {wifiblock, sk6812block} : WF_devices(timer_fired(p))
  /\ \A c \in Client : WF_devices(ClientsTurn(c))

DevicesSpec == DevicesInit /\ [][DevicesNext]_devices /\ DevicesFairness
-----------------------------------------------------------------------------
DevicesTypeOK ==
  /\ ready2run \in Seq(Client \cup {wifiblock, sk6812block})
  /\ waitchain \in [DeviceWaitable -> Client \cup {wifiblock, NULL}]
  /\ semaphore \in [DeviceWaitable -> Int8]
  /\ cmdindices \in Ring /\ cmdringbuffer \in [Slot -> Client \cup {NULL}]
  /\ wifi \in {"off", "top", "busy", "wait", "exit"} /\ turns \in 0..Turns
  /\ led \in {"off", "start", "sleep"}
  /\ {dma, pixels, shown} \subseteq BOOLEAN
  /\ mpu \in [Region -> Guarded \cup {NULL, wifiblock, sk6812block}]
  /\ pc \in [Client -> {"app", "put", "wait", "strip"}]
  /\ slot \in [Client -> Slot \cup {NULL}]
  /\ disconnects \subseteq Client /\ queued \subseteq Client
  /\ ended \in 0..INT8_MAX

\* Each DISCONNECT may leave a signal behind, and semaphore is an int8_t: as long
\* as there have been no more than this it cannot have gone past INT8_MAX.
InRange == ended + Cardinality(Client) <= INT8_MAX

\* wififunc() takes one command off the ring buffer for each signal it waits
\* for, starts with no regard to the signals of its last life and never resets
\* them: still, when it waits there is a signal for every command, so that it
\* never sleeps with one in the ring buffer.  That holds until the signals its
\* lives have left behind are more than an int8_t can count.
NothingUnseen ==
  InRange /\ wifi = "wait" => semaphore[newcmdswaitable] >= Used(cmdindices)

\* The wait for the Waitable that a call returned is over when that command has
\* been carried out, and not before, also for a command that outlived the
\* driver it was meant for: its entry stays where it is until then.
CommandDone ==
  \A c \in queued : /\ slot[c] # NULL /\ cmdringbuffer[slot[c]] = c
                    /\ slot[c] \in Range(Contents(cmdindices))

\* "signaled when the LEDs have been updated": a painter that waits for each
\* update finds its pixels on the strip, not those of the update before.
UpdateShown == pc[Painter] = "app" => shown = pixels

\* A region guards the stack of a coroutine that is live, and each stack once:
\* starting and ending coroutines over and over uses up no regions, so that
\* with as many regions as coroutines each that is live has its guard.
GuardsOfTheLive ==
  LET live == (IF wifi = "off" THEN {} ELSE {wifiblock})
              \cup (IF led = "off" THEN {} ELSE {sk6812block})
      others == {r \in Region : mpu[r] \notin Guarded} IN
  /\ \A r \in others : mpu[r] \in live \cup {NULL}
  /\ \A r, q \in others : mpu[r] = mpu[q] /\ mpu[r] # NULL => r = q
  /\ Cardinality(others) >= 2 => \A p \in live : \E r \in others : mpu[r] = p

\* A client that waits is served, unless somebody disconnects, whose command
\* the driver does not outlive, or the signals do not count any more.
ServedUnlessOff ==
  \A c \in Client : pc[c] = "wait" ~> pc[c] = "app" \/ wifi = "off" \/ ~InRange

\* An update of the strip ends: also when the painter gets to wait only after the
\* coroutine has exited, or waits already.
UpdatesEnd == pc[Painter] = "strip" ~> pc[Painter] = "app"
=============================================================================
