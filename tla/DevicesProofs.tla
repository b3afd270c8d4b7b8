---------------------------- MODULE DevicesProofs ----------------------------
(***************************************************************************)
(* A Wi-Fi command is not lost and not taken for another one, whatever the *)
(* driver's comings and goings, an update of the LED strip is on the strip *)
(* when the wait for it is over, and stack guards are neither used up nor  *)
(* missing: DevicesInv is an invariant of Devices, for any number of       *)
(* clients, of slots that is greater, and of regions.  Last, a theorem on  *)
(* ChargeHysteresis, another device.                                       *)
(***************************************************************************)
EXTENDS Devices, KernelProofs, ChargeHysteresis

USE DevicesAssumption, RingBufferAssumption
USE DEF kernel, wififunc_vars, strip

Crew == Client \cup {wifiblock, sk6812block}

\* Who is chained to which Waitable: the driver while it waits for commands,
\* the painter while its update is under way, a client to the slot of its
\* command until that is carried out.
ChainInv ==
  \A w \in DeviceWaitable : waitchain[w] # NULL =>
    \/ w = newcmdswaitable /\ waitchain[w] = wifiblock /\ wifi = "wait"
    \/ w = sk6812block /\ waitchain[w] = Painter /\ pc[Painter] = "strip"
    \/ w \in Slot /\ waitchain[w] \in queued /\ slot[waitchain[w]] = w

\* A client that sleeps is going to be woken, and who has exited does not run.
AwakeInv ==
  /\ \A c \in Client : Sleeps(c) =>
       \/ pc[c] = "wait" /\ waitchain[slot[c]] = c
       \/ c = Painter /\ pc[c] = "strip" /\ waitchain[sk6812block] = c
  /\ wifi = "off" => Sleeps(wifiblock)
  /\ led = "off" => Sleeps(sk6812block)

\* There is a command in each slot in use, and each belongs to a client.
CommandInv ==
  /\ \A c \in Client : pc[c] = "wait" <=> slot[c] # NULL
  /\ queued \subseteq {c \in Client : pc[c] = "wait"}
  /\ \A c \in queued : cmdringbuffer[slot[c]] = c /\ slot[c] \in InUse(cmdindices)
  /\ \A s \in InUse(cmdindices) :
       cmdringbuffer[s] \in queued /\ slot[cmdringbuffer[s]] = s

\* The command was carried out, and the client has not been told.
Done(c) == pc[c] = "wait" /\ c \notin queued

\* Clients that will queue a command before it is c's turn.
Ahead(c) == {d \in Client : pc[d] = "put" /\ Before(ready2run, d, c)}

\* The signal for a client stays where it is until the client has taken it:
\* it runs before there can be so many new commands that one gets its slot.
DoneInv ==
  /\ \A c \in Client : Done(c) =>
       /\ slot[c] \notin InUse(cmdindices) /\ semaphore[slot[c]] = 1
       /\ c \in ToSet(ready2run)
       /\ Cardinality(Ahead(c)) <= Steps(cmdindices.end, slot[c])
  /\ \A c, d \in Client : Done(c) /\ Done(d) /\ slot[c] = slot[d] => c = d
  /\ \A s \in Slot : semaphore[s] # 0 => \E c \in Client : Done(c) /\ slot[c] = s

Putters == {d \in Client : pc[d] = "put"}

\* The driver is about to take the signal of a command that it has carried out.
Taking == wifi = "wait" /\ Runs(wifiblock)

\* A signal for each command, but for one that the driver has taken already, and
\* no more to spare than one for each DISCONNECT: none is counted past INT8_MAX.
SignalInv ==
  /\ wifi = "busy" => Used(cmdindices) > 0
  /\ InRange =>
       /\ semaphore[newcmdswaitable] >= 0
       /\ wifi \in {"off", "wait", "exit"} =>
            semaphore[newcmdswaitable] >= Used(cmdindices)
       /\ wifi \in {"top", "busy"} =>
            semaphore[newcmdswaitable] >= Used(cmdindices) - 1
       /\ semaphore[newcmdswaitable] <= Used(cmdindices) + ended + 1
       /\ ~Taking => semaphore[newcmdswaitable] <= Used(cmdindices) + ended

\* While an update is under way its painter waits; then it is on the strip.
StripInv ==
  /\ led # "off" => pc[Painter] = "strip" /\ semaphore[sk6812block] = 0
  /\ dma => led = "sleep" /\ Sleeps(sk6812block)
  /\ led = "off" \/ (led = "sleep" /\ ~dma) => shown = pixels

DevicesInv ==
  /\ DevicesTypeOK /\ Queues(Crew, DeviceWaitable) /\ ChainInv /\ AwakeInv
  /\ CommandInv /\ DoneInv /\ SignalInv /\ StripInv /\ GuardsOfTheLive

-----------------------------------------------------------------------------
LEMMA Names ==
  /\ \A s \in Slot : s \in DeviceWaitable /\ s # newcmdswaitable /\ s # sk6812block
  /\ newcmdswaitable \in DeviceWaitable /\ sk6812block \in DeviceWaitable
  /\ newcmdswaitable # sk6812block
  /\ NULL \notin Crew /\ NULL \notin Slot /\ Painter \in Client
  /\ wifiblock \in Crew /\ sk6812block \in Crew /\ Client \subseteq Crew
  /\ wifiblock \notin Client /\ sk6812block \notin Client /\ wifiblock # sk6812block
  /\ \A p \in Crew : p \in Client \/ p = wifiblock \/ p = sk6812block
BY DEF DeviceWaitable, Crew

\* A driver is in a wait chain only while it waits for commands.
LEMMA WhoIsChained ==
  ASSUME DevicesInv
  PROVE  /\ \A w \in DeviceWaitable : waitchain[w] # sk6812block
         /\ \A w \in DeviceWaitable : waitchain[w] = wifiblock => wifi = "wait"
         /\ \A s \in Slot : waitchain[s] # NULL =>
              waitchain[s] \in queued /\ slot[waitchain[s]] = s
         /\ waitchain[newcmdswaitable] \in {NULL, wifiblock}
         /\ waitchain[sk6812block] \in {NULL, Painter}
  BY Names DEF DevicesInv, ChainInv, DevicesTypeOK, CommandInv

-----------------------------------------------------------------------------
(* What a step leaves as it is. *)

LEMMA CommandKept ==
  ASSUME CommandInv, UNCHANGED <<cmdindices, cmdringbuffer, slot, queued>>,
         \A c \in Client : pc'[c] = "wait" <=> pc[c] = "wait"
  PROVE  CommandInv'
BY DEF CommandInv

LEMMA FewerAhead ==
  ASSUME NEW c, Ahead(c)' \subseteq Ahead(c)
  PROVE  /\ Cardinality(Ahead(c)) \in Nat /\ Cardinality(Ahead(c)') \in Nat
         /\ Cardinality(Ahead(c)') <= Cardinality(Ahead(c))
<1>1. IsFiniteSet(Ahead(c))
  BY FS_Subset DEF Ahead
<1>2. IsFiniteSet(Ahead(c)')
  BY <1>1, FS_Subset
<1> QED BY <1>1, <1>2, FS_Subset, FS_CardinalityType

\* Nobody gets ahead of a client whose command is done.
LEMMA DoneKept ==
  ASSUME DevicesInv, UNCHANGED <<cmdindices, slot, queued>>,
         \A c \in Client : pc'[c] = "wait" <=> pc[c] = "wait",
         \A s \in Slot : semaphore'[s] = semaphore[s],
         \A c \in Client : Done(c) =>
           /\ c \in ToSet(ready2run')
           /\ \A d \in Client : pc'[d] = "put" /\ Before(ready2run', d, c) =>
                pc[d] = "put" /\ Before(ready2run, d, c)
  PROVE  DoneInv'
<1>1. \A c \in Client : Done(c)' <=> Done(c)
  BY DEF Done
<1>2. \A c \in Client : Done(c) => slot[c] \in Slot
  BY DEF Done, DevicesInv, CommandInv, DevicesTypeOK
<1>3. ASSUME NEW c \in Client, Done(c)
      PROVE  Cardinality(Ahead(c)') <= Steps(cmdindices.end, slot[c])
  <2>1. Ahead(c)' \subseteq Ahead(c)
    BY <1>3 DEF Ahead
  <2>2. /\ Cardinality(Ahead(c)) \in Nat /\ Cardinality(Ahead(c)') \in Nat
        /\ Cardinality(Ahead(c)') <= Cardinality(Ahead(c))
    BY <2>1, FewerAhead
  <2>3. Steps(cmdindices.end, slot[c]) \in Slot
    BY <1>2, <1>3, RingTypes, StepsSmall DEF DevicesInv, DevicesTypeOK
  <2>4. Cardinality(Ahead(c)) <= Steps(cmdindices.end, slot[c])
    BY <1>3 DEF DevicesInv, DoneInv
  <2> QED BY <2>2, <2>3, <2>4, SlotType
<1> QED BY <1>1, <1>2, <1>3 DEF DevicesInv, DoneInv

LEMMA SignalKept ==
  ASSUME SignalInv, UNCHANGED <<wifi, cmdindices, ended>>,
         semaphore'[newcmdswaitable] = semaphore[newcmdswaitable],
         Taking => Taking'
  PROVE  SignalInv'
<1>1. InRange' <=> InRange
  BY DEF InRange
<1> QED BY <1>1 DEF SignalInv

LEMMA NotTaking ==
  ASSUME NEW p \in Crew \ {wifiblock}, Runs(p)
  PROVE  ~Taking
BY DEF Taking, Runs

\* Who wakes up goes to the back.
LEMMA HeadStays ==
  ASSUME DevicesTypeOK, Runs(wifiblock),
         ready2run' = ready2run \/ \E p \in Crew : ready2run' = ll_push_back(ready2run, p)
  PROVE  Runs(wifiblock)'
<1>1. ready2run \in Seq(Crew) /\ ready2run # <<>>
  BY DEF DevicesTypeOK, Crew, Runs
<1>2. CASE ready2run' = ready2run
  BY <1>2 DEF Runs
<1>3. ASSUME NEW p \in Crew, ready2run' = ll_push_back(ready2run, p)
      PROVE  Runs(wifiblock)'
  BY <1>1, <1>3 DEF Runs, ll_push_back, ll_peek_head
<1> QED BY <1>2, <1>3

LEMMA StripKept ==
  ASSUME StripInv, UNCHANGED <<strip, pixels>>,
         semaphore'[sk6812block] = semaphore[sk6812block],
         pc[Painter] = "strip" => pc'[Painter] = "strip",
         dma /\ Sleeps(sk6812block) => Sleeps(sk6812block)'
  PROVE  StripInv'
BY DEF StripInv

LEMMA GuardsKept ==
  ASSUME GuardsOfTheLive, UNCHANGED mpu,
         wifi' = "off" <=> wifi = "off", led' = "off" <=> led = "off"
  PROVE  GuardsOfTheLive'
BY DEF GuardsOfTheLive

\* Those in the run queue stay or wake up, and so nobody needs a new reason to
\* sleep.
LEMMA AwakeKept ==
  ASSUME DevicesInv, UNCHANGED <<waitchain, slot, wifi, led>>,
         ToSet(ready2run) \cap Client \subseteq ToSet(ready2run'),
         wifi = "off" => Sleeps(wifiblock)', led = "off" => Sleeps(sk6812block)',
         \A c \in Client : Sleeps(c) => pc'[c] = pc[c]
  PROVE  AwakeInv'
BY DEF DevicesInv, AwakeInv, Sleeps

\* As many commands and callers as clients at the most.
LEMMA ClientsEnough ==
  ASSUME DevicesTypeOK, CommandInv
  PROVE  /\ IsFiniteSet(Putters) /\ Cardinality(Putters) \in Nat
         /\ Used(cmdindices) \in Nat /\ Cardinality(Client) \in Nat
         /\ Cardinality(Putters) + Used(cmdindices) <= Cardinality(Client)
         /\ Cardinality(Putters) + Used(cmdindices) < RINGBUFFER_SIZE
<1>1. /\ Putters \in SUBSET Client /\ queued \in SUBSET Client
      /\ Putters \cap queued = {} /\ IsFiniteSet(Client)
  BY DEF DevicesTypeOK, CommandInv, Putters
<1>2. /\ IsFiniteSet(Putters) /\ IsFiniteSet(queued) /\ IsFiniteSet(Putters \cup queued)
      /\ Cardinality(Putters \cup queued) <= Cardinality(Client)
  BY <1>1, FS_Subset
<1>3. Cardinality(Putters \cup queued) = Cardinality(Putters) + Cardinality(queued)
  <2>1. Cardinality(Putters \cup queued) =
          Cardinality(Putters) + Cardinality(queued) - Cardinality(Putters \cap queued)
    BY <1>2, FS_Union
  <2>2. Cardinality(Putters) \in Nat /\ Cardinality(queued) \in Nat
    BY <1>2, FS_CardinalityType
  <2>3. Cardinality(Putters \cap queued) = 0
    BY <1>1, FS_EmptySet
  <2> QED BY <2>1, <2>2, <2>3
<1>4. IsFiniteSet(InUse(cmdindices)) /\ Cardinality(InUse(cmdindices)) = Used(cmdindices)
  BY InUseCount DEF DevicesTypeOK
<1>5. Used(cmdindices) <= Cardinality(queued)
  <2> DEFINE owner == [s \in InUse(cmdindices) |-> cmdringbuffer[s]]
  <2>1. owner \in [InUse(cmdindices) -> queued]
    BY DEF CommandInv
  <2>2. \A s, t \in InUse(cmdindices) : owner[s] = owner[t] => s = t
    BY DEF CommandInv
  <2> HIDE DEF owner
  <2>3. owner \in Injection(InUse(cmdindices), queued)
    BY <2>1, <2>2 DEF Injection, IsInjective
  <2> QED BY <1>2, <1>4, <2>3, FS_Injection
<1>6. /\ Cardinality(Putters) \in Nat /\ Cardinality(queued) \in Nat
      /\ Cardinality(Client) \in Nat /\ Used(cmdindices) \in Nat
  BY <1>1, <1>2, <1>4, FS_CardinalityType
<1>7. Cardinality(Client) < RINGBUFFER_SIZE
  OBVIOUS
<1> QED BY <1>2, <1>3, <1>5, <1>6, <1>7

-----------------------------------------------------------------------------
(* Stack guards. *)

Live == (IF wifi = "off" THEN {} ELSE {wifiblock})
        \cup (IF led = "off" THEN {} ELSE {sk6812block})

Others == {r \in Region : mpu[r] \notin Guarded}

Guarding ==
  /\ \A r \in Others : mpu[r] \in Live \cup {NULL}
  /\ \A r, q \in Others : mpu[r] = mpu[q] /\ mpu[r] # NULL => r = q
  /\ Cardinality(Others) >= 2 => \A p \in Live : \E r \in Others : mpu[r] = p

LEMMA GuardsMean == (GuardsOfTheLive <=> Guarding) /\ (GuardsOfTheLive' <=> Guarding')
BY DEF GuardsOfTheLive, Guarding, Live, Others

LEMMA TwoOthers ==
  ASSUME Cardinality(Others) >= 2
  PROVE  \E r, q \in Others : r # q
<1>1. IsFiniteSet(Others)
  <2>1. Others \in SUBSET (1..Regions) /\ IsFiniteSet(1..Regions)
    BY FS_Interval DEF Others, Region
  <2> QED BY <2>1, FS_Subset
<1>2. Cardinality(Others) # 0 /\ Cardinality(Others) # 1
  BY <1>1, FS_CardinalityType
<1>3. Others # {}
  BY <1>2, FS_EmptySet
<1>4. PICK r \in Others : TRUE
  BY <1>3
<1>5. Others # {r}
  BY <1>2, FS_Singleton
<1> QED BY <1>4, <1>5

\* Without a free region two of them would guard the only other driver.
LEMMA InstallSafe ==
  ASSUME DevicesTypeOK, GuardsOfTheLive, NEW p \in {wifiblock, sk6812block},
         p \notin Live, Live' = Live \cup {p}, install_stack_guard(p)
  PROVE  GuardsOfTheLive' /\ mpu' \in [Region -> Guarded \cup {NULL, wifiblock, sk6812block}]
<1> DEFINE free == {r \in Region : mpu[r] = NULL}
<1>1. mpu' = [r \in Region |-> IF r \in free /\ \A f \in free : r <= f THEN p ELSE mpu[r]]
  BY DEF install_stack_guard
<1>2. /\ mpu \in [Region -> Guarded \cup {NULL, wifiblock, sk6812block}]
      /\ NULL \notin Guarded /\ p \notin Guarded /\ p # NULL /\ free \subseteq Others
      /\ \A r \in Region : r \in Int
  BY DEF DevicesTypeOK, Others, Region
<1> HIDE DEF free
<1>3. \A r \in Region : \/ mpu'[r] = mpu[r]
                        \/ mpu'[r] = p /\ r \in free /\ \A f \in free : r <= f
  BY <1>1
<1>4. mpu' \in [Region -> Guarded \cup {NULL, wifiblock, sk6812block}]
  BY <1>1, <1>2
<1>5. Others' = Others
  BY <1>2, <1>3 DEF Others, free
<1>6. /\ \A r \in Others : mpu[r] \in Live \cup {NULL}
      /\ \A r, q \in Others : mpu[r] = mpu[q] /\ mpu[r] # NULL => r = q
      /\ Cardinality(Others) >= 2 => \A b \in Live : \E r \in Others : mpu[r] = b
  BY GuardsMean DEF Guarding
<1>7. \A r \in Others : r \in Region /\ mpu[r] # p
  BY <1>2, <1>6 DEF Others
<1>8. \A r \in Others' : mpu'[r] \in Live' \cup {NULL}
  BY <1>3, <1>5, <1>6, <1>7
<1>9. \A r, q \in Others' : mpu'[r] = mpu'[q] /\ mpu'[r] # NULL => r = q
  BY <1>2, <1>3, <1>5, <1>6, <1>7
<1>10. ASSUME Cardinality(Others) >= 2, NEW b \in Live'
       PROVE  \E r \in Others : mpu'[r] = b
  <2>1. CASE b # p
    <3>1. PICK r \in Others : mpu[r] = b
      BY <1>6, <1>10, <2>1
    <3>2. b # NULL
      BY <2>1, <1>10 DEF Live
    <3> QED BY <1>3, <1>7, <3>1, <3>2 DEF free
  <2>2. CASE b = p
    <3>1. free # {}
      <4>1. SUFFICES ASSUME free = {} PROVE FALSE
        OBVIOUS
      <4>2. PICK r \in Others, q \in Others : r # q
        BY <1>10, TwoOthers
      <4>3. mpu[r] \in Live /\ mpu[q] \in Live /\ mpu[r] # mpu[q]
        BY <1>6, <1>7, <4>1, <4>2 DEF free
      <4>4. \A x, y \in Live : x = y
        BY DEF Live
      <4> QED BY <4>3, <4>4
    <3>2. free \in SUBSET (0..Regions) /\ Regions \in Nat
      BY DEF free, Region
    <3>3. PICK r \in free : \A f \in free : r <= f
      BY <3>1, <3>2, MinNat
    <3> QED BY <1>1, <1>2, <1>7, <2>2, <3>3
  <2> QED BY <2>1, <2>2
<1> QED BY <1>4, <1>5, <1>8, <1>9, <1>10, GuardsMean DEF Guarding

LEMMA UninstallSafe ==
  ASSUME DevicesTypeOK, GuardsOfTheLive, NEW p \in {wifiblock, sk6812block},
         Live' = Live \ {p}, uninstall_stack_guard(p)
  PROVE  GuardsOfTheLive' /\ mpu' \in [Region -> Guarded \cup {NULL, wifiblock, sk6812block}]
<1>1. /\ mpu' = [r \in Region |-> IF mpu[r] = p THEN NULL ELSE mpu[r]]
      /\ mpu \in [Region -> Guarded \cup {NULL, wifiblock, sk6812block}]
      /\ NULL \notin Guarded /\ p \notin Guarded /\ p # NULL
  <2>1. NULL \notin Guarded /\ p \notin Guarded /\ p # NULL
    OBVIOUS
  <2>2. \A r, q \in Region : mpu[r] = p /\ mpu[q] = p => r = q
    BY <2>1, GuardsMean DEF Guarding, Others
  <2>3. \A r \in Region : r <= r
    BY DEF Region
  <2> QED BY <2>1, <2>2, <2>3 DEF uninstall_stack_guard, DevicesTypeOK
<1>2. Others' = Others /\ \A r \in Others : r \in Region
  BY <1>1 DEF Others
<1>3. \A r \in Others : mpu'[r] = IF mpu[r] = p THEN NULL ELSE mpu[r]
  BY <1>1, <1>2
<1>4. /\ \A r \in Others : mpu[r] \in Live \cup {NULL}
      /\ \A r, q \in Others : mpu[r] = mpu[q] /\ mpu[r] # NULL => r = q
      /\ Cardinality(Others) >= 2 => \A b \in Live : \E r \in Others : mpu[r] = b
  BY GuardsMean DEF Guarding
<1>5. GuardsOfTheLive'
  BY <1>2, <1>3, <1>4, GuardsMean DEF Guarding
<1> QED BY <1>1, <1>5

-----------------------------------------------------------------------------
(* Clients. *)

LEMMA Step_client_yield ==
  ASSUME DevicesInv, NEW c \in Client, client_yield(c)
  PROVE  DevicesInv'
<1>1. /\ Runs(c) /\ Yields(c)
      /\ UNCHANGED <<waitchain, semaphore, wififunc_vars, strip, pixels, mpu, pc, slot>>
  BY DEF client_yield
<1>2. /\ Queues(Crew, DeviceWaitable)' /\ ToSet(ready2run') = ToSet(ready2run)
      /\ \A x, y : y # c =>
           (Before(ready2run', x, y) <=> x # c /\ Before(ready2run, x, y))
      /\ \A x : ~Before(ready2run, x, c)
  BY <1>1, Names, YieldsSafe, HeadFacts DEF DevicesInv
<1>3. DevicesTypeOK'
  BY <1>1, <1>2 DEF DevicesInv, DevicesTypeOK, Queues, Crew
<1>4. ChainInv' /\ AwakeInv'
  BY <1>1, <1>2 DEF DevicesInv, ChainInv, AwakeInv, Sleeps
<1>5. CommandInv' /\ SignalInv' /\ StripInv' /\ GuardsOfTheLive'
  BY <1>1, <1>2, Names, NotTaking, CommandKept, SignalKept, StripKept, GuardsKept
     DEF DevicesInv, Sleeps
<1>6. DoneInv'
  <2>1. pc[c] # "wait"
    BY DEF client_yield
  <2>2. \A a \in Client : Done(a) => a # c /\ a \in ToSet(ready2run)
    BY <2>1 DEF DevicesInv, DoneInv, Done
  <2> QED BY <1>1, <1>2, <2>2, DoneKept
<1> QED BY <1>2, <1>3, <1>4, <1>5, <1>6 DEF DevicesInv

LEMMA Step_call_wifi ==
  ASSUME DevicesInv, NEW c \in Client, call_wifi(c)
  PROVE  DevicesInv'
<1>1. /\ Runs(c) /\ pc[c] = "app"
      /\ pc' = [pc EXCEPT ![c] = "put"] /\ disconnects' \subseteq Client
      /\ UNCHANGED <<waitchain, semaphore, cmdindices, cmdringbuffer, turns, queued,
                     ended, strip, pixels, slot>>
  BY DEF call_wifi, DevicesInv, DevicesTypeOK
<1>2. pc'[c] = "put" /\ \A d \in Client \ {c} : pc'[d] = pc[d]
  BY <1>1 DEF DevicesInv, DevicesTypeOK
<1>3. /\ Queues(Crew, DeviceWaitable)'
      /\ ToSet(ready2run) \subseteq ToSet(ready2run')
      /\ ToSet(ready2run') \subseteq ToSet(ready2run) \cup {wifiblock}
      /\ \A x : \A a \in Client \ {c} :
           Before(ready2run', x, a) <=> x # c /\ Before(ready2run, x, a)
      /\ wifi' # "off" /\ wifi' \in {wifi, "top"} /\ (wifi' = wifi \/ wifi = "off")
      /\ GuardsOfTheLive' /\ mpu' \in [Region -> Guarded \cup {NULL, wifiblock, sk6812block}]
  <2>1. CASE wifi = "off"
    <3>1. wifi' = "top" /\ Starts(c, wifiblock) /\ install_stack_guard(wifiblock)
      BY <2>1 DEF call_wifi
    <3>2. /\ wifiblock \notin ToSet(ready2run)
          /\ \A w \in DeviceWaitable : waitchain[w] # wifiblock
      BY <2>1, WhoIsChained DEF DevicesInv, AwakeInv, Sleeps
    <3>3. /\ waitchain' \in [DeviceWaitable -> Crew \cup {NULL}]
          /\ semaphore' \in [DeviceWaitable -> Int8]
      BY <1>1 DEF DevicesInv, Queues
    <3>4. /\ Queues(Crew, DeviceWaitable)'
          /\ ToSet(ready2run') = ToSet(ready2run) \cup {wifiblock}
          /\ \A x, y : y \notin {c, wifiblock} =>
               (Before(ready2run', x, y) <=> x # c /\ Before(ready2run, x, y))
      BY <1>1, <3>1, <3>2, <3>3, Names, StartsSafe DEF DevicesInv
    <3>5. wifiblock \notin Live /\ Live' = Live \cup {wifiblock}
      BY <1>1, <2>1, <3>1, Names DEF Live
    <3>6. GuardsOfTheLive' /\ mpu' \in [Region -> Guarded \cup {NULL, wifiblock, sk6812block}]
      BY <3>1, <3>5, InstallSafe DEF DevicesInv
    <3> QED BY <2>1, <3>1, <3>4, <3>6, Names
  <2>2. CASE wifi # "off"
    <3>1. Yields(c) /\ UNCHANGED <<wifi, mpu>>
      BY <2>2 DEF call_wifi
    <3>2. /\ Queues(Crew, DeviceWaitable)' /\ ToSet(ready2run') = ToSet(ready2run)
          /\ \A x, y : y # c =>
               (Before(ready2run', x, y) <=> x # c /\ Before(ready2run, x, y))
      BY <1>1, <3>1, Names, YieldsSafe DEF DevicesInv
    <3>3. GuardsOfTheLive' /\ mpu' \in [Region -> Guarded \cup {NULL, wifiblock, sk6812block}]
      BY <1>1, <3>1, GuardsKept DEF DevicesInv, DevicesTypeOK
    <3> QED BY <2>2, <3>1, <3>2, <3>3 DEF DevicesInv, DevicesTypeOK
  <2> QED BY <2>1, <2>2
<1>4. DevicesTypeOK'
  <2>1. pc' \in [Client -> {"app", "put", "wait", "strip"}]
    BY <1>1 DEF DevicesInv, DevicesTypeOK
  <2> QED BY <1>1, <1>3, <2>1 DEF DevicesInv, DevicesTypeOK, Queues, Crew
<1>5. ChainInv'
  BY <1>1, <1>2, <1>3, Names DEF DevicesInv, ChainInv
<1>6. AwakeInv'
  BY <1>1, <1>2, <1>3, Names, HeadFacts DEF DevicesInv, AwakeInv, Sleeps
<1>7. CommandInv' /\ StripInv'
  BY <1>1, <1>2, <1>3, Names, CommandKept, StripKept DEF DevicesInv, Sleeps
<1>8. DoneInv'
  <2>1. \A a \in Client : Done(a) => a # c /\ a \in ToSet(ready2run)
    BY <1>1 DEF DevicesInv, DoneInv, Done
  <2> QED BY <1>1, <1>2, <1>3, <2>1, DoneKept
<1>9. SignalInv'
  <2>1. ~Taking
    BY <1>1, Names, NotTaking
  <2>2. InRange' <=> InRange
    BY <1>1 DEF InRange
  <2>3. Used(cmdindices) \in Nat /\ semaphore[newcmdswaitable] \in Int /\ ended \in Int
    BY Names, ClientsEnough, Int8Facts DEF DevicesInv, DevicesTypeOK
  <2> QED BY <1>1, <1>3, <2>1, <2>2, <2>3 DEF DevicesInv, SignalInv
<1> QED BY <1>3, <1>4, <1>5, <1>6, <1>7, <1>8, <1>9 DEF DevicesInv

\* Its slot was given back by whoever had it: the caller is ahead of all whose
\* command is done.
LEMMA SlotIsFree ==
  ASSUME DevicesInv, NEW c \in Client, Runs(c), pc[c] = "put",
         NEW a \in Client, Done(a)
  PROVE  /\ slot[a] # cmdindices.end /\ c \in Ahead(a) /\ a # c
         /\ IsFiniteSet(Ahead(a))
         /\ Cardinality(Ahead(a)) <= Steps(cmdindices.end, slot[a])
<1>1. a # c /\ a \in ToSet(ready2run) /\ slot[a] \in Slot
  BY DEF DevicesInv, DoneInv, Done, CommandInv, DevicesTypeOK
<1>2. c \in Ahead(a)
  BY <1>1, Names, HeadFacts DEF DevicesInv, Ahead
<1>3. IsFiniteSet(Ahead(a))
  BY FS_Subset DEF Ahead
<1>4. Cardinality(Ahead(a)) # 0 /\ Cardinality(Ahead(a)) \in Nat
  BY <1>2, <1>3, FS_EmptySet, FS_CardinalityType
<1>5. Cardinality(Ahead(a)) <= Steps(cmdindices.end, slot[a])
  BY DEF DevicesInv, DoneInv
<1>6. slot[a] # cmdindices.end
  BY <1>1, <1>4, <1>5, RingTypes, StepsSmall DEF DevicesInv, DevicesTypeOK
<1> QED BY <1>1, <1>2, <1>3, <1>5, <1>6

LEMMA Step_put_wifi ==
  ASSUME DevicesInv, NEW c \in Client, put_wifi(c)
  PROVE  DevicesInv'
<1>1. PICK s : s = cmdindices.end
  OBVIOUS
<1>2. /\ Runs(c) /\ pc[c] = "put" /\ ~rb_is_full(cmdindices)
      /\ cmdindices' = rb_push_back(cmdindices)
      /\ cmdringbuffer' = [cmdringbuffer EXCEPT ![s] = c]
      /\ Signals(newcmdswaitable)
      /\ pc' = [pc EXCEPT ![c] = "wait"] /\ slot' = [slot EXCEPT ![c] = s]
      /\ queued' = queued \cup {c}
      /\ UNCHANGED <<wifi, turns, disconnects, ended, strip, pixels, mpu>>
  BY <1>1 DEF put_wifi
<1>3. /\ s \in Slot /\ s # NULL /\ cmdindices' \in Ring
      /\ s \notin InUse(cmdindices)
      /\ InUse(cmdindices') = InUse(cmdindices) \cup {s}
      /\ Used(cmdindices') = Used(cmdindices) + 1
      /\ \A t \in Slot \ {s} : Steps(cmdindices'.end, t) = Steps(s, t) - 1
  <2>1. PICK rb \in Ring : rb = cmdindices
    BY DEF DevicesInv, DevicesTypeOK
  <2>2. cmdindices' = rb_push_back(rb) /\ ~rb_is_full(rb) /\ s = rb.end
    BY <1>1, <1>2, <2>1
  <2>3. s \in Slot /\ s # NULL /\ rb_push_back(rb) \in Ring
    BY <2>2, Names, RingTypes
  <2> QED BY <2>1, <2>2, <2>3, RingPushed
<1>4. /\ pc'[c] = "wait" /\ slot'[c] = s /\ cmdringbuffer'[s] = c
      /\ \A d \in Client \ {c} : pc'[d] = pc[d] /\ slot'[d] = slot[d]
      /\ \A t \in Slot \ {s} : cmdringbuffer'[t] = cmdringbuffer[t]
  BY <1>2, <1>3 DEF DevicesInv, DevicesTypeOK
<1>5. /\ Queues(Crew, DeviceWaitable)'
      /\ ToSet(ready2run') = ToSet(ready2run) \cup ({waitchain[newcmdswaitable]} \ {NULL})
      /\ waitchain' = [waitchain EXCEPT ![newcmdswaitable] = NULL]
      /\ semaphore' = [semaphore EXCEPT ![newcmdswaitable] = Increment(@)]
      /\ SameOrder(ready2run, ready2run')
  BY <1>2, Names, SignalsSafe DEF DevicesInv
<1>6. /\ waitchain'[newcmdswaitable] = NULL
      /\ semaphore'[newcmdswaitable] = Increment(semaphore[newcmdswaitable])
      /\ \A w \in DeviceWaitable \ {newcmdswaitable} :
           waitchain'[w] = waitchain[w] /\ semaphore'[w] = semaphore[w]
  BY <1>5, Names DEF DevicesInv, Queues
<1>7. /\ c \in ToSet(ready2run) /\ c \notin queued /\ slot[c] = NULL
      /\ \A w \in DeviceWaitable : waitchain[w] # c
  BY <1>2, Names, HeadFacts DEF DevicesInv, CommandInv, DevicesTypeOK
<1>8. SignalInv'
  <2>1. ~Taking
    BY <1>2, Names, NotTaking
  <2>2. /\ Used(cmdindices) \in Nat /\ Cardinality(Client) \in Nat
        /\ Used(cmdindices) + 1 <= Cardinality(Client)
    <3>1. Cardinality(Putters) # 0
      <4>1. c \in Putters
        BY <1>2 DEF Putters
      <4> QED BY <4>1, ClientsEnough, FS_EmptySet DEF DevicesInv
    <3> QED BY <3>1, ClientsEnough DEF DevicesInv
  <2>3. ended \in Int /\ semaphore[newcmdswaitable] \in Int8 /\ INT8_MAX \in Nat
    BY Names, KernelAssumption DEF DevicesInv, DevicesTypeOK
  <2>4. semaphore[newcmdswaitable] \in Int
    BY <2>3, Int8Facts
  <2>5. InRange' <=> InRange
    BY <1>2 DEF InRange
  <2>6. ASSUME InRange
        PROVE  semaphore'[newcmdswaitable] = semaphore[newcmdswaitable] + 1
    <3>1. semaphore[newcmdswaitable] <= Used(cmdindices) + ended
      BY <2>1, <2>6 DEF DevicesInv, SignalInv
    <3>2. semaphore[newcmdswaitable] < INT8_MAX
      BY <2>2, <2>3, <2>4, <2>6, <3>1 DEF InRange
    <3> QED BY <1>6, <2>3, <3>2, Int8Facts
  <2> HIDE DEF Taking
  <2> QED BY <1>2, <1>3, <2>1, <2>2, <2>3, <2>4, <2>5, <2>6 DEF DevicesInv, SignalInv
<1>9. DevicesTypeOK'
  <2>1. /\ pc' \in [Client -> {"app", "put", "wait", "strip"}]
        /\ slot' \in [Client -> Slot \cup {NULL}]
        /\ cmdringbuffer' \in [Slot -> Client \cup {NULL}]
        /\ waitchain' \in [DeviceWaitable -> Client \cup {wifiblock, NULL}]
    BY <1>2, <1>3, <1>5 DEF DevicesInv, DevicesTypeOK
  <2>2. semaphore' \in [DeviceWaitable -> Int8]
    BY <1>5 DEF Queues
  <2> QED BY <1>2, <1>3, <1>5, <2>1, <2>2 DEF DevicesInv, DevicesTypeOK, Queues, Crew
<1>10. ChainInv'
  BY <1>2, <1>4, <1>6, <1>7, Names DEF DevicesInv, ChainInv
<1>11. AwakeInv'
  <2>1. ASSUME NEW d \in Client, Sleeps(d)'
        PROVE  \/ pc'[d] = "wait" /\ waitchain'[slot'[d]] = d
               \/ d = Painter /\ pc'[d] = "strip" /\ waitchain'[sk6812block] = d
    <3>1. Sleeps(d) /\ d # c
      BY <1>5, <1>7, <2>1 DEF Sleeps
    <3>2. pc[d] = "wait" => slot[d] \in Slot
      BY DEF DevicesInv, CommandInv, DevicesTypeOK
    <3> QED BY <1>4, <1>6, <3>1, <3>2, Names DEF DevicesInv, AwakeInv
  <2>2. /\ wifi' = "off" => Sleeps(wifiblock)'
        /\ led' = "off" => Sleeps(sk6812block)'
    BY <1>2, <1>5, Names, WhoIsChained DEF DevicesInv, AwakeInv, Sleeps
  <2> QED BY <2>1, <2>2 DEF AwakeInv
<1>12. CommandInv'
  BY <1>2, <1>3, <1>4, <1>7, Names DEF DevicesInv, CommandInv
<1>13. DoneInv'
  <2>1. \A a \in Client : Done(a)' <=> Done(a)
    BY <1>2, <1>4 DEF Done
  <2>2. \A a \in Client : Done(a) => a # c /\ slot[a] \in Slot /\ slot[a] # s
    BY <1>1, <1>2, SlotIsFree DEF Done, DevicesInv, CommandInv, DevicesTypeOK
  <2>3. ASSUME NEW a \in Client, Done(a)
        PROVE  Cardinality(Ahead(a)') <= Steps(cmdindices'.end, slot'[a])
    <3>1. /\ c \in Ahead(a) /\ IsFiniteSet(Ahead(a))
          /\ Cardinality(Ahead(a)) <= Steps(s, slot[a])
      BY <1>1, <1>2, <2>3, SlotIsFree
    <3>2. a \in ToSet(ready2run)
      BY <2>3 DEF DevicesInv, DoneInv
    <3>3. Ahead(a)' \subseteq Ahead(a) \ {c}
      BY <1>4, <1>5, <3>2 DEF Ahead, SameOrder
    <3>4. /\ IsFiniteSet(Ahead(a) \ {c})
          /\ Cardinality(Ahead(a) \ {c}) = Cardinality(Ahead(a)) - 1
      BY <3>1, FS_RemoveElement
    <3>5. Cardinality(Ahead(a)') <= Cardinality(Ahead(a)) - 1
      BY <3>3, <3>4, FS_Subset
    <3>6. /\ Cardinality(Ahead(a)) \in Nat /\ Cardinality(Ahead(a)') \in Nat
          /\ Steps(s, slot[a]) \in Int
      <4>1. IsFiniteSet(Ahead(a)')
        BY <3>3, <3>4, FS_Subset
      <4>2. Steps(s, slot[a]) \in Slot
        BY <1>3, <2>2, <2>3, StepsSmall
      <4> QED BY <3>1, <4>1, <4>2, FS_CardinalityType, SlotType
    <3>7. Steps(cmdindices'.end, slot'[a]) = Steps(s, slot[a]) - 1
      BY <1>3, <1>4, <2>2, <2>3
    <3> QED BY <3>1, <3>5, <3>6, <3>7
  <2>4. \A a \in Client : Done(a)' =>
          /\ slot'[a] \notin InUse(cmdindices') /\ semaphore'[slot'[a]] = 1
          /\ a \in ToSet(ready2run')
    BY <1>3, <1>4, <1>5, <1>6, <2>1, <2>2, Names DEF DevicesInv, DoneInv
  <2>5. \A a, b \in Client : Done(a)' /\ Done(b)' /\ slot'[a] = slot'[b] => a = b
    BY <1>4, <2>1, <2>2 DEF DevicesInv, DoneInv
  <2>6. \A t \in Slot : semaphore'[t] # 0 => \E a \in Client : Done(a)' /\ slot'[a] = t
    BY <1>4, <1>6, <2>1, <2>2, Names DEF DevicesInv, DoneInv
  <2> QED BY <2>1, <2>3, <2>4, <2>5, <2>6 DEF DoneInv
<1>14. StripInv' /\ GuardsOfTheLive'
  <2>1. sk6812block \in ToSet(ready2run') => sk6812block \in ToSet(ready2run)
    BY <1>5, Names, WhoIsChained
  <2> QED BY <1>2, <1>4, <1>6, <2>1, Names, StripKept, GuardsKept DEF DevicesInv, Sleeps
<1> QED BY <1>5, <1>8, <1>9, <1>10, <1>11, <1>12, <1>13, <1>14 DEF DevicesInv

LEMMA Step_await_wifi ==
  ASSUME DevicesInv, NEW c \in Client, await_wifi(c)
  PROVE  DevicesInv'
<1>1. /\ Runs(c) /\ pc[c] = "wait"
      /\ UNCHANGED <<wififunc_vars, strip, pixels, mpu>>
  BY DEF await_wifi
<1>2. PICK s \in Slot : s = slot[c]
  BY <1>1 DEF DevicesInv, CommandInv, DevicesTypeOK
<1>3. /\ c \in ToSet(ready2run) /\ \A w \in DeviceWaitable : waitchain[w] # c
  BY <1>1, Names, HeadFacts DEF DevicesInv
<1>4. CASE Takes(s) /\ pc' = [pc EXCEPT ![c] = "app"] /\ slot' = [slot EXCEPT ![c] = NULL]
  <2>1. /\ Queues(Crew, DeviceWaitable)' /\ UNCHANGED <<ready2run, waitchain>>
        /\ semaphore[s] > 0 /\ semaphore' = [semaphore EXCEPT ![s] = @ - 1]
    BY <1>4, Names, TakesSafe DEF DevicesInv
  <2>2. /\ pc'[c] = "app" /\ slot'[c] = NULL
        /\ \A d \in Client \ {c} : pc'[d] = pc[d] /\ slot'[d] = slot[d]
    BY <1>4 DEF DevicesInv, DevicesTypeOK
  <2>3. Done(c)
    <3>1. PICK d \in Client : Done(d) /\ slot[d] = s
      BY <2>1 DEF DevicesInv, DoneInv
    <3>2. s \notin InUse(cmdindices)
      BY <3>1 DEF DevicesInv, DoneInv
    <3> QED BY <1>1, <1>2, <3>2 DEF Done, DevicesInv, CommandInv
  <2>4. semaphore[s] = 1
    BY <1>2, <2>3 DEF DevicesInv, DoneInv
  <2>5. /\ semaphore'[s] = 0
        /\ \A w \in DeviceWaitable \ {s} : semaphore'[w] = semaphore[w]
    BY <2>1, <2>4, Names DEF DevicesInv, Queues
  <2>6. DevicesTypeOK'
    <3>1. /\ pc' \in [Client -> {"app", "put", "wait", "strip"}]
          /\ slot' \in [Client -> Slot \cup {NULL}]
      BY <1>4 DEF DevicesInv, DevicesTypeOK
    <3>2. semaphore' \in [DeviceWaitable -> Int8]
      BY <2>1 DEF Queues
    <3> QED BY <1>1, <2>1, <3>1, <3>2 DEF DevicesInv, DevicesTypeOK
  <2>7. c \notin queued
    BY <2>3 DEF Done
  <2>8. ChainInv'
    BY <1>1, <2>1, <2>2, <2>7, Names DEF DevicesInv, ChainInv, DevicesTypeOK
  <2>9. AwakeInv'
    BY <1>1, <1>3, <2>1, <2>2 DEF DevicesInv, AwakeInv, Sleeps
  <2>10. CommandInv'
    BY <1>1, <2>2, <2>7 DEF DevicesInv, CommandInv
  <2>11. DoneInv'
    <3>1. \A a \in Client : Done(a)' <=> Done(a) /\ a # c
      BY <1>1, <2>2 DEF Done
    <3>2. \A a \in Client : Done(a) /\ a # c => slot[a] \in Slot /\ slot[a] # s
      BY <1>2, <2>3 DEF Done, DevicesInv, DoneInv, CommandInv, DevicesTypeOK
    <3>3. \A a \in Client : Ahead(a)' = Ahead(a)
      BY <1>1, <2>1, <2>2 DEF Ahead
    <3>4. \A a \in Client : Done(a)' =>
            /\ slot'[a] \notin InUse(cmdindices') /\ semaphore'[slot'[a]] = 1
            /\ a \in ToSet(ready2run')
            /\ Cardinality(Ahead(a)') <= Steps(cmdindices'.end, slot'[a])
      BY <1>1, <2>1, <2>2, <2>5, <3>1, <3>2, <3>3, Names DEF DevicesInv, DoneInv
    <3>5. \A a, b \in Client : Done(a)' /\ Done(b)' /\ slot'[a] = slot'[b] => a = b
      BY <2>2, <3>1 DEF DevicesInv, DoneInv
    <3>6. \A t \in Slot : semaphore'[t] # 0 => \E a \in Client : Done(a)' /\ slot'[a] = t
      BY <1>2, <2>2, <2>5, <3>1, Names DEF DevicesInv, DoneInv
    <3> QED BY <3>4, <3>5, <3>6 DEF DoneInv
  <2>12. SignalInv' /\ StripInv' /\ GuardsOfTheLive'
    BY <1>1, <2>1, <2>2, <2>5, Names, NotTaking, SignalKept, StripKept, GuardsKept
       DEF DevicesInv, Sleeps
  <2> QED BY <2>1, <2>6, <2>8, <2>9, <2>10, <2>11, <2>12 DEF DevicesInv
<1>5. CASE Chains(c, s) /\ UNCHANGED <<pc, slot>>
  <2>1. /\ Queues(Crew, DeviceWaitable)' /\ ToSet(ready2run') = ToSet(ready2run) \ {c}
        /\ waitchain' = [waitchain EXCEPT ![s] = c]
        /\ semaphore' = semaphore /\ semaphore[s] <= 0
        /\ \A x, y : Before(ready2run', x, y) <=> x # c /\ Before(ready2run, x, y)
    BY <1>1, <1>5, Names, ChainsSafe DEF DevicesInv
  <2>2. c \in queued
    BY <1>1, <1>2, <2>1 DEF Done, DevicesInv, DoneInv
  <2>3. /\ waitchain'[s] = c
        /\ \A w \in DeviceWaitable \ {s} : waitchain'[w] = waitchain[w]
    BY <2>1, Names DEF DevicesInv, Queues
  <2>4. DevicesTypeOK'
    <3>1. waitchain' \in [DeviceWaitable -> Client \cup {wifiblock, NULL}]
      BY <2>1 DEF DevicesInv, DevicesTypeOK
    <3> QED BY <1>1, <1>5, <2>1, <3>1 DEF DevicesInv, DevicesTypeOK, Queues, Crew
  <2>5. ChainInv'
    BY <1>1, <1>2, <1>5, <2>2, <2>3, Names DEF DevicesInv, ChainInv
  <2>6. AwakeInv'
    <3>1. ASSUME NEW d \in Client, Sleeps(d)'
          PROVE  \/ pc'[d] = "wait" /\ waitchain'[slot'[d]] = d
                 \/ d = Painter /\ pc'[d] = "strip" /\ waitchain'[sk6812block] = d
      <4>1. CASE d = c
        BY <1>1, <1>2, <1>5, <2>3, <4>1
      <4>2. CASE d # c
        <5>1. Sleeps(d)
          BY <2>1, <3>1, <4>2 DEF Sleeps
        <5>2. CASE pc[d] = "wait" /\ waitchain[slot[d]] = d
          <6>1. slot[d] \in Slot
            BY <5>2 DEF DevicesInv, CommandInv, DevicesTypeOK
          <6>2. d \in queued
            BY <5>2, <6>1, Names, WhoIsChained
          <6>3. slot[d] # s
            BY <1>2, <2>2, <4>2, <6>2 DEF DevicesInv, CommandInv
          <6> QED BY <1>5, <2>3, <5>2, <6>1, <6>3, Names
        <5>3. CASE d = Painter /\ pc[d] = "strip" /\ waitchain[sk6812block] = d
          BY <1>2, <1>5, <2>3, <5>3, Names
        <5> QED BY <5>1, <5>2, <5>3 DEF DevicesInv, AwakeInv
      <4> QED BY <4>1, <4>2
    <3> QED BY <1>1, <2>1, <3>1 DEF DevicesInv, AwakeInv, Sleeps
  <2>7. CommandInv' /\ SignalInv' /\ StripInv' /\ GuardsOfTheLive'
    BY <1>1, <1>5, <2>1, Names, NotTaking, CommandKept, SignalKept, StripKept,
       GuardsKept DEF DevicesInv, Sleeps
  <2>8. DoneInv'
    <3>1. \A a \in Client : Done(a) => a # c /\ a \in ToSet(ready2run)
      BY <2>2 DEF Done, DevicesInv, DoneInv
    <3> QED BY <1>1, <1>5, <2>1, <3>1, DoneKept
  <2> QED BY <2>1, <2>4, <2>5, <2>6, <2>7, <2>8 DEF DevicesInv
<1> QED BY <1>2, <1>4, <1>5 DEF await_wifi

LEMMA Step_update_sk6812ledstrip ==
  ASSUME DevicesInv, update_sk6812ledstrip
  PROVE  DevicesInv'
<1>1. /\ Runs(Painter) /\ pc[Painter] = "app" /\ pixels' \in BOOLEAN
      /\ pc' = [pc EXCEPT ![Painter] = "strip"]
      /\ UNCHANGED <<wififunc_vars, dma, shown, slot>>
  BY DEF update_sk6812ledstrip
<1>2. led = "off" /\ dma = FALSE
  BY <1>1 DEF DevicesInv, StripInv, DevicesTypeOK
<1>3. /\ led' = "start" /\ Starts(Painter, sk6812block) /\ install_stack_guard(sk6812block)
      /\ semaphore' = [semaphore EXCEPT ![sk6812block] = 0]
      /\ waitchain' = [waitchain EXCEPT ![sk6812block] = NULL]
  BY <1>2 DEF update_sk6812ledstrip
<1>4. /\ pc'[Painter] = "strip" /\ Painter \in ToSet(ready2run)
      /\ \A d \in Client \ {Painter} : pc'[d] = pc[d]
  BY <1>1, Names, HeadFacts DEF DevicesInv, DevicesTypeOK
<1>5. /\ semaphore'[sk6812block] = 0 /\ waitchain'[sk6812block] = NULL
      /\ \A w \in DeviceWaitable \ {sk6812block} :
           waitchain'[w] = waitchain[w] /\ semaphore'[w] = semaphore[w]
  BY <1>3, Names DEF DevicesInv, Queues
<1>6. /\ Queues(Crew, DeviceWaitable)'
      /\ ToSet(ready2run') = ToSet(ready2run) \cup {sk6812block}
      /\ \A x, y : y \notin {Painter, sk6812block} =>
           (Before(ready2run', x, y) <=> x # Painter /\ Before(ready2run, x, y))
  <2>1. /\ sk6812block \notin ToSet(ready2run)
        /\ \A w \in DeviceWaitable : waitchain[w] # sk6812block
    BY <1>2, WhoIsChained DEF DevicesInv, AwakeInv, Sleeps
  <2>2. /\ waitchain' \in [DeviceWaitable -> Crew \cup {NULL}]
        /\ semaphore' \in [DeviceWaitable -> Int8]
    BY <1>3, Int8Has DEF DevicesInv, Queues
  <2>3. \A w \in DeviceWaitable :
          waitchain'[w] \in {waitchain[w], NULL} /\ waitchain'[w] # sk6812block
    BY <1>5, <2>1, Names
  <2> QED BY <1>1, <1>3, <2>1, <2>2, <2>3, Names, StartsSafe DEF DevicesInv
<1>7. GuardsOfTheLive' /\ mpu' \in [Region -> Guarded \cup {NULL, wifiblock, sk6812block}]
  <2>1. sk6812block \notin Live /\ Live' = Live \cup {sk6812block}
    BY <1>1, <1>2, <1>3, Names DEF Live
  <2> QED BY <1>3, <2>1, InstallSafe DEF DevicesInv
<1>8. DevicesTypeOK'
  <2>1. /\ pc' \in [Client -> {"app", "put", "wait", "strip"}]
        /\ semaphore' \in [DeviceWaitable -> Int8]
        /\ waitchain' \in [DeviceWaitable -> Client \cup {wifiblock, NULL}]
    <3>1. pc' \in [Client -> {"app", "put", "wait", "strip"}]
      BY <1>1 DEF DevicesInv, DevicesTypeOK
    <3>3. semaphore' \in [DeviceWaitable -> Int8]
      BY <1>3, Int8Has DEF DevicesInv, DevicesTypeOK
    <3>4. waitchain' \in [DeviceWaitable -> Client \cup {wifiblock, NULL}]
      BY <1>3 DEF DevicesInv, DevicesTypeOK
    <3> QED BY <3>1, <3>3, <3>4
  <2> QED BY <1>1, <1>3, <1>6, <1>7, <2>1 DEF DevicesInv, DevicesTypeOK, Queues, Crew
<1>9. ChainInv'
  BY <1>1, <1>4, <1>5, Names DEF DevicesInv, ChainInv
<1>10. AwakeInv'
  <2>1. ASSUME NEW d \in Client, Sleeps(d)'
        PROVE  pc'[d] = "wait" /\ waitchain'[slot'[d]] = d
    <3>1. Sleeps(d) /\ d # Painter
      BY <1>4, <1>6, <2>1 DEF Sleeps
    <3>2. pc[d] = "wait" => slot[d] \in Slot
      BY DEF DevicesInv, CommandInv, DevicesTypeOK
    <3> QED BY <1>1, <1>4, <1>5, <3>1, <3>2, Names DEF DevicesInv, AwakeInv
  <2> QED BY <1>1, <1>3, <1>6, <2>1, Names DEF DevicesInv, AwakeInv, Sleeps
<1>11. CommandInv' /\ SignalInv'
  BY <1>1, <1>4, <1>5, Names, NotTaking, CommandKept, SignalKept DEF DevicesInv
<1>12. DoneInv'
  <2>1. \A a \in Client : Done(a) => a # Painter /\ a \in ToSet(ready2run)
    BY <1>1 DEF DevicesInv, DoneInv, Done
  <2> QED BY <1>1, <1>4, <1>5, <1>6, <2>1, Names, DoneKept
<1>13. StripInv'
  BY <1>1, <1>2, <1>3, <1>4, <1>5 DEF StripInv
<1> QED BY <1>6, <1>7, <1>8, <1>9, <1>10, <1>11, <1>12, <1>13 DEF DevicesInv

LEMMA Step_await_strip ==
  ASSUME DevicesInv, await_strip
  PROVE  DevicesInv'
<1>1. /\ Runs(Painter) /\ pc[Painter] = "strip"
      /\ UNCHANGED <<wififunc_vars, strip, pixels, mpu, slot>>
  BY DEF await_strip
<1>2. /\ Painter \in ToSet(ready2run) /\ \A w \in DeviceWaitable : waitchain[w] # Painter
  BY <1>1, Names, HeadFacts DEF DevicesInv
<1>3. CASE Takes(sk6812block) /\ pc' = [pc EXCEPT ![Painter] = "app"]
  <2>1. /\ Queues(Crew, DeviceWaitable)' /\ UNCHANGED <<ready2run, waitchain>>
        /\ semaphore[sk6812block] > 0
        /\ semaphore' = [semaphore EXCEPT ![sk6812block] = @ - 1]
    BY <1>3, Names, TakesSafe DEF DevicesInv
  <2>2. led = "off"
    BY <2>1 DEF DevicesInv, StripInv
  <2>3. /\ pc'[Painter] = "app" /\ \A d \in Client \ {Painter} : pc'[d] = pc[d]
        /\ \A w \in DeviceWaitable \ {sk6812block} : semaphore'[w] = semaphore[w]
    BY <1>3, <2>1 DEF DevicesInv, DevicesTypeOK
  <2>4. DevicesTypeOK'
    <3>1. /\ pc' \in [Client -> {"app", "put", "wait", "strip"}]
          /\ semaphore' \in [DeviceWaitable -> Int8]
      BY <1>3, <2>1 DEF DevicesInv, DevicesTypeOK, Queues
    <3> QED BY <1>1, <2>1, <3>1 DEF DevicesInv, DevicesTypeOK
  <2>5. ChainInv' /\ AwakeInv'
    BY <1>1, <1>2, <2>1, <2>3, Names DEF DevicesInv, ChainInv, AwakeInv, Sleeps
  <2>6. CommandInv' /\ SignalInv' /\ GuardsOfTheLive'
    BY <1>1, <2>1, <2>3, Names, NotTaking, CommandKept, SignalKept, GuardsKept
       DEF DevicesInv
  <2>7. DoneInv'
    <3>1. \A a \in Client : Done(a) => a \in ToSet(ready2run)
      BY DEF DevicesInv, DoneInv
    <3> QED BY <1>1, <2>1, <2>3, <3>1, Names, DoneKept
  <2>8. StripInv'
    BY <1>1, <2>1, <2>2 DEF DevicesInv, StripInv, Sleeps
  <2> QED BY <2>1, <2>4, <2>5, <2>6, <2>7, <2>8 DEF DevicesInv
<1>4. CASE Chains(Painter, sk6812block) /\ UNCHANGED pc
  <2>1. /\ Queues(Crew, DeviceWaitable)' /\ ToSet(ready2run') = ToSet(ready2run) \ {Painter}
        /\ waitchain' = [waitchain EXCEPT ![sk6812block] = Painter]
        /\ semaphore' = semaphore
        /\ \A x, y : Before(ready2run', x, y) <=> x # Painter /\ Before(ready2run, x, y)
    BY <1>1, <1>4, Names, ChainsSafe DEF DevicesInv
  <2>2. /\ waitchain'[sk6812block] = Painter
        /\ \A w \in DeviceWaitable \ {sk6812block} : waitchain'[w] = waitchain[w]
    BY <2>1, Names DEF DevicesInv, Queues
  <2>3. DevicesTypeOK'
    <3>1. waitchain' \in [DeviceWaitable -> Client \cup {wifiblock, NULL}]
      BY <2>1 DEF DevicesInv, DevicesTypeOK
    <3> QED BY <1>1, <1>4, <2>1, <3>1 DEF DevicesInv, DevicesTypeOK, Queues, Crew
  <2>4. ChainInv'
    BY <1>1, <1>4, <2>2, Names DEF DevicesInv, ChainInv
  <2>5. AwakeInv'
    <3>1. ASSUME NEW d \in Client, Sleeps(d)', d # Painter
          PROVE  pc'[d] = "wait" /\ waitchain'[slot'[d]] = d
      <4>1. Sleeps(d)
        BY <2>1, <3>1 DEF Sleeps
      <4>2. pc[d] = "wait" => slot[d] \in Slot
        BY DEF DevicesInv, CommandInv, DevicesTypeOK
      <4> QED BY <1>1, <1>4, <2>2, <3>1, <4>1, <4>2, Names DEF DevicesInv, AwakeInv
    <3> QED BY <1>1, <1>4, <2>1, <2>2, <3>1 DEF DevicesInv, AwakeInv, Sleeps
  <2>6. CommandInv' /\ SignalInv' /\ StripInv' /\ GuardsOfTheLive'
    BY <1>1, <1>4, <2>1, Names, NotTaking, CommandKept, SignalKept, StripKept,
       GuardsKept DEF DevicesInv, Sleeps
  <2>7. DoneInv'
    <3>1. \A a \in Client : Done(a) => a # Painter /\ a \in ToSet(ready2run)
      BY <1>1 DEF Done, DevicesInv, DoneInv
    <3> QED BY <1>1, <1>4, <2>1, <3>1, DoneKept
  <2> QED BY <2>1, <2>3, <2>4, <2>5, <2>6, <2>7 DEF DevicesInv
<1> QED BY <1>3, <1>4 DEF await_strip

-----------------------------------------------------------------------------
(* wififunc(). *)

LEMMA Step_wififunc_top ==
  ASSUME DevicesInv, wififunc_top
  PROVE  DevicesInv'
<1>1. /\ Runs(wifiblock) /\ wifi = "top"
      /\ wifi' = IF rb_is_empty(cmdindices) THEN "wait" ELSE "busy"
      /\ UNCHANGED <<kernel, cmdindices, cmdringbuffer, turns, disconnects, queued,
                     ended, strip, pixels, mpu, pc, slot>>
  BY DEF wififunc_top
<1>2. DevicesTypeOK'
  BY <1>1 DEF DevicesInv, DevicesTypeOK
<1>3. Queues(Crew, DeviceWaitable)' /\ ChainInv' /\ AwakeInv'
  BY <1>1, Names, HeadFacts DEF DevicesInv, Queues, ChainInv, AwakeInv, Sleeps
<1>4. CommandInv' /\ StripInv' /\ GuardsOfTheLive'
  BY <1>1, CommandKept, StripKept, GuardsKept DEF DevicesInv, Sleeps
<1>5. DoneInv'
  <2>1. \A a \in Client : Done(a) => a \in ToSet(ready2run)
    BY DEF DevicesInv, DoneInv
  <2> QED BY <1>1, <2>1, DoneKept
<1>6. SignalInv'
  <2>1. /\ Used(cmdindices) \in Nat /\ semaphore[newcmdswaitable] \in Int
        /\ rb_is_empty(cmdindices) <=> Used(cmdindices) = 0
    BY Names, ClientsEnough, EmptyOrFull, Int8Facts DEF DevicesInv, DevicesTypeOK
  <2>2. (InRange' <=> InRange) /\ ~Taking
    BY <1>1 DEF InRange, Taking
  <2> QED BY <1>1, <2>1, <2>2 DEF DevicesInv, SignalInv
<1> QED BY <1>2, <1>3, <1>4, <1>5, <1>6 DEF DevicesInv

\* What a driver's leaving the run queue does not disturb.
LEMMA DriverLeaves ==
  ASSUME DevicesInv, NEW p \in {wifiblock, sk6812block}, Runs(p), Leaves(p),
         UNCHANGED <<waitchain, semaphore, cmdindices, cmdringbuffer, disconnects,
                     queued, shown, pixels, pc, slot>>
  PROVE  /\ Queues(Crew, DeviceWaitable)' /\ CommandInv' /\ DoneInv'
         /\ ToSet(ready2run') = ToSet(ready2run) \ {p}
<1>1. /\ Queues(Crew, DeviceWaitable)' /\ ToSet(ready2run') = ToSet(ready2run) \ {p}
      /\ \A x, y : Before(ready2run', x, y) <=> x # p /\ Before(ready2run, x, y)
  BY Names, LeavesSafe DEF DevicesInv, Queues
<1>2. \A a \in Client : Done(a) => a \in ToSet(ready2run) /\ a # p
  BY Names DEF DevicesInv, DoneInv
<1>3. DoneInv'
  BY <1>1, <1>2, DoneKept
<1> QED BY <1>1, <1>3, CommandKept DEF DevicesInv

LEMMA Step_wififunc_sleep ==
  ASSUME DevicesInv, wififunc_sleep
  PROVE  DevicesInv'
<1>1. /\ Runs(wifiblock) /\ wifi = "busy" /\ Leaves(wifiblock)
      /\ turns < Turns /\ turns' = turns + 1
      /\ UNCHANGED <<waitchain, semaphore, cmdindices, cmdringbuffer, wifi,
                     disconnects, queued, ended, strip, pixels, mpu, pc, slot>>
  BY DEF wififunc_sleep
<1>2. /\ Queues(Crew, DeviceWaitable)' /\ CommandInv' /\ DoneInv'
      /\ ToSet(ready2run') = ToSet(ready2run) \ {wifiblock}
  BY <1>1, DriverLeaves
<1>3. DevicesTypeOK'
  <2>1. turns' \in 0..Turns
    BY <1>1 DEF DevicesInv, DevicesTypeOK
  <2> QED BY <1>1, <1>2, <2>1 DEF DevicesInv, DevicesTypeOK, Queues, Crew
<1>4. ChainInv' /\ AwakeInv'
  BY <1>1, <1>2, Names DEF DevicesInv, ChainInv, AwakeInv, Sleeps
<1>5. SignalInv' /\ StripInv' /\ GuardsOfTheLive'
  BY <1>1, <1>2, SignalKept, StripKept, GuardsKept DEF DevicesInv, Sleeps, Taking
<1> QED BY <1>2, <1>3, <1>4, <1>5 DEF DevicesInv

LEMMA Step_wififunc_exit ==
  ASSUME DevicesInv, wififunc_exit
  PROVE  DevicesInv'
<1>1. /\ Runs(wifiblock) /\ wifi = "exit" /\ Leaves(wifiblock)
      /\ wifi' = "off" /\ uninstall_stack_guard(wifiblock)
      /\ UNCHANGED <<waitchain, semaphore, cmdindices, cmdringbuffer, turns,
                     disconnects, queued, ended, strip, pixels, pc, slot>>
  BY DEF wififunc_exit
<1>2. /\ Queues(Crew, DeviceWaitable)' /\ CommandInv' /\ DoneInv'
      /\ ToSet(ready2run') = ToSet(ready2run) \ {wifiblock}
  BY <1>1, DriverLeaves
<1>3. GuardsOfTheLive' /\ mpu' \in [Region -> Guarded \cup {NULL, wifiblock, sk6812block}]
  <2>1. Live' = Live \ {wifiblock}
    BY <1>1, Names DEF Live
  <2> QED BY <1>1, <2>1, UninstallSafe DEF DevicesInv
<1>4. DevicesTypeOK'
  BY <1>1, <1>2, <1>3 DEF DevicesInv, DevicesTypeOK, Queues, Crew
<1>5. ChainInv' /\ AwakeInv'
  BY <1>1, <1>2, Names DEF DevicesInv, ChainInv, AwakeInv, Sleeps
<1>6. StripInv'
  BY <1>1, <1>2, StripKept DEF DevicesInv, Sleeps
<1>7. SignalInv'
  BY <1>1 DEF DevicesInv, SignalInv, InRange, Taking
<1> QED BY <1>2, <1>3, <1>4, <1>5, <1>6, <1>7 DEF DevicesInv

LEMMA Step_wififunc_wait ==
  ASSUME DevicesInv, wififunc_wait
  PROVE  DevicesInv'
<1>1. /\ Runs(wifiblock) /\ wifi = "wait"
      /\ UNCHANGED <<cmdindices, cmdringbuffer, turns, disconnects, queued, ended,
                     strip, pixels, mpu, pc, slot>>
  BY DEF wififunc_wait
<1>2. /\ InRange' <=> InRange
      /\ semaphore[newcmdswaitable] \in Int /\ Used(cmdindices) \in Nat /\ ended \in Nat
  BY <1>1, Names, ClientsEnough, Int8Facts DEF InRange, DevicesInv, DevicesTypeOK
<1>3. CASE Takes(newcmdswaitable) /\ wifi' = "top"
  <2>1. /\ Queues(Crew, DeviceWaitable)' /\ UNCHANGED <<ready2run, waitchain>>
        /\ semaphore[newcmdswaitable] > 0
        /\ semaphore' = [semaphore EXCEPT ![newcmdswaitable] = @ - 1]
    BY <1>3, Names, TakesSafe DEF DevicesInv
  <2>2. /\ semaphore'[newcmdswaitable] = semaphore[newcmdswaitable] - 1
        /\ \A w \in DeviceWaitable \ {newcmdswaitable} : semaphore'[w] = semaphore[w]
    BY <2>1, Names DEF DevicesInv, Queues
  <2>3. DevicesTypeOK'
    <3>1. semaphore' \in [DeviceWaitable -> Int8]
      BY <2>1 DEF Queues
    <3> QED BY <1>1, <1>3, <2>1, <3>1 DEF DevicesInv, DevicesTypeOK
  <2>4. ChainInv' /\ AwakeInv'
    BY <1>1, <1>3, <2>1, Names, HeadFacts DEF DevicesInv, ChainInv, AwakeInv, Sleeps
  <2>5. CommandInv' /\ StripInv' /\ GuardsOfTheLive'
    BY <1>1, <1>3, <2>1, <2>2, Names, CommandKept, StripKept, GuardsKept
       DEF DevicesInv, Sleeps
  <2>6. DoneInv'
    <3>1. \A a \in Client : Done(a) => a \in ToSet(ready2run)
      BY DEF DevicesInv, DoneInv
    <3> QED BY <1>1, <2>1, <2>2, <3>1, Names, DoneKept
  <2>7. SignalInv'
    <3>1. ~Taking'
      BY <1>3 DEF Taking
    <3> QED BY <1>1, <1>2, <1>3, <2>1, <2>2, <3>1 DEF DevicesInv, SignalInv
  <2> QED BY <2>1, <2>3, <2>4, <2>5, <2>6, <2>7 DEF DevicesInv
<1>4. CASE Chains(wifiblock, newcmdswaitable) /\ UNCHANGED wifi
  <2>1. /\ Queues(Crew, DeviceWaitable)'
        /\ ToSet(ready2run') = ToSet(ready2run) \ {wifiblock}
        /\ waitchain' = [waitchain EXCEPT ![newcmdswaitable] = wifiblock]
        /\ semaphore' = semaphore /\ semaphore[newcmdswaitable] <= 0
        /\ \A x, y : Before(ready2run', x, y) <=> x # wifiblock /\ Before(ready2run, x, y)
    BY <1>1, <1>4, Names, ChainsSafe DEF DevicesInv
  <2>2. /\ waitchain'[newcmdswaitable] = wifiblock
        /\ \A w \in DeviceWaitable \ {newcmdswaitable} : waitchain'[w] = waitchain[w]
    BY <2>1, Names DEF DevicesInv, Queues
  <2>3. DevicesTypeOK'
    <3>1. waitchain' \in [DeviceWaitable -> Client \cup {wifiblock, NULL}]
      BY <2>1 DEF DevicesInv, DevicesTypeOK
    <3> QED BY <1>1, <1>4, <2>1, <3>1 DEF DevicesInv, DevicesTypeOK, Queues, Crew
  <2>4. ChainInv'
    BY <1>1, <1>4, <2>2, Names DEF DevicesInv, ChainInv
  <2>5. AwakeInv'
    <3>1. ASSUME NEW d \in Client, Sleeps(d)'
          PROVE  \/ pc'[d] = "wait" /\ waitchain'[slot'[d]] = d
                 \/ d = Painter /\ pc'[d] = "strip" /\ waitchain'[sk6812block] = d
      <4>1. Sleeps(d)
        BY <2>1, <3>1, Names DEF Sleeps
      <4>2. pc[d] = "wait" => slot[d] \in Slot
        BY DEF DevicesInv, CommandInv, DevicesTypeOK
      <4> QED BY <1>1, <2>2, <4>1, <4>2, Names DEF DevicesInv, AwakeInv
    <3> QED BY <1>1, <1>4, <2>1, <3>1 DEF DevicesInv, AwakeInv, Sleeps
  <2>6. CommandInv' /\ StripInv' /\ GuardsOfTheLive'
    BY <1>1, <1>4, <2>1, CommandKept, StripKept, GuardsKept DEF DevicesInv, Sleeps
  <2>8. SignalInv'
    BY <1>1, <1>2, <1>4, <2>1 DEF DevicesInv, SignalInv
  <2>7. DoneInv'
    <3>1. \A a \in Client : Done(a) => a # wifiblock /\ a \in ToSet(ready2run)
      BY Names DEF DevicesInv, DoneInv
    <3> QED BY <1>1, <2>1, <3>1, DoneKept
  <2> QED BY <2>1, <2>3, <2>4, <2>5, <2>6, <2>7, <2>8 DEF DevicesInv
<1> QED BY <1>3, <1>4 DEF wififunc_wait

\* The client of the command that ends is in no slot but the first, which was
\* not signalled and which no caller in the run queue can reach.
LEMMA Step_wififunc_end ==
  ASSUME DevicesInv, wififunc_end
  PROVE  DevicesInv'
<1>1. PICK b : b = cmdindices.begin
  OBVIOUS
<1>2. PICK q : q = cmdringbuffer[b]
  OBVIOUS
<1>3. /\ Runs(wifiblock) /\ wifi = "busy" /\ Signals(b)
      /\ cmdindices' = rb_pop_front(cmdindices)
      /\ cmdringbuffer' = [cmdringbuffer EXCEPT ![b] = NULL]
      /\ wifi' \in {"exit", "wait"} /\ queued' = queued \ {q}
      /\ disconnects' \subseteq disconnects /\ turns' = 0
      /\ \/ ended' = ended /\ (wifi' = "exit" => ended >= INT8_MAX)
         \/ ended' = ended + 1 /\ ended < INT8_MAX
      /\ UNCHANGED <<strip, pixels, mpu, pc, slot>>
  BY <1>1, <1>2, KernelAssumption
     DEF wififunc_end, EndsCounted, FrontSlot, rb_peek_front, DevicesInv, DevicesTypeOK
<1>4. /\ Used(cmdindices) \in Nat /\ Used(cmdindices') = Used(cmdindices) - 1
      /\ b \in Slot /\ b \in InUse(cmdindices) /\ cmdindices' \in Ring
      /\ InUse(cmdindices') = InUse(cmdindices) \ {b}
      /\ cmdindices'.end = cmdindices.end
      /\ Steps(cmdindices.end, b) = RINGBUFFER_SIZE - Used(cmdindices)
  <2>1. PICK rb \in Ring : rb = cmdindices
    BY DEF DevicesInv, DevicesTypeOK
  <2>2. ~rb_is_empty(rb) /\ Used(rb) \in Nat
    BY <1>3, <2>1, EmptyOrFull, ClientsEnough DEF DevicesInv, SignalInv
  <2>3. cmdindices' = rb_pop_front(rb) /\ b = rb.begin
    BY <1>1, <1>3, <2>1
  <2>4. rb_pop_front(rb) \in Ring /\ b \in Slot
    BY <2>3, RingTypes
  <2> QED BY <2>1, <2>2, <2>3, <2>4, RingPopped
<1>5. q \in queued /\ q \in Client /\ slot[q] = b /\ pc[q] = "wait"
  BY <1>2, <1>4 DEF DevicesInv, CommandInv, DevicesTypeOK
<1>6. semaphore[b] = 0
  BY <1>4 DEF DevicesInv, DoneInv
<1>7. /\ Queues(Crew, DeviceWaitable)'
      /\ ToSet(ready2run') = ToSet(ready2run) \cup ({waitchain[b]} \ {NULL})
      /\ waitchain' = [waitchain EXCEPT ![b] = NULL]
      /\ semaphore' = [semaphore EXCEPT ![b] = Increment(@)]
      /\ SameOrder(ready2run, ready2run')
  BY <1>3, <1>4, Names, SignalsSafe DEF DevicesInv
<1>8. /\ waitchain'[b] = NULL /\ semaphore'[b] = 1
      /\ \A w \in DeviceWaitable \ {b} :
           waitchain'[w] = waitchain[w] /\ semaphore'[w] = semaphore[w]
  <2>1. Increment(0) = 1
    BY Int8Has, Int8Facts, KernelAssumption
  <2> QED BY <1>4, <1>6, <1>7, <2>1, Names DEF DevicesInv, Queues
<1>9. waitchain[b] \in {q, NULL}
  BY <1>2, <1>4, WhoIsChained DEF DevicesInv, CommandInv
<1>10. q \in ToSet(ready2run')
  BY <1>5, <1>7, Names DEF DevicesInv, AwakeInv, Sleeps
<1>11. DevicesTypeOK'
  <2>1. /\ waitchain' \in [DeviceWaitable -> Client \cup {wifiblock, NULL}]
        /\ semaphore' \in [DeviceWaitable -> Int8]
    BY <1>7 DEF DevicesInv, DevicesTypeOK, Queues
  <2>2. ended' \in 0..INT8_MAX
    BY <1>3, KernelAssumption DEF DevicesInv, DevicesTypeOK
  <2>3. cmdringbuffer' \in [Slot -> Client \cup {NULL}]
    BY <1>3 DEF DevicesInv, DevicesTypeOK
  <2>4. disconnects' \subseteq Client /\ queued' \subseteq Client /\ turns' \in 0..Turns
    BY <1>3 DEF DevicesInv, DevicesTypeOK
  <2> QED BY <1>3, <1>4, <1>7, <2>1, <2>2, <2>3, <2>4
          DEF DevicesInv, DevicesTypeOK, Queues, Crew
<1>12. ChainInv'
  BY <1>3, <1>4, <1>5, <1>8, Names DEF DevicesInv, ChainInv
<1>13. AwakeInv'
  <2>1. ASSUME NEW d \in Client, Sleeps(d)'
        PROVE  \/ pc'[d] = "wait" /\ waitchain'[slot'[d]] = d
               \/ d = Painter /\ pc'[d] = "strip" /\ waitchain'[sk6812block] = d
    <3>1. Sleeps(d) /\ d # q
      BY <1>7, <1>10, <2>1 DEF Sleeps
    <3>2. pc[d] = "wait" => slot[d] \in Slot
      BY DEF DevicesInv, CommandInv, DevicesTypeOK
    <3>3. waitchain[b] # d
      BY <1>9, <3>1, Names
    <3> QED BY <1>3, <1>4, <1>8, <3>1, <3>2, <3>3, Names DEF DevicesInv, AwakeInv
  <2>2. led' = "off" => Sleeps(sk6812block)'
    BY <1>3, <1>5, <1>7, <1>9, Names DEF DevicesInv, AwakeInv, Sleeps
  <2> QED BY <1>3, <2>1, <2>2 DEF AwakeInv
<1>14. CommandInv'
  <2>1. \A t \in Slot \ {b} : cmdringbuffer'[t] = cmdringbuffer[t]
    BY <1>3, <1>4 DEF DevicesInv, DevicesTypeOK
  <2>2. \A a \in queued \ {q} : slot[a] \in Slot \ {b}
    BY <1>2, <1>5 DEF DevicesInv, CommandInv, DevicesTypeOK
  <2>3. \A t \in InUse(cmdindices') : t \in Slot \ {b}
    <3>1. InUse(cmdindices) \subseteq Slot
      BY InUseIsNear DEF DevicesInv, DevicesTypeOK
    <3> QED BY <1>4, <3>1
  <2> QED BY <1>2, <1>3, <1>4, <1>5, <2>1, <2>2, <2>3 DEF DevicesInv, CommandInv
<1>15. DoneInv'
  <2>1. \A a \in Client : Done(a)' <=> Done(a) \/ a = q
    BY <1>3, <1>5 DEF Done
  <2>2. \A a \in Client : Done(a) => a # q /\ slot[a] # b /\ slot[a] \in Slot
    BY <1>4, <1>5 DEF Done, DevicesInv, DoneInv, CommandInv, DevicesTypeOK
  <2>3. \A a \in Client : Done(a) => Ahead(a)' = Ahead(a)
    BY <1>3, <1>7 DEF DevicesInv, DoneInv, Ahead, SameOrder
  <2>4. Cardinality(Ahead(q)') <= Steps(cmdindices.end, b)
    <3>1. /\ IsFiniteSet(Putters) /\ Cardinality(Putters) \in Nat
          /\ Cardinality(Putters) + Used(cmdindices) < RINGBUFFER_SIZE
      BY ClientsEnough DEF DevicesInv
    <3>2. Ahead(q)' \subseteq Putters
      BY <1>3 DEF Ahead, Putters
    <3>3. Cardinality(Ahead(q)') <= Cardinality(Putters) /\ Cardinality(Ahead(q)') \in Nat
      BY <3>1, <3>2, FS_Subset, FS_CardinalityType
    <3> QED BY <1>4, <3>1, <3>3
  <2>5. ASSUME NEW a \in Client, Done(a)'
        PROVE  /\ slot'[a] \notin InUse(cmdindices') /\ semaphore'[slot'[a]] = 1
               /\ a \in ToSet(ready2run')
               /\ Cardinality(Ahead(a)') <= Steps(cmdindices'.end, slot'[a])
    <3>1. CASE a = q
      BY <1>3, <1>4, <1>5, <1>8, <1>10, <2>4, <3>1
    <3>2. CASE a # q
      <4>1. Done(a)
        BY <2>1, <2>5, <3>2
      <4> QED BY <1>3, <1>4, <1>7, <1>8, <2>2, <2>3, <4>1, Names DEF DevicesInv, DoneInv
    <3> QED BY <3>1, <3>2
  <2>6. \A a, d \in Client : Done(a)' /\ Done(d)' /\ slot'[a] = slot'[d] => a = d
    BY <1>3, <1>5, <2>1, <2>2 DEF DevicesInv, DoneInv
  <2>7. \A t \in Slot : semaphore'[t] # 0 => \E a \in Client : Done(a)' /\ slot'[a] = t
    BY <1>3, <1>5, <1>8, <2>1, Names DEF DevicesInv, DoneInv
  <2> QED BY <2>5, <2>6, <2>7 DEF DoneInv
<1>16. SignalInv'
  <2>1. /\ Cardinality(Client) \in Nat /\ Cardinality(Client) # 0
        /\ ended \in Nat /\ INT8_MAX \in Nat /\ semaphore[newcmdswaitable] \in Int
    BY Names, ClientsEnough, FS_EmptySet, Int8Facts, KernelAssumption
       DEF DevicesInv, DevicesTypeOK
  <2>2. semaphore'[newcmdswaitable] = semaphore[newcmdswaitable]
    BY <1>4, <1>8, Names
  <2>3. InRange' => InRange /\ (wifi' = "exit" => ended' = ended + 1)
    BY <1>3, <2>1 DEF InRange
  <2>4. wifi' = "wait" => Taking'
    <3>1. ready2run' = ready2run \/ \E p \in Crew : ready2run' = ll_push_back(ready2run, p)
      BY <1>3, <1>5, <1>9, Names DEF Signals, Wakes
    <3> QED BY <1>3, <3>1, HeadStays DEF Taking, DevicesInv
  <2>5. ~Taking
    BY <1>3 DEF Taking
  <2> HIDE DEF Taking, InRange
  <2>6. wifi' = "exit" \/ Taking'
    BY <1>3, <2>4
  <2>7. ended' = ended \/ ended' = ended + 1
    BY <1>3
  <2> QED BY <1>3, <1>4, <2>1, <2>2, <2>3, <2>5, <2>6, <2>7 DEF DevicesInv, SignalInv
<1>17. StripInv' /\ GuardsOfTheLive'
  <2>1. Sleeps(sk6812block) => Sleeps(sk6812block)'
    BY <1>5, <1>7, <1>9, Names DEF Sleeps
  <2> QED BY <1>3, <1>4, <1>8, <2>1, Names, StripKept, GuardsKept DEF DevicesInv
<1> QED BY <1>7, <1>11, <1>12, <1>13, <1>14, <1>15, <1>16, <1>17 DEF DevicesInv

-----------------------------------------------------------------------------
(* sk6812func() and the hardware. *)

LEMMA Step_sk6812func ==
  ASSUME DevicesInv, sk6812func
  PROVE  DevicesInv'
<1>1. /\ Runs(sk6812block) /\ led = "start" /\ Leaves(sk6812block)
      /\ led' = "sleep" /\ dma' = TRUE
      /\ UNCHANGED <<waitchain, semaphore, wififunc_vars, shown, pixels, mpu, pc, slot>>
  BY DEF sk6812func
<1>2. /\ Queues(Crew, DeviceWaitable)' /\ CommandInv' /\ DoneInv'
      /\ ToSet(ready2run') = ToSet(ready2run) \ {sk6812block}
  BY <1>1, DriverLeaves
<1>3. DevicesTypeOK'
  BY <1>1, <1>2 DEF DevicesInv, DevicesTypeOK, Queues, Crew
<1>4. ChainInv' /\ AwakeInv'
  BY <1>1, <1>2, Names DEF DevicesInv, ChainInv, AwakeInv, Sleeps
<1>5. SignalInv' /\ GuardsOfTheLive'
  BY <1>1, Names, NotTaking, SignalKept, GuardsKept DEF DevicesInv
<1>6. StripInv'
  BY <1>1, <1>2 DEF DevicesInv, StripInv, Sleeps
<1> QED BY <1>2, <1>3, <1>4, <1>5, <1>6 DEF DevicesInv

\* It slept until the pixels were sent.
LEMMA Step_sk6812func_exit ==
  ASSUME DevicesInv, sk6812func_exit
  PROVE  DevicesInv'
<1> DEFINE waiter == waitchain[sk6812block]
<1>1. /\ Runs(sk6812block) /\ led = "sleep" /\ led' = "off"
      /\ semaphore' = [semaphore EXCEPT ![sk6812block] = ExitSignals]
      /\ waitchain' = [waitchain EXCEPT ![sk6812block] = NULL]
      /\ ready2run' = (LET rest == ll_pop_front(ready2run) IN
                       IF waiter # NULL THEN ll_push_back(rest, waiter) ELSE rest)
      /\ uninstall_stack_guard(sk6812block)
      /\ UNCHANGED <<wififunc_vars, dma, shown, pixels, pc, slot>>
  BY DEF sk6812func_exit
<1>2. ExitSignals \in Int8
  BY Int8Has DEF ExitSignals
<1>3. /\ semaphore' \in [DeviceWaitable -> Int8]
      /\ waitchain' \in [DeviceWaitable -> Client \cup {wifiblock, NULL}]
      /\ waitchain'[sk6812block] = NULL
      /\ \A w \in DeviceWaitable \ {sk6812block} :
           waitchain'[w] = waitchain[w] /\ semaphore'[w] = semaphore[w]
  BY <1>1, <1>2, Names DEF DevicesInv, DevicesTypeOK, Queues
<1>4. /\ Queues(Crew, DeviceWaitable)'
      /\ ToSet(ready2run') = (ToSet(ready2run) \ {sk6812block}) \cup ({waiter} \ {NULL})
      /\ \A x, y : y \in ToSet(ready2run) =>
           (Before(ready2run', x, y) <=> x # sk6812block /\ Before(ready2run, x, y))
  BY <1>1, <1>3, Names, ExitsSafe DEF DevicesInv
<1>5. /\ sk6812block \in ToSet(ready2run) /\ waiter \in {NULL, Painter}
      /\ ~dma /\ shown = pixels
  BY <1>1, Names, HeadFacts, WhoIsChained DEF DevicesInv, StripInv, Sleeps, DevicesTypeOK
<1>6. GuardsOfTheLive' /\ mpu' \in [Region -> Guarded \cup {NULL, wifiblock, sk6812block}]
  <2>1. Live' = Live \ {sk6812block}
    BY <1>1, Names DEF Live
  <2> QED BY <1>1, <2>1, UninstallSafe DEF DevicesInv
<1>7. DevicesTypeOK'
  BY <1>1, <1>3, <1>4, <1>6 DEF DevicesInv, DevicesTypeOK, Queues, Crew
<1>8. ChainInv'
  BY <1>1, <1>3, Names DEF DevicesInv, ChainInv
<1>9. AwakeInv'
  <2>1. ASSUME NEW d \in Client, Sleeps(d)'
        PROVE  pc'[d] = "wait" /\ waitchain'[slot'[d]] = d
    <3>1. Sleeps(d) /\ d # waiter /\ d # NULL
      BY <1>4, <2>1, Names DEF Sleeps
    <3>2. pc[d] = "wait" => slot[d] \in Slot
      BY DEF DevicesInv, CommandInv, DevicesTypeOK
    <3> QED BY <1>1, <1>3, <3>1, <3>2, Names DEF DevicesInv, AwakeInv
  <2>2. Sleeps(sk6812block)' /\ (wifi' = "off" => Sleeps(wifiblock)')
    BY <1>1, <1>4, <1>5, Names DEF DevicesInv, AwakeInv, Sleeps
  <2> QED BY <2>1, <2>2 DEF AwakeInv
<1>10. CommandInv' /\ SignalInv'
  BY <1>1, <1>3, Names, NotTaking, CommandKept, SignalKept DEF DevicesInv
<1>11. DoneInv'
  <2>1. \A a \in Client : Done(a) => a # sk6812block /\ a \in ToSet(ready2run)
    BY Names DEF DevicesInv, DoneInv
  <2>2. \A t \in Slot : semaphore'[t] = semaphore[t]
    BY <1>3, Names
  <2> QED BY <1>1, <1>4, <2>1, <2>2, DoneKept
<1>12. StripInv'
  BY <1>1, <1>5 DEF StripInv
<1> QED BY <1>4, <1>6, <1>7, <1>8, <1>9, <1>10, <1>11, <1>12 DEF DevicesInv

LEMMA Step_dma_done ==
  ASSUME DevicesInv, dma_done
  PROVE  DevicesInv'
<1>1. /\ dma /\ dma' = FALSE /\ shown' = pixels
      /\ UNCHANGED <<kernel, wififunc_vars, led, pixels, mpu, pc, slot>>
  BY DEF dma_done
<1>2. DevicesTypeOK'
  BY <1>1 DEF DevicesInv, DevicesTypeOK
<1>3. Queues(Crew, DeviceWaitable)' /\ ChainInv' /\ AwakeInv'
  BY <1>1 DEF DevicesInv, Queues, ChainInv, AwakeInv, Sleeps
<1>4. CommandInv' /\ SignalInv' /\ GuardsOfTheLive'
  BY <1>1, CommandKept, SignalKept, GuardsKept DEF DevicesInv, Taking, Runs
<1>5. DoneInv'
  <2>1. \A a \in Client : Done(a) => a \in ToSet(ready2run)
    BY DEF DevicesInv, DoneInv
  <2> QED BY <1>1, <2>1, DoneKept
<1>6. StripInv'
  BY <1>1 DEF DevicesInv, StripInv
<1> QED BY <1>2, <1>3, <1>4, <1>5, <1>6 DEF DevicesInv

LEMMA Step_timer_fired ==
  ASSUME DevicesInv, NEW p \in {wifiblock, sk6812block}, timer_fired(p)
  PROVE  DevicesInv'
<1>1. /\ \/ p = wifiblock /\ wifi = "busy"
         \/ p = sk6812block /\ led = "sleep" /\ ~dma
      /\ Sleeps(p) /\ Wakes(p)
      /\ UNCHANGED <<waitchain, semaphore, wififunc_vars, strip, pixels, mpu, pc, slot>>
  BY DEF timer_fired
<1>2. /\ Queues(Crew, DeviceWaitable)' /\ ToSet(ready2run') = ToSet(ready2run) \cup {p}
      /\ SameOrder(ready2run, ready2run')
  <2>1. /\ p \in Crew /\ p \notin ToSet(ready2run)
        /\ \A w \in DeviceWaitable : waitchain[w] # p
    BY <1>1, Names, WhoIsChained DEF Sleeps
  <2>2. /\ waitchain' \in [DeviceWaitable -> Crew \cup {NULL}]
        /\ semaphore' \in [DeviceWaitable -> Int8]
    BY <1>1 DEF DevicesInv, Queues
  <2> QED BY <1>1, <2>1, <2>2, Names, WakesSafe DEF DevicesInv
<1>3. DevicesTypeOK'
  BY <1>1, <1>2 DEF DevicesInv, DevicesTypeOK, Queues, Crew
<1>4. ChainInv' /\ AwakeInv'
  BY <1>1, <1>2, Names DEF DevicesInv, ChainInv, AwakeInv, Sleeps
<1>5. CommandInv' /\ SignalInv' /\ StripInv' /\ GuardsOfTheLive'
  <2>1. Taking => Taking'
    BY <1>1, Names, HeadStays DEF Taking, Wakes, DevicesInv
  <2> QED BY <1>1, <1>2, <2>1, Names, CommandKept, SignalKept, StripKept, GuardsKept
          DEF DevicesInv, Sleeps
<1>6. DoneInv'
  <2>1. \A a \in Client : Done(a) => a \in ToSet(ready2run)
    BY DEF DevicesInv, DoneInv
  <2> QED BY <1>1, <1>2, <2>1, DoneKept DEF SameOrder
<1> QED BY <1>2, <1>3, <1>4, <1>5, <1>6 DEF DevicesInv

-----------------------------------------------------------------------------
\* A run queue as long as there are clients, with nobody in it twice, has all.
LEMMA DevicesStart == DevicesInit => DevicesInv
<1> SUFFICES ASSUME DevicesInit PROVE DevicesInv
  OBVIOUS
<1> DEFINE n == Cardinality(Client)
<1>1. DevicesOff /\ ready2run \in [1..n -> Client] /\ IsInjective(ready2run)
  BY DEF DevicesInit
<1>2. /\ mpu \in [Region -> Guarded \cup {NULL}]
      /\ \A r, q \in Region : mpu[r] = mpu[q] /\ mpu[r] # NULL => r = q
  BY DEF DevicesInit
<1>3. n \in Nat
  BY FS_CardinalityType
<1>4. ToSet(ready2run) = Client /\ ready2run \in Seq(Client)
  <2>1. ready2run \in Injection(1..n, Client)
    BY <1>1 DEF Injection
  <2>2. Cardinality(1..n) = n
    BY <1>3, FS_Interval
  <2>3. ready2run \in Surjection(1..n, Client)
    BY <2>1, <2>2, FS_Injection
  <2> HIDE DEF n
  <2>4. DOMAIN ready2run = 1..n
    BY <1>1
  <2>5. ready2run \in Seq(Client)
    BY <1>1, <1>3
  <2> QED BY <1>1, <2>3, <2>4, <2>5 DEF Surjection, ToSet
<1>5. /\ cmdindices = rb_init_ringbuffer /\ cmdindices \in Ring
      /\ Used(cmdindices) = 0 /\ InUse(cmdindices) = {}
  <2>1. cmdindices = rb_init_ringbuffer /\ cmdindices \in Ring
    BY <1>1, FollowingSlot DEF DevicesOff, rb_init_ringbuffer, Ring, Slot
  <2>2. Used(cmdindices) = 0
    BY <2>1, EmptyOrFull
  <2>3. InUse(cmdindices) = {}
    BY <2>1, <2>2, InUseCount, FS_EmptySet
  <2> QED BY <2>1, <2>2, <2>3
<1>6. /\ DevicesTypeOK /\ Queues(Crew, DeviceWaitable) /\ ChainInv /\ AwakeInv
      /\ CommandInv /\ DoneInv /\ StripInv
  <2>1. ready2run \in Seq(Crew) /\ \A c \in Client : ~Sleeps(c)
    BY <1>4, Names DEF Sleeps
  <2>2. Sleeps(wifiblock) /\ Sleeps(sk6812block)
    BY <1>4, Names DEF Sleeps
  <2>3. DevicesTypeOK
    <3>1. 0 \in Int8 /\ 0 \in 0..Turns /\ 0 \in 0..INT8_MAX
      BY Int8Has, KernelAssumption
    <3>2. /\ waitchain \in [DeviceWaitable -> Client \cup {wifiblock, NULL}]
          /\ semaphore \in [DeviceWaitable -> Int8]
          /\ pc \in [Client -> {"app", "put", "wait", "strip"}]
          /\ slot \in [Client -> Slot \cup {NULL}]
          /\ cmdringbuffer \in [Slot -> Client \cup {NULL}]
      BY <1>1, <3>1 DEF DevicesOff
    <3> QED BY <1>1, <1>2, <1>5, <2>1, <3>1, <3>2 DEF DevicesTypeOK, DevicesOff, Crew
  <2>4. Queues(Crew, DeviceWaitable)
    BY <1>1, <2>1, Int8Has DEF Queues, DevicesOff
  <2>5. ChainInv /\ AwakeInv /\ StripInv
    BY <1>1, <2>1, <2>2, Names DEF DevicesOff, ChainInv, AwakeInv, StripInv
  <2>6. CommandInv /\ DoneInv
    BY <1>1, <1>5, Names DEF DevicesOff, CommandInv, DoneInv, Done, DeviceWaitable
  <2> QED BY <2>1, <2>3, <2>4, <2>5, <2>6
<1>7. SignalInv
  BY <1>1, <1>5, Names DEF DevicesOff, SignalInv
<1>8. GuardsOfTheLive
  <2>1. Live = {}
    BY <1>1 DEF Live, DevicesOff
  <2>2. \A r \in Others : mpu[r] = NULL
    BY <1>2 DEF Others
  <2> QED BY <2>1, <2>2, GuardsMean DEF Guarding
<1> QED BY <1>6, <1>7, <1>8 DEF DevicesInv

LEMMA DevicesStep == DevicesInv /\ [DevicesNext]_devices => DevicesInv'
<1> SUFFICES ASSUME DevicesInv, [DevicesNext]_devices PROVE DevicesInv'
  OBVIOUS
<1>1. ASSUME NEW c \in Client, call_wifi(c) \/ ClientsTurn(c) PROVE DevicesInv'
  BY <1>1, Step_call_wifi, Step_put_wifi, Step_await_wifi, Step_client_yield
     DEF ClientsTurn
<1>2. CASE update_sk6812ledstrip
  BY <1>2, Step_update_sk6812ledstrip
<1>3. CASE await_strip
  BY <1>3, Step_await_strip
<1>4. CASE WifiFunc
  BY <1>4, Step_wififunc_top, Step_wififunc_sleep, Step_wififunc_end,
     Step_wififunc_wait, Step_wififunc_exit DEF WifiFunc
<1>5. CASE Strip
  BY <1>5, Step_sk6812func, Step_sk6812func_exit DEF Strip
<1>6. CASE dma_done
  BY <1>6, Step_dma_done
<1>7. ASSUME NEW p \in {wifiblock, sk6812block}, timer_fired(p) PROVE DevicesInv'
  BY <1>7, Step_timer_fired
<1>8. CASE UNCHANGED devices
  <2>1. UNCHANGED <<kernel, wififunc_vars, strip, pixels, mpu, pc, slot>>
    BY <1>8 DEF devices
  <2>2. DevicesTypeOK'
    BY <2>1 DEF DevicesInv, DevicesTypeOK
  <2>3. Queues(Crew, DeviceWaitable)' /\ ChainInv' /\ AwakeInv'
    BY <2>1 DEF DevicesInv, Queues, ChainInv, AwakeInv, Sleeps
  <2>4. CommandInv' /\ SignalInv' /\ StripInv' /\ GuardsOfTheLive'
    BY <2>1, CommandKept, SignalKept, StripKept, GuardsKept
       DEF DevicesInv, Sleeps, Taking, Runs
  <2>5. DoneInv'
    <3>1. \A a \in Client : Done(a) => a \in ToSet(ready2run)
      BY DEF DevicesInv, DoneInv
    <3> QED BY <2>1, <3>1, DoneKept
  <2> QED BY <2>2, <2>3, <2>4, <2>5 DEF DevicesInv
<1> QED BY <1>1, <1>2, <1>3, <1>4, <1>5, <1>6, <1>7, <1>8 DEF DevicesNext

\* The inductive invariant, for any number of clients and regions and any ring
\* buffer with a slot more than there are clients.
THEOREM DevicesInvariance == DevicesSpec => []DevicesInv
<1>1. DevicesInit => DevicesInv
  BY DevicesStart
<1>2. DevicesInv /\ [DevicesNext]_devices => DevicesInv'
  BY DevicesStep
<1> QED BY <1>1, <1>2, PTL DEF DevicesSpec

\* The state is what it should be, also when a semaphore has wrapped.
THEOREM DevicesTypeCorrect == DevicesSpec => []DevicesTypeOK
<1>1. DevicesInv => DevicesTypeOK
  BY DEF DevicesInv
<1> QED BY <1>1, DevicesInvariance, PTL

\* wififunc() never sleeps with a command in its ring buffer, although it
\* starts again with the signals of its last life: as long as the DISCONNECTs
\* carried out, each of which leaves one signal at the most, and the clients
\* together are no more than an int8_t can count.
THEOREM NothingIsUnseen == DevicesSpec => []NothingUnseen
<1>1. DevicesInv => NothingUnseen
  BY DEF DevicesInv, SignalInv, NothingUnseen
<1> QED BY <1>1, DevicesInvariance, PTL

\* A command that was not carried out stays in the slot its client waits for.
THEOREM CommandsStay == DevicesSpec => []CommandDone
<1>1. DevicesInv => CommandDone
  BY Names DEF DevicesInv, DevicesTypeOK, CommandInv, CommandDone, InUse
<1> QED BY <1>1, DevicesInvariance, PTL

\* The wait for an update of the LED strip is over when it shows the pixels.
THEOREM UpdatesAreShown == DevicesSpec => []UpdateShown
<1>1. DevicesInv => UpdateShown
  BY DEF DevicesInv, StripInv, UpdateShown
<1> QED BY <1>1, DevicesInvariance, PTL

\* Drivers that start and exit use up no MPU region, and have each its guard
\* while they live when there are regions for both.
THEOREM GuardsGuardTheLive == DevicesSpec => []GuardsOfTheLive
<1>1. DevicesInv => GuardsOfTheLive
  BY DEF DevicesInv
<1> QED BY <1>1, DevicesInvariance, PTL
-----------------------------------------------------------------------------
(* The charger, which has nothing to do with the others. *)
\* The value that turned it is on that side of both limits.
TurnInv ==
  /\ charging \in BOOLEAN
  /\ charging => turnedat \in Int /\ turnedat < L
  /\ ~charging => turnedat = None \/ (turnedat \in Int /\ turnedat > H)

LEMMA Turning ==
  ASSUME L \in Int, H \in Int, L <= H, TurnInv, [Next]_vars
  PROVE  TurnInv' /\ (TurnsApart \/ UNCHANGED vars)
<1>1. CASE UNCHANGED vars
  BY <1>1 DEF TurnInv, vars
<1>2. ASSUME NEW value \in Int, update(value)
      PROVE  TurnInv' /\ TurnsApart
  <2>1. CASE value < L
    <3>1. CASE charging
      BY <1>2, <2>1, <3>1, Zenon DEF update, TurnInv, TurnsApart
    <3>2. CASE ~charging
      <4>1. charging' = TRUE /\ turnedat' = value
        BY <1>2, <2>1, <3>2, Zenon DEF update, TurnInv
      <4>2. turnedat = None \/ Apart(value, turnedat)
        BY <2>1, <3>2 DEF TurnInv, Apart
      <4> QED BY <2>1, <4>1, <4>2, Zenon DEF TurnInv, TurnsApart
    <3> QED BY <3>1, <3>2
  <2>2. CASE value > H
    <3>1. CASE charging
      <4>1. charging' = FALSE /\ turnedat' = value
        <5>1. ~(value < L)
          BY <2>2
        <5> QED BY <1>2, <2>2, <3>1, <5>1, Zenon DEF update, TurnInv
      <4>2. Apart(value, turnedat)
        BY <2>2, <3>1 DEF TurnInv, Apart
      <4> QED BY <2>2, <4>1, <4>2, Zenon DEF TurnInv, TurnsApart
    <3>2. CASE ~charging
      <4>1. ~(value < L)
        BY <2>2
      <4> QED BY <1>2, <2>2, <3>2, <4>1, Zenon DEF update, TurnInv, TurnsApart
    <3> QED BY <3>1, <3>2
  <2>3. CASE ~(value < L) /\ ~(value > H)
    BY <1>2, <2>3 DEF update, TurnInv, TurnsApart
  <2> QED BY <2>1, <2>2, <2>3
<1> QED BY <1>1, <1>2 DEF Next

\* What the hysteresis is for: a measurement that jitters by no more than H - L
\* turns the charger once, and not on and off again.
THEOREM NoChatter ==
  ASSUME L \in Int, H \in Int, L <= H
  PROVE  Spec => [][TurnsApart]_vars
<1>1. Init => TurnInv
  BY DEF Init, TurnInv
<1>2. TurnInv /\ [Next]_vars => TurnInv' /\ [TurnsApart]_vars
  BY Turning
<1> QED BY <1>1, <1>2, PTL DEF Spec
=============================================================================
