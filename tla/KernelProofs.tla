----------------------------- MODULE KernelProofs -----------------------------
(***************************************************************************)
(* What the calls of Kernel do to the run queue, the order in it and the   *)
(* wait chains, and where the slots of a RingBuffer are: the lemmas that   *)
(* the proofs about drivers and their clients share.                       *)
(***************************************************************************)
EXTENDS Kernel, RingBuffer, ListOpsProofs

USE RingBufferAssumption, KernelAssumption

\* Nobody is queued to run twice, and who is chained sleeps, in one chain only.
Queues(P, W) ==
  /\ ready2run \in Seq(P) /\ IsInjective(ready2run)
  /\ waitchain \in [W -> P \cup {NULL}]
  /\ semaphore \in [W -> Int8]
  /\ \A w \in W : waitchain[w] # NULL =>
       /\ waitchain[w] \notin ToSet(ready2run)
       /\ \A v \in W : waitchain[v] = waitchain[w] => v = w

\* An int8_t stays one when it is counted up or, above its least value, down.
LEMMA Int8Facts ==
  ASSUME NEW n \in Int8
  PROVE  /\ n \in Int /\ n <= INT8_MAX /\ Increment(n) \in Int8
         /\ n > 0 => n - 1 \in Int8
         /\ n < INT8_MAX => Increment(n) = n + 1
BY DEF Int8, Increment

LEMMA Int8Has == 0 \in Int8 /\ 1 \in Int8 /\ INT8_MAX \in Int8
BY DEF Int8

LEMMA Pushed ==
  ASSUME NEW P, NEW queue \in Seq(P), NEW p \in P, IsInjective(queue),
         p \notin ToSet(queue)
  PROVE  /\ ll_push_back(queue, p) \in Seq(P)
         /\ ToSet(ll_push_back(queue, p)) = ToSet(queue) \cup {p}
         /\ IsInjective(ll_push_back(queue, p))
<1>1. ll_push_back(queue, p) \in Seq(P)
  BY DEF ll_push_back
<1>2. ToSet(ll_push_back(queue, p)) = ToSet(queue) \cup {p}
  BY PushBackProps
<1>3. IsInjective(ll_push_back(queue, p))
  BY PushBackProps
<1> QED BY <1>1, <1>2, <1>3

-----------------------------------------------------------------------------
(* The order in the run queue. *)

Before(queue, x, y) ==
  \E i, j \in DOMAIN queue : i < j /\ queue[i] = x /\ queue[j] = y

\* Who is pushed is behind those that were there, who stay as they are.
LEMMA BeforePushed ==
  ASSUME NEW P, NEW queue \in Seq(P), NEW p \in P, p \notin ToSet(queue)
  PROVE  /\ \A x, y : y # p => (Before(ll_push_back(queue, p), x, y) <=> Before(queue, x, y))
         /\ \A x : Before(ll_push_back(queue, p), x, p) <=> x \in ToSet(queue)
<1> DEFINE longer == ll_push_back(queue, p)
<1>1. /\ DOMAIN queue = 1..Len(queue) /\ DOMAIN longer = 1..(Len(queue) + 1)
      /\ Len(queue) \in Nat /\ longer[Len(queue) + 1] = p
      /\ \A i \in 1..Len(queue) : longer[i] = queue[i]
  BY DEF ll_push_back
<1> HIDE DEF longer
<1>2. \A i \in DOMAIN queue : queue[i] # p
  BY DEF ToSet
<1>3. ASSUME NEW x, NEW y, y # p
      PROVE  Before(longer, x, y) <=> Before(queue, x, y)
  BY <1>1, <1>3 DEF Before
<1>4. ASSUME NEW x
      PROVE  Before(longer, x, p) <=> x \in ToSet(queue)
  <2>1. ASSUME Before(longer, x, p) PROVE x \in ToSet(queue)
    BY <1>1, <1>2, <2>1 DEF Before, ToSet
  <2>2. ASSUME x \in ToSet(queue) PROVE Before(longer, x, p)
    <3>1. PICK i \in DOMAIN queue : queue[i] = x
      BY <2>2 DEF ToSet
    <3>2. /\ i \in DOMAIN longer /\ Len(queue) + 1 \in DOMAIN longer
          /\ i < Len(queue) + 1 /\ longer[i] = x
      BY <1>1, <3>1
    <3> QED BY <1>1, <3>2 DEF Before
  <2> QED BY <2>1, <2>2
<1> QED BY <1>3, <1>4 DEF longer

\* The head is before all others, and when it is popped they stay as they are.
LEMMA BeforePopped ==
  ASSUME NEW P, NEW queue \in Seq(P), IsInjective(queue), queue # <<>>
  PROVE  /\ \A y \in ToSet(queue) : y # Head(queue) => Before(queue, Head(queue), y)
         /\ \A x, y : Before(ll_pop_front(queue), x, y) <=>
                        x # Head(queue) /\ Before(queue, x, y)
         /\ \A x : ~Before(queue, x, Head(queue))
<1> DEFINE rest == ll_pop_front(queue)
<1>1. /\ Head(queue) = queue[1] /\ 1 \in DOMAIN queue
      /\ Len(rest) = Len(queue) - 1 /\ rest \in Seq(P)
      /\ Len(queue) \in Nat \ {0}
      /\ \A i \in 1..Len(rest) : rest[i] = queue[i + 1]
  BY HeadTailProperties, EmptySeq DEF ll_pop_front
<1>2. DOMAIN queue = 1..Len(queue) /\ DOMAIN rest = 1..(Len(queue) - 1)
  BY <1>1
<1> HIDE DEF rest
<1>3. ASSUME NEW y \in ToSet(queue), y # Head(queue) PROVE Before(queue, Head(queue), y)
  <2>1. PICK j \in DOMAIN queue : queue[j] = y
    BY DEF ToSet
  <2> QED BY <1>1, <1>2, <1>3, <2>1 DEF Before
<1>4. ASSUME NEW x, NEW y
      PROVE  Before(rest, x, y) <=> x # Head(queue) /\ Before(queue, x, y)
  <2>1. ASSUME Before(rest, x, y) PROVE x # Head(queue) /\ Before(queue, x, y)
    <3>1. PICK i, j \in DOMAIN rest : i < j /\ rest[i] = x /\ rest[j] = y
      BY <2>1 DEF Before
    <3>2. /\ i + 1 \in DOMAIN queue /\ j + 1 \in DOMAIN queue /\ i + 1 < j + 1
          /\ queue[i + 1] = x /\ queue[j + 1] = y /\ i + 1 # 1
      BY <1>1, <1>2, <3>1
    <3>3. x # Head(queue)
      BY <1>1, <3>2 DEF IsInjective
    <3> QED BY <3>2, <3>3 DEF Before
  <2>2. ASSUME x # Head(queue), Before(queue, x, y) PROVE Before(rest, x, y)
    <3>1. PICK i, j \in DOMAIN queue : i < j /\ queue[i] = x /\ queue[j] = y
      BY <2>2 DEF Before
    <3>2. i # 1
      BY <1>1, <2>2, <3>1
    <3>3. /\ i - 1 \in DOMAIN rest /\ j - 1 \in DOMAIN rest /\ i - 1 < j - 1
          /\ rest[i - 1] = x /\ rest[j - 1] = y
      BY <1>1, <1>2, <3>1, <3>2
    <3> QED BY <3>3 DEF Before
  <2> QED BY <2>1, <2>2
<1>5. ASSUME NEW x PROVE ~Before(queue, x, Head(queue))
  <2>1. SUFFICES ASSUME NEW i \in DOMAIN queue, NEW j \in DOMAIN queue, i < j,
                        queue[j] = queue[1]
                 PROVE  FALSE
    BY <1>1 DEF Before
  <2>2. j = 1
    BY <1>1, <2>1 DEF IsInjective
  <2> QED BY <1>2, <2>1, <2>2
<1> QED BY <1>3, <1>4, <1>5 DEF rest

\* Everybody who stays in the run queue keeps the order, and nobody is put in
\* before them.
SameOrder(queue, longer) ==
  \A x, y : y \in ToSet(queue) => (Before(longer, x, y) <=> Before(queue, x, y))

-----------------------------------------------------------------------------
(* The calls. *)

\* The head of the run queue is in it once, in front, and in no wait chain.
LEMMA HeadFacts ==
  ASSUME NEW P, NEW W, NULL \notin P, Queues(P, W), NEW p, Runs(p)
  PROVE  /\ p \in P /\ p \in ToSet(ready2run)
         /\ ll_pop_front(ready2run) \in Seq(P) /\ IsInjective(ll_pop_front(ready2run))
         /\ ToSet(ll_pop_front(ready2run)) = ToSet(ready2run) \ {p}
         /\ \A w \in W : waitchain[w] # p
         /\ \A y \in ToSet(ready2run) : y # p => Before(ready2run, p, y)
         /\ \A x, y : Before(ll_pop_front(ready2run), x, y) <=>
                        x # p /\ Before(ready2run, x, y)
         /\ \A x : ~Before(ready2run, x, p)
<1>1. /\ ready2run \in Seq(P) /\ IsInjective(ready2run)
      /\ ready2run # <<>> /\ p = Head(ready2run)
  BY DEF Queues, Runs, ll_peek_head
<1>2. /\ p \in P /\ p \in ToSet(ready2run)
      /\ ll_pop_front(ready2run) \in Seq(P)
      /\ IsInjective(ll_pop_front(ready2run))
      /\ ToSet(ll_pop_front(ready2run)) = ToSet(ready2run) \ {p}
  BY <1>1, PopFrontProps
<1>3. \A w \in W : waitchain[w] # p
  BY <1>2 DEF Queues
<1>4. /\ \A y \in ToSet(ready2run) : y # p => Before(ready2run, p, y)
      /\ \A x, y : Before(ll_pop_front(ready2run), x, y) <=>
                     x # p /\ Before(ready2run, x, y)
      /\ \A x : ~Before(ready2run, x, p)
  BY <1>1, BeforePopped
<1> QED BY <1>2, <1>3, <1>4

\* Nobody overtakes the one that runs.
LEMMA RunsOn ==
  ASSUME NEW P, NEW queue \in Seq(P), NEW p \in P, queue # <<>>
  PROVE  ll_push_back(queue, p) # <<>> /\ ll_peek_head(ll_push_back(queue, p)) = ll_peek_head(queue)
BY PushBackProps, EmptySeq DEF ll_push_back, ll_peek_head

LEMMA BeforeInQueue ==
  ASSUME NEW queue, NEW x, NEW y, Before(queue, x, y)
  PROVE  x \in ToSet(queue) /\ y \in ToSet(queue)
BY DEF Before, ToSet

\* wakeup() of one that is in no wait chain any more.
LEMMA WakesSafe ==
  ASSUME NEW P, NEW W, NULL \notin P, Queues(P, W), NEW p \in P, Wakes(p),
         p \notin ToSet(ready2run),
         waitchain' \in [W -> P \cup {NULL}], semaphore' \in [W -> Int8],
         \A w \in W : waitchain'[w] \in {waitchain[w], NULL} /\ waitchain'[w] # p
  PROVE  /\ Queues(P, W)' /\ ToSet(ready2run') = ToSet(ready2run) \cup {p}
         /\ SameOrder(ready2run, ready2run')
<1>1. ready2run' = ll_push_back(ready2run, p)
  BY DEF Wakes
<1>2. /\ ready2run' \in Seq(P) /\ IsInjective(ready2run')
      /\ ToSet(ready2run') = ToSet(ready2run) \cup {p}
  BY <1>1, Pushed DEF Queues
<1>3. SameOrder(ready2run, ready2run')
  BY <1>1, BeforePushed DEF Queues, SameOrder
<1> QED BY <1>2, <1>3 DEF Queues

\* signal() wakes the one that is chained.
LEMMA SignalsSafe ==
  ASSUME NEW P, NEW W, NULL \notin P, Queues(P, W), NEW w \in W, Signals(w)
  PROVE  /\ Queues(P, W)'
         /\ ToSet(ready2run') = ToSet(ready2run) \cup ({waitchain[w]} \ {NULL})
         /\ waitchain' = [waitchain EXCEPT ![w] = NULL]
         /\ semaphore' = [semaphore EXCEPT ![w] = Increment(@)]
         /\ SameOrder(ready2run, ready2run')
<1>1. /\ waitchain' = [waitchain EXCEPT ![w] = NULL]
      /\ semaphore' = [semaphore EXCEPT ![w] = Increment(@)]
      /\ waitchain \in [W -> P \cup {NULL}] /\ semaphore' \in [W -> Int8]
  <2>1. /\ waitchain' = [waitchain EXCEPT ![w] = NULL]
        /\ semaphore' = [semaphore EXCEPT ![w] = Increment(@)]
        /\ waitchain \in [W -> P \cup {NULL}] /\ semaphore \in [W -> Int8]
    BY DEF Signals, Queues
  <2>2. semaphore[w] \in Int8
    BY <2>1
  <2>3. Increment(semaphore[w]) \in Int8
    BY <2>2, Int8Facts
  <2> QED BY <2>1, <2>3
<1>2. CASE waitchain[w] = NULL
  <2>1. ready2run' = ready2run
    BY <1>2 DEF Signals
  <2> QED BY <1>1, <1>2, <2>1 DEF Queues, SameOrder
<1>3. CASE waitchain[w] # NULL
  <2>1. PICK p \in P : p = waitchain[w]
    BY <1>1, <1>3
  <2>2. Wakes(p) /\ p \notin ToSet(ready2run)
    BY <1>3, <2>1 DEF Signals, Queues
  <2>3. /\ waitchain' \in [W -> P \cup {NULL}] /\ semaphore' \in [W -> Int8]
        /\ \A v \in W : waitchain'[v] \in {waitchain[v], NULL} /\ waitchain'[v] # p
    BY <1>1, <1>3, <2>1 DEF Queues
  <2>4. /\ Queues(P, W)' /\ ToSet(ready2run') = ToSet(ready2run) \cup {p}
        /\ SameOrder(ready2run, ready2run')
    BY <2>2, <2>3, WakesSafe
  <2> QED BY <1>1, <1>3, <2>1, <2>4
<1> QED BY <1>2, <1>3

\* yield_and_wait4signal() that finds a signal,
LEMMA TakesSafe ==
  ASSUME NEW P, NEW W, Queues(P, W), NEW w \in W, Takes(w)
  PROVE  /\ Queues(P, W)' /\ UNCHANGED <<ready2run, waitchain>>
         /\ semaphore[w] > 0 /\ semaphore' = [semaphore EXCEPT ![w] = @ - 1]
<1>1. /\ semaphore' \in [W -> Int8] /\ UNCHANGED <<ready2run, waitchain>>
      /\ semaphore[w] > 0 /\ semaphore' = [semaphore EXCEPT ![w] = @ - 1]
  <2>1. /\ semaphore \in [W -> Int8] /\ UNCHANGED <<ready2run, waitchain>>
        /\ semaphore[w] > 0 /\ semaphore' = [semaphore EXCEPT ![w] = @ - 1]
    BY DEF Takes, Queues
  <2>2. semaphore[w] \in Int8
    BY <2>1
  <2>3. semaphore[w] - 1 \in Int8
    BY <2>1, <2>2, Int8Facts
  <2> QED BY <2>1, <2>3
<1> QED BY <1>1 DEF Queues

\* and one that finds none; the one that was chained before is forgotten.
LEMMA ChainsSafe ==
  ASSUME NEW P, NEW W, NULL \notin P, Queues(P, W), NEW p, NEW w \in W, Runs(p),
         Chains(p, w)
  PROVE  /\ Queues(P, W)' /\ ToSet(ready2run') = ToSet(ready2run) \ {p}
         /\ waitchain' = [waitchain EXCEPT ![w] = p]
         /\ semaphore' = semaphore /\ semaphore[w] <= 0
         /\ \A x, y : Before(ready2run', x, y) <=> x # p /\ Before(ready2run, x, y)
<1>1. /\ waitchain' = [waitchain EXCEPT ![w] = p] /\ semaphore' = semaphore
      /\ ready2run' = ll_pop_front(ready2run) /\ semaphore[w] <= 0
  BY DEF Chains, Leaves, Queues
<1> QED BY <1>1, HeadFacts DEF Queues

\* It leaves the run queue, to be found in no wait chain.
LEMMA LeavesSafe ==
  ASSUME NEW P, NEW W, NULL \notin P, Queues(P, W), NEW p, Runs(p), Leaves(p),
         UNCHANGED waitchain, semaphore' \in [W -> Int8]
  PROVE  /\ Queues(P, W)' /\ ToSet(ready2run') = ToSet(ready2run) \ {p}
         /\ \A x, y : Before(ready2run', x, y) <=> x # p /\ Before(ready2run, x, y)
BY HeadFacts DEF Queues, Leaves

\* yield_and_exit(): it leaves the run queue, and who waits for that wakes up.
LEMMA ExitsSafe ==
  ASSUME NEW P, NEW W, NULL \notin P, Queues(P, W), NEW p, NEW w \in W, Runs(p),
         ready2run' = (LET rest == ll_pop_front(ready2run) IN
                       IF waitchain[w] # NULL THEN ll_push_back(rest, waitchain[w])
                       ELSE rest),
         waitchain' = [waitchain EXCEPT ![w] = NULL], semaphore' \in [W -> Int8]
  PROVE  /\ Queues(P, W)'
         /\ ToSet(ready2run') =
              (ToSet(ready2run) \ {p}) \cup ({waitchain[w]} \ {NULL})
         /\ \A x, y : y \in ToSet(ready2run) =>
              (Before(ready2run', x, y) <=> x # p /\ Before(ready2run, x, y))
<1> DEFINE rest == ll_pop_front(ready2run)
<1>1. /\ p \in P /\ rest \in Seq(P) /\ IsInjective(rest)
      /\ ToSet(rest) = ToSet(ready2run) \ {p} /\ p \in ToSet(ready2run)
      /\ \A v \in W : waitchain[v] # p
      /\ \A x, y : Before(rest, x, y) <=> x # p /\ Before(ready2run, x, y)
  BY HeadFacts
<1>2. /\ waitchain \in [W -> P \cup {NULL}]
      /\ waitchain' \in [W -> P \cup {NULL}] /\ waitchain'[w] = NULL
      /\ \A v \in W \ {w} : waitchain'[v] = waitchain[v]
  BY DEF Queues
<1> HIDE DEF rest
<1>3. CASE waitchain[w] = NULL
  <2>1. ready2run' = rest
    BY <1>3 DEF rest
  <2> QED BY <1>1, <1>2, <1>3, <2>1 DEF Queues
<1>4. CASE waitchain[w] # NULL
  <2>1. PICK q \in P : q = waitchain[w]
    BY <1>2, <1>4
  <2>2. ready2run' = ll_push_back(rest, q) /\ q \notin ToSet(ready2run)
    BY <1>4, <2>1 DEF rest, Queues
  <2>3. /\ ready2run' \in Seq(P) /\ ToSet(ready2run') = ToSet(rest) \cup {q}
        /\ IsInjective(ready2run')
        /\ \A x, y : y # q => (Before(ready2run', x, y) <=> Before(rest, x, y))
    BY <1>1, <2>2, Pushed, BeforePushed
  <2>4. \A v \in W : waitchain'[v] # NULL => waitchain'[v] # q
    BY <1>2, <2>1 DEF Queues
  <2>5. Queues(P, W)'
    BY <1>1, <1>2, <2>3, <2>4 DEF Queues
  <2> QED BY <1>1, <2>1, <2>2, <2>3, <2>5
<1> QED BY <1>3, <1>4

\* yield(): who is behind it stays in order, and it is behind them.
LEMMA YieldsSafe ==
  ASSUME NEW P, NEW W, NULL \notin P, Queues(P, W), NEW p, Runs(p), Yields(p),
         UNCHANGED <<waitchain, semaphore>>
  PROVE  /\ Queues(P, W)' /\ ToSet(ready2run') = ToSet(ready2run)
         /\ \A x, y : y # p =>
              (Before(ready2run', x, y) <=> x # p /\ Before(ready2run, x, y))
<1> DEFINE rest == ll_pop_front(ready2run)
<1>1. /\ p \in P /\ rest \in Seq(P) /\ IsInjective(rest)
      /\ ToSet(rest) = ToSet(ready2run) \ {p} /\ p \in ToSet(ready2run)
      /\ \A x, y : Before(rest, x, y) <=> x # p /\ Before(ready2run, x, y)
  BY HeadFacts
<1>2. ready2run' = ll_push_back(rest, p) /\ p \notin ToSet(rest)
  BY <1>1 DEF Yields
<1> HIDE DEF rest
<1>3. /\ ready2run' \in Seq(P) /\ ToSet(ready2run') = ToSet(rest) \cup {p}
      /\ IsInjective(ready2run')
      /\ \A x, y : y # p => (Before(ready2run', x, y) <=> Before(rest, x, y))
  BY <1>1, <1>2, Pushed, BeforePushed
<1>4. ToSet(ready2run') = ToSet(ready2run)
  BY <1>1, <1>3
<1> QED BY <1>1, <1>3, <1>4 DEF Queues

\* yield_and_start(): the new one comes next to last.
LEMMA StartsSafe ==
  ASSUME NEW P, NEW W, NULL \notin P, Queues(P, W), NEW p, NEW new \in P, Runs(p),
         Starts(p, new), new \notin ToSet(ready2run),
         waitchain' \in [W -> P \cup {NULL}], semaphore' \in [W -> Int8],
         \A w \in W : waitchain'[w] \in {waitchain[w], NULL} /\ waitchain'[w] # new
  PROVE  /\ Queues(P, W)' /\ ToSet(ready2run') = ToSet(ready2run) \cup {new}
         /\ Before(ready2run', new, p)
         /\ \A x \in ToSet(ready2run) : x # p => Before(ready2run', x, new)
         /\ \A x, y : y \notin {p, new} =>
              (Before(ready2run', x, y) <=> x # p /\ Before(ready2run, x, y))
<1> DEFINE rest == ll_pop_front(ready2run)
           longer == ll_push_back(rest, new)
<1>1. /\ p \in P /\ rest \in Seq(P) /\ IsInjective(rest)
      /\ ToSet(rest) = ToSet(ready2run) \ {p} /\ p \in ToSet(ready2run)
      /\ \A w \in W : waitchain[w] # p
      /\ \A x, y : Before(rest, x, y) <=> x # p /\ Before(ready2run, x, y)
  BY HeadFacts
<1>2. ready2run' = ll_push_back(longer, p) /\ p \notin ToSet(rest) /\ p # new
  BY <1>1 DEF Starts
<1> HIDE DEF rest
<1>3. /\ longer \in Seq(P) /\ ToSet(longer) = ToSet(rest) \cup {new}
      /\ IsInjective(longer)
      /\ \A x, y : y # new => (Before(longer, x, y) <=> Before(rest, x, y))
      /\ \A x : Before(longer, x, new) <=> x \in ToSet(rest)
  BY <1>1, Pushed, BeforePushed
<1> HIDE DEF longer
<1>4. p \notin ToSet(longer) /\ new \in ToSet(longer)
  BY <1>2, <1>3
<1>5. /\ ready2run' \in Seq(P) /\ ToSet(ready2run') = ToSet(longer) \cup {p}
      /\ IsInjective(ready2run')
      /\ \A x, y : y # p => (Before(ready2run', x, y) <=> Before(longer, x, y))
      /\ \A x : Before(ready2run', x, p) <=> x \in ToSet(longer)
  BY <1>1, <1>2, <1>3, <1>4, Pushed, BeforePushed
<1>6. ToSet(ready2run') = ToSet(ready2run) \cup {new}
  BY <1>1, <1>3, <1>5
<1>7. \A w \in W : waitchain'[w] # p
  BY <1>1
<1>8. Queues(P, W)'
  BY <1>5, <1>6, <1>7 DEF Queues
<1> QED BY <1>1, <1>3, <1>4, <1>5, <1>6, <1>8
-----------------------------------------------------------------------------
(* The ring buffer. *)

\* How many steps it is from slot a to slot b.
Steps(a, b) == (b - a) % RINGBUFFER_SIZE

InUse(rb) == Range(Contents(rb))

LEMMA ModSmall ==
  ASSUME NEW x \in Int, 0 <= x, x < 2 * RINGBUFFER_SIZE
  PROVE  x % RINGBUFFER_SIZE = IF x < RINGBUFFER_SIZE THEN x ELSE x - RINGBUFFER_SIZE
<1>1. CASE x < RINGBUFFER_SIZE
  BY <1>1
<1>2. CASE ~(x < RINGBUFFER_SIZE)
  BY <1>2
<1> QED BY <1>1, <1>2

LEMMA SlotType == \A s \in Slot : s \in Int /\ 0 <= s /\ s < RINGBUFFER_SIZE
BY DEF Slot

LEMMA StepsSmall ==
  ASSUME NEW a \in Slot, NEW b \in Slot
  PROVE  /\ Steps(a, b) = IF a <= b THEN b - a ELSE b - a + RINGBUFFER_SIZE
         /\ Steps(a, b) \in Slot
         /\ Steps(a, b) = 0 <=> a = b
<1>1. /\ a \in 0..RINGBUFFER_SIZE - 1 /\ b \in 0..RINGBUFFER_SIZE - 1
      /\ RINGBUFFER_SIZE \in Nat \ {0}
  BY DEF Slot
<1>2. CASE a <= b
  BY <1>1, <1>2 DEF Steps, Slot
<1>3. CASE ~(a <= b)
  BY <1>1, <1>3 DEF Steps, Slot
<1> QED BY <1>2, <1>3

LEMMA FollowingSlot ==
  ASSUME NEW i \in Slot
  PROVE  /\ Following(i) \in Slot
         /\ Following(i) = IF i = RINGBUFFER_SIZE - 1 THEN 0 ELSE i + 1
<1>1. i \in 0..RINGBUFFER_SIZE - 1 /\ RINGBUFFER_SIZE \in Nat \ {0}
  BY DEF Slot
<1>2. CASE i = RINGBUFFER_SIZE - 1
  BY <1>1, <1>2 DEF Following, Slot
<1>3. CASE i # RINGBUFFER_SIZE - 1
  BY <1>1, <1>3 DEF Following, Slot
<1> QED BY <1>2, <1>3

LEMMA RingTypes ==
  ASSUME NEW rb \in Ring
  PROVE  /\ rb.begin \in Slot /\ rb.end \in Slot /\ rb = [begin |-> rb.begin, end |-> rb.end]
         /\ rb_push_back(rb) = [begin |-> rb.begin, end |-> Following(rb.end)]
         /\ rb_pop_front(rb) = [begin |-> Following(rb.begin), end |-> rb.end]
         /\ rb_push_back(rb) \in Ring /\ rb_pop_front(rb) \in Ring
         /\ rb_init_ringbuffer \in Ring
         /\ Used(rb) = Steps(rb.begin, rb.end) /\ Used(rb) \in Slot
<1>1. /\ rb.begin \in Slot /\ rb.end \in Slot
      /\ rb = [begin |-> rb.begin, end |-> rb.end] /\ 0 \in Slot
  BY DEF Ring, Slot
<1>2. Following(rb.begin) \in Slot /\ Following(rb.end) \in Slot
  BY <1>1, FollowingSlot
<1>3. /\ rb_push_back(rb) = [begin |-> rb.begin, end |-> Following(rb.end)]
      /\ rb_pop_front(rb) = [begin |-> Following(rb.begin), end |-> rb.end]
  BY <1>1 DEF rb_push_back, rb_pop_front
<1>4. Used(rb) = Steps(rb.begin, rb.end) /\ Used(rb) \in Slot
  BY <1>1, StepsSmall DEF Used, Steps
<1> QED BY <1>1, <1>2, <1>3, <1>4 DEF rb_init_ringbuffer, Ring

\* The slots in use are those fewer than Used steps from the first.
LEMMA InUseIsNear ==
  ASSUME NEW rb \in Ring
  PROVE  /\ InUse(rb) = {s \in Slot : Steps(rb.begin, s) < Used(rb)}
         /\ \A n \in 1..Used(rb) : Contents(rb)[n] \in Slot
         /\ \A n \in 1..Used(rb) : Steps(rb.begin, Contents(rb)[n]) = n - 1
<1>1. /\ rb.begin \in Slot /\ rb.end \in Slot /\ Used(rb) \in Slot
      /\ RINGBUFFER_SIZE \in Nat \ {0} /\ Used(rb) < RINGBUFFER_SIZE
      /\ DOMAIN Contents(rb) = 1..Used(rb)
  BY RingTypes DEF Slot, Contents
<1>2. ASSUME NEW n \in 1..Used(rb)
      PROVE  /\ Contents(rb)[n] \in Slot
             /\ Steps(rb.begin, Contents(rb)[n]) = n - 1
  <2>1. PICK b \in 0..RINGBUFFER_SIZE - 1 : b = rb.begin
    BY <1>1 DEF Slot
  <2>2. n - 1 \in 0..RINGBUFFER_SIZE - 1
    BY <1>1 DEF Slot
  <2>3. (b + n - 1) % RINGBUFFER_SIZE =
          IF b + n - 1 < RINGBUFFER_SIZE THEN b + n - 1
          ELSE b + n - 1 - RINGBUFFER_SIZE
    <3>1. b + n - 1 \in Int /\ 0 <= b + n - 1 /\ b + n - 1 < 2 * RINGBUFFER_SIZE
      BY <2>2
    <3> QED BY <3>1, ModSmall
  <2>4. Contents(rb)[n] = (b + n - 1) % RINGBUFFER_SIZE
    BY <2>1 DEF Contents
  <2>5. PICK s : s = Contents(rb)[n]
    OBVIOUS
  <2>6. s = IF b + n - 1 < RINGBUFFER_SIZE THEN b + n - 1
            ELSE b + n - 1 - RINGBUFFER_SIZE
    BY <2>3, <2>4, <2>5
  <2>7. s \in Slot
    BY <2>2, <2>6 DEF Slot
  <2>8. Steps(b, s) = IF b <= s THEN s - b ELSE s - b + RINGBUFFER_SIZE
    BY <1>1, <2>1, <2>7, StepsSmall
  <2>9. Steps(b, s) = n - 1
    BY <2>2, <2>6, <2>8
  <2> QED BY <2>1, <2>5, <2>7, <2>9
<1>3. ASSUME NEW s \in Slot, Steps(rb.begin, s) < Used(rb)
      PROVE  s \in InUse(rb)
  <2>1. PICK b \in 0..RINGBUFFER_SIZE - 1 : b = rb.begin
    BY <1>1 DEF Slot
  <2>2. PICK d \in 0..RINGBUFFER_SIZE - 1 : d = Steps(b, s)
    BY <1>1, <2>1, StepsSmall DEF Slot
  <2>3. d + 1 \in 1..Used(rb)
    BY <1>1, <1>3, <2>1, <2>2 DEF Slot
  <2>4. Steps(rb.begin, Contents(rb)[d + 1]) = d /\ Contents(rb)[d + 1] \in Slot
    BY <1>2, <2>2, <2>3
  <2>5. Contents(rb)[d + 1] = s
    <3>1. PICK t \in Slot : t = Contents(rb)[d + 1]
      BY <2>4
    <3>2. /\ Steps(b, t) = IF b <= t THEN t - b ELSE t - b + RINGBUFFER_SIZE
          /\ Steps(b, s) = IF b <= s THEN s - b ELSE s - b + RINGBUFFER_SIZE
      BY <1>1, <2>1, StepsSmall
    <3>3. Steps(b, t) = Steps(b, s)
      BY <2>1, <2>2, <2>4, <3>1
    <3>4. t = s
      BY <3>2, <3>3, SlotType
    <3> QED BY <3>1, <3>4
  <2> QED BY <1>1, <2>3, <2>5 DEF InUse, Range
<1>4. ASSUME NEW s \in InUse(rb)
      PROVE  s \in Slot /\ Steps(rb.begin, s) < Used(rb)
  <2>1. PICK n \in 1..Used(rb) : s = Contents(rb)[n]
    BY <1>1 DEF InUse, Range
  <2> QED BY <1>1, <1>2, <2>1 DEF Slot
<1> QED BY <1>2, <1>3, <1>4

\* As many slots are in use as Used says.
LEMMA InUseCount ==
  ASSUME NEW rb \in Ring
  PROVE  IsFiniteSet(InUse(rb)) /\ Cardinality(InUse(rb)) = Used(rb)
<1> DEFINE c == Contents(rb)
<1>1. Used(rb) \in Nat /\ DOMAIN c = 1..Used(rb)
  BY RingTypes DEF Slot, Contents
<1>2. c \in [1..Used(rb) -> InUse(rb)]
  BY <1>1 DEF InUse, Range, Contents
<1>3. \A n, m \in 1..Used(rb) : c[n] = c[m] => n = m
  <2>1. SUFFICES ASSUME NEW n \in 1..Used(rb), NEW m \in 1..Used(rb), c[n] = c[m]
                 PROVE  n = m
    OBVIOUS
  <2>2. n - 1 = m - 1
    BY <2>1, InUseIsNear
  <2> QED BY <1>1, <2>2
<1>4. \A s \in InUse(rb) : \E n \in 1..Used(rb) : c[n] = s
  BY <1>1 DEF InUse, Range
<1> HIDE DEF c
<1>5. c \in Surjection(1..Used(rb), InUse(rb))
  BY <1>2, <1>4 DEF Surjection
<1>6. c \in Injection(1..Used(rb), InUse(rb))
  BY <1>2, <1>3 DEF Injection, IsInjective
<1>7. IsFiniteSet(1..Used(rb)) /\ Cardinality(1..Used(rb)) = Used(rb)
  BY <1>1, FS_Interval
<1> QED BY <1>5, <1>6, <1>7, FS_Surjection

LEMMA EmptyOrFull ==
  ASSUME NEW rb \in Ring
  PROVE  /\ rb_is_empty(rb) <=> Used(rb) = 0
         /\ rb_is_full(rb) <=> Used(rb) = RINGBUFFER_SIZE - 1
         /\ Used(rb_init_ringbuffer) = 0
<1>1. rb.begin \in Slot /\ rb.end \in Slot /\ Used(rb) = Steps(rb.begin, rb.end)
  BY RingTypes
<1>2. rb_is_empty(rb) <=> Used(rb) = 0
  BY <1>1, StepsSmall DEF rb_is_empty
<1>3. rb_is_full(rb) <=> Used(rb) = RINGBUFFER_SIZE - 1
  <2>1. Following(rb.end) = IF rb.end = RINGBUFFER_SIZE - 1 THEN 0 ELSE rb.end + 1
    BY <1>1, FollowingSlot
  <2>2. Used(rb) = IF rb.begin <= rb.end THEN rb.end - rb.begin
                   ELSE rb.end - rb.begin + RINGBUFFER_SIZE
    BY <1>1, StepsSmall
  <2> QED BY <1>1, <2>1, <2>2 DEF rb_is_full, Slot
<1>4. 0 \in Slot
  BY DEF Slot
<1> QED BY <1>2, <1>3, <1>4, StepsSmall DEF Used, Steps, rb_init_ringbuffer

\* A push takes a slot that was not in use, and brings the end a step nearer to
\* all others.
LEMMA RingPushed ==
  ASSUME NEW rb \in Ring, ~rb_is_full(rb)
  PROVE  /\ Used(rb_push_back(rb)) = Used(rb) + 1
         /\ rb.end \notin InUse(rb)
         /\ InUse(rb_push_back(rb)) = InUse(rb) \cup {rb.end}
         /\ \A s \in Slot \ {rb.end} :
              Steps(rb_push_back(rb).end, s) = Steps(rb.end, s) - 1
<1>1. PICK b \in Slot, e \in Slot, f \in Slot :
        b = rb.begin /\ e = rb.end /\ f = Following(e)
  BY RingTypes, FollowingSlot
<1>2. f = IF e = RINGBUFFER_SIZE - 1 THEN 0 ELSE e + 1
  BY <1>1, FollowingSlot
<1>3. /\ rb_push_back(rb) \in Ring
      /\ rb_push_back(rb).begin = b /\ rb_push_back(rb).end = f
  BY <1>1, RingTypes
<1>4. Used(rb) = Steps(b, e) /\ Used(rb_push_back(rb)) = Steps(b, f) /\ f # b
  BY <1>1, <1>3, RingTypes DEF rb_is_full
<1> DEFINE Far(i, j) == IF i <= j THEN j - i ELSE j - i + RINGBUFFER_SIZE
<1>5. Steps(b, f) = Steps(b, e) + 1
  <2>1. Steps(b, f) = Far(b, f) /\ Steps(b, e) = Far(b, e)
    BY StepsSmall
  <2> QED BY <1>2, <1>4, <2>1, SlotType
<1>6. ASSUME NEW s \in Slot
      PROVE  Steps(b, s) < Steps(b, e) + 1 <=> Steps(b, s) < Steps(b, e) \/ s = e
  <2>1. Steps(b, s) = Far(b, s) /\ Steps(b, e) = Far(b, e)
    BY StepsSmall
  <2> QED BY <2>1, SlotType
<1>7. ASSUME NEW s \in Slot \ {e} PROVE Steps(f, s) = Steps(e, s) - 1
  <2>1. Steps(f, s) = Far(f, s) /\ Steps(e, s) = Far(e, s)
    BY StepsSmall
  <2> QED BY <1>2, <2>1, SlotType
<1>8. /\ InUse(rb) = {s \in Slot : Steps(b, s) < Steps(b, e)}
      /\ InUse(rb_push_back(rb)) = {s \in Slot : Steps(b, s) < Steps(b, f)}
  BY <1>1, <1>3, <1>4, InUseIsNear
<1>9. Steps(b, e) \in Slot
  BY StepsSmall
<1> QED BY <1>1, <1>3, <1>4, <1>5, <1>6, <1>7, <1>8, <1>9 DEF Slot

\* A pop gives back the first slot, to which the end comes when all free slots
\* were taken.
LEMMA RingPopped ==
  ASSUME NEW rb \in Ring, ~rb_is_empty(rb)
  PROVE  /\ Used(rb_pop_front(rb)) = Used(rb) - 1 /\ Used(rb) > 0
         /\ rb.begin \in InUse(rb) /\ rb_pop_front(rb).end = rb.end
         /\ InUse(rb_pop_front(rb)) = InUse(rb) \ {rb.begin}
         /\ Steps(rb.end, rb.begin) = RINGBUFFER_SIZE - Used(rb)
<1>1. PICK b \in Slot, e \in Slot, f \in Slot :
        b = rb.begin /\ e = rb.end /\ f = Following(b)
  BY RingTypes, FollowingSlot
<1>2. f = IF b = RINGBUFFER_SIZE - 1 THEN 0 ELSE b + 1
  BY <1>1, FollowingSlot
<1>3. /\ rb_pop_front(rb) \in Ring
      /\ rb_pop_front(rb).begin = f /\ rb_pop_front(rb).end = e
  BY <1>1, RingTypes
<1>4. Used(rb) = Steps(b, e) /\ Used(rb_pop_front(rb)) = Steps(f, e) /\ e # b
  BY <1>1, <1>3, RingTypes DEF rb_is_empty
<1> DEFINE Far(i, j) == IF i <= j THEN j - i ELSE j - i + RINGBUFFER_SIZE
<1>5. Steps(f, e) = Steps(b, e) - 1 /\ Steps(b, e) > 0 /\ Steps(b, b) = 0
      /\ Steps(e, b) = RINGBUFFER_SIZE - Steps(b, e)
  <2>1. /\ Steps(f, e) = Far(f, e) /\ Steps(b, e) = Far(b, e)
        /\ Steps(b, b) = Far(b, b) /\ Steps(e, b) = Far(e, b)
    BY StepsSmall
  <2> QED BY <1>2, <1>4, <2>1, SlotType
<1>6. ASSUME NEW s \in Slot
      PROVE  Steps(f, s) < Steps(b, e) - 1 <=> Steps(b, s) < Steps(b, e) /\ s # b
  <2>1. /\ Steps(f, s) = Far(f, s) /\ Steps(b, s) = Far(b, s)
        /\ Steps(b, e) = Far(b, e)
    BY StepsSmall
  <2> QED BY <1>2, <1>4, <2>1, SlotType
<1>7. /\ InUse(rb) = {s \in Slot : Steps(b, s) < Steps(b, e)}
      /\ InUse(rb_pop_front(rb)) = {s \in Slot : Steps(f, s) < Steps(f, e)}
  BY <1>1, <1>3, <1>4, InUseIsNear
<1> QED BY <1>1, <1>3, <1>4, <1>5, <1>6, <1>7
=============================================================================
