-------------------------- MODULE LinkedListProofs --------------------------
(***************************************************************************)
(* The pointers of src/linkedlist.h stand for the sequences of ListOps,    *)
(* for any number of lists that share any number of entries.               *)
(***************************************************************************)
EXTENDS LinkedList, ListOpsProofs

USE LinkedListAssumption

\* What ll_sorted_insert() scans is not empty and does not contain the value.
InsertsNew ==
  scan # NULL /\ scan.op = "ll_sorted_insert" =>
    Unlinked(scan.value) /\ content[scan.list] # <<>>

ListInv == TypeOK /\ Represents /\ OneList /\ ScanInOrder /\ InsertsNew

\* Represents, for one list: from h through links to t.
Chain(h, t, links, c) ==
  /\ IF c = <<>> THEN h = NULL /\ t = NULL
     ELSE h = c[1] /\ t = c[Len(c)] /\ links[c[Len(c)]] = NULL
  /\ \A n \in 1..Len(c) - 1 : links[c[n]] = c[n + 1]

Links == [Entry -> Entry \cup {NULL, Deadbeef}]

LEMMA RepresentsChains ==
  Represents <=> \A l \in List : Chain(head[l], tail[l], next, content[l])
BY DEF Represents, Chain

LEMMA RepresentsChainsNext ==
  Represents' <=> \A l \in List : Chain(head'[l], tail'[l], next', content'[l])
BY DEF Represents, Chain

\* The elements of a sequence, and when it is empty.
LEMMA Elements ==
  ASSUME NEW c \in Seq(Entry)
  PROVE  /\ Len(c) \in Nat /\ DOMAIN c = 1..Len(c)
         /\ \A n \in 1..Len(c) : c[n] \in Entry /\ c[n] \in ToSet(c)
         /\ \A x \in ToSet(c) : \E n \in 1..Len(c) : c[n] = x
         /\ c = <<>> <=> Len(c) = 0
         /\ c = <<>> <=> ToSet(c) = {}
<1>1. /\ Len(c) \in Nat /\ DOMAIN c = 1..Len(c)
      /\ \A n \in 1..Len(c) : c[n] \in Entry
      /\ c = <<>> <=> Len(c) = 0
  BY LenProperties, ElementOfSeq, EmptySeq
<1>2. /\ \A n \in 1..Len(c) : c[n] \in ToSet(c)
      /\ \A x \in ToSet(c) : \E n \in 1..Len(c) : c[n] = x
  BY <1>1 DEF ToSet
<1>3. Len(c) # 0 => c[1] \in ToSet(c)
  BY <1>1, <1>2
<1>4. Len(c) = 0 => ToSet(c) = {}
  BY <1>1, <1>2
<1> QED BY <1>1, <1>2, <1>3, <1>4

\* Links of other entries do not matter.
LEMMA ChainFrame ==
  ASSUME NEW h, NEW t, NEW links, NEW links2, NEW c \in Seq(Entry),
         Chain(h, t, links, c), \A x \in ToSet(c) : links2[x] = links[x]
  PROVE  Chain(h, t, links2, c)
<1>1. \A n \in 1..Len(c) : links2[c[n]] = links[c[n]]
  BY Elements
<1>2. c # <<>> => Len(c) \in 1..Len(c)
  BY Elements
<1>3. \A n \in 1..Len(c) - 1 : n \in 1..Len(c)
  BY Elements
<1> QED BY <1>1, <1>2, <1>3 DEF Chain

\* A list is empty when its head is NULL.
LEMMA ChainHead ==
  ASSUME NEW h, NEW t, NEW links, NEW c \in Seq(Entry), Chain(h, t, links, c)
  PROVE  /\ h = NULL <=> c = <<>>
         /\ c # <<>> => h \in ToSet(c) /\ t \in ToSet(c) /\ h \in Entry /\ t \in Entry
<1>1. CASE c = <<>>
  BY <1>1 DEF Chain
<1>2. CASE c # <<>>
  <2>1. Len(c) \in Nat \ {0} /\ 1 \in 1..Len(c) /\ Len(c) \in 1..Len(c)
    BY <1>2, Elements
  <2> QED BY <1>2, <2>1, Elements DEF Chain
<1> QED BY <1>1, <1>2

LEMMA ChainPushBack ==
  ASSUME NEW h, NEW t, NEW links \in Links, NEW c \in Seq(Entry), NEW v \in Entry,
         Chain(h, t, links, c), IsInjective(c), v \notin ToSet(c)
  PROVE  Chain(IF h = NULL THEN v ELSE h, v,
               IF h = NULL THEN [links EXCEPT ![v] = NULL]
                           ELSE [links EXCEPT ![t] = v, ![v] = NULL],
               ll_push_back(c, v))
<1> DEFINE r == Append(c, v)
<1>1. /\ Len(c) \in Nat /\ r # <<>> /\ Len(r) = Len(c) + 1
      /\ \A n \in 1..Len(c) : r[n] = c[n]
      /\ r[Len(c) + 1] = v
  BY LenProperties, AppendProperties
<1> HIDE DEF r
<1>2. CASE c = <<>>
  <2>1. h = NULL /\ Len(c) = 0
    BY <1>2, ChainHead, Elements
  <2> QED BY <1>1, <2>1 DEF Chain, ll_push_back, r, Links
<1>3. CASE c # <<>>
  <2>1. /\ h # NULL /\ Len(c) \in Nat \ {0} /\ h = c[1] /\ t = c[Len(c)]
        /\ t \in Entry /\ t # v
    BY <1>3, ChainHead, Elements DEF Chain
  <2> DEFINE links2 == [links EXCEPT ![t] = v, ![v] = NULL]
  <2>2. /\ links2[v] = NULL /\ links2[t] = v
        /\ \A x \in Entry : x # v /\ x # t => links2[x] = links[x]
    BY <2>1 DEF Links
  <2> HIDE DEF links2
  <2>3. ASSUME NEW n \in 1..Len(r) - 1 PROVE links2[r[n]] = r[n + 1]
    <3>1. n \in 1..Len(c) /\ r[n] = c[n] /\ c[n] \in Entry /\ c[n] # v
      BY <1>1, Elements
    <3>2. CASE n = Len(c)
      BY <1>1, <2>1, <2>2, <3>1, <3>2
    <3>3. CASE n # Len(c)
      <4>1. n \in 1..Len(c) - 1 /\ n + 1 \in 1..Len(c) /\ Len(c) \in 1..Len(c)
        BY <3>1, <3>3, <1>1
      <4>2. c[n] # t
        BY <4>1, <3>1, <3>3, <2>1, Elements DEF IsInjective
      <4>3. links2[c[n]] = links[c[n]] /\ links[c[n]] = c[n + 1]
        BY <2>2, <3>1, <4>1, <4>2 DEF Chain
      <4> QED BY <1>1, <3>1, <4>1, <4>3
    <3> QED BY <3>2, <3>3
  <2>4. r[1] = h /\ r[Len(r)] = v
    BY <1>1, <2>1
  <2>5. Chain(h, v, links2, r)
    BY <1>1, <2>2, <2>3, <2>4 DEF Chain
  <2> QED BY <2>1, <2>5 DEF ll_push_back, r, links2
<1> QED BY <1>2, <1>3

LEMMA ChainPushFront ==
  ASSUME NEW h, NEW t, NEW links \in Links, NEW c \in Seq(Entry), NEW v \in Entry,
         Chain(h, t, links, c), v \notin ToSet(c)
  PROVE  Chain(v, IF h = NULL THEN v ELSE t, [links EXCEPT ![v] = h],
               ll_push_front(c, v))
<1> DEFINE r == <<v>> \o c
           links2 == [links EXCEPT ![v] = h]
<1>1. /\ Len(c) \in Nat /\ r # <<>> /\ Len(r) = Len(c) + 1 /\ r[1] = v
      /\ \A n \in 1..Len(c) : r[n + 1] = c[n]
  BY Elements
<1>2. /\ links2[v] = h
      /\ \A x \in ToSet(c) : links2[x] = links[x]
  <2>1. \A x \in ToSet(c) : x \in Entry /\ x # v
    BY Elements
  <2> QED BY <2>1 DEF Links
<1> HIDE DEF r, links2
<1>3. CASE c = <<>>
  <2>1. h = NULL /\ Len(c) = 0
    BY <1>3, ChainHead, Elements
  <2> QED BY <1>1, <1>2, <2>1 DEF Chain, ll_push_front, r, links2
<1>4. CASE c # <<>>
  <2>1. h # NULL /\ Len(c) \in Nat \ {0} /\ h = c[1] /\ t = c[Len(c)]
    BY <1>4, ChainHead, Elements DEF Chain
  <2>2. Chain(h, t, links2, c)
    BY <1>2, ChainFrame
  <2>3. ASSUME NEW n \in 1..Len(r) - 1 PROVE links2[r[n]] = r[n + 1]
    <3>1. CASE n = 1
      BY <1>1, <1>2, <2>1, <3>1
    <3>2. CASE n # 1
      <4>1. /\ n - 1 \in 1..Len(c) - 1 /\ n - 1 \in 1..Len(c) /\ n \in 1..Len(c)
            /\ n - 1 + 1 = n
        BY <1>1, <3>2
      <4>2. links2[c[n - 1]] = c[n]
        BY <2>2, <4>1 DEF Chain
      <4>3. r[n] = c[n - 1] /\ r[n + 1] = c[n]
        BY <1>1, <4>1
      <4> QED BY <4>2, <4>3
    <3> QED BY <3>1, <3>2
  <2>4. r[Len(r)] = t /\ links2[t] = NULL
    BY <1>1, <1>4, <2>1, <2>2 DEF Chain
  <2>5. Chain(v, t, links2, r)
    BY <1>1, <2>3, <2>4 DEF Chain
  <2> QED BY <2>1, <2>5 DEF ll_push_front, r, links2
<1> QED BY <1>3, <1>4

LEMMA ChainPopFront ==
  ASSUME NEW h, NEW t, NEW links \in Links, NEW c \in Seq(Entry),
         Chain(h, t, links, c), IsInjective(c), h # NULL
  PROVE  /\ Chain(links[h], IF links[h] = NULL THEN NULL ELSE t, links,
                  ll_pop_front(c))
         /\ links[h] \in Entry \cup {NULL}
<1> DEFINE r == Tail(c)
<1>1. c # <<>> /\ Len(c) \in Nat \ {0} /\ h = c[1] /\ h \in Entry
  BY ChainHead, Elements DEF Chain
<1>2. r \in Seq(Entry) /\ Len(r) = Len(c) - 1 /\ \A n \in 1..Len(r) : r[n] = c[n + 1]
  BY <1>1, HeadTailProperties
<1> HIDE DEF r
<1>3. CASE Len(c) = 1
  <2>1. links[h] = NULL /\ Len(r) = 0
    BY <1>1, <1>2, <1>3 DEF Chain
  <2>2. r = <<>>
    BY <2>1, <1>2, EmptySeq
  <2> QED BY <2>1, <2>2 DEF Chain, ll_pop_front, r
<1>4. CASE Len(c) # 1
  <2>1. 1 \in 1..Len(c) - 1 /\ 2 \in 1..Len(c) /\ 1 \in 1..Len(r) /\ r # <<>>
    BY <1>1, <1>2, <1>4, EmptySeq
  <2>2. links[h] = c[2] /\ c[2] \in Entry
    BY <1>1, <2>1, Elements DEF Chain
  <2>3. r[1] = c[2] /\ r[Len(r)] = c[Len(c)]
    BY <1>1, <1>2, <2>1
  <2>4. t = c[Len(c)] /\ links[c[Len(c)]] = NULL
    BY <1>1 DEF Chain
  <2>5. ASSUME NEW n \in 1..Len(r) - 1 PROVE links[r[n]] = r[n + 1]
    <3>1. /\ n + 1 \in 1..Len(c) - 1 /\ n \in 1..Len(r) /\ n + 1 \in 1..Len(r)
          /\ n + 1 + 1 = n + 2
      BY <1>1, <1>2
    <3>2. links[c[n + 1]] = c[n + 1 + 1]
      BY <3>1 DEF Chain
    <3> QED BY <3>1, <3>2, <1>2
  <2>6. links[h] # NULL
    BY <2>2
  <2>7. Chain(links[h], t, links, r)
    BY <2>1, <2>2, <2>3, <2>4, <2>5 DEF Chain
  <2> QED BY <2>2, <2>6, <2>7 DEF ll_pop_front, r
<1> QED BY <1>3, <1>4

\* The entries that a scan is between, after it has passed n of them.
Before(c, n) == IF n = 0 THEN NULL ELSE c[n]
After(c, n) == IF n = Len(c) THEN NULL ELSE c[n + 1]

\* An entry of a list has the next one, or NULL, as its link.
LEMMA ChainNext ==
  ASSUME NEW h, NEW t, NEW links, NEW c \in Seq(Entry), Chain(h, t, links, c),
         NEW n \in 1..Len(c)
  PROVE  links[c[n]] = After(c, n)
<1>1. Len(c) \in Nat \ {0} /\ c # <<>>
  BY Elements
<1>2. CASE n = Len(c)
  BY <1>1, <1>2 DEF Chain, After
<1>3. CASE n # Len(c)
  <2>1. n \in 1..Len(c) - 1
    BY <1>1, <1>3
  <2> QED BY <1>3, <2>1 DEF Chain, After
<1> QED BY <1>2, <1>3

LEMMA RemoveIsRemoveAt ==
  ASSUME NEW c \in Seq(Entry), IsInjective(c), NEW n \in 1..Len(c)
  PROVE  ll_remove(c, c[n]) = RemoveAt(c, n)
<1>1. Len(c) \in Nat /\ DOMAIN c = 1..Len(c)
  BY LenProperties
<1>2. {k \in 1..Len(c) : c[k] = c[n]} = {n}
  BY <1>1 DEF IsInjective
<1>3. Min({n}) = n
  BY <1>1 DEF Min
<1> QED BY <1>2, <1>3 DEF ll_remove, RemoveFirst, SelectInSeq

LEMMA ChainRemove ==
  ASSUME NEW h, NEW t, NEW links \in Links, NEW c \in Seq(Entry),
         Chain(h, t, links, c), IsInjective(c), NEW n \in 0..Len(c) - 1,
         NEW links2,
         n # 0 => links2[Before(c, n)] = links[c[n + 1]],
         \A x \in Entry : n = 0 \/ x # Before(c, n) => links2[x] = links[x]
  PROVE  Chain(IF c[n + 1] = h THEN links[c[n + 1]] ELSE h,
               IF c[n + 1] = t THEN Before(c, n) ELSE t, links2,
               ll_remove(c, c[n + 1]))
<1> DEFINE r == RemoveAt(c, n + 1)
           i == c[n + 1]
           p == Before(c, n)
           h2 == IF i = h THEN links[i] ELSE h
           t2 == IF i = t THEN p ELSE t
<1>1. /\ Len(c) \in Nat \ {0} /\ c # <<>> /\ n + 1 \in 1..Len(c)
      /\ h = c[1] /\ t = c[Len(c)]
      /\ links[i] = After(c, n + 1)
  <2>1. Len(c) \in Nat \ {0} /\ c # <<>> /\ n + 1 \in 1..Len(c)
    BY Elements
  <2>2. h = c[1] /\ t = c[Len(c)]
    BY <2>1 DEF Chain
  <2>3. links[c[n + 1]] = After(c, n + 1)
    BY <2>1, ChainNext
  <2> QED BY <2>1, <2>2, <2>3
<1>2. /\ r \in Seq(Entry) /\ Len(r) = Len(c) - 1
      /\ \A j \in 1..(Len(c) - 1) : r[j] = IF j < n + 1 THEN c[j] ELSE c[j + 1]
  BY <1>1, RemoveAtProps
<1>3. ll_remove(c, i) = r
  BY <1>1, RemoveIsRemoveAt
<1>4. \A j, k \in 1..Len(c) : c[j] = c[k] <=> j = k
  BY Elements DEF IsInjective
<1>5. p # NULL <=> n # 0
  BY <1>1, Elements DEF Before
<1>6. /\ n # 0 => links2[c[n]] = After(c, n + 1)
      /\ \A j \in 1..Len(c) : j # n => links2[c[j]] = After(c, j)
  <2>1. \A j \in 1..Len(c) : links[c[j]] = After(c, j)
    BY ChainNext
  <2>2. CASE n = 0
    BY <2>1, <2>2, Elements
  <2>3. CASE n # 0
    <3>1. p = c[n] /\ p \in Entry /\ n \in 1..Len(c)
      BY <2>3, <1>1, Elements DEF Before
    <3>2. \A j \in 1..Len(c) : j # n => c[j] # p /\ c[j] \in Entry
      BY <3>1, <1>4, Elements
    <3>3. /\ links2[p] = links[i]
          /\ \A j \in 1..Len(c) : j # n => links2[c[j]] = links[c[j]]
      BY <2>3, <3>2
    <3> QED BY <3>1, <3>3, <2>1, <1>1
  <2> QED BY <2>2, <2>3
<1> HIDE DEF r
<1>7. CASE Len(c) = 1
  <2>1. n = 0 /\ r = <<>> /\ i = h /\ i = t
    BY <1>1, <1>2, <1>7, EmptySeq
  <2>2. links[i] = NULL /\ p = NULL
    BY <1>1, <1>7, <2>1 DEF After, Before
  <2>3. Len(r) = 0
    BY <1>1, <1>2, <1>7
  <2> QED BY <1>3, <2>1, <2>2, <2>3 DEF Chain
<1>8. CASE Len(c) # 1
  <2>1. r # <<>> /\ Len(r) \in Nat \ {0}
    BY <1>1, <1>2, <1>8, EmptySeq
  <2>2. r[1] = h2
    <3>1. i = h <=> n = 0
      BY <1>1, <1>4
    <3> QED BY <3>1, <1>1, <1>2, <1>8 DEF After
  <2>3. r[Len(r)] = t2 /\ links2[r[Len(r)]] = NULL
    <3>1. i = t <=> n + 1 = Len(c)
      BY <1>1, <1>4
    <3>2. CASE n + 1 = Len(c)
      <4>1. Len(r) = n /\ n # 0 /\ r[n] = c[n] /\ p = c[n]
        BY <3>2, <1>1, <1>2, <1>8 DEF Before
      <4> QED BY <3>1, <3>2, <4>1, <1>6 DEF After
    <3>3. CASE n + 1 # Len(c)
      <4>1. /\ Len(r) \in 1..(Len(c) - 1) /\ ~(Len(r) < n + 1) /\ Len(r) + 1 = Len(c)
            /\ Len(c) # n
        BY <3>3, <1>1, <1>2, <1>8
      <4>2. r[Len(r)] = c[Len(c)]
        BY <4>1, <1>2
      <4>3. links2[c[Len(c)]] = After(c, Len(c))
        BY <4>1, <1>1, <1>6
      <4> QED BY <3>1, <3>3, <4>2, <4>3, <1>1 DEF After
    <3> QED BY <3>2, <3>3
  <2>4. ASSUME NEW j \in 1..Len(r) - 1 PROVE links2[r[j]] = r[j + 1]
    <3>0. j \in 1..(Len(c) - 1) /\ j + 1 \in 1..(Len(c) - 1) /\ j + 1 # Len(c)
      BY <1>1, <1>2
    <3>1. CASE j < n
      <4>1. r[j] = c[j] /\ r[j + 1] = c[j + 1] /\ j # n /\ j # Len(c) /\ j \in 1..Len(c)
        BY <3>0, <3>1, <1>1, <1>2
      <4> QED BY <4>1, <1>6 DEF After
    <3>2. CASE j = n
      <4>1. r[j] = c[n] /\ r[j + 1] = c[n + 1 + 1] /\ n # 0 /\ n + 1 # Len(c)
        BY <3>0, <3>2, <1>1, <1>2
      <4> QED BY <4>1, <1>6 DEF After
    <3>3. CASE j > n
      <4>1. /\ r[j] = c[j + 1] /\ r[j + 1] = c[j + 1 + 1]
            /\ j + 1 \in 1..Len(c) /\ j + 1 # n
        BY <3>0, <3>3, <1>1, <1>2
      <4> QED BY <3>0, <4>1, <1>6 DEF After
    <3> QED BY <3>0, <3>1, <3>2, <3>3
  <2>5. Chain(h2, t2, links2, r)
    BY <2>1, <2>2, <2>3, <2>4 DEF Chain
  <2> QED BY <1>3, <2>5
<1> QED BY <1>7, <1>8

\* The scan of ll_sorted_insert() ends at the position ll_sorted_insert of
\* ListOps names.
LEMMA InsertPositionIs ==
  ASSUME NEW c \in Seq(Entry), NEW k \in [Entry -> Int], NEW v \in Entry,
         NEW n \in 0..Len(c),
         \A m \in 1..n : k[c[m]] < k[v],
         n # Len(c) => k[v] <= k[c[n + 1]]
  PROVE  ll_sorted_insert(c, v, k) = InsertAt(c, n + 1, v)
<1> DEFINE notLower == {m \in 1..Len(c) : k[v] <= k[c[m]]}
<1>1. Len(c) \in Nat /\ \A m \in 1..Len(c) : c[m] \in Entry
  BY Elements
<1>2. \A m \in notLower : n + 1 <= m
  BY <1>1
<1>3. CASE n = Len(c)
  <2>1. notLower = {}
    BY <1>1, <1>2, <1>3
  <2> QED BY <1>3, <2>1 DEF ll_sorted_insert, InsertPosition
<1>4. CASE n # Len(c)
  <2>1. n + 1 \in notLower
    BY <1>1, <1>4
  <2>2. notLower \in SUBSET (0..Len(c))
    BY <1>1
  <2>3. Min(notLower) \in notLower /\ Min(notLower) <= n + 1
    BY <1>1, <2>1, <2>2, MinNat
  <2>4. Min(notLower) = n + 1
    <3>1. n + 1 <= Min(notLower) /\ Min(notLower) \in Nat
      BY <1>2, <2>2, <2>3
    <3> QED BY <3>1, <2>3
  <2> QED BY <2>1, <2>4 DEF ll_sorted_insert, InsertPosition
<1> QED BY <1>3, <1>4

LEMMA ChainInsert ==
  ASSUME NEW h, NEW t, NEW links \in Links, NEW c \in Seq(Entry), NEW v \in Entry,
         Chain(h, t, links, c), IsInjective(c), v \notin ToSet(c), c # <<>>,
         NEW n \in 0..Len(c), NEW i, NEW p, i = After(c, n), p = Before(c, n)
  PROVE  Chain(IF p = NULL THEN v ELSE h, IF i = NULL THEN v ELSE t,
               IF p = NULL THEN [links EXCEPT ![v] = i]
                           ELSE [links EXCEPT ![p] = v, ![v] = i],
               InsertAt(c, n + 1, v))
<1> DEFINE r == InsertAt(c, n + 1, v)
           links2 == IF p = NULL THEN [links EXCEPT ![v] = i]
                                 ELSE [links EXCEPT ![p] = v, ![v] = i]
<1>1. /\ Len(c) \in Nat \ {0}
      /\ h = c[1] /\ t = c[Len(c)]
  BY Elements DEF Chain
<1>2. /\ r \in Seq(Entry) /\ Len(r) = Len(c) + 1
      /\ \A j \in 1..(Len(c) + 1) :
           r[j] = IF j < n + 1 THEN c[j] ELSE IF j = n + 1 THEN v ELSE c[j - 1]
  BY <1>1, InsertAtProps
<1>3. \A j, k \in 1..Len(c) : c[j] = c[k] <=> j = k
  BY Elements DEF IsInjective
<1>4. p = NULL <=> n = 0
  BY <1>1, Elements DEF Before
<1>5. i = NULL <=> n = Len(c)
  BY <1>1, Elements DEF After
<1>6. /\ links2[v] = i
      /\ n # 0 => links2[c[n]] = v
      /\ \A j \in 1..Len(c) : j # n => links2[c[j]] = After(c, j)
  <2>1. \A j \in 1..Len(c) : links[c[j]] = After(c, j)
    BY ChainNext
  <2>2. \A j \in 1..Len(c) : c[j] \in Entry /\ c[j] # v
    BY Elements
  <2>3. CASE n = 0
    <3>1. links2 = [links EXCEPT ![v] = i]
      BY <2>3, <1>4
    <3> HIDE DEF links2
    <3> QED BY <2>1, <2>2, <2>3, <3>1 DEF Links
  <2>4. CASE n # 0
    <3>1. links2 = [links EXCEPT ![p] = v, ![v] = i]
      BY <2>4, <1>4
    <3>2. p = c[n] /\ p \in Entry /\ n \in 1..Len(c) /\ p # v
      BY <2>4, <1>1, <2>2 DEF Before
    <3>3. \A j \in 1..Len(c) : j # n => c[j] # p
      BY <3>2, <1>3
    <3> HIDE DEF links2
    <3>4. /\ links2[v] = i /\ links2[p] = v
          /\ \A j \in 1..Len(c) : j # n => links2[c[j]] = links[c[j]]
      BY <2>2, <3>1, <3>2, <3>3 DEF Links
    <3> QED BY <3>2, <3>4, <2>1
  <2> QED BY <2>3, <2>4
<1> HIDE DEF r, links2
<1>7. r # <<>>
  BY <1>1, <1>2, EmptySeq
<1>8. r[1] = IF p = NULL THEN v ELSE h
  BY <1>1, <1>2, <1>4
<1>9. r[Len(r)] = (IF i = NULL THEN v ELSE t) /\ links2[r[Len(r)]] = NULL
  <2>1. CASE n = Len(c)
    <3>1. r[Len(r)] = v /\ i = NULL
      BY <2>1, <1>1, <1>2, <1>5
    <3> QED BY <3>1, <1>6
  <2>2. CASE n # Len(c)
    <3>1. r[Len(r)] = c[Len(c)] /\ i # NULL
      BY <2>2, <1>1, <1>2, <1>5
    <3>2. links2[c[Len(c)]] = NULL
      BY <2>2, <1>1, <1>6 DEF After
    <3> QED BY <3>1, <3>2, <1>1
  <2> QED BY <2>1, <2>2
<1>10. ASSUME NEW j \in 1..Len(r) - 1 PROVE links2[r[j]] = r[j + 1]
  <2>0. j \in 1..Len(c)
    BY <1>1, <1>2
  <2>1. CASE j < n
    <3>1. r[j] = c[j] /\ r[j + 1] = c[j + 1] /\ j # n /\ j # Len(c)
      BY <2>0, <2>1, <1>1, <1>2
    <3> QED BY <2>0, <3>1, <1>6 DEF After
  <2>2. CASE j = n
    <3>1. r[j] = c[n] /\ r[j + 1] = v /\ n # 0
      BY <2>0, <2>2, <1>1, <1>2
    <3> QED BY <3>1, <1>6
  <2>3. CASE j = n + 1
    <3>1. r[j] = v /\ r[j + 1] = c[n + 1] /\ n # Len(c)
      BY <2>0, <2>3, <1>1, <1>2
    <3> QED BY <3>1, <1>6 DEF After
  <2>4. CASE j > n + 1
    <3>1. /\ r[j] = c[j - 1] /\ r[j + 1] = c[j] /\ j - 1 \in 1..Len(c)
          /\ j - 1 # n /\ j - 1 # Len(c) /\ j - 1 + 1 = j
      BY <2>0, <2>4, <1>1, <1>2
    <3> QED BY <3>1, <1>6 DEF After
  <2> QED BY <2>0, <2>1, <2>2, <2>3, <2>4
<1>11. Chain(IF p = NULL THEN v ELSE h, IF i = NULL THEN v ELSE t, links2, r)
  BY <1>7, <1>8, <1>9, <1>10 DEF Chain
<1> QED BY <1>11 DEF r, links2
-----------------------------------------------------------------------------
\* What a step has to do to one list for Represents and OneList: the others do
\* not see it, as it touches no link of theirs.
LEMMA OneListChanged ==
  ASSUME ListInv, NEW l \in List, next' \in Links,
         \A m \in List : m # l =>
           head'[m] = head[m] /\ tail'[m] = tail[m] /\ content'[m] = content[m],
         \A x \in Entry : x \in ToSet(content[l]) \/ Unlinked(x) \/ next'[x] = next[x],
         Chain(head'[l], tail'[l], next', content'[l]),
         IsInjective(content'[l]),
         \A x \in ToSet(content'[l]) : x \in ToSet(content[l]) \/ Unlinked(x)
  PROVE  Represents' /\ OneList'
<1>1. \A m \in List : content[m] \in Seq(Entry)
  BY DEF ListInv, TypeOK
<1>2. \A m \in List : m # l => ToSet(content'[l]) \cap ToSet(content'[m]) = {}
  BY DEF ListInv, OneList, Unlinked
<1>3. ASSUME NEW m \in List, m # l PROVE Chain(head'[m], tail'[m], next', content'[m])
  <2>1. \A x \in ToSet(content[m]) : next'[x] = next[x]
    <3>1. \A x \in ToSet(content[m]) : x \in Entry
      BY <1>1, Elements
    <3>2. \A x \in ToSet(content[m]) : x \notin ToSet(content[l]) /\ ~Unlinked(x)
      BY <1>3 DEF ListInv, OneList, Unlinked
    <3> QED BY <3>1, <3>2
  <2>2. Chain(head[m], tail[m], next, content[m])
    BY RepresentsChains DEF ListInv
  <2> QED BY <1>1, <1>3, <2>1, <2>2, ChainFrame
<1>4. Represents'
  BY <1>3, RepresentsChainsNext
<1>5. \A m \in List : IsInjective(content'[m])
  BY DEF ListInv, OneList
<1>6. \A m, k \in List : m # k => ToSet(content'[m]) \cap ToSet(content'[k]) = {}
  <2>1. \A m, k \in List : m # k /\ m # l /\ k # l =>
          ToSet(content'[m]) \cap ToSet(content'[k]) = {}
    BY DEF ListInv, OneList
  <2> QED BY <1>2, <2>1
<1> QED BY <1>4, <1>5, <1>6 DEF OneList

\* The facts on one list that every step starts from.
LEMMA ListFacts ==
  ASSUME ListInv, NEW l \in List
  PROVE  /\ content[l] \in Seq(Entry) /\ IsInjective(content[l])
         /\ Chain(head[l], tail[l], next, content[l])
         /\ next \in Links
         /\ head[l] = NULL <=> content[l] = <<>>
         /\ head[l] \in Entry \cup {NULL} /\ tail[l] \in Entry \cup {NULL}
<1>1. /\ content[l] \in Seq(Entry) /\ IsInjective(content[l])
      /\ Chain(head[l], tail[l], next, content[l])
      /\ next \in Links
      /\ head[l] \in Entry \cup {NULL} /\ tail[l] \in Entry \cup {NULL}
  BY RepresentsChains DEF ListInv, TypeOK, OneList, Links
<1> QED BY <1>1, ChainHead

\* Without a scan, what is said of scans holds.
LEMMA NoScan ==
  scan' = NULL => ScanInOrder' /\ InsertsNew'
BY DEF ScanInOrder, InsertsNew

LEMMA Step_push_back ==
  ASSUME ListInv, NEW l \in List, NEW v \in Entry, push_back(l, v)
  PROVE  ListInv'
<1> DEFINE c == content[l]
<1>1. /\ c \in Seq(Entry) /\ IsInjective(c) /\ Chain(head[l], tail[l], next, c)
      /\ next \in Links /\ (head[l] = NULL <=> c = <<>>)
      /\ head[l] \in Entry \cup {NULL} /\ tail[l] \in Entry \cup {NULL}
  BY ListFacts
<1>2. v \notin ToSet(c) /\ Unlinked(v) /\ scan' = NULL /\ content'[l] = ll_push_back(c, v)
  BY DEF push_back, Unlinked, ListInv, TypeOK
<1>3. /\ ll_push_back(c, v) \in Seq(Entry)
      /\ ToSet(ll_push_back(c, v)) = ToSet(c) \cup {v}
      /\ IsInjective(ll_push_back(c, v))
  <2>1. c \in Seq(Entry) /\ IsInjective(c) /\ v \in Entry /\ v \notin ToSet(c)
    BY <1>1, <1>2
  <2> HIDE DEF c
  <2> QED BY <2>1, PushBackProps
<1>4. head[l] # NULL => tail[l] \in ToSet(c) /\ tail[l] \in Entry
  BY <1>1, ChainHead
<1>5. TypeOK'
  BY <1>3, <1>4 DEF push_back, ListInv, TypeOK
<1>6. Chain(head'[l], tail'[l], next', content'[l])
  <2>1. /\ head'[l] = IF head[l] = NULL THEN v ELSE head[l]
        /\ tail'[l] = v
        /\ next' = IF head[l] = NULL THEN [next EXCEPT ![v] = NULL]
                                     ELSE [next EXCEPT ![tail[l]] = v, ![v] = NULL]
    BY DEF push_back, ListInv, TypeOK
  <2>2. /\ c \in Seq(Entry) /\ IsInjective(c) /\ v \notin ToSet(c) /\ next \in Links
        /\ Chain(head[l], tail[l], next, c)
    BY <1>1, <1>2
  <2> HIDE DEF c
  <2>3. Chain(IF head[l] = NULL THEN v ELSE head[l], v,
              IF head[l] = NULL THEN [next EXCEPT ![v] = NULL]
                                ELSE [next EXCEPT ![tail[l]] = v, ![v] = NULL],
              ll_push_back(c, v))
    BY <2>2, ChainPushBack
  <2> QED BY <1>2, <2>1, <2>3
<1>7. \A x \in Entry : x \in ToSet(c) \/ Unlinked(x) \/ next'[x] = next[x]
  BY <1>2, <1>4 DEF push_back, ListInv, TypeOK
<1>8. \A m \in List : m # l =>
        head'[m] = head[m] /\ tail'[m] = tail[m] /\ content'[m] = content[m]
  BY DEF push_back, ListInv, TypeOK
<1>9. next' \in Links
  BY <1>5 DEF TypeOK, Links
<1>10. Represents' /\ OneList'
  BY <1>2, <1>3, <1>6, <1>7, <1>8, <1>9, OneListChanged
<1> QED BY <1>2, <1>5, <1>10, NoScan DEF ListInv

LEMMA Step_push_front ==
  ASSUME ListInv, NEW l \in List, NEW v \in Entry, push_front(l, v)
  PROVE  ListInv'
<1> DEFINE c == content[l]
<1>1. /\ c \in Seq(Entry) /\ IsInjective(c) /\ Chain(head[l], tail[l], next, c)
      /\ next \in Links
      /\ head[l] \in Entry \cup {NULL} /\ tail[l] \in Entry \cup {NULL}
  BY ListFacts
<1>2. v \notin ToSet(c) /\ Unlinked(v) /\ scan' = NULL /\ content'[l] = ll_push_front(c, v)
  BY DEF push_front, Unlinked, ListInv, TypeOK
<1>3. /\ ll_push_front(c, v) \in Seq(Entry)
      /\ ToSet(ll_push_front(c, v)) = ToSet(c) \cup {v}
      /\ IsInjective(ll_push_front(c, v))
  <2>1. c \in Seq(Entry) /\ IsInjective(c) /\ v \in Entry /\ v \notin ToSet(c)
    BY <1>1, <1>2
  <2> HIDE DEF c
  <2> QED BY <2>1, PushFrontProps
<1>5. TypeOK'
  BY <1>1, <1>3 DEF push_front, ListInv, TypeOK
<1>6. Chain(head'[l], tail'[l], next', content'[l])
  <2>1. /\ head'[l] = v /\ tail'[l] = IF head[l] = NULL THEN v ELSE tail[l]
        /\ next' = [next EXCEPT ![v] = head[l]]
    BY DEF push_front, ListInv, TypeOK
  <2>2. /\ c \in Seq(Entry) /\ v \notin ToSet(c) /\ next \in Links
        /\ Chain(head[l], tail[l], next, c)
    BY <1>1, <1>2
  <2> HIDE DEF c
  <2>3. Chain(v, IF head[l] = NULL THEN v ELSE tail[l], [next EXCEPT ![v] = head[l]],
              ll_push_front(c, v))
    BY <2>2, ChainPushFront
  <2> QED BY <1>2, <2>1, <2>3
<1>7. \A x \in Entry : x \in ToSet(c) \/ Unlinked(x) \/ next'[x] = next[x]
  BY <1>2 DEF push_front, ListInv, TypeOK
<1>8. \A m \in List : m # l =>
        head'[m] = head[m] /\ tail'[m] = tail[m] /\ content'[m] = content[m]
  BY DEF push_front, ListInv, TypeOK
<1>9. next' \in Links
  BY <1>5 DEF TypeOK, Links
<1>10. Represents' /\ OneList'
  BY <1>2, <1>3, <1>6, <1>7, <1>8, <1>9, OneListChanged
<1> QED BY <1>2, <1>5, <1>10, NoScan DEF ListInv

\* The link of an entry that is no longer listed does not matter.
LEMMA PoisonedProps ==
  ASSUME NEW links \in Links, NEW v \in Entry
  PROVE  /\ Poisoned(links, v) \in Links
         /\ \A x \in Entry : x # v => Poisoned(links, v)[x] = links[x]
BY DEF Poisoned, Links

LEMMA Step_pop_front ==
  ASSUME ListInv, NEW l \in List, pop_front(l)
  PROVE  ListInv'
<1> DEFINE c == content[l]
           h == head[l]
<1>1. /\ c \in Seq(Entry) /\ IsInjective(c) /\ Chain(h, tail[l], next, c)
      /\ next \in Links /\ (h = NULL <=> c = <<>>)
      /\ h \in Entry \cup {NULL} /\ tail[l] \in Entry \cup {NULL}
  BY ListFacts
<1>2. h # NULL /\ h \in Entry /\ scan' = NULL /\ content'[l] = ll_pop_front(c)
  BY <1>1 DEF pop_front, ListInv, TypeOK
<1>3. /\ ll_pop_front(c) \in Seq(Entry)
      /\ ToSet(c) = ToSet(ll_pop_front(c)) \cup {Head(c)}
      /\ IsInjective(ll_pop_front(c)) /\ Head(c) \notin ToSet(ll_pop_front(c))
  BY <1>1, <1>2, PopFrontProps
<1>4. h = Head(c)
  BY <1>1, <1>2 DEF Chain
<1>5. /\ Chain(next[h], IF next[h] = NULL THEN NULL ELSE tail[l], next, ll_pop_front(c))
      /\ next[h] \in Entry \cup {NULL}
  <2> HIDE DEF c, h
  <2> QED BY <1>1, <1>2, ChainPopFront
<1>6. /\ next' \in Links
      /\ \A x \in Entry : x # h => next'[x] = next[x]
  BY <1>1, <1>2, PoisonedProps DEF pop_front
<1>7. TypeOK'
  BY <1>2, <1>3, <1>5, <1>6 DEF pop_front, ListInv, TypeOK, Links
<1>8. Chain(head'[l], tail'[l], next', content'[l])
  <2>1. head'[l] = next[h] /\ tail'[l] = IF next[h] = NULL THEN NULL ELSE tail[l]
    BY DEF pop_front, ListInv, TypeOK
  <2>2. \A x \in ToSet(ll_pop_front(c)) : next'[x] = next[x]
    BY <1>3, <1>4, <1>6, Elements
  <2> HIDE DEF c, h
  <2> QED BY <1>2, <1>3, <1>5, <2>1, <2>2, ChainFrame
<1>9. \A m \in List : m # l =>
        head'[m] = head[m] /\ tail'[m] = tail[m] /\ content'[m] = content[m]
  BY DEF pop_front, ListInv, TypeOK
<1>10. Represents' /\ OneList'
  BY <1>2, <1>3, <1>4, <1>6, <1>8, <1>9, OneListChanged
<1> QED BY <1>2, <1>7, <1>10, NoScan DEF ListInv

LEMMA Step_set_key ==
  ASSUME ListInv, NEW v \in Entry, NEW k \in Key, set_key(v, k)
  PROVE  ListInv'
<1>1. scan' = NULL
  BY DEF set_key
<1> QED BY <1>1, NoScan DEF set_key, ListInv, TypeOK, Represents, OneList
-----------------------------------------------------------------------------
\* The start of a scan: nothing is passed yet.
LEMMA ScanStarts ==
  ASSUME ListInv, NEW l \in List, NEW v \in Entry, NEW op,
         op \in {"ll_remove", "ll_sorted_insert"},
         scan' = [op |-> op, list |-> l, value |-> v, i |-> head[l], p |-> NULL],
         UNCHANGED <<head, tail, next, key, build, content>>
  PROVE  TypeOK' /\ Represents' /\ OneList' /\ ScanInOrder'
<1> DEFINE c == content[l]
<1>1. /\ c \in Seq(Entry) /\ Chain(head[l], tail[l], next, c)
      /\ head[l] \in Entry \cup {NULL}
  BY ListFacts
<1>2. head[l] = IF 0 = Len(c) THEN NULL ELSE c[0 + 1]
  BY <1>1, Elements DEF Chain
<1>3. 0 \in 0..Len(content'[scan'.list]) /\ content'[scan'.list] = c
  BY <1>1, Elements
<1>4. Passed(c, 0)'
  BY <1>2 DEF Passed
<1>5. Passed(content[scan.list], 0)'
  BY <1>3, <1>4
<1>6. ScanInOrder'
  BY <1>3, <1>5 DEF ScanInOrder
<1>7. scan' \in Scan
  BY <1>1 DEF Scan
<1>8. TypeOK'
  BY <1>7 DEF ListInv, TypeOK
<1> QED BY <1>6, <1>8 DEF ListInv, Represents, OneList

LEMMA Step_remove ==
  ASSUME ListInv, NEW l \in List, NEW v \in Entry, remove(l, v)
  PROVE  ListInv'
<1>1. TypeOK' /\ Represents' /\ OneList' /\ ScanInOrder'
  BY ScanStarts DEF remove
<1>2. InsertsNew'
  BY DEF remove, InsertsNew
<1> QED BY <1>1, <1>2 DEF ListInv

LEMMA Step_sorted_insert ==
  ASSUME ListInv, NEW l \in List, NEW v \in Entry, sorted_insert(l, v)
  PROVE  ListInv'
<1>1. TypeOK' /\ Represents' /\ OneList' /\ ScanInOrder'
  BY ScanStarts DEF sorted_insert
<1>2. content[l] # <<>> /\ Unlinked(v)
  BY ListFacts DEF sorted_insert
<1>3. InsertsNew'
  BY <1>2 DEF sorted_insert, InsertsNew, Unlinked
<1> QED BY <1>1, <1>3 DEF ListInv

\* Into an empty list, ll_sorted_insert() does what ll_push_back() does.
LEMMA Step_sorted_insert_empty ==
  ASSUME ListInv, NEW l \in List, NEW v \in Entry, sorted_insert_empty(l, v)
  PROVE  ListInv'
<1>1. content[l] = <<>> /\ head[l] = NULL /\ content[l] \in Seq(Entry)
  BY ListFacts DEF sorted_insert_empty
<1>2. ll_sorted_insert(<<>>, v, key) = ll_push_back(<<>>, v)
  <2>1. <<>> \in Seq(Entry) /\ Len(<<>>) = 0
    BY EmptySeq
  <2>2. InsertPosition(<<>>, v, key) = 1
    BY <2>1 DEF InsertPosition
  <2>3. SubSeq(<<>>, 1, 0) = <<>>
    BY <2>1
  <2>4. InsertAt(<<>>, 1, v) = <<v>>
    <3>1. /\ <<>> \o <<v>> = <<v>> /\ <<v>> \o <<>> = <<v>>
          /\ SubSeq(<<>>, 1, 1 - 1) = <<>> /\ SubSeq(<<>>, 1, Len(<<>>)) = <<>>
      BY <2>1, <2>3
    <3> QED BY <3>1, Zenon DEF InsertAt
  <2> QED BY <2>2, <2>4 DEF ll_sorted_insert, ll_push_back
<1>3. push_back(l, v)
  BY <1>1, <1>2 DEF sorted_insert_empty, push_back, ListInv, TypeOK
<1> QED BY <1>3, Step_push_back

\* A scan, and where it is.
LEMMA ScanFacts ==
  ASSUME ListInv, scan # NULL
  PROVE  /\ scan \in Scan /\ scan.list \in List /\ scan.value \in Entry
         /\ \E n \in 0..Len(content[scan.list]) :
              /\ Passed(content[scan.list], n)
              /\ scan.i = After(content[scan.list], n)
              /\ scan.p = Before(content[scan.list], n)
              /\ scan.i # NULL => /\ n + 1 \in 1..Len(content[scan.list])
                                  /\ scan.i = content[scan.list][n + 1]
                                  /\ scan.i \in Entry
              /\ scan.i = NULL => n = Len(content[scan.list])
<1>1. scan \in Scan /\ scan.list \in List /\ scan.value \in Entry
  BY DEF ListInv, TypeOK, Scan
<1> DEFINE c == content[scan.list]
<1>2. c \in Seq(Entry)
  BY <1>1, ListFacts
<1>3. PICK n \in 0..Len(c) : Passed(c, n)
  BY DEF ListInv, ScanInOrder
<1>4. scan.i = After(c, n) /\ scan.p = Before(c, n)
  BY <1>3 DEF Passed, After, Before
<1>5. n # Len(c) => n + 1 \in 1..Len(c) /\ c[n + 1] \in Entry
  BY <1>2, Elements
<1>6. /\ scan.i # NULL => n + 1 \in 1..Len(c) /\ scan.i = c[n + 1] /\ scan.i \in Entry
      /\ scan.i = NULL => n = Len(c)
  BY <1>4, <1>5 DEF After
<1> QED BY <1>1, <1>3, <1>4, <1>6

\* Each turn of a loop passes one more entry of the list as it stands.
OneMorePassed ==
  \E n \in 0..Len(content[scan.list]) - 1 :
    Passed(content[scan.list], n) /\ Passed(content[scan.list], n + 1)'

LEMMA Step_scan_on ==
  ASSUME ListInv, scan_on
  PROVE  ListInv' /\ OneMorePassed
<1> DEFINE l == scan.list
           c == content[l]
<1>1. scan # NULL /\ scan.i # NULL /\ scan \in Scan /\ l \in List /\ scan.value \in Entry
  BY ScanFacts DEF scan_on
<1>2. PICK n \in 0..Len(c) :
        /\ Passed(c, n) /\ n + 1 \in 1..Len(c) /\ scan.i = c[n + 1] /\ scan.i \in Entry
  BY <1>1, ScanFacts
<1>3. /\ c \in Seq(Entry) /\ Chain(head[l], tail[l], next, c)
      /\ Len(c) \in Nat /\ \A m \in 1..Len(c) : c[m] \in Entry
  BY <1>1, ListFacts, Elements
<1>4. next[scan.i] = After(c, n + 1)
  <2> HIDE DEF c, l
  <2>1. next[c[n + 1]] = After(c, n + 1)
    BY <1>2, <1>3, ChainNext
  <2> QED BY <1>2, <2>1
<1>5. After(c, n + 1) \in Entry \cup {NULL}
  BY <1>2, <1>3 DEF After
<1>6. /\ scan' \in Scan /\ scan'.list = l /\ scan'.op = scan.op
      /\ scan'.value = scan.value
      /\ scan'.i = next[scan.i] /\ scan'.p = scan.i
  BY <1>1, <1>2, <1>4, <1>5 DEF scan_on, Scan
<1>7. key' = key /\ content' = content
  BY DEF scan_on
<1>8. IF scan.op = "ll_remove" THEN c[n + 1] # scan.value
      ELSE key[c[n + 1]] < key[scan.value]
  <2>1. key[scan.i] \in Int /\ key[scan.value] \in Int
    BY <1>1, <1>2 DEF ListInv, TypeOK
  <2>2. ~Hit
    BY DEF scan_on
  <2> QED BY <1>1, <1>2, <2>1, <2>2 DEF Hit
<1>9. Passed(c, n + 1)'
  <2>1. \A m \in 1..n + 1 : m = n + 1 \/ m \in 1..n
    BY <1>2, <1>3
  <2>2. \A m \in 1..n + 1 : IF scan.op = "ll_remove" THEN c[m] # scan.value
                            ELSE key[c[m]] < key[scan.value]
    BY <1>2, <1>8, <2>1 DEF Passed
  <2>3. n + 1 # 0
    BY <1>2, <1>3
  <2> QED BY <1>2, <1>4, <1>6, <1>7, <2>2, <2>3 DEF Passed, After
<1>10. ScanInOrder'
  <2>1. n + 1 \in 0..Len(c)
    BY <1>2, <1>3
  <2> QED BY <2>1, <1>6, <1>7, <1>9 DEF ScanInOrder
<1>11. InsertsNew'
  BY <1>1, <1>6, <1>7 DEF ListInv, InsertsNew, Unlinked
<1>12. TypeOK'
  BY <1>6 DEF scan_on, ListInv, TypeOK
<1>13. OneMorePassed
  <2>1. n \in 0..Len(c) - 1
    BY <1>2, <1>3
  <2> QED BY <2>1, <1>2, <1>9 DEF OneMorePassed
<1> QED BY <1>10, <1>11, <1>12, <1>13 DEF scan_on, ListInv, Represents, OneList

LEMMA Step_remove_found ==
  ASSUME ListInv, remove_found
  PROVE  ListInv'
<1> DEFINE l == scan.list
           i == scan.i
           p == scan.p
           c == content[l]
           between == IF p # NULL THEN [next EXCEPT ![p] = next[i]] ELSE next
           h2 == IF i = head[l] THEN next[i] ELSE head[l]
           t2 == IF i = tail[l] THEN p ELSE tail[l]
<1>1. scan # NULL /\ i # NULL /\ l \in List /\ scan' = NULL
  BY ScanFacts DEF remove_found, Hit
<1>2. PICK n \in 0..Len(c) :
        p = Before(c, n) /\ n + 1 \in 1..Len(c) /\ i = c[n + 1] /\ i \in Entry
  BY <1>1, ScanFacts
<1>3. /\ c \in Seq(Entry) /\ IsInjective(c) /\ Chain(head[l], tail[l], next, c)
      /\ next \in Links /\ head[l] \in Entry \cup {NULL} /\ tail[l] \in Entry \cup {NULL}
  BY <1>1, ListFacts
<1>4. /\ Len(c) \in Nat /\ n \in 0..Len(c) - 1
      /\ \A m \in 1..Len(c) : c[m] \in Entry /\ c[m] \in ToSet(c)
  BY <1>2, <1>3, Elements
<1>5. /\ p # NULL => p \in Entry /\ p \in ToSet(c)
      /\ p \in Entry \cup {NULL}
  BY <1>2, <1>4 DEF Before
<1>6. next[i] \in Entry \cup {NULL}
  <2> HIDE DEF l, i, p, c
  <2>1. next[c[n + 1]] = After(c, n + 1)
    BY <1>2, <1>3, ChainNext
  <2> QED BY <2>1, <1>2, <1>4 DEF After
<1>7. /\ ll_remove(c, i) \in Seq(Entry)
      /\ ToSet(ll_remove(c, i)) = ToSet(c) \ {i}
      /\ IsInjective(ll_remove(c, i))
  <2> HIDE DEF l, i, p, c
  <2> QED BY <1>3, RemoveProps
<1>8. Chain(h2, t2, between, ll_remove(c, i))
  <2> HIDE DEF l, i, p, c
  <2>1. /\ c \in Seq(Entry) /\ IsInjective(c) /\ Chain(head[l], tail[l], next, c)
        /\ next \in Links /\ n \in 0..Len(c) - 1 /\ i = c[n + 1] /\ p = Before(c, n)
    BY <1>2, <1>3, <1>4
  <2>2. /\ n # 0 => p # NULL /\ p \in Entry
        /\ n = 0 => p = NULL
    BY <1>4, <2>1 DEF Before
  <2>3. /\ n # 0 => between[p] = next[i]
        /\ \A x \in Entry : n = 0 \/ x # p => between[x] = next[x]
    BY <2>1, <2>2 DEF Links
  <2> HIDE DEF between
  <2>4. Chain(IF c[n + 1] = head[l] THEN next[c[n + 1]] ELSE head[l],
              IF c[n + 1] = tail[l] THEN Before(c, n) ELSE tail[l], between,
              ll_remove(c, c[n + 1]))
    <3>1. /\ n # 0 => between[Before(c, n)] = next[c[n + 1]]
          /\ \A x \in Entry : n = 0 \/ x # Before(c, n) => between[x] = next[x]
      BY <2>1, <2>3
    <3> QED BY ONLY <2>1, <3>1, ChainRemove
  <2> QED BY <2>1, <2>4
<1>9. between \in Links /\ \A x \in Entry : x # p => between[x] = next[x]
  BY <1>3, <1>5, <1>6 DEF Links
<1>10. next' = Poisoned(between, i)
  BY DEF remove_found
<1>11. next' \in Links /\ \A x \in Entry : x # i => next'[x] = between[x]
  <2> HIDE DEF between, i
  <2> QED BY <1>2, <1>9, <1>10, PoisonedProps
<1>12. /\ head'[l] = h2 /\ tail'[l] = t2
       /\ content'[l] = ll_remove(c, i)
       /\ \A m \in List : m # l =>
            head'[m] = head[m] /\ tail'[m] = tail[m] /\ content'[m] = content[m]
  BY <1>1 DEF remove_found, ListInv, TypeOK
<1>13. TypeOK'
  BY <1>1, <1>5, <1>6, <1>7, <1>11 DEF remove_found, ListInv, TypeOK, Links
<1>14. Chain(head'[l], tail'[l], next', content'[l])
  <2>1. \A x \in ToSet(ll_remove(c, i)) : next'[x] = between[x]
    BY <1>7, <1>11, Elements
  <2> HIDE DEF l, i, p, c, between, h2, t2
  <2>2. Chain(h2, t2, next', ll_remove(c, i))
    BY <1>7, <1>8, <2>1, ChainFrame
  <2> QED BY <1>12, <2>2
<1>15. \A x \in Entry : x \in ToSet(c) \/ Unlinked(x) \/ next'[x] = next[x]
  <2>1. i \in ToSet(c)
    BY <1>2, <1>4
  <2>2. ASSUME NEW x \in Entry, x \notin ToSet(c) PROVE next'[x] = next[x]
    <3>1. x # i /\ x # p
      BY <2>1, <2>2, <1>5
    <3> HIDE DEF l, i, p, c, between
    <3> QED BY <3>1, <1>9, <1>11
  <2> QED BY <2>2
<1>16. IsInjective(content'[l]) /\ \A x \in ToSet(content'[l]) : x \in ToSet(c)
  BY <1>7, <1>12
<1>17. Represents' /\ OneList'
  <2> HIDE DEF l
  <2> QED BY <1>1, <1>11, <1>12, <1>14, <1>15, <1>16, OneListChanged
<1> QED BY <1>1, <1>13, <1>17, NoScan DEF ListInv

\* A scan that ends has not passed the entry, and so there is nothing to take.
LEMMA Step_remove_end ==
  ASSUME ListInv, remove_end
  PROVE  ListInv'
<1> DEFINE l == scan.list
           v == scan.value
           c == content[l]
<1>1. /\ scan # NULL /\ scan.i = NULL /\ scan.op = "ll_remove"
      /\ l \in List /\ scan' = NULL
  BY ScanFacts DEF remove_end
<1>2. Passed(c, Len(c))
  BY <1>1, ScanFacts
<1>3. \A m \in 1..Len(c) : c[m] # v
  BY <1>1, <1>2 DEF Passed
<1>4. ll_remove(c, v) = c
  BY <1>3 DEF ll_remove, RemoveFirst
<1>5. content' = content
  BY <1>1, <1>4 DEF remove_end, ListInv, TypeOK
<1> QED BY <1>1, <1>5, NoScan DEF remove_end, ListInv, TypeOK, Represents, OneList

\* ll_sorted_insert() puts the value between p and i, which is where it belongs.
LEMMA Inserted ==
  ASSUME ListInv, scan # NULL, scan.op = "ll_sorted_insert",
         scan.i # NULL => Hit,
         NEW l, l = scan.list, NEW c, c = content[l], NEW v, v = scan.value,
         NEW i, i = scan.i, NEW p, p = scan.p,
         head' = IF p = NULL THEN [head EXCEPT ![l] = v] ELSE head,
         tail' = IF i = NULL THEN [tail EXCEPT ![l] = v] ELSE tail,
         next' = IF p = NULL THEN [next EXCEPT ![v] = i]
                             ELSE [next EXCEPT ![p] = v, ![v] = i],
         content' = [content EXCEPT ![l] = ll_sorted_insert(@, v, key)],
         scan' = NULL, UNCHANGED <<key, build>>
  PROVE  ListInv'
<1>1. l \in List /\ v \in Entry /\ Unlinked(v) /\ c # <<>>
  BY ScanFacts DEF ListInv, InsertsNew
<1>2. /\ c \in Seq(Entry) /\ IsInjective(c) /\ Chain(head[l], tail[l], next, c)
      /\ next \in Links
  BY <1>1, ListFacts
<1>3. PICK n \in 0..Len(c) :
        /\ Passed(c, n) /\ i = After(c, n) /\ p = Before(c, n)
        /\ i # NULL => n + 1 \in 1..Len(c) /\ i = c[n + 1] /\ i \in Entry
        /\ i = NULL => n = Len(c)
  BY ScanFacts
<1>4. /\ Len(c) \in Nat \ {0}
      /\ \A m \in 1..Len(c) : c[m] \in Entry /\ c[m] \in ToSet(c)
  BY <1>1, <1>2, Elements
<1>5. p = NULL \/ (p \in Entry /\ p \in ToSet(c))
  BY <1>3, <1>4 DEF Before
<1>6. v \notin ToSet(c)
  BY <1>1 DEF Unlinked
<1>7. key \in [Entry -> Int]
  BY DEF ListInv, TypeOK
<1>8. ll_sorted_insert(c, v, key) = InsertAt(c, n + 1, v)
  <2>1. \A m \in 1..n : key[c[m]] < key[v]
    BY <1>3 DEF Passed
  <2>2. n # Len(c) => key[v] <= key[c[n + 1]]
    <3>1. n # Len(c) => i # NULL
      BY <1>3, <1>4 DEF After
    <3> QED BY <3>1, <1>3 DEF Hit
  <2>3. c \in Seq(Entry) /\ v \in Entry /\ n \in 0..Len(c)
    BY <1>1, <1>2
  <2> QED BY ONLY <1>7, <2>1, <2>2, <2>3, InsertPositionIs
<1>9. /\ ll_sorted_insert(c, v, key) \in Seq(Entry)
      /\ ToSet(ll_sorted_insert(c, v, key)) = ToSet(c) \cup {v}
      /\ IsInjective(ll_sorted_insert(c, v, key))
  BY <1>1, <1>2, <1>6, SortedInsertProps
<1>10. /\ head'[l] = (IF p = NULL THEN v ELSE head[l])
       /\ tail'[l] = (IF i = NULL THEN v ELSE tail[l])
       /\ content'[l] = ll_sorted_insert(c, v, key)
       /\ \A m \in List : m # l =>
            head'[m] = head[m] /\ tail'[m] = tail[m] /\ content'[m] = content[m]
  BY <1>1 DEF ListInv, TypeOK
<1>11. Chain(head'[l], tail'[l], next', content'[l])
  <2>1. Chain(IF p = NULL THEN v ELSE head[l], IF i = NULL THEN v ELSE tail[l],
              IF p = NULL THEN [next EXCEPT ![v] = i]
                          ELSE [next EXCEPT ![p] = v, ![v] = i],
              InsertAt(c, n + 1, v))
    <3>1. /\ c \in Seq(Entry) /\ IsInjective(c) /\ Chain(head[l], tail[l], next, c)
          /\ next \in Links /\ n \in 0..Len(c) /\ i = After(c, n) /\ p = Before(c, n)
          /\ v \in Entry /\ v \notin ToSet(c) /\ c # <<>>
      BY <1>1, <1>2, <1>3, <1>6
    <3> QED BY ONLY <3>1, ChainInsert
  <2> QED BY <1>8, <1>10, <2>1
<1>12. next' \in Links
  BY <1>1, <1>2, <1>3, <1>5 DEF Links
<1>13. \A x \in Entry : x \in ToSet(c) \/ Unlinked(x) \/ next'[x] = next[x]
  BY <1>1, <1>2, <1>5 DEF Links
<1>14. Represents' /\ OneList'
  <2>1. /\ IsInjective(content'[l])
        /\ \A x \in ToSet(content'[l]) : x \in ToSet(content[l]) \/ Unlinked(x)
    BY <1>1, <1>9, <1>10
  <2>2. \A x \in Entry : x \in ToSet(content[l]) \/ Unlinked(x) \/ next'[x] = next[x]
    BY <1>13
  <2> QED BY <1>1, <1>10, <1>11, <1>12, <2>1, <2>2, OneListChanged
<1>15. TypeOK'
  BY <1>1, <1>9, <1>12 DEF ListInv, TypeOK, Links
<1> QED BY <1>14, <1>15, NoScan DEF ListInv

LEMMA Step_insert_found ==
  ASSUME ListInv, insert_found
  PROVE  ListInv'
<1>1. scan # NULL /\ scan.op = "ll_sorted_insert" /\ Hit /\ scan.i # NULL
  BY DEF insert_found, Hit
<1> QED BY <1>1, Inserted DEF insert_found

\* At the end of the list p is its tail.
LEMMA Step_insert_end ==
  ASSUME ListInv, insert_end
  PROVE  ListInv'
<1> DEFINE l == scan.list
           c == content[l]
<1>1. scan # NULL /\ scan.op = "ll_sorted_insert" /\ scan.i = NULL /\ l \in List
  BY ScanFacts DEF insert_end
<1>2. /\ c \in Seq(Entry) /\ c # <<>> /\ Chain(head[l], tail[l], next, c)
      /\ scan.p = Before(c, Len(c))
  BY <1>1, ScanFacts, ListFacts DEF ListInv, InsertsNew
<1>3. scan.p = tail[l] /\ scan.p # NULL
  BY <1>2, Elements, ChainHead DEF Before, Chain
<1> QED BY <1>1, <1>3, Inserted DEF insert_end
-----------------------------------------------------------------------------
LEMMA ListsStart ==
  ASSUME Init
  PROVE  ListInv
<1>1. /\ \A l \in List : head[l] = NULL /\ tail[l] = NULL /\ content[l] = <<>>
      /\ scan = NULL
  BY DEF Init, ll_init_list
<1>2. <<>> \in Seq(Entry) /\ Len(<<>>) = 0 /\ ToSet(<<>>) = {} /\ IsInjective(<<>>)
  <2>1. <<>> \in Seq(Entry) /\ Len(<<>>) = 0 /\ DOMAIN <<>> = {}
    BY EmptySeq
  <2> QED BY <2>1 DEF IsInjective, ToSet
<1>3. TypeOK
  BY <1>2 DEF Init, ll_init_list, TypeOK
<1>4. Represents
  BY <1>1, <1>2 DEF Represents
<1>5. OneList
  BY <1>1, <1>2 DEF OneList
<1> QED BY <1>1, <1>3, <1>4, <1>5 DEF ListInv, ScanInOrder, InsertsNew

LEMMA ListsStep ==
  ASSUME ListInv, [Next]_vars
  PROVE  ListInv'
<1>1. CASE UNCHANGED vars
  BY <1>1 DEF vars, ListInv, TypeOK, Represents, OneList, ScanInOrder, Passed,
              InsertsNew, Unlinked
<1>2. ASSUME NEW l \in List, NEW v \in Entry,
             push_back(l, v) \/ push_front(l, v) \/ remove(l, v)
             \/ sorted_insert_empty(l, v) \/ sorted_insert(l, v)
      PROVE  ListInv'
  BY <1>2, Step_push_back, Step_push_front, Step_remove, Step_sorted_insert_empty,
     Step_sorted_insert
<1>3. ASSUME NEW l \in List, pop_front(l) PROVE ListInv'
  BY <1>3, Step_pop_front
<1>4. ASSUME NEW v \in Entry, NEW k \in Key, set_key(v, k) PROVE ListInv'
  BY <1>4, Step_set_key
<1>5. ASSUME ScanStep PROVE ListInv'
  BY <1>5, Step_scan_on, Step_remove_found, Step_remove_end, Step_insert_found,
     Step_insert_end DEF ScanStep
<1> QED BY <1>1, <1>2, <1>3, <1>4, <1>5 DEF Next

\* The inductive invariant of the pointers.
THEOREM ListInvariance == Spec => []ListInv
<1>1. Init => ListInv
  BY ListsStart
<1>2. ListInv /\ [Next]_vars => ListInv'
  BY ListsStep
<1> QED BY <1>1, <1>2, PTL DEF Spec

\* Every pointer of a list, a link or a scan is an entry or NULL when it should
\* be.
THEOREM ListTypeCorrect == Spec => []TypeOK
<1>1. ListInv => TypeOK
  BY DEF ListInv
<1> QED BY <1>1, ListInvariance, PTL

\* The lists do what ListOps says, for any number of them that share any number
\* of entries: from head through the links to tail, each list has just the
\* entries that were put into it, in their order.
THEOREM ListsRepresent == Spec => []Represents
<1>1. ListInv => Represents
  BY DEF ListInv
<1> QED BY <1>1, ListInvariance, PTL

\* An entry is never in two lists, nor in one list twice.
THEOREM ListsApart == Spec => []OneList
<1>1. ListInv => OneList
  BY DEF ListInv
<1> QED BY <1>1, ListInvariance, PTL

\* The scans of ll_remove() and ll_sorted_insert() stay in their list and pass
\* nothing that they look for.
THEOREM ScansGoOn == Spec => []ScanInOrder
<1>1. ListInv => ScanInOrder
  BY DEF ListInv
<1> QED BY <1>1, ListInvariance, PTL

\* ll_remove() and ll_sorted_insert() cannot loop for ever, as a list with a
\* cycle would make them: from one turn to the next, one more of the entries of
\* a list that does not change meanwhile is passed, and there are only so many.
ScansPass ==
  scan # NULL /\ scan' # NULL =>
    content' = content /\ scan'.list = scan.list /\ OneMorePassed

THEOREM ScansAdvance == Spec => [][ScansPass]_vars
<1>1. ListInv /\ [Next]_vars => [ScansPass]_vars
  <2>1. SUFFICES ASSUME ListInv, Next, scan # NULL, scan' # NULL
                 PROVE  content' = content /\ scan'.list = scan.list /\ OneMorePassed
    BY DEF ScansPass
  <2>2. ScanStep
    BY <2>1 DEF Next, push_back, push_front, remove, sorted_insert_empty, sorted_insert,
                pop_front, set_key
  <2>3. scan_on
    BY <2>1, <2>2 DEF ScanStep, remove_found, remove_end, insert_found, insert_end
  <2>4. scan'.list = scan.list /\ content' = content
    BY <2>1, <2>3, ScanFacts DEF scan_on, Scan
  <2> QED BY <2>1, <2>3, <2>4, Step_scan_on
<1> QED BY <1>1, ListInvariance, PTL DEF Spec
=============================================================================
