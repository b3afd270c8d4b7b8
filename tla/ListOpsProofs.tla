--------------------------- MODULE ListOpsProofs ---------------------------
(***************************************************************************)
(* What the list operations do to the set of entries of a list, and that   *)
(* they keep its entries distinct and a sorted list sorted.                *)
(***************************************************************************)
EXTENDS ListOps, SequenceTheorems, FiniteSetTheorems, TLAPS

\* ll_push_back() adds the value behind all others.
LEMMA PushBackProps ==
  ASSUME NEW S, NEW list \in Seq(S), NEW value \in S
  PROVE  /\ ll_push_back(list, value) \in Seq(S)
         /\ ToSet(ll_push_back(list, value)) = ToSet(list) \cup {value}
         /\ IsInjective(list) /\ value \notin ToSet(list) =>
              IsInjective(ll_push_back(list, value))
         /\ list # <<>> => Head(ll_push_back(list, value)) = Head(list)
         /\ list = <<>> => Head(ll_push_back(list, value)) = value
         /\ ll_push_back(list, value) # <<>>
BY DEF ll_push_back, ToSet, IsInjective

\* ll_push_back() leaves the others where they are.
LEMMA PushBackPrefix ==
  ASSUME NEW S, NEW list \in Seq(S)
  PROVE  /\ IsPrefix(list, list)
         /\ \A value \in S : IsPrefix(list, ll_push_back(list, value))
<1>1. IsPrefix(list, list)
  BY LenProperties DEF IsPrefix
<1>2. ASSUME NEW value \in S PROVE IsPrefix(list, ll_push_back(list, value))
  <2>1. /\ Len(list) \in Nat /\ Len(Append(list, value)) = Len(list) + 1
        /\ Append(list, value) \in Seq(S)
        /\ \A n \in 1..Len(list) : Append(list, value)[n] = list[n]
    BY LenProperties, AppendProperties
  <2>2. SubSeq(list, 1, Len(list)) = SubSeq(Append(list, value), 1, Len(list))
    BY <2>1
  <2> QED BY <2>1, <2>2 DEF IsPrefix, ll_push_back
<1> QED BY <1>1, <1>2

\* ll_push_front() adds the value before all others.
LEMMA PushFrontProps ==
  ASSUME NEW S, NEW list \in Seq(S), NEW value \in S
  PROVE  /\ ll_push_front(list, value) \in Seq(S)
         /\ ToSet(ll_push_front(list, value)) = ToSet(list) \cup {value}
         /\ IsInjective(list) /\ value \notin ToSet(list) =>
              IsInjective(ll_push_front(list, value))
<1> DEFINE r == <<value>> \o list
<1>1. /\ r \in Seq(S) /\ DOMAIN list = 1..Len(list) /\ Len(list) \in Nat
      /\ DOMAIN r = 1..(Len(list) + 1) /\ r[1] = value
      /\ \A i \in 1..Len(list) : r[i + 1] = list[i]
  BY LenProperties
<1> HIDE DEF r
<1>2. \A j \in DOMAIN r : j # 1 => j - 1 \in DOMAIN list /\ r[j] = list[j - 1]
  <2>1. ASSUME NEW j \in DOMAIN r, j # 1
        PROVE  j - 1 \in DOMAIN list /\ r[j] = list[j - 1]
    <3>1. j - 1 \in 1..Len(list) /\ j - 1 + 1 = j
      BY <1>1, <2>1
    <3>2. r[j - 1 + 1] = list[j - 1]
      BY <1>1, <3>1
    <3> QED BY <1>1, <3>1, <3>2
  <2> QED BY <2>1
<1>3. ToSet(r) = ToSet(list) \cup {value}
  <2>1. ASSUME NEW i \in DOMAIN list PROVE list[i] \in ToSet(r)
    <3>1. i + 1 \in DOMAIN r /\ r[i + 1] = list[i]
      BY <1>1
    <3> QED BY <3>1 DEF ToSet
  <2>2. value \in ToSet(r)
    BY <1>1 DEF ToSet
  <2>3. ASSUME NEW j \in DOMAIN r PROVE r[j] \in ToSet(list) \cup {value}
    BY <1>1, <1>2 DEF ToSet
  <2> QED BY <2>1, <2>2, <2>3 DEF ToSet
<1>4. ASSUME IsInjective(list), value \notin ToSet(list) PROVE IsInjective(r)
  <2>1. SUFFICES ASSUME NEW j \in DOMAIN r, NEW k \in DOMAIN r, r[j] = r[k]
                 PROVE  j = k
    BY DEF IsInjective
  <2>2. \A i \in DOMAIN r : i # 1 => r[i] # value
    BY <1>2, <1>4 DEF ToSet
  <2>3. CASE j = 1 \/ k = 1
    BY <1>1, <2>1, <2>2, <2>3
  <2>4. CASE j # 1 /\ k # 1
    <3>1. j - 1 = k - 1
      BY <1>2, <1>4, <2>1, <2>4 DEF IsInjective
    <3> QED BY <3>1, <1>1
  <2> QED BY <2>3, <2>4
<1> QED BY <1>1, <1>3, <1>4 DEF ll_push_front, r

\* ll_pop_front() takes the head, and only the head, off the list.
LEMMA PopFrontProps ==
  ASSUME NEW S, NEW list \in Seq(S), list # <<>>
  PROVE  /\ ll_pop_front(list) \in Seq(S)
         /\ Head(list) \in S /\ Head(list) \in ToSet(list)
         /\ ToSet(list) = ToSet(ll_pop_front(list)) \cup {Head(list)}
         /\ IsInjective(list) =>
              /\ IsInjective(ll_pop_front(list))
              /\ Head(list) \notin ToSet(ll_pop_front(list))
<1> DEFINE rest == Tail(list)
<1>1. /\ Head(list) = list[1] /\ 1 \in DOMAIN list
      /\ Head(list) \in S /\ rest \in Seq(S) /\ Len(rest) = Len(list) - 1
      /\ Len(list) \in Nat \ {0}
      /\ \A i \in 1..Len(rest) : rest[i] = list[i + 1]
  BY HeadTailProperties, EmptySeq
<1>2. DOMAIN list = 1..Len(list) /\ DOMAIN rest = 1..(Len(list) - 1)
  BY <1>1
<1> HIDE DEF rest
<1>3. ToSet(list) = ToSet(rest) \cup {list[1]}
  <2>1. ASSUME NEW i \in DOMAIN list PROVE list[i] \in ToSet(rest) \cup {list[1]}
    <3>1. CASE i = 1
      BY <3>1
    <3>2. CASE i # 1
      <4>1. i - 1 \in DOMAIN rest /\ rest[i - 1] = list[i]
        BY <3>2, <1>1, <1>2
      <4> QED BY <4>1 DEF ToSet
    <3> QED BY <3>1, <3>2
  <2>2. ASSUME NEW i \in DOMAIN rest PROVE rest[i] \in ToSet(list)
    <3>1. i + 1 \in DOMAIN list /\ rest[i] = list[i + 1]
      BY <1>1, <1>2
    <3> QED BY <3>1 DEF ToSet
  <2>3. list[1] \in ToSet(list)
    BY <1>1 DEF ToSet
  <2> QED BY <2>1, <2>2, <2>3 DEF ToSet
<1>4. ASSUME IsInjective(list)
      PROVE  IsInjective(rest) /\ list[1] \notin ToSet(rest)
  <2>1. \A i \in DOMAIN rest : i + 1 \in DOMAIN list /\ rest[i] = list[i + 1]
    BY <1>1, <1>2
  <2>2. \A i, j \in DOMAIN rest : rest[i] = rest[j] => i + 1 = j + 1
    BY <2>1, <1>4 DEF IsInjective
  <2>3. \A i \in DOMAIN rest : list[1] = rest[i] => 1 = i + 1
    BY <2>1, <1>1, <1>4 DEF IsInjective
  <2>4. DOMAIN rest \subseteq Nat \ {0}
    BY <1>1, <1>2
  <2> QED BY <2>2, <2>3, <2>4 DEF IsInjective, ToSet
<1>5. Head(list) \in ToSet(list)
  BY <1>1, <1>3
<1> QED BY <1>1, <1>3, <1>4, <1>5 DEF ll_pop_front, rest

LEMMA RemoveAtProps ==
  ASSUME NEW S, NEW s \in Seq(S), NEW i \in 1..Len(s)
  PROVE  /\ RemoveAt(s, i) \in Seq(S)
         /\ Len(RemoveAt(s, i)) = Len(s) - 1
         /\ \A j \in 1..(Len(s) - 1) :
              RemoveAt(s, i)[j] = IF j < i THEN s[j] ELSE s[j + 1]
<1> DEFINE u == SubSeq(s, 1, i - 1)
           v == SubSeq(s, i + 1, Len(s))
<1>1. Len(s) \in Nat /\ \A k \in 1..Len(s) : s[k] \in S
  BY ElementOfSeq, LenProperties
<1>2. /\ u \in Seq(S) /\ Len(u) = i - 1
      /\ \A k \in 1..(i - 1) : u[k] = s[k]
  <2>1. \A k \in 1..(i - 1) : s[k] \in S
    BY <1>1
  <2>2. /\ u \in Seq(S) /\ Len(u) = IF 1 <= i - 1 THEN i - 1 - 1 + 1 ELSE 0
        /\ \A k \in 1..(i - 1 - 1 + 1) : u[k] = s[1 + k - 1]
    BY <2>1, SubSeqProperties, <1>1
  <2> QED BY <2>2, <1>1
<1>3. /\ v \in Seq(S) /\ Len(v) = Len(s) - i
      /\ \A k \in 1..(Len(s) - i) : v[k] = s[i + k]
  <2>1. \A k \in (i + 1)..Len(s) : s[k] \in S
    BY <1>1
  <2>2. /\ v \in Seq(S)
        /\ Len(v) = IF i + 1 <= Len(s) THEN Len(s) - (i + 1) + 1 ELSE 0
        /\ \A k \in 1..(Len(s) - (i + 1) + 1) : v[k] = s[i + 1 + k - 1]
    BY <2>1, SubSeqProperties, <1>1
  <2> QED BY <2>2, <1>1
<1> HIDE DEF u, v
<1>4. /\ u \o v \in Seq(S) /\ Len(u \o v) = Len(u) + Len(v)
      /\ \A k \in 1..(Len(u) + Len(v)) :
           (u \o v)[k] = IF k <= Len(u) THEN u[k] ELSE v[k - Len(u)]
  BY <1>2, <1>3, ConcatProperties
<1>5. ASSUME NEW j \in 1..(Len(s) - 1)
      PROVE  (u \o v)[j] = IF j < i THEN s[j] ELSE s[j + 1]
  <2>1. CASE j < i
    BY <2>1, <1>1, <1>2, <1>3, <1>4
  <2>2. CASE ~(j < i)
    <3>1. j - (i - 1) \in 1..(Len(s) - i) /\ i + (j - (i - 1)) = j + 1
      BY <2>2, <1>1
    <3>2. (u \o v)[j] = v[j - (i - 1)]
      BY <2>2, <1>1, <1>2, <1>3, <1>4
    <3>3. v[j - (i - 1)] = s[i + (j - (i - 1))]
      BY <3>1, <1>3
    <3> QED BY <2>2, <3>1, <3>2, <3>3
  <2> QED BY <2>1, <2>2
<1>6. Len(u \o v) = Len(s) - 1
  BY <1>1, <1>2, <1>3, <1>4
<1> QED BY <1>4, <1>5, <1>6 DEF RemoveAt, u, v

LEMMA InsertAtProps ==
  ASSUME NEW S, NEW s \in Seq(S), NEW i \in 1..(Len(s) + 1), NEW e \in S
  PROVE  /\ InsertAt(s, i, e) \in Seq(S)
         /\ Len(InsertAt(s, i, e)) = Len(s) + 1
         /\ \A j \in 1..(Len(s) + 1) :
              InsertAt(s, i, e)[j] =
                IF j < i THEN s[j] ELSE IF j = i THEN e ELSE s[j - 1]
<1> DEFINE u == SubSeq(s, 1, i - 1)
           v == SubSeq(s, i, Len(s))
           w == u \o <<e>>
<1>1. Len(s) \in Nat /\ \A k \in 1..Len(s) : s[k] \in S
  BY ElementOfSeq, LenProperties
<1>2. /\ u \in Seq(S) /\ Len(u) = i - 1
      /\ \A k \in 1..(i - 1) : u[k] = s[k]
  <2>1. \A k \in 1..(i - 1) : s[k] \in S
    BY <1>1
  <2>2. /\ u \in Seq(S) /\ Len(u) = IF 1 <= i - 1 THEN i - 1 - 1 + 1 ELSE 0
        /\ \A k \in 1..(i - 1 - 1 + 1) : u[k] = s[1 + k - 1]
    BY <2>1, SubSeqProperties, <1>1
  <2> QED BY <2>2, <1>1
<1>3. /\ v \in Seq(S) /\ Len(v) = Len(s) - i + 1
      /\ \A k \in 1..(Len(s) - i + 1) : v[k] = s[i + k - 1]
  <2>1. \A k \in i..Len(s) : s[k] \in S
    BY <1>1
  <2>2. /\ v \in Seq(S)
        /\ Len(v) = IF i <= Len(s) THEN Len(s) - i + 1 ELSE 0
        /\ \A k \in 1..(Len(s) - i + 1) : v[k] = s[i + k - 1]
    BY <2>1, SubSeqProperties, <1>1
  <2> QED BY <2>2, <1>1
<1> HIDE DEF u, v
<1>4. w \in Seq(S) /\ Len(w) = i /\ w[i] = e /\ \A k \in 1..(i - 1) : w[k] = s[k]
  BY <1>1, <1>2
<1> HIDE DEF w
<1>5. /\ w \o v \in Seq(S) /\ Len(w \o v) = Len(w) + Len(v)
      /\ \A k \in 1..(Len(w) + Len(v)) :
           (w \o v)[k] = IF k <= Len(w) THEN w[k] ELSE v[k - Len(w)]
  BY <1>3, <1>4, ConcatProperties
<1>6. ASSUME NEW j \in 1..(Len(s) + 1)
      PROVE  (w \o v)[j] = IF j < i THEN s[j] ELSE IF j = i THEN e ELSE s[j - 1]
  <2>1. CASE j <= i
    BY <2>1, <1>1, <1>3, <1>4, <1>5
  <2>2. CASE ~(j <= i)
    <3>1. j - i \in 1..(Len(s) - i + 1) /\ i + (j - i) - 1 = j - 1
      BY <2>2, <1>1
    <3>2. (w \o v)[j] = v[j - i]
      BY <2>2, <1>1, <1>3, <1>4, <1>5
    <3>3. v[j - i] = s[i + (j - i) - 1]
      BY <3>1, <1>3
    <3> QED BY <2>2, <3>1, <3>2, <3>3
  <2> QED BY <2>1, <2>2
<1>7. Len(w \o v) = Len(s) + 1
  BY <1>1, <1>3, <1>4, <1>5
<1> QED BY <1>5, <1>6, <1>7 DEF InsertAt, u, v, w

\* ll_remove() takes just the given value off the list, and does nothing to a
\* list that does not contain it.
LEMMA RemoveProps ==
  ASSUME NEW S, NEW list \in Seq(S), NEW value, IsInjective(list)
  PROVE  /\ ll_remove(list, value) \in Seq(S)
         /\ ToSet(ll_remove(list, value)) = ToSet(list) \ {value}
         /\ IsInjective(ll_remove(list, value))
<1>1. DOMAIN list = 1..Len(list) /\ Len(list) \in Nat
  BY LenProperties
<1>2. CASE ~ \E i \in 1..Len(list) : list[i] = value
  BY <1>1, <1>2 DEF ll_remove, RemoveFirst, ToSet
<1>3. CASE \E i \in 1..Len(list) : list[i] = value
  <2>1. PICK i \in 1..Len(list) : list[i] = value
    BY <1>3
  <2>2. {k \in 1..Len(list) : list[k] = value} = {i}
    BY <2>1, <1>1 DEF IsInjective
  <2>3. Min({i}) = i
    BY <1>1 DEF Min
  <2>4. ll_remove(list, value) = RemoveAt(list, i)
    BY <1>3, <2>2, <2>3 DEF ll_remove, RemoveFirst, SelectInSeq
  <2> DEFINE r == RemoveAt(list, i)
  <2>5. /\ r \in Seq(S) /\ Len(r) = Len(list) - 1 /\ DOMAIN r = 1..(Len(list) - 1)
        /\ \A j \in 1..(Len(list) - 1) :
             r[j] = IF j < i THEN list[j] ELSE list[j + 1]
    BY RemoveAtProps
  <2> HIDE DEF r
  <2>6. ToSet(r) = ToSet(list) \ {value}
    <3>1. ASSUME NEW j \in DOMAIN r PROVE r[j] \in ToSet(list) \ {value}
      <4>1. PICK k \in 1..Len(list) : r[j] = list[k] /\ k # i
        BY <2>5, <1>1
      <4> QED BY <4>1, <2>2, <1>1 DEF ToSet
    <3>2. ASSUME NEW k \in DOMAIN list, list[k] # value PROVE list[k] \in ToSet(r)
      <4>1. k # i
        BY <3>2, <2>1
      <4>2. CASE k < i
        <5>1. k \in DOMAIN r /\ r[k] = list[k]
          BY <4>2, <2>5, <1>1
        <5> QED BY <5>1 DEF ToSet
      <4>3. CASE ~(k < i)
        <5>1. k - 1 \in DOMAIN r /\ ~(k - 1 < i) /\ k - 1 + 1 = k
          BY <4>1, <4>3, <2>5, <1>1
        <5>2. r[k - 1] = list[k]
          BY <5>1, <2>5
        <5> QED BY <5>1, <5>2 DEF ToSet
      <4> QED BY <4>2, <4>3
    <3> QED BY <3>1, <3>2 DEF ToSet
  <2>7. IsInjective(r)
    <3>1. SUFFICES ASSUME NEW j \in DOMAIN r, NEW k \in DOMAIN r, r[j] = r[k]
                   PROVE  j = k
      BY DEF IsInjective
    <3>2. /\ (IF j < i THEN j ELSE j + 1) \in DOMAIN list
          /\ (IF k < i THEN k ELSE k + 1) \in DOMAIN list
          /\ list[IF j < i THEN j ELSE j + 1] = list[IF k < i THEN k ELSE k + 1]
      BY <3>1, <2>5, <1>1
    <3>3. (IF j < i THEN j ELSE j + 1) = (IF k < i THEN k ELSE k + 1)
      BY <3>2 DEF IsInjective
    <3> QED BY <3>3, <2>5, <1>1
  <2> QED BY <2>4, <2>5, <2>6, <2>7 DEF r
<1> QED BY <1>2, <1>3

\* A non-empty finite set of natural numbers has a least element: take the
\* least, by inclusion, of the sets of its elements up to one of them.
LEMMA MinNat ==
  ASSUME NEW n \in Nat, NEW T \in SUBSET (0..n), T # {}
  PROVE  Min(T) \in T /\ \A x \in T : Min(T) <= x
<1> DEFINE UpTo(x) == T \cap (0..x)
           R == StrictSubsetOrdering(T)
<1>1. IsFiniteSet(T)
  BY FS_Interval, FS_Subset, 0 \in Int, n \in Int
<1>2. IsWellFoundedOn(StrictSubsetOrdering(T), FiniteSubsetsOf(T))
  BY FS_StrictSubsetOrderingWellFounded
<1>3. {UpTo(x) : x \in T} \subseteq FiniteSubsetsOf(T) /\ {UpTo(x) : x \in T} # {}
  <2>1. \A x \in T : UpTo(x) \in SUBSET T
    OBVIOUS
  <2>2. \A x \in T : IsFiniteSet(UpTo(x))
    BY <1>1, <2>1, FS_Subset
  <2>3. \A x \in T : UpTo(x) \in FiniteSubsetsOf(T)
    BY <2>1, <2>2 DEF FiniteSubsetsOf
  <2> QED BY <2>3
<1>4. PICK Z \in {UpTo(x) : x \in T} : \A Y \in {UpTo(x) : x \in T} : <<Y, Z>> \notin R
  BY <1>2, <1>3, WFMin
<1>5. PICK m \in T : Z = UpTo(m)
  BY <1>4
<1>6. ASSUME NEW y \in T PROVE m <= y
  <2>1. SUFFICES ASSUME y < m PROVE FALSE
    OBVIOUS
  <2>2. UpTo(y) \subseteq UpTo(m) /\ m \in UpTo(m) /\ m \notin UpTo(y)
    BY <2>1
  <2>3. <<UpTo(y), UpTo(m)>> \in R
    BY <2>2 DEF StrictSubsetOrdering
  <2> QED BY <2>3, <1>4, <1>5
<1>7. \E x \in T : \A y \in T : x <= y
  BY <1>6
<1> QED BY <1>7 DEF Min

\* ll_sorted_insert() adds just the given value.
LEMMA SortedInsertProps ==
  ASSUME NEW S, NEW list \in Seq(S), NEW value \in S, NEW key,
         IsInjective(list), value \notin ToSet(list)
  PROVE  /\ ll_sorted_insert(list, value, key) \in Seq(S)
         /\ ToSet(ll_sorted_insert(list, value, key)) = ToSet(list) \cup {value}
         /\ IsInjective(ll_sorted_insert(list, value, key))
<1> DEFINE p == InsertPosition(list, value, key)
           r == InsertAt(list, p, value)
<1>1. DOMAIN list = 1..Len(list) /\ Len(list) \in Nat
  BY LenProperties
<1>2. p \in 1..(Len(list) + 1)
  <2> DEFINE notLower == {i \in 1..Len(list) : key[value] <= key[list[i]]}
  <2>1. notLower \in SUBSET (0..Len(list)) /\ notLower \subseteq 1..Len(list)
    BY <1>1
  <2>2. notLower # {} => Min(notLower) \in notLower
    BY <2>1, <1>1, MinNat
  <2>3. p = IF notLower = {} THEN Len(list) + 1 ELSE Min(notLower)
    BY DEF InsertPosition
  <2> HIDE DEF p, notLower
  <2> QED BY <2>1, <2>2, <2>3, <1>1
<1> HIDE DEF p
<1>3. /\ r \in Seq(S) /\ DOMAIN r = 1..(Len(list) + 1)
      /\ \A j \in 1..(Len(list) + 1) :
           r[j] = IF j < p THEN list[j] ELSE IF j = p THEN value ELSE list[j - 1]
  BY <1>2, InsertAtProps, LenProperties
<1> HIDE DEF r
<1>4. ToSet(r) = ToSet(list) \cup {value}
  <2>1. ASSUME NEW j \in DOMAIN r PROVE r[j] \in ToSet(list) \cup {value}
    <3>1. r[j] = value \/ \E k \in 1..Len(list) : r[j] = list[k]
      BY <1>1, <1>2, <1>3
    <3> QED BY <3>1, <1>1 DEF ToSet
  <2>2. ASSUME NEW k \in DOMAIN list PROVE list[k] \in ToSet(r)
    <3>1. CASE k < p
      <4>1. k \in DOMAIN r /\ r[k] = list[k]
        BY <3>1, <1>1, <1>2, <1>3
      <4> QED BY <4>1 DEF ToSet
    <3>2. CASE ~(k < p)
      <4>1. k + 1 \in DOMAIN r /\ ~(k + 1 < p) /\ k + 1 # p /\ k + 1 - 1 = k
        BY <3>2, <1>1, <1>2, <1>3
      <4>2. r[k + 1] = list[k]
        BY <4>1, <1>3
      <4> QED BY <4>1, <4>2 DEF ToSet
    <3> QED BY <3>1, <3>2
  <2>3. p \in DOMAIN r /\ r[p] = value
    BY <1>1, <1>2, <1>3
  <2> QED BY <2>1, <2>2, <2>3 DEF ToSet
<1>5. IsInjective(r)
  <2>1. SUFFICES ASSUME NEW j \in DOMAIN r, NEW k \in DOMAIN r, r[j] = r[k]
                 PROVE  j = k
    BY DEF IsInjective
  <2>2. \A i \in DOMAIN r : i # p =>
          /\ (IF i < p THEN i ELSE i - 1) \in DOMAIN list
          /\ r[i] = list[IF i < p THEN i ELSE i - 1]
    BY <1>1, <1>2, <1>3
  <2>3. \A i \in DOMAIN r : i # p => r[i] # value
    BY <2>2 DEF ToSet
  <2>4. r[p] = value
    BY <1>1, <1>2, <1>3
  <2>5. CASE j = p \/ k = p
    BY <2>1, <2>3, <2>4, <2>5
  <2>6. CASE j # p /\ k # p
    <3>1. (IF j < p THEN j ELSE j - 1) = (IF k < p THEN k ELSE k - 1)
      BY <2>1, <2>2, <2>6 DEF IsInjective
    <3> QED BY <3>1, <2>6, <1>1, <1>2, <1>3
  <2> QED BY <2>5, <2>6
<1> QED BY <1>3, <1>4, <1>5 DEF ll_sorted_insert, p, r
-----------------------------------------------------------------------------
\* The entries of list have their keys in ascending order.
Sorted(list, key) ==
  \A i, j \in 1..Len(list) : i < j => key[list[i]] <= key[list[j]]

\* The keys of other entries do not matter.
LEMMA SortedRekey ==
  ASSUME NEW S, NEW list \in Seq(S), NEW key, NEW key2, Sorted(list, key),
         \A x \in ToSet(list) : key2[x] = key[x]
  PROVE  Sorted(list, key2)
<1>1. \A i \in 1..Len(list) : list[i] \in ToSet(list)
  BY DEF ToSet
<1> QED BY <1>1 DEF Sorted

\* Nothing comes before the head of a sorted list.
LEMMA SortedHead ==
  ASSUME NEW S, NEW list \in Seq(S), list # <<>>, NEW key \in [S -> Int],
         Sorted(list, key)
  PROVE  /\ \A x \in ToSet(list) : key[Head(list)] <= key[x]
         /\ Sorted(ll_pop_front(list), key)
<1>1. /\ Len(list) \in Nat \ {0} /\ DOMAIN list = 1..Len(list)
      /\ Head(list) = list[1] /\ \A i \in 1..Len(list) : list[i] \in S
  BY LenProperties, ElementOfSeq, EmptySeq
<1>2. ASSUME NEW x \in ToSet(list) PROVE key[list[1]] <= key[x]
  <2>1. PICK i \in 1..Len(list) : list[i] = x
    BY <1>1 DEF ToSet
  <2>2. CASE i = 1
    BY <1>1, <2>1, <2>2
  <2>3. CASE i # 1
    BY <1>1, <2>1, <2>3 DEF Sorted
  <2> QED BY <2>2, <2>3
<1>3. /\ Len(Tail(list)) = Len(list) - 1
      /\ \A i \in 1..Len(Tail(list)) : Tail(list)[i] = list[i + 1]
  BY <1>1
<1>4. Sorted(Tail(list), key)
  BY <1>1, <1>3 DEF Sorted
<1> QED BY <1>1, <1>2, <1>4 DEF ll_pop_front

\* What comes last may go to the back.
LEMMA SortedPushBack ==
  ASSUME NEW S, NEW list \in Seq(S), NEW value \in S, NEW key \in [S -> Int],
         Sorted(list, key), \A x \in ToSet(list) : key[x] <= key[value]
  PROVE  Sorted(ll_push_back(list, value), key)
<1> DEFINE r == Append(list, value)
<1>1. /\ Len(list) \in Nat /\ Len(r) = Len(list) + 1
      /\ \A i \in 1..Len(r) : r[i] = IF i = Len(list) + 1 THEN value ELSE list[i]
      /\ \A i \in 1..Len(list) : list[i] \in ToSet(list)
  BY DEF ToSet
<1> HIDE DEF r
<1>2. ASSUME NEW i \in 1..Len(r), NEW j \in 1..Len(r), i < j
      PROVE  key[r[i]] <= key[r[j]]
  <2>1. i \in 1..Len(list) /\ r[i] = list[i]
    BY <1>1, <1>2
  <2>2. CASE j = Len(list) + 1
    BY <1>1, <2>1, <2>2
  <2>3. CASE j # Len(list) + 1
    <3>1. j \in 1..Len(list) /\ r[j] = list[j]
      BY <1>1, <2>3
    <3> QED BY <1>2, <2>1, <3>1 DEF Sorted
  <2> QED BY <2>2, <2>3
<1> QED BY <1>2 DEF Sorted, ll_push_back, r

\* ll_remove() keeps the order of the others.
LEMMA SortedRemove ==
  ASSUME NEW S, NEW list \in Seq(S), NEW value, NEW key \in [S -> Int],
         IsInjective(list), Sorted(list, key)
  PROVE  Sorted(ll_remove(list, value), key)
<1>1. DOMAIN list = 1..Len(list) /\ Len(list) \in Nat
  BY LenProperties
<1>2. CASE ~ \E i \in 1..Len(list) : list[i] = value
  BY <1>1, <1>2 DEF ll_remove, RemoveFirst
<1>3. CASE \E i \in 1..Len(list) : list[i] = value
  <2>1. PICK i \in 1..Len(list) : list[i] = value
    BY <1>3
  <2>2. {k \in 1..Len(list) : list[k] = value} = {i}
    BY <2>1, <1>1 DEF IsInjective
  <2>3. Min({i}) = i
    BY <1>1 DEF Min
  <2>4. ll_remove(list, value) = RemoveAt(list, i)
    BY <1>3, <2>2, <2>3 DEF ll_remove, RemoveFirst, SelectInSeq
  <2> DEFINE r == RemoveAt(list, i)
  <2>5. /\ Len(r) = Len(list) - 1
        /\ \A j \in 1..(Len(list) - 1) :
             r[j] = IF j < i THEN list[j] ELSE list[j + 1]
    BY RemoveAtProps
  <2> HIDE DEF r
  <2>6. ASSUME NEW j \in 1..Len(r), NEW k \in 1..Len(r), j < k
        PROVE  key[r[j]] <= key[r[k]]
    <3> DEFINE old(n) == IF n < i THEN n ELSE n + 1
    <3>1. /\ old(j) \in 1..Len(list) /\ old(k) \in 1..Len(list) /\ old(j) < old(k)
          /\ r[j] = list[old(j)] /\ r[k] = list[old(k)]
      BY <1>1, <2>5, <2>6
    <3> HIDE DEF old
    <3> QED BY <3>1 DEF Sorted
  <2> QED BY <2>4, <2>6 DEF Sorted, r
<1> QED BY <1>2, <1>3

\* ll_sorted_insert() keeps a sorted list sorted.
LEMMA SortedInsert ==
  ASSUME NEW S, NEW list \in Seq(S), NEW value \in S, NEW key \in [S -> Int],
         Sorted(list, key)
  PROVE  Sorted(ll_sorted_insert(list, value, key), key)
<1> DEFINE p == InsertPosition(list, value, key)
           r == InsertAt(list, p, value)
           notLower == {i \in 1..Len(list) : key[value] <= key[list[i]]}
<1>1. Len(list) \in Nat /\ \A i \in 1..Len(list) : list[i] \in S
  BY LenProperties, ElementOfSeq
<1>2. /\ p \in 1..(Len(list) + 1)
      /\ \A i \in 1..Len(list) : i < p => key[list[i]] <= key[value]
      /\ \A i \in 1..Len(list) : p <= i => key[value] <= key[list[i]]
  <2>1. notLower \in SUBSET (0..Len(list)) /\ notLower \subseteq 1..Len(list)
    BY <1>1
  <2>2. notLower # {} => /\ Min(notLower) \in notLower
                         /\ \A x \in notLower : Min(notLower) <= x
    BY <2>1, <1>1, MinNat
  <2>3. p = IF notLower = {} THEN Len(list) + 1 ELSE Min(notLower)
    BY DEF InsertPosition
  <2> HIDE DEF p
  <2>4. CASE notLower = {}
    <3>1. \A i \in 1..Len(list) : ~(key[value] <= key[list[i]])
      BY <2>4
    <3>2. \A i \in 1..Len(list) : key[list[i]] <= key[value]
      BY <1>1, <3>1
    <3> QED BY <1>1, <2>3, <2>4, <3>2
  <2>5. CASE notLower # {}
    <3>1. p \in notLower /\ \A x \in notLower : p <= x
      BY <2>2, <2>3, <2>5
    <3>2. p \in 1..Len(list) /\ key[value] <= key[list[p]]
      BY <3>1
    <3>3. ASSUME NEW i \in 1..Len(list), i < p PROVE key[list[i]] <= key[value]
      <4>1. i \notin notLower
        BY <3>1, <3>2, <3>3, <1>1
      <4>2. ~(key[value] <= key[list[i]])
        BY <4>1
      <4> QED BY <4>2, <1>1
    <3>4. ASSUME NEW i \in 1..Len(list), p <= i PROVE key[value] <= key[list[i]]
      <4>1. key[list[p]] <= key[list[i]]
        <5>1. CASE i = p
          BY <5>1, <1>1
        <5>2. CASE i # p
          <6>1. p < i
            BY <5>2, <3>2, <3>4, <1>1
          <6> QED BY <6>1, <3>2 DEF Sorted
        <5> QED BY <5>1, <5>2
      <4>2. key[value] \in Int /\ key[list[p]] \in Int /\ key[list[i]] \in Int
        BY <1>1, <3>2
      <4> HIDE DEF notLower
      <4> QED BY <4>1, <4>2, <3>2
    <3> QED BY <1>1, <3>2, <3>3, <3>4
  <2> QED BY <2>4, <2>5
<1> HIDE DEF p, notLower
<1>3. /\ r \in Seq(S) /\ Len(r) = Len(list) + 1
      /\ \A j \in 1..(Len(list) + 1) :
           r[j] = IF j < p THEN list[j] ELSE IF j = p THEN value ELSE list[j - 1]
  <2>1. r \in Seq(S)
    BY <1>2, InsertAtProps
  <2>2. Len(r) = Len(list) + 1
    BY <1>2, InsertAtProps
  <2>3. ASSUME NEW j \in 1..(Len(list) + 1)
        PROVE r[j] = IF j < p THEN list[j] ELSE IF j = p THEN value ELSE list[j - 1]
    BY <1>2, InsertAtProps
  <2> QED BY <2>1, <2>2, <2>3
<1> HIDE DEF r
<1>4. ASSUME NEW j \in 1..Len(r), NEW k \in 1..Len(r), j < k
      PROVE  key[r[j]] <= key[r[k]]
  <2>1. CASE j = p
    <3>1. k - 1 \in 1..Len(list) /\ p <= k - 1 /\ r[k] = list[k - 1] /\ r[j] = value
      BY <2>1, <1>1, <1>2, <1>3, <1>4
    <3> QED BY <3>1, <1>2
  <2>2. CASE k = p
    <3>1. j \in 1..Len(list) /\ j < p /\ r[j] = list[j] /\ r[k] = value
      BY <2>2, <1>1, <1>2, <1>3, <1>4
    <3> QED BY <3>1, <1>2
  <2>3. CASE j # p /\ k # p
    <3> DEFINE old(n) == IF n < p THEN n ELSE n - 1
    <3>0. /\ p \in 1..(Len(list) + 1) /\ Len(list) \in Nat /\ j < k
          /\ j \in 1..(Len(list) + 1) /\ k \in 1..(Len(list) + 1)
      BY <1>1, <1>2, <1>3, <1>4
    <3>1. old(j) \in 1..Len(list) /\ old(k) \in 1..Len(list) /\ old(j) < old(k)
      BY <2>3, <3>0
    <3>2. r[j] = list[old(j)] /\ r[k] = list[old(k)]
      BY <2>3, <3>0, <1>3
    <3> HIDE DEF old
    <3> QED BY <3>1, <3>2 DEF Sorted
  <2> QED BY <2>1, <2>2, <2>3
<1> QED BY <1>4 DEF Sorted, ll_sorted_insert, p, r
=============================================================================
