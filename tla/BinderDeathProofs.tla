--------------------------- MODULE BinderDeathProofs ---------------------------
(***************************************************************************)
(* Proofs about death notifications, for every set of threads, nodes,      *)
(* cookies and notifications: their memory has one owner, no assertion of  *)
(* the driver is met, and the answer to a clear comes last.                *)
(***************************************************************************)
EXTENDS BinderDeath, FiniteSetTheorems, SequenceTheorems, WellFoundedInduction, TLAPS

-------------------------------------------------------------------------------
(* Lists *)

\* An entry at the end of a list.
LEMMA AppendIs ==
    ASSUME NEW S, NEW s \in Seq(S), NEW d \in S
    PROVE  /\ Append(s, d) \in Seq(S)
           /\ Range(Append(s, d)) = Range(s) \cup {d}
           /\ IsInjective(s) /\ d \notin Range(s) => IsInjective(Append(s, d))
<1>. DEFINE a == Append(s, d)
<1>1. /\ a \in Seq(S) /\ Len(a) = Len(s) + 1 /\ Len(s) \in Nat
      /\ DOMAIN s = 1..Len(s) /\ DOMAIN a = 1..(Len(s) + 1)
      /\ \A i \in 1..Len(s): a[i] = s[i]
      /\ a[Len(s) + 1] = d
  OBVIOUS
<1>. HIDE DEF a
<1>2. Range(a) = Range(s) \cup {d}
  <2>1. ASSUME NEW x \in Range(a) PROVE x \in Range(s) \cup {d}
    BY <1>1 DEF Range
  <2>2. ASSUME NEW x \in Range(s) PROVE x \in Range(a)
    BY <1>1 DEF Range
  <2>3. d \in Range(a)
    BY <1>1 DEF Range
  <2>. QED
    BY <2>1, <2>2, <2>3
<1>3. ASSUME IsInjective(s), d \notin Range(s) PROVE IsInjective(a)
  BY <1>1, <1>3 DEF IsInjective, Range
<1>. QED
  BY <1>1, <1>2, <1>3 DEF a

\* The first entry taken off a list.
LEMMA TailIs ==
    ASSUME NEW S, NEW s \in Seq(S), s # <<>>
    PROVE  /\ Tail(s) \in Seq(S) /\ Head(s) \in S /\ Head(s) \in Range(s)
           /\ IsInjective(s) => /\ IsInjective(Tail(s))
                                /\ Range(Tail(s)) = Range(s) \ {Head(s)}
<1>. DEFINE a == Tail(s)
<1>1. /\ a \in Seq(S) /\ Head(s) \in S /\ Len(s) \in Nat \ {0} /\ Head(s) = s[1]
      /\ DOMAIN s = 1..Len(s) /\ DOMAIN a = 1..(Len(s) - 1)
      /\ \A i \in 1..(Len(s) - 1): a[i] = s[i + 1]
  OBVIOUS
<1>. HIDE DEF a
<1>2. Head(s) \in Range(s)
  BY <1>1 DEF Range
<1>3. ASSUME IsInjective(s) PROVE IsInjective(a) /\ Range(a) = Range(s) \ {Head(s)}
  <2>. DEFINE n == Len(s)
  <2>0. n \in Nat \ {0} /\ \A i, j \in 1..n: s[i] = s[j] => i = j
    BY <1>1, <1>3 DEF IsInjective
  <2>. HIDE DEF n
  <2>a. \A i \in 1..(n - 1): i + 1 \in 1..n /\ i + 1 # 1 /\ i \in Int
    BY <2>0
  <2>b. DOMAIN s = 1..n /\ DOMAIN a = 1..(n - 1) /\ 1 \in 1..n
        /\ \A i \in 1..(n - 1): a[i] = s[i + 1]
    BY <1>1, <2>0 DEF n
  <2>1. ASSUME NEW i \in 1..(n - 1), NEW j \in 1..(n - 1), a[i] = a[j] PROVE i = j
    <3>1. s[i + 1] = s[j + 1]
      BY <2>b, <2>1
    <3>2. i + 1 = j + 1
      BY <2>0, <2>a, <3>1
    <3>. QED
      BY <2>a, <3>2
  <2>2. ASSUME NEW x \in Range(a) PROVE x \in Range(s) \ {Head(s)}
    <3>1. PICK i \in 1..(n - 1): x = s[i + 1]
      BY <2>b DEF Range
    <3>2. s[i + 1] # s[1]
      BY <2>0, <2>a, <2>b
    <3>. QED
      BY <1>1, <2>a, <2>b, <3>1, <3>2 DEF Range
  <2>3. ASSUME NEW x \in Range(s), x # Head(s) PROVE x \in Range(a)
    <3>1. PICK i \in 1..Len(s): x = s[i]
      BY <1>1 DEF Range
    <3>2. i - 1 \in 1..(Len(s) - 1) /\ (i - 1) + 1 = i
      BY <1>1, <2>3, <3>1
    <3>. QED
      BY <1>1, <3>1, <3>2 DEF Range
  <2>4. IsInjective(a)
    BY <2>b, <2>1 DEF IsInjective
  <2>. QED
    BY <2>2, <2>3, <2>4
<1>. QED
  BY <1>1, <1>2, <1>3 DEF a

\* An entry at the head of a list.
LEMMA PushIs ==
    ASSUME NEW S, NEW s \in Seq(S), NEW d \in S
    PROVE  /\ <<d>> \o s \in Seq(S)
           /\ Range(<<d>> \o s) = Range(s) \cup {d}
           /\ IsInjective(s) /\ d \notin Range(s) => IsInjective(<<d>> \o s)
<1>. DEFINE a == <<d>> \o s
<1>1. /\ a \in Seq(S) /\ Len(a) = Len(s) + 1 /\ Len(s) \in Nat
      /\ DOMAIN s = 1..Len(s) /\ DOMAIN a = 1..(Len(s) + 1)
      /\ a[1] = d
      /\ \A i \in 1..Len(s): a[i + 1] = s[i]
  OBVIOUS
<1>2. \A i \in 2..(Len(s) + 1): i - 1 \in 1..Len(s) /\ a[i] = s[i - 1]
  BY <1>1
<1>. HIDE DEF a
<1>3. Range(a) = Range(s) \cup {d}
  <2>1. ASSUME NEW x \in Range(a) PROVE x \in Range(s) \cup {d}
    <3>1. PICK i \in 1..(Len(s) + 1): x = a[i]
      BY <1>1 DEF Range
    <3>2. CASE i = 1
      BY <1>1, <3>1, <3>2
    <3>3. CASE i # 1
      BY <1>1, <1>2, <3>1, <3>3 DEF Range
    <3>. QED
      BY <3>2, <3>3
  <2>2. ASSUME NEW x \in Range(s) PROVE x \in Range(a)
    BY <1>1 DEF Range
  <2>3. d \in Range(a)
    BY <1>1 DEF Range
  <2>. QED
    BY <2>1, <2>2, <2>3
<1>4. ASSUME IsInjective(s), d \notin Range(s) PROVE IsInjective(a)
  <2>1. ASSUME NEW i \in DOMAIN a, NEW j \in DOMAIN a, a[i] = a[j] PROVE i = j
    <3>1. \A k \in 2..(Len(s) + 1): a[k] \in Range(s)
      BY <1>1, <1>2 DEF Range
    <3>2. i \in 1..(Len(s) + 1) /\ j \in 1..(Len(s) + 1)
      BY <1>1
    <3>3. CASE i = 1 \/ j = 1
      BY <1>1, <1>4, <2>1, <3>1, <3>2, <3>3
    <3>4. CASE i # 1 /\ j # 1
      <4>1. i - 1 \in DOMAIN s /\ j - 1 \in DOMAIN s /\ s[i - 1] = s[j - 1]
        BY <1>1, <1>2, <2>1, <3>2, <3>4
      <4>2. i - 1 = j - 1
        BY <1>4, <4>1 DEF IsInjective
      <4>. QED
        BY <3>2, <4>2
    <3>. QED
      BY <3>3, <3>4
  <2>. QED
    BY <2>1 DEF IsInjective
<1>. QED
  BY <1>1, <1>3, <1>4 DEF a

\* An entry deleted wherever it is.
LEMMA WithoutAt ==
    ASSUME NEW S, NEW s \in Seq(S), NEW d \in Range(s)
    PROVE  \E k \in 1..Len(s):
             /\ s[k] = d /\ Without(s, d) \in Seq(S)
             /\ DOMAIN Without(s, d) = 1..(Len(s) - 1)
             /\ \A i \in 1..(Len(s) - 1): Without(s, d)[i] = IF i < k THEN s[i] ELSE s[i + 1]
<1>. DEFINE k == CHOOSE i \in DOMAIN s: s[i] = d
            a == RemoveAt(s, k)
            n == Len(s)
<1>1. n \in Nat /\ DOMAIN s = 1..n /\ \A i \in 1..n: s[i] \in S
  OBVIOUS
<1>2. \E i \in DOMAIN s: s[i] = d
  BY DEF Range
<1>3. k \in 1..n /\ s[k] = d
  BY <1>1, <1>2
<1>4. a = Without(s, d)
  BY DEF Without
<1>. DEFINE l == SubSeq(s, 1, k - 1)
            r == SubSeq(s, k + 1, n)
<1>. HIDE DEF k
<1>5. /\ l \in Seq(S) /\ Len(l) = k - 1
      /\ \A i \in 1..(k - 1): l[i] = s[i]
  <2>1. \A i \in 1..(k - 1): s[i] \in S
    BY <1>1, <1>3
  <2>2. 1 \in Int /\ k - 1 \in Int /\ (k - 1) - 1 + 1 = k - 1
    BY <1>1, <1>3
  <2>3. /\ l \in Seq(S) /\ Len(l) = IF 1 <= k - 1 THEN (k - 1) - 1 + 1 ELSE 0
        /\ \A i \in 1..((k - 1) - 1 + 1): l[i] = s[1 + i - 1]
    BY <2>1, <2>2, SubSeqProperties
  <2>. QED
    BY <1>1, <1>3, <2>3
<1>6. /\ r \in Seq(S) /\ Len(r) = n - k
      /\ \A i \in 1..(n - k): r[i] = s[k + i]
  <2>1. \A i \in (k + 1)..n: s[i] \in S
    BY <1>1, <1>3
  <2>2. k + 1 \in Int /\ n \in Int
    BY <1>1, <1>3
  <2>3. /\ r \in Seq(S) /\ Len(r) = IF k + 1 <= n THEN n - (k + 1) + 1 ELSE 0
        /\ \A i \in 1..(n - (k + 1) + 1): r[i] = s[(k + 1) + i - 1]
    BY <2>1, <2>2, SubSeqProperties
  <2>4. n \in Nat /\ k \in Nat /\ k <= n
    BY <1>1, <1>3
  <2>. HIDE DEF r, n
  <2>5. n - (k + 1) + 1 = n - k /\ (~(k + 1 <= n) => n - k = 0)
    BY <2>4
  <2>6. \A i \in 1..(n - k): (k + 1) + i - 1 = k + i
    BY <2>4
  <2>. QED
    BY <2>3, <2>5, <2>6
<1>7. a = l \o r
  BY DEF RemoveAt
<1>. HIDE DEF l, r, a
<1>8. /\ a \in Seq(S) /\ DOMAIN a = 1..(n - 1)
      /\ \A i \in 1..(n - 1): a[i] = IF i < k THEN s[i] ELSE s[i + 1]
  <2>1. /\ a \in Seq(S) /\ Len(a) = Len(l) + Len(r)
        /\ \A i \in 1..Len(l) + Len(r): a[i] = IF i <= Len(l) THEN l[i] ELSE r[i - Len(l)]
    BY <1>5, <1>6, <1>7, ConcatProperties
  <2>2. Len(a) = n - 1 /\ Len(l) + Len(r) = n - 1
    BY <1>1, <1>3, <1>5, <1>6, <2>1
  <2>3. ASSUME NEW i \in 1..(n - 1)
        PROVE  a[i] = IF i < k THEN s[i] ELSE s[i + 1]
    <3>1. CASE i < k
      <4>1. i \in 1..(k - 1) /\ i <= Len(l)
        BY <1>1, <1>3, <1>5, <3>1
      <4>. QED
        BY <1>5, <2>1, <2>2, <3>1, <4>1
    <3>2. CASE ~(i < k)
      <4>1. i - (k - 1) \in 1..(n - k) /\ ~(i <= Len(l)) /\ k + (i - (k - 1)) = i + 1
        BY <1>1, <1>3, <1>5, <3>2
      <4>. QED
        BY <1>5, <1>6, <2>1, <2>2, <3>2, <4>1, SMTT(60)
    <3>. QED
      BY <3>1, <3>2
  <2>. QED
    BY <2>1, <2>2, <2>3
<1>. QED
  BY <1>3, <1>4, <1>8

\* What is left of a list.
LEMMA WithoutIs ==
    ASSUME NEW S, NEW s \in Seq(S), NEW d, IsInjective(s)
    PROVE  /\ Without(s, d) \in Seq(S)
           /\ Range(Without(s, d)) = Range(s) \ {d}
           /\ IsInjective(Without(s, d))
<1>1. CASE d \notin Range(s)
  BY <1>1 DEF Without
<1>2. CASE d \in Range(s)
  <2>. DEFINE a == Without(s, d)
              n == Len(s)
  <2>1. n \in Nat /\ DOMAIN s = 1..n /\ \A i \in 1..n: s[i] \in S
    OBVIOUS
  <2>2. PICK k \in 1..n:
          /\ s[k] = d /\ a \in Seq(S) /\ DOMAIN a = 1..(n - 1)
          /\ \A i \in 1..(n - 1): a[i] = IF i < k THEN s[i] ELSE s[i + 1]
    BY <1>2, WithoutAt
  <2>. HIDE DEF a, n
  <2>3. IsInjective(a)
    <3>1. \A i, j \in 1..n: s[i] = s[j] => i = j
      BY <2>1 DEF IsInjective
    <3>2. \A i \in 1..(n - 1): i \in Int /\ i \in 1..n /\ i + 1 \in 1..n
      BY <2>1
    <3>3. ASSUME NEW i \in 1..(n - 1), NEW j \in 1..(n - 1), a[i] = a[j] PROVE i = j
      <4>. DEFINE at(q) == IF q < k THEN q ELSE q + 1
      <4>1. a[i] = s[at(i)] /\ a[j] = s[at(j)] /\ at(i) \in 1..n /\ at(j) \in 1..n
        BY <2>2, <3>2
      <4>2. at(i) = at(j)
        BY <3>1, <3>3, <4>1
      <4>. QED
        BY <2>1, <2>2, <3>2, <4>2
    <3>. QED
      BY <2>2, <3>3 DEF IsInjective
  <2>4. Range(a) = Range(s) \ {d}
    <3>1. ASSUME NEW x \in Range(a) PROVE x \in Range(s) \ {d}
      <4>1. PICK i \in 1..(n - 1): x = a[i]
        BY <2>2 DEF Range
      <4>2. PICK j \in 1..n: x = s[j] /\ j # k
        <5>1. CASE i < k
          <6>1. i \in 1..n /\ i # k
            BY <2>1, <2>2, <5>1
          <6>. QED
            BY <2>2, <4>1, <5>1, <6>1
        <5>2. CASE ~(i < k)
          <6>1. i + 1 \in 1..n /\ i + 1 # k
            BY <2>1, <2>2, <5>2
          <6>. QED
            BY <2>2, <4>1, <5>2, <6>1
        <5>. QED
          BY <5>1, <5>2
      <4>. QED
        BY <2>1, <2>2, <4>2 DEF IsInjective, Range
    <3>2. ASSUME NEW x \in Range(s), x # d PROVE x \in Range(a)
      <4>1. PICK j \in 1..n: x = s[j]
        BY <2>1 DEF Range
      <4>2. CASE j < k
        <5>1. j \in 1..(n - 1)
          BY <2>1, <2>2, <4>2
        <5>. QED
          BY <2>2, <4>1, <4>2, <5>1 DEF Range
      <4>3. CASE ~(j < k)
        <5>1. j - 1 \in 1..(n - 1) /\ ~(j - 1 < k) /\ (j - 1) + 1 = j
          BY <2>1, <2>2, <3>2, <4>1, <4>3
        <5>. QED
          BY <2>2, <4>1, <5>1 DEF Range
      <4>. QED
        BY <4>2, <4>3
    <3>. QED
      BY <3>1, <3>2
  <2>. QED
    BY <2>2, <2>3, <2>4 DEF a
<1>. QED
  BY <1>1, <1>2

\* An empty list.
LEMMA NothingListed ==
    ASSUME NEW S
    PROVE  <<>> \in Seq(S) /\ Range(<<>>) = {} /\ IsInjective(<<>>)
<1>1. <<>> \in Seq(S) /\ Len(<<>>) = 0
  BY EmptySeq
<1>2. DOMAIN <<>> = {}
  BY <1>1, DOMAIN <<>> = 1..Len(<<>>)
<1>3. Range(<<>>) = {}
  BY <1>2 DEF Range
<1>4. IsInjective(<<>>)
  BY <1>2 DEF IsInjective
<1>. QED
  BY <1>1, <1>3, <1>4

-------------------------------------------------------------------------------
(* The lists together *)

Items == Deaths \cup Msgs
Separate(td, dl) ==
    /\ \A l, k \in Lists: l # k => Range(td[l]) \cap Range(td[k]) = {}
    /\ \A l \in Lists: Range(td[l]) \cap Range(dl) = {} /\ IsInjective(td[l])
    /\ IsInjective(dl)

\* An item that is on no list is queued on one.
LEMMA QueueIs ==
    ASSUME todo \in [Lists -> Seq(Items)], NEW dl, Separate(todo, dl),
           NEW k \in Lists, NEW d \in Items,
           d \notin Range(dl), \A l \in Lists: d \notin Range(todo[l]),
           todo' = [todo EXCEPT ![k] = Append(@, d)]
    PROVE  /\ todo' \in [Lists -> Seq(Items)] /\ Separate(todo', dl)
           /\ Range(todo'[k]) = Range(todo[k]) \cup {d}
           /\ \A l \in Lists: l # k => Range(todo'[l]) = Range(todo[l])
<1>1. /\ Append(todo[k], d) \in Seq(Items)
      /\ Range(Append(todo[k], d)) = Range(todo[k]) \cup {d}
      /\ IsInjective(Append(todo[k], d))
  BY AppendIs DEF Separate
<1>2. /\ todo' \in [Lists -> Seq(Items)] /\ todo'[k] = Append(todo[k], d)
      /\ \A l \in Lists: l # k => todo'[l] = todo[l]
  BY <1>1
<1>3. /\ Range(todo'[k]) = Range(todo[k]) \cup {d} /\ IsInjective(todo'[k])
      /\ \A l \in Lists: l # k => Range(todo'[l]) = Range(todo[l]) /\ IsInjective(todo'[l])
  BY <1>1, <1>2, Zenon DEF Separate
<1>4. Separate(todo', dl)
  BY <1>3 DEF Separate
<1>. QED
  BY <1>2, <1>3, <1>4

\* The first item of a list is taken.
LEMMA TakeIs ==
    ASSUME todo \in [Lists -> Seq(Items)], NEW dl, Separate(todo, dl),
           NEW k \in Lists, todo[k] # <<>>, todo' = [todo EXCEPT ![k] = Tail(@)]
    PROVE  /\ todo' \in [Lists -> Seq(Items)] /\ Separate(todo', dl)
           /\ Head(todo[k]) \in Items /\ Head(todo[k]) \in Range(todo[k])
           /\ \A l \in Lists: Range(todo'[l]) = Range(todo[l]) \ {Head(todo[k])}
<1>1. /\ Tail(todo[k]) \in Seq(Items) /\ Head(todo[k]) \in Items
      /\ Head(todo[k]) \in Range(todo[k])
      /\ Range(Tail(todo[k])) = Range(todo[k]) \ {Head(todo[k])}
      /\ IsInjective(Tail(todo[k]))
  BY TailIs DEF Separate
<1>2. /\ todo' \in [Lists -> Seq(Items)] /\ todo'[k] = Tail(todo[k])
      /\ \A l \in Lists: l # k => todo'[l] = todo[l]
  BY <1>1
<1>3. \A l \in Lists: /\ Range(todo'[l]) = Range(todo[l]) \ {Head(todo[k])}
                      /\ IsInjective(todo'[l])
  BY <1>1, <1>2 DEF Separate
<1>4. Separate(todo', dl)
  BY <1>3 DEF Separate
<1>. QED
  BY <1>1, <1>2, <1>3, <1>4

\* An item is deleted from delivered_death, if it is there.
LEMMA RemoveIs ==
    ASSUME delivered \in Seq(Deaths), Separate(todo, delivered),
           NEW d, delivered' = Without(delivered, d)
    PROVE  /\ delivered' \in Seq(Deaths) /\ Separate(todo, delivered')
           /\ Range(delivered') = Range(delivered) \ {d}
<1>1. /\ delivered' \in Seq(Deaths) /\ Range(delivered') = Range(delivered) \ {d}
      /\ IsInjective(delivered')
  BY WithoutIs DEF Separate
<1>. QED
  BY <1>1 DEF Separate

\* An item is deleted from whichever list it is on.
LEMMA DeleteIs ==
    ASSUME todo \in [Lists -> Seq(Items)], delivered \in Seq(Deaths),
           Separate(todo, delivered), NEW d,
           todo' = [l \in Lists |-> Without(todo[l], d)], delivered' = Without(delivered, d)
    PROVE  /\ todo' \in [Lists -> Seq(Items)] /\ delivered' \in Seq(Deaths)
           /\ Separate(todo', delivered')
           /\ \A l \in Lists: Range(todo'[l]) = Range(todo[l]) \ {d}
           /\ Range(delivered') = Range(delivered) \ {d}
<1>1. \A l \in Lists: /\ Without(todo[l], d) \in Seq(Items)
                      /\ Range(Without(todo[l], d)) = Range(todo[l]) \ {d}
                      /\ IsInjective(Without(todo[l], d))
  BY WithoutIs DEF Separate
<1>2. /\ delivered' \in Seq(Deaths) /\ Range(delivered') = Range(delivered) \ {d}
      /\ Separate(todo, delivered')
  BY RemoveIs
<1>3. todo' \in [Lists -> Seq(Items)] /\ \A l \in Lists: todo'[l] = Without(todo[l], d)
  BY <1>1
<1>. QED
  BY <1>1, <1>2, <1>3 DEF Separate

\* The list of a thread is emptied.
LEMMA EmptyIs ==
    ASSUME todo \in [Lists -> Seq(Items)], NEW dl, Separate(todo, dl),
           NEW t \in Lists, todo' = [todo EXCEPT ![t] = <<>>]
    PROVE  /\ todo' \in [Lists -> Seq(Items)] /\ Separate(todo', dl)
           /\ Range(todo'[t]) = {}
           /\ \A l \in Lists: l # t => Range(todo'[l]) = Range(todo[l])
<1>1. <<>> \in Seq(Items) /\ Range(<<>>) = {} /\ IsInjective(<<>>)
  BY NothingListed
<1>2. /\ todo' \in [Lists -> Seq(Items)] /\ todo'[t] = <<>>
      /\ \A l \in Lists: l # t => todo'[l] = todo[l]
  BY <1>1
<1>3. /\ Range(todo'[t]) = {} /\ IsInjective(todo'[t])
      /\ \A l \in Lists: l # t => Range(todo'[l]) = Range(todo[l]) /\ IsInjective(todo'[l])
  BY <1>1, <1>2 DEF Separate
<1>4. Separate(todo', dl)
  BY <1>3 DEF Separate
<1>. QED
  BY <1>2, <1>3, <1>4

-------------------------------------------------------------------------------
(* The inductive invariant *)

Carriers(n) == {m \in Msgs: msg[m].node = n}

\* Handles name one node each; a reference is counted while it has a name, and
\* for every transaction that carries it.
Counts ==
    /\ \A n, o \in Nodes: ref[n].desc = ref[o].desc /\ ref[n].desc # NIL => n = o
    /\ \A n \in Nodes: IF ref[n].desc = NIL THEN ref[n] = NoRef ELSE ref[n].count >= 1
    /\ \A n \in Nodes: Cardinality(Carriers(n)) <= ref[n].count
    /\ \A m \in Msgs: msg[m].st = "free" => msg[m].node = NIL

Single == \A n, o \in Nodes: ref[n].death = ref[o].death /\ ref[n].death # NIL => n = o

\* The type of a notification tells where it is.
Fate(d) ==
    /\ Owned(d) <=> death[d].type \in {"armed", "dead"}
    /\ Queued(d) => death[d].type \in {"dead", "deadclear", "clear"}
    /\ death[d].type \in {"deadclear", "clear"} => Queued(d)
    /\ d \in Range(delivered) => death[d].type # "clear"
    /\ death[d].told => death[d].done \/ d \in Range(delivered)

\* That of a living node has not been queued.
Living == \A n \in alive: ref[n].death # NIL => death[ref[n].death].type = "armed"

Messages == \A l \in Lists, m \in Msgs: m \in Range(todo[l]) => msg[m].st = "queued"

IInv ==
    /\ TypeOK
    /\ Separate(todo, delivered)
    /\ Counts
    /\ Single
    /\ \A d \in Deaths: Fate(d)
    /\ Living
    /\ Messages
    /\ ~bug

-------------------------------------------------------------------------------
(* References, counts and the transactions that carry them *)

\* While a node has no name among the references, one handle is free.
LEMMA NewDescIs ==
    ASSUME TypeOK, Counts, NEW n \in Nodes, ref[n].desc = NIL
    PROVE  NewDesc \in Handles /\ Named(NewDesc) = {}
<1>. DEFINE free == {h \in Handles: Named(h) = {}}
            c == Cardinality(Nodes)
<1>1. IsFiniteSet(Nodes) /\ c \in Nat
  BY DeathItems, FS_CardinalityType
<1>2. free # {}
  <2>. SUFFICES ASSUME free = {} PROVE FALSE
    OBVIOUS
  <2>. DEFINE f == [h \in Handles |-> CHOOSE x \in Nodes: ref[x].desc = h]
  <2>1. \A h \in Handles: \E x \in Nodes: ref[x].desc = h
    BY DEF Named
  <2>2. \A h \in Handles: f[h] \in Nodes /\ ref[f[h]].desc = h
    BY <2>1
  <2>3. NIL \notin Handles
    BY DeathNil, <1>1 DEF Handles
  <2>. HIDE DEF f
  <2>4. f \in [Handles -> Nodes \ {n}]
    BY <2>2, <2>3, f = [h \in Handles |-> f[h]] DEF f
  <2>5. /\ IsFiniteSet(Nodes \ {n}) /\ Cardinality(Nodes \ {n}) = c - 1
    BY <1>1, FS_RemoveElement
  <2>6. IsFiniteSet(Handles) /\ Cardinality(Handles) = c
    BY <1>1, FS_Interval DEF Handles
  <2>7. \E x, y \in Handles: x # y /\ f[x] = f[y]
    BY <1>1, <2>4, <2>5, <2>6, FS_PigeonHole
  <2>. QED
    BY <2>2, <2>7
<1>3. free \in SUBSET Nat
  BY <1>1 DEF Handles
<1>4. PICK h \in free: \A k \in free: ~(<<k, h>> \in OpToRel(<, Nat))
  BY <1>2, <1>3, NatLessThanWellFounded, WFMin
<1>5. \A k \in free: h <= k
  <2>1. \A k \in free: ~(k < h)
    BY <1>3, <1>4 DEF OpToRel
  <2>2. \A k \in free: k \in Nat /\ h \in Nat
    BY <1>3
  <2>. HIDE DEF free
  <2>. QED
    BY <2>1, <2>2
<1>6. \E x \in Handles: Named(x) = {} /\ \A k \in Handles: Named(k) = {} => x <= k
  BY <1>5
<1>. QED
  BY <1>6 DEF NewDesc

\* A buffer takes a count, and a name where there was none.
LEMMA CountedIs ==
    ASSUME TypeOK, Counts, NEW n \in Nodes, NEW r, r = Counted(n)
    PROVE  /\ r \in [Nodes -> Ref]
           /\ \A o \in Nodes: r[o].death = ref[o].death /\ (o # n => r[o] = ref[o])
           /\ r[n].desc # NIL /\ r[n].count = ref[n].count + 1
           /\ \A o, q \in Nodes: r[o].desc = r[q].desc /\ r[o].desc # NIL => o = q
<1>1. CASE ref[n].desc = NIL
  <2>1. NewDesc \in Handles /\ Named(NewDesc) = {}
    BY <1>1, NewDescIs
  <2>2. NewDesc # NIL
    BY <2>1, DeathNil, DeathItems, FS_CardinalityType DEF Handles
  <2>3. ref[n] = NoRef
    BY <1>1 DEF Counts
  <2>. DEFINE v == [NoRef EXCEPT !.desc = NewDesc, !.count = 1]
  <2>4. /\ r = [ref EXCEPT ![n] = v] /\ ref \in [Nodes -> Ref]
        /\ v \in Ref /\ v.desc = NewDesc /\ v.count = 1 /\ v.death = NIL
    BY <1>1, <2>1 DEF Counted, NoRef, Ref, TypeOK
  <2>5. \A o \in Nodes: ref[o].desc # NewDesc
    BY <2>1 DEF Named
  <2>. HIDE DEF v
  <2>6. /\ r \in [Nodes -> Ref] /\ r[n] = v
        /\ \A o \in Nodes: o # n => r[o] = ref[o]
    BY <2>4
  <2>7. ref[n].count = 0 /\ ref[n].death = NIL
    BY <2>3 DEF NoRef
  <2>. QED
    BY <2>2, <2>4, <2>5, <2>6, <2>7 DEF Counts
<1>2. CASE ref[n].desc # NIL
  <2>1. r = [ref EXCEPT ![n].count = @ + 1]
    BY <1>2 DEF Counted
  <2>2. ref \in [Nodes -> Ref]
    BY DEF TypeOK
  <2>3. /\ r \in [Nodes -> Ref] /\ \A o \in Nodes: o # n => r[o] = ref[o]
        /\ r[n].desc = ref[n].desc /\ r[n].death = ref[n].death
        /\ r[n].count = ref[n].count + 1
    BY <2>1, <2>2 DEF Ref
  <2>. QED
    BY <1>2, <2>3 DEF Counts
<1>. QED
  BY <1>1, <1>2

LEMMA CarriersFinite ==
    ASSUME NEW n
    PROVE  /\ IsFiniteSet(Carriers(n)) /\ Cardinality(Carriers(n)) \in Nat
           /\ Cardinality(Carriers(n)') \in Nat
BY DeathItems, FS_Subset, FS_CardinalityType DEF Carriers

\* A transaction that is sent carries one count more.
LEMMA CarryMore ==
    ASSUME msg \in [Msgs -> Msg], NEW m \in Msgs, msg[m].node = NIL, NEW x \in Msg,
           msg' = [msg EXCEPT ![m] = x]
    PROVE  \A n \in Nodes: Cardinality(Carriers(n)')
                              = Cardinality(Carriers(n)) + (IF n = x.node THEN 1 ELSE 0)
<1>. TAKE n \in Nodes
<1>1. n # NIL
  BY DeathNil
<1>2. Carriers(n)' = IF n = x.node THEN Carriers(n) \cup {m} ELSE Carriers(n)
  BY <1>1 DEF Carriers
<1>3. m \notin Carriers(n)
  BY <1>1 DEF Carriers
<1>4. IsFiniteSet(Carriers(n)) /\ Cardinality(Carriers(n)) \in Nat
  BY CarriersFinite
<1>5. Cardinality(Carriers(n) \cup {m}) = Cardinality(Carriers(n)) + 1
  BY <1>3, <1>4, FS_AddElement
<1>. QED
  BY <1>2, <1>4, <1>5

\* One that is answered gives its count back.
LEMMA CarryLess ==
    ASSUME msg \in [Msgs -> Msg], NEW m \in Msgs, msg' = [msg EXCEPT ![m] = NoMsg]
    PROVE  \A n \in Nodes: Cardinality(Carriers(n)')
                              = Cardinality(Carriers(n)) - (IF n = msg[m].node THEN 1 ELSE 0)
<1>. TAKE n \in Nodes
<1>1. n # NIL
  BY DeathNil
<1>2. Carriers(n)' = IF n = msg[m].node THEN Carriers(n) \ {m} ELSE Carriers(n)
  BY <1>1 DEF Carriers, NoMsg
<1>3. n = msg[m].node => m \in Carriers(n)
  BY DEF Carriers
<1>4. IsFiniteSet(Carriers(n)) /\ Cardinality(Carriers(n)) \in Nat
  BY CarriersFinite
<1>5. m \in Carriers(n) => Cardinality(Carriers(n) \ {m}) = Cardinality(Carriers(n)) - 1
  BY <1>4, FS_RemoveElement
<1>. QED
  BY <1>2, <1>3, <1>4, <1>5

\* A reference that loses a count, and its notification with the last.
LEMMA UncountIs ==
    ASSUME TypeOK, Separate(todo, delivered), Single, \A d \in Deaths: Fate(d), Living,
           NEW n \in Nodes, ref[n].count >= 1, Uncount(n), alive' = alive
    PROVE  /\ ref' \in [Nodes -> Ref] /\ death' \in [Deaths -> Death]
           /\ todo' \in [Lists -> Seq(Items)] /\ delivered' \in Seq(Deaths)
           /\ Separate(todo, delivered)' /\ Single' /\ (\A d \in Deaths: Fate(d)') /\ Living'
           /\ \A l \in Lists: Range(todo'[l]) \subseteq Range(todo[l])
           /\ \A o \in Nodes: o # n => ref'[o] = ref[o]
           /\ IF ref[n].count = 1 THEN ref'[n] = NoRef
              ELSE ref'[n].desc = ref[n].desc /\ ref'[n].count = ref[n].count - 1
<1>. DEFINE d == ref[n].death
<1>1. /\ todo \in [Lists -> Seq(Items)] /\ delivered \in Seq(Deaths)
      /\ ref \in [Nodes -> Ref] /\ death \in [Deaths -> Death] /\ alive \in SUBSET Nodes
  BY DEF TypeOK, Items
<1>2. /\ ref' \in [Nodes -> Ref]
      /\ \A o \in Nodes: o # n => ref'[o] = ref[o]
      /\ IF ref[n].count = 1 THEN ref'[n] = NoRef
         ELSE /\ ref'[n].desc = ref[n].desc /\ ref'[n].count = ref[n].count - 1
              /\ ref'[n].death = ref[n].death
  <2>1. CASE ref[n].count = 1
    <3>1. ref' = [ref EXCEPT ![n] = NoRef]
      BY <2>1 DEF Uncount
    <3>. QED
      BY <1>1, <2>1, <3>1 DEF Ref, NoRef
  <2>2. CASE ref[n].count # 1
    <3>1. ref' = [ref EXCEPT ![n].count = @ - 1]
      BY <2>2 DEF Uncount
    <3>2. ref \in [Nodes -> Ref]
      BY <1>1
    <3>3. ref' \in [Nodes -> Ref]
      BY <2>2, <3>1, <3>2 DEF Ref
    <3>. QED
      BY <2>2, <3>1, <3>2, <3>3 DEF Ref
  <2>. QED
    BY <2>1, <2>2
<1>3. \A o \in Nodes: \/ ref'[o].death = ref[o].death
                      \/ o = n /\ ref[n].count = 1 /\ ref'[o].death = NIL
  <2>1. NoRef.death = NIL
    BY DEF NoRef
  <2>. QED
    BY <1>2, <2>1
<1>4. Single'
  BY <1>3 DEF Single
<1>5. CASE ref[n].count = 1 /\ d # NIL
  <2>1. /\ death' = [death EXCEPT ![d] = NoDeath]
        /\ todo' = [l \in Lists |-> Without(todo[l], d)]
        /\ delivered' = Without(delivered, d)
    BY <1>5 DEF Uncount
  <2>. HIDE DEF d
  <2>2. /\ todo' \in [Lists -> Seq(Items)] /\ delivered' \in Seq(Deaths)
        /\ Separate(todo', delivered')
        /\ \A l \in Lists: Range(todo'[l]) = Range(todo[l]) \ {d}
        /\ Range(delivered') = Range(delivered) \ {d}
    BY <1>1, <2>1, DeleteIs
  <2>3. d \in Deaths
    BY <1>1, <1>5 DEF d, Ref
  <2>4. ref'[n].death = NIL
    BY <1>2, <1>5 DEF NoRef
  <2>5. \A e \in Deaths: Owned(e)' <=> Owned(e) /\ e # d
    BY <1>2, <2>3, <2>4, DeathNil DEF d, Owned, Single
  <2>6. \A e \in Deaths: Queued(e)' <=> Queued(e) /\ e # d
    BY <2>2 DEF Queued
  <2>7. /\ death' \in [Deaths -> Death] /\ death'[d] = NoDeath
        /\ \A e \in Deaths: e # d => death'[e] = death[e]
    BY <1>1, <2>1, <2>3 DEF Death, NoDeath
  <2>8. ASSUME NEW e \in Deaths PROVE Fate(e)'
    BY <2>2, <2>5, <2>6, <2>7 DEF Fate, NoDeath
  <2>9. Living'
    BY <1>1, <1>2, <1>3, <1>5, <2>4, <2>7, DeathNil DEF d, Living, Single, Ref
  <2>. QED
    BY <1>2, <1>4, <2>2, <2>7, <2>8, <2>9 DEF Separate
<1>6. CASE ~(ref[n].count = 1 /\ d # NIL)
  <2>1. UNCHANGED <<death, todo, delivered>>
    BY <1>6 DEF Uncount
  <2>2. \A o \in Nodes: ref'[o].death = ref[o].death
    BY <1>3, <1>6
  <2>3. \A e \in Deaths: (Owned(e)' <=> Owned(e)) /\ (Queued(e)' <=> Queued(e))
    BY <2>1, <2>2 DEF Owned, Queued
  <2>4. ASSUME NEW e \in Deaths PROVE Fate(e)'
    BY <2>1, <2>3 DEF Fate
  <2>5. Living'
    BY <1>1, <2>1, <2>2 DEF Living
  <2>. QED
    BY <1>1, <1>2, <1>4, <2>1, <2>4, <2>5 DEF Separate
<1>. QED
  BY <1>5, <1>6

\* Counts that hold before a count is given back hold after.
LEMMA CountsAfter ==
    ASSUME TypeOK, Counts, NEW n \in Nodes, ref[n].desc # NIL, ref[n].count >= 1,
           \A o \in Nodes: o # n => ref'[o] = ref[o],
           IF ref[n].count = 1 THEN ref'[n] = NoRef
           ELSE ref'[n].desc = ref[n].desc /\ ref'[n].count = ref[n].count - 1,
           \A o \in Nodes: Cardinality(Carriers(o)') <= Cardinality(Carriers(o)),
           Cardinality(Carriers(n)') <= ref[n].count - 1,
           \A m \in Msgs: msg'[m].st = "free" => msg'[m].node = NIL
    PROVE  Counts'
<1>1. NoRef.desc = NIL /\ NoRef.count = 0
  BY DEF NoRef
<1>2. \A o \in Nodes: /\ ref[o].count \in Nat
                      /\ Cardinality(Carriers(o)) \in Nat /\ Cardinality(Carriers(o)') \in Nat
  BY CarriersFinite DEF TypeOK, Ref
<1>3. \A o, q \in Nodes: ref'[o].desc = ref'[q].desc /\ ref'[o].desc # NIL => o = q
  BY <1>1 DEF Counts
<1>4. \A o \in Nodes: IF ref'[o].desc = NIL THEN ref'[o] = NoRef ELSE ref'[o].count >= 1
  BY <1>1, <1>2 DEF Counts
<1>5. \A o \in Nodes: Cardinality(Carriers(o)') <= ref'[o].count
  BY <1>1, <1>2 DEF Counts
<1>. QED
  BY <1>3, <1>4, <1>5 DEF Counts

-------------------------------------------------------------------------------
(* The invariant *)

LEMMA InitInv == Init => IInv
<1>. SUFFICES ASSUME Init PROVE IInv
  OBVIOUS
<1>1. \A l \in Lists: todo[l] \in Seq(Items) /\ Range(todo[l]) = {} /\ IsInjective(todo[l])
  BY NothingListed DEF Init
<1>2. delivered \in Seq(Deaths) /\ Range(delivered) = {} /\ IsInjective(delivered)
  BY NothingListed DEF Init
<1>3. TypeOK
  <2>1. NoRef \in Ref /\ NoDeath \in Death /\ NoMsg \in Msg
    BY DEF NoRef, Ref, NoDeath, Death, NoMsg, Msg
  <2>. QED
    BY <1>1, <1>2, <2>1 DEF Init, TypeOK, Items
<1>4. Counts
  <2>1. \A n \in Nodes: Carriers(n) = {}
    BY DeathNil DEF Init, Carriers, NoMsg
  <2>2. \A n \in Nodes: Cardinality(Carriers(n)) = 0
    BY <2>1, FS_EmptySet
  <2>3. \A n \in Nodes: ref[n] = NoRef /\ ref[n].desc = NIL /\ ref[n].count = 0
    BY DEF Init, NoRef
  <2>4. \A m \in Msgs: msg[m].node = NIL
    BY DEF Init, NoMsg
  <2>. QED
    BY <2>2, <2>3, <2>4 DEF Counts
<1>5. \A d \in Deaths: Fate(d)
  BY <1>1, <1>2, DeathNil DEF Init, Fate, Owned, Queued, NoRef, NoDeath
<1>. QED
  BY <1>1, <1>2, <1>3, <1>4, <1>5 DEF Init, IInv, Separate, Single, Living, Messages, NoRef

\* Where the items are, for the steps below.
LEMMA Shape ==
    ASSUME IInv
    PROVE  /\ todo \in [Lists -> Seq(Items)] /\ delivered \in Seq(Deaths)
           /\ Range(delivered) \subseteq Deaths
           /\ ref \in [Nodes -> Ref] /\ death \in [Deaths -> Death] /\ msg \in [Msgs -> Msg]
           /\ alive \in SUBSET Nodes /\ looper \in SUBSET Threads
           /\ open \in BOOLEAN /\ bug = FALSE
           /\ Separate(todo, delivered) /\ Proc \in Lists
           /\ \A t \in Threads: t \in Lists /\ ListFor(t) \in Lists
<1>1. delivered \in Seq(Deaths)
  BY DEF IInv, TypeOK
<1>2. Range(delivered) \subseteq Deaths
  BY <1>1 DEF Range
<1>. QED
  BY <1>1, <1>2 DEF IInv, TypeOK, Items, Lists, ListFor

LEMMA SendInv ==
    ASSUME IInv, NEW m \in Msgs, NEW n \in Nodes \cup {NIL}, Send(m, n)
    PROVE  IInv'
<1>. DEFINE x == [st |-> "queued", node |-> n, by |-> NIL]
<1>1. /\ msg[m].st = "free" /\ msg[m].node = NIL
      /\ \A l \in Lists: m \notin Range(todo[l])
      /\ m \in Items /\ m \notin Range(delivered) /\ m \notin Deaths
  BY Shape, DeathItems DEF Send, IInv, Counts, Messages, Items
<1>2. x \in Msg /\ x.node = n /\ x.st = "queued"
  BY DEF Msg
<1>3. /\ todo' = [todo EXCEPT ![Proc] = Append(@, m)] /\ msg' = [msg EXCEPT ![m] = x]
      /\ ref' = IF n = NIL THEN ref ELSE Counted(n)
      /\ UNCHANGED <<open, alive, death, delivered, looper, bug>>
  BY DEF Send
<1>. HIDE DEF x
<1>4. /\ todo' \in [Lists -> Seq(Items)] /\ Separate(todo', delivered)
      /\ Range(todo'[Proc]) = Range(todo[Proc]) \cup {m}
      /\ \A l \in Lists: l # Proc => Range(todo'[l]) = Range(todo[l])
  BY ZenonT(60), <1>1, <1>3, Shape, QueueIs
<1>5. \A o \in Nodes: Cardinality(Carriers(o)')
                        = Cardinality(Carriers(o)) + (IF o = n THEN 1 ELSE 0)
  BY <1>1, <1>2, <1>3, Shape, CarryMore
<1>6. msg' \in [Msgs -> Msg] /\ \A k \in Msgs: msg'[k] = IF k = m THEN x ELSE msg[k]
  BY <1>2, <1>3, Shape
<1>7. /\ ref' \in [Nodes -> Ref]
      /\ \A o \in Nodes: ref'[o].death = ref[o].death /\ (o # n => ref'[o] = ref[o])
      /\ n # NIL => ref'[n].desc # NIL /\ ref'[n].count = ref[n].count + 1
      /\ \A o, q \in Nodes: ref'[o].desc = ref'[q].desc /\ ref'[o].desc # NIL => o = q
  <2>1. CASE n = NIL
    BY <1>3, <2>1, Shape, DeathNil DEF IInv, Counts
  <2>2. CASE n # NIL
    <3>1. n \in Nodes /\ ref' = Counted(n)
      BY <1>3, <2>2
    <3>. QED
      BY <3>1, CountedIs DEF IInv
  <2>. QED
    BY <2>1, <2>2
<1>8. Counts'
  <2>1. \A o \in Nodes: ref[o].count \in Nat /\ Cardinality(Carriers(o)) \in Nat
    BY Shape, CarriersFinite DEF Ref
  <2>2. \A o \in Nodes: IF ref'[o].desc = NIL THEN ref'[o] = NoRef ELSE ref'[o].count >= 1
    BY <1>7, <2>1, DeathNil DEF IInv, Counts
  <2>3. \A o \in Nodes: Cardinality(Carriers(o)') <= ref'[o].count
    BY <1>5, <1>7, <2>1, DeathNil DEF IInv, Counts
  <2>4. \A k \in Msgs: msg'[k].st = "free" => msg'[k].node = NIL
    BY <1>2, <1>6 DEF IInv, Counts
  <2>. QED
    BY <1>7, <2>2, <2>3, <2>4 DEF Counts
<1>9. \A d \in Deaths: (Owned(d)' <=> Owned(d)) /\ (Queued(d)' <=> Queued(d))
  BY <1>1, <1>3, <1>4, <1>7 DEF Owned, Queued
<1>10. \A d \in Deaths: Fate(d)'
  BY <1>3, <1>9 DEF IInv, Fate
<1>11. Single' /\ Living'
  <2>1. Single /\ Living /\ alive \in SUBSET Nodes
    BY Shape DEF IInv
  <2>. QED
    BY <1>3, <1>7, <2>1 DEF Single, Living
<1>12. Messages'
  BY <1>2, <1>4, <1>6, SMTT(60) DEF IInv, Messages
<1>13. TypeOK'
  BY <1>3, <1>4, <1>6, <1>7, Shape DEF TypeOK, Items
<1>. QED
  BY <1>3, <1>4, <1>8, <1>10, <1>11, <1>12, <1>13, Shape DEF IInv, Separate

LEMMA ReplyInv ==
    ASSUME IInv, NEW t \in Threads, NEW m \in Msgs, Reply(t, m)
    PROVE  IInv'
<1>0. PICK n: n = msg[m].node
  OBVIOUS
<1>1. msg' = [msg EXCEPT ![m] = NoMsg] /\ UNCHANGED <<open, alive, looper, bug>>
  BY DEF Reply
<1>2. /\ msg[m].st = "held" /\ \A l \in Lists: m \notin Range(todo[l])
  BY DEF Reply, IInv, Messages
<1>3. \A o \in Nodes: /\ Cardinality(Carriers(o)') \in Nat /\ Cardinality(Carriers(o)) \in Nat
                      /\ Cardinality(Carriers(o)')
                           = Cardinality(Carriers(o)) - (IF o = n THEN 1 ELSE 0)
  BY <1>0, <1>1, Shape, CarryLess, CarriersFinite
<1>4. /\ msg' \in [Msgs -> Msg] /\ msg'[m].node = NIL /\ msg'[m].st = "free"
      /\ \A k \in Msgs: k # m => msg'[k] = msg[k]
  BY <1>1, Shape DEF NoMsg, Msg
<1>5. \A k \in Msgs: msg'[k].st = "free" => msg'[k].node = NIL
  BY <1>4 DEF IInv, Counts
<1>6. CASE n = NIL
  <2>1. UNCHANGED <<ref, death, todo, delivered>>
    BY <1>0, <1>6 DEF Reply
  <2>2. \A o \in Nodes: Cardinality(Carriers(o)') = Cardinality(Carriers(o))
    BY <1>3, <1>6, DeathNil
  <2>3. Counts'
    BY <1>5, <2>1, <2>2 DEF IInv, Counts
  <2>4. \A d \in Deaths: Fate(d)'
    BY <2>1 DEF IInv, Fate, Owned, Queued
  <2>5. Single' /\ Living'
    BY <1>1, <2>1 DEF IInv, Single, Living
  <2>6. Messages'
    BY <1>2, <1>4, <2>1 DEF IInv, Messages
  <2>7. TypeOK'
    BY <1>1, <1>4, <2>1 DEF IInv, TypeOK
  <2>. QED
    BY <1>1, <2>1, <2>3, <2>4, <2>5, <2>6, <2>7 DEF IInv, Separate
<1>7. CASE n # NIL
  <2>1. n \in Nodes /\ Uncount(n)
    BY <1>0, <1>7, Shape DEF Reply, Msg
  <2>2. ref[n].count \in Nat /\ ref[n].count >= 1 /\ ref[n].desc # NIL
    <3>1. Cardinality(Carriers(n)) >= 1 /\ Cardinality(Carriers(n)) <= ref[n].count
      BY <1>3, <2>1 DEF IInv, Counts
    <3>2. ref[n].count \in Nat
      BY <2>1, Shape DEF Ref
    <3>3. ref[n].count # 0
      BY <1>3, <2>1, <3>1, <3>2
    <3>. QED
      BY <2>1, <3>2, <3>3 DEF IInv, Counts, NoRef
  <2>3. /\ ref' \in [Nodes -> Ref] /\ death' \in [Deaths -> Death]
        /\ todo' \in [Lists -> Seq(Items)] /\ delivered' \in Seq(Deaths)
        /\ Separate(todo, delivered)' /\ Single' /\ (\A d \in Deaths: Fate(d)') /\ Living'
        /\ \A l \in Lists: Range(todo'[l]) \subseteq Range(todo[l])
        /\ \A o \in Nodes: o # n => ref'[o] = ref[o]
        /\ IF ref[n].count = 1 THEN ref'[n] = NoRef
           ELSE ref'[n].desc = ref[n].desc /\ ref'[n].count = ref[n].count - 1
    BY <1>1, <2>1, <2>2, UncountIs DEF IInv
  <2>4. /\ \A o \in Nodes: Cardinality(Carriers(o)') <= Cardinality(Carriers(o))
        /\ Cardinality(Carriers(n)') <= ref[n].count - 1
    <3>1. Cardinality(Carriers(n)) <= ref[n].count
      BY <2>1 DEF IInv, Counts
    <3>2. \A o \in Nodes: /\ Cardinality(Carriers(o)') \in Nat /\ Cardinality(Carriers(o)) \in Nat
                          /\ \/ o = n /\ Cardinality(Carriers(o)') = Cardinality(Carriers(o)) - 1
                             \/ o # n /\ Cardinality(Carriers(o)') = Cardinality(Carriers(o))
      BY <1>3
    <3>. QED
      BY <2>1, <2>2, <3>1, <3>2
  <2>5. Counts'
    <3>1. TypeOK /\ Counts
      BY DEF IInv
    <3>. QED
      BY <1>5, <2>1, <2>2, <2>3, <2>4, <3>1, CountsAfter
  <2>6. Messages'
    <3>1. Messages /\ \A l \in Lists: Range(todo'[l]) \subseteq Range(todo[l])
      BY <2>3 DEF IInv
    <3>. QED
      BY <1>2, <1>4, <3>1 DEF Messages
  <2>7. TypeOK'
    BY <1>1, <1>4, <2>3, Shape DEF TypeOK, Items
  <2>. QED
    BY <1>1, <2>3, <2>5, <2>6, <2>7, Shape DEF IInv
<1>. QED
  BY <1>6, <1>7

LEMMA AcquireInv ==
    ASSUME IInv, NEW h \in Handles, Acquire(h)
    PROVE  IInv'
<1>1. PICK n \in Named(h): /\ ref' = [ref EXCEPT ![n].count = @ + 1]
                           /\ UNCHANGED <<open, alive, death, msg, todo, delivered, looper, bug>>
  BY DEF Acquire
<1>2. n \in Nodes
  BY DEF Named
<1>3. /\ ref' \in [Nodes -> Ref] /\ ref'[n].desc = ref[n].desc
      /\ ref'[n].count = ref[n].count + 1 /\ ref[n].count \in Nat
      /\ ref'[n].death = ref[n].death
      /\ \A o \in Nodes: o # n => ref'[o] = ref[o]
  <2>1. ref \in [Nodes -> Ref]
    BY Shape
  <2>2. ref' \in [Nodes -> Ref]
    BY <1>1, <1>2, <2>1 DEF Ref
  <2>. QED
    BY <1>1, <1>2, <2>1, <2>2 DEF Ref
<1>4. ref[n].desc # NIL
  BY <1>2, DeathNil, DeathItems, FS_CardinalityType DEF Named, Handles
<1>5. Counts'
  <2>1. \A o \in Nodes: /\ Cardinality(Carriers(o)') = Cardinality(Carriers(o))
                        /\ Cardinality(Carriers(o)) \in Nat
    BY <1>1, CarriersFinite DEF Carriers
  <2>2. \A o \in Nodes: Cardinality(Carriers(o)') <= ref'[o].count
    BY <1>2, <1>3, <2>1 DEF IInv, Counts
  <2>3. \A o \in Nodes: IF ref'[o].desc = NIL THEN ref'[o] = NoRef ELSE ref'[o].count >= 1
    BY <1>2, <1>3, <1>4 DEF IInv, Counts
  <2>4. \A o, q \in Nodes: ref'[o].desc = ref'[q].desc /\ ref'[o].desc # NIL => o = q
    BY <1>3 DEF IInv, Counts
  <2>. QED
    BY <1>1, <2>2, <2>3, <2>4 DEF IInv, Counts
<1>6. \A d \in Deaths: Fate(d)'
  BY <1>1, <1>3 DEF IInv, Fate, Owned, Queued
<1>7. Single' /\ Living'
  <2>1. Single /\ Living /\ alive \in SUBSET Nodes
    BY Shape DEF IInv
  <2>. QED
    BY <1>1, <1>3, <2>1 DEF Single, Living
<1>8. TypeOK' /\ Messages'
  BY <1>1, <1>3 DEF IInv, TypeOK, Messages
<1>. QED
  BY <1>1, <1>5, <1>6, <1>7, <1>8 DEF IInv, Separate

LEMMA ReleaseInv ==
    ASSUME IInv, NEW h \in Handles, Took(h), Release(h)
    PROVE  IInv'
<1>1. PICK n \in Named(h): Uncount(n) /\ UNCHANGED <<open, alive, msg, looper, bug>>
  BY DEF Release
<1>2. n \in Nodes /\ ref[n].desc # NIL
  BY DeathNil, DeathItems, FS_CardinalityType DEF Named, Handles
<1>3. PICK q \in Named(h): ref[q].count > Cardinality(Carriers(q))
  BY DEF Took, Carriers
<1>4. q = n
  BY <1>2 DEF Named, IInv, Counts
<1>5. /\ ref[n].count \in Nat /\ Cardinality(Carriers(n)) \in Nat
      /\ Cardinality(Carriers(n)) <= ref[n].count - 1 /\ ref[n].count >= 1
  BY <1>2, <1>3, <1>4, Shape, CarriersFinite DEF Ref
<1>6. /\ ref' \in [Nodes -> Ref] /\ death' \in [Deaths -> Death]
      /\ todo' \in [Lists -> Seq(Items)] /\ delivered' \in Seq(Deaths)
      /\ Separate(todo, delivered)' /\ Single' /\ (\A d \in Deaths: Fate(d)') /\ Living'
      /\ \A l \in Lists: Range(todo'[l]) \subseteq Range(todo[l])
      /\ \A o \in Nodes: o # n => ref'[o] = ref[o]
      /\ IF ref[n].count = 1 THEN ref'[n] = NoRef
         ELSE ref'[n].desc = ref[n].desc /\ ref'[n].count = ref[n].count - 1
  BY <1>1, <1>2, <1>5, UncountIs DEF IInv
<1>7. Counts'
  <2>1. TypeOK /\ Counts
    BY DEF IInv
  <2>2. \A o \in Nodes: /\ Cardinality(Carriers(o)') = Cardinality(Carriers(o))
                        /\ Cardinality(Carriers(o)) \in Nat
    BY <1>1, CarriersFinite DEF Carriers
  <2>3. /\ \A o \in Nodes: Cardinality(Carriers(o)') <= Cardinality(Carriers(o))
        /\ Cardinality(Carriers(n)') <= ref[n].count - 1
    BY <1>2, <1>5, <2>2
  <2>4. \A m \in Msgs: msg'[m].st = "free" => msg'[m].node = NIL
    BY <1>1, <2>1 DEF Counts
  <2>. QED
    BY <1>2, <1>5, <1>6, <2>1, <2>3, <2>4, CountsAfter
<1>8. Messages'
  BY <1>1, <1>6 DEF IInv, Messages
<1>9. TypeOK'
  BY <1>1, <1>6, Shape DEF TypeOK, Items
<1>. QED
  BY <1>1, <1>6, <1>7, <1>8, <1>9, Shape DEF IInv

\* References that keep their names and counts keep Counts.
LEMMA CountsKept ==
    ASSUME TypeOK, Counts, NEW n \in Nodes, ref[n].desc # NIL, msg' = msg,
           ref'[n].desc = ref[n].desc, ref'[n].count = ref[n].count,
           \A o \in Nodes: o # n => ref'[o] = ref[o]
    PROVE  Counts'
<1>1. \A o \in Nodes: Carriers(o)' = Carriers(o)
  BY DEF Carriers
<1>. QED
  BY <1>1 DEF Counts

LEMMA RequestInv ==
    ASSUME IInv, NEW t \in Threads, NEW h \in Handles, NEW c \in Cookies, Request(t, h, c)
    PROVE  IInv'
<1>1. PICK n \in Named(h), d \in Unused:
        /\ ref[n].death = NIL
        /\ ref' = [ref EXCEPT ![n].death = d]
        /\ IF n \in alive
           THEN /\ death' = [death EXCEPT ![d] = NewDeath(c)]
                /\ UNCHANGED todo
           ELSE /\ death' = [death EXCEPT ![d] = [NewDeath(c) EXCEPT !.type = "dead"]]
                /\ todo' = [todo EXCEPT ![ListFor(t)] = Append(@, d)]
        /\ UNCHANGED <<open, alive, msg, delivered, looper, bug>>
  BY DEF Request
<1>2. n \in Nodes /\ ref[n].desc # NIL
  BY DeathNil, DeathItems, FS_CardinalityType DEF Named, Handles
<1>3. d \in Deaths /\ death[d].type = "free"
  BY DEF Unused
<1>4. /\ ~Owned(d) /\ ~Queued(d) /\ d # NIL /\ d \in Items
  BY <1>3, DeathNil DEF IInv, Fate, Items
<1>5. /\ ref' \in [Nodes -> Ref] /\ ref'[n].desc = ref[n].desc
      /\ ref'[n].count = ref[n].count /\ ref'[n].death = d
      /\ \A o \in Nodes: o # n => ref'[o] = ref[o]
  BY <1>1, <1>2, <1>3, Shape DEF Ref
<1>6. Counts'
  BY <1>1, <1>2, <1>5, CountsKept DEF IInv
<1>7. \A o \in Nodes: ref[o].death # d
  BY <1>4 DEF Owned
<1>8. Single'
  BY <1>5, <1>7 DEF IInv, Single
<1>9. \A e \in Deaths: Owned(e)' <=> Owned(e) \/ e = d
  BY <1>1, <1>2, <1>3, <1>5, DeathNil DEF Owned
<1>10. /\ death' \in [Deaths -> Death] /\ ~death'[d].told
       /\ death'[d].type = IF n \in alive THEN "armed" ELSE "dead"
       /\ \A e \in Deaths: e # d => death'[e] = death[e]
  <2>1. NewDeath(c) \in Death /\ NewDeath(c).type = "armed" /\ ~NewDeath(c).told
    BY DEF NewDeath, NoDeath, Death
  <2>. DEFINE v == [NewDeath(c) EXCEPT !.type = "dead"]
  <2>2. v \in Death /\ v.type = "dead" /\ ~v.told
    BY DEF NewDeath, NoDeath, Death
  <2>. HIDE DEF v
  <2>3. CASE n \in alive
    <3>1. death' = [death EXCEPT ![d] = NewDeath(c)]
      BY <1>1, <2>3
    <3>. QED
      BY <1>3, <2>1, <2>3, <3>1, Shape
  <2>4. CASE n \notin alive
    <3>1. death' = [death EXCEPT ![d] = v]
      BY <1>1, <2>4 DEF v
    <3>. QED
      BY <1>3, <2>2, <2>4, <3>1, Shape
  <2>. QED
    BY <2>3, <2>4
<1>11. Living'
  <2>1. Living /\ alive \in SUBSET Nodes /\ alive' = alive
    BY <1>1, Shape DEF IInv
  <2>2. \A o \in Nodes: ref[o].death # NIL => ref[o].death \in Deaths
    BY Shape DEF Ref
  <2>. QED
    BY <1>5, <1>7, <1>10, <2>1, <2>2 DEF Living
<1>12. /\ todo' \in [Lists -> Seq(Items)] /\ Separate(todo', delivered)
       /\ \A l \in Lists: \/ Range(todo'[l]) = Range(todo[l])
                          \/ Range(todo'[l]) = Range(todo[l]) \cup {d}
       /\ Queued(d)' => n \notin alive
  <2>1. CASE n \in alive
    BY <1>1, <1>4, <2>1, Shape DEF Queued
  <2>2. CASE n \notin alive
    <3>1. todo' = [todo EXCEPT ![ListFor(t)] = Append(@, d)]
      BY <1>1, <2>2
    <3>2. /\ todo' \in [Lists -> Seq(Items)] /\ Separate(todo', delivered)
          /\ Range(todo'[ListFor(t)]) = Range(todo[ListFor(t)]) \cup {d}
          /\ \A l \in Lists: l # ListFor(t) => Range(todo'[l]) = Range(todo[l])
      BY <1>4, <3>1, Shape, QueueIs DEF Queued
    <3>. QED
      BY <2>2, <3>2
  <2>. QED
    BY <2>1, <2>2
<1>13. \A e \in Deaths: e # d => (Queued(e)' <=> Queued(e))
  BY <1>1, <1>12, SMTT(60) DEF Queued
<1>14. \A e \in Deaths: Fate(e)'
  <2>1. ASSUME NEW e \in Deaths, e # d PROVE Fate(e)'
    BY <1>1, <1>9, <1>10, <1>13, <2>1 DEF IInv, Fate
  <2>2. Fate(d)'
    BY <1>1, <1>3, <1>4, <1>9, <1>10, <1>12 DEF Fate, Queued
  <2>. QED
    BY <2>1, <2>2
<1>15. Messages'
  BY <1>1, <1>3, <1>12, DeathItems DEF IInv, Messages
<1>16. TypeOK'
  BY <1>1, <1>5, <1>10, <1>12, Shape DEF IInv, TypeOK, Items
<1>. QED
  BY <1>1, <1>6, <1>8, <1>11, <1>12, <1>14, <1>15, <1>16, Shape DEF IInv

\* A reference that gives up its notification.
LEMMA Disown ==
    ASSUME IInv, NEW n \in Nodes, NEW d \in Deaths, ref[n].death = d,
           ref' = [ref EXCEPT ![n].death = NIL]
    PROVE  /\ ref' \in [Nodes -> Ref]
           /\ ref'[n].desc = ref[n].desc /\ ref'[n].count = ref[n].count
           /\ ref'[n].death = NIL
           /\ \A o \in Nodes: o # n => ref'[o] = ref[o] /\ ref[o].death # d
           /\ \A e \in Deaths: Owned(e)' <=> Owned(e) /\ e # d
           /\ Single'
<1>1. ref \in [Nodes -> Ref] /\ d # NIL
  BY Shape, DeathNil
<1>2. ref' \in [Nodes -> Ref]
  BY <1>1 DEF Ref
<1>3. /\ ref'[n].desc = ref[n].desc /\ ref'[n].count = ref[n].count
      /\ ref'[n].death = NIL
      /\ \A o \in Nodes: o # n => ref'[o] = ref[o]
  BY <1>1, <1>2 DEF Ref
<1>4. \A o \in Nodes: o # n => ref[o].death # d
  BY <1>1 DEF IInv, Single
<1>5. \A e \in Deaths: Owned(e)' <=> Owned(e) /\ e # d
  BY <1>3, <1>4, DeathNil DEF Owned
<1>6. Single'
  BY <1>3 DEF IInv, Single
<1>. QED
  BY <1>2, <1>3, <1>4, <1>5, <1>6

LEMMA ClearInv ==
    ASSUME IInv, NEW t \in Threads, NEW h \in Handles, NEW c \in Cookies, Clear(t, h, c)
    PROVE  IInv'
<1>1. PICK n \in Named(h): /\ ref[n].death # NIL
                           /\ ref' = [ref EXCEPT ![n].death = NIL]
                           /\ Cleared(t, ref[n].death)
                           /\ UNCHANGED <<open, alive, msg, delivered, looper>>
  BY DEF Clear
<1>2. n \in Nodes /\ ref[n].desc # NIL
  BY DeathNil, DeathItems, FS_CardinalityType DEF Named, Handles
<1>3. PICK d \in Deaths: d = ref[n].death
  BY <1>1, <1>2, Shape DEF Ref
<1>4. /\ ref' \in [Nodes -> Ref]
      /\ ref'[n].desc = ref[n].desc /\ ref'[n].count = ref[n].count
      /\ ref'[n].death = NIL
      /\ \A o \in Nodes: o # n => ref'[o] = ref[o] /\ ref[o].death # d
      /\ \A e \in Deaths: Owned(e)' <=> Owned(e) /\ e # d
      /\ Single'
  BY <1>1, <1>2, <1>3, Disown, ZenonT(60)
<1>5. Counts'
  BY <1>1, <1>2, <1>4, CountsKept DEF IInv
<1>6. Owned(d) /\ death[d].type \in {"armed", "dead"}
  BY <1>2, <1>3 DEF Owned, IInv, Fate
<1>7. /\ death' \in [Deaths -> Death] /\ bug' = FALSE
      /\ todo' \in [Lists -> Seq(Items)] /\ Separate(todo', delivered)
      /\ Queued(d)' /\ death'[d].told = death[d].told /\ death'[d].done = death[d].done
      /\ \/ death'[d].type = "deadclear"
         \/ death'[d].type = "clear" /\ d \notin Range(delivered)
      /\ \A e \in Deaths: e # d => death'[e] = death[e]
      /\ \A l \in Lists: \/ Range(todo'[l]) = Range(todo[l])
                         \/ Range(todo'[l]) = Range(todo[l]) \cup {d}
  <2>0. death \in [Deaths -> Death] /\ d \in Items
    BY Shape DEF Items
  <2>1. CASE Queued(d)
    <3>1. ClearQueued(d)
      BY <1>1, <1>3, <2>1 DEF Cleared
    <3>2. death[d].type = "dead"
      BY <1>6, <2>1 DEF IInv, Fate
    <3>3. death' = [death EXCEPT ![d].type = "deadclear"] /\ todo' = todo /\ bug' = FALSE
      BY <3>1, <3>2, Shape DEF ClearQueued
    <3>4. death' \in [Deaths -> Death]
      BY <2>0, <3>3 DEF Death
    <3>5. /\ death'[d].type = "deadclear" /\ death'[d].told = death[d].told
          /\ death'[d].done = death[d].done
          /\ \A e \in Deaths: e # d => death'[e] = death[e]
      BY <2>0, <3>3, <3>4 DEF Death
    <3>6. Queued(d)'
      BY <1>1, <2>1, <3>3 DEF Queued
    <3>. QED
      BY <3>3, <3>4, <3>5, <3>6, Shape
  <2>2. CASE ~Queued(d)
    <3>1. ClearIdle(t, d)
      BY <1>1, <1>3, <2>2 DEF Cleared
    <3>2. /\ death' = [death EXCEPT ![d].type = "clear"] /\ bug' = bug
          /\ todo' = [todo EXCEPT ![ListFor(t)] = Append(@, d)]
      BY <3>1 DEF ClearIdle
    <3>3. death' \in [Deaths -> Death]
      BY <2>0, <3>2 DEF Death
    <3>4. /\ death'[d].type = "clear" /\ death'[d].told = death[d].told
          /\ death'[d].done = death[d].done
          /\ \A e \in Deaths: e # d => death'[e] = death[e]
      BY <2>0, <3>2, <3>3 DEF Death
    <3>5. /\ todo' \in [Lists -> Seq(Items)] /\ Separate(todo', delivered)
          /\ Range(todo'[ListFor(t)]) = Range(todo[ListFor(t)]) \cup {d}
          /\ \A l \in Lists: l # ListFor(t) => Range(todo'[l]) = Range(todo[l])
      BY <2>0, <2>2, <3>2, Shape, QueueIs DEF Queued
    <3>6. Queued(d)' /\ d \notin Range(delivered)
      BY <2>2, <3>5, Shape DEF Queued
    <3>. QED
      BY <3>2, <3>3, <3>4, <3>5, <3>6, Shape
  <2>. QED
    BY <2>1, <2>2
<1>8. \A e \in Deaths: e # d => (Queued(e)' <=> Queued(e))
  BY <1>1, <1>7 DEF Queued
<1>9. \A e \in Deaths: Fate(e)'
  <2>1. ASSUME NEW e \in Deaths, e # d PROVE Fate(e)'
    BY <1>1, <1>4, <1>7, <1>8, <2>1 DEF IInv, Fate
  <2>2. Fate(d)'
    BY <1>1, <1>4, <1>6, <1>7 DEF IInv, Fate
  <2>. QED
    BY <2>1, <2>2
<1>10. Living'
  <2>1. Living /\ alive \in SUBSET Nodes /\ alive' = alive
    BY <1>1, Shape DEF IInv
  <2>2. \A o \in Nodes: ref[o].death # NIL => ref[o].death \in Deaths
    BY Shape DEF Ref
  <2>. QED
    BY <1>4, <1>7, <2>1, <2>2 DEF Living
<1>11. Messages'
  BY <1>1, <1>3, <1>7, DeathItems DEF IInv, Messages
<1>12. TypeOK'
  BY <1>1, <1>4, <1>7, Shape DEF IInv, TypeOK, Items
<1>. QED
  BY <1>1, <1>4, <1>5, <1>7, <1>9, <1>10, <1>11, <1>12 DEF IInv

LEMMA DoneInv ==
    ASSUME IInv, NEW t \in Threads, NEW c \in Cookies, Done(t, c)
    PROVE  IInv'
<1>1. PICK i \in DOMAIN delivered:
        /\ delivered' = Without(delivered, delivered[i])
        /\ IF death[delivered[i]].type = "deadclear"
           THEN /\ death' = [death EXCEPT ![delivered[i]].type = "clear",
                                          ![delivered[i]].done = TRUE]
                /\ todo' = [todo EXCEPT ![ListFor(t)] = Append(@, delivered[i])]
           ELSE /\ death' = [death EXCEPT ![delivered[i]].done = TRUE]
                /\ UNCHANGED todo
        /\ UNCHANGED <<open, alive, ref, msg, looper, bug>>
  BY DEF Done
<1>2. PICK d: d = delivered[i]
  OBVIOUS
<1>3. d \in Range(delivered) /\ d \in Deaths /\ d \in Items
  BY <1>2, Shape DEF Range, Items
<1>4. /\ delivered' \in Seq(Deaths) /\ Separate(todo, delivered')
      /\ Range(delivered') = Range(delivered) \ {d}
  BY <1>1, <1>2, Shape, RemoveIs
<1>5. \A l \in Lists: d \notin Range(todo[l])
  BY <1>3, Shape DEF Separate
<1>6. death[d].type \in {"dead", "deadclear"}
  BY <1>3 DEF IInv, Fate, Queued
<1>7. /\ death' \in [Deaths -> Death] /\ death'[d].done
      /\ todo' \in [Lists -> Seq(Items)] /\ Separate(todo', delivered')
      /\ \A e \in Deaths: e # d => death'[e] = death[e]
      /\ \A l \in Lists: \/ Range(todo'[l]) = Range(todo[l])
                         \/ Range(todo'[l]) = Range(todo[l]) \cup {d}
      /\ \/ death[d].type = "dead" /\ death'[d].type = "dead"
         \/ /\ death[d].type = "deadclear" /\ death'[d].type = "clear"
            /\ \E l \in Lists: d \in Range(todo'[l])
  <2>0. death \in [Deaths -> Death]
    BY Shape
  <2>1. CASE death[d].type = "deadclear"
    <3>1. /\ death' = [death EXCEPT ![d].type = "clear", ![d].done = TRUE]
          /\ todo' = [todo EXCEPT ![ListFor(t)] = Append(@, d)]
      BY <1>1, <1>2, <2>1
    <3>2. death' \in [Deaths -> Death]
      BY <1>3, <2>0, <3>1, ZenonT(60) DEF Death
    <3>3. /\ death'[d].type = "clear" /\ death'[d].done
          /\ \A e \in Deaths: e # d => death'[e] = death[e]
      BY <1>3, <2>0, <3>1, <3>2 DEF Death
    <3>4. /\ todo' \in [Lists -> Seq(Items)] /\ Separate(todo', delivered')
          /\ Range(todo'[ListFor(t)]) = Range(todo[ListFor(t)]) \cup {d}
          /\ \A l \in Lists: l # ListFor(t) => Range(todo'[l]) = Range(todo[l])
      BY <1>3, <1>4, <1>5, <3>1, Shape, QueueIs, ZenonT(60)
    <3>. QED
      BY <2>1, <3>2, <3>3, <3>4, Shape
  <2>2. CASE death[d].type # "deadclear"
    <3>1. death' = [death EXCEPT ![d].done = TRUE] /\ todo' = todo
      BY <1>1, <1>2, <2>2
    <3>2. death' \in [Deaths -> Death]
      BY <1>3, <2>0, <3>1 DEF Death
    <3>3. /\ death'[d].type = death[d].type /\ death'[d].done
          /\ \A e \in Deaths: e # d => death'[e] = death[e]
      BY <1>3, <2>0, <3>1, <3>2 DEF Death
    <3>. QED
      BY <1>4, <1>6, <2>2, <3>1, <3>2, <3>3, Shape
  <2>. QED
    BY <2>1, <2>2
<1>8. \A e \in Deaths: /\ Owned(e)' <=> Owned(e)
                       /\ e # d => (Queued(e)' <=> Queued(e))
  <2>1. \A e \in Deaths: Owned(e)' <=> Owned(e)
    BY <1>1 DEF Owned
  <2>2. ASSUME NEW e \in Deaths, e # d PROVE Queued(e)' <=> Queued(e)
    <3>1. e \in Range(delivered') <=> e \in Range(delivered)
      BY <1>4, <2>2
    <3>2. \A l \in Lists: e \in Range(todo'[l]) <=> e \in Range(todo[l])
      BY <1>7, <2>2
    <3>. QED
      BY <3>1, <3>2 DEF Queued
  <2>. QED
    BY <2>1, <2>2
<1>9. \A e \in Deaths: Fate(e)'
  <2>1. ASSUME NEW e \in Deaths, e # d PROVE Fate(e)'
    BY <1>4, <1>7, <1>8, <2>1 DEF IInv, Fate
  <2>2. Fate(d)'
    <3>1. death'[d].type = "clear" => Queued(d)'
      BY <1>6, <1>7 DEF Queued
    <3>2. Owned(d)' <=> death[d].type = "dead"
      BY <1>3, <1>6, <1>8 DEF IInv, Fate
    <3>. QED
      BY <1>3, <1>4, <1>7, <3>1, <3>2 DEF Fate
  <2>. QED
    BY <2>1, <2>2
<1>10. Living' /\ Single' /\ Counts'
  <2>1. Living /\ Single /\ Counts /\ alive \in SUBSET Nodes
    BY Shape DEF IInv
  <2>2. \A o \in alive: ref[o].death # NIL => ref[o].death \in Deaths /\ ref[o].death # d
    BY <1>6, <2>1, Shape DEF Ref, Living
  <2>. QED
    BY <1>1, <1>7, <2>1, <2>2 DEF Living, Single, Counts, Carriers
<1>11. Messages'
  BY <1>1, <1>3, <1>7, DeathItems DEF IInv, Messages
<1>12. TypeOK'
  BY <1>1, <1>4, <1>7, Shape DEF IInv, TypeOK, Items
<1>. QED
  BY <1>1, <1>7, <1>9, <1>10, <1>11, <1>12, Shape DEF IInv

\* The next item of thread t, taken.
LEMMA TakenIs ==
    ASSUME IInv, NEW t \in Threads, NEW i \in Items, Next1(t) = i, todo' = Taken(t)
    PROVE  /\ todo' \in [Lists -> Seq(Items)] /\ Separate(todo', delivered)
           /\ \E l \in Lists: i \in Range(todo[l])
           /\ i \notin Range(delivered)
           /\ \A l \in Lists: Range(todo'[l]) = Range(todo[l]) \ {i}
<1>1. PICK k \in Lists: k = Source(t)
  BY Shape DEF Source
<1>2. NIL \notin Items
  BY DeathNil DEF Items
<1>3. todo[k] # <<>> /\ i = Head(todo[k]) /\ todo' = [todo EXCEPT ![k] = Tail(@)]
  BY <1>1, <1>2 DEF Next1, Taken
<1>4. /\ todo' \in [Lists -> Seq(Items)] /\ Separate(todo', delivered)
      /\ i \in Range(todo[k])
      /\ \A l \in Lists: Range(todo'[l]) = Range(todo[l]) \ {i}
  BY <1>3, Shape, TakeIs
<1>5. i \notin Range(delivered)
  BY <1>4, Shape DEF Separate
<1>. QED
  BY <1>4, <1>5

LEMMA ReadMsgInv ==
    ASSUME IInv, NEW t \in Threads, ReadMsg(t)
    PROVE  IInv'
<1>1. PICK m \in Msgs: m = Next1(t)
  BY DEF ReadMsg
<1>2. /\ msg' = [msg EXCEPT ![m].st = "held", ![m].by = t] /\ todo' = Taken(t)
      /\ UNCHANGED <<open, alive, ref, death, delivered, looper, bug>>
  BY <1>1 DEF ReadMsg
<1>3. m \in Items /\ m \notin Deaths
  BY DeathItems DEF Items
<1>4. /\ todo' \in [Lists -> Seq(Items)] /\ Separate(todo', delivered)
      /\ \E l \in Lists: m \in Range(todo[l])
      /\ \A l \in Lists: Range(todo'[l]) = Range(todo[l]) \ {m}
  BY <1>1, <1>2, <1>3, TakenIs
<1>5. msg[m].st = "queued"
  BY <1>4 DEF IInv, Messages
<1>6. /\ msg' \in [Msgs -> Msg] /\ msg'[m].st = "held" /\ msg'[m].node = msg[m].node
      /\ \A k \in Msgs: k # m => msg'[k] = msg[k]
  <2>1. msg \in [Msgs -> Msg]
    BY Shape
  <2>2. msg' \in [Msgs -> Msg]
    BY <1>2, <2>1 DEF Msg
  <2>. QED
    BY <1>2, <2>1, <2>2 DEF Msg
<1>7. Counts'
  <2>1. \A o \in Nodes: Carriers(o)' = Carriers(o)
    BY <1>6 DEF Carriers
  <2>2. \A k \in Msgs: msg'[k].st = "free" => msg'[k].node = NIL
    BY <1>6 DEF IInv, Counts
  <2>. QED
    BY <1>2, <2>1, <2>2 DEF IInv, Counts
<1>8. \A d \in Deaths: (Owned(d)' <=> Owned(d)) /\ (Queued(d)' <=> Queued(d))
  BY <1>2, <1>3, <1>4 DEF Owned, Queued
<1>9. \A d \in Deaths: Fate(d)'
  BY <1>2, <1>8 DEF IInv, Fate
<1>10. Single' /\ Living'
  BY <1>2 DEF IInv, Single, Living
<1>11. Messages'
  BY <1>4, <1>6 DEF IInv, Messages
<1>12. TypeOK'
  BY <1>2, <1>4, <1>6, Shape DEF IInv, TypeOK, Items
<1>. QED
  BY <1>2, <1>4, <1>7, <1>9, <1>10, <1>11, <1>12 DEF IInv

LEMMA ReadDeadInv ==
    ASSUME IInv, NEW t \in Threads, ReadDead(t)
    PROVE  IInv'
<1>1. PICK d \in Deaths: d = Next1(t)
  BY DEF ReadDead
<1>2. /\ death[d].type \in {"dead", "deadclear"}
      /\ death' = [death EXCEPT ![d].told = TRUE] /\ todo' = Taken(t)
      /\ delivered' = <<d>> \o delivered
      /\ UNCHANGED <<open, alive, ref, msg, looper, bug>>
  BY <1>1 DEF ReadDead
<1>3. d \in Items /\ d \notin Msgs
  BY DeathItems DEF Items
<1>4. /\ todo' \in [Lists -> Seq(Items)] /\ Separate(todo', delivered)
      /\ d \notin Range(delivered)
      /\ \A l \in Lists: Range(todo'[l]) = Range(todo[l]) \ {d}
  BY <1>1, <1>2, <1>3, TakenIs
<1>5. /\ delivered' \in Seq(Deaths) /\ Range(delivered') = Range(delivered) \cup {d}
      /\ IsInjective(delivered')
  BY <1>2, <1>4, Shape, PushIs DEF Separate
<1>6. Separate(todo', delivered')
  BY <1>4, <1>5 DEF Separate
<1>7. /\ death' \in [Deaths -> Death] /\ death'[d].type = death[d].type
      /\ \A e \in Deaths: e # d => death'[e] = death[e]
  <2>1. death \in [Deaths -> Death]
    BY Shape
  <2>2. death' \in [Deaths -> Death]
    BY <1>2, <2>1 DEF Death
  <2>. QED
    BY <1>2, <2>1, <2>2 DEF Death
<1>8. \A e \in Deaths: /\ Owned(e)' <=> Owned(e)
                       /\ e # d => (Queued(e)' <=> Queued(e))
  BY <1>2, <1>4, <1>5 DEF Owned, Queued
<1>9. \A e \in Deaths: Fate(e)'
  <2>1. ASSUME NEW e \in Deaths, e # d PROVE Fate(e)'
    BY <1>5, <1>7, <1>8, <2>1 DEF IInv, Fate
  <2>2. Fate(d)'
    BY <1>2, <1>5, <1>7, <1>8 DEF IInv, Fate, Queued
  <2>. QED
    BY <2>1, <2>2
<1>10. Living' /\ Single' /\ Counts'
  <2>1. Living /\ Single /\ Counts /\ alive \in SUBSET Nodes
    BY Shape DEF IInv
  <2>2. \A o \in alive: ref[o].death # NIL => ref[o].death \in Deaths /\ ref[o].death # d
    BY <1>2, <2>1, Shape DEF Ref, Living
  <2>. QED
    BY <1>2, <1>7, <2>1, <2>2 DEF Living, Single, Counts, Carriers
<1>11. Messages'
  BY <1>2, <1>4 DEF IInv, Messages
<1>12. TypeOK'
  BY <1>2, <1>4, <1>5, <1>7, Shape DEF IInv, TypeOK, Items
<1>. QED
  BY <1>2, <1>6, <1>9, <1>10, <1>11, <1>12 DEF IInv

LEMMA ReadClearedInv ==
    ASSUME IInv, NEW t \in Threads, ReadCleared(t)
    PROVE  IInv'
<1>1. PICK d \in Deaths: d = Next1(t)
  BY DEF ReadCleared
<1>2. /\ death[d].type = "clear" /\ death' = [death EXCEPT ![d] = NoDeath] /\ todo' = Taken(t)
      /\ UNCHANGED <<open, alive, ref, msg, delivered, looper, bug>>
  BY <1>1 DEF ReadCleared
<1>3. d \in Items /\ d \notin Msgs
  BY DeathItems DEF Items
<1>4. /\ todo' \in [Lists -> Seq(Items)] /\ Separate(todo', delivered)
      /\ d \notin Range(delivered)
      /\ \A l \in Lists: Range(todo'[l]) = Range(todo[l]) \ {d}
  BY <1>1, <1>2, <1>3, TakenIs
<1>5. /\ death' \in [Deaths -> Death] /\ death'[d] = NoDeath
      /\ \A e \in Deaths: e # d => death'[e] = death[e]
  BY <1>2, Shape DEF Death, NoDeath
<1>6. \A e \in Deaths: /\ Owned(e)' <=> Owned(e)
                       /\ Queued(e)' <=> Queued(e) /\ e # d
  BY <1>2, <1>4 DEF Owned, Queued
<1>7. \A e \in Deaths: Fate(e)'
  <2>1. ASSUME NEW e \in Deaths, e # d PROVE Fate(e)'
    BY <1>2, <1>5, <1>6, <2>1 DEF IInv, Fate
  <2>2. Fate(d)'
    BY <1>2, <1>4, <1>5, <1>6 DEF IInv, Fate, NoDeath
  <2>. QED
    BY <2>1, <2>2
<1>8. Living' /\ Single' /\ Counts'
  <2>1. Living /\ Single /\ Counts /\ alive \in SUBSET Nodes
    BY Shape DEF IInv
  <2>2. \A o \in alive: ref[o].death # NIL => ref[o].death \in Deaths /\ ref[o].death # d
    BY <1>2, <2>1, Shape DEF Ref, Living
  <2>. QED
    BY <1>2, <1>5, <2>1, <2>2 DEF Living, Single, Counts, Carriers
<1>9. Messages'
  BY <1>2, <1>4 DEF IInv, Messages
<1>10. TypeOK'
  BY <1>2, <1>4, <1>5, Shape DEF IInv, TypeOK, Items
<1>. QED
  BY <1>2, <1>4, <1>7, <1>8, <1>9, <1>10 DEF IInv

LEMMA DiesInv ==
    ASSUME IInv, NEW n \in Nodes, Dies(n)
    PROVE  IInv'
<1>1. n \in alive /\ alive' = alive \ {n} /\ UNCHANGED <<open, ref, msg, delivered, looper>>
  BY DEF Dies
<1>2. Single' /\ Counts'
  BY <1>1 DEF IInv, Single, Counts, Carriers
<1>3. CASE ref[n].death = NIL
  <2>1. UNCHANGED <<death, todo, bug>>
    BY <1>3 DEF Dies
  <2>2. \A d \in Deaths: Fate(d)'
    BY <1>1, <2>1 DEF IInv, Fate, Owned, Queued
  <2>3. Living' /\ Messages'
    BY <1>1, <2>1 DEF IInv, Living, Messages
  <2>4. TypeOK'
    BY <1>1, <2>1 DEF IInv, TypeOK
  <2>. QED
    BY <1>1, <1>2, <2>1, <2>2, <2>3, <2>4 DEF IInv, Separate
<1>4. CASE ref[n].death # NIL
  <2>1. PICK d \in Deaths: d = ref[n].death
    BY <1>4, Shape DEF Ref
  <2>2. death[d].type = "armed" /\ ~Queued(d) /\ Owned(d) /\ d \in Items /\ d \notin Msgs
    BY <1>1, <1>4, <2>1, DeathItems DEF IInv, Living, Fate, Owned, Items
  <2>3. /\ death' = [death EXCEPT ![d].type = "dead"]
        /\ todo' = [todo EXCEPT ![Proc] = Append(@, d)]
        /\ UNCHANGED bug
    BY <1>4, <2>1, <2>2 DEF Dies
  <2>4. /\ todo' \in [Lists -> Seq(Items)] /\ Separate(todo', delivered)
        /\ Range(todo'[Proc]) = Range(todo[Proc]) \cup {d}
        /\ \A l \in Lists: l # Proc => Range(todo'[l]) = Range(todo[l])
    BY <2>2, <2>3, Shape, QueueIs DEF Queued
  <2>5. /\ death' \in [Deaths -> Death] /\ death'[d].type = "dead"
        /\ death'[d].told = death[d].told /\ death'[d].done = death[d].done
        /\ \A e \in Deaths: e # d => death'[e] = death[e]
    <3>1. death \in [Deaths -> Death]
      BY Shape
    <3>2. death' \in [Deaths -> Death]
      BY <2>3, <3>1 DEF Death
    <3>. QED
      BY <2>3, <3>1, <3>2 DEF Death
  <2>6. \A e \in Deaths: /\ Owned(e)' <=> Owned(e)
                         /\ e # d => (Queued(e)' <=> Queued(e))
    BY <1>1, <2>4 DEF Owned, Queued
  <2>7. \A e \in Deaths: Fate(e)'
    <3>1. ASSUME NEW e \in Deaths, e # d PROVE Fate(e)'
      BY <1>1, <2>5, <2>6, <3>1 DEF IInv, Fate
    <3>2. Fate(d)'
      BY <1>1, <2>2, <2>5, <2>6 DEF IInv, Fate
    <3>. QED
      BY <3>1, <3>2
  <2>8. Living'
    <3>1. \A o \in alive: o # n /\ ref[o].death # NIL
                            => ref[o].death \in Deaths /\ ref[o].death # d
      BY <2>1, <1>4, Shape DEF IInv, Single, Ref
    <3>. QED
      BY <1>1, <2>5, <3>1 DEF IInv, Living
  <2>9. Messages'
    BY <1>1, <2>2, <2>4 DEF IInv, Messages
  <2>10. TypeOK'
    BY <1>1, <2>3, <2>4, <2>5, Shape DEF IInv, TypeOK, Items
  <2>. QED
    BY <1>1, <1>2, <2>3, <2>4, <2>7, <2>8, <2>9, <2>10 DEF IInv
<1>. QED
  BY <1>3, <1>4

LEMMA ThreadExitInv ==
    ASSUME IInv, NEW t \in Threads, ThreadExit(t)
    PROVE  IInv'
<1>. DEFINE gone == Freed(todo[t])
<1>1. /\ death' = [d \in Deaths |-> IF d \in gone THEN NoDeath
                                    ELSE [death[d] EXCEPT !.lost = @ \/ d \in Range(todo[t])]]
      /\ todo' = [todo EXCEPT ![t] = <<>>]
      /\ msg' = [m \in Msgs |-> IF msg[m].by = t THEN [msg[m] EXCEPT !.by = NIL] ELSE msg[m]]
      /\ looper' = looper \ {t}
      /\ UNCHANGED <<open, alive, ref, delivered, bug>>
  BY DEF ThreadExit
<1>2. /\ todo' \in [Lists -> Seq(Items)] /\ Separate(todo', delivered)
      /\ Range(todo'[t]) = {}
      /\ \A l \in Lists: l # t => Range(todo'[l]) = Range(todo[l])
  BY <1>1, Shape, EmptyIs
<1>3. \A d \in gone: d \in Deaths /\ d \in Range(todo[t]) /\ death[d].type \in {"deadclear", "clear"}
  BY DEF Freed
<1>4. \A d \in Deaths: d \in Range(todo[t]) /\ death[d].type \in {"deadclear", "clear"} => d \in gone
  BY DEF Freed
<1>. HIDE DEF gone
<1>5. /\ death' \in [Deaths -> Death]
      /\ \A d \in Deaths: IF d \in gone THEN death'[d] = NoDeath
                          ELSE /\ death'[d].type = death[d].type
                               /\ death'[d].told = death[d].told
                               /\ death'[d].done = death[d].done
  <2>1. NoDeath \in Death
    BY DEF NoDeath, Death
  <2>2. ASSUME NEW d \in Deaths, NEW b \in BOOLEAN
        PROVE  /\ [death[d] EXCEPT !.lost = b] \in Death
               /\ [death[d] EXCEPT !.lost = b].type = death[d].type
               /\ [death[d] EXCEPT !.lost = b].told = death[d].told
               /\ [death[d] EXCEPT !.lost = b].done = death[d].done
    <3>1. death[d] \in Death
      BY Shape
    <3>. QED
      BY <3>1 DEF Death
  <2>3. \A d \in Deaths: \E b \in BOOLEAN:
            death'[d] = IF d \in gone THEN NoDeath ELSE [death[d] EXCEPT !.lost = b]
    <3>1. ASSUME NEW d \in Deaths
          PROVE  death'[d] = IF d \in gone THEN NoDeath
                             ELSE [death[d] EXCEPT !.lost = (death[d].lost \/ d \in Range(todo[t]))]
      BY <1>1, Zenon
    <3>2. ASSUME NEW d \in Deaths PROVE (death[d].lost \/ d \in Range(todo[t])) \in BOOLEAN
      OBVIOUS
    <3>. QED
      BY <3>1, <3>2, Zenon
  <2>4. \A d \in Deaths: death'[d] \in Death
    BY <2>1, <2>2, <2>3
  <2>5. death' = [d \in Deaths |-> death'[d]]
    BY <1>1
  <2>. QED
    BY <2>2, <2>3, <2>4, <2>5, ZenonT(60)
<1>6. /\ msg' \in [Msgs -> Msg]
      /\ \A m \in Msgs: msg'[m].st = msg[m].st /\ msg'[m].node = msg[m].node
  <2>1. \A m \in Msgs: msg[m] \in Msg
    BY Shape
  <2>2. \A m \in Msgs: /\ [msg[m] EXCEPT !.by = NIL] \in Msg
                       /\ [msg[m] EXCEPT !.by = NIL].st = msg[m].st
                       /\ [msg[m] EXCEPT !.by = NIL].node = msg[m].node
    BY <2>1 DEF Msg
  <2>3. \A m \in Msgs: msg'[m] = IF msg[m].by = t THEN [msg[m] EXCEPT !.by = NIL] ELSE msg[m]
    BY <1>1
  <2>4. msg' = [m \in Msgs |-> msg'[m]]
    BY <1>1
  <2>. QED
    BY <2>1, <2>2, <2>3, <2>4
<1>7. \A d \in Deaths: Owned(d)' <=> Owned(d)
  BY <1>1 DEF Owned
<1>8. \A d \in Deaths: d \notin Range(todo[t]) => (Queued(d)' <=> Queued(d))
  BY <1>1, <1>2 DEF Queued
<1>9. \A d \in Deaths: d \in Range(todo[t]) => ~Queued(d)' /\ Queued(d) /\ d \notin Range(delivered)
  BY <1>1, <1>2, Shape DEF Queued, Separate
<1>10. ASSUME NEW d \in Deaths PROVE Fate(d)'
  <2>1. CASE d \in gone
    <3>1. ~Owned(d) /\ ~Queued(d)' /\ d \notin Range(delivered)
      BY <1>3, <1>9, <2>1 DEF IInv, Fate
    <3>. QED
      BY <1>1, <1>5, <1>7, <2>1, <3>1 DEF Fate, NoDeath
  <2>2. CASE d \notin gone /\ d \in Range(todo[t])
    BY <1>1, <1>4, <1>5, <1>7, <1>9, <2>2 DEF IInv, Fate
  <2>3. CASE d \notin gone /\ d \notin Range(todo[t])
    BY <1>1, <1>5, <1>7, <1>8, <2>3 DEF IInv, Fate
  <2>. QED
    BY <2>1, <2>2, <2>3
<1>11. Living' /\ Single' /\ Counts'
  <2>1. Living /\ Single /\ Counts /\ alive \in SUBSET Nodes
    BY Shape DEF IInv
  <2>2. \A o \in alive: ref[o].death # NIL => ref[o].death \in Deaths /\ ref[o].death \notin gone
    BY <1>3, <2>1, Shape DEF Ref, Living
  <2>3. \A o \in Nodes: Carriers(o)' = Carriers(o)
    BY <1>6 DEF Carriers
  <2>4. Counts'
    BY <1>1, <1>6, <2>1, <2>3 DEF Counts
  <2>. QED
    BY <1>1, <1>5, <2>1, <2>2, <2>4 DEF Living, Single
<1>12. Messages'
  BY <1>2, <1>6 DEF IInv, Messages
<1>13. TypeOK'
  BY <1>1, <1>2, <1>5, <1>6, Shape DEF TypeOK, Items
<1>. QED
  BY <1>1, <1>2, <1>10, <1>11, <1>12, <1>13, Shape DEF IInv

LEMMA CloseInv ==
    ASSUME IInv, Close
    PROVE  IInv'
<1>1. /\ death' = [d \in Deaths |->
                       IF \/ \E n \in Nodes: d \in OwnedBy(n)
                          \/ \E l \in Lists: d \in Freed(todo[l])
                          \/ d \in Freed(delivered)
                       THEN NoDeath ELSE death[d]]
      /\ open' = FALSE
      /\ ref' = [n \in Nodes |-> NoRef] /\ msg' = [m \in Msgs |-> NoMsg]
      /\ todo' = [l \in Lists |-> <<>>] /\ delivered' = <<>> /\ looper' = {}
      /\ UNCHANGED <<alive, bug>>
  BY DEF Close
<1>2. \A l \in Lists: todo'[l] \in Seq(Items) /\ Range(todo'[l]) = {} /\ IsInjective(todo'[l])
  BY <1>1, NothingListed
<1>3. delivered' \in Seq(Deaths) /\ Range(delivered') = {} /\ IsInjective(delivered')
  BY <1>1, NothingListed
<1>4. todo' \in [Lists -> Seq(Items)] /\ Separate(todo', delivered')
  BY <1>1, <1>2, <1>3 DEF Separate
<1>5. ASSUME NEW d \in Deaths
      PROVE  /\ death'[d] \in Death /\ death'[d].type = "free"
             /\ death'[d].told => death'[d].done
  <2>0. NoDeath \in Death /\ NoDeath.type = "free" /\ ~NoDeath.told
    BY DEF NoDeath, Death
  <2>1. CASE Owned(d)
    <3>1. \E n \in Nodes: d \in OwnedBy(n)
      BY <2>1, DeathNil DEF Owned, OwnedBy
    <3>. QED
      BY <1>1, <2>0, <3>1
  <2>2. CASE ~Owned(d) /\ Queued(d)
    <3>1. death[d].type \in {"deadclear", "clear"}
      BY <2>2 DEF IInv, Fate
    <3>2. (\E l \in Lists: d \in Freed(todo[l])) \/ d \in Freed(delivered)
      BY <2>2, <3>1 DEF Queued, Freed
    <3>. QED
      BY <1>1, <2>0, <3>2
  <2>3. CASE ~Owned(d) /\ ~Queued(d)
    <3>1. death[d] \in Death /\ Fate(d)
      BY Shape DEF IInv
    <3>2. death[d].type = "free" /\ (death[d].told => death[d].done)
      BY <2>3, <3>1 DEF Fate, Queued, Death
    <3>3. death'[d] = NoDeath \/ death'[d] = death[d]
      BY <1>1
    <3>. QED
      BY <2>0, <3>1, <3>2, <3>3
  <2>. QED
    BY <2>1, <2>2, <2>3
<1>6. \A n \in Nodes: /\ ref'[n] = NoRef /\ NoRef \in Ref
                      /\ ref'[n].desc = NIL /\ ref'[n].count = 0 /\ ref'[n].death = NIL
  BY <1>1 DEF NoRef, Ref
<1>7. \A m \in Msgs: msg'[m] = NoMsg /\ NoMsg \in Msg /\ msg'[m].node = NIL
  BY <1>1 DEF NoMsg, Msg
<1>8. TypeOK'
  <2>1. death' \in [Deaths -> Death]
    BY <1>1, <1>5
  <2>2. ref' \in [Nodes -> Ref] /\ msg' \in [Msgs -> Msg]
    BY <1>1, <1>6, <1>7
  <2>. QED
    BY <1>1, <1>3, <1>4, <2>1, <2>2, Shape DEF TypeOK, Items
<1>9. Counts'
  <2>1. \A n \in Nodes: Carriers(n)' = {}
    BY <1>7, DeathNil DEF Carriers
  <2>2. \A n \in Nodes: Cardinality(Carriers(n)') = 0
    BY <2>1, FS_EmptySet
  <2>. QED
    BY <1>6, <1>7, <2>2 DEF Counts
<1>10. \A d \in Deaths: ~Owned(d)' /\ ~Queued(d)'
  BY <1>2, <1>3, <1>6, DeathNil DEF Owned, Queued
<1>11. \A d \in Deaths: Fate(d)'
  BY <1>3, <1>5, <1>10 DEF Fate
<1>12. Single' /\ Living'
  BY <1>1, <1>6, Shape DEF Single, Living
<1>13. Messages'
  BY <1>2 DEF Messages
<1>. QED
  BY <1>1, <1>4, <1>8, <1>9, <1>11, <1>12, <1>13, Shape DEF IInv

LEMMA StepInv == IInv /\ [Next]_vars => IInv'
<1>. SUFFICES ASSUME IInv, [Next]_vars PROVE IInv'
  OBVIOUS
<1>1. ASSUME NEW m \in Msgs, NEW n \in Nodes \cup {NIL}, Send(m, n) PROVE IInv'
  BY <1>1, SendInv
<1>2. ASSUME NEW h \in Handles, Acquire(h) PROVE IInv'
  BY <1>2, AcquireInv
<1>3. ASSUME NEW h \in Handles, Took(h), Release(h) PROVE IInv'
  BY <1>3, ReleaseInv
<1>4. ASSUME NEW t \in Threads, Read(t) PROVE IInv'
  BY <1>4, ReadMsgInv, ReadDeadInv, ReadClearedInv DEF Read
<1>5. ASSUME NEW t \in Threads, Command(t) PROVE IInv'
  <2>1. ASSUME EnterLooper(t) PROVE IInv'
    <3>1. looper' = looper \cup {t} /\ UNCHANGED <<open, alive, ref, death, msg, todo, delivered, bug>>
      BY <2>1 DEF EnterLooper
    <3>2. TypeOK'
      BY <3>1 DEF IInv, TypeOK
    <3>3. Counts' /\ Single' /\ Living' /\ Messages' /\ Separate(todo, delivered)'
      BY <3>1 DEF IInv, Counts, Carriers, Single, Living, Messages, Separate
    <3>4. \A d \in Deaths: Fate(d)'
      BY <3>1 DEF IInv, Fate, Owned, Queued
    <3>. QED
      BY <3>1, <3>2, <3>3, <3>4 DEF IInv
  <2>2. ASSUME NEW m \in Msgs, Reply(t, m) PROVE IInv'
    BY <2>2, ReplyInv
  <2>3. ASSUME NEW h \in Handles, NEW c \in Cookies, Request(t, h, c) \/ Clear(t, h, c)
        PROVE  IInv'
    BY <2>3, RequestInv, ClearInv
  <2>4. ASSUME NEW c \in Cookies, Done(t, c) PROVE IInv'
    BY <2>4, DoneInv
  <2>. QED
    BY <1>5, <2>1, <2>2, <2>3, <2>4 DEF Command
<1>6. ASSUME NEW t \in Threads, ThreadExit(t) PROVE IInv'
  BY <1>6, ThreadExitInv
<1>7. ASSUME NEW n \in Nodes, Dies(n) PROVE IInv'
  BY <1>7, DiesInv
<1>8. ASSUME Close PROVE IInv'
  BY <1>8, CloseInv
<1>9. ASSUME UNCHANGED vars PROVE IInv'
  <2>1. UNCHANGED <<open, alive, ref, death, msg, todo, delivered, looper, bug>>
    BY <1>9 DEF vars
  <2>2. TypeOK'
    BY <2>1 DEF IInv, TypeOK
  <2>3. Counts' /\ Single' /\ Living' /\ Messages' /\ Separate(todo, delivered)'
    BY <2>1 DEF IInv, Counts, Carriers, Single, Living, Messages, Separate
  <2>4. \A d \in Deaths: Fate(d)'
    BY <2>1 DEF IInv, Fate, Owned, Queued
  <2>. QED
    BY <2>1, <2>2, <2>3, <2>4 DEF IInv
<1>. QED
  BY <1>1, <1>2, <1>3, <1>4, <1>5, <1>6, <1>7, <1>8, <1>9 DEF Next

-------------------------------------------------------------------------------
(* Theorems *)

\* The inductive invariant holds in every reachable state.
THEOREM InvAlways == Spec => []IInv
<1>1. Init => IInv
  BY InitInv
<1>2. IInv /\ [Next]_vars => IInv'
  BY StepInv
<1>. QED
  BY <1>1, <1>2, PTL DEF Spec

\* Every variable keeps its type; in particular a handle is always found for a
\* new reference, and no count goes below zero.
THEOREM TypeAlways == Spec => []TypeOK
<1>1. IInv => TypeOK
  BY DEF IInv
<1>. QED
  BY <1>1, InvAlways, PTL

\* A notification is freed exactly when nothing can reach it any more, and is on
\* one list once at most, for any number of threads, nodes and notifications.
THEOREM OneOwnerAlways == Spec => []OneOwner
<1>1. IInv => OneOwner
  <2>. SUFFICES ASSUME IInv PROVE OneOwner
    OBVIOUS
  <2>1. ASSUME NEW d \in Deaths PROVE death[d].type # "free" <=> Owned(d) \/ Queued(d)
    <3>1. death[d].type \in {"free", "armed", "dead", "deadclear", "clear"}
      BY Shape DEF Death
    <3>. QED
      BY <3>1 DEF IInv, Fate
  <2>. QED
    BY <2>1 DEF IInv, Single, Separate, OneOwner
<1>. QED
  BY <1>1, InvAlways, PTL

\* The driver meets none of its assertions about notifications: a dying node's
\* is never queued, and none is cleared twice.
THEOREM NoBugAlways == Spec => []NoBug
<1>1. IInv => NoBug
  BY DEF IInv, NoBug
<1>. QED
  BY <1>1, InvAlways, PTL

\* The answer to a clear comes after the acknowledgement of what was reported.
THEOREM ClearAfterDoneAlways == Spec => []ClearAfterDone
<1>1. IInv => ClearAfterDone
  BY DEF IInv, Fate, ClearAfterDone
<1>. QED
  BY <1>1, InvAlways, PTL
===============================================================================
