---------------------------- MODULE BinderBuffersProofs ----------------------------
(***************************************************************************)
(* Proofs about the buffer allocator for every page size, mapping, header  *)
(* and set of sizes: buffers tile the mapping without overlap, the tree of *)
(* free buffers is filed by true sizes, free neighbours are joined, the    *)
(* pages that are mapped are those in use, no BUG_ON() of                  *)
(* binder_update_page_range or binder_free_buf fires, the space for        *)
(* one-way calls is exact, and BufferPool is implemented.                  *)
(***************************************************************************)
EXTENDS BinderBuffers, FiniteSetTheorems, WellFoundedInduction, TLAPS

-------------------------------------------------------------------------------
(* Least and greatest elements *)

LEMMA LeastIs ==
    ASSUME NEW S \in SUBSET Nat, S # {}
    PROVE  Min(S) \in S /\ \A y \in S : Min(S) <= y
<1>1. PICK x \in S : \A y \in S : ~(<<y, x>> \in OpToRel(<, Nat))
  BY NatLessThanWellFounded, WFMin
<1>2. \A y \in S : ~(y < x)
  BY <1>1 DEF OpToRel
<1>3. \A y \in S : x <= y
  BY <1>2
<1>. QED
  BY <1>3 DEF Min

LEMMA GreatestIs ==
    ASSUME NEW S \in SUBSET Nat, S # {}, NEW N \in Nat, \A y \in S : y < N
    PROVE  Max(S) \in S /\ \A y \in S : Max(S) >= y
<1>. DEFINE T == {x \in 0..N : N - x \in S}
<1>1. T \in SUBSET Nat
  OBVIOUS
<1>2. ASSUME NEW y \in S PROVE N - y \in T
  <2>1. y \in Nat /\ y < N
    OBVIOUS
  <2>2. N - (N - y) = y /\ N - y \in 0..N
    BY <2>1
  <2>. QED
    BY <2>2
<1>3. T # {}
  BY <1>2
<1>. HIDE DEF T
<1>4. Min(T) \in T /\ \A y \in T : Min(T) <= y
  BY <1>1, <1>3, LeastIs
<1>5. N - Min(T) \in S
  BY <1>4 DEF T
<1>6. ASSUME NEW y \in S PROVE N - Min(T) >= y
  <2>1. Min(T) <= N - y
    BY <1>2, <1>4
  <2>2. Min(T) \in Nat /\ y \in Nat
    BY <1>1, <1>4
  <2>. QED
    BY <2>1, <2>2
<1>. QED
  BY <1>5, <1>6 DEF Max

-------------------------------------------------------------------------------
(* Neighbours *)

LEMMA SizeFits == Size \in Nat /\ Header \in Nat \ {0} /\ Slack \in Nat \ {0} /\ Header < Size
<1>1. PageSize \in Nat \ {0} /\ Pages \in Nat \ {0}
  BY BufSizes
<1>2. PageSize * Pages \in Nat /\ PageSize * Pages >= PageSize
  BY <1>1
<1>. QED
  BY <1>2, BufSizes, BufHeader DEF Size

LEMMA AddrIs == \A a \in Addr : a \in Nat /\ a < Size
BY SizeFits DEF Addr

\* n is the header behind a in hs, or the end of the mapping.
Behind(hs, a, n) ==
    /\ n \in hs \cup {Size} /\ n > a
    /\ \A b \in hs : b > a => n <= b

LEMMA NextIs ==
    ASSUME NEW hs \in SUBSET Addr, NEW a \in Addr
    PROVE  /\ Behind(hs, a, NextHead(hs, a))
           /\ NextHead(hs, a) \in Nat /\ NextHead(hs, a) <= Size
<1>. DEFINE S == {b \in hs : b > a} \cup {Size}
<1>1. S \in SUBSET Nat /\ S # {} /\ Size \in S /\ a \in Nat /\ a < Size
  BY SizeFits, AddrIs
<1>2. NextHead(hs, a) \in S /\ \A y \in S : NextHead(hs, a) <= y
  BY <1>1, LeastIs DEF NextHead
<1>3. \A b \in hs : b > a => b \in S
  OBVIOUS
<1>. QED
  BY <1>1, <1>2, <1>3 DEF Behind

LEMMA NextUnique ==
    ASSUME NEW hs \in SUBSET Addr, NEW a \in Addr, NEW n, Behind(hs, a, n)
    PROVE  NextHead(hs, a) = n
<1>1. n \in Nat /\ n <= Size
  BY SizeFits, AddrIs DEF Behind
<1>2. /\ Behind(hs, a, NextHead(hs, a))
      /\ NextHead(hs, a) \in Nat /\ NextHead(hs, a) <= Size
  BY NextIs
<1>3. n <= NextHead(hs, a)
  BY <1>1, <1>2 DEF Behind
<1>4. NextHead(hs, a) <= n
  BY <1>1, <1>2 DEF Behind
<1>. QED
  BY <1>1, <1>2, <1>3, <1>4

LEMMA PrevIs ==
    ASSUME NEW hs \in SUBSET Addr, NEW a \in Addr, \E b \in hs : b < a
    PROVE  /\ PrevHead(hs, a) \in hs /\ PrevHead(hs, a) < a
           /\ \A b \in hs : b < a => b <= PrevHead(hs, a)
<1>. DEFINE S == {b \in hs : b < a}
<1>1. S \in SUBSET Nat /\ S # {} /\ a \in Nat /\ \A y \in S : y < a
  BY AddrIs
<1>2. PrevHead(hs, a) \in S /\ \A y \in S : PrevHead(hs, a) >= y
  BY <1>1, GreatestIs DEF PrevHead
<1>3. \A b \in hs : b < a => b \in S
  OBVIOUS
<1>. QED
  BY <1>1, <1>2, <1>3

\* Headers taken away leave the next header of a as it was, unless it is one of them.
LEMMA NextKept ==
    ASSUME NEW hs \in SUBSET Addr, NEW gone, NEW a \in Addr, NextHead(hs, a) \notin gone
    PROVE  NextHead(hs \ gone, a) = NextHead(hs, a)
<1>1. Behind(hs, a, NextHead(hs, a))
  BY NextIs
<1>2. Behind(hs \ gone, a, NextHead(hs, a))
  BY <1>1 DEF Behind
<1>. QED
  BY <1>2, NextUnique

LEMMA NextLater ==
    ASSUME NEW hs \in SUBSET Addr, NEW gone, NEW a \in Addr
    PROVE  NextHead(hs, a) <= NextHead(hs \ gone, a)
<1>1. Behind(hs, a, NextHead(hs, a)) /\ NextHead(hs, a) <= Size
  BY NextIs
<1>2. Behind(hs \ gone, a, NextHead(hs \ gone, a))
  BY NextIs
<1>. QED
  BY <1>1, <1>2, SizeFits DEF Behind

\* A header put between a and the next one comes behind a, in front of what was
\* behind a, and nowhere else.
LEMMA NextSplit ==
    ASSUME NEW hs \in SUBSET Addr, NEW a \in hs, NEW r \in Addr,
           a < r, r < NextHead(hs, a)
    PROVE  /\ NextHead(hs \cup {r}, a) = r
           /\ NextHead(hs \cup {r}, r) = NextHead(hs, a)
           /\ \A b \in hs \ {a} : NextHead(hs \cup {r}, b) = NextHead(hs, b)
<1>1. Behind(hs, a, NextHead(hs, a)) /\ NextHead(hs, a) \in Nat
  BY NextIs
<1>2. hs \cup {r} \in SUBSET Addr /\ a \in Addr
  OBVIOUS
<1>3. Behind(hs \cup {r}, a, r)
  BY <1>1, AddrIs DEF Behind
<1>4. Behind(hs \cup {r}, r, NextHead(hs, a))
  BY <1>1, AddrIs, SizeFits DEF Behind
<1>5. ASSUME NEW b \in hs \ {a} PROVE Behind(hs \cup {r}, b, NextHead(hs, b))
  <2>1. Behind(hs, b, NextHead(hs, b)) /\ NextHead(hs, b) \in Nat
    BY NextIs
  <2>2. a \in Nat /\ b \in Nat /\ r \in Nat /\ a # b
    BY AddrIs
  <2>3. ~(b > a /\ r > b)
    BY <2>2, <1>1 DEF Behind
  <2>4. b < a => NextHead(hs, b) <= r
    BY <2>1, <2>2 DEF Behind
  <2>5. r > b => NextHead(hs, b) <= r
    BY <2>2, <2>3, <2>4
  <2>. QED
    BY <2>1, <2>5 DEF Behind
<1>. QED
  BY <1>2, <1>3, <1>4, <1>5, NextUnique

-------------------------------------------------------------------------------
(* The invariant *)

\* Buffers lie apart, a header and at least what was asked for, inside the mapping.
Shape ==
    /\ vma = NIL => heads = {}
    /\ heads \in SUBSET Addr /\ free \in SUBSET heads
    /\ key \in [Addr -> Nat \cup {NIL}]
    /\ size \in [Addr -> Nat]
Apart == \A a \in heads : a + Header <= NextHead(heads, a)
Fits == \A a \in Allocated : a + Header + size[a] <= NextHead(heads, a)
Tiled == Shape /\ Apart /\ Fits /\ TreeFresh /\ Joined

LEMMA InitTiled == Init => Tiled
BY DEF Init, Tiled, Shape, Apart, Fits, Allocated, TreeFresh, Joined

LEMMA StutterTiled == Tiled /\ UNCHANGED vars => Tiled'
BY DEF vars, Tiled, Shape, Apart, Fits, Allocated, TreeFresh, Joined, BufferSize, NextHead

LEMMA MapTiled == Tiled /\ Map => Tiled'
<1>. SUFFICES ASSUME Tiled, Map PROVE Tiled'
  OBVIOUS
<1>1. 0 \in Addr /\ {0} \in SUBSET Addr
  BY SizeFits DEF Addr
<1>2. NextHead({0}, 0) = Size
  <2>1. Behind({0}, 0, Size)
    BY SizeFits DEF Behind
  <2>. QED
    BY <1>1, <2>1, NextUnique
<1>3. heads' = {0} /\ free' = {0} /\ size' = size /\ vma' # NIL
  BY BufNil DEF Map
<1>4. \A a \in Addr : key[a] = NIL
  BY DEF Map, Tiled, Shape, TreeFresh
<1>5. BufferSize({0}, 0) = Size - Header /\ BufferSize({0}, 0) \in Nat
  BY <1>2, SizeFits DEF BufferSize
<1>6. key' = [key EXCEPT ![0] = BufferSize({0}, 0)]
  BY DEF Map, Filed
<1>7. Shape'
  BY <1>1, <1>3, <1>5, <1>6 DEF Tiled, Shape
<1>8. Apart'
  BY <1>2, <1>3, SizeFits DEF Apart
<1>9. Fits'
  BY <1>3 DEF Fits, Allocated
<1>10. TreeFresh'
  <2>1. \A a \in Addr : key'[a] = IF a = 0 THEN BufferSize({0}, 0) ELSE NIL
    BY <1>1, <1>4, <1>6 DEF Tiled, Shape
  <2>. QED
    BY <1>3, <2>1 DEF TreeFresh
<1>11. Joined'
  BY <1>2, <1>3, SizeFits DEF Joined
<1>. QED
  BY <1>7, <1>8, <1>9, <1>10, <1>11 DEF Tiled

\* The part of the state that matters is untouched, or gone.
LEMMA QuietTiled ==
    ASSUME Tiled, VmaClose \/ Release \/ \E n \in Sizes, oneway \in BOOLEAN : AllocNoPage(n, oneway)
    PROVE  Tiled'
<1>1. CASE VmaClose
  <2>1. UNCHANGED <<heads, free, key, size>> /\ vma' # NIL
    BY <1>1, BufNil DEF VmaClose
  <2>. QED
    BY <2>1 DEF Tiled, Shape, Apart, Fits, Allocated, TreeFresh, Joined, BufferSize, NextHead
<1>2. CASE \E n \in Sizes, oneway \in BOOLEAN : AllocNoPage(n, oneway)
  <2>1. UNCHANGED <<vma, heads, free, key, size>>
    BY <1>2 DEF AllocNoPage
  <2>. QED
    BY <2>1 DEF Tiled, Shape, Apart, Fits, Allocated, TreeFresh, Joined, BufferSize, NextHead
<1>3. CASE Release
  BY <1>3 DEF Release, Tiled, Shape, Apart, Fits, Allocated, TreeFresh, Joined
<1>. QED
  BY <1>1, <1>2, <1>3

LEMMA AllocTiled ==
    ASSUME Tiled, NEW n \in Sizes, NEW oneway \in BOOLEAN, Alloc(n, oneway)
    PROVE  Tiled'
<1>. DEFINE full(a) == BufferSize(heads, a)
            rest(a) == IF Cut(n, full(a)) = n THEN {} ELSE {a + Header + n}
            hs(a) == heads \cup rest(a)
<1>1. PICK a \in BestFits(n) :
        /\ heads' = hs(a)
        /\ free' = (free \ {a}) \cup rest(a)
        /\ key' = [b \in Addr |-> IF b = a THEN NIL
                                  ELSE IF b \in rest(a) THEN BufferSize(hs(a), b) ELSE key[b]]
        /\ size' = [size EXCEPT ![a] = n]
  BY DEF Alloc
<1>2. vma' = "mapped" /\ vma' # NIL
  BY BufNil DEF Alloc
<1>. HIDE DEF full, rest, hs
<1>3. /\ a \in free /\ a \in heads /\ a \in Addr /\ n \in Nat /\ a \in Nat
      /\ NextHead(heads, a) \in Nat /\ NextHead(heads, a) <= Size
      /\ a + Header + n <= NextHead(heads, a)
  <2>1. a \in Addr /\ key[a] # NIL /\ BufferSize(heads, a) >= n
    BY DEF BestFits, Fitting
  <2>2. a \in free /\ a \in heads
    BY <2>1 DEF Tiled, TreeFresh, Shape
  <2>3. n \in Nat /\ a \in Nat /\ NextHead(heads, a) \in Nat /\ NextHead(heads, a) <= Size
    BY <2>1, BufSizes, AddrIs, NextIs DEF Tiled, Shape
  <2>. QED
    BY <2>1, <2>2, <2>3, SizeFits DEF BufferSize
<1>4. CASE rest(a) = {}
  <2>1. heads' = heads /\ free' = free \ {a}
    BY <1>1, <1>4 DEF hs
  <2>2. key' = [b \in Addr |-> IF b = a THEN NIL ELSE key[b]]
    BY <1>1, <1>4
  <2>3. Shape'
    BY <1>1, <1>2, <1>3, <2>1, <2>2 DEF Tiled, Shape
  <2>4. Apart'
    BY <2>1 DEF Tiled, Apart
  <2>5. Fits'
    BY <1>1, <1>3, <2>1 DEF Tiled, Shape, Fits, Allocated
  <2>6. TreeFresh'
    BY <1>3, <2>1, <2>2 DEF Tiled, TreeFresh, BufferSize
  <2>7. Joined'
    BY <2>1 DEF Tiled, Joined
  <2>. QED
    BY <2>3, <2>4, <2>5, <2>6, <2>7 DEF Tiled
<1>5. CASE rest(a) # {}
  <2>. DEFINE r == a + Header + n
  <2>1. rest(a) = {r} /\ heads' = heads \cup {r} /\ free' = (free \ {a}) \cup {r}
    BY <1>1, <1>5 DEF rest, hs
  <2>2. n + Header + Slack < NextHead(heads, a) - (a + Header)
    <3>1. Cut(n, full(a)) # n
      BY <1>5 DEF rest
    <3>2. BufferSize(heads, a) \in Int
      BY <1>3, SizeFits DEF BufferSize
    <3>3. ~(n + Header + Slack >= full(a))
      BY <3>1 DEF Cut
    <3>. QED
      BY <1>3, <3>2, <3>3, SizeFits DEF full, BufferSize
  <2>3. /\ r \in Addr /\ a < r /\ r + Header <= NextHead(heads, a)
        /\ r < NextHead(heads, a) /\ r \in Nat
    BY <1>3, <2>2, SizeFits DEF Addr
  <2>. HIDE DEF r
  <2>4. heads \in SUBSET Addr
    BY DEF Tiled, Shape
  <2>5. /\ NextHead(heads', a) = r
        /\ NextHead(heads', r) = NextHead(heads, a)
        /\ \A b \in heads \ {a} : NextHead(heads', b) = NextHead(heads, b)
    BY <1>3, <2>1, <2>3, <2>4, NextSplit
  <2>6. r \notin heads
    BY <1>3, <2>3, <2>4, NextIs DEF Behind
  <2>7. /\ key'[a] = NIL /\ key'[r] = BufferSize(heads', r)
        /\ \A b \in Addr \ {a, r} : key'[b] = key[b]
        /\ key' \in [Addr -> Nat \cup {NIL}]
    <3>1. key' = [b \in Addr |-> IF b = a THEN NIL
                                 ELSE IF b = r THEN BufferSize(heads', r) ELSE key[b]]
      BY <1>1, <2>1 DEF hs
    <3>2. BufferSize(heads', r) \in Nat
      BY <1>3, <2>3, <2>5, SizeFits DEF BufferSize
    <3>. QED
      BY <1>3, <2>3, <3>1, <3>2 DEF Tiled, Shape
  <2>8. Shape'
    BY <1>1, <1>2, <1>3, <2>1, <2>3, <2>7 DEF Tiled, Shape
  <2>9. Apart'
    <3>1. a + Header <= r
      BY <1>3, SizeFits DEF r
    <3>. QED
      BY <2>1, <2>3, <2>5, <3>1 DEF Tiled, Apart
  <2>10. Fits'
    <3>1. Allocated' = Allocated \cup {a}
      BY <1>3, <2>1, <2>6 DEF Allocated, Tiled, Shape
    <3>2. a + Header + size'[a] <= NextHead(heads', a)
      <4>1. size'[a] = n
        BY <1>1, <1>3 DEF Tiled, Shape
      <4>2. a + Header + n = r
        BY DEF r
      <4>. QED
        BY <2>3, <2>5, <4>1, <4>2
    <3>3. ASSUME NEW b \in Allocated, b # a
          PROVE  b + Header + size'[b] <= NextHead(heads', b)
      <4>1. size'[b] = size[b]
        BY <1>1, <3>3 DEF Tiled, Shape, Allocated
      <4>. QED
        BY <2>5, <3>3, <4>1 DEF Tiled, Fits, Allocated
    <3>. QED
      BY <3>1, <3>2, <3>3 DEF Fits
  <2>11. TreeFresh'
    <3>. SUFFICES ASSUME NEW b \in Addr
                  PROVE  key'[b] = IF b \in free' THEN BufferSize(heads', b) ELSE NIL
      BY DEF TreeFresh
    <3>1. CASE b = a
      BY <2>1, <2>3, <2>7, <1>3, <3>1
    <3>2. CASE b = r
      BY <2>1, <2>7, <3>2
    <3>3. CASE b \notin {a, r}
      <4>1. b \in free' <=> b \in free
        BY <2>1, <3>3
      <4>2. b \in free => BufferSize(heads', b) = BufferSize(heads, b)
        BY <2>5, <3>3 DEF BufferSize, Tiled, Shape
      <4>. QED
        BY <2>7, <3>3, <4>1, <4>2 DEF Tiled, TreeFresh
    <3>. QED
      BY <3>1, <3>2, <3>3
  <2>12. Joined'
    <3>1. NextHead(heads, a) \notin free /\ NextHead(heads, a) # r
      BY <1>3, <2>3 DEF Tiled, Joined
    <3>2. ASSUME NEW b \in free, b # a PROVE NextHead(heads', b) \notin free'
      <4>1. NextHead(heads', b) = NextHead(heads, b)
        BY <2>5, <3>2 DEF Tiled, Shape
      <4>2. NextHead(heads, b) \notin free
        BY DEF Tiled, Joined
      <4>3. NextHead(heads, b) # r
        BY <2>6, <2>3, <2>4, NextIs, SizeFits, AddrIs DEF Behind, Tiled, Shape
      <4>. QED
        BY <2>1, <4>1, <4>2, <4>3
    <3>. QED
      BY <2>1, <2>5, <3>1, <3>2 DEF Joined
  <2>. QED
    BY <2>8, <2>9, <2>10, <2>11, <2>12 DEF Tiled
<1>. QED
  BY <1>4, <1>5

\* Joining removes headers on both sides of the freed buffer a at most; every other
\* free buffer keeps the neighbour it had.
LEMMA FreeTiled ==
    ASSUME Tiled, NEW a \in Addr, FreeBuf(a)
    PROVE  Tiled'
<1>. DEFINE next == IF JoinsNext(a) THEN {NextHead(heads, a)} ELSE {}
            own == IF JoinsPrev(a) THEN {a} ELSE {}
            into == IF JoinsPrev(a) THEN PrevHead(heads, a) ELSE a
            gone == next \cup own
            left == heads \ gone
<1>1. /\ a \in heads /\ a \notin free
      /\ heads' = left /\ free' = (free \cup {a}) \cap left
      /\ key' = KeysAfter(left, into, gone)
      /\ size' = [size EXCEPT ![a] = 0]
      /\ vma' = vma
  BY DEF FreeBuf, Allocated
<1>2. /\ heads \in SUBSET Addr /\ left \in SUBSET Addr /\ free \in SUBSET heads
      /\ a \in Nat
  BY AddrIs DEF Tiled, Shape
<1>3. Behind(heads, a, NextHead(heads, a)) /\ NextHead(heads, a) \in Nat
  BY <1>2, NextIs
<1>4. JoinsPrev(a) => /\ PrevHead(heads, a) \in free /\ PrevHead(heads, a) < a
                      /\ \A b \in heads : b < a => b <= PrevHead(heads, a)
  BY <1>2, PrevIs DEF JoinsPrev
<1>5. \A b \in next : b \in free /\ b > a /\ b = NextHead(heads, a)
  BY <1>3 DEF JoinsNext, Behind
<1>6. into \in left /\ into <= a /\ into \in Nat /\ into \in free \cup {a}
  <2>1. CASE JoinsPrev(a)
    <3>1. PrevHead(heads, a) \in Nat
      BY <1>2, <1>4, <2>1, AddrIs
    <3>. QED
      BY <1>2, <1>4, <1>5, <2>1, <3>1
  <2>2. CASE ~JoinsPrev(a)
    BY <1>1, <1>2, <1>5, <2>2
  <2>. QED
    BY <2>1, <2>2
\* Of the buffers in front only the one joined into had a behind it, and none the
\* buffer behind a.
<1>7. ASSUME NEW b \in free, b # into, b \notin gone
      PROVE  NextHead(left, b) = NextHead(heads, b) /\ NextHead(heads, b) # a
  <2>1. Behind(heads, b, NextHead(heads, b)) /\ b \in Nat /\ b \in Addr /\ b \in heads /\ b # a
    BY <1>1, <1>2, <1>7, NextIs, AddrIs
  <2>2. NextHead(heads, b) # a
    <3>. SUFFICES ASSUME NextHead(heads, b) = a PROVE FALSE
      OBVIOUS
    <3>1. b < a /\ PrevHead(heads, a) \in heads /\ PrevHead(heads, a) < a /\ b <= PrevHead(heads, a)
      BY <1>2, <2>1, PrevIs DEF Behind
    <3>2. PrevHead(heads, a) \in Nat
      BY <1>2, <3>1, AddrIs
    <3>3. PrevHead(heads, a) = b
      BY <1>2, <2>1, <3>1, <3>2 DEF Behind
    <3>4. JoinsPrev(a)
      BY <2>1, <3>1, <3>3 DEF JoinsPrev
    <3>. QED
      BY <1>7, <3>3, <3>4
  <2>3. NextHead(heads, b) # NextHead(heads, a)
    BY <1>1, <1>2, <1>3, <2>1 DEF Behind
  <2>4. NextHead(heads, b) \notin gone
    BY <1>5, <2>2, <2>3
  <2>. HIDE DEF gone
  <2>. QED
    BY <1>2, <2>1, <2>2, <2>4, NextKept
<1>8. NextHead(left, into) \notin free \cup {a}
  <2>. DEFINE m == NextHead(left, into)
              x == NextHead(heads, a)
              y == NextHead(heads, x)
  <2>1. Behind(left, into, m) /\ m \in Nat /\ into \in Addr
    BY <1>2, <1>6, NextIs
  <2>2. m > a
    BY <1>1, <1>2, <1>3, <1>4, <1>6, <2>1, SizeFits, AddrIs DEF Behind
  <2>. SUFFICES ASSUME m \in free PROVE FALSE
    BY <1>2, <2>2
  <2>3. m \in left /\ m < Size /\ m >= x
    BY <1>2, <1>3, <2>1, <2>2, AddrIs DEF Behind
  <2>4. CASE JoinsNext(a)
    <3>1. x \in free /\ x \in Addr /\ y \notin free /\ x # m
      BY <1>2, <2>3, <2>4 DEF JoinsNext, Tiled, Joined
    <3>2. Behind(heads, x, y) /\ y \in Nat
      BY <1>2, <3>1, NextIs
    <3>3. y <= m
      BY <1>2, <1>3, <2>1, <2>3, <3>1, <3>2 DEF Behind
    <3>4. y \in heads
      BY <2>3, <3>2, <3>3, <2>1, SizeFits DEF Behind
    <3>5. y > x /\ y > a /\ y > into
      BY <1>2, <1>3, <1>6, <3>2 DEF Behind
    <3>6. y \in left
      BY <1>2, <1>3, <3>2, <3>4, <3>5
    <3>7. m <= y
      BY <2>1, <3>5, <3>6 DEF Behind
    <3>. QED
      BY <2>1, <3>1, <3>2, <3>3, <3>7
  <2>5. CASE ~JoinsNext(a)
    <3>1. x \notin free /\ x > a /\ x > into
      BY <1>2, <1>3, <1>6, <2>5 DEF JoinsNext, Behind
    <3>2. x \in heads
      BY <1>3, <2>1, <2>3, SizeFits DEF Behind
    <3>3. x \in left
      BY <1>2, <1>3, <2>5, <3>1, <3>2
    <3>4. m <= x
      BY <2>1, <3>1, <3>3 DEF Behind
    <3>. QED
      BY <1>3, <2>1, <2>3, <3>1, <3>4
  <2>. QED
    BY <2>4, <2>5
<1>9. free' \subseteq left /\ \A b \in free' : b \in free \/ (b = into /\ into = a)
  BY <1>1
<1>10. \A b \in Addr : key'[b] = IF b \in gone THEN NIL
                                 ELSE IF b = into THEN BufferSize(left, into) ELSE key[b]
  BY <1>1 DEF KeysAfter
<1>11. into \notin gone /\ into \in free' /\ a \notin free' \ {into}
  BY <1>1, <1>2, <1>6
<1>12. \A b \in free : b \notin gone => b \in free'
  BY <1>1, <1>2
<1>13. \A b \in gone : b \notin free'
  BY <1>1
<1>14. ASSUME NEW b \in left PROVE b + Header <= NextHead(left, b)
  <2>1. /\ b + Header <= NextHead(heads, b) /\ NextHead(heads, b) <= NextHead(left, b)
        /\ b \in Nat /\ NextHead(heads, b) \in Nat /\ NextHead(left, b) \in Nat
    BY <1>2, NextLater, NextIs, AddrIs DEF Tiled, Apart
  <2>. QED
    BY <2>1, SizeFits
<1>15. BufferSize(left, into) \in Nat
  <2>1. NextHead(left, into) \in Nat
    BY <1>2, <1>6, NextIs
  <2>. QED
    BY <1>6, <1>14, <2>1, SizeFits DEF BufferSize
<1>. HIDE DEF next, own, into, gone, left
<1>16. Shape'
  <2>1. key' \in [Addr -> Nat \cup {NIL}]
    BY <1>1, <1>15 DEF KeysAfter, Tiled, Shape
  <2>. QED
    BY <1>1, <1>2, <2>1 DEF Tiled, Shape
<1>17. Apart'
  BY <1>1, <1>14 DEF Apart
<1>18. Fits'
  <2>. SUFFICES ASSUME NEW b \in Allocated' PROVE b + Header + size'[b] <= NextHead(heads', b)
    BY DEF Fits
  <2>1. b \in left /\ b \notin free /\ b # a /\ b \in Addr
    BY <1>1, <1>2 DEF Allocated
  <2>2. b \in Allocated /\ size'[b] = size[b] /\ size[b] \in Nat
    BY <1>1, <1>2, <2>1 DEF left, Allocated, Tiled, Shape
  <2>3. b + Header + size[b] <= NextHead(heads, b)
    BY <2>2 DEF Tiled, Fits
  <2>4. NextHead(heads, b) <= NextHead(left, b)
    BY <1>2, <2>1, NextLater DEF left
  <2>5. b \in Nat /\ NextHead(heads, b) \in Nat /\ NextHead(left, b) \in Nat
    BY <1>2, <2>1, NextIs, AddrIs
  <2>. QED
    BY <1>1, <2>2, <2>3, <2>4, <2>5, SizeFits
<1>19. TreeFresh'
  <2>. SUFFICES ASSUME NEW b \in Addr
                PROVE  key'[b] = IF b \in free' THEN BufferSize(heads', b) ELSE NIL
    BY DEF TreeFresh
  <2>1. CASE b \in gone
    BY <1>10, <1>13, <2>1
  <2>2. CASE b = into
    BY <1>1, <1>10, <1>11, <2>2
  <2>3. CASE b \notin gone /\ b # into
    <3>1. key'[b] = key[b]
      BY <1>10, <2>3
    <3>2. b \in free' <=> b \in free
      BY <1>9, <1>12, <2>3
    <3>3. b \in free => BufferSize(heads', b) = BufferSize(heads, b)
      BY <1>1, <1>7, <2>3 DEF BufferSize
    <3>. QED
      BY <3>1, <3>2, <3>3 DEF Tiled, TreeFresh
  <2>. QED
    BY <2>1, <2>2, <2>3
<1>20. Joined'
  <2>. SUFFICES ASSUME NEW b \in free' PROVE NextHead(heads', b) \notin free'
    BY DEF Joined
  <2>1. free' \subseteq free \cup {a}
    BY <1>1
  <2>2. CASE b = into
    BY <1>1, <1>8, <2>1, <2>2
  <2>3. CASE b # into
    <3>1. b \in free /\ b \notin gone
      BY <1>9, <1>13, <2>3
    <3>2. NextHead(heads', b) = NextHead(heads, b) /\ NextHead(heads, b) # a
      BY <1>1, <1>7, <2>3, <3>1
    <3>. QED
      BY <2>1, <3>1, <3>2 DEF Tiled, Joined
  <2>. QED
    BY <2>2, <2>3
<1>. QED
  BY <1>16, <1>17, <1>18, <1>19, <1>20 DEF Tiled

LEMMA StepTiled == Tiled /\ [Next]_vars => Tiled'
<1>. SUFFICES ASSUME Tiled, [Next]_vars PROVE Tiled'
  OBVIOUS
<1>1. CASE Map
  BY <1>1, MapTiled
<1>2. CASE VmaClose \/ Release
  BY <1>2, QuietTiled
<1>3. ASSUME NEW n \in Sizes, NEW oneway \in BOOLEAN, Alloc(n, oneway) PROVE Tiled'
  BY <1>3, AllocTiled
<1>4. ASSUME NEW n \in Sizes, NEW oneway \in BOOLEAN, AllocNoPage(n, oneway) PROVE Tiled'
  BY <1>4, QuietTiled
<1>5. ASSUME NEW a \in Addr, FreeBuf(a) PROVE Tiled'
  BY <1>5, FreeTiled
<1>6. CASE UNCHANGED vars
  BY <1>6, StutterTiled
<1>. QED
  BY <1>1, <1>2, <1>3, <1>4, <1>5, <1>6 DEF Next

LEMMA TiledAlways == Spec => []Tiled
BY InitTiled, StepTiled, PTL DEF Spec

-------------------------------------------------------------------------------
(* Results *)

\* Free neighbours are always joined (binder_free_buf).
THEOREM JoinedAlways == Spec => []Joined
<1>1. Tiled => Joined
  BY DEF Tiled
<1>. QED
  BY <1>1, TiledAlways, PTL

\* The tree of free buffers stays filed by the sizes that binder_alloc_buf
\* computes anew, whatever is split or joined.
THEOREM TreeFreshAlways == Spec => []TreeFresh
<1>1. Tiled => TreeFresh
  BY DEF Tiled
<1>. QED
  BY <1>1, TiledAlways, PTL

\* The regions handed out never overlap (binder_alloc_buf, binder_free_buf).
THEOREM RegionsDisjoint == Spec => []Pool!NoOverlap
<1>1. Tiled => Pool!NoOverlap
  <2>. SUFFICES ASSUME Tiled, NEW r \in Held, NEW s \in Held, r # s
                PROVE  ~(r.from < s.to /\ s.from < r.to)
    BY DEF Pool!NoOverlap, Pool!Overlap
  <2>1. PICK a \in Allocated : r = [from |-> a, to |-> a + Header + size[a], async |-> a \in async]
    BY DEF Held
  <2>2. PICK b \in Allocated : s = [from |-> b, to |-> b + Header + size[b], async |-> b \in async]
    BY DEF Held
  <2>3. a # b /\ {a, b} \subseteq heads /\ heads \in SUBSET Addr
    BY <2>1, <2>2 DEF Allocated, Tiled, Shape
  <2>4. /\ a + Header + size[a] <= NextHead(heads, a)
        /\ b + Header + size[b] <= NextHead(heads, b)
    BY DEF Tiled, Fits
  <2>5. /\ Behind(heads, a, NextHead(heads, a)) /\ Behind(heads, b, NextHead(heads, b))
        /\ NextHead(heads, a) \in Nat /\ NextHead(heads, b) \in Nat
        /\ a \in Nat /\ b \in Nat /\ size[a] \in Nat /\ size[b] \in Nat
    BY <2>3, NextIs, AddrIs DEF Tiled, Shape
  <2>6. (a < b => NextHead(heads, a) <= b) /\ (b < a => NextHead(heads, b) <= a)
    BY <2>3, <2>5 DEF Behind
  <2>7. ~(a < b + Header + size[b] /\ b < a + Header + size[a])
    BY <2>3, <2>4, <2>5, <2>6, SizeFits
  <2>. QED
    BY <2>1, <2>2, <2>7
<1>. QED
  BY <1>1, TiledAlways, PTL

-------------------------------------------------------------------------------
(* Pages and words *)

\* The first word of page p.
Base(p) == p * PageSize
\* Page p holds a word of from..to-1.
On(p, from, to) == Base(p) < to /\ from < Base(p) + PageSize

LEMMA BaseIs ==
    /\ \A p \in Nat : Base(p) \in Nat /\ Base(p + 1) = Base(p) + PageSize
    /\ \A p, q \in Nat : p < q => Base(p) + PageSize <= Base(q)
    /\ Base(0) = 0 /\ Base(Pages) = Size
<1>1. PageSize \in Nat \ {0} /\ Pages \in Nat
  BY BufSizes
<1>2. ASSUME NEW p \in Nat PROVE p * PageSize \in Nat /\ (p + 1) * PageSize = p * PageSize + PageSize
  BY <1>1
<1>3. ASSUME NEW p \in Nat, NEW q \in Nat, p < q PROVE p * PageSize + PageSize <= q * PageSize
  <2>1. q - (p + 1) \in Nat
    BY <1>3
  <2>2. q * PageSize = (p + 1) * PageSize + (q - (p + 1)) * PageSize
    BY <1>1, <2>1
  <2>3. (q - (p + 1)) * PageSize \in Nat
    BY <1>1, <2>1
  <2>. QED
    BY <1>1, <1>2, <2>2, <2>3
<1>. QED
  BY <1>1, <1>2, <1>3 DEF Base, Size

LEMMA PageIs ==
    \A p \in Page : /\ p \in Nat /\ Base(p) \in Nat /\ Base(p) + PageSize <= Size
                    /\ PageSize \in Nat \ {0}
<1>1. Pages \in Nat /\ PageSize \in Nat \ {0}
  BY BufSizes
<1>2. \A p \in Page : p \in Nat /\ p < Pages
  BY <1>1 DEF Page
<1>. QED
  BY <1>1, <1>2, BaseIs

LEMMA QuotientIs ==
    ASSUME NEW x \in Nat
    PROVE  /\ x \div PageSize \in Nat
           /\ Base(x \div PageSize) <= x /\ x < Base(x \div PageSize) + PageSize
<1>1. PageSize \in Nat \ {0}
  BY BufSizes
<1>. QED
  BY <1>1 DEF Base

\* The page of a word.
LEMMA PageOfIs ==
    ASSUME NEW x \in Nat, NEW p \in Page
    PROVE  x \div PageSize = p <=> Base(p) <= x /\ x < Base(p) + PageSize
<1>. DEFINE q == x \div PageSize
<1>1. q \in Nat /\ Base(q) \in Nat /\ Base(q) <= x /\ x < Base(q) + PageSize
  BY QuotientIs, BaseIs
<1>2. p \in Nat /\ Base(p) \in Nat /\ PageSize \in Nat
  BY PageIs
<1>3. (p < q => Base(p) + PageSize <= Base(q)) /\ (q < p => Base(q) + PageSize <= Base(p))
  BY <1>1, <1>2, BaseIs
<1>. HIDE DEF q
<1>4. q = p <=> Base(p) <= x /\ x < Base(p) + PageSize
  BY <1>1, <1>2, <1>3
<1>. QED
  BY <1>4 DEF q

\* What the bounds that the code rounds say of a page.
LEMMA RoundedIs ==
    ASSUME NEW x \in Nat, NEW p \in Page
    PROVE  /\ PageUp(x) <= Base(p) <=> x <= Base(p)
           /\ Base(p) < PageUp(x) <=> Base(p) < x
           /\ Base(p) < PageDown(x) <=> Base(p) + PageSize <= x
<1>1. /\ p \in Nat /\ Base(p) \in Nat /\ PageSize \in Nat \ {0}
  BY PageIs
<1>2. PICK u \in Nat : PageUp(x) = Base(u) /\ x <= Base(u) /\ Base(u) < x + PageSize
  <2>. DEFINE y == x + PageSize - 1
              q == y \div PageSize
  <2>1. y \in Nat
    BY <1>1
  <2>2. q \in Nat /\ Base(q) <= y /\ y < Base(q) + PageSize /\ Base(q) \in Nat
    BY <2>1, QuotientIs, BaseIs
  <2>3. PageUp(x) = Base(q)
    BY DEF PageUp, Base
  <2>. HIDE DEF q
  <2>. QED
    BY <1>1, <2>2, <2>3
<1>3. PICK d \in Nat : PageDown(x) = Base(d) /\ Base(d) <= x /\ x < Base(d) + PageSize
  BY QuotientIs DEF PageDown, Base
<1>4. /\ Base(u) \in Nat /\ Base(d) \in Nat
      /\ (p < u => Base(p) + PageSize <= Base(u)) /\ (u < p => Base(u) + PageSize <= Base(p))
      /\ (p < d => Base(p) + PageSize <= Base(d)) /\ (d < p => Base(d) + PageSize <= Base(p))
  BY <1>1, BaseIs
<1>5. PageUp(x) <= Base(p) <=> x <= Base(p)
  BY <1>1, <1>2, <1>4
<1>6. Base(p) < PageUp(x) <=> Base(p) < x
  BY <1>1, <1>2, <1>4
<1>7. Base(p) < PageDown(x) <=> Base(p) + PageSize <= x
  BY <1>1, <1>3, <1>4
<1>. QED
  BY <1>5, <1>6, <1>7

LEMMA WordsIs ==
    ASSUME NEW from, NEW to, NEW p
    PROVE  p \in Words(from, to) <=> p \in Page /\ On(p, from, to)
<1>1. \A q \in Page : (q + 1) * PageSize = Base(q) + PageSize
  BY PageIs, BaseIs DEF Base
<1>. QED
  BY <1>1 DEF Words, On, Base

-------------------------------------------------------------------------------
(* What is mapped and unmapped *)

\* What an allocation maps: the pages from its data on that lie in front of the
\* next header.
LEMMA MappedIs ==
    ASSUME NEW n \in Nat, NEW a \in Nat, NEW e \in Nat, NEW cut \in Nat, NEW p \in Page,
           e = NextHead(heads, a), a + Header <= e, cut = Cut(n, e - (a + Header))
    PROVE  p \in Mapped(n, a) <=>
             /\ a + Header <= Base(p) /\ Base(p) + PageSize <= e
             /\ Base(p) < a + Header + cut
<1>. DEFINE d == a + Header
            last == PageDown(d + (e - d))
            wanted == PageUp(d + cut)
<1>1. d \in Nat /\ d + cut \in Nat /\ d + (e - d) = e
  BY SizeFits
<1>2. /\ PageUp(d) <= Base(p) <=> d <= Base(p)
      /\ Base(p) < wanted <=> Base(p) < d + cut
      /\ Base(p) < last <=> Base(p) + PageSize <= e
  BY <1>1, RoundedIs
<1>3. /\ last \in Int /\ wanted \in Int /\ Base(p) \in Nat
  <2>1. last = Base(e \div PageSize) /\ wanted = Base((d + cut + PageSize - 1) \div PageSize)
    BY <1>1 DEF PageDown, PageUp, Base
  <2>2. d + cut + PageSize - 1 \in Nat
    BY <1>1, BufSizes
  <2>. QED
    BY <2>1, <2>2, QuotientIs, BaseIs, PageIs
<1>4. p \in Mapped(n, a) <=>
        PageUp(d) <= Base(p) /\ Base(p) < (IF wanted > last THEN last ELSE wanted)
  BY DEF Mapped, BufferSize, PageRange, Base
<1>. HIDE DEF d, last, wanted
<1>5. Base(p) < (IF wanted > last THEN last ELSE wanted) <=> Base(p) < last /\ Base(p) < wanted
  BY <1>3
<1>. QED
  BY <1>2, <1>4, <1>5 DEF d

\* What freeing takes from the data of a buffer that lie between two headers.
LEMMA DataPagesIs ==
    ASSUME NEW d \in Nat, NEW e \in Nat, NEW p \in Page
    PROVE  p \in PageRange(PageUp(d), PageDown(e)) <=> d <= Base(p) /\ Base(p) + PageSize <= e
BY RoundedIs DEF PageRange, Base

\* binder_delete_free_buffer frees the pages of a header that neither the header in
\* front nor the one behind is on.
LEMMA HeaderPagesIs ==
    ASSUME NEW hs, NEW b \in Nat, NEW v \in Nat, NEW x \in Nat, NEW p \in Page,
           v = PrevHead(hs, b), x = NextHead(hs, b), v + Header <= b, b + Header <= x
    PROVE  p \in HeaderPages(hs, b) <=>
             /\ On(p, b, b + Header) /\ ~On(p, v, v + Header)
             /\ ~(x # Size /\ On(p, x, x + Header))
<1>. DEFINE sb == StartPage(b)
            eb == EndPage(b)
            ev == EndPage(v)
            sx == StartPage(x)
<1>1. /\ Base(p) \in Nat /\ PageSize \in Nat \ {0} /\ Header \in Nat \ {0} /\ Header < PageSize
  BY PageIs, SizeFits, BufHeader
<1>2. /\ sb = p <=> Base(p) <= b /\ b < Base(p) + PageSize
      /\ sx = p <=> Base(p) <= x /\ x < Base(p) + PageSize
      /\ eb = p <=> Base(p) <= b + Header - 1 /\ b + Header - 1 < Base(p) + PageSize
      /\ ev = p <=> Base(p) <= v + Header - 1 /\ v + Header - 1 < Base(p) + PageSize
  <2>1. b + Header - 1 \in Nat /\ v + Header - 1 \in Nat
    BY <1>1
  <2>2. b \div PageSize = p <=> Base(p) <= b /\ b < Base(p) + PageSize
    BY PageOfIs
  <2>3. x \div PageSize = p <=> Base(p) <= x /\ x < Base(p) + PageSize
    BY PageOfIs
  <2>4. (b + Header - 1) \div PageSize = p
          <=> Base(p) <= b + Header - 1 /\ b + Header - 1 < Base(p) + PageSize
    BY <2>1, PageOfIs
  <2>5. (v + Header - 1) \div PageSize = p
          <=> Base(p) <= v + Header - 1 /\ v + Header - 1 < Base(p) + PageSize
    BY <2>1, PageOfIs
  <2>. QED
    BY <2>2, <2>3, <2>4, <2>5 DEF StartPage, EndPage
<1>3. p \in HeaderPages(hs, b) <=>
        \/ p = sb /\ ev # sb /\ ~(x # Size /\ sx = eb /\ sx = sb)
        \/ p = eb /\ ~(ev = sb /\ ev = eb) /\ ~(x # Size /\ sx = eb)
  BY DEF HeaderPages
<1>. HIDE DEF sb, eb, ev, sx
\* A header is on its first page and its last one.
<1>4. On(p, b, b + Header) <=> p = sb \/ p = eb
  BY <1>1, <1>2 DEF On
<1>5. CASE p = sb
  <2>1. On(p, v, v + Header) <=> ev = p
    BY <1>1, <1>2, <1>5 DEF On
  <2>2. On(p, x, x + Header) <=> sx = p
    BY <1>1, <1>2, <1>5 DEF On
  <2>3. sx = p => eb = p
    BY <1>1, <1>2, <1>5
  <2>. QED
    BY <1>3, <1>4, <1>5, <2>1, <2>2, <2>3
<1>6. CASE p # sb /\ p = eb
  <2>1. ~On(p, v, v + Header) /\ ev # p
    BY <1>1, <1>2, <1>6 DEF On
  <2>2. On(p, x, x + Header) <=> sx = p
    BY <1>1, <1>2, <1>6 DEF On
  <2>. QED
    BY <1>3, <1>4, <1>6, <2>1, <2>2
<1>7. CASE p # sb /\ p # eb
  BY <1>3, <1>4, <1>7
<1>. QED
  BY <1>5, <1>6, <1>7

-------------------------------------------------------------------------------
(* The invariant *)

\* Page p holds a header, or data in use.
Used(p) ==
    \/ \E b \in heads : On(p, b, b + Header)
    \/ \E b \in Allocated : On(p, b + Header, b + Header + size[b])

LEMMA ExactIs == PagesExact <=> pages = {p \in Page : Used(p)}
<1>. DEFINE H == UNION {Words(a, a + Header) : a \in heads}
            D == UNION {Words(a + Header, a + Header + size[a]) : a \in Allocated}
<1>1. ASSUME NEW p PROVE p \in H \cup D <=> p \in Page /\ Used(p)
  BY WordsIs DEF Used
<1>2. PagesExact <=> pages = H \cup D
  BY DEF PagesExact
<1>. HIDE DEF H, D
<1>3. H \cup D = {p \in Page : Used(p)}
  BY <1>1
<1>. QED
  BY <1>2, <1>3

\* What lies between the data and the next header is too small to split off.
Snug == \A a \in Allocated : NextHead(heads, a) <= a + Header + size[a] + Header + Slack

Paged ==
    /\ Tiled /\ Snug
    /\ pages = {p \in Page : Used(p)}
    /\ oops = {}

LEMMA OrderIs ==
    ASSUME Tiled
    PROVE  /\ \A b \in heads :
                 /\ b \in Addr /\ b \in Nat /\ b < Size
                 /\ NextHead(heads, b) \in Nat /\ NextHead(heads, b) <= Size
                 /\ NextHead(heads, b) \in heads \cup {Size}
                 /\ b + Header <= NextHead(heads, b)
                 /\ \A c \in heads : b < c => NextHead(heads, b) <= c
           /\ \A b \in Allocated :
                 /\ b \in heads /\ size[b] \in Nat
                 /\ b + Header + size[b] <= NextHead(heads, b)
<1>1. heads \in SUBSET Addr /\ \A b \in Addr : size[b] \in Nat
  BY DEF Tiled, Shape
<1>2. \A b \in heads :
        /\ b \in Addr /\ b \in Nat /\ b < Size
        /\ NextHead(heads, b) \in Nat /\ NextHead(heads, b) <= Size
        /\ Behind(heads, b, NextHead(heads, b))
  BY <1>1, NextIs, AddrIs
<1>. QED
  BY <1>1, <1>2 DEF Tiled, Apart, Fits, Behind, Allocated

\* One header behind another.
LEMMA GapIs ==
    ASSUME Tiled, NEW b \in heads, NEW c \in heads, b < c
    PROVE  b + Header <= c /\ NextHead(heads, b) <= c
<1>1. /\ b + Header <= NextHead(heads, b) /\ NextHead(heads, b) <= c
      /\ b \in Nat /\ c \in Nat /\ NextHead(heads, b) \in Nat
  BY OrderIs
<1>. QED
  BY <1>1, SizeFits

\* No page between the header of a free buffer and the next header is in use.
LEMMA UnusedIs ==
    ASSUME Tiled, NEW a \in free, NEW p \in Page,
           a + Header <= Base(p), Base(p) + PageSize <= NextHead(heads, a)
    PROVE  ~Used(p)
<1>1. a \in heads /\ a \notin Allocated
  BY DEF Tiled, Shape, Allocated
<1>2. Base(p) \in Nat /\ PageSize \in Nat /\ Header \in Nat
  BY PageIs, SizeFits
<1>3. \A b \in heads : ~On(p, b, b + Header)
  <2>. SUFFICES ASSUME NEW b \in heads, Base(p) < b + Header, b < Base(p) + PageSize PROVE FALSE
    BY DEF On
  <2>1. CASE b <= a
    BY <1>1, <1>2, <2>1, OrderIs
  <2>2. CASE a < b
    BY <1>1, <1>2, <2>2, OrderIs
  <2>. QED
    BY <1>1, <2>1, <2>2, OrderIs
<1>4. \A b \in Allocated : ~On(p, b + Header, b + Header + size[b])
  <2>. SUFFICES ASSUME NEW b \in Allocated, Base(p) < b + Header + size[b],
                       b + Header < Base(p) + PageSize
                PROVE  FALSE
    BY DEF On
  <2>0. b \in heads
    BY OrderIs
  <2>1. CASE b < a
    BY <1>1, <1>2, <2>0, <2>1, OrderIs
  <2>2. CASE a < b
    BY <1>1, <1>2, <2>0, <2>2, OrderIs
  <2>. QED
    BY <1>1, <2>0, <2>1, <2>2, OrderIs
<1>. QED
  BY <1>3, <1>4 DEF Used

LEMMA InitPaged == Init => Paged
BY InitTiled DEF Init, Paged, Snug, Used, Allocated

LEMMA StutterPaged == Paged /\ UNCHANGED vars => Paged'
BY StutterTiled DEF vars, Paged, Snug, Used, Allocated, NextHead

LEMMA MapPaged == Paged /\ Map => Paged'
<1>. SUFFICES ASSUME Paged, Map PROVE Paged'
  OBVIOUS
<1>1. Tiled'
  BY MapTiled DEF Paged
<1>2. heads' = {0} /\ Allocated' = {} /\ pages' = {0} /\ oops' = {}
  BY DEF Map, Allocated, Paged
<1>3. ASSUME NEW p \in Page PROVE Used(p)' <=> p = 0
  <2>1. p \in Nat /\ Base(p) \in Nat /\ (0 < p => Base(0) + PageSize <= Base(p))
    BY PageIs, BaseIs
  <2>2. Used(p)' <=> Base(p) < 0 + Header /\ 0 < Base(p) + PageSize
    BY <1>2 DEF Used, On
  <2>3. Base(0) = 0 /\ PageSize \in Nat \ {0} /\ Header \in Nat \ {0} /\ Header < PageSize
    BY PageIs, BaseIs, SizeFits, BufHeader
  <2>. QED
    BY <2>1, <2>2, <2>3
<1>4. 0 \in Page
  BY BufSizes DEF Page
<1>5. pages' = {p \in Page : Used(p)'}
  BY <1>2, <1>3, <1>4
<1>. QED
  BY <1>1, <1>2, <1>5 DEF Paged, Snug

\* The buffer that binder_alloc_buf takes has room.
LEMMA FitIs ==
    ASSUME Tiled, NEW n \in Sizes, NEW a \in BestFits(n)
    PROVE  /\ a \in free /\ a \in heads /\ n \in Nat
           /\ a + Header + n <= NextHead(heads, a)
<1>1. a \in Addr /\ key[a] # NIL /\ BufferSize(heads, a) >= n
  BY DEF BestFits, Fitting
<1>2. a \in free /\ a \in heads
  BY <1>1 DEF Tiled, TreeFresh, Shape
<1>. QED
  BY <1>1, <1>2, BufSizes, OrderIs, SizeFits DEF BufferSize

LEMMA AllocPaged ==
    ASSUME Paged, NEW n \in Sizes, NEW oneway \in BOOLEAN, Alloc(n, oneway)
    PROVE  Paged'
<1>1. Tiled /\ Tiled'
  BY AllocTiled DEF Paged
<1>2. PICK a \in BestFits(n) :
        LET rest == IF Cut(n, BufferSize(heads, a)) = n THEN {} ELSE {a + Header + n} IN
        /\ pages' = pages \cup Mapped(n, a)
        /\ oops' = oops \cup InUse(Mapped(n, a))
        /\ heads' = heads \cup rest
        /\ free' = (free \ {a}) \cup rest
        /\ size' = [size EXCEPT ![a] = n]
  BY DEF Alloc
<1>. DEFINE e == NextHead(heads, a)
            d == a + Header
            cut == Cut(n, e - d)
            rest == IF cut = n THEN {} ELSE {d + n}
            M == Mapped(n, a)
<1>3. /\ a \in free /\ a \in heads /\ a \in Nat /\ a \in Addr /\ n \in Nat
      /\ e \in Nat /\ e <= Size /\ e \in heads \cup {Size}
      /\ d \in Nat /\ d <= e /\ d + n <= e /\ a < d
      /\ Header \in Nat \ {0} /\ Slack \in Nat \ {0}
  BY <1>1, FitIs, OrderIs, SizeFits
<1>4. /\ pages' = pages \cup M /\ oops' = oops \cup InUse(M)
      /\ heads' = heads \cup rest /\ free' = (free \ {a}) \cup rest
      /\ size' = [size EXCEPT ![a] = n]
  BY <1>2 DEF BufferSize
\* Either nothing is split off, and little is left, or a header fits behind the data.
<1>5. \/ cut = n /\ rest = {} /\ e <= d + n + Header + Slack
      \/ cut = n + Header /\ rest = {d + n} /\ d + n + Header <= e
  BY <1>3 DEF Cut
<1>6. cut \in Nat
  BY <1>3, <1>5
<1>7. \A p \in Page : p \in M <=> d <= Base(p) /\ Base(p) + PageSize <= e /\ Base(p) < d + cut
  BY <1>3, <1>6, MappedIs
<1>8. M \subseteq Page
  BY DEF Mapped, PageRange
<1>. HIDE DEF e, d, cut, rest, M
<1>9. \A p \in M : ~Used(p)
  BY <1>1, <1>3, <1>7, <1>8, UnusedIs DEF d, e
<1>10. oops' = {}
  <2>1. M \cap pages = {}
    BY <1>9 DEF Paged
  <2>. QED
    BY <1>4, <2>1 DEF InUse, Paged
<1>11. \A b \in rest : b \notin heads
  <2>1. ASSUME d + n \in heads, d + n + Header <= e PROVE FALSE
    BY <1>1, <1>3, <2>1, OrderIs DEF e
  <2>. QED
    BY <1>5, <2>1
<1>12. /\ Allocated' = Allocated \cup {a} /\ a \notin Allocated
       /\ \A b \in Allocated : size'[b] = size[b]
       /\ size'[a] = n
  <2>1. free \in SUBSET heads /\ size \in [Addr -> Nat] /\ heads \in SUBSET Addr
    BY <1>1 DEF Tiled, Shape
  <2>. QED
    BY <1>3, <1>4, <1>11, <2>1 DEF Allocated
<1>13. ASSUME NEW p \in Page PROVE Used(p)' <=> Used(p) \/ p \in M
  <2>. DEFINE New == On(p, d, d + n) \/ (cut # n /\ On(p, d + n, d + n + Header))
  <2>1. Used(p)' <=> Used(p) \/ New
    <3>1. (\E b \in heads' : On(p, b, b + Header))
            <=> (\E b \in heads : On(p, b, b + Header)) \/ (cut # n /\ On(p, d + n, d + n + Header))
      BY <1>4 DEF rest
    <3>2. (\E b \in Allocated' : On(p, b + Header, b + Header + size'[b]))
            <=> (\E b \in Allocated : On(p, b + Header, b + Header + size[b])) \/ On(p, d, d + n)
      BY <1>12 DEF d
    <3>. QED
      BY <3>1, <3>2 DEF Used, On
  <2>2. Base(p) \in Nat /\ PageSize \in Nat \ {0} /\ Base(p) + PageSize <= Size
    BY PageIs
  <2>3. p \in M => New
    BY <1>3, <1>5, <1>7, <2>2 DEF On
  <2>4. ASSUME New, p \notin M PROVE Used(p)
    <3>1. Base(p) < d + cut /\ d < Base(p) + PageSize
      BY <1>3, <1>5, <2>2, <2>4 DEF On
    <3>2. CASE Base(p) < d
      BY <1>3, <2>2, <3>1, <3>2 DEF On, Used, d
    <3>3. CASE ~(Base(p) < d)
      <4>1. e < Base(p) + PageSize /\ Base(p) < e
        BY <1>3, <1>5, <1>6, <1>7, <2>2, <2>4, <3>1, <3>3
      <4>2. e \in heads /\ On(p, e, e + Header)
        BY <1>3, <2>2, <4>1 DEF On
      <4>. QED
        BY <4>2 DEF Used
    <3>. QED
      BY <3>2, <3>3
  <2>. QED
    BY <2>1, <2>3, <2>4
<1>14. pages' = {p \in Page : Used(p)'}
  BY <1>4, <1>8, <1>13 DEF Paged
<1>15. Snug'
  <2>0. ASSUME d + n + Header <= e
        PROVE  /\ NextHead(heads \cup {d + n}, a) = d + n
               /\ \A b \in heads \ {a} : NextHead(heads \cup {d + n}, b) = NextHead(heads, b)
    <3>1. PICK r \in Addr : r = d + n
      BY <1>3, <2>0, SizeFits DEF Addr
    <3>2. a < r /\ r < e /\ heads \in SUBSET Addr
      BY <1>1, <1>3, <2>0, <3>1 DEF Tiled, Shape
    <3>3. /\ NextHead(heads \cup {r}, a) = r
          /\ \A b \in heads \ {a} : NextHead(heads \cup {r}, b) = NextHead(heads, b)
      BY <1>3, <3>2, NextSplit DEF e
    <3>. QED
      BY <3>1, <3>3
  <2>1. ASSUME NEW b \in Allocated PROVE NextHead(heads', b) = NextHead(heads, b)
    <3>1. CASE rest = {}
      BY <1>4, <3>1
    <3>2. CASE rest = {d + n} /\ d + n + Header <= e
      BY <1>4, <1>12, <2>0, <3>2 DEF Allocated
    <3>. QED
      BY <1>5, <3>1, <3>2
  <2>2. NextHead(heads', a) <= d + n + Header + Slack
    <3>1. CASE rest = {} /\ e <= d + n + Header + Slack
      BY <1>4, <3>1 DEF e
    <3>2. CASE rest = {d + n} /\ d + n + Header <= e
      BY <1>3, <1>4, <2>0, <3>2
    <3>. QED
      BY <1>5, <3>1, <3>2
  <2>. QED
    BY <1>12, <2>1, <2>2 DEF Snug, Paged, d
<1>. QED
  BY <1>1, <1>10, <1>14, <1>15 DEF Paged

\* A page that cannot be had: those got before it are given back.
LEMMA AllocNoPagePaged ==
    ASSUME Paged, NEW n \in Sizes, NEW oneway \in BOOLEAN, AllocNoPage(n, oneway)
    PROVE  Paged'
<1>1. Tiled /\ Tiled'
  BY QuietTiled DEF Paged
<1>a. PICK a \in BestFits(n) : \E p \in Mapped(n, a) :
        LET got == {q \in Mapped(n, a) : q < p} IN
        /\ pages' = Undone(got)
        /\ oops' = oops \cup InUse(got \cup {p})
  BY DEF AllocNoPage
<1>2. PICK p \in Mapped(n, a) :
        LET got == {q \in Mapped(n, a) : q < p} IN
        /\ pages' = Undone(got)
        /\ oops' = oops \cup InUse(got \cup {p})
  BY <1>a
<1>. DEFINE got == {q \in Mapped(n, a) : q < p}
            e == NextHead(heads, a)
            d == a + Header
            cut == Cut(n, e - d)
<1>3. /\ a \in free /\ a \in Nat /\ n \in Nat /\ e \in Nat /\ d \in Nat /\ d <= e
      /\ Header \in Nat
  BY <1>1, FitIs, OrderIs, SizeFits
<1>4. cut \in Nat
  BY <1>3 DEF Cut
<1>5. \A q \in Mapped(n, a) : q \in Page /\ d <= Base(q) /\ Base(q) + PageSize <= e
  <2>1. Mapped(n, a) \subseteq Page
    BY DEF Mapped, PageRange
  <2>. QED
    BY <1>3, <1>4, <2>1, MappedIs
<1>6. \A q \in Mapped(n, a) : ~Used(q)
  BY <1>1, <1>3, <1>5, UnusedIs
<1>7. got \subseteq Mapped(n, a)
  OBVIOUS
<1>. HIDE DEF got
<1>8. (got \cup {p}) \cap pages = {}
  BY <1>6, <1>7 DEF Paged
<1>9. pages' = pages /\ oops' = {}
  <2>1. pages' = (pages \cup got) \ got /\ oops' = oops \cup InUse(got \cup {p})
    BY <1>2 DEF got, Undone
  <2>. QED
    BY <1>8, <2>1 DEF InUse, Paged
<1>10. UNCHANGED <<heads, free, size>>
  BY DEF AllocNoPage
<1>11. Allocated' = Allocated
  BY <1>10 DEF Allocated
<1>12. \A q \in Page : Used(q)' <=> Used(q)
  BY <1>10, <1>11 DEF Used
<1>13. Snug'
  BY <1>10, <1>11 DEF Paged, Snug
<1>. QED
  BY <1>1, <1>9, <1>12, <1>13 DEF Paged

LEMMA EndPaged ==
    ASSUME Paged, VmaClose \/ Release
    PROVE  Paged'
<1>1. Tiled'
  BY QuietTiled DEF Paged
<1>2. CASE VmaClose
  BY <1>1, <1>2 DEF VmaClose, Paged, Snug, Used, Allocated, NextHead
<1>3. CASE Release
  BY <1>1, <1>3 DEF Release, Paged, Snug, Used, Allocated
<1>. QED
  BY <1>2, <1>3

-------------------------------------------------------------------------------
(* binder_free_buf *)

\* The pages of a header inside the mapping are pages of it.
LEMMA HeaderPagesIn ==
    ASSUME NEW hs, NEW b \in Nat, b + Header <= Size
    PROVE  HeaderPages(hs, b) \subseteq Page
<1>1. /\ Header \in Nat \ {0} /\ PageSize \in Nat \ {0} /\ Pages \in Nat /\ Base(Pages) = Size
  BY BufSizes, BaseIs
<1>2. ASSUME NEW w \in Nat, w < Size PROVE w \div PageSize \in Page
  <2>. DEFINE q == w \div PageSize
  <2>1. q \in Nat /\ Base(q) <= w /\ Base(q) \in Nat
    BY QuotientIs, BaseIs
  <2>. HIDE DEF q
  <2>2. Pages < q => Base(Pages) + PageSize <= Base(q)
    BY <1>1, <2>1, BaseIs
  <2>3. q < Pages
    BY <1>1, <1>2, <2>1, <2>2, SizeFits
  <2>4. q \in Page
    BY <1>1, <2>1, <2>3 DEF Page
  <2>. QED
    BY <2>4 DEF q
<1>3. StartPage(b) \in Page
  <2>1. b < Size
    BY <1>1, SizeFits
  <2>. QED
    BY <1>2, <2>1 DEF StartPage
<1>4. b + Header - 1 \in Nat /\ b + Header - 1 < Size
  BY <1>1, SizeFits
<1>5. EndPage(b) \in Page
  BY <1>2, <1>4 DEF EndPage
<1>. QED
  BY <1>3, <1>5 DEF HeaderPages

\* binder_free_buf of a. A page in use before is in use after, or is one of those that
\* are given back: of the data, of the header behind, of the header of a itself.
LEMMA FreePaged ==
    ASSUME Paged, NEW a \in Addr, FreeBuf(a)
    PROVE  Paged'
<1>. DEFINE e == NextHead(heads, a)
            d == a + Header
            jn == JoinsNext(a)
            jp == JoinsPrev(a)
            v == PrevHead(heads, a)
            next == IF jn THEN {e} ELSE {}
            own == IF jp THEN {a} ELSE {}
            left == heads \ (next \cup own)
            y == NextHead(heads, e)
            z == NextHead(heads \ next, a)
            data == PageRange(PageUp(a + Header), PageDown(a + Header + BufferSize(heads, a)))
            nextPages == UNION {HeaderPages(heads, b) : b \in next}
            ownPages == UNION {HeaderPages(heads \ next, b) : b \in own}
<1>1. Tiled /\ Tiled' /\ heads \in SUBSET Addr /\ free \in SUBSET heads
  BY FreeTiled DEF Paged, Tiled, Shape
<1>2. /\ a \in heads /\ a \in Allocated /\ a \notin free
      /\ heads' = left /\ free' = (free \cup {a}) \cap left
      /\ pages' = pages \ (data \cup nextPages \cup ownPages)
      /\ size' = [size EXCEPT ![a] = 0]
  BY DEF FreeBuf, Allocated
<1>3. oops' = oops
         \cup (IF size[a] > BufferSize(heads, a) THEN {"size"} ELSE {})
         \cup (IF \/ ~(data \subseteq pages) \/ ~(nextPages \subseteq pages \ data)
                  \/ ~(ownPages \subseteq pages \ (data \cup nextPages))
               THEN {"page not there"} ELSE {})
  BY DEF FreeBuf
<1>4. /\ a \in Nat /\ d \in Nat /\ e \in Nat /\ a < d /\ d <= e /\ e <= Size
      /\ e \in heads \cup {Size} /\ size[a] \in Nat /\ d + size[a] <= e
      /\ Header \in Nat \ {0} /\ Slack \in Nat \ {0}
      /\ Size \in Nat /\ \A b \in heads : b # Size
  BY <1>1, <1>2, OrderIs, SizeFits
\* What is where: the header behind, if it is free; the header in front, if it is.
<1>5. jn => /\ e \in heads /\ e \in free /\ e # Size /\ y \in Nat /\ e + Header <= y /\ y <= Size
            /\ y \in heads \cup {Size} /\ \A b \in heads : e < b => y <= b
  <2>1. jn => e \in free
    BY DEF JoinsNext
  <2>. QED
    BY <1>1, <1>4, <2>1, OrderIs
<1>6. jp => /\ v \in heads /\ v \in free /\ v \in Nat /\ v + Header <= a
            /\ \A b \in heads : b < a => b <= v
  <2>1. jp => v \in free /\ \E b \in heads : b < a
    BY DEF JoinsPrev
  <2>2. jp => v < a /\ v \in heads /\ \A b \in heads : b < a => b <= v
    BY <1>1, <2>1, PrevIs
  <2>. HIDE DEF e, d, v, jp, next, own, left, y, z, data
  <2>3. jp => v \in Nat /\ v + Header <= a
    BY <1>1, <1>2, <2>2, GapIs, AddrIs
  <2>. QED
    BY <2>1, <2>2, <2>3
<1>7. \A b \in heads : /\ b \in Nat /\ b < Size
                       /\ (b < a => b + Header <= a) /\ (a < b => e <= b)
  BY <1>1, <1>2, GapIs, AddrIs
<1>8. jn => PrevHead(heads, e) = a
  <2>. SUFFICES ASSUME jn PROVE PrevHead(heads, e) = a
    OBVIOUS
  <2>. DEFINE u == PrevHead(heads, e)
  <2>1. e \in Addr /\ a < e
    BY <1>1, <1>4, <1>5
  <2>2. u \in heads /\ u < e /\ a <= u
    BY <1>1, <1>2, <2>1, PrevIs
  <2>. QED
    BY <1>4, <1>7, <2>2
<1>9. /\ z = IF jn THEN y ELSE e
  <2>1. CASE jn
    <3>1. y > a
      BY <1>4, <1>5, <2>1
    <3>2. \A b \in heads \ {e} : b > a => y <= b
      BY <1>4, <1>5, <1>7, <2>1
    <3>3. y \in (heads \ {e}) \cup {Size}
      BY <1>4, <1>5, <2>1
    <3>4. Behind(heads \ {e}, a, y)
      BY <3>1, <3>2, <3>3 DEF Behind
    <3>5. NextHead(heads \ {e}, a) = y
      BY <1>1, <3>4, NextUnique
    <3>. QED
      BY <2>1, <3>5
  <2>2. CASE ~jn
    BY <2>2
  <2>. QED
    BY <2>1, <2>2
<1>10. jp => PrevHead(heads \ next, a) = v
  <2>1. {b \in heads \ next : b < a} = {b \in heads : b < a}
    BY <1>4, <1>7
  <2>. QED
    BY <2>1 DEF PrevHead
<1>. HIDE DEF e, v, y, z, data, jn, jp
\* The pages given back, by the headers around.
<1>11. ASSUME NEW p \in Page PROVE p \in data <=> d <= Base(p) /\ Base(p) + PageSize <= e
  <2>1. a + Header + BufferSize(heads, a) = e
    BY <1>4 DEF BufferSize, e
  <2>2. data = PageRange(PageUp(d), PageDown(e))
    BY <2>1 DEF data
  <2>. QED
    BY <1>4, <2>2, DataPagesIs
<1>12. ASSUME NEW p \in Page
       PROVE  p \in nextPages <=> /\ jn /\ On(p, e, e + Header) /\ ~On(p, a, a + Header)
                                  /\ ~(y # Size /\ On(p, y, y + Header))
  <2>1. CASE jn
    <3>1. p \in nextPages <=> p \in HeaderPages(heads, e)
      BY <2>1
    <3>. QED
      BY <1>4, <1>5, <1>8, <2>1, <3>1, HeaderPagesIs DEF y
  <2>2. CASE ~jn
    BY <2>2
  <2>. QED
    BY <2>1, <2>2
<1>13. ASSUME NEW p \in Page
       PROVE  p \in ownPages <=> /\ jp /\ On(p, a, a + Header) /\ ~On(p, v, v + Header)
                                 /\ ~(z # Size /\ On(p, z, z + Header))
  <2>1. CASE jp
    <3>1. p \in ownPages <=> p \in HeaderPages(heads \ next, a)
      BY <2>1
    <3>2. z \in Nat /\ a + Header <= z
      BY <1>4, <1>5, <1>9
    <3>. QED
      BY <1>4, <1>6, <1>10, <2>1, <3>1, <3>2, HeaderPagesIs DEF z
  <2>2. CASE ~jp
    BY <2>2
  <2>. QED
    BY <2>1, <2>2
<1>14. data \subseteq Page /\ nextPages \subseteq Page /\ ownPages \subseteq Page
  <2>1. data \subseteq Page
    BY DEF data, PageRange
  <2>2. jn => HeaderPages(heads, e) \subseteq Page
    BY <1>4, <1>5, HeaderPagesIn
  <2>3. HeaderPages(heads \ next, a) \subseteq Page
    BY <1>4, HeaderPagesIn
  <2>. QED
    BY <2>1, <2>2, <2>3
\* What is left.
<1>15. left = {b \in heads : ~(jn /\ b = e) /\ ~(jp /\ b = a)}
  OBVIOUS
<1>16. /\ Allocated' = Allocated \ {a}
       /\ \A b \in Allocated \ {a} : size'[b] = size[b]
  <2>1. \A b \in Allocated : b # a => b \in left
    BY <1>5, <1>15 DEF Allocated
  <2>2. size \in [Addr -> Nat]
    BY <1>1 DEF Tiled, Shape
  <2>3. \A b \in Allocated \ {a} : size'[b] = size[b]
    BY <1>1, <1>2, <2>2 DEF Allocated
  <2>4. Allocated' = Allocated \ {a}
    BY <1>2, <1>15, <2>1 DEF Allocated
  <2>. QED
    BY <2>3, <2>4
<1>17. ASSUME NEW b \in Allocated, b # a
       PROVE  /\ b \in heads /\ size[b] \in Nat /\ b \in Nat
              /\ b < a => b + Header + size[b] <= a /\ (jp => b + Header + size[b] <= v)
              /\ a < b => e <= b /\ (jn => y <= b)
  <2>1. b \in heads /\ size[b] \in Nat /\ b + Header + size[b] <= NextHead(heads, b) /\ b \notin free
    BY <1>1, OrderIs DEF Allocated
  <2>2. b \in Nat /\ (b < a => NextHead(heads, b) <= a) /\ NextHead(heads, b) \in Nat
    BY <1>1, <1>2, <2>1, OrderIs
  <2>3. ASSUME b < a, jp PROVE NextHead(heads, b) <= v
    <3>1. b < v
      BY <1>6, <2>1, <2>2, <2>3
    <3>. QED
      BY <1>1, <1>6, <2>1, <2>3, <3>1, GapIs
  <2>4. ASSUME a < b, jn PROVE y <= b
    <3>1. e <= b /\ e # b
      BY <1>5, <1>7, <2>1, <2>4
    <3>2. e < b
      BY <1>4, <2>2, <3>1
    <3>. QED
      BY <1>5, <2>1, <2>4, <3>2
  <2>5. size[b] \in Nat /\ Header \in Nat
    BY <1>4, <2>1
  <2>. QED
    BY <1>4, <1>6, <1>7, <2>1, <2>2, <2>3, <2>4, <2>5
<1>. HIDE DEF next, own, left, nextPages, ownPages
\* A page of what is left was in use, and is not given back.
<1>18. ASSUME NEW p \in Page, Used(p)'
       PROVE  Used(p) /\ p \notin data \cup nextPages \cup ownPages
  <2>0. Base(p) \in Nat /\ PageSize \in Nat \ {0} /\ Base(p) + PageSize <= Size
    BY PageIs
  <2>1. \/ \E b \in left : On(p, b, b + Header)
        \/ \E b \in Allocated \ {a} : On(p, b + Header, b + Header + size[b])
    BY <1>2, <1>16, <1>18 DEF Used, On
  <2>2. ASSUME NEW b \in left, On(p, b, b + Header)
        PROVE  Used(p) /\ p \notin data \cup nextPages \cup ownPages
    <3>1. /\ b \in heads /\ b \in Nat /\ ~(jn /\ b = e) /\ ~(jp /\ b = a)
          /\ Base(p) < b + Header /\ b < Base(p) + PageSize /\ b # Size
      BY <1>4, <1>7, <1>15, <2>2 DEF On
    <3>2. Used(p)
      BY <2>2, <3>1 DEF Used
    <3>3. (b < a => b + Header <= a) /\ (a < b => e <= b)
      BY <1>7, <3>1
    <3>4. p \notin data
      BY <1>4, <1>11, <2>0, <3>1, <3>3
    <3>5. p \notin nextPages
      <4>. SUFFICES ASSUME jn, Base(p) < e + Header, e < Base(p) + PageSize,
                           ~On(p, a, a + Header), ~(y # Size /\ On(p, y, y + Header))
                    PROVE  FALSE
        BY <1>12 DEF On
      <4>1. CASE b <= a
        BY <1>4, <1>5, <2>0, <3>1, <3>3, <4>1 DEF On
      <4>2. CASE a < b
        <5>1. y <= b /\ b < Size
          BY <1>4, <1>5, <1>7, <3>1, <3>3, <4>2
        <5>. QED
          BY <1>4, <1>5, <2>0, <3>1, <5>1 DEF On
      <4>. QED
        BY <1>4, <3>1, <4>1, <4>2
    <3>6. p \notin ownPages
      <4>. SUFFICES ASSUME jp, Base(p) < a + Header, a < Base(p) + PageSize,
                           ~On(p, v, v + Header), ~(z # Size /\ On(p, z, z + Header))
                    PROVE  FALSE
        BY <1>13 DEF On
      <4>1. CASE b < a
        <5>1. b <= v
          BY <1>6, <3>1, <4>1
        <5>. QED
          BY <1>4, <1>6, <2>0, <3>1, <5>1 DEF On
      <4>2. CASE a < b
        <5>1. z <= b /\ b < Size /\ z \in Nat /\ d <= z
          BY <1>4, <1>5, <1>7, <1>9, <3>1, <3>3, <4>2
        <5>. QED
          BY <1>4, <2>0, <3>1, <5>1 DEF On
      <4>. QED
        BY <1>4, <3>1, <4>1, <4>2
    <3>. QED
      BY <3>2, <3>4, <3>5, <3>6
  <2>3. ASSUME NEW b \in Allocated \ {a}, On(p, b + Header, b + Header + size[b])
        PROVE  Used(p) /\ p \notin data \cup nextPages \cup ownPages
    <3>1. /\ b \in Allocated /\ b # a
          /\ b \in heads /\ size[b] \in Nat /\ b \in Nat /\ b < Size
          /\ b < a => b + Header + size[b] <= a /\ (jp => b + Header + size[b] <= v)
          /\ a < b => e <= b /\ (jn => y <= b)
      BY <1>7, <1>17
    <3>2. Base(p) < b + Header + size[b] /\ b + Header < Base(p) + PageSize
      BY <2>3 DEF On
    <3>3. Used(p)
      BY <2>3, <3>1 DEF Used
    <3>4. p \notin data
      BY <1>4, <1>11, <2>0, <3>1, <3>2
    <3>5. p \notin nextPages
      <4>. SUFFICES ASSUME jn, Base(p) < e + Header, e < Base(p) + PageSize,
                           ~On(p, a, a + Header), ~(y # Size /\ On(p, y, y + Header))
                    PROVE  FALSE
        BY <1>12 DEF On
      <4>1. CASE b < a
        BY <1>4, <1>5, <2>0, <3>1, <3>2, <4>1 DEF On
      <4>2. CASE a < b
        BY <1>4, <1>5, <2>0, <3>1, <3>2, <4>2 DEF On
      <4>. QED
        BY <1>4, <3>1, <4>1, <4>2
    <3>6. p \notin ownPages
      <4>. SUFFICES ASSUME jp, Base(p) < a + Header, a < Base(p) + PageSize,
                           ~On(p, v, v + Header), ~(z # Size /\ On(p, z, z + Header))
                    PROVE  FALSE
        BY <1>13 DEF On
      <4>1. CASE b < a
        BY <1>4, <1>6, <2>0, <3>1, <3>2, <4>1 DEF On
      <4>2. CASE a < b
        <5>1. z <= b /\ z \in Nat /\ d <= z
          BY <1>4, <1>5, <1>9, <3>1, <4>2
        <5>. QED
          BY <1>4, <2>0, <3>1, <3>2, <5>1 DEF On
      <4>. QED
        BY <1>4, <3>1, <4>1, <4>2
    <3>. QED
      BY <3>3, <3>4, <3>5, <3>6
  <2>. QED
    BY <2>1, <2>2, <2>3
\* A page that was in use and is so no more is given back.
<1>19. ASSUME NEW p \in Page, Used(p), ~Used(p)'
       PROVE  p \in data \cup nextPages \cup ownPages
  <2>0. Base(p) \in Nat /\ PageSize \in Nat \ {0} /\ Base(p) + PageSize <= Size
    BY PageIs
  <2>1. /\ \A b \in left : ~On(p, b, b + Header)
        /\ \A b \in Allocated \ {a} : ~On(p, b + Header, b + Header + size[b])
    BY <1>2, <1>16, <1>19 DEF Used, On
  <2>2. ASSUME On(p, a, a + Header) PROVE p \in ownPages
    <3>1. jp
      BY <1>2, <1>4, <1>5, <1>15, <2>1, <2>2
    <3>2. v \in left
      BY <1>4, <1>5, <1>6, <1>15, <3>1
    <3>3. z # Size => z \in left
      BY <1>4, <1>5, <1>9, <1>15
    <3>. QED
      BY <1>13, <2>1, <2>2, <3>1, <3>2, <3>3
  <2>3. ASSUME e # Size, On(p, e, e + Header) PROVE p \in nextPages \cup ownPages
    <3>1. e \in heads /\ a # e
      BY <1>4, <2>3
    <3>2. jn
      BY <1>15, <2>1, <2>3, <3>1
    <3>3. y # Size => y \in left
      BY <1>4, <1>5, <1>15, <3>2
    <3>. QED
      BY <1>12, <2>1, <2>2, <2>3, <3>2, <3>3
  <2>4. ASSUME On(p, d, d + size[a]) PROVE p \in data \cup nextPages \cup ownPages
    <3>1. Base(p) < d + size[a] /\ d < Base(p) + PageSize
      BY <2>4 DEF On
    <3>2. CASE Base(p) < d
      <4>1. On(p, a, a + Header)
        BY <1>4, <2>0, <3>1, <3>2 DEF On
      <4>. QED
        BY <2>2, <4>1
    <3>3. CASE Base(p) + PageSize > e
      <4>1. e # Size /\ On(p, e, e + Header)
        BY <1>4, <2>0, <3>1, <3>3 DEF On
      <4>. QED
        BY <2>3, <4>1
    <3>4. CASE d <= Base(p) /\ Base(p) + PageSize <= e
      BY <1>11, <3>4
    <3>. QED
      BY <1>4, <2>0, <3>2, <3>3, <3>4
  <2>5. ASSUME NEW b \in heads, On(p, b, b + Header) PROVE b = a \/ (b = e /\ e # Size)
    BY <1>4, <1>15, <2>1, <2>5
  <2>. QED
    BY <1>19, <2>1, <2>2, <2>3, <2>4, <2>5 DEF Used
<1>20. pages' = {p \in Page : Used(p)'}
  BY <1>2, <1>18, <1>19 DEF Paged
\* What is given back is there, once.
<1>21. oops' = {}
  <2>1. ~(size[a] > BufferSize(heads, a))
    BY <1>4 DEF BufferSize, e
  <2>2. ASSUME NEW p \in data PROVE p \in pages
    <3>1. p \in Page /\ d <= Base(p) /\ Base(p) + PageSize <= e
      BY <1>11, <1>14
    <3>2. /\ Base(p) \in Nat /\ PageSize \in Nat \ {0} /\ Header + Slack < PageSize
          /\ e <= d + size[a] + Header + Slack
      BY <1>2, <3>1, PageIs, BufHeader DEF Paged, Snug, e
    <3>3. On(p, a + Header, a + Header + size[a])
      BY <1>4, <3>1, <3>2 DEF On
    <3>. QED
      BY <1>2, <3>1, <3>3 DEF Paged, Used
  <2>3. ASSUME NEW p \in nextPages PROVE p \in pages /\ p \notin data
    <3>1. p \in Page /\ jn /\ On(p, e, e + Header)
      BY <1>12, <1>14
    <3>2. Base(p) \in Nat /\ PageSize \in Nat
      BY <3>1, PageIs
    <3>3. p \notin data
      BY <1>4, <1>11, <3>1, <3>2 DEF On
    <3>. QED
      BY <1>5, <3>1, <3>3 DEF Paged, Used
  <2>4. ASSUME NEW p \in ownPages PROVE p \in pages /\ p \notin data /\ p \notin nextPages
    <3>1. p \in Page /\ On(p, a, a + Header)
      BY <1>13, <1>14
    <3>2. Base(p) \in Nat /\ PageSize \in Nat
      BY <3>1, PageIs
    <3>3. p \notin data /\ p \notin nextPages
      BY <1>4, <1>11, <1>12, <3>1, <3>2 DEF On
    <3>. QED
      BY <1>2, <3>1, <3>3 DEF Paged, Used
  <2>. QED
    BY <1>3, <2>1, <2>2, <2>3, <2>4 DEF Paged
<1>22. Snug'
  <2>. SUFFICES ASSUME NEW b \in Allocated, b # a PROVE NextHead(left, b) = NextHead(heads, b)
    BY <1>2, <1>16 DEF Paged, Snug
  <2>1. b \in heads /\ b \in Nat /\ b \in Addr /\ (b < a => b + Header + size[b] <= a)
    BY <1>1, <1>17
  <2>2. Behind(heads, b, NextHead(heads, b)) /\ NextHead(heads, b) \in Nat
    BY <1>1, <2>1, NextIs
  <2>3. jn => NextHead(heads, b) # e
    <3>. SUFFICES ASSUME jn, NextHead(heads, b) = e PROVE FALSE
      OBVIOUS
    <3>1. b < a
      BY <1>4, <1>7, <2>1, <2>2 DEF Behind
    <3>2. NextHead(heads, b) <= a
      BY <1>2, <2>2, <3>1 DEF Behind
    <3>. QED
      BY <1>4, <3>2
  <2>4. jp => NextHead(heads, b) # a
    <3>. SUFFICES ASSUME jp, NextHead(heads, b) = a PROVE FALSE
      OBVIOUS
    <3>1. b < a
      BY <2>2 DEF Behind
    <3>2. b < v
      BY <1>6, <2>1, <3>1 DEF Allocated
    <3>3. a <= v
      BY <1>6, <2>2, <3>2 DEF Behind
    <3>. QED
      BY <1>4, <1>6, <3>3
  <2>. DEFINE gone == next \cup own
  <2>5. NextHead(heads, b) \notin gone
    BY <2>3, <2>4 DEF next, own
  <2>. HIDE DEF gone
  <2>6. NextHead(heads \ gone, b) = NextHead(heads, b)
    BY <1>1, <2>1, <2>5, NextKept
  <2>. QED
    BY <2>6 DEF left, gone
<1>. QED
  BY <1>1, <1>20, <1>21, <1>22 DEF Paged

LEMMA StepPaged == Paged /\ [Next]_vars => Paged'
<1>. SUFFICES ASSUME Paged, [Next]_vars PROVE Paged'
  OBVIOUS
<1>1. CASE Map
  BY <1>1, MapPaged
<1>2. CASE VmaClose \/ Release
  BY <1>2, EndPaged
<1>3. ASSUME NEW n \in Sizes, NEW oneway \in BOOLEAN, Alloc(n, oneway) PROVE Paged'
  BY <1>3, AllocPaged
<1>4. ASSUME NEW n \in Sizes, NEW oneway \in BOOLEAN, AllocNoPage(n, oneway) PROVE Paged'
  BY <1>4, AllocNoPagePaged
<1>5. ASSUME NEW a \in Addr, FreeBuf(a) PROVE Paged'
  BY <1>5, FreePaged
<1>6. CASE UNCHANGED vars
  BY <1>6, StutterPaged
<1>. QED
  BY <1>1, <1>2, <1>3, <1>4, <1>5, <1>6 DEF Next

LEMMA PagedAlways == Spec => []Paged
BY InitPaged, StepPaged, PTL DEF Spec

-------------------------------------------------------------------------------
(* Results *)

\* The pages that are mapped are those that hold a header or data in use
\* (binder_update_page_range, binder_free_buf, binder_delete_free_buffer).
THEOREM PagesExactAlways == Spec => []PagesExact
<1>1. Paged => PagesExact
  BY ExactIs DEF Paged
<1>. QED
  BY <1>1, PagedAlways, PTL

\* No page is mapped twice or freed while it is not there, and no buffer is smaller
\* than what is in it: no BUG_ON() of the allocator fires.
THEOREM BufferBugsNever == Spec => []NoBug
<1>1. Paged => NoBug
  BY DEF Paged, NoBug
<1>. QED
  BY <1>1, PagedAlways, PTL

-------------------------------------------------------------------------------
(* Sums over sets *)

\* What the one-way calls in S have taken of the space for them.
Taken(sz, S) == MapThenSumSet(LAMBDA a : sz[a] + Header, S)

Chosen(s) == CHOOSE x \in s : TRUE
\* it is the sum of the weights w, as MapThenSumSet defines it, of all subsets of S.
Sums(w, S, it) ==
    it = [s \in SUBSET S |-> IF s = {} THEN 0 ELSE w[Chosen(s)] + it[s \ {Chosen(s)}]]

\* As many cells for each element as it weighs: sums are cardinalities.
Cells(w, s) == UNION {{x} \X (1..w[x]) : x \in s}

LEMMA CellsFinite ==
    ASSUME NEW s, IsFiniteSet(s), NEW w, \A x \in s : w[x] \in Nat
    PROVE  IsFiniteSet(Cells(w, s)) /\ Cardinality(Cells(w, s)) \in Nat
<1>. DEFINE f == [x \in s |-> {x} \X (1..w[x])]
            T == {f[x] : x \in s}
<1>1. f \in Surjection(s, T)
  BY DEF Surjection
<1>2. IsFiniteSet(T)
  BY <1>1, FS_Surjection
<1>3. ASSUME NEW t \in T PROVE IsFiniteSet(t)
  <2>1. PICK x \in s : t = {x} \X (1..w[x])
    OBVIOUS
  <2>2. IsFiniteSet(1..w[x])
    BY FS_Interval
  <2>3. IsFiniteSet({x})
    BY FS_Singleton
  <2>4. IsFiniteSet({x} \X (1..w[x]))
    BY <2>2, <2>3, FS_Product
  <2>. QED
    BY <2>1, <2>4
<1>4. Cells(w, s) = UNION T
  BY DEF Cells
<1>. HIDE DEF T
<1>5. IsFiniteSet(UNION T)
  BY <1>2, <1>3, FS_UNION
<1>. QED
  BY <1>4, <1>5, FS_CardinalityType

LEMMA CellsOne ==
    ASSUME NEW s, IsFiniteSet(s), NEW w, \A x \in s : w[x] \in Nat, NEW y \in s
    PROVE  Cardinality(Cells(w, s)) = w[y] + Cardinality(Cells(w, s \ {y}))
<1>. DEFINE A == {y} \X (1..w[y])
            B == Cells(w, s \ {y})
<1>1. Cells(w, s) = A \cup B /\ A \cap B = {}
  BY DEF Cells
<1>2. IsFiniteSet(A) /\ Cardinality(A) = w[y]
  <2>1. IsFiniteSet(1..w[y]) /\ Cardinality(1..w[y]) = w[y]
    BY FS_Interval
  <2>2. IsFiniteSet({y}) /\ Cardinality({y}) = 1
    BY FS_Singleton
  <2>3. IsFiniteSet(A) /\ Cardinality(A) = 1 * w[y]
    <3>1. /\ IsFiniteSet({y} \X (1..w[y]))
          /\ Cardinality({y} \X (1..w[y])) = Cardinality({y}) * Cardinality(1..w[y])
      <4>1. IsFiniteSet({y}) /\ IsFiniteSet(1..w[y])
        BY <2>1, <2>2
      <4>. QED
        BY ONLY <4>1, FS_Product
    <3>. QED
      BY <2>1, <2>2, <3>1
  <2>. QED
    BY <2>3
<1>3. IsFiniteSet(B) /\ Cardinality(B) \in Nat
  BY CellsFinite, FS_RemoveElement
<1>4. Cardinality(A \cup B) = Cardinality(A) + Cardinality(B) - Cardinality({})
  <2>. HIDE DEF A, B
  <2>. QED
    BY <1>1, <1>2, <1>3, FS_Union
<1>. QED
  BY <1>1, <1>2, <1>3, <1>4, FS_EmptySet

LEMMA NoCells == \A w : Cardinality(Cells(w, {})) = 0
BY FS_EmptySet DEF Cells

LEMMA SumsExist ==
    ASSUME NEW S, IsFiniteSet(S), NEW w, \A x \in S : w[x] \in Nat
    PROVE  Sums(w, S, [s \in SUBSET S |-> Cardinality(Cells(w, s))])
<1>. DEFINE g == [s \in SUBSET S |-> Cardinality(Cells(w, s))]
<1>1. ASSUME NEW s \in SUBSET S, s # {}
      PROVE  g[s] = w[Chosen(s)] + g[s \ {Chosen(s)}]
  <2>1. Chosen(s) \in s
    BY <1>1 DEF Chosen
  <2>2. IsFiniteSet(s)
    BY FS_Subset
  <2>. QED
    BY <2>1, <2>2, CellsOne
<1>2. g[{}] = 0
  BY NoCells
<1>3. \A s \in SUBSET S : g[s] = IF s = {} THEN 0 ELSE w[Chosen(s)] + g[s \ {Chosen(s)}]
  BY <1>1, <1>2
<1>4. g = [s \in SUBSET S |-> g[s]]
  OBVIOUS
<1>. HIDE DEF g
<1>5. g = [s \in SUBSET S |-> IF s = {} THEN 0 ELSE w[Chosen(s)] + g[s \ {Chosen(s)}]]
  BY <1>3, <1>4
<1>. QED
  BY <1>5 DEF Sums, g

\* There is one such function: the smallest set on which two differ is not empty,
\* and they do not differ on it without the chosen element.
LEMMA SumsOnce ==
    ASSUME NEW S, IsFiniteSet(S), NEW w, \A x \in S : w[x] \in Nat, NEW it, Sums(w, S, it)
    PROVE  it[S] = Cardinality(Cells(w, S))
<1>. DEFINE Differ(s) == it[s] # Cardinality(Cells(w, s))
            D == {n \in Nat : \E s \in SUBSET S : n = Cardinality(s) /\ Differ(s)}
<1>. SUFFICES ASSUME D # {} PROVE FALSE
  BY FS_CardinalityType
<1>1. Min(D) \in D /\ \A y \in D : Min(D) <= y
  BY LeastIs
<1>2. PICK s \in SUBSET S : Min(D) = Cardinality(s) /\ Differ(s)
  BY <1>1
<1>3. IsFiniteSet(s) /\ Cardinality(s) \in Nat
  BY FS_Subset, FS_CardinalityType
<1>4. s # {}
  BY <1>2, NoCells DEF Sums
<1>. DEFINE y == Chosen(s)
            r == s \ {y}
<1>5. y \in s
  BY <1>4 DEF Chosen
<1>6. r \in SUBSET S /\ IsFiniteSet(r) /\ Cardinality(r) = Cardinality(s) - 1 /\ Cardinality(r) \in Nat
  BY <1>3, <1>5, FS_RemoveElement, FS_CardinalityType
<1>7. it[r] = Cardinality(Cells(w, r))
  <2>. HIDE DEF r
  <2>1. Cardinality(r) \notin D
    BY <1>1, <1>2, <1>3, <1>6
  <2>. QED
    BY <2>1, <1>6
<1>8. it[s] = w[y] + it[r]
  BY <1>4 DEF Sums
<1>9. Cardinality(Cells(w, s)) = w[y] + Cardinality(Cells(w, r))
  BY <1>3, <1>5, CellsOne
<1>. QED
  BY <1>2, <1>7, <1>8, <1>9

LEMMA TakenIs ==
    ASSUME NEW S, IsFiniteSet(S), NEW sz, \A a \in S : sz[a] \in Nat
    PROVE  Taken(sz, S) = Cardinality(Cells([a \in S |-> sz[a] + Header], S))
<1>. DEFINE w == [a \in S |-> sz[a] + Header]
            P(it) == it = [s \in SUBSET S |-> IF s = {} THEN 0
                             ELSE (sz[Chosen(s)] + Header) + it[s \ {Chosen(s)}]]
<1>1. Taken(sz, S) = (CHOOSE it : P(it))[S]
  BY DEF Taken, MapThenSumSet, MapThenFoldSet, Chosen
<1>2. \A it : P(it) <=> Sums(w, S, it)
  <2>1. \A s \in SUBSET S : s # {} => Chosen(s) \in S
    BY DEF Chosen
  <2>2. \A s \in SUBSET S : s # {} => w[Chosen(s)] = sz[Chosen(s)] + Header
    BY <2>1
  <2>. QED
    BY <2>2 DEF Sums
<1>3. \A x \in S : w[x] \in Nat
  BY SizeFits
<1>4. P(CHOOSE it : P(it))
  <2>1. \E it : P(it)
    BY <1>2, <1>3, SumsExist
  <2>. HIDE DEF P
  <2>. QED
    BY <2>1
<1>. HIDE DEF w, P
<1>5. Taken(sz, S) = Cardinality(Cells(w, S))
  BY <1>1, <1>2, <1>3, <1>4, SumsOnce
<1>. QED
  BY <1>5 DEF w
\* What they take, call by call.
LEMMA TakenOne ==
    ASSUME NEW S, IsFiniteSet(S), NEW sz, \A a \in S : sz[a] \in Nat, NEW b \in S
    PROVE  Taken(sz, S) = sz[b] + Header + Taken(sz, S \ {b})
<1>. DEFINE w == [a \in S |-> sz[a] + Header]
            v == [a \in S \ {b} |-> sz[a] + Header]
<1>1. Taken(sz, S) = Cardinality(Cells(w, S))
  BY TakenIs
<1>2. IsFiniteSet(S \ {b})
  BY FS_RemoveElement
<1>3. Taken(sz, S \ {b}) = Cardinality(Cells(v, S \ {b}))
  BY <1>2, TakenIs
<1>4. Cells(v, S \ {b}) = Cells(w, S \ {b})
  BY DEF Cells
<1>5. \A x \in S : w[x] \in Nat
  BY SizeFits
<1>6. Cardinality(Cells(w, S)) = w[b] + Cardinality(Cells(w, S \ {b}))
  <2>. HIDE DEF w
  <2>. QED
    BY <1>5, CellsOne
<1>. QED
  BY <1>1, <1>3, <1>4, <1>6

LEMMA TakenSame ==
    ASSUME NEW S, IsFiniteSet(S), NEW sz, NEW tz,
           \A a \in S : sz[a] \in Nat /\ tz[a] = sz[a]
    PROVE  Taken(tz, S) = Taken(sz, S) /\ Taken(sz, S) \in Nat
<1>1. Taken(sz, S) = Cardinality(Cells([a \in S |-> sz[a] + Header], S))
  BY TakenIs
<1>2. Taken(tz, S) = Cardinality(Cells([a \in S |-> tz[a] + Header], S))
  BY TakenIs
<1>3. [a \in S |-> tz[a] + Header] = [a \in S |-> sz[a] + Header]
  OBVIOUS
<1>. DEFINE w == [a \in S |-> sz[a] + Header]
<1>4. \A x \in S : w[x] \in Nat
  BY SizeFits
<1>5. Cardinality(Cells(w, S)) \in Nat
  <2>. HIDE DEF w
  <2>. QED
    BY <1>4, CellsFinite
<1>. QED
  BY <1>1, <1>2, <1>3, <1>5

LEMMA NoneTaken == \A sz : Taken(sz, {}) = 0
<1>. TAKE sz
<1>1. IsFiniteSet({})
  BY FS_EmptySet
<1>2. Taken(sz, {}) = Cardinality(Cells([a \in {} |-> sz[a] + Header], {}))
  BY <1>1, TakenIs
<1>. QED
  BY <1>2, NoCells

-------------------------------------------------------------------------------
(* The space for one-way calls *)

\* The one-way calls hold buffers in use, and the space is what they leave.
Measured ==
    /\ Paged
    /\ vma \in {NIL, "mapped", "closed"}
    /\ async \subseteq Allocated
    /\ space \in 0..(Size \div 2)
    /\ vma # NIL => space = Size \div 2 - Taken(size, async)

LEMMA HalfIs == Size \div 2 \in Nat
BY SizeFits

LEMMA AsyncIs ==
    ASSUME Measured
    PROVE  /\ IsFiniteSet(async) /\ \A a \in async : a \in heads /\ a \notin free /\ a \in Addr /\ size[a] \in Nat
           /\ Taken(size, async) \in Nat
           /\ vma = NIL => async = {} /\ Allocated = {}
<1>1. async \subseteq Addr /\ \A a \in async : a \in heads /\ a \notin free /\ a \in Addr /\ size[a] \in Nat
  BY DEF Measured, Paged, Tiled, Shape, Allocated
<1>2. IsFiniteSet(Addr)
  BY FS_Interval, SizeFits DEF Addr
<1>3. IsFiniteSet(async)
  BY <1>1, <1>2, FS_Subset
<1>4. Taken(size, async) \in Nat
  BY <1>1, <1>3, TakenSame
<1>. QED
  BY <1>1, <1>3, <1>4 DEF Measured, Paged, Tiled, Shape, Allocated

LEMMA InitMeasured == Init => Measured
<1>1. SUFFICES ASSUME Init PROVE Measured
  OBVIOUS
<1>. QED
  BY <1>1, InitPaged, HalfIs DEF Init, Measured, Allocated

\* binder_alloc_buf: the calls that have space keep their buffers.
LEMMA AllocKeeps ==
    ASSUME Measured, NEW n \in Sizes, NEW oneway \in BOOLEAN, Alloc(n, oneway)
    PROVE  \E a \in free :
             /\ a \in Addr /\ a \notin Allocated
             /\ Allocated' = Allocated \cup {a}
             /\ size' = [size EXCEPT ![a] = n] /\ n \in Nat
             /\ async' = IF oneway THEN async \cup {a} ELSE async
             /\ space' = IF oneway THEN space - (n + Header) ELSE space
<1>1. Tiled
  BY DEF Measured, Paged
<1>2. PICK a \in BestFits(n) :
        LET rest == IF Cut(n, BufferSize(heads, a)) = n THEN {} ELSE {a + Header + n} IN
        /\ heads' = heads \cup rest
        /\ free' = (free \ {a}) \cup rest
        /\ size' = [size EXCEPT ![a] = n]
        /\ async' = IF oneway THEN async \cup {a} ELSE async
        /\ space' = IF oneway THEN space - (n + Header) ELSE space
  BY DEF Alloc
<1>3. /\ a \in free /\ a \in heads /\ n \in Nat
      /\ a + Header + n <= NextHead(heads, a)
  BY <1>1, FitIs
<1>4. a \in Addr /\ a \in Nat /\ free \subseteq heads
  BY <1>1, <1>3, OrderIs DEF Tiled, Shape
<1>. DEFINE full == BufferSize(heads, a)
            r == a + Header + n
<1>5. ASSUME Cut(n, full) # n PROVE r \notin heads
  <2>1. NextHead(heads, a) \in Nat /\ full = NextHead(heads, a) - (a + Header)
    BY <1>1, <1>3, OrderIs DEF BufferSize
  <2>2. ~(n = full \/ n + Header + Slack >= full)
    BY <1>5 DEF Cut
  <2>3. r < NextHead(heads, a) /\ a < r
    BY <2>1, <2>2, <1>3, <1>4, SizeFits
  <2>. SUFFICES ASSUME r \in heads PROVE FALSE
    OBVIOUS
  <2>4. NextHead(heads, a) <= r
    BY <1>1, <1>3, <2>3, OrderIs
  <2>. QED
    BY <2>1, <2>3, <2>4, <1>3, <1>4, SizeFits
<1>6. r # a
  BY <1>3, <1>4, SizeFits
<1>7. Allocated' = Allocated \cup {a}
  BY <1>2, <1>3, <1>5, <1>6 DEF Allocated
<1>. QED
  BY <1>2, <1>3, <1>4, <1>7 DEF Allocated

LEMMA AllocMeasured ==
    ASSUME Measured, NEW n \in Sizes, NEW oneway \in BOOLEAN, Alloc(n, oneway)
    PROVE  Measured'
<1>1. PICK a \in free :
             /\ a \in Addr /\ a \notin Allocated
             /\ Allocated' = Allocated \cup {a}
             /\ size' = [size EXCEPT ![a] = n] /\ n \in Nat
             /\ async' = IF oneway THEN async \cup {a} ELSE async
             /\ space' = IF oneway THEN space - (n + Header) ELSE space
  BY AllocKeeps
<1>2. Paged'
  BY AllocPaged DEF Measured
<1>3. vma' = vma /\ vma # NIL /\ HasSpace(n, oneway)
  BY BufNil DEF Alloc
<1>4. async' \subseteq Allocated'
  BY <1>1 DEF Measured
<1>5. size \in [Addr -> Nat] /\ a \notin async
  BY <1>1 DEF Measured, Paged, Tiled, Shape
<1>6. /\ IsFiniteSet(async) /\ \A b \in async : b \in Addr /\ size[b] \in Nat
      /\ Taken(size, async) \in Nat
  BY AsyncIs
<1>7. Taken(size', async) = Taken(size, async)
  <2>1. \A b \in async : size'[b] = size[b]
    BY <1>1, <1>5, <1>6
  <2>. QED
    BY <2>1, <1>6, TakenSame
<1>8. space' = Size \div 2 - Taken(size', async') /\ space' \in 0..(Size \div 2)
  <2>1. CASE ~oneway
    BY <2>1, <1>1, <1>3, <1>7 DEF Measured
  <2>2. CASE oneway
    <3>1. async' = async \cup {a} /\ space' = space - (n + Header) /\ space >= n + Header
      BY <2>2, <1>1, <1>3 DEF HasSpace
    <3>2. IsFiniteSet(async \cup {a})
      BY <1>6, FS_AddElement
    <3>3. \A b \in async \cup {a} : size'[b] \in Nat
      BY <1>1, <1>5, <1>6
    <3>4. (async \cup {a}) \ {a} = async
      BY <1>5
    <3>5. Taken(size', async \cup {a}) = size'[a] + Header + Taken(size', (async \cup {a}) \ {a})
      BY <3>2, <3>3, TakenOne
    <3>6. size'[a] = n
      BY <1>1, <1>5
    <3>7. Taken(size', async') = n + Header + Taken(size, async)
      BY <3>1, <3>4, <3>5, <3>6, <1>7
    <3>8. space = Size \div 2 - Taken(size, async) /\ space \in 0..(Size \div 2)
      BY <1>3 DEF Measured
    <3>. QED
      BY <3>1, <3>7, <3>8, <1>1, <1>6, HalfIs, SizeFits
  <2>. QED
    BY <2>1, <2>2
<1>. QED
  BY <1>2, <1>3, <1>4, <1>8 DEF Measured

\* binder_free_buf: the neighbours that are joined to a are free.
LEMMA FreeKeeps ==
    ASSUME Measured, NEW a \in Addr, FreeBuf(a)
    PROVE  /\ a \in Allocated /\ Allocated' = Allocated \ {a}
           /\ size' = [size EXCEPT ![a] = 0]
           /\ async' = async \ {a} /\ space' = SpaceAfter(a) /\ vma' = vma
<1>. DEFINE next == IF JoinsNext(a) THEN {NextHead(heads, a)} ELSE {}
            own == IF JoinsPrev(a) THEN {a} ELSE {}
            left == heads \ (next \cup own)
<1>1. heads' = left /\ free' = (free \cup {a}) \cap left /\ a \in Allocated
  BY DEF FreeBuf
<1>2. next \subseteq free /\ own \subseteq {a}
  BY DEF JoinsNext
<1>. HIDE DEF next, own
<1>3. Allocated' = Allocated \ {a}
  BY <1>1, <1>2 DEF Allocated
<1>. QED
  BY <1>1, <1>3 DEF FreeBuf

LEMMA FreeMeasured ==
    ASSUME Measured, NEW a \in Addr, FreeBuf(a)
    PROVE  Measured'
<1>1. /\ a \in Allocated /\ Allocated' = Allocated \ {a}
      /\ size' = [size EXCEPT ![a] = 0]
      /\ async' = async \ {a} /\ space' = SpaceAfter(a) /\ vma' = vma
  BY FreeKeeps
<1>2. Paged'
  BY FreePaged DEF Measured
<1>3. /\ IsFiniteSet(async) /\ \A b \in async : b \in Addr /\ size[b] \in Nat
      /\ Taken(size, async) \in Nat /\ vma # NIL
  BY <1>1, AsyncIs
<1>4. IsFiniteSet(async \ {a})
  BY <1>3, FS_RemoveElement
<1>5. /\ Taken(size', async \ {a}) = Taken(size, async \ {a})
      /\ Taken(size, async \ {a}) \in Nat
  <2>1. \A b \in async \ {a} : size[b] \in Nat /\ size'[b] = size[b]
    BY <1>1, <1>3 DEF Measured, Paged, Tiled, Shape
  <2>. QED
    BY <2>1, <1>4, TakenSame
<1>6. space = Size \div 2 - Taken(size, async) /\ space \in 0..(Size \div 2)
  BY <1>3 DEF Measured
<1>7. space' = Size \div 2 - Taken(size', async') /\ space' \in 0..(Size \div 2)
  <2>1. CASE a \notin async
    <3>1. async \ {a} = async /\ space' = space
      BY <2>1, <1>1 DEF SpaceAfter
    <3>. QED
      BY <3>1, <1>1, <1>5, <1>6
  <2>2. CASE a \in async
    <3>1. Taken(size, async) = size[a] + Header + Taken(size, async \ {a})
      BY <2>2, <1>3, TakenOne
    <3>2. space' = space + size[a] + Header /\ size[a] \in Nat
      BY <2>2, <1>1, <1>3 DEF SpaceAfter
    <3>. QED
      BY <3>1, <3>2, <1>1, <1>3, <1>5, <1>6, HalfIs, SizeFits
  <2>. QED
    BY <2>1, <2>2
<1>8. async' \subseteq Allocated'
  BY <1>1 DEF Measured
<1>. QED
  BY <1>1, <1>2, <1>3, <1>7, <1>8 DEF Measured

LEMMA QuietMeasured ==
    ASSUME Measured, VmaClose \/ Release \/ Map \/ UNCHANGED vars
                     \/ \E n \in Sizes, oneway \in BOOLEAN : AllocNoPage(n, oneway)
    PROVE  Measured' /\ Held' = Held
<1>1. Paged'
  BY MapPaged, EndPaged, StutterPaged, AllocNoPagePaged DEF Measured
<1>2. /\ vma = NIL => async = {} /\ Allocated = {}
      /\ Taken(size, async) \in Nat
  BY AsyncIs
<1>3. UNCHANGED <<size, async>>
  BY DEF VmaClose, Release, Map, vars, AllocNoPage
<1>4. Allocated' = Allocated
  BY <1>2 DEF VmaClose, Release, Map, vars, AllocNoPage, Allocated
<1>5. Held' = Held
  BY <1>3, <1>4 DEF Held
<1>6. async' \subseteq Allocated'
  BY <1>3, <1>4 DEF Measured
<1>7. CASE Map
  <2>1. space' = Size \div 2 /\ async' = {} /\ vma' = "mapped"
    BY <1>7, <1>2, <1>3 DEF Map
  <2>2. Taken(size', async') = 0
    BY <2>1, NoneTaken
  <2>. QED
    BY <2>1, <2>2, <1>1, <1>5, <1>6, HalfIs DEF Measured
<1>8. CASE ~Map
  <2>1. space' = space /\ (vma # NIL <=> vma' # NIL) /\ vma' \in {NIL, "mapped", "closed"}
    BY <1>8, BufNil DEF VmaClose, Release, vars, AllocNoPage, Measured
  <2>. QED
    BY <2>1, <1>1, <1>3, <1>5, <1>6 DEF Measured
<1>. QED
  BY <1>7, <1>8

LEMMA StepMeasured == Measured /\ [Next]_vars => Measured'
<1>. SUFFICES ASSUME Measured, [Next]_vars PROVE Measured'
  OBVIOUS
<1>1. CASE \E n \in Sizes, oneway \in BOOLEAN : Alloc(n, oneway)
  BY <1>1, AllocMeasured
<1>2. CASE \E a \in Addr : FreeBuf(a)
  BY <1>2, FreeMeasured
<1>3. CASE VmaClose \/ Release \/ Map \/ UNCHANGED vars
           \/ \E n \in Sizes, oneway \in BOOLEAN : AllocNoPage(n, oneway)
  BY <1>3, QuietMeasured
<1>. QED
  BY <1>1, <1>2, <1>3 DEF Next

LEMMA MeasuredAlways == Spec => []Measured
BY InitMeasured, StepMeasured, PTL DEF Spec

\* The space for one-way calls is what those in flight leave, and comes back with
\* them (free_async_space in binder_alloc_buf and binder_free_buf).
THEOREM AsyncSpaceAlways == Spec => []AsyncSpaceExact
<1>1. Measured => AsyncSpaceExact
  BY DEF Measured, AsyncSpaceExact, Taken
<1>. QED
  BY <1>1, MeasuredAlways, PTL

\* Every variable keeps its type; the space never falls below zero or rises above
\* half of the mapping (binder_mmap).
THEOREM BuffersTypeOK == Spec => []TypeOK
<1>1. Measured => TypeOK
  BY DEF Measured, Paged, Tiled, Shape, Allocated, TypeOK
<1>. QED
  BY <1>1, MeasuredAlways, PTL

-------------------------------------------------------------------------------
(* The pool *)

\* The region of a buffer in use.
Of(a) == [from |-> a, to |-> a + Header + size[a], async |-> a \in async]

Regions ==
    /\ Held = {Of(a) : a \in Allocated}
    /\ \A a \in Allocated :
         /\ a \in Addr /\ a \in Nat /\ size[a] \in Nat
         /\ a + Header + size[a] <= Size
         /\ Of(a).from = a /\ Of(a).to = a + Header + size[a] /\ (Of(a).async <=> a \in async)

LEMMA HeldIs == Tiled => Regions
<1>. SUFFICES ASSUME Tiled PROVE Regions
  OBVIOUS
<1>1. Held = {Of(a) : a \in Allocated}
  BY DEF Held, Of
<1>2. ASSUME NEW a \in Allocated
      PROVE  a \in Addr /\ a \in Nat /\ size[a] \in Nat /\ a + Header + size[a] <= Size
  <2>1. a \in heads /\ a \in Addr /\ a \in Nat /\ size[a] \in Nat
        /\ NextHead(heads, a) \in Nat /\ NextHead(heads, a) <= Size
    BY OrderIs DEF Allocated
  <2>2. a + Header + size[a] <= NextHead(heads, a)
    BY DEF Tiled, Fits
  <2>. QED
    BY <2>1, <2>2, SizeFits
<1>. QED
  BY <1>1, <1>2 DEF Of, Regions

\* What the pool adds up is what the one-way calls have taken.
LEMMA PoolUseIs == Measured => Pool!AsyncUse(Held) = Taken(size, async)
<1>. SUFFICES ASSUME Measured PROVE Pool!AsyncUse(Held) = Taken(size, async)
  OBVIOUS
<1>. DEFINE S == {r \in Held : r.async}
            u == [r \in S |-> r.to - r.from]
            w == [a \in async |-> size[a] + Header]
            P(it) == it = [s \in SUBSET S |-> IF s = {} THEN 0
                             ELSE (Chosen(s).to - Chosen(s).from) + it[s \ {Chosen(s)}]]
<1>1. Pool!AsyncUse(Held) = (CHOOSE it : P(it))[S]
  BY DEF Pool!AsyncUse, Pool!Length, Pool!MapThenSumSet, Pool!MapThenFoldSet, Chosen
<1>2. \A it : P(it) <=> Sums(u, S, it)
  <2>1. \A s \in SUBSET S : s # {} => Chosen(s) \in S
    BY DEF Chosen
  <2>. HIDE DEF S
  <2>2. \A s \in SUBSET S : s # {} => u[Chosen(s)] = Chosen(s).to - Chosen(s).from
    BY <2>1
  <2>. QED
    BY <2>2 DEF Sums
<1>3. IsFiniteSet(async) /\ \A a \in async : size[a] \in Nat
  BY AsyncIs
<1>4. Tiled /\ async \subseteq Allocated
  BY DEF Measured, Paged
<1>5. S = {Of(a) : a \in async}
  BY <1>4, HeldIs DEF Regions
<1>6. \A a \in async : /\ Of(a).from = a /\ Of(a) \in S
                       /\ u[Of(a)] = w[a] /\ w[a] \in Nat
  <2>1. ASSUME NEW a \in async
        PROVE  Of(a).from = a /\ Of(a) \in S /\ u[Of(a)] = w[a] /\ w[a] \in Nat
    <3>1. /\ a \in Nat /\ size[a] \in Nat
          /\ Of(a).from = a /\ Of(a).to = a + Header + size[a]
      BY <1>4, HeldIs DEF Regions
    <3>2. Of(a) \in S
      BY <1>5
    <3>3. u[Of(a)] = Of(a).to - Of(a).from /\ w[a] = size[a] + Header
      BY <3>2
    <3>. QED
      BY <3>1, <3>2, <3>3, SizeFits
  <2>. QED
    BY <2>1
<1>. HIDE DEF S, u, w, P
<1>7. IsFiniteSet(S)
  <2>. DEFINE f == [a \in async |-> Of(a)]
  <2>1. f \in Surjection(async, S)
    BY <1>5 DEF Surjection
  <2>. QED
    BY <2>1, <1>3, FS_Surjection
<1>8. \A r \in S : u[r] \in Nat
  BY <1>5, <1>6
<1>9. Pool!AsyncUse(Held) = Cardinality(Cells(u, S))
  <2>1. \E it : P(it)
    BY <1>2, <1>7, <1>8, SumsExist
  <2>2. P(CHOOSE it : P(it))
    BY <2>1
  <2>. QED
    BY <1>1, <1>2, <1>7, <1>8, <2>2, SumsOnce
<1>10. Taken(size, async) = Cardinality(Cells(w, async))
  BY <1>3, TakenIs DEF w
<1>11. Cardinality(Cells(w, async)) = Cardinality(Cells(u, S))
  <2>. DEFINE A == Cells(w, async)
              B == Cells(u, S)
              g == [c \in A |-> <<Of(c[1]), c[2]>>]
  <2>1. IsFiniteSet(A)
    BY <1>3, <1>6, CellsFinite
  <2>2. \A c : c \in A <=> \E a \in async : \E k \in 1..w[a] : c = <<a, k>>
    BY DEF Cells
  <2>3. \A c : c \in B <=> \E r \in S : \E k \in 1..u[r] : c = <<r, k>>
    BY DEF Cells
  <2>. HIDE DEF A, B
  <2>4. g \in [A -> B]
    <3>1. ASSUME NEW c \in A PROVE <<Of(c[1]), c[2]>> \in B
      <4>1. PICK a \in async : \E k \in 1..w[a] : c = <<a, k>>
        BY <2>2
      <4>2. PICK k \in 1..w[a] : c = <<a, k>>
        BY <4>1
      <4>. QED
        BY <4>2, <1>6, <2>3
    <3>. QED
      BY <3>1
  <2>5. ASSUME NEW c \in A, NEW d \in A, g[c] = g[d] PROVE c = d
    <3>1. PICK a \in async : \E k \in 1..w[a] : c = <<a, k>>
      BY <2>2
    <3>2. PICK b \in async : \E k \in 1..w[b] : d = <<b, k>>
      BY <2>2
    <3>3. Of(c[1]) = Of(d[1]) /\ c[2] = d[2]
      BY <2>5
    <3>4. a = b
      BY <3>1, <3>2, <3>3, <1>6
    <3>. QED
      BY <3>1, <3>2, <3>3, <3>4
  <2>6. ASSUME NEW d \in B PROVE \E c \in A : g[c] = d
    <3>1. PICK r \in S : \E k \in 1..u[r] : d = <<r, k>>
      BY <2>3
    <3>2. PICK k \in 1..u[r] : d = <<r, k>>
      BY <3>1
    <3>3. PICK a \in async : r = Of(a)
      BY <1>5
    <3>4. <<a, k>> \in A
      BY <2>2, <3>2, <3>3, <1>6
    <3>. QED
      BY <3>2, <3>3, <3>4
  <2>7. g \in Bijection(A, B)
    BY <2>4, <2>5, <2>6 DEF Bijection, Injection, Surjection, IsInjective
  <2>8. ExistsBijection(A, B)
    BY <2>7 DEF ExistsBijection
  <2>9. Cardinality(B) = Cardinality(A)
    BY <2>1, <2>8, FS_Bijection
  <2>. QED
    BY <2>9 DEF A, B
<1>. QED
  BY <1>9, <1>10, <1>11

\* An allocation takes a region that overlaps none of the others, and within the
\* space if the call is one-way.
LEMMA AllocTakes ==
    ASSUME Measured, Measured', Pool!NoOverlap',
           NEW n \in Sizes, NEW oneway \in BOOLEAN, Alloc(n, oneway)
    PROVE  \E r \in Pool!Region : Pool!Take(r)
<1>1. PICK a \in free :
             /\ a \in Addr /\ a \notin Allocated
             /\ Allocated' = Allocated \cup {a}
             /\ size' = [size EXCEPT ![a] = n] /\ n \in Nat
             /\ async' = IF oneway THEN async \cup {a} ELSE async
             /\ space' = IF oneway THEN space - (n + Header) ELSE space
  BY AllocKeeps
<1>2. Tiled /\ Tiled' /\ vma' # NIL /\ size \in [Addr -> Nat] /\ async \subseteq Allocated
  BY BufNil DEF Alloc, Measured, Paged, Tiled, Shape
<1>3. /\ Held = {Of(b) : b \in Allocated}
      /\ \A b \in Allocated : b \in Addr /\ Of(b).from = b
  BY <1>2, HeldIs DEF Regions
<1>4. /\ Held' = {Of(b)' : b \in Allocated'}
      /\ a + Header + size'[a] <= Size /\ a \in Nat /\ size'[a] \in Nat
  <2>1. Tiled' => Regions'
    BY HeldIs, PTL
  <2>. QED
    BY <2>1, <1>1, <1>2 DEF Regions
<1>. DEFINE r == Of(a)'
<1>5. r = [from |-> a, to |-> a + Header + n, async |-> oneway]
  BY <1>1, <1>2 DEF Of
<1>6. \A b \in Allocated : Of(b)' = Of(b)
  BY <1>1, <1>2, <1>3 DEF Of
<1>. HIDE DEF r
<1>7. Held' = Held \cup {r}
  BY <1>1, <1>3, <1>4, <1>6 DEF r
<1>8. r \notin Held
  BY <1>1, <1>3, <1>5
<1>9. \A s \in Held : ~Pool!Overlap(r, s)
  BY <1>7, <1>8 DEF Pool!NoOverlap, Pool!Overlap
<1>10. r \in Pool!Region /\ r.to - r.from >= Header
  <2>1. size'[a] = n
    BY <1>1, <1>2
  <2>2. a \in 0..Size /\ a + Header + n \in 0..Size
    BY <1>1, <1>4, <2>1, SizeFits
  <2>. QED
    BY <1>1, <1>4, <1>5, <2>2, SizeFits DEF Pool!Region
<1>11. Pool!AsyncUse(Held \cup {r}) <= Size \div 2
  <2>1. Pool!AsyncUse(Held)' = Taken(size', async')
    <3>1. Measured' => (Pool!AsyncUse(Held) = Taken(size, async))'
      BY PoolUseIs, PTL
    <3>. QED
      BY <3>1
  <2>2. Pool!AsyncUse(Held)' = Pool!AsyncUse(Held')
    BY DEF Pool!AsyncUse
  <2>3. space' = Size \div 2 - Taken(size', async') /\ space' \in 0..(Size \div 2)
    BY <1>2 DEF Measured
  <2>4. Taken(size', async') \in Nat
    <3>1. Measured' => (Taken(size, async) \in Nat)'
      BY AsyncIs, PTL
    <3>. QED
      BY <3>1
  <2>. QED
    BY <2>1, <2>2, <2>3, <2>4, <1>7, HalfIs
<1>. QED
  BY <1>7, <1>9, <1>10, <1>11 DEF Pool!Take

\* binder_free_buf gives back the region and no other.
LEMMA FreeGives ==
    ASSUME Measured, NEW a \in Addr, FreeBuf(a)
    PROVE  \E r \in Held : Pool!Give(r)
<1>1. /\ a \in Allocated /\ Allocated' = Allocated \ {a}
      /\ size' = [size EXCEPT ![a] = 0]
      /\ async' = async \ {a}
  BY FreeKeeps
<1>2. Tiled /\ size \in [Addr -> Nat]
  BY DEF Measured, Paged, Tiled, Shape
<1>3. /\ Held = {Of(b) : b \in Allocated}
      /\ \A b \in Allocated : b \in Addr /\ Of(b).from = b
  BY <1>2, HeldIs DEF Regions
<1>4. \A b \in Allocated \ {a} : Of(b)' = Of(b)
  BY <1>1, <1>2, <1>3 DEF Of
<1>5. Held' = {Of(b)' : b \in Allocated'}
  BY DEF Held, Of
<1>6. Held' = Held \ {Of(a)}
  BY <1>1, <1>3, <1>4, <1>5
<1>. QED
  BY <1>1, <1>3, <1>6 DEF Pool!Give

\* Every step of the allocator takes a region, gives one back, or does neither.
LEMMA StepImplements ==
    Measured /\ Measured' /\ Pool!NoOverlap' /\ [Next]_vars => [Pool!Next]_Held
<1>. SUFFICES ASSUME Measured, Measured', Pool!NoOverlap', [Next]_vars
              PROVE  Pool!Next \/ Held' = Held
  OBVIOUS
<1>1. CASE \E n \in Sizes, oneway \in BOOLEAN : Alloc(n, oneway)
  BY <1>1, AllocTakes DEF Pool!Next
<1>2. CASE \E a \in Addr : FreeBuf(a)
  BY <1>2, FreeGives DEF Pool!Next
<1>3. CASE VmaClose \/ Release \/ Map \/ UNCHANGED vars
           \/ \E n \in Sizes, oneway \in BOOLEAN : AllocNoPage(n, oneway)
  BY <1>3, QuietMeasured
<1>. QED
  BY <1>1, <1>2, <1>3 DEF Next

\* The allocator implements the pool: regions that do not overlap, and one-way calls
\* in half of the mapping (binder_alloc_buf, binder_free_buf).
THEOREM BuffersImplementPool == Spec => PoolSpec
<1>1. Init => Pool!Init
  BY DEF Init, Pool!Init, Held, Allocated
<1>. QED
  BY <1>1, StepImplements, MeasuredAlways, RegionsDisjoint, PTL DEF Spec, PoolSpec, Pool!Spec
================================================================================
