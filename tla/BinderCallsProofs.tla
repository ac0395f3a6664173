--------------------------- MODULE BinderCallsProofs ---------------------------
(***************************************************************************)
(* What holds of every state of BinderTransactions: where transactions     *)
(* are queued, how the call stacks hang together, which one-way calls are  *)
(* in delivery, and what each thread is owed.                              *)
(***************************************************************************)
EXTENDS BinderTransactionsProofs

-------------------------------------------------------------------------------
(* The work lists, as one family *)

Place == ({"t"} \X Threads) \cup ({"p"} \X Procs) \cup ({"n"} \X Nodes)
Lists == [l \in Place |-> IF l[1] = "t" THEN thr[l[2]].todo
                          ELSE IF l[1] = "p" THEN ptodo[l[2]] ELSE node[l[2]].todo]

\* The transactions in a list, and in any list.
Held(L, l) == {t \in Txns : \E i \in DOMAIN L[l] : L[l][i] = t}
Waiting(L) == {t \in Txns : \E l \in Place : t \in Held(L, l)}

\* No transaction is in two places.
Once(L) ==
    \A l, m \in Place : \A i \in DOMAIN L[l], j \in DOMAIN L[m] :
        L[l][i] = L[m][j] /\ L[l][i] # Complete => l = m /\ i = j

ListsOf == [Place -> Seq(Txns \cup {Complete})]

\* One list gains an item at its end, or loses its first.
Put(L, l, w) == [L EXCEPT ![l] = Append(@, w)]
Cut(L, l) == [L EXCEPT ![l] = Tail(@)]

LEMMA PlaceIs ==
    /\ \A h \in Threads : <<"t", h>> \in Place
    /\ \A p \in Procs : <<"p", p>> \in Place
    /\ \A n \in Nodes : <<"n", n>> \in Place
    /\ \A l \in Place : \/ \E h \in Threads : l = <<"t", h>>
                        \/ \E p \in Procs : l = <<"p", p>>
                        \/ \E n \in Nodes : l = <<"n", n>>
BY DEF Place

LEMMA ListsIs ==
    ASSUME TypeOK
    PROVE  /\ Lists \in ListsOf
           /\ \A h \in Threads : Lists[<<"t", h>>] = thr[h].todo
           /\ \A p \in Procs : Lists[<<"p", p>>] = ptodo[p]
           /\ \A n \in Nodes : Lists[<<"n", n>>] = node[n].todo
<1>1. \A h \in Threads : Lists[<<"t", h>>] = thr[h].todo
  BY PlaceIs DEF Lists
<1>2. \A p \in Procs : Lists[<<"p", p>>] = ptodo[p]
  BY PlaceIs DEF Lists
<1>3. \A n \in Nodes : Lists[<<"n", n>>] = node[n].todo
  BY PlaceIs DEF Lists
<1>4. \A h \in Threads : thr[h].todo \in Seq(Txns \cup {Complete})
  BY DEF TypeOK, Thread
<1>5. \A s \in Seq(Txns) : s \in Seq(Txns \cup {Complete})
  OBVIOUS
<1>6. \A p \in Procs : ptodo[p] \in Seq(Txns \cup {Complete})
  BY <1>5 DEF TypeOK
<1>7. \A n \in Nodes : node[n].todo \in Seq(Txns \cup {Complete})
  BY <1>5 DEF TypeOK
<1>8. \A l \in Place : Lists[l] \in Seq(Txns \cup {Complete})
  BY <1>1, <1>2, <1>3, <1>4, <1>6, <1>7, PlaceIs
<1>9. Lists = [l \in Place |-> Lists[l]]
  BY DEF Lists
<1>. QED
  BY <1>1, <1>2, <1>3, <1>8, <1>9 DEF ListsOf

LEMMA QueuedIs ==
    ASSUME TypeOK, NEW t \in Txns
    PROVE  Queued(t) <=> t \in Waiting(Lists)
<1>1. Queued(t) => t \in Waiting(Lists)
  <2>1. \A l \in Place : (\E i \in DOMAIN Lists[l] : Lists[l][i] = t) => t \in Waiting(Lists)
    BY DEF Waiting, Held
  <2>2. ASSUME NEW h \in Threads, NEW i \in DOMAIN thr[h].todo, thr[h].todo[i] = t
        PROVE  t \in Waiting(Lists)
    BY <2>1, <2>2, ListsIs, PlaceIs
  <2>3. ASSUME NEW p \in Procs, NEW i \in DOMAIN ptodo[p], ptodo[p][i] = t
        PROVE  t \in Waiting(Lists)
    BY <2>1, <2>3, ListsIs, PlaceIs
  <2>4. ASSUME NEW n \in Nodes, NEW i \in DOMAIN node[n].todo, node[n].todo[i] = t
        PROVE  t \in Waiting(Lists)
    BY <2>1, <2>4, ListsIs, PlaceIs
  <2>. QED
    BY <2>2, <2>3, <2>4 DEF Queued
<1>2. t \in Waiting(Lists) => Queued(t)
  <2>. SUFFICES ASSUME NEW l \in Place, NEW i \in DOMAIN Lists[l], Lists[l][i] = t PROVE Queued(t)
    BY DEF Waiting, Held
  <2>1. CASE \E h \in Threads : l = <<"t", h>>
    BY <2>1, ListsIs DEF Queued
  <2>2. CASE \E p \in Procs : l = <<"p", p>>
    BY <2>2, ListsIs DEF Queued
  <2>3. CASE \E n \in Nodes : l = <<"n", n>>
    BY <2>3, ListsIs DEF Queued
  <2>. QED
    BY <2>1, <2>2, <2>3, PlaceIs
<1>. QED
  BY <1>1, <1>2

LEMMA PutIs ==
    ASSUME NEW L \in ListsOf, Once(L), NEW l \in Place, NEW w \in Txns \cup {Complete},
           w \notin Waiting(L)
    PROVE  /\ Put(L, l, w) \in ListsOf /\ Once(Put(L, l, w))
           /\ w \in Txns => Waiting(Put(L, l, w)) = Waiting(L) \cup {w}
           /\ w \notin Txns => Waiting(Put(L, l, w)) = Waiting(L)
           /\ \A m \in Place : Held(Put(L, l, w), m) =
                 IF m = l /\ w \in Txns THEN Held(L, m) \cup {w} ELSE Held(L, m)
<1>. DEFINE M == Put(L, l, w)
            n == Len(L[l]) + 1
<1>1. /\ \A m \in Place : L[m] \in Seq(Txns \cup {Complete})
      /\ M \in ListsOf /\ M[l] = Append(L[l], w) /\ \A m \in Place \ {l} : M[m] = L[m]
  BY DEF ListsOf, Put
<1>2. /\ DOMAIN M[l] = DOMAIN L[l] \cup {n} /\ n \notin DOMAIN L[l]
      /\ M[l][n] = w /\ \A i \in DOMAIN L[l] : M[l][i] = L[l][i]
  <2>1. L[l] \in Seq(Txns \cup {Complete}) /\ M[l] = Append(L[l], w)
    BY <1>1
  <2>. QED
    BY ONLY <2>1
<1>. HIDE DEF M, n
<1>3. \A m \in Place : Held(M, m) = IF m = l /\ w \in Txns THEN Held(L, m) \cup {w} ELSE Held(L, m)
  <2>1. ASSUME NEW m \in Place \ {l} PROVE Held(M, m) = Held(L, m)
    BY <1>1 DEF Held
  <2>2. Held(M, l) = IF w \in Txns THEN Held(L, l) \cup {w} ELSE Held(L, l)
    BY <1>2 DEF Held
  <2>. QED
    BY <2>1, <2>2
<1>4. \A t \in Txns : t \in Waiting(M) <=> t \in Waiting(L) \/ t = w
  BY <1>3 DEF Waiting
<1>5. \A m \in Place : \A i \in DOMAIN L[m] : L[m][i] \in Txns \cup {Complete}
  BY <1>1
<1>6. \A m \in Place : \A i \in DOMAIN L[m] : L[m][i] = w => w = Complete
  BY <1>5 DEF Waiting, Held
<1>7. Once(M)
  <2>. SUFFICES ASSUME NEW a \in Place, NEW b \in Place, NEW i \in DOMAIN M[a], NEW j \in DOMAIN M[b],
                       M[a][i] = M[b][j], M[a][i] # Complete
                PROVE  a = b /\ i = j
    BY DEF Once
  <2>1. (i \in DOMAIN L[a] /\ M[a][i] = L[a][i]) \/ (a = l /\ i = n /\ M[a][i] = w)
    BY <1>1, <1>2
  <2>2. (j \in DOMAIN L[b] /\ M[b][j] = L[b][j]) \/ (b = l /\ j = n /\ M[b][j] = w)
    BY <1>1, <1>2
  <2>. QED
    BY <1>6, <2>1, <2>2 DEF Once
<1>8. Waiting(M) \subseteq Txns /\ Waiting(L) \subseteq Txns
  BY DEF Waiting
<1>. QED
  BY <1>1, <1>3, <1>4, <1>7, <1>8 DEF M

LEMMA CutIs ==
    ASSUME NEW L \in ListsOf, Once(L), NEW l \in Place, L[l] # <<>>
    PROVE  /\ Cut(L, l) \in ListsOf /\ Once(Cut(L, l))
           /\ Head(L[l]) \in Txns \cup {Complete}
           /\ Head(L[l]) \in Txns => Head(L[l]) \in Held(L, l)
           /\ Waiting(Cut(L, l)) = Waiting(L) \ {Head(L[l])}
           /\ \A m \in Place : Held(Cut(L, l), m) = Held(L, m) \ {Head(L[l])}
<1>. DEFINE M == Cut(L, l)
            w == Head(L[l])
<1>1. /\ \A m \in Place : L[m] \in Seq(Txns \cup {Complete})
      /\ M \in ListsOf /\ M[l] = Tail(L[l]) /\ \A m \in Place \ {l} : M[m] = L[m]
  BY DEF ListsOf, Cut
<1>2. /\ 1 \in DOMAIN L[l] /\ L[l][1] = w /\ w \in Txns \cup {Complete}
      /\ \A i \in DOMAIN M[l] : i + 1 \in DOMAIN L[l] /\ M[l][i] = L[l][i + 1] /\ i + 1 # 1
      /\ \A i \in DOMAIN L[l] : i # 1 => i - 1 \in DOMAIN M[l] /\ M[l][i - 1] = L[l][i]
      /\ \A i \in DOMAIN M[l] : i \in Nat
  <2>1. L[l] \in Seq(Txns \cup {Complete}) /\ M[l] = Tail(L[l]) /\ L[l] # <<>>
    BY <1>1
  <2>. QED
    BY ONLY <2>1
<1>. HIDE DEF M, w
<1>3. Once(M)
  <2>. SUFFICES ASSUME NEW a \in Place, NEW b \in Place, NEW i \in DOMAIN M[a], NEW j \in DOMAIN M[b],
                       M[a][i] = M[b][j], M[a][i] # Complete
                PROVE  a = b /\ i = j
    BY DEF Once
  <2>1. \A m \in Place : \A k \in DOMAIN M[m] :
           \E e \in DOMAIN L[m] : L[m][e] = M[m][k] /\ e = IF m = l THEN k + 1 ELSE k
    BY <1>1, <1>2
  <2>2. PICK e \in DOMAIN L[a] : L[a][e] = M[a][i] /\ e = IF a = l THEN i + 1 ELSE i
    BY <2>1
  <2>3. PICK f \in DOMAIN L[b] : L[b][f] = M[b][j] /\ f = IF b = l THEN j + 1 ELSE j
    BY <2>1
  <2>4. a = b /\ e = f
    BY <2>2, <2>3 DEF Once
  <2>. QED
    BY <1>2, <2>2, <2>3, <2>4
<1>4. ASSUME NEW m \in Place, NEW t \in Txns
      PROVE  t \in Held(M, m) <=> t \in Held(L, m) /\ t # w
  <2>0. t # Complete
    BY CompleteAssumption
  <2>1. ASSUME t \in Held(L, m), t = w PROVE m = l
    BY <1>2, <2>0, <2>1 DEF Held, Once
  <2>2. CASE m # l
    BY <1>1, <2>1, <2>2 DEF Held
  <2>3. CASE m = l
    <3>1. ASSUME t \in Held(M, l) PROVE t \in Held(L, l) /\ t # w
      BY <1>2, <2>0, <3>1 DEF Held, Once
    <3>2. ASSUME t \in Held(L, l), t # w PROVE t \in Held(M, l)
      BY <1>2, <3>2 DEF Held
    <3>. QED
      BY <2>3, <3>1, <3>2
  <2>. QED
    BY <2>2, <2>3
<1>5. \A m \in Place : Held(M, m) \subseteq Txns /\ Held(L, m) \subseteq Txns
  BY DEF Held
<1>6. \A m \in Place : Held(M, m) = Held(L, m) \ {w}
  BY <1>4, <1>5
<1>7. Waiting(M) = Waiting(L) \ {w}
  BY <1>6 DEF Waiting
<1>8. w \in Txns => w \in Held(L, l)
  BY <1>2 DEF Held
<1>. QED
  BY <1>1, <1>2, <1>3, <1>6, <1>7, <1>8 DEF M, w
-------------------------------------------------------------------------------
(* Transactions, and where they are queued *)

\* A synchronous call, as opposed to a reply or a one-way call.
IsCall(tx, bs, t) ==
    tx[t].live /\ ~tx[t].oneway /\ (tx[t].buffer = NIL \/ bs[tx[t].buffer].node # NIL)
CallsOf(tx, bs) == {t \in Txns : IsCall(tx, bs, t)}
Unread(tx, bs, L) == CallsOf(tx, bs) \cap Waiting(L)

\* What a transaction in list l is.
Fits(tx, bs, l, t) ==
    LET b == tx[t].buffer IN
    /\ tx[t].live /\ b # NIL /\ ~bs[b].userFree
    /\ tx[t].oneway => tx[t].toThread = NIL
    /\ l[1] = "t" => /\ bs[b].proc = ProcOf[l[2]]
                     /\ ~tx[t].oneway => tx[t].toThread = l[2]
    /\ l[1] = "p" => /\ bs[b].proc = l[2] /\ bs[b].node # NIL
                     /\ tx[t].toThread = NIL
    /\ l[1] = "n" => /\ bs[b].proc = Owner[l[2]] /\ bs[b].node = l[2]
                     /\ tx[t].oneway

\* What any transaction is; those in W are queued.
TxnOK(tx, bs, W, t) ==
    LET b == tx[t].buffer IN
    /\ ~tx[t].live => tx[t] = NoTxn
    /\ tx[t].live /\ ~IsCall(tx, bs, t) =>
         t \in W /\ tx[t].from = NIL /\ tx[t].fromParent = NIL /\ tx[t].toParent = NIL
    /\ IsCall(tx, bs, t) /\ t \in W =>
         tx[t].toParent = NIL /\ (tx[t].from # NIL /\ b # NIL => ProcOf[tx[t].from] # bs[b].proc)
    /\ IsCall(tx, bs, t) /\ t \notin W /\ b # NIL =>
         tx[t].toThread # NIL /\ bs[b].proc = ProcOf[tx[t].toThread]
    /\ b # NIL => bs[b].async = tx[t].oneway

QueueOK(tx, bs, L) ==
    /\ L \in ListsOf /\ Once(L)
    /\ \A l \in Place : \A t \in Held(L, l) : Fits(tx, bs, l, t)
    /\ \A t \in Txns : TxnOK(tx, bs, Waiting(L), t)

\* A transaction, and what its buffer says of it, stays as it is.
Same(tx, bs, ty, bt, t) ==
    LET b == tx[t].buffer IN
    /\ ty[t] = tx[t]
    /\ b # NIL => /\ bt[b].proc = bs[b].proc /\ bt[b].node = bs[b].node
                  /\ bt[b].async = bs[b].async /\ bt[b].userFree = bs[b].userFree

\* A step that touches the transactions in X only.
Kept(tx, bs, L, ty, bt, M, X) ==
    /\ QueueOK(ty, bt, M)
    /\ \A t \in Txns \ X : /\ t \in CallsOf(ty, bt) <=> t \in CallsOf(tx, bs)
                           /\ t \in Waiting(M) <=> t \in Waiting(L)

LEMMA QueueStep ==
    ASSUME NEW tx, NEW bs, NEW L, QueueOK(tx, bs, L),
           NEW ty, NEW bt, NEW M \in ListsOf, Once(M), NEW X,
           \A t \in Txns \ X : /\ Same(tx, bs, ty, bt, t)
                               /\ \A l \in Place : t \in Held(M, l) <=> t \in Held(L, l),
           \A t \in X \cap Txns : /\ TxnOK(ty, bt, Waiting(M), t)
                                  /\ \A l \in Place : t \in Held(M, l) => Fits(ty, bt, l, t)
    PROVE  Kept(tx, bs, L, ty, bt, M, X)
<1>1. ASSUME NEW t \in Txns \ X PROVE IsCall(ty, bt, t) <=> IsCall(tx, bs, t)
  BY DEF Same, IsCall
<1>2. ASSUME NEW t \in Txns \ X PROVE t \in Waiting(M) <=> t \in Waiting(L)
  BY DEF Waiting
<1>3. ASSUME NEW t \in Txns \ X PROVE TxnOK(ty, bt, Waiting(M), t)
  <2>1. TxnOK(tx, bs, Waiting(L), t)
    BY DEF QueueOK
  <2>2. Same(tx, bs, ty, bt, t)
    OBVIOUS
  <2>3. (IsCall(ty, bt, t) <=> IsCall(tx, bs, t)) /\ (t \in Waiting(M) <=> t \in Waiting(L))
    BY <1>1, <1>2
  <2>4. ty[t] = tx[t]
    BY <2>2 DEF Same
  <2>5. CASE tx[t].buffer = NIL
    BY ONLY <2>1, <2>3, <2>4, <2>5 DEF TxnOK
  <2>6. CASE tx[t].buffer # NIL
    <3>1. bt[tx[t].buffer].proc = bs[tx[t].buffer].proc /\ bt[tx[t].buffer].async = bs[tx[t].buffer].async
      BY <2>2, <2>6 DEF Same
    <3>. QED
      BY ONLY <2>1, <2>3, <2>4, <3>1 DEF TxnOK
  <2>. QED
    BY <2>5, <2>6
<1>4. ASSUME NEW t \in Txns \ X, NEW l \in Place, t \in Held(M, l) PROVE Fits(ty, bt, l, t)
  BY <1>4 DEF Fits, Same, QueueOK
<1>5. \A l \in Place : Held(M, l) \subseteq Txns
  BY DEF Held
<1>6. QueueOK(ty, bt, M)
  BY <1>3, <1>4, <1>5 DEF QueueOK
<1>. QED
  BY <1>1, <1>2, <1>6 DEF CallsOf, Kept

\* Only what waits is in a list.
LEMMA HeldWaits ==
    ASSUME NEW L, NEW l \in Place
    PROVE  /\ Held(L, l) \subseteq Waiting(L) /\ Held(L, l) \subseteq Txns
           /\ Waiting(L) \subseteq Txns
           /\ \A t \in Waiting(L) : \E m \in Place : t \in Held(L, m)
BY DEF Held, Waiting

\* A queued transaction has a buffer.
LEMMA WaitingBuffer ==
    ASSUME NEW tx, NEW bs, NEW L, QueueOK(tx, bs, L), NEW t \in Waiting(L)
    PROVE  tx[t].buffer # NIL /\ tx[t].live /\ t \in Txns
<1>1. PICK l \in Place : t \in Held(L, l)
  BY DEF Waiting
<1>2. Fits(tx, bs, l, t)
  BY <1>1 DEF QueueOK
<1>. QED
  BY <1>2 DEF Fits, Waiting

-------------------------------------------------------------------------------
(* The calls and their stacks, step by step *)

Woven(C, Q, tx, st) == Shape(C, Q, tx, st) /\ Served(C, Q, tx) /\ Single(C, tx)

\* The threads that queued calls are for; thread x, which is exiting, aside.
Targets(W, tx, st, pr, x) == Pooled(W, tx, pr) /\ \A g \in Threads \ {x} : Awaited(W, tx, st, g)

\* No step that leaves the pointers of the calls alone disturbs them.
SameLinks(C, tx, ty) ==
    \A t \in C : /\ ty[t].from = tx[t].from /\ ty[t].fromParent = tx[t].fromParent
                 /\ ty[t].toThread = tx[t].toThread /\ ty[t].toParent = tx[t].toParent

LEMMA WovenSame ==
    ASSUME NEW C, NEW Q, NEW tx \in [Txns -> Txn], NEW st, Woven(C, Q, tx, st),
           NEW ty \in [Txns -> Txn], SameLinks(C, tx, ty),
           NEW su, \A g \in Threads : su[g] = st[g]
    PROVE  /\ Woven(C, Q, ty, su)
           /\ \A t \in C \cup {NIL} : Anc(ty, t) = Anc(tx, t)
<1>1. Linked(C, tx) /\ Q \subseteq C /\ Shape(C, Q, tx, st)
  BY DEF Woven, Shape
<1>2. \A t \in C \cup {NIL} : Anc(ty, t) = Anc(tx, t)
  BY <1>1, AncKept DEF SameLinks
<1>3. \A t \in C : tx[t].fromParent \in C \cup {NIL} /\ tx[t].toParent \in C \cup {NIL}
  BY <1>1, ShapeCalls
<1>4. \A h \in Threads : st[h] \in C \cup {NIL} /\ Mem(C, Q, ty, h) = Mem(C, Q, tx, h)
  BY <1>1, ShapeTop DEF SameLinks, Mem
<1>5. Linked(C, ty)
  BY <1>1, <1>2, <1>3 DEF Linked, SameLinks
<1>6. Topped(C, Q, ty, su)
  BY <1>1, <1>2, <1>4 DEF Shape, Topped
<1>7. Nested(C, Q, ty)
  BY <1>1, <1>3 DEF Shape, Nested, SameLinks
<1>8. Below(C, Q, ty)
  BY <1>1, <1>2, <1>3 DEF Shape, Below, SameLinks
<1>9. Between(C, Q, ty)
  <2>. SUFFICES ASSUME NEW t \in C \ Q, tx[t].toThread # NIL
                PROVE  Mem(C, Q, ty, tx[t].toThread) \cap Anc(tx, tx[t].fromParent) \subseteq Anc(tx, tx[t].toParent)
    BY <1>2, <1>3 DEF Between, SameLinks
  <2>1. Mem(C, Q, ty, tx[t].toThread) = Mem(C, Q, tx, tx[t].toThread)
    BY DEF SameLinks, Mem
  <2>. QED
    BY <1>1, <2>1 DEF Shape, Between
<1>10. Elsewhere(C, ty)
  BY <1>1 DEF Shape, Elsewhere, SameLinks
<1>11. Served(C, Q, ty)
  BY DEF Woven, Served, Childless, SameLinks
<1>12. Single(C, ty)
  BY <1>2 DEF Woven, Single, SameLinks
<1>. QED
  BY <1>1, <1>2, <1>5, <1>6, <1>7, <1>8, <1>9, <1>10, <1>11, <1>12 DEF Woven, Shape

LEMMA TargetsSame ==
    ASSUME NEW C, NEW Q, NEW tx \in [Txns -> Txn], NEW st, Woven(C, Q, tx, st),
           NEW pr, NEW x, Targets(Q, tx, st, pr, x),
           NEW ty \in [Txns -> Txn], SameLinks(C, tx, ty),
           NEW su, \A g \in Threads : su[g] = st[g],
           NEW pq, \A t \in Q : pq[t] = pr[t]
    PROVE  Targets(Q, ty, su, pq, x)
<1>1. Linked(C, tx) /\ Q \subseteq C /\ Shape(C, Q, tx, st)
  BY DEF Woven, Shape
<1>2. \A t \in C \cup {NIL} : Anc(ty, t) = Anc(tx, t) /\ Anc(tx, t) \subseteq C
  BY <1>1, WovenSame, AncIn
<1>3. \A t \in C : tx[t].fromParent \in C \cup {NIL}
  BY <1>1, ShapeCalls
<1>4. \A g \in Threads : st[g] \in C \cup {NIL}
  BY <1>1, ShapeTop
<1>5. Pooled(Q, ty, pq)
  BY <1>1, <1>2 DEF Targets, Pooled, SameLinks
<1>6. ASSUME NEW g \in Threads \ {x} PROVE Awaited(Q, ty, su, g)
  <2>1. Awaited(Q, tx, st, g)
    BY DEF Targets
  <2>. QED
    BY <1>1, <1>2, <1>3, <1>4, <2>1 DEF Awaited, SameLinks
<1>. QED
  BY <1>5, <1>6 DEF Targets

\* A thread makes a call.  When a thread of the target process waits up the
\* chain, the call is for that thread.
WovenWith(C, Q, tx, st, pr, h, t, k, ty, su, pq) ==
    Woven(C \cup {t}, Q \cup {t}, ty, su) /\ Targets(Q \cup {t}, ty, su, pq, NIL)

LEMMA WovenPush ==
    ASSUME NEW C, NEW Q, NEW tx \in [Txns -> Txn], NEW st, Woven(C, Q, tx, st),
           NEW pr, Targets(Q, tx, st, pr, NIL),
           NEW h \in Threads, st[h] # NIL => tx[st[h]].toThread = h, NEW t \in Txns \ C,
           NEW ty \in [Txns -> Txn], \A x \in C : ty[x] = tx[x],
           ty[t].from = h, ty[t].fromParent = st[h], ty[t].toParent = NIL,
           NEW k, k = ty[t].toThread,
           k # NIL => ProcOf[k] # ProcOf[h] /\ Waiters(tx, st[h], ProcOf[k]) = {k},
           NEW su, \A g \in Threads : su[g] = IF g = h THEN t ELSE st[g],
           NEW pq, \A x \in Q : pq[x] = pr[x],
           pq[t] # ProcOf[h], k = NIL => Waiters(tx, st[h], pq[t]) = {}
    PROVE  WovenWith(C, Q, tx, st, pr, h, t, k, ty, su, pq)
<1>1. Shape(C, Q, tx, st) /\ Served(C, Q, tx) /\ Single(C, tx)
  BY DEF Woven
<1>2. /\ C \subseteq Txns /\ Q \subseteq C /\ NIL \notin C /\ NIL \notin Txns
      /\ \A x \in C : tx[x].fromParent \in C \cup {NIL}
      /\ st[h] \in C \cup {NIL} /\ h # NIL
  BY <1>1, ShapeCalls, ShapeTop, NilAssumption
<1>3. k # h /\ ty[t].toThread # h
  BY <1>2
<1>4. /\ Shape(C \cup {t}, Q \cup {t}, ty, su)
      /\ \A x \in C \cup {NIL} : Anc(ty, x) = Anc(tx, x)
      /\ Anc(ty, t) = {t} \cup Anc(tx, st[h])
  <2>1. Pushed(C, Q, tx, st, h, t, ty, su)
    BY <1>1, <1>3, PushShape
  <2>. QED
    BY <2>1 DEF Pushed
<1>5. Served(C \cup {t}, Q \cup {t}, ty)
  BY <1>1 DEF Served, Childless
<1>6. Single(C \cup {t}, ty)
  BY <1>1, <1>4, PushSingle
<1>7. /\ Linked(C, tx)
      /\ \A x \in C \cup {NIL} : Anc(tx, x) \subseteq C
  BY <1>1, AncIn DEF Shape
<1>8. Pooled(Q \cup {t}, ty, pq)
  <2>1. ASSUME NEW q \in Q, ty[q].toThread = NIL, NEW y \in Anc(ty, q), ty[y].from # NIL
        PROVE  ProcOf[ty[y].from] # pq[q]
    BY <1>2, <1>4, <1>7, <2>1 DEF Targets, Pooled
  <2>2. ASSUME k = NIL, NEW y \in Anc(ty, t), ty[y].from # NIL
        PROVE  ProcOf[ty[y].from] # pq[t]
    <3>1. CASE y = t
      BY <3>1
    <3>2. CASE y # t
      <4>1. y \in Anc(tx, st[h]) /\ ty[y] = tx[y] /\ y \in Txns
        BY <1>2, <1>4, <1>7, <3>2
      <4>2. tx[y].from \in Threads
        BY <2>2, <4>1 DEF Txn
      <4>. QED
        BY <2>2, <4>1, <4>2 DEF Waiters
    <3>. QED
      BY <3>1, <3>2
  <2>. QED
    BY <2>1, <2>2 DEF Pooled
<1>9. ASSUME NEW g \in Threads \ {NIL} PROVE Awaited(Q \cup {t}, ty, su, g)
  <2>0. Awaited(Q, tx, st, g) /\ st[g] \in C \cup {NIL}
    BY <1>1, ShapeTop DEF Targets
  <2>1. ASSUME NEW q \in Q, ty[q].toThread = g
        PROVE  su[g] # NIL /\ ty[su[g]].from = g /\ su[g] \in Anc(ty, ty[q].fromParent)
    <3>1. q \in C /\ ty[q] = tx[q]
      BY <1>2
    <3>2. st[g] # NIL /\ tx[st[g]].from = g /\ st[g] \in Anc(tx, tx[q].fromParent)
      BY <2>0, <2>1, <3>1 DEF Awaited
    <3>3. g # h
      BY <1>1, <2>0, <3>2 DEF Shape, Elsewhere
    <3>. QED
      BY <1>2, <1>4, <2>0, <3>1, <3>2, <3>3
  <2>2. ASSUME k = g
        PROVE  su[g] # NIL /\ ty[su[g]].from = g /\ su[g] \in Anc(ty, ty[t].fromParent)
    <3>1. Waiters(tx, st[h], ProcOf[k]) = {g}
      BY <2>2
    <3>2. PICK y \in Anc(tx, st[h]) : tx[y].from = g
      BY <3>1 DEF Waiters
    <3>3. st[g] # NIL /\ tx[st[g]].from = g /\ st[g] \in Anc(tx, st[h])
      BY <1>1, <1>3, <2>2, <3>2, WaiterTop
    <3>. QED
      BY <1>2, <1>3, <1>4, <2>0, <2>2, <3>3
  <2>. QED
    BY <2>1, <2>2 DEF Awaited
<1>. QED
  BY <1>4, <1>5, <1>6, <1>8, <1>9 DEF WovenWith, Woven, Targets

\* A thread reads a call that was queued for it, or, when it has none on its
\* stack, one that was queued for its process.
WovenTaken(C, Q, tx, st, pr, h, t, ty, su, pq) ==
    Woven(C, Q \ {t}, ty, su) /\ Targets(Q \ {t}, ty, su, pq, NIL)

LEMMA WovenRead ==
    ASSUME NEW C, NEW Q, NEW tx \in [Txns -> Txn], NEW st, Woven(C, Q, tx, st),
           NEW pr, Targets(Q, tx, st, pr, NIL),
           NEW h \in Threads, NEW t \in Q,
           tx[t].toThread = h \/ (tx[t].toThread = NIL /\ pr[t] = ProcOf[h] /\ st[h] = NIL),
           NEW ty \in [Txns -> Txn], \A x \in C \ {t} : ty[x] = tx[x],
           ty[t].from = tx[t].from, ty[t].fromParent = tx[t].fromParent,
           ty[t].toThread = h, ty[t].toParent = st[h],
           NEW su, \A g \in Threads : su[g] = IF g = h THEN t ELSE st[g],
           NEW pq, \A x \in Q \ {t} : pq[x] = pr[x]
    PROVE  WovenTaken(C, Q, tx, st, pr, h, t, ty, su, pq)
<1>1. Shape(C, Q, tx, st) /\ Served(C, Q, tx) /\ Single(C, tx)
  BY DEF Woven
<1>2. /\ C \subseteq Txns /\ Q \subseteq C /\ NIL \notin C /\ NIL \notin Txns /\ h # NIL
      /\ \A x \in C : tx[x].fromParent \in C \cup {NIL}
      /\ t \in C /\ t \in Txns
      /\ Linked(C, tx) /\ \A x \in C \cup {NIL} : Anc(tx, x) \subseteq C
  BY <1>1, ShapeCalls, AncIn, NilAssumption
<1>3. /\ \A g \in Threads : Awaited(Q, tx, st, g)
      /\ Pooled(Q, tx, pr)
  BY NilAssumption DEF Targets
<1>4. t \in Anc(tx, t)
  BY <1>2, AncUp
<1>5. tx[t].from # h
  <2>1. CASE tx[t].toThread = h
    BY <1>1, <1>2, <2>1 DEF Shape, Elsewhere
  <2>2. CASE tx[t].toThread = NIL /\ pr[t] = ProcOf[h]
    BY <1>2, <1>3, <1>4, <2>2 DEF Pooled
  <2>. QED
    BY <2>1, <2>2
<1>6. st[h] # NIL => st[h] \in Anc(tx, tx[t].fromParent) /\ tx[st[h]].from = h
  BY <1>3 DEF Awaited
<1>7. /\ Shape(C, Q \ {t}, ty, su)
      /\ \A x \in C \cup {NIL} : Anc(ty, x) = Anc(tx, x)
  BY <1>1, <1>5, <1>6, ReadShape
<1>8. Single(C, ty)
  <2>1. \/ tx[t].toThread = h
        \/ \A y \in Anc(tx, t) : tx[y].from # NIL => ProcOf[tx[y].from] # ProcOf[h]
    BY <1>3 DEF Pooled
  <2>. QED
    BY <1>1, <1>7, <2>1, ReadSingle
<1>9. Served(C, Q \ {t}, ty)
  BY <1>1, <1>2 DEF Served, Childless
<1>10. \A x \in C : ty[x].from = tx[x].from /\ ty[x].fromParent = tx[x].fromParent
  OBVIOUS
<1>11. Pooled(Q \ {t}, ty, pq)
  BY <1>2, <1>3, <1>7, <1>10 DEF Pooled
<1>12. ASSUME NEW g \in Threads \ {NIL} PROVE Awaited(Q \ {t}, ty, su, g)
  <2>. SUFFICES ASSUME NEW q \in Q \ {t}, tx[q].toThread = g
                PROVE  su[g] # NIL /\ ty[su[g]].from = g /\ su[g] \in Anc(tx, tx[q].fromParent)
    BY <1>2, <1>7, <1>10 DEF Awaited
  <2>1. st[g] # NIL /\ tx[st[g]].from = g /\ st[g] \in Anc(tx, tx[q].fromParent)
    BY <1>3 DEF Awaited
  <2>2. st[g] \in C
    BY <1>1, <2>1, ShapeTop
  <2>3. g # h
    <3>. SUFFICES ASSUME g = h PROVE FALSE
      OBVIOUS
    <3>1. st[h] \in Anc(tx, tx[t].fromParent) /\ st[h] \in Anc(tx, tx[q].fromParent)
      BY <1>6, <2>1
    <3>2. st[h] \in Anc(tx, t) /\ st[h] \in Anc(tx, q) /\ q \in C
      BY <1>2, <3>1, AncStep
    <3>3. Childless(C, tx, t) /\ Childless(C, tx, q)
      BY <1>1, QueuedChildless
    <3>. QED
      BY <1>2, <3>2, <3>3, ChildlessOne
  <2>. QED
    BY <1>10, <2>1, <2>2, <2>3
<1>. QED
  BY <1>7, <1>8, <1>9, <1>11, <1>12 DEF WovenTaken, Woven, Targets

\* A call that no thread serves fails.
StillWoven(C, Q, tx, st, pr, x, P, l, ty, su, pq) ==
    Woven(C \ P, Q \ {l}, ty, su) /\ Targets(Q \ {l}, ty, su, pq, x)

LEMMA WovenFail ==
    ASSUME NEW C, NEW Q, NEW tx \in [Txns -> Txn], NEW st,
           Shape(C, Q, tx, st), Served(C, Q, tx), Single(C, tx), NEW l \in Q,
           NEW pr, NEW x, Targets(Q \ {l}, tx, st, pr, x),
           NEW P, P = Failing(tx, l),
           NEW ty \in [Txns -> Txn], \A t \in C \ P : ty[t] = tx[t],
           NEW su, ToldStacks(tx, l, st, su),
           NEW pq, \A t \in Q \ {l} : pq[t] = pr[t]
    PROVE  StillWoven(C, Q, tx, st, pr, x, P, l, ty, su, pq)
<1>. DEFINE B == C \ P
            W == Q \ {l}
<1>1. /\ Shape(B, W, ty, su)
      /\ \A t \in B \cup {NIL} : Anc(ty, t) = Anc(tx, t) /\ Anc(tx, t) \subseteq B
      /\ \A g \in Threads : su[g] # st[g] => st[g] \in Answ(tx, l)
      /\ Served(B, W, ty)
  <2>1. Failed(C, Q, tx, st, l, P, ty, su)
    BY FailShape
  <2>. QED
    BY <2>1 DEF Failed
<1>2. Begins(C, Q, tx, l, P)
  BY FailingIs
<1>3. /\ C \subseteq Txns /\ Q \subseteq C /\ NIL \notin C /\ NIL \notin Txns
      /\ \A t \in C : tx[t].fromParent \in C \cup {NIL}
  BY ShapeCalls
<1>4. W \subseteq B
  BY <1>2, <1>3 DEF Begins
<1>5. \A t \in B : t \in C /\ ty[t] = tx[t]
  OBVIOUS
<1>6. Single(B, ty)
  <2>1. \A t \in B : /\ ty[t].from \in {NIL, tx[t].from} /\ ty[t].toThread \in {NIL, tx[t].toThread}
                     /\ Anc(ty, t) = Anc(tx, t)
    BY <1>1, <1>5
  <2>2. B \in SUBSET C
    OBVIOUS
  <2>. QED
    BY <2>1, <2>2, LessSingle
<1>7. Answ(tx, l) \subseteq P
  BY DEF Failing
<1>8. Pooled(W, ty, pq)
  <2>. SUFFICES ASSUME NEW t \in W, ty[t].toThread = NIL, NEW y \in Anc(ty, t), ty[y].from # NIL
                PROVE  ProcOf[ty[y].from] # pq[t]
    BY DEF Pooled
  <2>1. t \in B /\ y \in B /\ y \in Anc(tx, t)
    BY <1>1, <1>4
  <2>2. ty[t] = tx[t] /\ ty[y] = tx[y] /\ pq[t] = pr[t]
    BY <1>5, <2>1
  <2>. QED
    BY <2>1, <2>2 DEF Targets, Pooled
<1>9. ASSUME NEW g \in Threads \ {x}, NEW t \in W, ty[t].toThread = g
      PROVE  su[g] # NIL /\ ty[su[g]].from = g /\ su[g] \in Anc(ty, ty[t].fromParent)
  <2>1. t \in B /\ ty[t] = tx[t] /\ ty[t].toThread = g /\ t \in Txns
    BY <1>3, <1>4, <1>9
  <2>2. st[g] # NIL /\ tx[st[g]].from = g /\ st[g] \in Anc(tx, tx[t].fromParent)
    BY <2>1 DEF Targets, Awaited
  <2>3. Anc(tx, tx[t].fromParent) \subseteq Anc(tx, t) /\ Anc(tx, t) \subseteq B
    BY <1>1, <2>1, AncStep
  <2>4. st[g] \in B /\ su[g] = st[g] /\ ty[st[g]] = tx[st[g]]
    BY <1>1, <1>5, <1>7, <2>2, <2>3
  <2>5. Anc(ty, tx[t].fromParent) = Anc(tx, tx[t].fromParent)
    <3>1. CASE tx[t].fromParent = NIL
      BY <1>1, <3>1
    <3>2. CASE tx[t].fromParent # NIL
      <4>1. tx[t].fromParent \in Anc(tx, tx[t].fromParent)
        BY <1>3, <2>1, <3>2, AncUp
      <4>. QED
        BY <1>1, <2>3, <4>1
    <3>. QED
      BY <3>1, <3>2
  <2>. QED
    BY <2>1, <2>2, <2>4, <2>5
<1>. QED
  BY <1>1, <1>6, <1>8, <1>9 DEF StillWoven, Woven, Targets, Awaited

\* A thread exits.
WovenWithout(C, Q, tx, st, pr, h, ty, R, su, pq) ==
    Woven(C, R, ty, su) /\ Targets(Q, ty, su, pq, h)

LEMMA WovenLeave ==
    ASSUME NEW C, NEW Q, NEW tx \in [Txns -> Txn], NEW st, Woven(C, Q, tx, st),
           NEW pr, Targets(Q, tx, st, pr, NIL),
           NEW h \in Threads, NEW ty \in [Txns -> Txn], Leaves(C, Q, tx, h, ty),
           NEW R, R = IF st[h] # NIL /\ tx[st[h]].toThread = h THEN Q \cup {st[h]} ELSE Q,
           NEW su, \A g \in Threads : su[g] = IF g = h THEN NIL ELSE st[g],
           NEW pq, \A t \in Q : pq[t] = pr[t]
    PROVE  WovenWithout(C, Q, tx, st, pr, h, ty, R, su, pq)
<1>1. Shape(C, Q, tx, st) /\ Served(C, Q, tx) /\ Single(C, tx)
  BY DEF Woven
<1>2. /\ C \subseteq Txns /\ Q \subseteq C /\ NIL \notin C /\ NIL \notin Txns /\ h # NIL
      /\ \A t \in C : tx[t].fromParent \in C \cup {NIL}
      /\ Linked(C, tx) /\ \A t \in C \cup {NIL} : Anc(tx, t) \subseteq C
  BY <1>1, ShapeCalls, AncIn, NilAssumption
<1>3. /\ Shape(C, R, ty, su)
      /\ \A t \in C \cup {NIL} : Anc(ty, t) = Anc(tx, t)
      /\ Served(C, R, ty)
  <2>1. Left(C, Q, tx, st, h, ty, R, su)
    BY <1>1, LeaveShape
  <2>. QED
    BY <1>1, <2>1 DEF Left
<1>4. \A t \in C : /\ ty[t].from \in {NIL, tx[t].from} /\ ty[t].toThread \in {NIL, tx[t].toThread}
                   /\ ty[t].fromParent = tx[t].fromParent
                   /\ tx[t].from # h => ty[t].from = tx[t].from
  BY DEF Leaves, Mem
<1>5. Single(C, ty)
  <2>1. \A t \in C : /\ ty[t].from \in {NIL, tx[t].from} /\ ty[t].toThread \in {NIL, tx[t].toThread}
                     /\ Anc(ty, t) = Anc(tx, t)
    BY <1>3, <1>4
  <2>. QED
    BY <1>1, <2>1, LessSingle
<1>6. \A t \in Q : ty[t].toThread = tx[t].toThread
  <2>. SUFFICES ASSUME NEW t \in Q PROVE ty[t].toThread = tx[t].toThread
    OBVIOUS
  <2>1. t \in C /\ (tx[t].from # NIL => tx[t].from # tx[t].toThread)
    BY <1>1, <1>2 DEF Shape, Elsewhere
  <2>2. t \in Mem(C, Q, tx, h) => tx[t].toThread # h
    BY <1>2, <2>1 DEF Mem
  <2>. QED
    BY <2>1, <2>2 DEF Leaves
<1>7. Pooled(Q, ty, pq)
  <2>. SUFFICES ASSUME NEW t \in Q, ty[t].toThread = NIL, NEW y \in Anc(ty, t), ty[y].from # NIL
                PROVE  ProcOf[ty[y].from] # pq[t]
    BY DEF Pooled
  <2>1. t \in C /\ y \in C /\ y \in Anc(tx, t)
    BY <1>2, <1>3
  <2>2. tx[t].toThread = NIL /\ ty[y].from = tx[y].from /\ pq[t] = pr[t]
    BY <1>4, <1>6, <2>1
  <2>. QED
    BY <2>1, <2>2 DEF Targets, Pooled
<1>8. ASSUME NEW g \in Threads \ {h}, NEW t \in Q, ty[t].toThread = g
      PROVE  su[g] # NIL /\ ty[su[g]].from = g /\ su[g] \in Anc(ty, ty[t].fromParent)
  <2>1. t \in C /\ tx[t].toThread = g /\ ty[t].fromParent = tx[t].fromParent
    BY <1>2, <1>4, <1>6, <1>8
  <2>2. st[g] # NIL /\ tx[st[g]].from = g /\ st[g] \in Anc(tx, tx[t].fromParent)
    BY <2>1, NilAssumption DEF Targets, Awaited
  <2>3. su[g] = st[g] /\ Anc(ty, tx[t].fromParent) = Anc(tx, tx[t].fromParent) /\ st[g] \in C
    BY <1>2, <1>3, <2>1, <2>2
  <2>4. ty[st[g]].from = g
    BY <1>4, <2>2, <2>3
  <2>. QED
    BY <2>1, <2>2, <2>3, <2>4
<1>. QED
  BY <1>3, <1>5, <1>7, <1>8 DEF WovenWithout, Woven, Targets, Awaited

-------------------------------------------------------------------------------
(* Queues, calls and stacks together *)

Stacks == [h \in Threads |-> thr[h].stack]
ProcAt(tx, bs) == [t \in Txns |-> bs[tx[t].buffer].proc]

Flow(tx, bs, L, st, x) ==
    /\ QueueOK(tx, bs, L)
    /\ Woven(CallsOf(tx, bs), Unread(tx, bs, L), tx, st)
    /\ Targets(Unread(tx, bs, L), tx, st, ProcAt(tx, bs), x)

\* A step that changes no call but for its buffer, and no stack.
Aside(tx, bs, L, ty, bt, M, t) ==
    /\ TxnOK(ty, bt, Waiting(M), t)
    /\ \A l \in Place : t \in Held(M, l) => Fits(ty, bt, l, t)
    /\ IsCall(ty, bt, t) <=> IsCall(tx, bs, t)
    /\ IsCall(tx, bs, t) =>
         /\ ty[t].from = tx[t].from /\ ty[t].fromParent = tx[t].fromParent
         /\ ty[t].toThread = tx[t].toThread /\ ty[t].toParent = tx[t].toParent
         /\ t \in Waiting(M) <=> t \in Waiting(L)
         /\ t \in Waiting(L) => ProcAt(ty, bt)[t] = ProcAt(tx, bs)[t]

LEMMA FlowSame ==
    ASSUME NEW tx \in [Txns -> Txn], NEW bs, NEW L, NEW st, NEW x, Flow(tx, bs, L, st, x),
           NEW ty \in [Txns -> Txn], NEW bt, NEW M \in ListsOf, Once(M), NEW X,
           \A t \in Txns \ X : /\ Same(tx, bs, ty, bt, t)
                               /\ \A l \in Place : t \in Held(M, l) <=> t \in Held(L, l),
           \A t \in X \cap Txns : Aside(tx, bs, L, ty, bt, M, t),
           NEW su, \A g \in Threads : su[g] = st[g]
    PROVE  Flow(ty, bt, M, su, x)
<1>. DEFINE C == CallsOf(tx, bs)
            Q == Unread(tx, bs, L)
<1>1. QueueOK(tx, bs, L) /\ Woven(C, Q, tx, st) /\ Targets(Q, tx, st, ProcAt(tx, bs), x)
  BY DEF Flow
<1>2. \A t \in X \cap Txns : /\ TxnOK(ty, bt, Waiting(M), t)
                             /\ \A l \in Place : t \in Held(M, l) => Fits(ty, bt, l, t)
  BY DEF Aside
<1>3. /\ QueueOK(ty, bt, M)
      /\ \A t \in Txns \ X : /\ t \in CallsOf(ty, bt) <=> t \in CallsOf(tx, bs)
                             /\ t \in Waiting(M) <=> t \in Waiting(L)
  <2>1. Kept(tx, bs, L, ty, bt, M, X)
    BY <1>1, <1>2, QueueStep
  <2>. QED
    BY <2>1 DEF Kept
<1>4. CallsOf(ty, bt) = C
  <2>1. \A t \in X \cap Txns : t \in CallsOf(ty, bt) <=> t \in CallsOf(tx, bs)
    BY DEF Aside, CallsOf
  <2>2. CallsOf(ty, bt) \subseteq Txns /\ C \subseteq Txns
    BY DEF CallsOf
  <2>. QED
    BY <1>3, <2>1, <2>2
<1>5. \A t \in C : t \in Waiting(M) <=> t \in Waiting(L)
  BY <1>3 DEF Aside, CallsOf
<1>6. Unread(ty, bt, M) = Q
  BY <1>4, <1>5 DEF Unread
<1>7. SameLinks(C, tx, ty)
  BY DEF Aside, CallsOf, Same, SameLinks
<1>8. \A t \in Q : ProcAt(ty, bt)[t] = ProcAt(tx, bs)[t]
  <2>. SUFFICES ASSUME NEW t \in Q PROVE ProcAt(ty, bt)[t] = ProcAt(tx, bs)[t]
    OBVIOUS
  <2>1. t \in Txns /\ IsCall(tx, bs, t) /\ t \in Waiting(L)
    BY DEF Unread, CallsOf
  <2>2. tx[t].buffer # NIL
    BY <1>1, <2>1, WaitingBuffer
  <2>3. CASE t \in X
    BY <2>1, <2>3 DEF Aside
  <2>4. CASE t \notin X
    BY <2>1, <2>2, <2>4 DEF Same, ProcAt
  <2>. QED
    BY <2>3, <2>4
<1>. HIDE DEF C, Q
<1>9. Woven(C, Q, ty, su)
  BY <1>1, <1>7, WovenSame
<1>10. Targets(Q, ty, su, ProcAt(ty, bt), x)
  BY <1>1, <1>7, <1>8, TargetsSame
<1>. QED
  BY <1>3, <1>4, <1>6, <1>9, <1>10 DEF Flow, C, Q

\* Call l, which no thread serves, is still to be failed: it was queued last, or
\* is just off a stack.
Pending(tx, bs, L, st, x, l) ==
    LET C == CallsOf(tx, bs)
        Q == Unread(tx, bs, L) \cup {l} IN
    /\ QueueOK(tx, bs, L)
    /\ l \in C
    /\ Shape(C, Q, tx, st) /\ Served(C, Q, tx) /\ Single(C, tx)
    /\ Targets(Q \ {l}, tx, st, ProcAt(tx, bs), x)

LEMMA FlowFail ==
    ASSUME NEW tx \in [Txns -> Txn], NEW bs \in [Bufs -> Buf], NEW L, NEW st, NEW x, NEW l,
           Pending(tx, bs, L, st, x, l),
           NEW M \in ListsOf, Once(M), \A m \in Place : Held(M, m) = Held(L, m) \ {l},
           NEW P, P = Failing(tx, l),
           NEW su, ToldStacks(tx, l, st, su)
    PROVE  Flow(Freed(tx, P), Detach(bs, tx, P), M, su, x)
<1>. DEFINE C == CallsOf(tx, bs)
            Q == Unread(tx, bs, L) \cup {l}
            ty == Freed(tx, P)
            bt == Detach(bs, tx, P)
<1>1. /\ QueueOK(tx, bs, L) /\ l \in C /\ l \in Q /\ C \subseteq Txns
      /\ Shape(C, Q, tx, st) /\ Served(C, Q, tx) /\ Single(C, tx)
      /\ Targets(Q \ {l}, tx, st, ProcAt(tx, bs), x)
  BY DEF Pending, CallsOf
<1>2. ty \in [Txns -> Txn] /\ bt \in [Bufs -> Buf]
  BY FreedType
<1>3. \A t \in Txns \ P : ty[t] = tx[t]
  BY DEF Freed
<1>4. \A t \in Txns \cap P : ty[t] = NoTxn
  BY DEF Freed
<1>5. \A b \in Bufs : /\ bt[b].proc = bs[b].proc /\ bt[b].node = bs[b].node
                      /\ bt[b].async = bs[b].async /\ bt[b].userFree = bs[b].userFree
  BY DEF Detach, Buf
<1>6. P \cap Q = {l} /\ P \subseteq C
  <2>1. Begins(C, Q, tx, l, P)
    <3>. HIDE DEF C, Q
    <3>. QED
      BY <1>1, FailingIs
  <2>. QED
    BY <2>1 DEF Begins
<1>7. \A t \in P \cap Txns : t \notin Waiting(M)
  BY <1>6 DEF Waiting, Unread
<1>8. \A t \in Txns : tx[t].buffer \in Bufs \cup {NIL}
  BY DEF Txn
<1>9. \A t \in Txns \ P : /\ Same(tx, bs, ty, bt, t)
                          /\ \A m \in Place : t \in Held(M, m) <=> t \in Held(L, m)
  <2>1. \A t \in Txns \ P : Same(tx, bs, ty, bt, t)
    BY <1>3, <1>5, <1>8 DEF Same
  <2>2. \A t \in Txns \ P : t # l
    BY <1>6
  <2>. QED
    BY <2>1, <2>2
<1>10. \A t \in P \cap Txns : /\ TxnOK(ty, bt, Waiting(M), t)
                              /\ \A m \in Place : t \in Held(M, m) => Fits(ty, bt, m, t)
  <2>. SUFFICES ASSUME NEW t \in P \cap Txns
                PROVE  /\ TxnOK(ty, bt, Waiting(M), t)
                       /\ \A m \in Place : t \in Held(M, m) => Fits(ty, bt, m, t)
    OBVIOUS
  <2>1. ty[t] = NoTxn /\ t \notin Waiting(M)
    BY <1>4, <1>7
  <2>2. \A m \in Place : t \notin Held(M, m)
    BY <2>1, HeldWaits
  <2>3. TxnOK(ty, bt, Waiting(M), t)
    BY <2>1 DEF TxnOK, IsCall, NoTxn
  <2>. QED
    BY <2>2, <2>3
<1>11. /\ QueueOK(ty, bt, M)
       /\ \A t \in Txns \ P : /\ t \in CallsOf(ty, bt) <=> t \in CallsOf(tx, bs)
                              /\ t \in Waiting(M) <=> t \in Waiting(L)
  <2>1. Kept(tx, bs, L, ty, bt, M, P)
    <3>. HIDE DEF ty, bt
    <3>. QED
      BY <1>1, <1>9, <1>10, QueueStep
  <2>. QED
    BY <2>1 DEF Kept
<1>12. CallsOf(ty, bt) = C \ P
  <2>1. \A t \in P \cap Txns : t \notin CallsOf(ty, bt)
    BY <1>4 DEF CallsOf, IsCall, NoTxn
  <2>2. CallsOf(ty, bt) \subseteq Txns /\ C \subseteq Txns
    BY DEF CallsOf
  <2>. QED
    BY <1>11, <2>1, <2>2
<1>13. Unread(ty, bt, M) = Q \ {l}
  <2>1. \A t \in C \ P : t # l /\ (t \in Waiting(M) <=> t \in Waiting(L))
    BY <1>1, <1>6, <1>11
  <2>2. Unread(ty, bt, M) = (C \ P) \cap Waiting(L)
    BY <1>12, <2>1 DEF Unread
  <2>3. \A t \in C \cap Waiting(L) : t # l => t \notin P
    BY <1>6 DEF Unread
  <2>. QED
    BY <1>6, <2>1, <2>2, <2>3 DEF Unread
<1>14. \A t \in Q \ {l} : ProcAt(ty, bt)[t] = ProcAt(tx, bs)[t]
  <2>. SUFFICES ASSUME NEW t \in Q \ {l} PROVE ProcAt(ty, bt)[t] = ProcAt(tx, bs)[t]
    OBVIOUS
  <2>1. t \in Txns \ P /\ t \in Waiting(L)
    BY <1>1, <1>6 DEF Unread, CallsOf
  <2>2. tx[t].buffer # NIL
    BY <1>1, <2>1, WaitingBuffer
  <2>. QED
    BY <1>9, <2>1, <2>2 DEF Same, ProcAt
<1>15. \A t \in C \ P : ty[t] = tx[t]
  BY <1>1, <1>3
<1>. HIDE DEF C, Q, ty, bt
<1>16. /\ Woven(C \ P, Q \ {l}, ty, su)
       /\ Targets(Q \ {l}, ty, su, ProcAt(ty, bt), x)
  <2>1. StillWoven(C, Q, tx, st, ProcAt(tx, bs), x, P, l, ty, su, ProcAt(ty, bt))
    BY <1>1, <1>2, <1>14, <1>15, WovenFail
  <2>. QED
    BY <2>1 DEF StillWoven
<1>17. Flow(ty, bt, M, su, x)
  BY <1>11, <1>12, <1>13, <1>16 DEF Flow
<1>. QED
  BY <1>17 DEF ty, bt

-------------------------------------------------------------------------------
(* binder_send_failed_reply *)

\* Both error codes of a thread are taken only while it waits for no reply.
ErrOK(tx, hs) ==
    \A h \in Threads : hs[h].err2 # "BR_OK" =>
        hs[h].err # "BR_OK" /\ (hs[h].stack # NIL => tx[hs[h].stack].from # h)

\* The caller who is told of the failure of l, if there is one, gets the code
\* in return_error; an unread one moves to return_error2, which is free.
ToldBy(tx, hs, l, code, ht) ==
    \A g \in Threads :
        IF \E y \in Answ(tx, l) : tx[y].from = g
        THEN /\ \E y \in Answ(tx, l) : tx[y].from = g /\ hs[g].stack = y /\ ht[g].stack = tx[y].fromParent
             /\ hs[g].err2 = "BR_OK"
             /\ ht[g].err = code /\ ht[g].err2 = hs[g].err /\ ht[g].todo = hs[g].todo
        ELSE ht[g] = hs[g]

\* At most one caller is told, for a call of its own.
OneTold(tx, bs, l) ==
    \A y \in Answ(tx, l) : y \in CallsOf(tx, bs) /\ \A z \in Answ(tx, l) : z = y

\* What remains after the failure of a pending call.
FailReplied(tx, bs, hs, M, x, l, code) ==
    /\ OneTold(tx, bs, l)
    /\ txn' = Freed(tx, Failing(tx, l)) /\ buf' = Detach(bs, tx, Failing(tx, l))
    /\ ToldBy(tx, hs, l, code, thr')
    /\ oops' = oops
    /\ Flow(txn', buf', M, Stacks', x)
    /\ ErrOK(txn', thr')

LEMMA FailReply ==
    ASSUME NEW tx \in [Txns -> Txn], NEW bs \in [Bufs -> Buf], NEW hs \in [Threads -> Thread],
           NEW L, NEW st, \A g \in Threads : st[g] = hs[g].stack,
           NEW x, NEW l, Pending(tx, bs, L, st, x, l),
           NEW M \in ListsOf, Once(M), \A m \in Place : Held(M, m) = Held(L, m) \ {l},
           ErrOK(tx, hs), NEW code, code # "BR_OK", SendFailedReply(tx, bs, hs, l, code)
    PROVE  FailReplied(tx, bs, hs, M, x, l, code)
<1>. DEFINE C == CallsOf(tx, bs)
            Q == Unread(tx, bs, L) \cup {l}
            A == Answ(tx, l)
            P == Failing(tx, l)
<1>1. Shape(C, Q, tx, st) /\ l \in C /\ l \in Q
  BY DEF Pending
<1>. HIDE DEF C, Q
<1>2. Linked(C, tx) /\ C \subseteq Txns /\ NIL \notin C
      /\ \A t \in C : tx[t].fromParent \in C \cup {NIL}
  BY <1>1, ShapeCalls
<1>3. Abandoned(tx, l) = Aband(tx, l) /\ Answerable(tx, l) = A
  BY <1>1, <1>2, AbandonedIs
<1>4. Begins(C, Q, tx, l, P)
  BY <1>1, FailingIs
<1>5. \A y \in A : /\ y \in C /\ y \in P /\ tx[y].from \in Threads /\ tx[y].from # NIL
                   /\ \A z \in A : z = y
  BY <1>4 DEF Begins, Answ, Failing
<1>6. \A y \in A : hs[tx[y].from].stack = y
  BY <1>1, <1>5, AnswerableTop
<1>7. \A y \in A : hs[tx[y].from].err2 = "BR_OK"
  BY <1>2, <1>5, <1>6 DEF ErrOK
<1>8. ASSUME NEW y \in A
      PROVE  LET f == tx[y].from IN
             Moved(hs, f) = [hs[f] EXCEPT !.err = "BR_OK", !.err2 = hs[f].err]
  <2>1. hs[tx[y].from] \in Thread /\ hs[tx[y].from].err2 = "BR_OK"
    BY <1>5, <1>7
  <2>. QED
    BY <2>1 DEF Moved, Thread
<1>9. \A y \in A : tx[y].from \in Threads /\ Moved(hs, tx[y].from).err = "BR_OK"
  <2>. SUFFICES ASSUME NEW y \in A PROVE tx[y].from \in Threads /\ Moved(hs, tx[y].from).err = "BR_OK"
    OBVIOUS
  <2>1. hs[tx[y].from] \in Thread /\ tx[y].from \in Threads
    BY <1>5
  <2>. QED
    BY <1>8, <2>1 DEF Thread
<1>10. Deliverable(tx, hs, l) = A /\ Popped(tx, hs, l) = P
  BY <1>3, <1>9 DEF Deliverable, Popped, Failing
<1>11. txn' = Freed(tx, P) /\ buf' = Detach(bs, tx, P)
  BY <1>10 DEF SendFailedReply
<1>12. oops' = oops
  <2>1. Answerable(tx, l) \ Deliverable(tx, hs, l) = {}
    BY <1>3, <1>10
  <2>2. {y \in Deliverable(tx, hs, l) : hs[tx[y].from].stack # y} = {}
    BY <1>6, <1>10
  <2>3. oops' = oops \cup {"reply dropped" : y \in {}} \cup {"pop" : y \in {}}
    BY <2>1, <2>2 DEF SendFailedReply
  <2>. QED
    BY <2>3
<1>13. PICK late \in BOOLEAN :
         thr' = [h \in Threads |->
                   IF \E y \in Deliverable(tx, hs, l) : tx[y].from = h
                   THEN LET y == CHOOSE z \in Deliverable(tx, hs, l) : tx[z].from = h
                        IN [Moved(hs, h) EXCEPT !.stack = tx[y].fromParent, !.err = code,
                                                !.late = late /\ hs[h].err = "BR_OK"]
                   ELSE hs[h]]
  BY DEF SendFailedReply
<1>14. ToldBy(tx, hs, l, code, thr')
  <2>. SUFFICES ASSUME NEW g \in Threads
                PROVE  IF \E y \in A : tx[y].from = g
                       THEN /\ \E y \in A : tx[y].from = g /\ hs[g].stack = y /\ thr'[g].stack = tx[y].fromParent
                            /\ hs[g].err2 = "BR_OK"
                            /\ thr'[g].err = code /\ thr'[g].err2 = hs[g].err /\ thr'[g].todo = hs[g].todo
                       ELSE thr'[g] = hs[g]
    BY DEF ToldBy
  <2>1. CASE \E y \in A : tx[y].from = g
    <3>1. PICK y \in A : tx[y].from = g
      BY <2>1
    <3>2. y = CHOOSE z \in Deliverable(tx, hs, l) : tx[z].from = g
      BY <1>5, <1>10, <3>1
    <3>. DEFINE w == CHOOSE z \in Deliverable(tx, hs, l) : tx[z].from = g
    <3>6. thr'[g] = [Moved(hs, g) EXCEPT !.stack = tx[w].fromParent, !.err = code,
                                         !.late = late /\ hs[g].err = "BR_OK"]
      BY <1>10, <1>13, <2>1
    <3>3. thr'[g] = [Moved(hs, g) EXCEPT !.stack = tx[y].fromParent, !.err = code,
                                         !.late = late /\ hs[g].err = "BR_OK"]
      BY <3>2, <3>6
    <3>4. Moved(hs, g) = [hs[g] EXCEPT !.err = "BR_OK", !.err2 = hs[g].err]
      BY <1>8, <3>1
    <3>5. /\ thr'[g].stack = tx[y].fromParent /\ thr'[g].err = code
          /\ thr'[g].err2 = hs[g].err /\ thr'[g].todo = hs[g].todo
      <4>1. hs[g] \in Thread
        OBVIOUS
      <4>. QED
        BY ONLY <4>1, <3>3, <3>4 DEF Thread
    <3>. QED
      BY <1>6, <1>7, <2>1, <3>1, <3>5
  <2>2. CASE ~ \E y \in A : tx[y].from = g
    BY <1>10, <1>13, <2>2
  <2>. QED
    BY <2>1, <2>2
<1>15. \A g \in Threads : Stacks'[g] = thr'[g].stack
  BY DEF Stacks
<1>16. ToldStacks(tx, l, st, Stacks')
  BY <1>14, <1>15 DEF ToldBy, ToldStacks
<1>17. Flow(txn', buf', M, Stacks', x)
  BY <1>11, <1>16, FlowFail
<1>18. ErrOK(txn', thr')
  <2>. SUFFICES ASSUME NEW g \in Threads, thr'[g].err2 # "BR_OK"
                PROVE  thr'[g].err # "BR_OK" /\ (thr'[g].stack # NIL => txn'[thr'[g].stack].from # g)
    BY DEF ErrOK
  <2>1. \A t \in Txns : txn'[t].from \in {NIL, tx[t].from}
    BY <1>11 DEF Freed, NoTxn
  <2>2. g # NIL
    BY NilAssumption
  <2>3. CASE \E y \in A : tx[y].from = g
    <3>1. PICK y \in A : tx[y].from = g /\ hs[g].stack = y /\ thr'[g].stack = tx[y].fromParent
      BY <1>14, <2>3 DEF ToldBy
    <3>2. thr'[g].err = code
      BY <1>14, <2>3 DEF ToldBy
    <3>3. tx[y].fromParent # NIL =>
             /\ tx[y].fromParent \in C /\ tx[tx[y].fromParent].toThread = g
             /\ tx[tx[y].fromParent].from # g
      BY <1>1, <1>2, <1>5, <2>2, <3>1 DEF Shape, Nested, Elsewhere
    <3>. QED
      BY <1>2, <2>1, <2>2, <3>1, <3>2, <3>3
  <2>4. CASE ~ \E y \in A : tx[y].from = g
    <3>1. thr'[g] = hs[g]
      BY <1>14, <2>4 DEF ToldBy
    <3>2. hs[g].stack \in C \cup {NIL}
      BY <1>1, ShapeTop
    <3>. QED
      BY <1>2, <2>1, <2>2, <3>1, <3>2 DEF ErrOK
  <2>. QED
    BY <2>3, <2>4
<1>19. OneTold(tx, bs, l)
  BY <1>5 DEF OneTold, C
<1>. QED
  BY <1>11, <1>12, <1>14, <1>17, <1>18, <1>19 DEF FailReplied

-------------------------------------------------------------------------------
(* The invariant *)

\* The free and release loops: a thread being freed, and those a release has
\* freed, have no stack; the freed ones no work either.
LockOK ==
    /\ ~lock.held => lock = Unlocked
    /\ lock.held /\ lock.proc = NIL => lock.thread # NIL /\ lock.left = {}
    /\ lock.thread \notin lock.left
    /\ lock.thread # NIL => thr[lock.thread].stack = NIL
    /\ lock.proc # NIL =>
         /\ \A h \in lock.left \cup ({lock.thread} \ {NIL}) : ProcOf[h] = lock.proc
         /\ \A h \in Threads : ProcOf[h] = lock.proc /\ h \notin lock.left /\ h # lock.thread =>
              thr[h].stack = NIL /\ thr[h].todo = <<>>

BufsOK ==
    \A b \in Bufs :
        /\ ~buf[b].live => buf[b] = NoBuf
        /\ buf[b].live /\ buf[b].async => buf[b].node # NIL /\ buf[b].proc = Owner[buf[b].node]

CallsInv ==
    /\ Flow(txn, buf, Lists, Stacks, lock.thread)
    /\ ErrOK(txn, thr)
    /\ LockOK
    /\ BufsOK
    /\ oops \subseteq {"async flag"}

LEMMA UnlockedOK ==
    ASSUME ~lock.held, LockOK
    PROVE  lock = Unlocked /\ lock.thread = NIL
BY DEF LockOK, Unlocked

LEMMA LockFree ==
    ASSUME lock' = Unlocked
    PROVE  LockOK' /\ lock'.thread = NIL
BY DEF LockOK, Unlocked

\* What becomes of the lists when an item is put in one or taken off one.
LEMMA ListAt ==
    ASSUME NEW L \in ListsOf, NEW l \in Place
    PROVE  /\ \A w : \A m \in Place : Put(L, l, w)[m] = IF m = l THEN Append(L[l], w) ELSE L[m]
           /\ \A m \in Place : Cut(L, l)[m] = IF m = l THEN Tail(L[l]) ELSE L[m]
           /\ \A w \in Txns \cup {Complete} : Put(L, l, w) \in ListsOf
           /\ L[l] # <<>> => Cut(L, l) \in ListsOf
BY DEF ListsOf, Put, Cut

LEMMA ListsBecome ==
    ASSUME TypeOK', NEW M \in ListsOf,
           \A h \in Threads : thr'[h].todo = M[<<"t", h>>],
           \A p \in Procs : ptodo'[p] = M[<<"p", p>>],
           \A n \in Nodes : node'[n].todo = M[<<"n", n>>]
    PROVE  Lists' = M
<1>1. /\ \A h \in Threads : Lists'[<<"t", h>>] = thr'[h].todo
      /\ \A p \in Procs : Lists'[<<"p", p>>] = ptodo'[p]
      /\ \A n \in Nodes : Lists'[<<"n", n>>] = node'[n].todo
  BY PlaceIs DEF Lists
<1>2. \A l \in Place : Lists'[l] = M[l]
  BY <1>1, PlaceIs
<1>3. Lists' = [l \in Place |-> Lists'[l]]
  BY DEF Lists
<1>4. M = [l \in Place |-> M[l]]
  BY DEF ListsOf
<1>. QED
  BY <1>2, <1>3, <1>4

LEMMA ListsKept ==
    ASSUME TypeOK, TypeOK', \A h \in Threads : thr'[h].todo = thr[h].todo,
           \A p \in Procs : ptodo'[p] = ptodo[p],
           \A n \in Nodes : node'[n].todo = node[n].todo
    PROVE  Lists' = Lists
BY ListsIs, ListsBecome

LEMMA ThreadPut ==
    ASSUME TypeOK, TypeOK', NEW h \in Threads, NEW w \in Txns \cup {Complete},
           \A g \in Threads : thr'[g].todo = IF g = h THEN Append(thr[h].todo, w) ELSE thr[g].todo,
           ptodo' = ptodo, node' = node
    PROVE  Lists' = Put(Lists, <<"t", h>>, w)
<1>. DEFINE M == Put(Lists, <<"t", h>>, w)
<1>1. M \in ListsOf /\ \A m \in Place : M[m] = IF m = <<"t", h>> THEN Append(thr[h].todo, w) ELSE Lists[m]
  <2>1. Lists \in ListsOf /\ Lists[<<"t", h>>] = thr[h].todo /\ <<"t", h>> \in Place
    BY ListsIs, PlaceIs
  <2>2. M \in ListsOf
    BY <2>1, ListAt
  <2>. QED
    BY <2>1, <2>2, ListAt
<1>. HIDE DEF M
<1>2. \A g \in Threads : M[<<"t", g>>] = thr'[g].todo
  BY <1>1, ListsIs, PlaceIs
<1>3. \A p \in Procs : M[<<"p", p>>] = ptodo'[p]
  BY <1>1, ListsIs, PlaceIs
<1>4. \A n \in Nodes : M[<<"n", n>>] = node'[n].todo
  BY <1>1, ListsIs, PlaceIs
<1>5. Lists' = M
  BY <1>1, <1>2, <1>3, <1>4, ListsBecome
<1>. QED
  BY <1>5 DEF M

LEMMA ThreadCut ==
    ASSUME TypeOK, TypeOK', NEW h \in Threads, thr[h].todo # <<>>,
           \A g \in Threads : thr'[g].todo = IF g = h THEN Tail(thr[h].todo) ELSE thr[g].todo,
           ptodo' = ptodo, node' = node
    PROVE  Lists' = Cut(Lists, <<"t", h>>)
<1>. DEFINE M == Cut(Lists, <<"t", h>>)
<1>1. M \in ListsOf /\ \A m \in Place : M[m] = IF m = <<"t", h>> THEN Tail(thr[h].todo) ELSE Lists[m]
  BY ListsIs, ListAt, PlaceIs
<1>. HIDE DEF M
<1>2. \A g \in Threads : M[<<"t", g>>] = thr'[g].todo
  BY <1>1, ListsIs, PlaceIs
<1>3. \A p \in Procs : M[<<"p", p>>] = ptodo'[p]
  BY <1>1, ListsIs, PlaceIs
<1>4. \A n \in Nodes : M[<<"n", n>>] = node'[n].todo
  BY <1>1, ListsIs, PlaceIs
<1>5. Lists' = M
  BY <1>1, <1>2, <1>3, <1>4, ListsBecome
<1>. QED
  BY <1>5 DEF M

LEMMA ProcCut ==
    ASSUME TypeOK, TypeOK', NEW p \in Procs, ptodo[p] # <<>>,
           \A g \in Threads : thr'[g].todo = thr[g].todo,
           ptodo' = [ptodo EXCEPT ![p] = Tail(@)], node' = node
    PROVE  Lists' = Cut(Lists, <<"p", p>>)
<1>1. Cut(Lists, <<"p", p>>) \in ListsOf
  BY ListsIs, ListAt, PlaceIs
<1>2. \A q \in Procs : ptodo'[q] = IF q = p THEN Tail(ptodo[p]) ELSE ptodo[q]
  BY DEF TypeOK
<1>. QED
  BY <1>1, <1>2, ListsIs, ListAt, PlaceIs, ListsBecome

LEMMA NodeCut ==
    ASSUME TypeOK, TypeOK', NEW n \in Nodes, node[n].todo # <<>>,
           \A g \in Threads : thr'[g].todo = thr[g].todo,
           ptodo' = ptodo, node' = [node EXCEPT ![n].todo = Tail(@)]
    PROVE  Lists' = Cut(Lists, <<"n", n>>)
<1>1. Cut(Lists, <<"n", n>>) \in ListsOf
  BY ListsIs, ListAt, PlaceIs
<1>2. \A m \in Nodes : node'[m].todo = IF m = n THEN Tail(node[n].todo) ELSE node[m].todo
  BY DEF TypeOK
<1>. QED
  BY <1>1, <1>2, ListsIs, ListAt, PlaceIs, ListsBecome, SMTT(60)

-------------------------------------------------------------------------------
(* Every step keeps it *)

LEMMA StacksKept ==
    ASSUME \A g \in Threads : thr'[g].stack = thr[g].stack
    PROVE  Stacks' = Stacks
BY DEF Stacks

\* Steps that leave the transactions, the queues and the stacks alone.
LEMMA QuietStep ==
    ASSUME TypeOK, TypeOK', CallsInv, UNCHANGED <<txn, buf, oops>>,
           \A g \in Threads : /\ thr'[g].stack = thr[g].stack /\ thr'[g].todo = thr[g].todo
                              /\ thr'[g].err2 # "BR_OK" => thr[g].err2 # "BR_OK" /\ thr'[g].err # "BR_OK",
           ptodo' = ptodo, node' = node, lock'.thread = lock.thread, LockOK'
    PROVE  CallsInv'
<1>1. Lists' = Lists /\ Stacks' = Stacks
  BY ListsKept, StacksKept
<1>2. Flow(txn, buf, Lists, Stacks, lock.thread)'
  BY <1>1 DEF CallsInv
<1>3. ErrOK(txn, thr)'
  BY DEF CallsInv, ErrOK
<1>4. BufsOK'
  BY DEF CallsInv, BufsOK
<1>. QED
  BY <1>2, <1>3, <1>4 DEF CallsInv

LEMMA LockKept ==
    ASSUME CallsInv, ~lock.held, lock' = lock
    PROVE  LockOK' /\ lock'.thread = NIL /\ lock.thread = NIL /\ lock = Unlocked
<1>1. lock = Unlocked
  BY UnlockedOK DEF CallsInv
<1>. QED
  BY <1>1, LockFree DEF Unlocked

LEMMA RefuseCalls ==
    ASSUME TypeOK, TypeOK', CallsInv, NEW h \in Threads, CanWrite(h), NEW code, Refuse(h, code)
    PROVE  CallsInv'
<1>1. thr[h].err2 = "BR_OK"
  BY DEF CallsInv, ErrOK, CanWrite
<1>2. \A g \in Threads : /\ thr'[g].stack = thr[g].stack /\ thr'[g].todo = thr[g].todo
                         /\ thr'[g].err2 = thr[g].err2 /\ (g # h => thr'[g].err = thr[g].err)
  BY DEF Refuse, TypeOK, Thread
<1>3. \A g \in Threads : thr[g].err2 # "BR_OK" => thr[g].err # "BR_OK"
  BY DEF CallsInv, ErrOK
<1>4. LockOK' /\ lock'.thread = lock.thread
  BY LockKept DEF CanWrite, Running, Refuse
<1>. QED
  BY <1>1, <1>2, <1>3, <1>4, QuietStep DEF Refuse

LEMMA ReadErrorCalls ==
    ASSUME TypeOK, TypeOK', CallsInv, NEW h \in Threads, ReadError(h)
    PROVE  CallsInv'
<1>1. \A g \in Threads : /\ thr'[g].stack = thr[g].stack /\ thr'[g].todo = thr[g].todo
                         /\ thr'[g] = thr[g] \/ thr'[g].err2 = "BR_OK"
  BY DEF ReadError, TypeOK, Thread
<1>3. \A g \in Threads : thr[g].err2 # "BR_OK" => thr[g].err # "BR_OK"
  BY DEF CallsInv, ErrOK
<1>4. LockOK' /\ lock'.thread = lock.thread
  BY LockKept DEF Running, ReadError
<1>. QED
  BY <1>1, <1>3, <1>4, QuietStep DEF ReadError

LEMMA CloseCalls ==
    ASSUME TypeOK, TypeOK', CallsInv, NEW p \in Procs, Close(p)
    PROVE  CallsInv'
<1>3. \A g \in Threads : thr[g].err2 # "BR_OK" => thr[g].err # "BR_OK"
  BY DEF CallsInv, ErrOK
<1>4. LockOK' /\ lock'.thread = lock.thread
  BY LockKept DEF Close
<1>. QED
  BY <1>3, <1>4, QuietStep DEF Close

LEMMA DeferredReleaseCalls ==
    ASSUME TypeOK, TypeOK', CallsInv, NEW p \in Procs, DeferredRelease(p)
    PROVE  CallsInv'
<1>1. lock.thread = NIL
  BY UnlockedOK DEF CallsInv, DeferredRelease
<1>2. /\ lock'.held /\ lock'.proc = p /\ lock'.thread = NIL
      /\ lock'.left = {h \in Threads : ProcOf[h] = p} /\ p # NIL /\ NIL \notin Threads
  BY NilAssumption DEF DeferredRelease
<1>3. \A g \in Threads : thr[g].err2 # "BR_OK" => thr[g].err # "BR_OK"
  BY DEF CallsInv, ErrOK
<1>4. LockOK'
  BY <1>2 DEF LockOK
<1>. QED
  BY <1>1, <1>2, <1>3, <1>4, QuietStep DEF DeferredRelease

LEMMA ReadCompleteCalls ==
    ASSUME TypeOK, TypeOK', CallsInv, NEW h \in Threads, ReadComplete(h)
    PROVE  CallsInv'
<1>. DEFINE M == Cut(Lists, <<"t", h>>)
<1>1. /\ thr[h].todo # <<>> /\ Head(thr[h].todo) = Complete
      /\ \A g \in Threads : /\ thr'[g].stack = thr[g].stack
                            /\ thr'[g].err = thr[g].err /\ thr'[g].err2 = thr[g].err2
                            /\ thr'[g].todo = IF g = h THEN Tail(thr[h].todo) ELSE thr[g].todo
      /\ UNCHANGED <<ptodo, node, txn, buf, oops, lock>>
  <2>1. OwnWork(h) /\ ~OwnTxn(h)
    BY DEF ReadComplete
  <2>2. thr[h].todo # <<>> /\ Head(thr[h].todo) = Complete
    BY <2>1 DEF OwnWork, OwnTxn
  <2>3. \A g \in Threads : /\ thr'[g].stack = thr[g].stack
                           /\ thr'[g].err = thr[g].err /\ thr'[g].err2 = thr[g].err2
                           /\ thr'[g].todo = IF g = h THEN Tail(thr[h].todo) ELSE thr[g].todo
    BY DEF ReadComplete, Dequeue, TypeOK, Thread
  <2>. QED
    BY <2>2, <2>3 DEF ReadComplete
<1>2. Lists' = M /\ Stacks' = Stacks
  BY <1>1, ThreadCut, StacksKept
<1>3. Lists \in ListsOf /\ Lists[<<"t", h>>] = thr[h].todo /\ <<"t", h>> \in Place
  BY ListsIs, PlaceIs
<1>4. Flow(txn, buf, Lists, Stacks, lock.thread) /\ Once(Lists)
  BY DEF CallsInv, Flow, QueueOK
<1>5. M \in ListsOf /\ Once(M) /\ \A m \in Place : Held(M, m) = Held(Lists, m) \ {Complete}
  BY <1>1, <1>3, <1>4, CutIs
<1>6. \A t \in Txns : /\ Same(txn, buf, txn, buf, t)
                      /\ \A m \in Place : t \in Held(M, m) <=> t \in Held(Lists, m)
  BY <1>5, CompleteAssumption DEF Same
<1>7. Flow(txn, buf, M, Stacks, lock.thread)
  <2>. HIDE DEF M
  <2>1. txn \in [Txns -> Txn]
    BY DEF TypeOK
  <2>2. \A t \in Txns \ {} : /\ Same(txn, buf, txn, buf, t)
                             /\ \A m \in Place : t \in Held(M, m) <=> t \in Held(Lists, m)
    BY <1>6
  <2>3. \A t \in {} \cap Txns : Aside(txn, buf, Lists, txn, buf, M, t)
    OBVIOUS
  <2>. QED
    BY <1>4, <1>5, <2>1, <2>2, <2>3, FlowSame
<1>8. Flow(txn, buf, Lists, Stacks, lock.thread)'
  BY <1>1, <1>2, <1>7
<1>9. ErrOK(txn, thr)' /\ BufsOK' /\ oops' \subseteq {"async flag"}
  BY <1>1, ZenonT(60) DEF CallsInv, ErrOK, BufsOK
<1>10. LockOK'
  BY <1>1, LockKept DEF ReadComplete, Running
<1>. QED
  BY <1>8, <1>9, <1>10 DEF CallsInv

\* binder_pop_transaction leaves the other transactions alone.
LEMMA SamePopped ==
    ASSUME NEW tx \in [Txns -> Txn], NEW bs \in [Bufs -> Buf], NEW P, NEW t \in Txns \ P
    PROVE  Same(tx, bs, Freed(tx, P), Detach(bs, tx, P), t)
<1>1. \A b \in Bufs : /\ Detach(bs, tx, P)[b].proc = bs[b].proc /\ Detach(bs, tx, P)[b].node = bs[b].node
                      /\ Detach(bs, tx, P)[b].async = bs[b].async
                      /\ Detach(bs, tx, P)[b].userFree = bs[b].userFree
  BY DEF Detach, Buf
<1>2. Freed(tx, P)[t] = tx[t] /\ tx[t].buffer \in Bufs \cup {NIL}
  BY DEF Freed, Txn
<1>. QED
  BY <1>1, <1>2 DEF Same

\* binder_release_work: the first item of a list is dropped, or fails.
Dropped(hs, l, w, x) ==
    /\ Flow(txn', buf', Cut(Lists, l), Stacks', x)
    /\ ErrOK(txn', thr')
    /\ oops' = oops
    /\ \A g \in Threads : /\ thr'[g].todo = hs[g].todo
                          /\ thr[g].stack = NIL => thr'[g] = hs[g]
    /\ IsCall(txn, buf, w) => FailReplied(txn, buf, hs, Cut(Lists, l), x, w, "BR_DEAD_REPLY")
    /\ ~IsCall(txn, buf, w) =>
         thr' = hs /\ txn' = Freed(txn, {w}) /\ buf' = Detach(buf, txn, {w})

LEMMA DropStep ==
    ASSUME TypeOK, NEW x, Flow(txn, buf, Lists, Stacks, x), ErrOK(txn, thr),
           NEW l \in Place, Lists[l] # <<>>, NEW w \in Txns, w = Head(Lists[l]),
           NEW hs \in [Threads -> Thread],
           \A g \in Threads : /\ hs[g].stack = thr[g].stack
                              /\ hs[g].err = thr[g].err /\ hs[g].err2 = thr[g].err2,
           Drop(hs, w)
    PROVE  Dropped(hs, l, w, x)
<1>. DEFINE M == Cut(Lists, l)
<1>1. QueueOK(txn, buf, Lists) /\ Lists \in ListsOf /\ Once(Lists)
  BY DEF Flow, QueueOK
<1>2. /\ M \in ListsOf /\ Once(M) /\ w \in Held(Lists, l)
      /\ \A m \in Place : Held(M, m) = Held(Lists, m) \ {w}
  BY <1>1, CutIs
<1>3. w \in Waiting(Lists)
  BY <1>2, HeldWaits
<1>4. txn[w].buffer # NIL /\ txn[w].live
  BY <1>1, <1>3, WaitingBuffer
<1>5. IsCall(txn, buf, w) <=> buf[txn[w].buffer].node # NIL /\ ~txn[w].oneway
  BY <1>4 DEF IsCall
<1>6. txn \in [Txns -> Txn] /\ buf \in [Bufs -> Buf] /\ thr \in [Threads -> Thread]
  BY DEF TypeOK
<1>7. ErrOK(txn, hs)
  BY DEF ErrOK
<1>8. \A g \in Threads : Stacks[g] = hs[g].stack
  BY DEF Stacks
<1>. HIDE DEF M
<1>9. CASE IsCall(txn, buf, w)
  <2>1. SendFailedReply(txn, buf, hs, w, "BR_DEAD_REPLY")
    BY <1>4, <1>5, <1>9 DEF Drop
  <2>2. Pending(txn, buf, Lists, Stacks, x, w)
    <3>1. w \in Unread(txn, buf, Lists) /\ w \in CallsOf(txn, buf)
      BY <1>3, <1>9 DEF Unread, CallsOf
    <3>2. Unread(txn, buf, Lists) \cup {w} = Unread(txn, buf, Lists)
      BY <3>1
    <3>3. Targets(Unread(txn, buf, Lists) \ {w}, txn, Stacks, ProcAt(txn, buf), x)
      BY DEF Flow, Targets, Pooled, Awaited
    <3>. QED
      BY <1>1, <3>1, <3>2, <3>3 DEF Pending, Flow, Woven
  <2>3. FailReplied(txn, buf, hs, M, x, w, "BR_DEAD_REPLY")
    BY <1>2, <1>6, <1>7, <1>8, <2>1, <2>2, FailReply
  <2>4. Answ(txn, w) \subseteq Txns
    BY DEF Answ, Anc
  <2>5. \A g \in Threads : /\ thr'[g].todo = hs[g].todo
                           /\ hs[g].stack = NIL => thr'[g] = hs[g]
    BY <2>3, <2>4, NilAssumption DEF FailReplied, ToldBy
  <2>. QED
    BY <1>9, <2>3, <2>5 DEF FailReplied, Dropped, M
<1>10. CASE ~IsCall(txn, buf, w)
  <2>1. thr' = hs /\ oops' = oops /\ txn' = Freed(txn, {w}) /\ buf' = Detach(buf, txn, {w})
    BY <1>4, <1>5, <1>10 DEF Drop
  <2>2. txn' \in [Txns -> Txn] /\ buf' \in [Bufs -> Buf]
    BY <1>6, <2>1, FreedType
  <2>3. \A t \in Txns \ {w} : Same(txn, buf, txn', buf', t)
    BY <1>6, <2>1, SamePopped
  <2>4. txn'[w] = NoTxn /\ w \notin Waiting(M)
    BY <1>2, <2>1 DEF Freed, Waiting
  <2>5. Aside(txn, buf, Lists, txn', buf', M, w)
    <3>1. ~IsCall(txn', buf', w)
      BY <2>4 DEF IsCall, NoTxn
    <3>2. TxnOK(txn', buf', Waiting(M), w)
      BY <2>4, <3>1 DEF TxnOK, NoTxn
    <3>3. \A m \in Place : w \notin Held(M, m)
      BY <1>2
    <3>. QED
      BY <1>10, <3>1, <3>2, <3>3 DEF Aside
  <2>6. \A g \in Threads : Stacks'[g] = Stacks[g]
    BY <2>1 DEF Stacks
  <2>7. Flow(txn', buf', M, Stacks', x)
    <3>1. \A t \in Txns \ {w} : /\ Same(txn, buf, txn', buf', t)
                                /\ \A m \in Place : t \in Held(M, m) <=> t \in Held(Lists, m)
      BY <1>2, <2>3
    <3>2. \A t \in {w} \cap Txns : Aside(txn, buf, Lists, txn', buf', M, t)
      BY <2>5
    <3>. QED
      BY <1>2, <1>6, <2>2, <2>6, <3>1, <3>2, FlowSame
  <2>8. ErrOK(txn', thr')
    <3>1. \A t \in Txns : txn'[t].from \in {NIL, txn[t].from}
      BY <2>1 DEF Freed, NoTxn
    <3>2. \A g \in Threads : g # NIL /\ hs[g].stack \in Txns \cup {NIL}
      BY NilAssumption DEF Thread
    <3>. QED
      BY <1>7, <2>1, <3>1, <3>2 DEF ErrOK
  <2>. QED
    BY <1>10, <2>1, <2>7, <2>8 DEF Dropped, M
<1>. QED
  BY <1>9, <1>10

LEMMA DetachOK ==
    ASSUME TypeOK, BufsOK,
           \A b \in Bufs : buf'[b] = buf[b] \/ buf'[b] = [buf[b] EXCEPT !.txn = NIL]
    PROVE  BufsOK'
<1>. SUFFICES ASSUME NEW b \in Bufs
              PROVE  /\ ~buf'[b].live => buf'[b] = NoBuf
                     /\ buf'[b].live /\ buf'[b].async => buf'[b].node # NIL /\ buf'[b].proc = Owner[buf'[b].node]
  BY DEF BufsOK
<1>1. buf'[b] = buf[b] \/ buf'[b] = [buf[b] EXCEPT !.txn = NIL]
  OBVIOUS
<1>2. buf[b] \in Buf
  BY DEF TypeOK
<1>3. /\ ~buf[b].live => buf[b] = NoBuf
      /\ buf[b].live /\ buf[b].async => buf[b].node # NIL /\ buf[b].proc = Owner[buf[b].node]
  BY DEF BufsOK
<1>. QED
  BY <1>1, <1>2, <1>3 DEF NoBuf, Buf

LEMMA LockLater ==
    ASSUME TypeOK, LockOK, lock' = lock,
           \A g \in Threads : /\ thr[g].stack = NIL => thr'[g].stack = NIL
                              /\ g # lock.thread /\ thr[g].todo = <<>> => thr'[g].todo = <<>>
    PROVE  LockOK' /\ lock'.thread = lock.thread
<1>1. lock.thread # NIL => thr'[lock.thread].stack = NIL
  <2>1. lock.thread \in Threads \cup {NIL}
    BY DEF TypeOK, Lock
  <2>. QED
    BY <2>1 DEF LockOK
<1>. QED
  BY <1>1 DEF LockOK

LEMMA DroppedOK ==
    ASSUME TypeOK, CallsInv, NEW hs, NEW l \in Place, NEW w, NEW x, Dropped(hs, l, w, x)
    PROVE  BufsOK' /\ oops' \subseteq {"async flag"}
<1>1. \E P : buf' = Detach(buf, txn, P)
  BY DEF Dropped, FailReplied
<1>2. \A b \in Bufs : buf'[b] = buf[b] \/ buf'[b] = [buf[b] EXCEPT !.txn = NIL]
  BY <1>1 DEF Detach
<1>. QED
  BY <1>2, DetachOK DEF CallsInv, Dropped

LEMMA ReleaseThreadWorkCalls ==
    ASSUME TypeOK, TypeOK', CallsInv, NEW h \in Threads, ReleaseThreadWork(h)
    PROVE  CallsInv'
<1>. DEFINE w == Head(thr[h].todo)
            hs == Dequeue(thr, h)
            l == <<"t", h>>
<1>1. /\ lock.thread = h /\ lock' = lock /\ thr[h].todo # <<>> /\ h # NIL
      /\ UNCHANGED <<ptodo, node>>
  BY NilAssumption DEF ReleaseThreadWork
<1>2. thr \in [Threads -> Thread] /\ hs \in [Threads -> Thread]
  BY <1>1, TodoType DEF TypeOK
<1>3. \A g \in Threads : /\ hs[g].stack = thr[g].stack
                         /\ hs[g].err = thr[g].err /\ hs[g].err2 = thr[g].err2
                         /\ hs[g].todo = IF g = h THEN Tail(thr[h].todo) ELSE thr[g].todo
  BY <1>2 DEF Dequeue, Thread
<1>4. Lists[l] = thr[h].todo /\ l \in Place /\ Lists \in ListsOf
  BY ListsIs, PlaceIs
<1>. HIDE DEF w, hs, l
<1>5. CASE w = Complete
  <2>1. thr' = hs /\ UNCHANGED <<txn, buf, oops>>
    BY <1>5 DEF ReleaseThreadWork, w, hs
  <2>2. Lists' = Cut(Lists, l) /\ Stacks' = Stacks
    BY <1>1, <1>3, <2>1, ThreadCut, StacksKept DEF l
  <2>3. Flow(txn, buf, Lists, Stacks, lock.thread) /\ Once(Lists)
    BY DEF CallsInv, Flow, QueueOK
  <2>. DEFINE M == Cut(Lists, l)
  <2>4. M \in ListsOf /\ Once(M) /\ \A m \in Place : Held(M, m) = Held(Lists, m) \ {Complete}
    BY <1>1, <1>4, <1>5, <2>3, CutIs DEF w
  <2>. HIDE DEF M
  <2>5. Flow(txn, buf, M, Stacks, lock.thread)
    <3>1. \A t \in Txns \ {} : /\ Same(txn, buf, txn, buf, t)
                               /\ \A m \in Place : t \in Held(M, m) <=> t \in Held(Lists, m)
      BY <2>4, CompleteAssumption DEF Same
    <3>2. \A t \in {} \cap Txns : Aside(txn, buf, Lists, txn, buf, M, t)
      OBVIOUS
    <3>3. txn \in [Txns -> Txn]
      BY DEF TypeOK
    <3>. QED
      BY <2>3, <2>4, <3>1, <3>2, <3>3, FlowSame
  <2>6. Flow(txn, buf, Lists, Stacks, lock.thread)'
    BY <1>1, <2>1, <2>2, <2>5 DEF M
  <2>7. ErrOK(txn, thr)' /\ BufsOK' /\ oops' \subseteq {"async flag"}
    BY <1>3, <2>1, ZenonT(60) DEF CallsInv, ErrOK, BufsOK
  <2>8. LockOK'
    BY <1>1, <1>3, <2>1, LockLater DEF CallsInv
  <2>. QED
    BY <2>6, <2>7, <2>8 DEF CallsInv
<1>6. CASE w # Complete
  <2>1. w \in Txns /\ Drop(hs, w)
    BY <1>1, <1>2, <1>6, TodoType DEF ReleaseThreadWork, w, hs
  <2>2. Dropped(hs, l, w, lock.thread)
    BY <1>1, <1>2, <1>3, <1>4, <2>1, DropStep DEF CallsInv, w
  <2>3. \A g \in Threads : /\ thr'[g].todo = IF g = h THEN Tail(thr[h].todo) ELSE thr[g].todo
                           /\ thr[g].stack = NIL => thr'[g].stack = NIL
    BY <1>3, <2>2 DEF Dropped
  <2>4. Lists' = Cut(Lists, l)
    BY <1>1, <2>3, ThreadCut DEF l
  <2>5. LockOK' /\ lock'.thread = lock.thread
    BY <1>1, <2>3, LockLater DEF CallsInv
  <2>. QED
    BY <1>4, <2>2, <2>4, <2>5, DroppedOK DEF Dropped, CallsInv
<1>. QED
  BY <1>5, <1>6

LEMMA ReleaseNodeWorkCalls ==
    ASSUME TypeOK, TypeOK', CallsInv, NEW n \in Nodes, ReleaseNodeWork(n)
    PROVE  CallsInv'
<1>. DEFINE w == Head(node[n].todo)
            l == <<"n", n>>
<1>1. /\ lock' = lock /\ node[n].todo # <<>> /\ Drop(thr, w)
      /\ ptodo' = ptodo /\ node' = [node EXCEPT ![n].todo = Tail(@)]
  BY DEF ReleaseNodeWork
<1>2. thr \in [Threads -> Thread] /\ w \in Txns
  BY <1>1 DEF TypeOK
<1>3. Lists[l] = node[n].todo /\ l \in Place
  BY ListsIs, PlaceIs
<1>. HIDE DEF w, l
<1>4. Dropped(thr, l, w, lock.thread)
  BY <1>1, <1>2, <1>3, DropStep DEF CallsInv, w
<1>5. \A g \in Threads : thr'[g].todo = thr[g].todo /\ (thr[g].stack = NIL => thr'[g].stack = NIL)
  BY <1>4 DEF Dropped
<1>6. Lists' = Cut(Lists, l)
  BY <1>1, <1>5, NodeCut DEF l
<1>7. LockOK' /\ lock'.thread = lock.thread
  BY <1>1, <1>5, LockLater DEF CallsInv
<1>. QED
  BY <1>3, <1>4, <1>6, <1>7, DroppedOK DEF Dropped, CallsInv

LEMMA ReleaseProcWorkCalls ==
    ASSUME TypeOK, TypeOK', CallsInv, NEW p \in Procs, ReleaseProcWork(p)
    PROVE  CallsInv'
<1>. DEFINE w == Head(ptodo[p])
            l == <<"p", p>>
<1>1. /\ lock' = lock /\ ptodo[p] # <<>> /\ Drop(thr, w)
      /\ node' = node /\ ptodo' = [ptodo EXCEPT ![p] = Tail(@)]
  BY DEF ReleaseProcWork
<1>2. thr \in [Threads -> Thread] /\ w \in Txns
  BY <1>1 DEF TypeOK
<1>3. Lists[l] = ptodo[p] /\ l \in Place
  BY ListsIs, PlaceIs
<1>. HIDE DEF w, l
<1>4. Dropped(thr, l, w, lock.thread)
  BY <1>1, <1>2, <1>3, DropStep DEF CallsInv, w
<1>5. \A g \in Threads : thr'[g].todo = thr[g].todo /\ (thr[g].stack = NIL => thr'[g].stack = NIL)
  BY <1>4 DEF Dropped
<1>6. Lists' = Cut(Lists, l)
  BY <1>1, <1>5, ProcCut DEF l
<1>7. LockOK' /\ lock'.thread = lock.thread
  BY <1>1, <1>5, LockLater DEF CallsInv
<1>. QED
  BY <1>3, <1>4, <1>6, <1>7, DroppedOK DEF Dropped, CallsInv

\* No call is queued for a thread without work.
LEMMA NoneAwaited ==
    ASSUME TypeOK, NEW x, Flow(txn, buf, Lists, Stacks, x), NEW h \in Threads, thr[h].todo = <<>>,
           NEW t \in Unread(txn, buf, Lists)
    PROVE  txn[t].toThread # h
<1>1. PICK l \in Place : t \in Held(Lists, l)
  BY DEF Unread, Waiting
<1>2. Fits(txn, buf, l, t) /\ ~txn[t].oneway
  BY <1>1 DEF Flow, QueueOK, Unread, CallsOf, IsCall
<1>3. CASE \E g \in Threads : l = <<"t", g>>
  <2>1. PICK g \in Threads : l = <<"t", g>>
    BY <1>3
  <2>2. Lists[l] = thr[g].todo
    BY <2>1, ListsIs
  <2>3. g # h
    BY <1>1, <2>2 DEF Held
  <2>. QED
    BY <1>2, <2>1, <2>3 DEF Fits
<1>4. CASE \E p \in Procs : l = <<"p", p>>
  BY <1>2, <1>4, NilAssumption DEF Fits
<1>5. CASE \E n \in Nodes : l = <<"n", n>>
  BY <1>2, <1>5 DEF Fits
<1>. QED
  BY <1>3, <1>4, <1>5, PlaceIs

LEMMA ThreadFreedCalls ==
    ASSUME TypeOK, TypeOK', CallsInv, NEW h \in Threads, ThreadFreed(h)
    PROVE  CallsInv'
<1>1. /\ lock.thread = h /\ thr[h].todo = <<>> /\ h # NIL
      /\ thr' = [thr EXCEPT ![h] = NewThread]
      /\ lock' = IF lock.proc = NIL THEN Unlocked ELSE [lock EXCEPT !.thread = NIL]
      /\ UNCHANGED <<proc, ptodo, node, txn, buf, orphaned, oops>>
  BY NilAssumption DEF ThreadFreed
<1>2. thr[h].stack = NIL /\ lock \in Lock
  BY <1>1 DEF CallsInv, LockOK, TypeOK
<1>3. \A g \in Threads : /\ thr'[g].stack = thr[g].stack /\ thr'[g].todo = thr[g].todo
                         /\ thr'[g] = thr[g] \/ thr'[g].err2 = "BR_OK"
  BY <1>1, <1>2 DEF NewThread, TypeOK
<1>4. Lists' = Lists /\ Stacks' = Stacks
  BY <1>1, <1>3, ListsKept, StacksKept
<1>5. Flow(txn, buf, Lists, Stacks, h)
  BY <1>1 DEF CallsInv
<1>6. lock'.thread = NIL
  BY <1>1, <1>2 DEF Unlocked, Lock
<1>7. Flow(txn, buf, Lists, Stacks, NIL)
  <2>1. \A t \in Unread(txn, buf, Lists) : txn[t].toThread # h
    BY <1>1, <1>5, NoneAwaited
  <2>2. Awaited(Unread(txn, buf, Lists), txn, Stacks, h)
    BY <2>1 DEF Awaited
  <2>. QED
    BY <1>5, <2>2 DEF Flow, Targets
<1>8. Flow(txn, buf, Lists, Stacks, lock.thread)'
  BY <1>1, <1>4, <1>6, <1>7
<1>9. ErrOK(txn, thr)' /\ BufsOK' /\ oops' \subseteq {"async flag"}
  <2>1. \A g \in Threads : thr[g].err2 # "BR_OK" =>
          thr[g].err # "BR_OK" /\ (thr[g].stack # NIL => txn[thr[g].stack].from # g)
    BY DEF CallsInv, ErrOK
  <2>2. \A g \in Threads : thr'[g].err2 # "BR_OK" => thr'[g] = thr[g]
    BY <1>3
  <2>3. ErrOK(txn', thr')
    BY <1>1, <2>1, <2>2 DEF ErrOK
  <2>4. BufsOK' /\ oops' \subseteq {"async flag"}
    BY <1>1 DEF CallsInv, BufsOK
  <2>. QED
    BY <2>3, <2>4
<1>10. LockOK'
  <2>1. CASE lock.proc = NIL
    BY <1>1, <2>1, LockFree
  <2>2. CASE lock.proc # NIL
    <3>1. LockOK
      BY DEF CallsInv
    <3>2. /\ lock'.held = lock.held /\ lock'.proc = lock.proc /\ lock'.thread = NIL /\ lock'.left = lock.left
          /\ NIL \notin lock.left
      BY <1>1, <1>2, <2>2, NilAssumption DEF Lock
    <3>3. lock.held
      BY <1>1, <3>1 DEF LockOK, Unlocked
    <3>4. \A g \in Threads : ProcOf[g] = lock.proc /\ g \notin lock.left =>
             thr'[g].stack = NIL /\ thr'[g].todo = <<>>
      BY <1>1, <1>2, <1>3, <2>2, <3>1 DEF LockOK
    <3>5. \A g \in lock.left \cup ({NIL} \ {NIL}) : ProcOf[g] = lock.proc
      BY <2>2, <3>1 DEF LockOK
    <3>. QED
      BY <2>2, <3>2, <3>3, <3>4, <3>5 DEF LockOK
  <2>. QED
    BY <2>1, <2>2
<1>. QED
  BY <1>8, <1>9, <1>10 DEF CallsInv

\* A released process has no transaction left that points to a buffer of its.
LEMMA NoneOutlives ==
    ASSUME TypeOK, BufferPointersAgree, CallsInv, NEW p \in Procs, Releasing(p), ptodo[p] = <<>>,
           \A n \in Nodes : Owner[n] = p => node[n].todo = <<>>,
           NEW b \in Bufs, buf[b].live, buf[b].proc = p
    PROVE  buf[b].txn = NIL
<1>. SUFFICES ASSUME buf[b].txn # NIL PROVE FALSE
  OBVIOUS
<1>. DEFINE t == buf[b].txn
            C == CallsOf(txn, buf)
            Q == Unread(txn, buf, Lists)
<1>1. t \in Txns /\ txn[t].buffer = b /\ txn[t].live /\ b # NIL
  BY NilAssumption DEF BufferPointersAgree, PointersAgree, TypeOK, Buf
<1>2. /\ QueueOK(txn, buf, Lists) /\ Shape(C, Q, txn, Stacks)
  BY DEF CallsInv, Flow, Woven
<1>3. \A h \in Threads : ProcOf[h] = p => thr[h].stack = NIL /\ thr[h].todo = <<>>
  BY NilAssumption DEF CallsInv, LockOK, Releasing
<1>. HIDE DEF t, C
<1>4. t \notin Waiting(Lists)
  <2>. SUFFICES ASSUME NEW l \in Place, t \in Held(Lists, l) PROVE FALSE
    BY DEF Waiting
  <2>1. Fits(txn, buf, l, t) /\ Lists[l] # <<>>
    BY <1>2 DEF QueueOK, Held
  <2>2. CASE \E g \in Threads : l = <<"t", g>>
    BY <1>1, <1>3, <2>1, <2>2, ListsIs DEF Fits
  <2>3. CASE \E q \in Procs : l = <<"p", q>>
    BY <1>1, <2>1, <2>3, ListsIs DEF Fits
  <2>4. CASE \E n \in Nodes : l = <<"n", n>>
    BY <1>1, <2>1, <2>4, ListsIs DEF Fits
  <2>. QED
    BY <2>2, <2>3, <2>4, PlaceIs
<1>5. IsCall(txn, buf, t) /\ txn[t].toThread # NIL /\ p = ProcOf[txn[t].toThread]
  <2>1. TxnOK(txn, buf, Waiting(Lists), t)
    BY <1>1, <1>2 DEF QueueOK
  <2>. QED
    BY <1>1, <1>4, <2>1 DEF TxnOK
<1>6. txn[t].toThread \in Threads
  BY <1>1, <1>5 DEF TypeOK, Txn
<1>7. t \in Mem(C, Q, txn, txn[t].toThread)
  BY <1>1, <1>4, <1>5 DEF Mem, Unread, C, CallsOf
<1>8. Stacks[txn[t].toThread] = NIL
  BY <1>3, <1>5, <1>6 DEF Stacks
<1>9. t \in Anc(txn, NIL)
  BY <1>2, <1>6, <1>7, <1>8 DEF Shape, Topped
<1>. QED
  BY <1>9, AncNil

LEMMA ReleaseProcCalls ==
    ASSUME TypeOK, TypeOK', BufferPointersAgree, CallsInv, NEW p \in Procs, ReleaseProc(p)
    PROVE  CallsInv'
<1>. DEFINE gone == {b \in Bufs : buf[b].live /\ buf[b].proc = p}
            left == {buf[b].txn : b \in gone} \ {NIL}
<1>1. /\ Releasing(p) /\ ptodo[p] = <<>>
      /\ \A n \in Nodes : Owner[n] = p => node[n].todo = <<>>
      /\ txn' = [t \in Txns |-> IF t \in left THEN [txn[t] EXCEPT !.buffer = NIL] ELSE txn[t]]
      /\ buf' = [b \in Bufs |-> IF b \in gone THEN NoBuf ELSE buf[b]]
      /\ node' = [n \in Nodes |-> IF Owner[n] = p THEN [async |-> FALSE, todo |-> <<>>] ELSE node[n]]
      /\ oops' = oops \cup (IF left # {} THEN {"outlives release"} ELSE {})
      /\ lock' = Unlocked
      /\ UNCHANGED <<thr, ptodo>>
  BY DEF ReleaseProc
<1>2. \A b \in gone : buf[b].txn = NIL
  BY <1>1, NoneOutlives
<1>3. left = {}
  BY <1>2
<1>. HIDE DEF left
<1>4. txn' = txn /\ oops' = oops
  BY <1>1, <1>3 DEF TypeOK
<1>5. Lists' = Lists /\ Stacks' = Stacks
  BY <1>1, ListsKept, StacksKept
<1>6. Flow(txn, buf, Lists, Stacks, NIL)
  BY <1>1 DEF CallsInv, Releasing
<1>7. \A t \in Txns \ {} : /\ Same(txn, buf, txn', buf', t)
                           /\ \A m \in Place : t \in Held(Lists, m) <=> t \in Held(Lists, m)
  <2>. SUFFICES ASSUME NEW t \in Txns, txn[t].buffer # NIL PROVE txn[t].buffer \in Bufs \ gone
    BY <1>1, <1>4 DEF Same
  <2>1. txn[t].buffer \in Bufs /\ buf[txn[t].buffer].txn = t /\ t # NIL
    BY NilAssumption DEF BufferPointersAgree, PointersAgree, TypeOK, Txn
  <2>. QED
    BY <1>2, <2>1
<1>8. \A t \in {} \cap Txns : Aside(txn, buf, Lists, txn', buf', Lists, t)
  OBVIOUS
<1>9. Flow(txn', buf', Lists, Stacks, NIL)
  <2>1. Lists \in ListsOf /\ Once(Lists)
    BY <1>6 DEF Flow, QueueOK
  <2>2. txn \in [Txns -> Txn] /\ txn' \in [Txns -> Txn]
    BY DEF TypeOK
  <2>. QED
    BY <1>6, <1>7, <1>8, <2>1, <2>2, FlowSame
<1>10. LockOK' /\ lock'.thread = NIL
  BY <1>1, LockFree
<1>11. BufsOK'
  <2>. SUFFICES ASSUME NEW b \in Bufs
                PROVE  /\ ~buf'[b].live => buf'[b] = NoBuf
                       /\ buf'[b].live /\ buf'[b].async =>
                            buf'[b].node # NIL /\ buf'[b].proc = Owner[buf'[b].node]
    BY DEF BufsOK
  <2>1. buf'[b] = NoBuf \/ buf'[b] = buf[b]
    BY <1>1
  <2>2. ~NoBuf.live
    BY DEF NoBuf
  <2>3. /\ ~buf[b].live => buf[b] = NoBuf
        /\ buf[b].live /\ buf[b].async => buf[b].node # NIL /\ buf[b].proc = Owner[buf[b].node]
    BY DEF CallsInv, BufsOK
  <2>. QED
    BY <2>1, <2>2, <2>3
<1>12. ErrOK(txn, thr)' /\ oops' \subseteq {"async flag"}
  BY <1>1, <1>4 DEF CallsInv, ErrOK
<1>. QED
  BY <1>5, <1>9, <1>10, <1>11, <1>12 DEF CallsInv

\* The walk of binder_free_thread over the stack of thread h.
Unlinked(h) ==
    [t \in Txns |->
       IF t \notin OnStack(h) THEN txn[t]
       ELSE IF Incoming(h, t) THEN [txn[t] EXCEPT !.toThread = NIL, !.buffer = NIL]
       ELSE [txn[t] EXCEPT !.from = NIL]]
Unbound(h) == Detach(buf, txn, {t \in OnStack(h) : Incoming(h, t)})
Bare(h) == [thr EXCEPT ![h].stack = NIL]

Serving(h) == thr[h].stack # NIL /\ Incoming(h, thr[h].stack)

Emptied(h) ==
    /\ Flow(txn', buf', Lists, Stacks', h)
    /\ ErrOK(txn', thr')
    /\ oops' = oops
    /\ thr'[h].stack = NIL
    /\ \A g \in Threads : /\ thr'[g].todo = thr[g].todo
                          /\ thr[g].stack = NIL => thr'[g].stack = NIL
    /\ \A b \in Bufs : buf'[b] = buf[b] \/ buf'[b] = [buf[b] EXCEPT !.txn = NIL]
    /\ Serving(h) =>
         FailReplied(Unlinked(h), Unbound(h), Bare(h), Lists, h, thr[h].stack, "BR_DEAD_REPLY")
    /\ ~Serving(h) => txn' = Unlinked(h) /\ buf' = Unbound(h) /\ thr' = Bare(h)

LEMMA FreeStackStep ==
    ASSUME TypeOK, Flow(txn, buf, Lists, Stacks, NIL), ErrOK(txn, thr),
           NEW h \in Threads, FreeStack(h)
    PROVE  Emptied(h)
<1>. DEFINE C == CallsOf(txn, buf)
            Q == Unread(txn, buf, Lists)
            W == OnStack(h)
            tx == Unlinked(h)
            bs == Unbound(h)
            hs == Bare(h)
            su == [g \in Threads |-> hs[g].stack]
            top == thr[h].stack
            R == IF Serving(h) THEN Q \cup {top} ELSE Q
<1>1. /\ QueueOK(txn, buf, Lists) /\ Woven(C, Q, txn, Stacks)
      /\ Targets(Q, txn, Stacks, ProcAt(txn, buf), NIL) /\ Shape(C, Q, txn, Stacks)
      /\ Lists \in ListsOf /\ Once(Lists) /\ C \subseteq Txns /\ Q \subseteq C
  BY DEF Flow, Woven, QueueOK, CallsOf, Unread
<1>2. /\ txn \in [Txns -> Txn] /\ buf \in [Bufs -> Buf] /\ thr \in [Threads -> Thread]
      /\ h # NIL /\ NIL \notin Txns
  BY NilAssumption DEF TypeOK
<1>3. W = Mem(C, Q, txn, h)
  <2>1. Stacks[h] = thr[h].stack
    BY DEF Stacks
  <2>. QED
    BY <1>1, <2>1, OnStackIs
<1>4. \A t \in W : /\ t \in C /\ IsCall(txn, buf, t)
                   /\ Incoming(h, t) => t \notin Q /\ txn[t].from # h
                   /\ ~Incoming(h, t) => txn[t].from = h
  <2>1. \A t \in W : t \in C /\ (txn[t].from = h \/ (txn[t].toThread = h /\ t \notin Q))
    BY <1>3 DEF Mem
  <2>2. Elsewhere(C, txn)
    BY <1>1 DEF Shape
  <2>3. \A t \in C : IsCall(txn, buf, t)
    BY DEF CallsOf
  <2>. QED
    BY <1>2, <2>1, <2>2, <2>3 DEF Elsewhere, Incoming
<1>5. {t \in W : ~Incoming(h, t) /\ txn[t].from # h} = {}
  BY <1>4
<1>6. IF Serving(h) THEN SendFailedReply(tx, bs, hs, top, "BR_DEAD_REPLY")
      ELSE txn' = tx /\ buf' = bs /\ thr' = hs /\ oops' = oops
  BY <1>5 DEF FreeStack, Serving, Unlinked, Unbound, Bare
<1>7. \A t \in Txns : /\ t \notin W => tx[t] = txn[t]
                      /\ t \in W /\ Incoming(h, t) =>
                           tx[t] = [txn[t] EXCEPT !.toThread = NIL, !.buffer = NIL]
                      /\ t \in W /\ ~Incoming(h, t) => tx[t] = [txn[t] EXCEPT !.from = NIL]
  BY DEF Unlinked
<1>8. \A b \in Bufs : bs[b] = buf[b] \/ bs[b] = [buf[b] EXCEPT !.txn = NIL]
  BY DEF Unbound, Detach
<1>9. \A g \in Threads : hs[g] = IF g = h THEN [thr[h] EXCEPT !.stack = NIL] ELSE thr[g]
  BY <1>2 DEF Bare
<1>. HIDE DEF C, Q, W, tx, bs, hs
<1>10. tx \in [Txns -> Txn] /\ bs \in [Bufs -> Buf] /\ hs \in [Threads -> Thread]
  <2>1. \A t \in Txns : tx[t] \in Txn
    <3>1. \A t \in Txns : txn[t] \in Txn
      BY <1>2
    <3>2. \A r \in Txn : [r EXCEPT !.toThread = NIL, !.buffer = NIL] \in Txn /\ [r EXCEPT !.from = NIL] \in Txn
      BY DEF Txn
    <3>. QED
      BY <1>7, <3>1, <3>2, ZenonT(60)
  <2>2. tx = [t \in Txns |-> tx[t]]
    BY DEF tx, Unlinked
  <2>3. bs \in [Bufs -> Buf]
    BY <1>2, FreedType DEF bs, Unbound
  <2>4. \A g \in Threads : hs[g] \in Thread
    BY <1>2, <1>9, ZenonT(60) DEF Thread
  <2>5. hs = [g \in Threads |-> hs[g]]
    BY <1>2 DEF hs, Bare
  <2>. QED
    BY <2>1, <2>2, <2>3, <2>4, <2>5
<1>11. \A t \in Txns : LET r == txn[t] IN
          /\ tx[t].live = r.live /\ tx[t].oneway = r.oneway
          /\ tx[t].fromParent = r.fromParent /\ tx[t].toParent = r.toParent
          /\ tx[t].from = IF t \in W /\ ~Incoming(h, t) THEN NIL ELSE r.from
          /\ tx[t].toThread = IF t \in W /\ Incoming(h, t) THEN NIL ELSE r.toThread
          /\ tx[t].buffer = IF t \in W /\ Incoming(h, t) THEN NIL ELSE r.buffer
  <2>. SUFFICES ASSUME NEW t \in Txns
                PROVE  LET r == txn[t] IN
                       /\ tx[t].live = r.live /\ tx[t].oneway = r.oneway
                       /\ tx[t].fromParent = r.fromParent /\ tx[t].toParent = r.toParent
                       /\ tx[t].from = IF t \in W /\ ~Incoming(h, t) THEN NIL ELSE r.from
                       /\ tx[t].toThread = IF t \in W /\ Incoming(h, t) THEN NIL ELSE r.toThread
                       /\ tx[t].buffer = IF t \in W /\ Incoming(h, t) THEN NIL ELSE r.buffer
    OBVIOUS
  <2>1. txn[t] \in Txn
    BY <1>2
  <2>. QED
    BY <1>7, <2>1 DEF Txn
<1>12. \A b \in Bufs : /\ bs[b].proc = buf[b].proc /\ bs[b].node = buf[b].node
                       /\ bs[b].async = buf[b].async /\ bs[b].userFree = buf[b].userFree
  <2>. SUFFICES ASSUME NEW b \in Bufs
                PROVE  /\ bs[b].proc = buf[b].proc /\ bs[b].node = buf[b].node
                       /\ bs[b].async = buf[b].async /\ bs[b].userFree = buf[b].userFree
    OBVIOUS
  <2>1. buf[b] \in Buf /\ (bs[b] = buf[b] \/ bs[b] = [buf[b] EXCEPT !.txn = NIL])
    BY <1>2, <1>8
  <2>. QED
    BY ONLY <2>1 DEF Buf
<1>13. \A t \in Txns : txn[t].buffer \in Bufs \cup {NIL}
  BY <1>2 DEF Txn
<1>14. Leaves(C, Q, txn, h, tx)
  BY <1>1, <1>3, <1>11 DEF Leaves, Incoming
<1>15. \A t \in Txns \ W : Same(txn, buf, tx, bs, t)
  BY <1>7, <1>12, <1>13 DEF Same
<1>16. ASSUME NEW t \in W
       PROVE  /\ TxnOK(tx, bs, Waiting(Lists), t) /\ IsCall(tx, bs, t)
              /\ \A m \in Place : t \in Held(Lists, m) => Fits(tx, bs, m, t)
  <2>1. t \in Txns /\ t \in C /\ IsCall(txn, buf, t) /\ TxnOK(txn, buf, Waiting(Lists), t)
    BY <1>1, <1>4 DEF QueueOK
  <2>2. CASE Incoming(h, t)
    <3>1. t \notin Waiting(Lists)
      BY <1>4, <2>1, <2>2 DEF Q, C, Unread
    <3>2. tx[t].buffer = NIL /\ tx[t].live /\ ~tx[t].oneway
      BY <1>11, <2>1, <2>2 DEF IsCall
    <3>3. IsCall(tx, bs, t)
      BY <3>2 DEF IsCall
    <3>4. TxnOK(tx, bs, Waiting(Lists), t)
      BY <3>1, <3>2, <3>3 DEF TxnOK
    <3>5. \A m \in Place : t \notin Held(Lists, m)
      BY <3>1, HeldWaits
    <3>. QED
      BY <3>3, <3>4, <3>5
  <2>3. CASE ~Incoming(h, t)
    <3>1. /\ tx[t].live = txn[t].live /\ tx[t].oneway = txn[t].oneway /\ tx[t].buffer = txn[t].buffer
          /\ tx[t].fromParent = txn[t].fromParent /\ tx[t].toParent = txn[t].toParent
          /\ tx[t].from = NIL /\ tx[t].toThread = txn[t].toThread
      BY <1>11, <2>1, <2>3
    <3>2. txn[t].buffer # NIL => LET b == txn[t].buffer IN
             /\ bs[b].proc = buf[b].proc /\ bs[b].node = buf[b].node
             /\ bs[b].async = buf[b].async /\ bs[b].userFree = buf[b].userFree
      BY <1>12, <1>13, <2>1
    <3>3. IsCall(tx, bs, t)
      BY <2>1, <3>1, <3>2 DEF IsCall
    <3>4. TxnOK(tx, bs, Waiting(Lists), t)
      BY <2>1, <3>1, <3>2, <3>3 DEF TxnOK, IsCall
    <3>5. \A m \in Place : t \in Held(Lists, m) => Fits(txn, buf, m, t)
      BY <1>1 DEF QueueOK
    <3>6. \A m \in Place : t \in Held(Lists, m) => Fits(tx, bs, m, t)
      BY <3>1, <3>2, <3>5 DEF Fits
    <3>. QED
      BY <3>3, <3>4, <3>6
  <2>. QED
    BY <2>2, <2>3
<1>17. Kept(txn, buf, Lists, tx, bs, Lists, W)
  <2>1. \A t \in W \cap Txns : /\ TxnOK(tx, bs, Waiting(Lists), t)
                               /\ \A m \in Place : t \in Held(Lists, m) => Fits(tx, bs, m, t)
    BY <1>16
  <2>2. \A t \in Txns \ W : /\ Same(txn, buf, tx, bs, t)
                            /\ \A m \in Place : t \in Held(Lists, m) <=> t \in Held(Lists, m)
    BY <1>15
  <2>. QED
    BY <1>1, <2>1, <2>2, QueueStep
<1>18. CallsOf(tx, bs) = C /\ QueueOK(tx, bs, Lists)
  <2>1. \A t \in W : t \in CallsOf(tx, bs) /\ t \in C
    BY <1>1, <1>4, <1>16 DEF CallsOf
  <2>2. CallsOf(tx, bs) \subseteq Txns
    BY DEF CallsOf
  <2>3. \A t \in Txns \ W : t \in CallsOf(tx, bs) <=> t \in C
    BY <1>17 DEF Kept, C
  <2>. QED
    BY <1>1, <1>17, <2>1, <2>2, <2>3 DEF Kept
<1>19. Unread(tx, bs, Lists) = Q
  BY <1>18 DEF Unread, Q, C
<1>20. \A t \in Q : ProcAt(tx, bs)[t] = ProcAt(txn, buf)[t]
  <2>. SUFFICES ASSUME NEW t \in Q PROVE ProcAt(tx, bs)[t] = ProcAt(txn, buf)[t]
    OBVIOUS
  <2>1. t \in Txns /\ ~(t \in W /\ Incoming(h, t)) /\ t \in Waiting(Lists)
    BY <1>1, <1>4 DEF Q, Unread
  <2>2. tx[t].buffer = txn[t].buffer /\ txn[t].buffer # NIL
    BY <1>1, <1>11, <2>1, WaitingBuffer
  <2>. QED
    BY <1>12, <1>13, <2>1, <2>2 DEF ProcAt
<1>21. \A g \in Threads : su[g] = IF g = h THEN NIL ELSE Stacks[g]
  BY <1>2, <1>9 DEF Stacks, Thread
<1>22. \A g \in Threads : su[g] = hs[g].stack
  OBVIOUS
<1>. HIDE DEF su
<1>23. Woven(C, R, tx, su) /\ Targets(Q, tx, su, ProcAt(tx, bs), h)
  <2>1. R = IF Stacks[h] # NIL /\ txn[Stacks[h]].toThread = h THEN Q \cup {Stacks[h]} ELSE Q
    BY DEF Serving, Incoming, Stacks
  <2>. HIDE DEF R
  <2>. DEFINE pr == ProcAt(txn, buf)
              pq == ProcAt(tx, bs)
  <2>2. \A t \in Q : pq[t] = pr[t]
    BY <1>20
  <2>. HIDE DEF pr, pq
  <2>3. Woven(C, Q, txn, Stacks) /\ Targets(Q, txn, Stacks, pr, NIL)
    BY <1>1 DEF pr
  <2>4. WovenWithout(C, Q, txn, Stacks, pr, h, tx, R, su, pq)
    BY <1>2, <1>10, <1>14, <1>21, <2>1, <2>2, <2>3, WovenLeave
  <2>. QED
    BY <2>4 DEF WovenWithout, pq
<1>24. ErrOK(tx, hs)
  <2>. SUFFICES ASSUME NEW g \in Threads, hs[g].err2 # "BR_OK"
                PROVE  hs[g].err # "BR_OK" /\ (hs[g].stack # NIL => tx[hs[g].stack].from # g)
    BY DEF ErrOK
  <2>1. CASE g = h
    BY <1>2, <1>9, <2>1 DEF ErrOK, Thread
  <2>2. CASE g # h
    <3>1. hs[g] = thr[g] /\ g # NIL /\ thr[g].stack \in Txns \cup {NIL}
      BY <1>2, <1>9, <2>2, NilAssumption DEF Thread
    <3>. QED
      BY <1>11, <3>1 DEF ErrOK
  <2>. QED
    BY <2>1, <2>2
<1>25. /\ \A g \in Threads : hs[g].todo = thr[g].todo
       /\ hs[h].stack = NIL /\ \A g \in Threads : thr[g].stack = NIL => hs[g].stack = NIL
  BY <1>2, <1>9, ZenonT(60) DEF Thread
<1>26. CASE Serving(h)
  <2>1. SendFailedReply(tx, bs, hs, top, "BR_DEAD_REPLY")
    BY <1>6, <1>26
  <2>2. top \in W /\ top \in C /\ top \notin Q /\ top \in Txns
    <3>1. top \in Mem(C, Q, txn, h)
      BY <1>1, <1>26 DEF Shape, Topped, Serving, Stacks
    <3>. QED
      BY <1>1, <1>3, <1>4, <1>26, <3>1 DEF Serving
  <2>3. top \notin Waiting(Lists)
    BY <2>2 DEF Q, C, Unread
  <2>4. Pending(tx, bs, Lists, su, h, top)
    <3>1. (Q \cup {top}) \ {top} = Q /\ R = Q \cup {top}
      BY <1>26, <2>2
    <3>. QED
      BY <1>18, <1>19, <1>23, <2>2, <3>1 DEF Pending, Woven
  <2>5. \A m \in Place : Held(Lists, m) = Held(Lists, m) \ {top}
    BY <2>3, HeldWaits
  <2>6. FailReplied(tx, bs, hs, Lists, h, top, "BR_DEAD_REPLY")
    <3>. HIDE DEF top
    <3>1. "BR_DEAD_REPLY" # "BR_OK"
      OBVIOUS
    <3>. QED
      BY <1>1, <1>10, <1>22, <1>24, <2>1, <2>4, <2>5, <3>1, FailReply
  <2>7. Answ(tx, top) \subseteq Txns
    BY DEF Answ, Anc
  <2>8. \A g \in Threads : thr'[g].todo = hs[g].todo /\ (hs[g].stack = NIL => thr'[g] = hs[g])
    BY <1>2, <2>6, <2>7 DEF FailReplied, ToldBy
  <2>9. \A b \in Bufs : buf'[b] = buf[b] \/ buf'[b] = [buf[b] EXCEPT !.txn = NIL]
    <3>1. \A b \in Bufs : buf'[b] = bs[b] \/ buf'[b] = [bs[b] EXCEPT !.txn = NIL]
      BY <2>6 DEF FailReplied, Detach
    <3>. QED
      BY <1>2, <1>8, <3>1 DEF Buf
  <2>. QED
    BY <1>25, <1>26, <2>6, <2>8, <2>9 DEF Emptied, FailReplied, tx, bs, hs
<1>27. CASE ~Serving(h)
  <2>1. txn' = tx /\ buf' = bs /\ thr' = hs /\ oops' = oops
    BY <1>6, <1>27
  <2>2. Stacks' = su
    BY <2>1 DEF Stacks, su
  <2>3. Flow(tx, bs, Lists, su, h)
    BY <1>18, <1>19, <1>23, <1>27 DEF Flow
  <2>. QED
    BY <1>8, <1>24, <1>25, <1>27, <2>1, <2>2, <2>3 DEF Emptied, tx, bs, hs
<1>. QED
  BY <1>26, <1>27

LEMMA EmptiedCalls ==
    ASSUME TypeOK, TypeOK', CallsInv, NEW h \in Threads, Emptied(h),
           UNCHANGED <<ptodo, node>>, lock'.thread = h, LockOK'
    PROVE  CallsInv'
<1>1. Lists' = Lists
  BY ListsKept DEF Emptied
<1>2. BufsOK'
  BY DetachOK DEF CallsInv, Emptied
<1>3. Flow(txn', buf', Lists', Stacks', lock'.thread)
  BY <1>1 DEF Emptied
<1>. QED
  BY <1>2, <1>3 DEF CallsInv, Emptied

LEMMA ThreadExitCalls ==
    ASSUME TypeOK, TypeOK', CallsInv, NEW h \in Threads, ThreadExit(h)
    PROVE  CallsInv'
<1>1. /\ ~lock.held /\ FreeStack(h) /\ UNCHANGED <<ptodo, node>> /\ h # NIL
      /\ lock' = [Unlocked EXCEPT !.held = TRUE, !.thread = h]
  BY NilAssumption DEF ThreadExit, Running
<1>2. lock'.held /\ lock'.proc = NIL /\ lock'.thread = h /\ lock'.left = {}
  BY <1>1 DEF Unlocked
<1>3. Emptied(h)
  BY <1>1, UnlockedOK, FreeStackStep DEF CallsInv
<1>4. thr'[h].stack = NIL
  BY <1>3 DEF Emptied
<1>5. LockOK'
  BY <1>1, <1>2, <1>4 DEF LockOK
<1>. QED
  BY <1>1, <1>2, <1>3, <1>5, EmptiedCalls

LEMMA ReleaseThreadCalls ==
    ASSUME TypeOK, TypeOK', CallsInv, NEW h \in Threads, ReleaseThread(h)
    PROVE  CallsInv'
<1>1. /\ lock.thread = NIL /\ h \in lock.left /\ FreeStack(h) /\ UNCHANGED <<ptodo, node>>
      /\ lock' = [lock EXCEPT !.thread = h, !.left = @ \ {h}] /\ h # NIL /\ NIL \notin Threads
  BY NilAssumption DEF ReleaseThread
<1>2. /\ lock'.held = lock.held /\ lock'.proc = lock.proc /\ lock'.thread = h
      /\ lock'.left = lock.left \ {h}
  BY <1>1 DEF TypeOK, Lock
<1>3. Emptied(h)
  BY <1>1, FreeStackStep DEF CallsInv
<1>4. /\ thr'[h].stack = NIL
      /\ \A g \in Threads : /\ thr'[g].todo = thr[g].todo
                            /\ thr[g].stack = NIL => thr'[g].stack = NIL
  BY <1>3 DEF Emptied
<1>5. LockOK'
  <2>0. LockOK
    BY DEF CallsInv
  <2>5. lock.held
    <3>1. Unlocked.left = {}
      BY DEF Unlocked
    <3>. QED
      BY <1>1, <2>0, <3>1 DEF LockOK
  <2>1. LockOK /\ lock.held /\ lock.proc # NIL
    BY <1>1, <2>0, <2>5 DEF LockOK
  <2>2. \A g \in lock.left : ProcOf[g] = lock.proc
    BY <2>1 DEF LockOK
  <2>3. \A g \in Threads : ProcOf[g] = lock.proc /\ g \notin lock.left =>
           thr[g].stack = NIL /\ thr[g].todo = <<>>
    BY <1>1, <2>1 DEF LockOK
  <2>4. \A g \in Threads : ProcOf[g] = lock.proc /\ g \notin lock.left \ {h} /\ g # h =>
           thr'[g].stack = NIL /\ thr'[g].todo = <<>>
    BY <1>4, <2>3
  <2>. QED
    BY <1>1, <1>2, <1>4, <2>1, <2>2, <2>4 DEF LockOK
<1>. QED
  BY <1>1, <1>2, <1>3, <1>5, EmptiedCalls

\* A free transaction is in no chain and in no list.
LEMMA FreshTxn ==
    ASSUME TypeOK, CallsInv, NEW t \in FreeTxns
    PROVE  /\ t \in Txns /\ txn[t] = NoTxn /\ t # NIL /\ t # Complete
           /\ t \notin CallsOf(txn, buf) /\ t \notin Waiting(Lists)
<1>1. QueueOK(txn, buf, Lists)
  BY DEF CallsInv, Flow
<1>2. t \in Txns /\ ~txn[t].live /\ t # NIL /\ t # Complete
  BY NilAssumption, CompleteAssumption DEF FreeTxns
<1>3. TxnOK(txn, buf, Waiting(Lists), t)
  BY <1>1, <1>2 DEF QueueOK
<1>4. t \notin Waiting(Lists)
  BY <1>1, <1>2, WaitingBuffer
<1>. QED
  BY <1>2, <1>3, <1>4 DEF TxnOK, CallsOf, IsCall

LEMMA TopsAreCalls ==
    ASSUME CallsInv
    PROVE  \A g \in Threads : thr[g].stack \in CallsOf(txn, buf) \cup {NIL}
<1>1. Shape(CallsOf(txn, buf), Unread(txn, buf, Lists), txn, Stacks)
  BY DEF CallsInv, Flow, Woven
<1>2. \A g \in Threads : Stacks[g] = thr[g].stack
  BY DEF Stacks
<1>. QED
  BY <1>1, <1>2, ShapeTop

\* A new buffer is no transaction's yet.
LEMMA FreshBuf ==
    ASSUME TypeOK, BufferPointersAgree, CallsInv, NEW b \in FreeBufs
    PROVE  /\ b \in Bufs /\ buf[b] = NoBuf /\ b # NIL
           /\ \A t \in Txns : txn[t].buffer # b
BY NilAssumption DEF FreeBufs, BufferPointersAgree, PointersAgree, CallsInv, BufsOK

-------------------------------------------------------------------------------
(* A transaction is sent: its sender gets a BR_TRANSACTION_COMPLETE to read *)

Sent(L, h, m, t) == Put(Put(L, <<"t", h>>, Complete), m, t)

SentOK(L, h, m, t, M) ==
    /\ M \in ListsOf /\ Once(M) /\ Waiting(M) = Waiting(L) \cup {t}
    /\ \A x \in Place : /\ Held(M, x) = IF x = m THEN Held(L, x) \cup {t} ELSE Held(L, x)
                        /\ M[x] = IF x = m THEN Append(L[x], t)
                                  ELSE IF x = <<"t", h>> THEN Append(L[x], Complete) ELSE L[x]

LEMMA SentIs ==
    ASSUME NEW L \in ListsOf, Once(L), NEW h \in Threads, NEW m \in Place, m # <<"t", h>>,
           NEW t \in Txns, t \notin Waiting(L)
    PROVE  SentOK(L, h, m, t, Sent(L, h, m, t))
<1>. DEFINE l == <<"t", h>>
            K == Put(L, l, Complete)
            M == Put(K, m, t)
<1>1. l \in Place
  BY PlaceIs
<1>2. Complete \notin Waiting(L) /\ Complete \notin Txns
  BY CompleteAssumption DEF Waiting
<1>3. /\ K \in ListsOf /\ Once(K) /\ Waiting(K) = Waiting(L)
      /\ \A x \in Place : Held(K, x) = Held(L, x)
      /\ \A x \in Place : K[x] = IF x = l THEN Append(L[l], Complete) ELSE L[x]
  <2>. HIDE DEF l
  <2>. QED
    BY <1>1, <1>2, PutIs, ListAt
<1>. HIDE DEF K, l
<1>4. /\ M \in ListsOf /\ Once(M) /\ Waiting(M) = Waiting(K) \cup {t}
      /\ \A x \in Place : Held(M, x) = IF x = m THEN Held(K, x) \cup {t} ELSE Held(K, x)
      /\ \A x \in Place : M[x] = IF x = m THEN Append(K[m], t) ELSE K[x]
  BY <1>3, PutIs, ListAt
<1>5. Sent(L, h, m, t) = M
  BY DEF Sent, K, l
<1>. HIDE DEF M
<1>6. m # l
  BY DEF l
<1>7. \A x \in Place : M[x] = IF x = m THEN Append(L[x], t)
                              ELSE IF x = l THEN Append(L[x], Complete) ELSE L[x]
  BY <1>3, <1>4, <1>6
<1>8. SentOK(L, h, m, t, M)
  BY <1>3, <1>4, <1>7 DEF SentOK, l
<1>. QED
  BY <1>5, <1>8

\* A buffer is bound to a new transaction; nothing else changes in the buffers.
LEMMA BufsNew ==
    ASSUME TypeOK, BufsOK,
           \A a \in Bufs :
               \/ buf'[a] = buf[a] \/ buf'[a] = [buf[a] EXCEPT !.txn = NIL]
               \/ buf'[a].live /\ (buf'[a].async => buf'[a].node # NIL /\ buf'[a].proc = Owner[buf'[a].node])
    PROVE  BufsOK'
<1>. SUFFICES ASSUME NEW a \in Bufs
              PROVE  /\ ~buf'[a].live => buf'[a] = NoBuf
                     /\ buf'[a].live /\ buf'[a].async => buf'[a].node # NIL /\ buf'[a].proc = Owner[buf'[a].node]
  BY DEF BufsOK
<1>1. CASE buf'[a].live /\ (buf'[a].async => buf'[a].node # NIL /\ buf'[a].proc = Owner[buf'[a].node])
  BY <1>1
<1>2. CASE buf'[a] = buf[a] \/ buf'[a] = [buf[a] EXCEPT !.txn = NIL]
  <2>1. buf'[a] = buf[a] \/ buf'[a] = [buf[a] EXCEPT !.txn = NIL]
    BY <1>2
  <2>2. buf[a] \in Buf
    BY DEF TypeOK
  <2>3. /\ ~buf[a].live => buf[a] = NoBuf
        /\ buf[a].live /\ buf[a].async => buf[a].node # NIL /\ buf[a].proc = Owner[buf[a].node]
    BY DEF BufsOK
  <2>. QED
    BY <2>1, <2>2, <2>3 DEF NoBuf, Buf
<1>. QED
  BY <1>1, <1>2

LEMMA CallOneWayCalls ==
    ASSUME TypeOK, TypeOK', BufferPointersAgree, CallsInv,
           NEW h \in Threads, NEW n \in Nodes, CallOneWay(h, n)
    PROVE  CallsInv'
<1>1. PICK t \in FreeTxns, b \in FreeBufs :
         /\ txn' = [txn EXCEPT ![t] = [NoTxn EXCEPT !.live = TRUE, !.oneway = TRUE, !.buffer = b]]
         /\ buf' = [buf EXCEPT ![b] = NewBuf(Owner[n], n, t, TRUE)]
         /\ IF node[n].async
            THEN /\ node' = [node EXCEPT ![n].todo = Append(@, t)]
                 /\ ptodo' = ptodo
            ELSE /\ node' = [node EXCEPT ![n].async = TRUE]
                 /\ ptodo' = [ptodo EXCEPT ![Owner[n]] = Append(@, t)]
  BY DEF CallOneWay
<1>2. thr' = Enqueue(thr, h, Complete) /\ lock' = lock /\ ~lock.held /\ oops' = oops
  BY DEF CallOneWay, CanWrite, Running
<1>. DEFINE l == IF node[n].async THEN <<"n", n>> ELSE <<"p", Owner[n]>>
            M == Sent(Lists, h, l, t)
<1>3. l \in Place /\ l # <<"t", h>> /\ Owner[n] \in Procs /\ (l = <<"n", n>> \/ l = <<"p", Owner[n]>>)
  BY PlaceIs, OwnerAssumption
<1>4. /\ t \in Txns /\ txn[t] = NoTxn /\ t # NIL /\ t # Complete
      /\ t \notin CallsOf(txn, buf) /\ t \notin Waiting(Lists)
  BY FreshTxn
<1>5. b \in Bufs /\ b # NIL /\ \A u \in Txns : txn[u].buffer # b
  BY FreshBuf
<1>6. Flow(txn, buf, Lists, Stacks, lock.thread) /\ Lists \in ListsOf /\ Once(Lists)
  BY DEF CallsInv, Flow, QueueOK
<1>7. SentOK(Lists, h, l, t, M)
  <2>. HIDE DEF l
  <2>. QED
    BY <1>3, <1>4, <1>6, SentIs
<1>8. \A g \in Threads : /\ thr'[g].stack = thr[g].stack /\ thr'[g].err = thr[g].err /\ thr'[g].err2 = thr[g].err2
                         /\ thr'[g].todo = IF g = h THEN Append(thr[h].todo, Complete) ELSE thr[g].todo
  BY <1>2 DEF Enqueue, TypeOK, Thread
<1>9. Lists' = M
  <2>. HIDE DEF M
  <2>0. /\ node[n].async => l = <<"n", n>>
        /\ ~node[n].async => l = <<"p", Owner[n]>>
    OBVIOUS
  <2>. HIDE DEF l
  <2>5. \A x \in Place : M[x] = IF x = l THEN Append(Lists[x], t)
                                ELSE IF x = <<"t", h>> THEN Append(Lists[x], Complete) ELSE Lists[x]
    BY <1>7 DEF SentOK
  <2>1. ASSUME NEW g \in Threads PROVE thr'[g].todo = M[<<"t", g>>]
    <3>1. <<"t", g>> \in Place /\ <<"t", g>> # l /\ Lists[<<"t", g>>] = thr[g].todo
      BY <1>3, ListsIs, PlaceIs
    <3>. QED
      BY <1>8, <2>5, <3>1
  <2>2. ASSUME NEW q \in Procs PROVE ptodo'[q] = M[<<"p", q>>]
    <3>1. <<"p", q>> \in Place /\ <<"p", q>> # <<"t", h>> /\ Lists[<<"p", q>>] = ptodo[q]
      BY ListsIs, PlaceIs
    <3>2. M[<<"p", q>>] = IF <<"p", q>> = l THEN Append(ptodo[q], t) ELSE ptodo[q]
      BY <2>5, <3>1
    <3>. QED
      BY <1>1, <1>3, <2>0, <3>2 DEF TypeOK
  <2>3. ASSUME NEW m \in Nodes PROVE node'[m].todo = M[<<"n", m>>]
    <3>1. <<"n", m>> \in Place /\ <<"n", m>> # <<"t", h>> /\ Lists[<<"n", m>>] = node[m].todo
      BY ListsIs, PlaceIs
    <3>2. M[<<"n", m>>] = IF <<"n", m>> = l THEN Append(node[m].todo, t) ELSE node[m].todo
      BY <2>5, <3>1
    <3>3. node \in [Nodes -> [async: BOOLEAN, todo: Seq(Txns)]] /\ node[n] \in [async: BOOLEAN, todo: Seq(Txns)]
      BY DEF TypeOK
    <3>4. CASE node[n].async
      <4>1. node'[m].todo = IF m = n THEN Append(node[m].todo, t) ELSE node[m].todo
        BY ONLY <1>1, <3>3, <3>4, ZenonT(60)
      <4>. QED
        BY <2>0, <3>2, <3>4, <4>1
    <3>5. CASE ~node[n].async
      BY <1>1, <2>0, <3>2, <3>3, <3>5
    <3>. QED
      BY <3>4, <3>5
  <2>4. M \in ListsOf
    BY <1>7 DEF SentOK
  <2>. QED
    BY <2>1, <2>2, <2>3, <2>4, ListsBecome
<1>. HIDE DEF M
<1>10. /\ txn'[t] = [NoTxn EXCEPT !.live = TRUE, !.oneway = TRUE, !.buffer = b]
       /\ \A u \in Txns \ {t} : txn'[u] = txn[u]
       /\ buf'[b] = NewBuf(Owner[n], n, t, TRUE)
       /\ \A a \in Bufs \ {b} : buf'[a] = buf[a]
  BY <1>1, <1>4, <1>5 DEF TypeOK
<1>11. \A u \in Txns \ {t} : /\ Same(txn, buf, txn', buf', u)
                             /\ \A m \in Place : u \in Held(M, m) <=> u \in Held(Lists, m)
  <2>1. \A u \in Txns : txn[u].buffer \in (Bufs \ {b}) \cup {NIL}
    BY <1>5 DEF TypeOK, Txn
  <2>. QED
    BY <1>7, <1>10, <2>1 DEF Same, SentOK
<1>12. Aside(txn, buf, Lists, txn', buf', M, t)
  <2>1. /\ txn'[t].live /\ txn'[t].oneway /\ txn'[t].buffer = b /\ txn'[t].from = NIL
        /\ txn'[t].fromParent = NIL /\ txn'[t].toParent = NIL /\ txn'[t].toThread = NIL
    BY <1>10 DEF NoTxn
  <2>2. /\ buf'[b].proc = Owner[n] /\ buf'[b].node = n /\ buf'[b].async /\ ~buf'[b].userFree
        /\ n # NIL
    BY <1>10, NilAssumption DEF NewBuf
  <2>3. t \in Waiting(M) /\ ~IsCall(txn', buf', t) /\ ~IsCall(txn, buf, t)
    BY <1>4, <1>7, <2>1 DEF SentOK, IsCall, CallsOf
  <2>4. TxnOK(txn', buf', Waiting(M), t)
    BY <2>1, <2>2, <2>3 DEF TxnOK
  <2>5. ASSUME NEW m \in Place, t \in Held(M, m) PROVE Fits(txn', buf', m, t)
    <3>1. m = l
      BY <1>4, <1>7, <2>5, HeldWaits DEF SentOK
    <3>2. m = <<"n", n>> \/ m = <<"p", Owner[n]>>
      BY <1>3, <3>1
    <3>. QED
      BY <1>5, <2>1, <2>2, <3>2 DEF Fits
  <2>. QED
    BY <2>3, <2>4, <2>5 DEF Aside
<1>13. Flow(txn', buf', M, Stacks, lock.thread)
  <2>1. \A u \in {t} \cap Txns : Aside(txn, buf, Lists, txn', buf', M, u)
    BY <1>12
  <2>2. txn \in [Txns -> Txn] /\ txn' \in [Txns -> Txn] /\ M \in ListsOf /\ Once(M)
    BY <1>7 DEF TypeOK, SentOK
  <2>. QED
    BY <1>6, <1>11, <2>1, <2>2, FlowSame
<1>14. Stacks' = Stacks /\ LockOK' /\ lock'.thread = lock.thread
  BY <1>2, <1>8, StacksKept, LockKept
<1>15. ErrOK(txn', thr')
  <2>1. \A g \in Threads : thr[g].stack \in CallsOf(txn, buf) \cup {NIL}
    BY TopsAreCalls
  <2>2. \A g \in Threads : thr[g].stack # NIL => txn'[thr[g].stack] = txn[thr[g].stack]
    BY <1>4, <1>10, <2>1 DEF CallsOf
  <2>3. ErrOK(txn, thr)
    BY DEF CallsInv
  <2>. QED
    BY <1>8, <2>2, <2>3 DEF ErrOK
<1>16. BufsOK'
  <2>1. buf'[b].live /\ buf'[b].node = n /\ buf'[b].proc = Owner[n] /\ n # NIL
    BY <1>10, NilAssumption DEF NewBuf
  <2>. QED
    BY <1>10, <2>1, BufsNew DEF CallsInv
<1>. QED
  BY <1>2, <1>9, <1>13, <1>14, <1>15, <1>16 DEF CallsInv


\* What a call makes of the threads: its sender, and the thread it is for, if any.
Waiter(h, t) == Enqueue([thr EXCEPT ![h].stack = t], h, Complete)

CallMade(h, t, k) ==
    \A g \in Threads :
        /\ thr'[g].stack = IF g = h THEN t ELSE thr[g].stack
        /\ thr'[g].err = thr[g].err /\ thr'[g].err2 = thr[g].err2
        /\ thr'[g].todo = IF g = h THEN Append(thr[g].todo, Complete)
                          ELSE IF g = k THEN Append(thr[g].todo, t) ELSE thr[g].todo

LEMMA CallThreads ==
    ASSUME TypeOK, NEW h \in Threads, NEW k, k # NIL => k \in Threads /\ k # h, NEW t \in Txns,
           thr' = IF k = NIL THEN Waiter(h, t) ELSE Enqueue(Waiter(h, t), k, t)
    PROVE  CallMade(h, t, k)
<1>. DEFINE hs == Waiter(h, t)
<1>0. thr \in [Threads -> Thread] /\ \A g \in Threads : thr[g] \in Thread
  BY DEF TypeOK
<1>1. hs = [thr EXCEPT ![h] = [thr[h] EXCEPT !.stack = t, !.todo = Append(thr[h].todo, Complete)]]
  BY <1>0 DEF Waiter, Enqueue, Thread
<1>. HIDE DEF hs
<1>2. \A g \in Threads : hs[g] = IF g = h THEN [thr[h] EXCEPT !.stack = t, !.todo = Append(thr[h].todo, Complete)]
                                 ELSE thr[g]
  BY <1>0, <1>1
<1>3. hs = [g \in Threads |-> hs[g]]
  BY <1>0, <1>1
<1>4. ASSUME NEW g \in Threads
      PROVE  thr'[g] = IF g # h /\ g = k THEN [thr[g] EXCEPT !.todo = Append(thr[g].todo, t)] ELSE hs[g]
  <2>1. CASE k = NIL
    <3>1. thr' = hs
      BY <2>1 DEF hs
    <3>. QED
      BY <2>1, <3>1, NilAssumption
  <2>2. CASE k # NIL
    <3>1. thr' = [hs EXCEPT ![k].todo = Append(@, t)]
      BY <2>2 DEF hs, Enqueue
    <3>2. thr'[g] = IF g = k THEN [hs[g] EXCEPT !.todo = Append(hs[g].todo, t)] ELSE hs[g]
      BY <1>3, <3>1
    <3>. QED
      BY <1>2, <2>2, <3>2
  <2>. QED
    BY <2>1, <2>2
<1>5. ASSUME NEW g \in Threads
      PROVE  /\ thr'[g].stack = IF g = h THEN t ELSE thr[g].stack
             /\ thr'[g].err = thr[g].err /\ thr'[g].err2 = thr[g].err2
             /\ thr'[g].todo = IF g = h THEN Append(thr[g].todo, Complete)
                               ELSE IF g = k THEN Append(thr[g].todo, t) ELSE thr[g].todo
  <2>1. thr[g] \in Thread
    BY <1>0
  <2>2. CASE g = h
    <3>1. thr'[h] = [thr[h] EXCEPT !.stack = t, !.todo = Append(thr[h].todo, Complete)]
      BY <1>2, <1>4
    <3>2. thr[h] \in Thread
      BY <1>0
    <3>. QED
      BY <2>2, <3>1, <3>2 DEF Thread
  <2>3. CASE g # h
    BY <1>2, <1>4, <2>1, <2>3 DEF Thread
  <2>. QED
    BY <2>2, <2>3
<1>. QED
  BY <1>5 DEF CallMade

LEMMA CallCalls ==
    ASSUME TypeOK, TypeOK', BufferPointersAgree, CallsInv,
           NEW h \in Threads, NEW n \in Nodes, Call(h, n)
    PROVE  CallsInv'
<1>. DEFINE p == Owner[n]
            k == Callee(h, p)
            C == CallsOf(txn, buf)
            Q == Unread(txn, buf, Lists)
            l == IF k = NIL THEN <<"p", p>> ELSE <<"t", k>>
<1>1. PICK t \in FreeTxns, b \in FreeBufs :
         /\ txn' = [txn EXCEPT ![t] = [live |-> TRUE, from |-> h,
                        fromParent |-> thr[h].stack, toThread |-> k,
                        toParent |-> NIL, oneway |-> FALSE, buffer |-> b]]
         /\ buf' = [buf EXCEPT ![b] = NewBuf(p, n, t, FALSE)]
         /\ LET hs == Enqueue([thr EXCEPT ![h].stack = t], h, Complete) IN
            IF k = NIL
            THEN thr' = hs /\ ptodo' = [ptodo EXCEPT ![p] = Append(@, t)]
            ELSE thr' = Enqueue(hs, k, t) /\ ptodo' = ptodo
  BY DEF Call
<1>2. /\ node' = node /\ lock' = lock /\ ~lock.held /\ oops' = oops
      /\ thr[h].err = "BR_OK" /\ ~BadCallStack(h) /\ p # ProcOf[h] /\ p \in Procs
      /\ n # NIL /\ h # NIL
  <2>1. <<h, n>> \in Calls
    BY DEF Call, MayCall
  <2>2. Owner[n] # ProcOf[h]
    BY <2>1, CallsAssumption
  <2>. QED
    BY <2>2, OwnerAssumption, NilAssumption DEF Call, CanWrite, Running
<1>3. /\ Flow(txn, buf, Lists, Stacks, NIL) /\ QueueOK(txn, buf, Lists)
      /\ Woven(C, Q, txn, Stacks) /\ Targets(Q, txn, Stacks, ProcAt(txn, buf), NIL)
      /\ Shape(C, Q, txn, Stacks) /\ Single(C, txn) /\ Lists \in ListsOf /\ Once(Lists)
  <2>1. lock.thread = NIL
    BY <1>2, UnlockedOK DEF CallsInv
  <2>2. Flow(txn, buf, Lists, Stacks, NIL)
    BY <2>1 DEF CallsInv
  <2>. QED
    BY <2>2 DEF Flow, Woven, QueueOK
<1>4. /\ t \in Txns /\ txn[t] = NoTxn /\ t # NIL /\ t # Complete
      /\ t \notin C /\ t \notin Waiting(Lists)
  BY FreshTxn
<1>5. b \in Bufs /\ b # NIL /\ \A u \in Txns : txn[u].buffer # b
  BY FreshBuf
<1>6. Stacks[h] = thr[h].stack /\ thr[h].stack \in C \cup {NIL} /\ C \subseteq Txns /\ Q \subseteq C
  BY TopsAreCalls DEF Stacks, CallsOf, Unread
<1>. HIDE DEF C, Q
<1>7. /\ k = NIL => Waiters(txn, Stacks[h], p) = {}
      /\ k # NIL => Waiters(txn, Stacks[h], p) = {k}
  <2>. HIDE DEF p
  <2>. QED
    BY <1>3, <1>6, CalleeIs
<1>. HIDE DEF k
<1>8. k # NIL => k \in Threads /\ ProcOf[k] = p /\ k # h
  <2>1. k # NIL => k \in Waiters(txn, Stacks[h], p)
    BY <1>7
  <2>. QED
    BY <1>2, <2>1 DEF Waiters
<1>9. /\ l \in Place /\ l # <<"t", h>>
      /\ k = NIL => l = <<"p", p>>
      /\ k # NIL => l = <<"t", k>>
  BY <1>2, <1>8, PlaceIs
<1>. HIDE DEF l
<1>. DEFINE M == Sent(Lists, h, l, t)
<1>10. SentOK(Lists, h, l, t, M)
  BY <1>3, <1>4, <1>9, SentIs
<1>. HIDE DEF M
<1>11. \A g \in Threads :
          /\ thr'[g].stack = IF g = h THEN t ELSE thr[g].stack
          /\ thr'[g].err = thr[g].err /\ thr'[g].err2 = thr[g].err2
          /\ thr'[g].todo = IF g = h THEN Append(thr[g].todo, Complete)
                            ELSE IF g = k THEN Append(thr[g].todo, t) ELSE thr[g].todo
  <2>1. thr' = IF k = NIL THEN Waiter(h, t) ELSE Enqueue(Waiter(h, t), k, t)
    BY <1>1 DEF Waiter
  <2>2. CallMade(h, t, k)
    BY <1>4, <1>8, <2>1, CallThreads
  <2>. QED
    BY <2>2 DEF CallMade
<1>12. Lists' = M
  <2>1. \A x \in Place : M[x] = IF x = l THEN Append(Lists[x], t)
                                ELSE IF x = <<"t", h>> THEN Append(Lists[x], Complete) ELSE Lists[x]
    BY <1>10 DEF SentOK
  <2>2. ASSUME NEW g \in Threads PROVE thr'[g].todo = M[<<"t", g>>]
    <3>1. <<"t", g>> \in Place /\ Lists[<<"t", g>>] = thr[g].todo
      BY ListsIs, PlaceIs
    <3>2. <<"t", g>> = l <=> k # NIL /\ g = k
      BY <1>9
    <3>3. k = NIL => g # k
      BY NilAssumption
    <3>. QED
      BY <1>8, <1>11, <2>1, <3>1, <3>2, <3>3
  <2>3. ASSUME NEW q \in Procs PROVE ptodo'[q] = M[<<"p", q>>]
    <3>1. <<"p", q>> \in Place /\ <<"p", q>> # <<"t", h>> /\ Lists[<<"p", q>>] = ptodo[q]
      BY ListsIs, PlaceIs
    <3>2. <<"p", q>> = l <=> k = NIL /\ q = p
      BY <1>9
    <3>3. M[<<"p", q>>] = IF k = NIL /\ q = p THEN Append(ptodo[q], t) ELSE ptodo[q]
      BY <2>1, <3>1, <3>2
    <3>4. CASE k = NIL
      BY <1>1, <1>2, <3>3, <3>4 DEF TypeOK
    <3>5. CASE k # NIL
      BY <1>1, <3>3, <3>5
    <3>. QED
      BY <3>4, <3>5
  <2>4. ASSUME NEW m \in Nodes PROVE node'[m].todo = M[<<"n", m>>]
    <3>1. <<"n", m>> \in Place /\ <<"n", m>> # <<"t", h>> /\ Lists[<<"n", m>>] = node[m].todo
      BY ListsIs, PlaceIs
    <3>2. <<"n", m>> # l
      BY <1>9
    <3>. QED
      BY <1>2, <2>1, <3>1, <3>2
  <2>5. M \in ListsOf
    BY <1>10 DEF SentOK
  <2>. QED
    BY <2>2, <2>3, <2>4, <2>5, ListsBecome
<1>13. /\ txn'[t] = [live |-> TRUE, from |-> h, fromParent |-> thr[h].stack, toThread |-> k,
                     toParent |-> NIL, oneway |-> FALSE, buffer |-> b]
       /\ \A u \in Txns \ {t} : txn'[u] = txn[u]
       /\ buf'[b] = NewBuf(p, n, t, FALSE)
       /\ \A a \in Bufs \ {b} : buf'[a] = buf[a]
  BY <1>1, <1>4, <1>5 DEF TypeOK
<1>14. /\ txn'[t].live /\ ~txn'[t].oneway /\ txn'[t].buffer = b /\ txn'[t].from = h
       /\ txn'[t].fromParent = Stacks[h] /\ txn'[t].toParent = NIL /\ txn'[t].toThread = k
       /\ buf'[b].proc = p /\ buf'[b].node = n /\ ~buf'[b].async /\ ~buf'[b].userFree /\ buf'[b].live
  BY <1>6, <1>13 DEF NewBuf
<1>15. \A u \in Txns \ {t} : /\ Same(txn, buf, txn', buf', u)
                             /\ \A m \in Place : u \in Held(M, m) <=> u \in Held(Lists, m)
  <2>1. \A u \in Txns : txn[u].buffer \in (Bufs \ {b}) \cup {NIL}
    BY <1>5 DEF TypeOK, Txn
  <2>. QED
    BY <1>10, <1>13, <2>1 DEF Same, SentOK
<1>16. IsCall(txn', buf', t) /\ t \in Waiting(M)
  BY <1>2, <1>10, <1>14 DEF IsCall, SentOK
<1>17. TxnOK(txn', buf', Waiting(M), t)
  <2>1. buf'[b].async = txn'[t].oneway
    BY <1>13 DEF NewBuf
  <2>. QED
    BY <1>2, <1>14, <1>16, <2>1 DEF TxnOK
<1>18. ASSUME NEW m \in Place, t \in Held(M, m) PROVE Fits(txn', buf', m, t)
  <2>1. m = l
    BY <1>4, <1>10, <1>18, HeldWaits DEF SentOK
  <2>2. CASE k = NIL
    BY <1>2, <1>5, <1>9, <1>14, <2>1, <2>2 DEF Fits
  <2>3. CASE k # NIL
    BY <1>5, <1>8, <1>9, <1>14, <2>1, <2>3 DEF Fits
  <2>. QED
    BY <2>2, <2>3
<1>19. Kept(txn, buf, Lists, txn', buf', M, {t})
  <2>1. \A u \in {t} \cap Txns : /\ TxnOK(txn', buf', Waiting(M), u)
                                 /\ \A m \in Place : u \in Held(M, m) => Fits(txn', buf', m, u)
    BY <1>17, <1>18
  <2>2. M \in ListsOf /\ Once(M)
    BY <1>10 DEF SentOK
  <2>. QED
    BY <1>3, <1>15, <2>1, <2>2, QueueStep
<1>20. CallsOf(txn', buf') = C \cup {t} /\ Unread(txn', buf', M) = Q \cup {t}
  <2>1. t \in CallsOf(txn', buf') /\ CallsOf(txn', buf') \subseteq Txns
    BY <1>4, <1>16 DEF CallsOf
  <2>2. CallsOf(txn', buf') = C \cup {t}
    BY <1>4, <1>6, <1>19, <2>1 DEF Kept, C
  <2>3. \A u \in C : u \in Waiting(M) <=> u \in Waiting(Lists)
    BY <1>4, <1>6, <1>19 DEF Kept
  <2>. QED
    BY <1>16, <2>2, <2>3 DEF Unread, Q, C
<1>21. \A u \in Q : ProcAt(txn', buf')[u] = ProcAt(txn, buf)[u]
  <2>. SUFFICES ASSUME NEW u \in Q PROVE ProcAt(txn', buf')[u] = ProcAt(txn, buf)[u]
    OBVIOUS
  <2>1. u \in Txns \ {t} /\ u \in Waiting(Lists)
    BY <1>4, <1>6 DEF Q, Unread
  <2>2. txn[u].buffer # NIL
    BY <1>3, <2>1, WaitingBuffer
  <2>. QED
    BY <1>15, <2>1, <2>2 DEF Same, ProcAt
<1>22. ProcAt(txn', buf')[t] = p
  BY <1>4, <1>14 DEF ProcAt
<1>23. \A g \in Threads : Stacks'[g] = IF g = h THEN t ELSE Stacks[g]
  BY <1>11 DEF Stacks
<1>24. Stacks[h] # NIL => txn[Stacks[h]].toThread = h
  BY <1>2, <1>6 DEF BadCallStack
<1>25. /\ Woven(C \cup {t}, Q \cup {t}, txn', Stacks')
       /\ Targets(Q \cup {t}, txn', Stacks', ProcAt(txn', buf'), NIL)
  <2>. DEFINE pr == ProcAt(txn, buf)
              pq == ProcAt(txn', buf')
              ty == txn'
              su == Stacks'
  <2>1. \A u \in Q : pq[u] = pr[u]
    BY <1>21
  <2>2. pq[t] = p /\ Targets(Q, txn, Stacks, pr, NIL)
    BY <1>3, <1>22
  <2>3. txn \in [Txns -> Txn] /\ ty \in [Txns -> Txn]
    BY DEF TypeOK
  <2>4. /\ \A u \in C : ty[u] = txn[u]
        /\ ty[t].from = h /\ ty[t].fromParent = Stacks[h] /\ ty[t].toParent = NIL /\ k = ty[t].toThread
    BY <1>4, <1>6, <1>13, <1>14
  <2>5. \A g \in Threads : su[g] = IF g = h THEN t ELSE Stacks[g]
    BY <1>23
  <2>6. t \in Txns \ C
    BY <1>4
  <2>7. pq[t] # ProcOf[h] /\ (k = NIL => Waiters(txn, Stacks[h], pq[t]) = {})
    BY <1>2, <1>7, <2>2
  <2>8. k # NIL => ProcOf[k] # ProcOf[h] /\ Waiters(txn, Stacks[h], ProcOf[k]) = {k}
    BY <1>2, <1>7, <1>8
  <2>. HIDE DEF pr, pq, ty, su
  <2>9. WovenWith(C, Q, txn, Stacks, pr, h, t, k, ty, su, pq)
    BY <1>3, <1>24, <2>1, <2>2, <2>3, <2>4, <2>5, <2>6, <2>7, <2>8, WovenPush
  <2>. QED
    BY <2>9 DEF WovenWith, pq, ty, su
<1>26. Flow(txn', buf', M, Stacks', NIL)
  BY <1>19, <1>20, <1>25 DEF Flow, Kept
<1>27. LockOK' /\ lock'.thread = NIL
  BY <1>2, LockKept
<1>28. ErrOK(txn', thr')
  <2>1. \A g \in Threads \ {h} : thr[g].stack # NIL => txn'[thr[g].stack] = txn[thr[g].stack]
    BY <1>4, <1>6, <1>13, TopsAreCalls DEF C
  <2>. SUFFICES ASSUME NEW g \in Threads, thr'[g].err2 # "BR_OK"
                PROVE  thr'[g].err # "BR_OK" /\ (thr'[g].stack # NIL => txn'[thr'[g].stack].from # g)
    BY DEF ErrOK
  <2>2. thr[g].err2 # "BR_OK" /\ thr'[g].err = thr[g].err
    BY <1>11
  <2>3. thr[g].err # "BR_OK" /\ (thr[g].stack # NIL => txn[thr[g].stack].from # g)
    BY <2>2 DEF CallsInv, ErrOK
  <2>4. g # h /\ thr'[g].stack = thr[g].stack
    BY <1>2, <1>11, <2>3
  <2>. QED
    BY <2>1, <2>2, <2>3, <2>4
<1>29. BufsOK'
  BY <1>13, <1>14, BufsNew DEF CallsInv
<1>. QED
  BY <1>2, <1>12, <1>26, <1>27, <1>28, <1>29 DEF CallsInv


-------------------------------------------------------------------------------
(* BC_REPLY *)

\* Nothing is called for the call on top of its server's stack, so that its
\* caller waits for it and for nothing else.
LEMMA TargetWaits ==
    ASSUME TypeOK, CallsInv
    PROVE  ReplyTargetWaits
<1>. DEFINE C == CallsOf(txn, buf)
            Q == Unread(txn, buf, Lists)
<1>. SUFFICES ASSUME NEW h \in Threads, NEW t, t = thr[h].stack, t # NIL, Incoming(h, t),
                     txn[t].from # NIL
              PROVE  thr[txn[t].from].stack = t
  BY DEF ReplyTargetWaits
<1>1. Shape(C, Q, txn, Stacks) /\ txn \in [Txns -> Txn]
  BY DEF CallsInv, Flow, Woven, TypeOK
<1>. HIDE DEF C, Q
<1>2. Stacks[h] = t /\ txn[Stacks[h]].toThread = h
  BY DEF Stacks, Incoming
<1>3. Childless(C, txn, t) /\ t \in C
  <2>1. Stacks[h] # NIL /\ txn[Stacks[h]].toThread = h
    BY <1>2
  <2>2. Childless(C, txn, Stacks[h]) /\ Stacks[h] \in C \ Q
    BY <1>1, <2>1, TopChildless, ZenonT(60)
  <2>. QED
    BY <1>2, <2>2
<1>4. Linked(C, txn) /\ C \subseteq Txns
  BY <1>1, ShapeCalls
<1>. DEFINE f == txn[t].from
<1>5. f \in Threads
  BY <1>1, <1>3, <1>4 DEF Txn
<1>6. t \in Mem(C, Q, txn, f)
  BY <1>3 DEF Mem
<1>7. t \in Anc(txn, Stacks[f])
  BY <1>1, <1>5, <1>6 DEF Shape, Topped
<1>8. Stacks[f] \in C
  BY <1>1, <1>5, <1>7, AncNil, ShapeTop
<1>9. t = Stacks[f]
  BY <1>1, <1>3, <1>4, <1>7, <1>8, ChildlessTop
<1>. QED
  BY <1>5, <1>9 DEF Stacks

TakenOff(h, st) ==
    /\ Pending(txn, buf, Lists, st, NIL, thr[h].stack)
    /\ thr[h].stack \notin Waiting(Lists)
    /\ thr[h].stack \in CallsOf(txn, buf) /\ txn[thr[h].stack].from # h

LEMMA TakenOffStack ==
    ASSUME TypeOK, CallsInv, NEW h \in Threads, CanReply(h), NEW st,
           \A g \in Threads : st[g] = IF g = h THEN txn[thr[h].stack].toParent ELSE thr[g].stack
    PROVE  TakenOff(h, st)
<1>. DEFINE C == CallsOf(txn, buf)
            Q == Unread(txn, buf, Lists)
            l == thr[h].stack
            pr == ProcAt(txn, buf)
<1>1. lock.thread = NIL /\ l # NIL /\ txn[l].toThread = h
  BY UnlockedOK DEF CallsInv, CanReply, CanWrite, Running, BadCallStack
<1>2. /\ QueueOK(txn, buf, Lists) /\ Woven(C, Q, txn, Stacks)
      /\ Targets(Q, txn, Stacks, pr, NIL) /\ Shape(C, Q, txn, Stacks)
      /\ Served(C, Q, txn) /\ Single(C, txn)
  BY <1>1 DEF CallsInv, Flow, Woven
<1>3. txn \in [Txns -> Txn] /\ Stacks[h] = l /\ \A g \in Threads : Stacks[g] = thr[g].stack
  BY DEF TypeOK, Stacks
<1>4. C \cap Waiting(Lists) \subseteq Q
  BY DEF Unread
<1>. HIDE DEF C, Q, l, pr
<1>5. l \in C \ Q /\ txn[l].from # h
  <2>1. Stacks[h] # NIL /\ txn[Stacks[h]].toThread = h
    BY <1>1, <1>3
  <2>3. Shape(C, Q, txn, Stacks) /\ txn \in [Txns -> Txn]
    BY <1>2, <1>3
  <2>2. Childless(C, txn, Stacks[h]) /\ Stacks[h] \in C \ Q /\ txn[Stacks[h]].from # h
    BY <2>1, <2>3, TopChildless
  <2>. QED
    BY <1>3, <2>2
<1>6. Shape(C, Q \cup {l}, txn, st)
  <2>1. \A g \in Threads : st[g] = IF g = h THEN txn[Stacks[h]].toParent ELSE Stacks[g]
    BY <1>3 DEF l
  <2>2. Stacks[h] # NIL /\ txn[Stacks[h]].toThread = h
    BY <1>1, <1>3
  <2>3. Shape(C, Q \cup {Stacks[h]}, txn, st)
    BY <1>2, <1>3, <2>1, <2>2, TakeShape
  <2>. QED
    BY <1>3, <2>3
<1>7. Served(C, Q \cup {l}, txn)
  BY <1>2 DEF Served
<1>8. (Q \cup {l}) \ {l} = Q
  BY <1>5
<1>9. Targets(Q, txn, st, pr, NIL)
  <2>1. ASSUME NEW g \in Threads \ {NIL}, NEW t \in Q, txn[t].toThread = g
        PROVE  st[g] # NIL /\ txn[st[g]].from = g /\ st[g] \in Anc(txn, txn[t].fromParent)
    <3>1. Stacks[g] # NIL /\ txn[Stacks[g]].from = g /\ Stacks[g] \in Anc(txn, txn[t].fromParent)
      BY <1>2, <2>1 DEF Targets, Awaited
    <3>2. g # h
      BY <1>3, <1>5, <3>1
    <3>3. st[g] = Stacks[g]
      BY <1>3, <3>2
    <3>. QED
      BY <3>1, <3>3
  <2>. QED
    BY <1>2, <2>1 DEF Targets, Awaited
<1>10. Pending(txn, buf, Lists, st, NIL, l)
  BY <1>2, <1>5, <1>6, <1>7, <1>8, <1>9 DEF Pending, C, Q, pr
<1>. QED
  BY <1>4, <1>5, <1>10 DEF TakenOff, l, C

\* A reply that fails: the failure goes up the chain.
LEMMA ReplyFailed ==
    ASSUME TypeOK, TypeOK', CallsInv, NEW h \in Threads, CanReply(h), NEW code, code # "BR_OK",
           SendFailedReply(txn, buf, Replied(h), thr[h].stack, code),
           UNCHANGED <<ptodo, node, lock>>
    PROVE  /\ CallsInv'
           /\ FailReplied(txn, buf, Replied(h), Lists, NIL, thr[h].stack, code)
<1>. DEFINE hs == Replied(h)
            st == [g \in Threads |-> hs[g].stack]
            l == thr[h].stack
<1>1. /\ ~lock.held /\ thr[h].err = "BR_OK" /\ ErrOK(txn, thr) /\ l \in Txns
      /\ thr \in [Threads -> Thread] /\ buf \in [Bufs -> Buf] /\ txn \in [Txns -> Txn]
  BY DEF CanReply, CanWrite, Running, CallsInv, TypeOK, Thread
<1>2. \A g \in Threads :
         /\ hs[g].stack = IF g = h THEN txn[l].toParent ELSE thr[g].stack
         /\ hs[g].err = IF g = h THEN "BR_TRANSACTION_COMPLETE" ELSE thr[g].err
         /\ hs[g].err2 = thr[g].err2 /\ hs[g].todo = thr[g].todo
  BY <1>1 DEF Replied, Thread
<1>3. hs \in [Threads -> Thread]
  <2>1. txn[l].toParent \in Txns \cup {NIL}
    BY <1>1 DEF Txn
  <2>2. \A r \in Thread, s \in Txns \cup {NIL} :
           [r EXCEPT !.stack = s, !.err = "BR_TRANSACTION_COMPLETE"] \in Thread
    BY DEF Thread, Codes
  <2>3. hs = [thr EXCEPT ![h] = [thr[h] EXCEPT !.stack = txn[l].toParent, !.err = "BR_TRANSACTION_COMPLETE"]]
    BY <1>1 DEF Replied
  <2>4. thr[h] \in Thread
    BY <1>1
  <2>. QED
    BY <1>1, <2>1, <2>2, <2>3, <2>4, ZenonT(60)
<1>. HIDE DEF hs
<1>4. TakenOff(h, st)
  <2>1. \A g \in Threads : st[g] = IF g = h THEN txn[thr[h].stack].toParent ELSE thr[g].stack
    BY <1>2
  <2>. HIDE DEF st
  <2>. QED
    BY <2>1, TakenOffStack
<1>5. ErrOK(txn, hs)
  BY <1>1, <1>2 DEF ErrOK
<1>6. Lists \in ListsOf /\ Once(Lists) /\ \A m \in Place : Held(Lists, m) = Held(Lists, m) \ {l}
  <2>1. QueueOK(txn, buf, Lists)
    BY DEF CallsInv, Flow
  <2>2. \A m \in Place : l \notin Held(Lists, m)
    BY <1>4, HeldWaits DEF TakenOff
  <2>. QED
    BY <2>1, <2>2 DEF QueueOK
<1>7. FailReplied(txn, buf, hs, Lists, NIL, l, code)
  <2>1. Pending(txn, buf, Lists, st, NIL, l) /\ \A g \in Threads : st[g] = hs[g].stack
    BY <1>4 DEF TakenOff
  <2>2. SendFailedReply(txn, buf, hs, l, code)
    BY DEF hs
  <2>. HIDE DEF l, st
  <2>. QED
    BY <1>1, <1>3, <1>5, <1>6, <2>1, <2>2, FailReply
<1>8. \A g \in Threads : thr'[g].todo = thr[g].todo
  BY <1>2, <1>7 DEF FailReplied, ToldBy
<1>9. Lists' = Lists
  BY <1>8, ListsKept
<1>10. LockOK' /\ lock'.thread = NIL
  BY <1>1, LockKept
<1>11. BufsOK'
  <2>1. \A b \in Bufs : buf'[b] = buf[b] \/ buf'[b] = [buf[b] EXCEPT !.txn = NIL]
    BY <1>7 DEF FailReplied, Detach
  <2>. QED
    BY <2>1, DetachOK DEF CallsInv
<1>. QED
  BY <1>7, <1>9, <1>10, <1>11 DEF FailReplied, CallsInv, hs

LEMMA ReplyToDeadCalls ==
    ASSUME TypeOK, TypeOK', CallsInv, NEW h \in Threads, ReplyToDead(h)
    PROVE  CallsInv'
<1>1. "BR_DEAD_REPLY" # "BR_OK"
  OBVIOUS
<1>2. /\ CanReply(h) /\ UNCHANGED <<ptodo, node, lock>>
      /\ SendFailedReply(txn, buf, Replied(h), thr[h].stack, "BR_DEAD_REPLY")
  BY DEF ReplyToDead
<1>3. /\ CallsInv'
      /\ FailReplied(txn, buf, Replied(h), Lists, NIL, thr[h].stack, "BR_DEAD_REPLY")
  BY <1>1, <1>2, ReplyFailed
<1>. QED
  BY <1>3

\* "bad target transaction stack" does not come up, nor, without the cookie
\* mismatch, a failure that carries no code.
LEMMA ReplyFailsWith ==
    ASSUME ~CookieMismatch, TypeOK, CallsInv, NEW h \in Threads, ReplyFails(h)
    PROVE  /\ CanReply(h) /\ UNCHANGED <<ptodo, node, lock>>
           /\ SendFailedReply(txn, buf, Replied(h), thr[h].stack, "BR_FAILED_REPLY")
<1>1. CanReply(h) /\ Caller(h) # NIL /\ UNCHANGED <<ptodo, node, lock>>
  BY DEF ReplyFails
<1>2. thr[Caller(h)].stack = thr[h].stack
  BY <1>1, TargetWaits DEF ReplyTargetWaits, CanReply, BadCallStack, Caller, Incoming
<1>3. PICK code \in FailureCodes(h, ProcOf[Caller(h)]) :
         SendFailedReply(txn, buf, Replied(h), thr[h].stack, code)
  BY <1>2 DEF ReplyFails
<1>4. code = "BR_FAILED_REPLY"
  BY DEF FailureCodes
<1>. QED
  BY <1>1, <1>3, <1>4

LEMMA ReplyFailsCalls ==
    ASSUME ~CookieMismatch, TypeOK, TypeOK', CallsInv, NEW h \in Threads, ReplyFails(h)
    PROVE  CallsInv'
<1>1. "BR_FAILED_REPLY" # "BR_OK"
  OBVIOUS
<1>2. /\ CallsInv'
      /\ FailReplied(txn, buf, Replied(h), Lists, NIL, thr[h].stack, "BR_FAILED_REPLY")
  BY <1>1, ReplyFailsWith, ReplyFailed
<1>. QED
  BY <1>2


\* The failure of a call whose caller is there is the caller's alone.
LEMMA FailingAlone ==
    ASSUME NEW C, NEW tx \in [Txns -> Txn], Linked(C, tx), NEW l \in C, tx[l].from # NIL
    PROVE  Answ(tx, l) = {l} /\ Failing(tx, l) = {l}
<1>0. l \in Txns /\ l # NIL
  BY NilAssumption DEF Linked
<1>1. l \in Anc(tx, l) /\ l \in Txns
  BY <1>0, AncUp
<1>2. \A x \in Anc(tx, l) : l \in Anc(tx, x) => x = l
  BY AncAntisym
<1>3. Aband(tx, l) = {}
  BY <1>1 DEF Aband
<1>4. l \in Answ(tx, l)
  BY <1>1, <1>2 DEF Answ
<1>5. \A x \in Answ(tx, l) : x = l
  BY <1>1 DEF Answ
<1>. QED
  BY <1>3, <1>4, <1>5 DEF Failing

\* What a reply makes of the threads: the one that replies, and the caller.
ReplyMade(h, l, f, t) ==
    \A g \in Threads :
        /\ thr'[g].stack = IF g = f THEN txn[l].fromParent
                           ELSE IF g = h THEN txn[l].toParent ELSE thr[g].stack
        /\ thr'[g].err = thr[g].err /\ thr'[g].err2 = thr[g].err2
        /\ thr'[g].todo = IF g = f THEN Append(thr[g].todo, t)
                          ELSE IF g = h THEN Append(thr[g].todo, Complete) ELSE thr[g].todo

LEMMA ReplyThreads ==
    ASSUME TypeOK, NEW h \in Threads, NEW f \in Threads, f # h, NEW l \in Txns, NEW t \in Txns,
           thr' = Enqueue(Enqueue(Unwound(h, l, f), f, t), h, Complete)
    PROVE  ReplyMade(h, l, f, t)
<1>. DEFINE ha == [thr EXCEPT ![h] = [thr[h] EXCEPT !.stack = txn[l].toParent]]
            hb == [ha EXCEPT ![f] = [ha[f] EXCEPT !.stack = txn[l].fromParent]]
            hc == [hb EXCEPT ![f] = [hb[f] EXCEPT !.todo = Append(hb[f].todo, t)]]
            hd == [hc EXCEPT ![h] = [hc[h] EXCEPT !.todo = Append(hc[h].todo, Complete)]]
<1>0. thr \in [Threads -> Thread] /\ \A g \in Threads : thr[g] \in Thread
  BY DEF TypeOK
<1>1. thr' = hd
  BY DEF Enqueue, Unwound
<1>2. \A g \in Threads : ha[g] = IF g = h THEN [thr[h] EXCEPT !.stack = txn[l].toParent] ELSE thr[g]
  BY <1>0
<1>3. ha = [g \in Threads |-> ha[g]]
  BY <1>0
<1>. HIDE DEF ha
<1>4. \A g \in Threads : hb[g] = IF g = f THEN [thr[f] EXCEPT !.stack = txn[l].fromParent] ELSE ha[g]
  BY <1>2, <1>3
<1>5. hb = [g \in Threads |-> hb[g]]
  BY <1>3
<1>. HIDE DEF hb
<1>6. \A g \in Threads : hc[g] = IF g = f THEN [hb[f] EXCEPT !.todo = Append(hb[f].todo, t)] ELSE hb[g]
  BY <1>5
<1>7. hc = [g \in Threads |-> hc[g]]
  BY <1>5
<1>. HIDE DEF hc
<1>8. \A g \in Threads : hd[g] = IF g = h THEN [hc[h] EXCEPT !.todo = Append(hc[h].todo, Complete)] ELSE hc[g]
  BY <1>7
<1>. HIDE DEF hd
<1>. SUFFICES ASSUME NEW g \in Threads
              PROVE  /\ thr'[g].stack = IF g = f THEN txn[l].fromParent
                                        ELSE IF g = h THEN txn[l].toParent ELSE thr[g].stack
                     /\ thr'[g].err = thr[g].err /\ thr'[g].err2 = thr[g].err2
                     /\ thr'[g].todo = IF g = f THEN Append(thr[g].todo, t)
                                       ELSE IF g = h THEN Append(thr[g].todo, Complete) ELSE thr[g].todo
  BY DEF ReplyMade
<1>9. CASE g = f
  <2>1. thr'[f] = [[thr[f] EXCEPT !.stack = txn[l].fromParent] EXCEPT
                     !.todo = Append([thr[f] EXCEPT !.stack = txn[l].fromParent].todo, t)]
    BY <1>1, <1>4, <1>6, <1>8
  <2>. QED
    BY <1>0, <1>9, <2>1 DEF Thread
<1>10. CASE g = h
  <2>1. thr'[h] = [[thr[h] EXCEPT !.stack = txn[l].toParent] EXCEPT
                     !.todo = Append([thr[h] EXCEPT !.stack = txn[l].toParent].todo, Complete)]
    <3>1. hc[h] = [thr[h] EXCEPT !.stack = txn[l].toParent]
      BY <1>2, <1>4, <1>6
    <3>. QED
      BY <1>1, <1>8, <3>1
  <2>. QED
    BY <1>0, <1>10, <2>1 DEF Thread
<1>11. CASE g # f /\ g # h
  BY <1>1, <1>2, <1>4, <1>6, <1>8, <1>11
<1>. QED
  BY <1>9, <1>10, <1>11

LEMMA ReplyCalls ==
    ASSUME TypeOK, TypeOK', BufferPointersAgree, CallsInv, NEW h \in Threads, Reply(h)
    PROVE  CallsInv'
<1>. DEFINE l == thr[h].stack
            f == Caller(h)
            tx == Freed(txn, {l})
            bs == Detach(buf, txn, {l})
            m == <<"t", f>>
<1>1. PICK t \in FreeTxns, b \in FreeBufs :
         /\ txn' = [tx EXCEPT ![t] = [NoTxn EXCEPT !.live = TRUE, !.toThread = f, !.buffer = b]]
         /\ buf' = [bs EXCEPT ![b] = NewBuf(ProcOf[f], NIL, t, FALSE)]
         /\ thr' = Enqueue(Enqueue(Unwound(h, l, f), f, t), h, Complete)
  BY DEF Reply
<1>2. /\ CanReply(h) /\ f # NIL /\ thr[f].stack = l /\ ~lock.held /\ thr[h].err = "BR_OK" /\ l # NIL
      /\ f = txn[l].from
      /\ UNCHANGED <<ptodo, node, lock, oops>>
  BY DEF Reply, CanReply, CanWrite, Running, Caller
<1>3. /\ thr \in [Threads -> Thread] /\ buf \in [Bufs -> Buf] /\ txn \in [Txns -> Txn]
      /\ \A g \in Threads : thr[g] \in Thread
  BY DEF TypeOK
<1>4. l \in Txns /\ f \in Threads /\ tx \in [Txns -> Txn] /\ bs \in [Bufs -> Buf]
  BY <1>2, <1>3, FreedType DEF Thread, Txn
<1>. DEFINE st == [g \in Threads |-> IF g = h THEN txn[l].toParent ELSE thr[g].stack]
            su == [g \in Threads |-> IF g = f THEN txn[l].fromParent ELSE st[g]]
<1>5. TakenOff(h, st)
  <2>1. \A g \in Threads : st[g] = IF g = h THEN txn[thr[h].stack].toParent ELSE thr[g].stack
    OBVIOUS
  <2>. HIDE DEF st
  <2>. QED
    BY <1>2, <2>1, TakenOffStack
<1>6. Pending(txn, buf, Lists, st, NIL, l) /\ l \notin Waiting(Lists) /\ l \in CallsOf(txn, buf) /\ f # h
  BY <1>2, <1>5 DEF TakenOff
<1>7. /\ t \in Txns /\ txn[t] = NoTxn /\ t # NIL /\ t # Complete
      /\ t \notin CallsOf(txn, buf) /\ t \notin Waiting(Lists) /\ t # l
  BY <1>6, FreshTxn
<1>8. b \in Bufs /\ b # NIL /\ \A u \in Txns : txn[u].buffer # b
  BY FreshBuf
<1>9. Answ(txn, l) = {l} /\ Failing(txn, l) = {l}
  <2>1. Linked(CallsOf(txn, buf), txn)
    BY <1>6 DEF Pending, Shape
  <2>. HIDE DEF l
  <2>. QED
    BY <1>2, <1>3, <1>6, <2>1, FailingAlone
<1>10. Lists \in ListsOf /\ Once(Lists) /\ QueueOK(txn, buf, Lists)
  BY DEF CallsInv, Flow, QueueOK
<1>11. Flow(tx, bs, Lists, su, NIL)
  <2>1. ToldStacks(txn, l, st, su)
    BY <1>2, <1>9 DEF ToldStacks
  <2>2. \A x \in Place : Held(Lists, x) = Held(Lists, x) \ {l}
    BY <1>6, HeldWaits
  <2>. DEFINE P == {l}
  <2>3. P = Failing(txn, l)
    BY <1>9
  <2>4. tx = Freed(txn, P) /\ bs = Detach(buf, txn, P)
    OBVIOUS
  <2>. HIDE DEF P, l, st, su, tx, bs
  <2>. QED
    BY <1>3, <1>6, <1>10, <2>1, <2>2, <2>3, <2>4, FlowFail
<1>12. \A g \in Threads :
          /\ thr'[g].stack = su[g] /\ thr'[g].err = thr[g].err /\ thr'[g].err2 = thr[g].err2
          /\ thr'[g].todo = IF g = f THEN Append(thr[g].todo, t)
                            ELSE IF g = h THEN Append(thr[g].todo, Complete) ELSE thr[g].todo
  <2>1. \A g \in Threads : su[g] = IF g = f THEN txn[l].fromParent
                                   ELSE IF g = h THEN txn[l].toParent ELSE thr[g].stack
    OBVIOUS
  <2>. HIDE DEF l, f, su
  <2>2. ReplyMade(h, l, f, t)
    BY <1>1, <1>4, <1>6, <1>7, ReplyThreads
  <2>. QED
    BY <2>1, <2>2 DEF ReplyMade
<1>13. m \in Place /\ m # <<"t", h>>
  BY <1>4, <1>6, PlaceIs
<1>. DEFINE M == Sent(Lists, h, m, t)
<1>14. SentOK(Lists, h, m, t, M)
  BY <1>7, <1>10, <1>13, SentIs
<1>. HIDE DEF M, l, f, tx, bs, st, su
<1>15. Lists' = M
  <2>1. \A x \in Place : M[x] = IF x = m THEN Append(Lists[x], t)
                                ELSE IF x = <<"t", h>> THEN Append(Lists[x], Complete) ELSE Lists[x]
    BY <1>14 DEF SentOK
  <2>2. ASSUME NEW g \in Threads PROVE thr'[g].todo = M[<<"t", g>>]
    <3>1. <<"t", g>> \in Place /\ Lists[<<"t", g>>] = thr[g].todo
      BY ListsIs, PlaceIs
    <3>2. (<<"t", g>> = m <=> g = f) /\ (<<"t", g>> = <<"t", h>> <=> g = h)
      OBVIOUS
    <3>. QED
      BY <1>12, <2>1, <3>1, <3>2
  <2>3. ASSUME NEW q \in Procs PROVE ptodo'[q] = M[<<"p", q>>]
    <3>1. <<"p", q>> \in Place /\ <<"p", q>> # <<"t", h>> /\ <<"p", q>> # m /\ Lists[<<"p", q>>] = ptodo[q]
      BY ListsIs, PlaceIs
    <3>. QED
      BY <1>2, <2>1, <3>1
  <2>4. ASSUME NEW n \in Nodes PROVE node'[n].todo = M[<<"n", n>>]
    <3>1. <<"n", n>> \in Place /\ <<"n", n>> # <<"t", h>> /\ <<"n", n>> # m /\ Lists[<<"n", n>>] = node[n].todo
      BY ListsIs, PlaceIs
    <3>. QED
      BY <1>2, <2>1, <3>1
  <2>5. M \in ListsOf
    BY <1>14 DEF SentOK
  <2>. QED
    BY <2>2, <2>3, <2>4, <2>5, ListsBecome
<1>16. /\ txn'[t] = [NoTxn EXCEPT !.live = TRUE, !.toThread = f, !.buffer = b]
       /\ \A u \in Txns \ {t} : txn'[u] = tx[u]
       /\ buf'[b] = NewBuf(ProcOf[f], NIL, t, FALSE)
       /\ \A a \in Bufs \ {b} : buf'[a] = bs[a]
  BY <1>1, <1>4, <1>7, <1>8
<1>17. /\ tx[t] = NoTxn /\ tx[l] = NoTxn
       /\ \A u \in Txns \ {l} : tx[u] = txn[u]
       /\ \A a \in Bufs : bs[a] = buf[a] \/ bs[a] = [buf[a] EXCEPT !.txn = NIL]
  BY <1>4, <1>7 DEF tx, bs, Freed, Detach
<1>18. /\ txn'[t].live /\ txn'[t].oneway = FALSE /\ txn'[t].buffer = b /\ txn'[t].from = NIL
       /\ txn'[t].fromParent = NIL /\ txn'[t].toParent = NIL /\ txn'[t].toThread = f
       /\ buf'[b].proc = ProcOf[f] /\ buf'[b].node = NIL /\ buf'[b].async = FALSE
       /\ buf'[b].userFree = FALSE /\ buf'[b].live
  BY <1>16 DEF NewBuf, NoTxn
<1>19. \A u \in Txns \ {t} : /\ Same(tx, bs, txn', buf', u)
                             /\ \A x \in Place : u \in Held(M, x) <=> u \in Held(Lists, x)
  <2>1. \A u \in Txns : tx[u].buffer \in (Bufs \ {b}) \cup {NIL}
    BY <1>3, <1>8, <1>17 DEF Txn, NoTxn
  <2>. QED
    BY <1>14, <1>16, <2>1 DEF Same, SentOK
<1>20. Aside(tx, bs, Lists, txn', buf', M, t)
  <2>1. ~IsCall(tx, bs, t) /\ ~IsCall(txn', buf', t) /\ t \in Waiting(M)
    BY <1>8, <1>14, <1>17, <1>18 DEF IsCall, NoTxn, SentOK
  <2>2. TxnOK(txn', buf', Waiting(M), t)
    BY <1>18, <2>1 DEF TxnOK
  <2>3. ASSUME NEW x \in Place, t \in Held(M, x) PROVE Fits(txn', buf', x, t)
    <3>1. x = m
      BY <1>7, <1>14, <2>3, HeldWaits DEF SentOK
    <3>. QED
      BY <1>8, <1>18, <3>1 DEF Fits
  <2>. QED
    BY <2>1, <2>2, <2>3 DEF Aside
<1>21. \A g \in Threads : Stacks'[g] = su[g]
  BY <1>12 DEF Stacks
<1>22. Flow(txn', buf', M, Stacks', NIL)
  <2>1. \A u \in {t} \cap Txns : Aside(tx, bs, Lists, txn', buf', M, u)
    BY <1>20
  <2>2. txn' \in [Txns -> Txn] /\ M \in ListsOf /\ Once(M)
    BY <1>14 DEF TypeOK, SentOK
  <2>. QED
    BY <1>4, <1>11, <1>19, <1>21, <2>1, <2>2, FlowSame
<1>23. LockOK' /\ lock'.thread = NIL
  BY <1>2, LockKept
<1>24. ErrOK(txn', thr')
  <2>. SUFFICES ASSUME NEW g \in Threads, thr'[g].err2 # "BR_OK"
                PROVE  thr'[g].err # "BR_OK" /\ (thr'[g].stack # NIL => txn'[thr'[g].stack].from # g)
    BY DEF ErrOK
  <2>1. thr[g].err2 # "BR_OK" /\ thr'[g].err = thr[g].err
    BY <1>12
  <2>2. thr[g].err # "BR_OK" /\ (thr[g].stack # NIL => txn[thr[g].stack].from # g)
    BY <2>1 DEF CallsInv, ErrOK
  <2>3. g # h /\ g # f
    BY <1>2, <2>2
  <2>4. thr'[g].stack = thr[g].stack /\ g # NIL
    BY <1>12, <2>3, NilAssumption DEF su, st
  <2>5. thr[g].stack \in (Txns \ {t}) \cup {NIL}
    BY <1>7, TopsAreCalls DEF CallsOf
  <2>6. \A u \in Txns \ {t} : txn'[u].from \in {NIL, txn[u].from}
    BY <1>16, <1>17 DEF NoTxn
  <2>. QED
    BY <2>1, <2>2, <2>4, <2>5, <2>6
<1>25. BufsOK'
  <2>1. \A a \in Bufs \ {b} : buf'[a] = buf[a] \/ buf'[a] = [buf[a] EXCEPT !.txn = NIL]
    BY <1>16, <1>17
  <2>. QED
    BY <1>18, <2>1, BufsNew DEF CallsInv
<1>. QED
  BY <1>2, <1>15, <1>22, <1>23, <1>24, <1>25 DEF CallsInv


-------------------------------------------------------------------------------
(* BC_FREE_BUFFER *)

\* The next one-way call moves from its node's list to that of the thread.
MoveOK(L, l, m, w, M) ==
    /\ M \in ListsOf /\ Once(M) /\ w \in Waiting(M) /\ w \in Held(L, l) /\ w \in Waiting(L)
    /\ \A x \in Place :
         /\ Held(M, x) = IF x = m THEN Held(L, x) \cup {w} ELSE Held(L, x) \ {w}
         /\ M[x] = IF x = m THEN Append(L[x], w) ELSE IF x = l THEN Tail(L[x]) ELSE L[x]

LEMMA MoveIs ==
    ASSUME NEW L \in ListsOf, Once(L), NEW l \in Place, L[l] # <<>>, NEW w \in Txns, w = Head(L[l]),
           NEW m \in Place, m # l
    PROVE  MoveOK(L, l, m, w, Put(Cut(L, l), m, w))
<1>. DEFINE K == Cut(L, l)
<1>1. /\ K \in ListsOf /\ Once(K) /\ Waiting(K) = Waiting(L) \ {w} /\ w \in Held(L, l)
      /\ \A x \in Place : Held(K, x) = Held(L, x) \ {w}
      /\ \A x \in Place : K[x] = IF x = l THEN Tail(L[l]) ELSE L[x]
  BY CutIs, ListAt
<1>. HIDE DEF K
<1>2. w \notin Waiting(K)
  BY <1>1
<1>. DEFINE M == Put(K, m, w)
<1>3. /\ M \in ListsOf /\ Once(M) /\ Waiting(M) = Waiting(K) \cup {w}
      /\ \A x \in Place : Held(M, x) = IF x = m THEN Held(K, x) \cup {w} ELSE Held(K, x)
      /\ \A x \in Place : M[x] = IF x = m THEN Append(K[m], w) ELSE K[x]
  <2>1. K \in ListsOf /\ Once(K) /\ m \in Place /\ w \in Txns /\ w \in Txns \cup {Complete} /\ w \notin Waiting(K)
    BY <1>1, <1>2
  <2>4. M \in ListsOf /\ Once(M)
    BY <2>1, PutIs
  <2>5. w \in Txns => Waiting(M) = Waiting(K) \cup {w}
    BY <2>1, PutIs
  <2>6. ASSUME NEW x \in Place
        PROVE  Held(M, x) = IF x = m /\ w \in Txns THEN Held(K, x) \cup {w} ELSE Held(K, x)
    BY ONLY <2>1, PutIs
  <2>2. /\ M \in ListsOf /\ Once(M) /\ Waiting(M) = Waiting(K) \cup {w}
        /\ \A x \in Place : Held(M, x) = IF x = m THEN Held(K, x) \cup {w} ELSE Held(K, x)
    BY <2>1, <2>4, <2>5, <2>6
  <2>3. \A x \in Place : M[x] = IF x = m THEN Append(K[m], w) ELSE K[x]
    BY <2>1, ListAt
  <2>. QED
    BY <2>2, <2>3
<1>. HIDE DEF M
<1>4. \A x \in Place :
         /\ Held(M, x) = IF x = m THEN Held(L, x) \cup {w} ELSE Held(L, x) \ {w}
         /\ M[x] = IF x = m THEN Append(L[x], w) ELSE IF x = l THEN Tail(L[x]) ELSE L[x]
  BY <1>1, <1>3
<1>5. M = Put(Cut(L, l), m, w)
  BY DEF M, K
<1>6. w \in Waiting(L)
  BY <1>1, HeldWaits
<1>7. MoveOK(L, l, m, w, M)
  BY <1>1, <1>3, <1>4, <1>6 DEF MoveOK
<1>. QED
  BY <1>5, <1>7

\* What the freed buffer's transaction, if there is one, is afterwards.
LEMMA FreedAside ==
    ASSUME TypeOK, BufferPointersAgree, QueueOK(txn, buf, Lists), NEW b \in Bufs,
           buf[b].live, buf[b].userFree, NEW t \in Txns, t = buf[b].txn,
           NEW M, t \notin Waiting(M), txn'[t] = [txn[t] EXCEPT !.buffer = NIL]
    PROVE  Aside(txn, buf, Lists, txn', buf', M, t) /\ t \notin Waiting(Lists)
<1>1. t # NIL /\ b # NIL /\ txn[t] \in Txn /\ txn[t].buffer = b /\ txn[t].live
  BY NilAssumption DEF BufferPointersAgree, PointersAgree, TypeOK
<1>2. t \notin Waiting(Lists)
  <2>. SUFFICES ASSUME NEW l \in Place, t \in Held(Lists, l) PROVE FALSE
    BY DEF Waiting
  <2>1. Fits(txn, buf, l, t)
    BY DEF QueueOK
  <2>. QED
    BY <1>1, <2>1 DEF Fits
<1>3. TxnOK(txn, buf, Waiting(Lists), t)
  BY DEF QueueOK
<1>4. IsCall(txn, buf, t)
  BY <1>1, <1>2, <1>3 DEF TxnOK
<1>5. /\ txn'[t].live = txn[t].live /\ txn'[t].oneway = txn[t].oneway /\ txn'[t].buffer = NIL
      /\ txn'[t].from = txn[t].from /\ txn'[t].fromParent = txn[t].fromParent
      /\ txn'[t].toThread = txn[t].toThread /\ txn'[t].toParent = txn[t].toParent
  <2>1. txn[t] \in Txn /\ txn'[t] = [txn[t] EXCEPT !.buffer = NIL]
    BY <1>1
  <2>. QED
    BY ONLY <2>1 DEF Txn
<1>6. IsCall(txn', buf', t)
  BY <1>4, <1>5 DEF IsCall
<1>7. TxnOK(txn', buf', Waiting(M), t)
  BY <1>1, <1>5, <1>6 DEF TxnOK
<1>8. \A l \in Place : t \notin Held(M, l)
  BY HeldWaits
<1>. QED
  BY <1>2, <1>4, <1>5, <1>6, <1>7, <1>8 DEF Aside

LEMMA FreeBufferCalls ==
    ASSUME TypeOK, TypeOK', BufferPointersAgree, CallsInv,
           NEW h \in Threads, NEW b \in Bufs, FreeBuffer(h, b)
    PROVE  CallsInv'
<1>. DEFINE n == buf[b].node
            t == buf[b].txn
            async == buf[b].async /\ n # NIL
            next == async /\ node[n].todo # <<>>
            w == Head(node[n].todo)
            l == <<"n", n>>
            m == <<"t", h>>
<1>1. /\ CanWrite(h) /\ ~lock.held
      /\ buf[b].live /\ buf[b].proc = ProcOf[h] /\ buf[b].userFree
      /\ txn' = IF t = NIL THEN txn ELSE [txn EXCEPT ![t].buffer = NIL]
      /\ buf' = [buf EXCEPT ![b] = NoBuf]
      /\ node' = IF next THEN [node EXCEPT ![n].todo = Tail(@)]
                 ELSE IF async THEN [node EXCEPT ![n].async = FALSE] ELSE node
      /\ thr' = IF next THEN Enqueue(thr, h, w) ELSE thr
      /\ oops' \subseteq oops \cup {"async flag"}
      /\ UNCHANGED <<ptodo, lock>>
  BY DEF FreeBuffer, CanWrite, Running
<1>2. /\ QueueOK(txn, buf, Lists) /\ Flow(txn, buf, Lists, Stacks, NIL)
      /\ Lists \in ListsOf /\ Once(Lists)
  <2>1. lock.thread = NIL
    BY <1>1, UnlockedOK DEF CallsInv
  <2>. QED
    BY <2>1 DEF CallsInv, Flow, QueueOK
<1>3. /\ txn \in [Txns -> Txn] /\ buf \in [Bufs -> Buf] /\ thr \in [Threads -> Thread]
      /\ node \in [Nodes -> [async: BOOLEAN, todo: Seq(Txns)]]
      /\ txn' \in [Txns -> Txn] /\ t \in Txns \cup {NIL} /\ n \in Nodes \cup {NIL} /\ NIL \notin Txns
      /\ NIL \notin Bufs
  BY NilAssumption DEF TypeOK, Buf
<1>. HIDE DEF w, t, n
<1>4. /\ \A u \in Txns \ {t} : txn'[u] = txn[u]
      /\ t \in Txns => txn'[t] = [txn[t] EXCEPT !.buffer = NIL]
      /\ buf'[b] = NoBuf /\ \A a \in Bufs \ {b} : buf'[a] = buf[a]
  BY <1>1, <1>3
<1>5. \A u \in Txns \ {t} : txn[u].buffer \in (Bufs \ {b}) \cup {NIL}
  <2>. SUFFICES ASSUME NEW u \in Txns, txn[u].buffer = b PROVE u = t
    BY <1>3 DEF Txn
  <2>. QED
    BY <1>3 DEF BufferPointersAgree, PointersAgree, t
<1>6. \A u \in Txns \ {t} : Same(txn, buf, txn', buf', u)
  BY <1>4, <1>5 DEF Same
<1>7. ErrOK(txn', thr')
  <2>1. \A g \in Threads : thr'[g].stack = thr[g].stack /\ thr'[g].err = thr[g].err /\ thr'[g].err2 = thr[g].err2
    BY <1>1, <1>3, ZenonT(60) DEF Enqueue, Thread
  <2>2. \A u \in Txns : txn'[u].from = txn[u].from
    <3>. SUFFICES ASSUME NEW u \in Txns PROVE txn'[u].from = txn[u].from
      OBVIOUS
    <3>1. txn[u] \in Txn
      BY <1>3
    <3>. QED
      BY <1>4, <3>1 DEF Txn
  <2>3. \A g \in Threads : thr[g].stack \in Txns \cup {NIL}
    BY <1>3 DEF Thread
  <2>4. ErrOK(txn, thr)
    BY DEF CallsInv
  <2>. QED
    BY <2>1, <2>2, <2>3, <2>4 DEF ErrOK
<1>8. BufsOK'
  <2>1. BufsOK /\ NoBuf.live = FALSE
    BY DEF CallsInv, NoBuf
  <2>2. \A a \in Bufs : buf'[a] = buf[a] \/ buf'[a] = NoBuf
    BY <1>4
  <2>. QED
    BY <2>1, <2>2 DEF BufsOK
<1>9. LockOK' /\ lock'.thread = NIL
  BY <1>1, LockKept
<1>10. Stacks' = Stacks
  <2>1. \A g \in Threads : thr'[g].stack = thr[g].stack
    BY <1>1, <1>3 DEF Enqueue, Thread
  <2>. QED
    BY <2>1, StacksKept
<1>11. oops' \subseteq {"async flag"}
  BY <1>1 DEF CallsInv
<1>12. CASE ~next
  <2>1. Lists' = Lists
    <3>1. \A x \in Nodes : node'[x].todo = node[x].todo
      BY <1>1, <1>3, <1>12
    <3>. QED
      BY <1>1, <1>12, <3>1, ListsKept
  <2>2. \A u \in Txns \ {t} : /\ Same(txn, buf, txn', buf', u)
                              /\ \A x \in Place : u \in Held(Lists, x) <=> u \in Held(Lists, x)
    BY <1>6
  <2>3. \A u \in {t} \cap Txns : Aside(txn, buf, Lists, txn', buf', Lists, u)
    <3>. SUFFICES ASSUME t \in Txns PROVE Aside(txn, buf, Lists, txn', buf', Lists, t)
      OBVIOUS
    <3>1. t \notin Waiting(Lists)
      <4>. SUFFICES ASSUME NEW x \in Place, t \in Held(Lists, x) PROVE FALSE
        BY DEF Waiting
      <4>1. Fits(txn, buf, x, t) /\ txn[t].buffer = b
        BY <1>2, <1>3 DEF QueueOK, BufferPointersAgree, PointersAgree, t
      <4>. QED
        BY <1>1, <4>1 DEF Fits
    <3>. QED
      BY <1>1, <1>2, <1>4, <3>1, FreedAside DEF t
  <2>4. Flow(txn', buf', Lists, Stacks, NIL)
    BY <1>2, <1>3, <2>2, <2>3, FlowSame
  <2>. QED
    BY <1>7, <1>8, <1>9, <1>10, <1>11, <2>1, <2>4 DEF CallsInv
<1>13. CASE next
  <2>1. /\ n \in Nodes /\ node[n].todo # <<>> /\ w \in Txns /\ l \in Place /\ m \in Place /\ m # l
        /\ Lists[l] = node[n].todo /\ w = Head(Lists[l])
    <3>1. n \in Nodes /\ node[n].todo # <<>>
      BY <1>3, <1>13
    <3>2. node[n].todo \in Seq(Txns)
      BY <1>3, <3>1
    <3>. QED
      BY <3>1, <3>2, PlaceIs, ListsIs DEF w
  <2>. DEFINE M == Put(Cut(Lists, l), m, w)
  <2>2. /\ M \in ListsOf /\ Once(M) /\ w \in Waiting(M) /\ w \in Held(Lists, l) /\ w \in Waiting(Lists)
        /\ \A x \in Place : /\ Held(M, x) = IF x = m THEN Held(Lists, x) \cup {w} ELSE Held(Lists, x) \ {w}
                            /\ M[x] = IF x = m THEN Append(Lists[x], w)
                                      ELSE IF x = l THEN Tail(Lists[x]) ELSE Lists[x]
    <3>. HIDE DEF l, m
    <3>1. MoveOK(Lists, l, m, w, M)
      BY <1>2, <2>1, MoveIs
    <3>. QED
      BY <3>1 DEF MoveOK
  <2>. HIDE DEF M
  <2>3. /\ Fits(txn, buf, l, w) /\ TxnOK(txn, buf, Waiting(Lists), w)
        /\ buf[b].async /\ n # NIL /\ ProcOf[h] = Owner[n]
    BY <1>1, <1>2, <1>13, <2>1, <2>2 DEF QueueOK, CallsInv, BufsOK, n
  <2>4. w # t
    <3>. SUFFICES ASSUME w = t PROVE FALSE
      OBVIOUS
    <3>1. txn[w].buffer = b
      BY <1>3, <2>1, ZenonT(60) DEF BufferPointersAgree, PointersAgree, t
    <3>. QED
      BY <1>1, <2>3, <3>1 DEF Fits
  <2>5. /\ txn[w].buffer \in Bufs \ {b} /\ txn'[w] = txn[w]
        /\ buf'[txn[w].buffer] = buf[txn[w].buffer]
    BY <1>4, <1>5, <2>1, <2>3, <2>4 DEF Fits
  <2>6. Lists' = M
    <3>1. ASSUME NEW g \in Threads PROVE thr'[g].todo = M[<<"t", g>>]
      <4>1. <<"t", g>> \in Place /\ Lists[<<"t", g>>] = thr[g].todo /\ <<"t", g>> # l
        BY ListsIs, PlaceIs
      <4>2. thr'[g].todo = IF g = h THEN Append(thr[g].todo, w) ELSE thr[g].todo
        BY <1>1, <1>3, <1>13, ZenonT(60) DEF Enqueue, Thread
      <4>. QED
        BY <2>2, <4>1, <4>2
    <3>2. ASSUME NEW q \in Procs PROVE ptodo'[q] = M[<<"p", q>>]
      <4>1. <<"p", q>> \in Place /\ Lists[<<"p", q>>] = ptodo[q] /\ <<"p", q>> # l /\ <<"p", q>> # m
        BY ListsIs, PlaceIs
      <4>. QED
        BY <1>1, <2>2, <4>1
    <3>3. ASSUME NEW x \in Nodes PROVE node'[x].todo = M[<<"n", x>>]
      <4>1. <<"n", x>> \in Place /\ Lists[<<"n", x>>] = node[x].todo /\ <<"n", x>> # m
        BY ListsIs, PlaceIs
      <4>2. node'[x].todo = IF x = n THEN Tail(node[x].todo) ELSE node[x].todo
        BY <1>1, <1>3, <1>13
      <4>. QED
        BY <2>2, <4>1, <4>2
    <3>. QED
      BY <2>2, <3>1, <3>2, <3>3, ListsBecome
  <2>7. Aside(txn, buf, Lists, txn', buf', M, w)
    <3>1. ~IsCall(txn, buf, w) /\ ~IsCall(txn', buf', w)
      BY <2>3, <2>5 DEF IsCall, Fits
    <3>2. TxnOK(txn', buf', Waiting(M), w)
      BY <2>2, <2>3, <2>5, <3>1 DEF TxnOK
    <3>3. ASSUME NEW x \in Place, w \in Held(M, x) PROVE Fits(txn', buf', x, w)
      <4>1. x = m
        BY <2>2, <3>3
      <4>. QED
        BY <2>3, <2>5, <4>1 DEF Fits
    <3>. QED
      BY <3>1, <3>2, <3>3 DEF Aside
  <2>8. ASSUME t \in Txns PROVE Aside(txn, buf, Lists, txn', buf', M, t)
    <3>1. t \notin Waiting(M)
      <4>. SUFFICES ASSUME NEW x \in Place, t \in Held(M, x) PROVE FALSE
        BY <2>8 DEF Waiting
      <4>1. Fits(txn, buf, x, t) /\ txn[t].buffer = b
        BY <1>2, <1>3, <2>2, <2>4, <2>8, SMTT(60) DEF QueueOK, BufferPointersAgree, PointersAgree, t
      <4>. QED
        BY <1>1, <4>1 DEF Fits
    <3>. QED
      BY <1>1, <1>2, <1>4, <2>8, <3>1, FreedAside DEF t
  <2>9. \A u \in Txns \ {t, w} : /\ Same(txn, buf, txn', buf', u)
                                 /\ \A x \in Place : u \in Held(M, x) <=> u \in Held(Lists, x)
    BY <1>6, <2>2
  <2>10. Flow(txn', buf', M, Stacks, NIL)
    <3>1. \A u \in {t, w} \cap Txns : Aside(txn, buf, Lists, txn', buf', M, u)
      BY <2>7, <2>8
    <3>. QED
      BY <1>2, <1>3, <2>2, <2>9, <3>1, FlowSame
  <2>. QED
    BY <1>7, <1>8, <1>9, <1>10, <1>11, <2>6, <2>10 DEF CallsInv
<1>. QED
  BY <1>12, <1>13

\* A thread takes the first item of a list for itself, a transaction.
ReadFrom(h, l, t) ==
    /\ l \in Place /\ Lists[l] # <<>> /\ t = Head(Lists[l]) /\ t \in Txns
    /\ l = <<"t", h>> \/ (l = <<"p", ProcOf[h]>> /\ thr[h].stack = NIL /\ thr[h].err = "BR_OK")
    /\ Lists' = Cut(Lists, l)

LEMMA ReadFromIs ==
    ASSUME TypeOK, TypeOK', NEW h \in Threads, ReadTxn(h)
    PROVE  \E l \in Place : ReadFrom(h, l, NextTxn(h))
<1>1. NextTxn(h) \in Txns /\ ProcOf[h] \in Procs /\ thr \in [Threads -> Thread]
  BY NextTxnType, ProcOfAssumption DEF TypeOK
<1>2. node' = node
  BY DEF ReadTxn
<1>3. CASE thr[h].todo # <<>>
  <2>1. \A g \in Threads : thr'[g].todo = IF g = h THEN Tail(thr[h].todo) ELSE thr[g].todo
    <3>1. \A g \in Threads : Dequeued(h)[g].todo = IF g = h THEN Tail(thr[h].todo) ELSE thr[g].todo
      BY <1>1, <1>3 DEF Dequeued, Dequeue, Thread
    <3>2. Dequeued(h) \in [Threads -> [stack: Txns \cup {NIL}, todo: Seq(Txns \cup {Complete}),
                                       err: Codes, err2: Codes, late: BOOLEAN]]
      <4>1. Tail(thr[h].todo) \in Seq(Txns \cup {Complete})
        BY <1>1, <1>3 DEF Thread
      <4>. QED
        BY <1>1, <1>3, <4>1 DEF Dequeued, Dequeue, Thread
    <3>3. thr' = Dequeued(h) \/ thr' = [Dequeued(h) EXCEPT ![h].stack = NextTxn(h)]
      BY DEF ReadTxn
    <3>. QED
      BY <3>1, <3>2, <3>3
  <2>2. ptodo' = ptodo
    BY <1>3 DEF ReadTxn
  <2>3. Lists' = Cut(Lists, <<"t", h>>)
    BY <1>2, <1>3, <2>1, <2>2, ThreadCut
  <2>4. <<"t", h>> \in Place /\ Lists[<<"t", h>>] = thr[h].todo /\ NextTxn(h) = Head(thr[h].todo)
    BY <1>3, PlaceIs, ListsIs DEF NextTxn
  <2>. QED
    BY <1>1, <1>3, <2>3, <2>4 DEF ReadFrom
<1>4. CASE thr[h].todo = <<>>
  <2>1. ProcTxn(h)
    BY <1>4 DEF ReadTxn, OwnTxn, OwnWork
  <2>2. \A g \in Threads : thr'[g].todo = thr[g].todo
    <3>1. thr' = thr \/ thr' = [thr EXCEPT ![h].stack = NextTxn(h)]
      BY <1>4 DEF ReadTxn, Dequeued
    <3>. SUFFICES ASSUME NEW g \in Threads PROVE thr'[g].todo = thr[g].todo
      OBVIOUS
    <3>2. thr[g] \in Thread /\ thr[h] \in Thread
      BY <1>1
    <3>3. thr'[g] = thr[g] \/ thr'[g] = [thr[g] EXCEPT !.stack = NextTxn(h)]
      BY ONLY <1>1, <3>1, g \in Threads
    <3>. QED
      BY ONLY <3>2, <3>3 DEF Thread
  <2>3. ptodo' = [ptodo EXCEPT ![ProcOf[h]] = Tail(@)] /\ ptodo[ProcOf[h]] # <<>>
    BY <1>4, <2>1 DEF ReadTxn, ProcTxn
  <2>4. Lists' = Cut(Lists, <<"p", ProcOf[h]>>)
    BY <1>1, <1>2, <2>2, <2>3, ProcCut
  <2>5. /\ <<"p", ProcOf[h]>> \in Place /\ Lists[<<"p", ProcOf[h]>>] = ptodo[ProcOf[h]]
        /\ NextTxn(h) = Head(ptodo[ProcOf[h]])
    BY <1>1, <1>4, PlaceIs, ListsIs DEF NextTxn
  <2>6. thr[h].stack = NIL /\ thr[h].err = "BR_OK"
    BY <2>1 DEF ProcTxn
  <2>. QED
    BY <1>1, <2>3, <2>4, <2>5, <2>6 DEF ReadFrom
<1>. QED
  BY <1>3, <1>4

LEMMA ReadTxnCalls ==
    ASSUME TypeOK, TypeOK', BufferPointersAgree, CallsInv, NEW h \in Threads, ReadTxn(h)
    PROVE  CallsInv'
<1>. DEFINE t == NextTxn(h)
            b == txn[t].buffer
            call == buf[b].node # NIL /\ ~txn[t].oneway
            C == CallsOf(txn, buf)
            Q == Unread(txn, buf, Lists)
<1>1. PICK l \in Place : ReadFrom(h, l, t)
  BY ReadFromIs
<1>. DEFINE M == Cut(Lists, l)
<1>2. /\ Lists[l] # <<>> /\ t = Head(Lists[l]) /\ t \in Txns
      /\ l = <<"t", h>> \/ (l = <<"p", ProcOf[h]>> /\ thr[h].stack = NIL /\ thr[h].err = "BR_OK")
      /\ Lists' = M
  BY <1>1 DEF ReadFrom
<1>3. /\ QueueOK(txn, buf, Lists) /\ Flow(txn, buf, Lists, Stacks, NIL) /\ Lists \in ListsOf /\ Once(Lists)
      /\ lock' = lock /\ ~lock.held /\ oops \subseteq {"async flag"}
  <2>1. ~lock.held /\ lock' = lock
    BY DEF ReadTxn, Running
  <2>2. lock.thread = NIL
    BY <2>1, LockKept
  <2>. QED
    BY <2>1, <2>2 DEF CallsInv, Flow, QueueOK
<1>. HIDE DEF t
<1>4. /\ M \in ListsOf /\ Once(M) /\ t \in Held(Lists, l) /\ Waiting(M) = Waiting(Lists) \ {t}
      /\ \A m \in Place : Held(M, m) = Held(Lists, m) \ {t}
  BY <1>2, <1>3, CutIs
<1>. HIDE DEF M
<1>5. Fits(txn, buf, l, t) /\ TxnOK(txn, buf, Waiting(Lists), t) /\ t \in Waiting(Lists)
  BY <1>2, <1>3, <1>4, HeldWaits DEF QueueOK
<1>6. /\ b # NIL /\ b \in Bufs /\ txn[t].live /\ t # NIL /\ txn[t] \in Txn /\ buf[b].live /\ buf[b].txn = t
      /\ buf[b] \in Buf
  <2>1. b # NIL /\ txn[t].live
    BY <1>5 DEF Fits
  <2>2. txn[t] \in Txn
    BY <1>2 DEF TypeOK
  <2>3. b \in Bufs
    BY <2>1, <2>2 DEF Txn
  <2>. QED
    BY <1>2, <2>1, <2>2, <2>3, NilAssumption DEF TypeOK, BufferPointersAgree, PointersAgree
<1>7. /\ buf' = [buf EXCEPT ![b].userFree = TRUE, ![b].txn = IF call THEN @ ELSE NIL]
      /\ txn' = IF call THEN [txn EXCEPT ![t].toThread = h, ![t].toParent = thr[h].stack]
                ELSE Freed(txn, {t})
      /\ thr' = IF call THEN [Dequeued(h) EXCEPT ![h].stack = t] ELSE Dequeued(h)
      /\ oops' = oops
  BY <1>6 DEF ReadTxn, t
<1>8. call <=> t \in C
  BY <1>2, <1>6 DEF CallsOf, IsCall
<1>9. \A u \in Txns \ {t} : txn[u].buffer \in (Bufs \ {b}) \cup {NIL}
  <2>. SUFFICES ASSUME NEW u \in Txns, txn[u].buffer = b PROVE u = t
    BY DEF TypeOK, Txn
  <2>. QED
    BY <1>6 DEF BufferPointersAgree, PointersAgree
<1>10. /\ \A a \in Bufs \ {b} : buf'[a] = buf[a]
       /\ buf'[b].live /\ buf'[b].proc = buf[b].proc /\ buf'[b].node = buf[b].node
       /\ buf'[b].async = buf[b].async
  BY <1>6, <1>7 DEF TypeOK, Buf
<1>11. BufsOK'
  <2>1. BufsOK
    BY DEF CallsInv
  <2>2. buf[b].async => buf[b].node # NIL /\ buf[b].proc = Owner[buf[b].node]
    BY <1>6, <2>1 DEF BufsOK
  <2>. QED
    BY <1>10, <2>1, <2>2, BufsNew
<1>12. LockOK' /\ lock'.thread = NIL
  BY <1>3, LockKept
<1>13. \A g \in Threads : /\ thr'[g].err = thr[g].err /\ thr'[g].err2 = thr[g].err2
                          /\ thr'[g].stack = IF call /\ g = h THEN t ELSE thr[g].stack
  <2>1. Dequeued(h) \in [Threads -> Thread]
    <3>1. CASE thr[h].todo # <<>>
      <4>1. Dequeue(thr, h) \in [Threads -> Thread]
        BY <3>1, TodoType DEF TypeOK
      <4>2. [Dequeue(thr, h)[h] EXCEPT !.late = FALSE] \in Thread
        BY <4>1 DEF Thread
      <4>. QED
        BY <3>1, <4>1, <4>2 DEF Dequeued
    <3>2. CASE thr[h].todo = <<>>
      BY <3>2 DEF Dequeued, TypeOK
    <3>. QED
      BY <3>1, <3>2
  <2>2. \A g \in Threads : /\ Dequeued(h)[g].err = thr[g].err /\ Dequeued(h)[g].err2 = thr[g].err2
                           /\ Dequeued(h)[g].stack = thr[g].stack
    BY DEF TypeOK, Dequeued, Dequeue, Thread
  <2>. QED
    BY <1>7, <2>1, <2>2 DEF Thread
<1>14. txn \in [Txns -> Txn] /\ txn' \in [Txns -> Txn] /\ buf \in [Bufs -> Buf]
  BY DEF TypeOK
<1>15. \A g \in Threads : thr[g].stack \in C \cup {NIL}
  BY TopsAreCalls
<1>16. CASE ~call
  <2>1. txn' = Freed(txn, {t}) /\ txn'[t] = NoTxn /\ \A u \in Txns \ {t} : txn'[u] = txn[u]
    BY <1>2, <1>7, <1>16 DEF Freed
  <2>2. \A u \in Txns \ {t} : /\ Same(txn, buf, txn', buf', u)
                              /\ \A m \in Place : u \in Held(M, m) <=> u \in Held(Lists, m)
    BY <1>4, <1>9, <1>10, <2>1 DEF Same
  <2>3. Aside(txn, buf, Lists, txn', buf', M, t)
    <3>1. ~IsCall(txn', buf', t) /\ ~IsCall(txn, buf, t)
      BY <1>2, <1>8, <1>16, <2>1 DEF IsCall, NoTxn, CallsOf
    <3>2. t \notin Waiting(M)
      BY <1>4
    <3>3. TxnOK(txn', buf', Waiting(M), t)
      BY <2>1 DEF TxnOK, NoTxn, IsCall
    <3>4. \A m \in Place : t \notin Held(M, m)
      BY <1>4
    <3>. QED
      BY <3>1, <3>3, <3>4 DEF Aside
  <2>4. \A g \in Threads : thr'[g].stack = thr[g].stack
    BY <1>13, <1>16
  <2>5. Flow(txn', buf', M, Stacks, NIL)
    <3>1. \A u \in {t} \cap Txns : Aside(txn, buf, Lists, txn', buf', M, u)
      BY <2>3
    <3>. QED
      BY <1>3, <1>4, <1>14, <2>2, <3>1, FlowSame
  <2>6. Stacks' = Stacks
    BY <2>4, StacksKept
  <2>7. ErrOK(txn', thr')
    <3>1. \A g \in Threads : thr[g].stack # NIL => txn'[thr[g].stack] = txn[thr[g].stack]
      BY <1>8, <1>15, <1>16, <2>1 DEF CallsOf
    <3>2. ErrOK(txn, thr)
      BY DEF CallsInv
    <3>. QED
      BY <1>13, <2>4, <3>1, <3>2 DEF ErrOK
  <2>. QED
    BY <1>2, <1>3, <1>7, <1>11, <1>12, <2>5, <2>6, <2>7 DEF CallsInv
<1>17. CASE call
  <2>1. /\ \A u \in Txns \ {t} : txn'[u] = txn[u]
        /\ txn'[t] = [txn[t] EXCEPT !.toThread = h, !.toParent = thr[h].stack]
    BY <1>2, <1>7, <1>14, <1>17
  <2>2. /\ txn'[t].from = txn[t].from /\ txn'[t].fromParent = txn[t].fromParent
        /\ txn'[t].toThread = h /\ txn'[t].toParent = thr[h].stack
        /\ txn'[t].live = txn[t].live /\ txn'[t].oneway = txn[t].oneway /\ txn'[t].buffer = b
    BY <1>6, <2>1, ZenonT(60) DEF Txn
  <2>3. \A u \in Txns \ {t} : /\ Same(txn, buf, txn', buf', u)
                              /\ \A m \in Place : u \in Held(M, m) <=> u \in Held(Lists, m)
    BY <1>4, <1>9, <1>10, <2>1 DEF Same
  <2>4. IsCall(txn', buf', t) /\ t \in C /\ t \notin Waiting(M)
    BY <1>2, <1>4, <1>8, <1>10, <1>17, <2>2 DEF IsCall, CallsOf
  <2>5. h # NIL /\ buf[b].proc = ProcOf[h]
    BY <1>2, <1>5, NilAssumption DEF Fits
  <2>6. TxnOK(txn', buf', Waiting(M), t)
    <3>1. buf[b].async = txn[t].oneway
      BY <1>5, <1>6 DEF TxnOK
    <3>. QED
      BY <1>6, <1>10, <2>2, <2>4, <2>5, <3>1 DEF TxnOK
  <2>7. \A m \in Place : t \notin Held(M, m)
    BY <1>4
  <2>8. /\ QueueOK(txn', buf', M)
        /\ \A u \in Txns \ {t} : /\ u \in CallsOf(txn', buf') <=> u \in CallsOf(txn, buf)
                                 /\ u \in Waiting(M) <=> u \in Waiting(Lists)
    <3>1. \A u \in {t} \cap Txns : /\ TxnOK(txn', buf', Waiting(M), u)
                                   /\ \A m \in Place : u \in Held(M, m) => Fits(txn', buf', m, u)
      BY <2>6, <2>7
    <3>2. Kept(txn, buf, Lists, txn', buf', M, {t})
      BY <1>3, <1>4, <2>3, <3>1, QueueStep
    <3>. QED
      BY <3>2 DEF Kept
  <2>9. CallsOf(txn', buf') = C
    <3>1. CallsOf(txn', buf') \subseteq Txns /\ C \subseteq Txns /\ t \in CallsOf(txn', buf')
      BY <1>2, <2>4 DEF CallsOf
    <3>. QED
      BY <2>4, <2>8, <3>1
  <2>10. Unread(txn', buf', M) = Q \ {t} /\ t \in Q
    BY <1>4, <1>5, <2>4, <2>9 DEF Unread
  <2>. DEFINE pr == ProcAt(txn, buf)
              pq == ProcAt(txn', buf')
  <2>11. Woven(C, Q, txn, Stacks) /\ Targets(Q, txn, Stacks, pr, NIL)
    BY <1>3 DEF Flow
  <2>12. txn[t].toThread = h \/ (txn[t].toThread = NIL /\ pr[t] = ProcOf[h] /\ Stacks[h] = NIL)
    BY <1>2, <1>5, <1>17, <2>5 DEF Fits, ProcAt, Stacks
  <2>13. \A u \in C \ {t} : txn'[u] = txn[u]
    BY <2>1 DEF CallsOf
  <2>14. \A g \in Threads : Stacks'[g] = IF g = h THEN t ELSE Stacks[g]
    BY <1>13, <1>17 DEF Stacks
  <2>15. txn'[t].toParent = Stacks[h]
    BY <2>2 DEF Stacks
  <2>16. \A u \in Q \ {t} : pq[u] = pr[u]
    <3>. SUFFICES ASSUME NEW u \in Q \ {t} PROVE pq[u] = pr[u]
      OBVIOUS
    <3>1. u \in Txns \ {t} /\ u \in Waiting(Lists)
      BY DEF Unread, CallsOf
    <3>2. txn[u].buffer # NIL
      BY <1>3, <3>1, WaitingBuffer
    <3>. QED
      BY <2>3, <3>1, <3>2 DEF Same, ProcAt
  <2>. HIDE DEF C, Q, pr, pq, call, b
  <2>17. WovenTaken(C, Q, txn, Stacks, pr, h, t, txn', Stacks', pq)
    BY <1>14, <2>2, <2>10, <2>11, <2>12, <2>13, <2>14, <2>15, <2>16, WovenRead
  <2>18. Flow(txn', buf', M, Stacks', NIL)
    BY <2>8, <2>9, <2>10, <2>17 DEF WovenTaken, Flow, pq
  <2>19. ErrOK(txn', thr')
    <3>. SUFFICES ASSUME NEW g \in Threads, thr'[g].err2 # "BR_OK"
                  PROVE  thr'[g].err # "BR_OK" /\ (thr'[g].stack # NIL => txn'[thr'[g].stack].from # g)
      BY DEF ErrOK
    <3>1. thr[g].err2 # "BR_OK"
      BY <1>13
    <3>2. thr[g].err # "BR_OK" /\ (thr[g].stack # NIL => txn[thr[g].stack].from # g)
      BY <3>1 DEF CallsInv, ErrOK
    <3>3. thr'[g].err # "BR_OK"
      BY <1>13, <3>2
    <3>4. CASE g = h
      <4>1. l = <<"t", h>>
        BY <1>2, <3>2, <3>4
      <4>2. txn[t].toThread = h
        BY <1>5, <1>17, <4>1 DEF Fits, call
      <4>3. Elsewhere(C, txn)
        BY <2>11 DEF Woven, Shape
      <4>4. txn[t].from # h
        BY <2>4, <2>5, <4>2, <4>3 DEF Elsewhere
      <4>5. thr'[g].stack = t
        BY <1>13, <1>17, <3>4
      <4>. QED
        BY <2>2, <3>3, <3>4, <4>4, <4>5
    <3>5. CASE g # h
      <4>1. thr'[g].stack = thr[g].stack
        BY <1>13, <3>5
      <4>2. thr[g].stack # NIL => thr[g].stack \in Txns
        BY <1>15 DEF C, CallsOf
      <4>3. thr[g].stack # NIL => txn'[thr[g].stack].from = txn[thr[g].stack].from
        BY <2>1, <2>2, <4>2
      <4>. QED
        BY <3>2, <3>3, <4>1, <4>3
    <3>. QED
      BY <3>4, <3>5
  <2>. QED
    BY <1>2, <1>3, <1>7, <1>11, <1>12, <2>18, <2>19 DEF CallsInv
<1>. QED
  BY <1>16, <1>17

-------------------------------------------------------------------------------
(* The invariant *)

LEMMA InitCalls ==
    ASSUME Init
    PROVE  CallsInv
<1>1. /\ txn = [t \in Txns |-> NoTxn] /\ buf = [b \in Bufs |-> NoBuf] /\ lock = Unlocked
      /\ thr = [h \in Threads |-> NewThread] /\ oops = {}
  BY DEF Init
<1>2. /\ \A l \in Place : Lists[l] = <<>>
      /\ Lists \in ListsOf /\ \A l \in Place : Held(Lists, l) = {}
  <2>1. \A l \in Place : Lists[l] = <<>>
    <3>1. \A h \in Threads : thr[h].todo = <<>>
      BY DEF Init, NewThread
    <3>2. \A p \in Procs : ptodo[p] = <<>>
      BY DEF Init
    <3>3. \A n \in Nodes : node[n].todo = <<>>
      BY DEF Init
    <3>4. \A h \in Threads : Lists[<<"t", h>>] = <<>>
      BY <3>1, PlaceIs DEF Lists
    <3>5. \A p \in Procs : Lists[<<"p", p>>] = <<>>
      BY <3>2, PlaceIs DEF Lists
    <3>6. \A n \in Nodes : Lists[<<"n", n>>] = <<>>
      BY <3>3, PlaceIs DEF Lists
    <3>. QED
      BY <3>4, <3>5, <3>6, PlaceIs
  <2>2. Lists = [l \in Place |-> Lists[l]]
    BY DEF Lists
  <2>3. <<>> \in Seq(Txns \cup {Complete}) /\ DOMAIN <<>> = {}
    OBVIOUS
  <2>4. Lists \in ListsOf
    BY <2>1, <2>2, <2>3 DEF ListsOf
  <2>5. \A l \in Place : DOMAIN Lists[l] = {}
    BY <2>1, <2>3
  <2>. QED
    BY <2>1, <2>4, <2>5 DEF Held
<1>3. Once(Lists)
  BY <1>2 DEF Once
<1>4. /\ NoTxn.live = FALSE /\ NoTxn.buffer = NIL /\ NewThread.stack = NIL
      /\ NewThread.err2 = "BR_OK" /\ NoBuf.live = FALSE
  BY DEF NoTxn, NewThread, NoBuf
<1>5. \A t \in Txns : ~IsCall(txn, buf, t) /\ TxnOK(txn, buf, Waiting(Lists), t)
  BY <1>1, <1>4 DEF IsCall, TxnOK
<1>6. QueueOK(txn, buf, Lists)
  BY <1>2, <1>3, <1>5 DEF QueueOK
<1>7. CallsOf(txn, buf) = {} /\ Unread(txn, buf, Lists) = {}
  BY <1>5 DEF CallsOf, Unread
<1>8. \A h \in Threads : Stacks[h] = NIL
  BY <1>1, <1>4 DEF Stacks
<1>9. Woven({}, {}, txn, Stacks)
  <2>1. Linked({}, txn)
    BY DEF Linked
  <2>2. Topped({}, {}, txn, Stacks)
    BY <1>8 DEF Topped, Mem
  <2>3. Nested({}, {}, txn) /\ Below({}, {}, txn) /\ Between({}, {}, txn) /\ Elsewhere({}, txn)
    BY DEF Nested, Below, Between, Elsewhere
  <2>. QED
    BY <2>1, <2>2, <2>3 DEF Woven, Shape, Served, Single
<1>10. Targets({}, txn, Stacks, ProcAt(txn, buf), lock.thread)
  BY DEF Targets, Pooled, Awaited
<1>11. Flow(txn, buf, Lists, Stacks, lock.thread)
  BY <1>6, <1>7, <1>9, <1>10 DEF Flow
<1>12. ErrOK(txn, thr)
  BY <1>1, <1>4 DEF ErrOK
<1>13. LockOK
  BY <1>1 DEF LockOK, Unlocked
<1>14. BufsOK
  BY <1>1, <1>4 DEF BufsOK
<1>. QED
  BY <1>1, <1>11, <1>12, <1>13, <1>14 DEF CallsInv

\* The calls are linked, the stacks hold what their threads make and serve, and
\* every transaction is queued at most once, with its buffer.  A reply that
\* fails over a cookie reports nothing and leaves its caller's stack as it is
\* (the finding), so that senders of such objects are assumed away.
THEOREM CallsInvAlways ==
    ASSUME ~CookieMismatch
    PROVE  Spec => []CallsInv
<1>1. Init => CallsInv
  BY InitCalls
<1>2. TypeOK /\ TypeOK' /\ BufferPointersAgree /\ CallsInv /\ [Next]_vars => CallsInv'
  <2>. SUFFICES ASSUME TypeOK, TypeOK', BufferPointersAgree, CallsInv, [Next]_vars PROVE CallsInv'
    OBVIOUS
  <2>1. ASSUME NEW h \in Threads, NEW n \in Nodes, NEW oneway \in BOOLEAN,
               CallRefused(h, n, oneway) \/ CallFails(h, n, oneway)
        PROVE  CallsInv'
    BY <2>1, RefuseCalls DEF CallRefused, CallFails
  <2>2. ASSUME NEW h \in Threads, NEW n \in Nodes, Call(h, n) \/ CallOneWay(h, n) PROVE CallsInv'
    BY <2>2, CallCalls, CallOneWayCalls
  <2>3. ASSUME NEW h \in Threads, ReplyRefused(h) PROVE CallsInv'
    BY <2>3, RefuseCalls DEF ReplyRefused
  <2>4. ASSUME NEW h \in Threads, ReplyToDead(h) \/ ReplyFails(h) \/ Reply(h) PROVE CallsInv'
    BY <2>4, ReplyToDeadCalls, ReplyFailsCalls, ReplyCalls
  <2>5. ASSUME NEW h \in Threads, NEW b \in Bufs, FreeBuffer(h, b) PROVE CallsInv'
    BY <2>5, FreeBufferCalls
  <2>6. ASSUME NEW h \in Threads, Read(h) PROVE CallsInv'
    BY <2>6, ReadErrorCalls, ReadCompleteCalls, ReadTxnCalls DEF Read
  <2>7. ASSUME NEW h \in Threads, ThreadExit(h) PROVE CallsInv'
    BY <2>7, ThreadExitCalls
  <2>8. ASSUME NEW p \in Procs, Close(p) \/ DeferredRelease(p) PROVE CallsInv'
    BY <2>8, CloseCalls, DeferredReleaseCalls
  <2>9. ASSUME NEW h \in Threads, ReleaseThread(h) \/ ReleaseThreadWork(h) \/ ThreadFreed(h)
        PROVE  CallsInv'
    BY <2>9, ReleaseThreadCalls, ReleaseThreadWorkCalls, ThreadFreedCalls
  <2>10. ASSUME NEW n \in Nodes, ReleaseNodeWork(n) PROVE CallsInv'
    BY <2>10, ReleaseNodeWorkCalls
  <2>11. ASSUME NEW p \in Procs, ReleaseProcWork(p) \/ ReleaseProc(p) PROVE CallsInv'
    BY <2>11, ReleaseProcWorkCalls, ReleaseProcCalls
  <2>12. ASSUME UNCHANGED vars PROVE CallsInv'
    <3>1. Lists' = Lists /\ Stacks' = Stacks
      BY <2>12 DEF vars, Lists, Stacks
    <3>2. UNCHANGED <<txn, buf, thr, lock, oops>>
      BY <2>12 DEF vars
    <3>. QED
      BY <3>1, <3>2 DEF CallsInv, LockOK, BufsOK
  <2>. QED
    BY <2>1, <2>2, <2>3, <2>4, <2>5, <2>6, <2>7, <2>8, <2>9, <2>10, <2>11, <2>12
       DEF Next, Write, Worker
<1>. QED
  BY <1>1, <1>2, TypeCorrect, PointersAgreeAlways, PTL DEF Spec

\* A queued transaction owns its buffer, in the process that will read it.
THEOREM QueuedBufferAlways ==
    ASSUME ~CookieMismatch
    PROVE  Spec => []QueuedBufferHeld
<1>1. TypeOK /\ BufferPointersAgree /\ CallsInv => QueuedBufferHeld
  <2>. SUFFICES ASSUME TypeOK, BufferPointersAgree, CallsInv, NEW t \in Txns, Queued(t)
                PROVE  LET b == txn[t].buffer IN
                       /\ b # NIL /\ buf[b].live /\ buf[b].txn = t /\ ~buf[b].userFree
                       /\ \A h \in Threads : (\E i \in DOMAIN thr[h].todo : thr[h].todo[i] = t)
                                               => buf[b].proc = ProcOf[h]
    BY DEF QueuedBufferHeld
  <2>1. QueueOK(txn, buf, Lists)
    BY DEF CallsInv, Flow
  <2>2. \A l \in Place : t \in Held(Lists, l) => Fits(txn, buf, l, t)
    BY <2>1 DEF QueueOK
  <2>3. PICK l \in Place : t \in Held(Lists, l)
    BY QueuedIs DEF Waiting
  <2>4. txn[t].buffer # NIL /\ ~buf[txn[t].buffer].userFree
    BY <2>2, <2>3 DEF Fits
  <2>5. buf[txn[t].buffer].live /\ buf[txn[t].buffer].txn = t
    BY <2>4 DEF BufferPointersAgree, PointersAgree
  <2>6. ASSUME NEW h \in Threads, \E i \in DOMAIN thr[h].todo : thr[h].todo[i] = t
        PROVE  buf[txn[t].buffer].proc = ProcOf[h]
    <3>1. <<"t", h>> \in Place /\ Lists[<<"t", h>>] = thr[h].todo
      BY PlaceIs, ListsIs
    <3>2. t \in Held(Lists, <<"t", h>>)
      BY <2>6, <3>1 DEF Held
    <3>. QED
      BY <2>2, <3>1, <3>2 DEF Fits
  <2>. QED
    BY <2>4, <2>5, <2>6
<1>. QED
  BY <1>1, TypeCorrect, PointersAgreeAlways, CallsInvAlways, PTL

\* Server and caller agree on the call between them: "bad target transaction
\* stack" cannot happen, and binder_pop_transaction pops what is on top.
THEOREM ReplyTargetAlways ==
    ASSUME ~CookieMismatch
    PROVE  Spec => []ReplyTargetWaits
<1>1. TypeOK /\ CallsInv => ReplyTargetWaits
  BY TargetWaits
<1>. QED
  BY <1>1, TypeCorrect, CallsInvAlways, PTL

\* A chain of nested calls runs in one thread of each process.
THEOREM OneThreadAlways ==
    ASSUME ~CookieMismatch
    PROVE  Spec => []OneThreadPerProcess
<1>1. TypeOK /\ CallsInv => OneThreadPerProcess
  <2>. SUFFICES ASSUME TypeOK, CallsInv, NEW h \in Threads,
                       NEW x \in Chain(txn, thr[h].stack), NEW y \in Chain(txn, thr[h].stack),
                       txn[x].toThread # NIL, txn[y].from # NIL,
                       ProcOf[txn[x].toThread] = ProcOf[txn[y].from]
                PROVE  txn[x].toThread = txn[y].from
    BY DEF OneThreadPerProcess
  <2>. DEFINE C == CallsOf(txn, buf)
              s == thr[h].stack
  <2>1. Shape(C, Unread(txn, buf, Lists), txn, Stacks) /\ Single(C, txn)
    BY DEF CallsInv, Flow, Woven
  <2>2. Linked(C, txn) /\ C \subseteq Txns
    BY <2>1, ShapeCalls
  <2>3. txn \in [Txns -> Txn] /\ s \in C \cup {NIL} /\ s \in Txns \cup {NIL}
    BY <2>2, TopsAreCalls DEF TypeOK
  <2>. HIDE DEF C, s
  <2>4. Chain(txn, s) = Anc(txn, s) /\ Anc(txn, s) \subseteq C
    BY <2>2, <2>3, ChainIs, AncIn
  <2>5. x \in Anc(txn, s) /\ y \in Anc(txn, s)
    BY <2>4 DEF s
  <2>6. x \in Anc(txn, y) \/ y \in Anc(txn, x)
    BY <2>3, <2>5, AncTotal
  <2>. QED
    BY <2>1, <2>4, <2>5, <2>6 DEF Single
<1>. QED
  BY <1>1, TypeCorrect, CallsInvAlways, PTL

\* A call that waits for its answer is up the chain of a call that is queued,
\* or on top of the stack of the thread that serves it.
LEMMA CallHeld ==
    ASSUME TypeOK, CallsInv, NEW t \in CallsOf(txn, buf)
    PROVE  \/ \E h \in Threads : t \in Chain(txn, thr[h].stack)
           \/ \E x \in Txns : Queued(x) /\ t \in Chain(txn, x)
<1>. DEFINE C == CallsOf(txn, buf)
            Q == Unread(txn, buf, Lists)
<1>1. Shape(C, Q, txn, Stacks) /\ Served(C, Q, txn) /\ Topped(C, Q, txn, Stacks)
  BY DEF CallsInv, Flow, Woven, Shape
<1>2. Linked(C, txn) /\ C \subseteq Txns /\ txn \in [Txns -> Txn]
  BY <1>1, ShapeCalls DEF TypeOK
<1>. HIDE DEF C
<1>3. PICK l \in C : Childless(C, txn, l) /\ t \in Anc(txn, l)
  BY <1>2, LeafBelow DEF C
<1>4. l \in Txns /\ Chain(txn, l) = Anc(txn, l)
  BY <1>2, ChainIs
<1>5. CASE l \in Q
  <2>1. Queued(l)
    BY <1>4, <1>5, QueuedIs DEF Unread
  <2>. QED
    BY <1>3, <1>4, <2>1
<1>6. CASE l \notin Q
  <2>. DEFINE h == txn[l].toThread
  <2>1. h # NIL
    BY <1>1, <1>3, <1>6 DEF Served
  <2>2. h \in Threads
    BY <1>2, <1>4, <2>1 DEF Txn
  <2>3. l \in Mem(C, Q, txn, h)
    BY <1>6 DEF Mem
  <2>. HIDE DEF h, Q
  <2>4. l \in Anc(txn, Stacks[h]) /\ Stacks[h] \in C \cup {NIL} /\ Stacks[h] = thr[h].stack
    BY <1>1, <2>2, <2>3, ShapeTop DEF Topped, Stacks
  <2>5. Stacks[h] # NIL
    BY <2>4, AncNil
  <2>6. l = Stacks[h]
    BY <1>2, <1>3, <2>4, <2>5, ChildlessTop
  <2>. QED
    BY <1>3, <1>4, <2>2, <2>4, <2>6
<1>. QED
  BY <1>5, <1>6

\* Nothing points to a freed transaction, and none is left with no holder.
THEOREM NoDanglingAlways ==
    ASSUME ~CookieMismatch
    PROVE  Spec => []NoDanglingTransaction
<1>1. TypeOK /\ BufferPointersAgree /\ CallsInv => NoDanglingTransaction
  <2>. SUFFICES ASSUME TypeOK, BufferPointersAgree, CallsInv PROVE NoDanglingTransaction
    OBVIOUS
  <2>. DEFINE C == CallsOf(txn, buf)
  <2>1. \A x \in C : txn[x].live
    BY DEF CallsOf, IsCall
  <2>2. \A h \in Threads : thr[h].stack # NIL => txn[thr[h].stack].live
    BY <2>1, TopsAreCalls
  <2>3. \A b \in Bufs : buf[b].txn # NIL => txn[buf[b].txn].live
    <3>. SUFFICES ASSUME NEW b \in Bufs, buf[b].txn # NIL PROVE txn[buf[b].txn].live
      OBVIOUS
    <3>1. buf[b].txn \in Txns /\ txn[buf[b].txn].buffer = b /\ b # NIL
      BY NilAssumption DEF TypeOK, Buf, BufferPointersAgree, PointersAgree
    <3>. QED
      BY <3>1 DEF BufferPointersAgree, PointersAgree
  <2>4. QueueOK(txn, buf, Lists) /\ Shape(C, Unread(txn, buf, Lists), txn, Stacks)
    BY DEF CallsInv, Flow, Woven
  <2>5. ASSUME NEW t \in Txns, Queued(t) PROVE txn[t].live
    BY <2>4, <2>5, QueuedIs, WaitingBuffer
  <2>6. ASSUME NEW t \in Txns
        PROVE  /\ txn[t].fromParent # NIL => txn[txn[t].fromParent].live
               /\ txn[t].toParent # NIL => txn[txn[t].toParent].live
    <3>1. CASE t \in C
      BY <2>1, <2>4, <3>1, ShapeCalls
    <3>2. CASE t \notin C
      <4>1. TxnOK(txn, buf, Waiting(Lists), t) /\ ~IsCall(txn, buf, t)
        BY <2>4, <3>2 DEF QueueOK, CallsOf
      <4>. QED
        BY <4>1 DEF TxnOK, NoTxn
    <3>. QED
      BY <3>1, <3>2
  <2>7. ASSUME NEW t \in Txns, txn[t].live
        PROVE  \/ Queued(t)
               \/ \E h \in Threads : \E x \in Chain(txn, thr[h].stack) : x = t
               \/ \E x \in Txns : Queued(x) /\ t \in Chain(txn, x)
    <3>1. CASE t \in C
      BY <3>1, CallHeld
    <3>2. CASE t \notin C
      <4>1. TxnOK(txn, buf, Waiting(Lists), t) /\ ~IsCall(txn, buf, t)
        BY <2>4, <3>2 DEF QueueOK, CallsOf
      <4>2. t \in Waiting(Lists)
        BY <2>7, <4>1 DEF TxnOK
      <4>. QED
        BY <4>2, QueuedIs
    <3>. QED
      BY <3>1, <3>2
  <2>. QED
    BY <2>2, <2>3, <2>5, <2>6, <2>7 DEF NoDanglingTransaction
<1>. QED
  BY <1>1, TypeCorrect, PointersAgreeAlways, CallsInvAlways, PTL

-------------------------------------------------------------------------------
(* One-way calls *)

\* A one-way call's buffer that is queued or in the hands of user space.
InPlay(bs, b) == bs[b].live /\ bs[b].async /\ (bs[b].userFree \/ bs[b].txn # NIL)

AsyncOK(n) ==
    /\ \A b, c \in InDelivery(n) : b = c
    /\ node[n].async <=> InDelivery(n) # {} \/ n \in orphaned
    /\ n \in orphaned => InDelivery(n) = {}
    /\ node[n].todo # <<>> => node[n].async

\* The nodes of a process that is being released are past counting.
AsyncInv == \A n \in Nodes : Owner[n] # lock.proc => AsyncOK(n)

LEMMA InDeliveryIs ==
    ASSUME TypeOK, NEW n \in Nodes, NEW b \in Bufs
    PROVE  b \in InDelivery(n) <=>
             /\ InPlay(buf, b) /\ buf[b].node = n
             /\ \A t \in Held(Lists, <<"n", n>>) : txn[t].buffer # b
<1>1. Lists[<<"n", n>>] = node[n].todo /\ node[n].todo \in Seq(Txns)
  BY ListsIs DEF TypeOK
<1>2. \A i \in DOMAIN node[n].todo : node[n].todo[i] \in Txns
  BY <1>1
<1>3. (\A i \in DOMAIN node[n].todo : txn[node[n].todo[i]].buffer # b)
        <=> (\A t \in Held(Lists, <<"n", n>>) : txn[t].buffer # b)
  BY <1>1, <1>2 DEF Held
<1>. QED
  BY <1>3 DEF InDelivery, InPlay

LEMMA InDeliveryNext ==
    ASSUME TypeOK', NEW n \in Nodes, NEW b \in Bufs
    PROVE  b \in InDelivery(n)' <=>
             /\ InPlay(buf', b) /\ buf'[b].node = n
             /\ \A t \in Held(Lists', <<"n", n>>) : txn'[t].buffer # b
<1>1. Lists'[<<"n", n>>] = node'[n].todo /\ node'[n].todo \in Seq(Txns)
  BY PlaceIs DEF Lists, TypeOK
<1>2. \A i \in DOMAIN node'[n].todo : node'[n].todo[i] \in Txns
  BY <1>1
<1>3. (\A i \in DOMAIN node'[n].todo : txn'[node'[n].todo[i]].buffer # b)
        <=> (\A t \in Held(Lists', <<"n", n>>) : txn'[t].buffer # b)
  BY <1>1, <1>2 DEF Held
<1>. QED
  BY <1>3 DEF InDelivery, InPlay

\* A step that leaves the one-way calls of node n as they are.
LEMMA AsyncStays ==
    ASSUME TypeOK, TypeOK', NEW n \in Nodes, AsyncOK(n),
           node'[n] = node[n], n \in orphaned' <=> n \in orphaned,
           \A t \in Held(Lists, <<"n", n>>) : txn'[t].buffer = txn[t].buffer,
           \A b \in Bufs : InPlay(buf', b) /\ buf'[b].node = n <=> InPlay(buf, b) /\ buf[b].node = n
    PROVE  AsyncOK(n)'
<1>1. /\ Lists[<<"n", n>>] = node[n].todo /\ Lists'[<<"n", n>>] = node'[n].todo
      /\ Held(Lists', <<"n", n>>) = Held(Lists, <<"n", n>>)
  <2>1. Lists[<<"n", n>>] = node[n].todo /\ Lists'[<<"n", n>>] = node'[n].todo
    BY PlaceIs DEF Lists
  <2>. QED
    BY <2>1 DEF Held
<1>2. \A b \in Bufs : b \in InDelivery(n)' <=>
             /\ InPlay(buf', b) /\ buf'[b].node = n
             /\ \A t \in Held(Lists', <<"n", n>>) : txn'[t].buffer # b
  BY InDeliveryNext
<1>3. \A b \in Bufs : b \in InDelivery(n)' <=> b \in InDelivery(n)
  BY <1>1, <1>2, InDeliveryIs
<1>4. InDelivery(n)' \subseteq Bufs /\ InDelivery(n) \subseteq Bufs
  BY DEF InDelivery
<1>5. InDelivery(n)' = InDelivery(n)
  BY <1>3, <1>4
<1>. QED
  BY <1>5 DEF AsyncOK

\* A step that touches the synchronous calls and the replies alone.
NoOneWay ==
    /\ \A t \in Txns : txn[t].live /\ txn[t].oneway => txn'[t] = txn[t]
    /\ \A b \in Bufs : IF buf[b].async THEN buf'[b] = buf[b] ELSE ~buf'[b].async

SameProc == lock'.proc = lock.proc \/ lock.proc = NIL

LEMMA NoOneWayStep ==
    ASSUME TypeOK, TypeOK', CallsInv, AsyncInv, node' = node, orphaned' = orphaned,
           SameProc, NoOneWay
    PROVE  AsyncInv'
<1>. SUFFICES ASSUME NEW n \in Nodes, Owner[n] # lock'.proc PROVE AsyncOK(n)'
  BY DEF AsyncInv
<1>1. Owner[n] # lock.proc
  BY OwnerAssumption, NilAssumption DEF SameProc
<1>2. AsyncOK(n)
  BY <1>1 DEF AsyncInv
<1>3. ASSUME NEW t \in Held(Lists, <<"n", n>>) PROVE txn'[t].buffer = txn[t].buffer
  <2>1. <<"n", n>> \in Place /\ t \in Txns
    BY PlaceIs, HeldWaits
  <2>2. Fits(txn, buf, <<"n", n>>, t)
    BY <2>1 DEF CallsInv, Flow, QueueOK
  <2>3. txn[t].live /\ txn[t].oneway
    BY <2>2 DEF Fits
  <2>. QED
    BY <2>1, <2>3 DEF NoOneWay
<1>4. \A b \in Bufs : InPlay(buf', b) /\ buf'[b].node = n <=> InPlay(buf, b) /\ buf[b].node = n
  BY DEF NoOneWay, InPlay
<1>5. node'[n] = node[n] /\ (n \in orphaned' <=> n \in orphaned)
  OBVIOUS
<1>. QED
  BY <1>2, <1>3, <1>4, <1>5, AsyncStays

\* The transactions on the chain of a call are calls.
LEMMA FailingCalls ==
    ASSUME NEW C, NEW tx, Linked(C, tx), NEW l \in C
    PROVE  Failing(tx, l) \subseteq C
BY AncIn DEF Failing, Aband, Answ

\* The buffer of a call is not a one-way call's.
LEMMA CallBuffer ==
    ASSUME CallsInv, NEW t \in CallsOf(txn, buf), txn[t].buffer # NIL
    PROVE  ~buf[txn[t].buffer].async
<1>1. TxnOK(txn, buf, Waiting(Lists), t) /\ ~txn[t].oneway
  BY DEF CallsInv, Flow, QueueOK, CallsOf, IsCall
<1>. QED
  BY <1>1 DEF TxnOK

\* What calls lose when some of them fail, with tx and bs before.
LEMMA OnlyCallsFail ==
    ASSUME TypeOK, CallsInv, NEW C, C = CallsOf(txn, buf),
           NEW tx, \A x \in Txns \ C : tx[x] = txn[x],
           \A x \in C : tx[x].buffer \in {NIL, txn[x].buffer},
           NEW bs, \A b \in Bufs : \/ bs[b] = buf[b]
                                   \/ /\ bs[b] = [buf[b] EXCEPT !.txn = NIL]
                                      /\ \E x \in C : txn[x].buffer = b,
           NEW P \in SUBSET C, txn' = Freed(tx, P), buf' = Detach(bs, tx, P)
    PROVE  NoOneWay
<1>1. ASSUME NEW t \in Txns, txn[t].live, txn[t].oneway PROVE txn'[t] = txn[t]
  <2>1. t \notin C
    BY <1>1 DEF CallsOf, IsCall
  <2>. QED
    BY <2>1 DEF Freed
<1>2. ASSUME NEW b \in Bufs
      PROVE  IF buf[b].async THEN buf'[b] = buf[b] ELSE ~buf'[b].async
  <2>1. buf[b] \in Buf /\ b # NIL
    BY NilAssumption DEF TypeOK
  <2>2. CASE \E x \in C : txn[x].buffer = b
    <3>1. ~buf[b].async
      BY <2>1, <2>2, CallBuffer
    <3>2. buf'[b] \in {buf[b], [buf[b] EXCEPT !.txn = NIL], bs[b], [bs[b] EXCEPT !.txn = NIL]}
      BY DEF Detach
    <3>3. bs[b] = buf[b] \/ bs[b] = [buf[b] EXCEPT !.txn = NIL]
      OBVIOUS
    <3>. QED
      BY ONLY <2>1, <3>1, <3>2, <3>3 DEF Buf
  <2>3. CASE ~\E x \in C : txn[x].buffer = b
    <3>1. bs[b] = buf[b] /\ ~\E x \in P : tx[x].buffer = b
      BY <2>1, <2>3
    <3>. QED
      BY <3>1 DEF Detach
  <2>. QED
    BY <2>2, <2>3
<1>. QED
  BY <1>1, <1>2 DEF NoOneWay

\* A failed reply leaves the one-way calls alone.
LEMMA FailedNoOneWay ==
    ASSUME TypeOK, CallsInv, NEW hs, NEW M, NEW x, NEW l \in CallsOf(txn, buf), NEW code,
           FailReplied(txn, buf, hs, M, x, l, code)
    PROVE  NoOneWay
<1>. DEFINE C == CallsOf(txn, buf)
            P == Failing(txn, l)
<1>1. Linked(C, txn)
  BY DEF CallsInv, Flow, Woven, Shape
<1>. HIDE DEF C
<1>2. P \in SUBSET C
  BY <1>1, FailingCalls DEF C
<1>3. txn' = Freed(txn, P) /\ buf' = Detach(buf, txn, P)
  BY DEF FailReplied
<1>. HIDE DEF P
<1>. QED
  BY <1>2, <1>3, OnlyCallsFail DEF C

\* Nor does the walk over the stack of an exiting thread touch them.
LEMMA EmptiedNoOneWay ==
    ASSUME TypeOK, CallsInv, NEW h \in Threads, Emptied(h)
    PROVE  NoOneWay
<1>. DEFINE C == CallsOf(txn, buf)
            tx == Unlinked(h)
            bs == Unbound(h)
            top == thr[h].stack
<1>1. Shape(C, Unread(txn, buf, Lists), txn, Stacks) /\ Linked(C, txn)
  BY DEF CallsInv, Flow, Woven, Shape
<1>2. OnStack(h) \subseteq C
  <2>1. Stacks[h] = thr[h].stack
    BY DEF Stacks
  <2>2. OnStack(h) = Mem(C, Unread(txn, buf, Lists), txn, h)
    BY <1>1, <2>1, OnStackIs
  <2>. QED
    BY <2>2 DEF Mem
<1>3. \A x \in Txns : txn[x] \in Txn /\ x # NIL
  BY NilAssumption DEF TypeOK
<1>4. C \subseteq Txns /\ top \in C \cup {NIL} /\ txn \in [Txns -> Txn]
  BY TopsAreCalls DEF CallsOf, TypeOK
<1>. HIDE DEF C
<1>5. \A x \in Txns : /\ tx[x].fromParent = txn[x].fromParent /\ tx[x] \in Txn
                      /\ tx[x].buffer \in {NIL, txn[x].buffer}
                      /\ x \notin C => tx[x] = txn[x]
  <2>. SUFFICES ASSUME NEW x \in Txns
                PROVE  /\ tx[x].fromParent = txn[x].fromParent /\ tx[x] \in Txn
                       /\ tx[x].buffer \in {NIL, txn[x].buffer}
                       /\ x \notin C => tx[x] = txn[x]
    OBVIOUS
  <2>1. \/ tx[x] = txn[x]
        \/ x \in C /\ tx[x] = [txn[x] EXCEPT !.toThread = NIL, !.buffer = NIL]
        \/ x \in C /\ tx[x] = [txn[x] EXCEPT !.from = NIL]
    BY <1>2 DEF Unlinked
  <2>2. txn[x] \in Txn
    BY <1>3
  <2>. QED
    BY <2>1, <2>2 DEF Txn
<1>6. \A b \in Bufs : \/ bs[b] = buf[b]
                      \/ /\ bs[b] = [buf[b] EXCEPT !.txn = NIL]
                         /\ \E x \in C : txn[x].buffer = b
  BY <1>2 DEF Unbound, Detach
<1>7. tx = [x \in Txns |-> tx[x]] /\ bs = [b \in Bufs |-> bs[b]]
  BY DEF Unlinked, Unbound, Detach
<1>. HIDE DEF tx, bs
<1>8. tx \in [Txns -> Txn]
  BY <1>5, <1>7
<1>9. CASE Serving(h)
  <2>. DEFINE P == Failing(tx, top)
  <2>1. top \in C
    BY <1>4, <1>9 DEF Serving
  <2>2. Anc(tx, top) = Anc(txn, top)
    BY <1>1, <1>4, <1>5, <1>8, <2>1, AncKept
  <2>3. P \in SUBSET C
    BY <1>1, <2>1, <2>2, AncIn DEF Failing, Aband, Answ
  <2>4. txn' = Freed(tx, P) /\ buf' = Detach(bs, tx, P)
    BY <1>9 DEF Emptied, FailReplied, tx, bs
  <2>. HIDE DEF P
  <2>. QED
    BY <1>4, <1>5, <1>6, <2>3, <2>4, OnlyCallsFail DEF C
<1>10. CASE ~Serving(h)
  <2>1. txn' = Freed(tx, {}) /\ buf' = Detach(bs, tx, {})
    <3>1. txn' = tx /\ buf' = bs
      BY <1>10 DEF Emptied, tx, bs
    <3>. QED
      BY <1>7, <3>1 DEF Freed, Detach
  <2>2. {} \in SUBSET C
    OBVIOUS
  <2>. QED
    BY <1>4, <1>5, <1>6, <2>1, <2>2, OnlyCallsFail DEF C
<1>. QED
  BY <1>9, <1>10

\* binder_release_work takes a transaction off list l; it has a buffer.
Taken(l, w) ==
    LET b == txn[w].buffer IN
    /\ w \in Held(Lists, l) /\ w \in Waiting(Lists) /\ w # NIL /\ w # Complete /\ w \in Txns
    /\ Fits(txn, buf, l, w) /\ TxnOK(txn, buf, Waiting(Lists), w)
    /\ txn[w] \in Txn /\ txn[w].live
    /\ b \in Bufs /\ b # NIL /\ buf[b] \in Buf /\ ~buf[b].userFree
    /\ buf[b].live /\ buf[b].txn = w /\ buf[b].async = txn[w].oneway
    /\ \A m \in Place \ {l} : w \notin Held(Lists, m)

LEMMA TakenIs ==
    ASSUME TypeOK, BufferPointersAgree, CallsInv,
           NEW l \in Place, Lists[l] # <<>>, NEW w \in Txns, w = Head(Lists[l])
    PROVE  Taken(l, w)
<1>. DEFINE b == txn[w].buffer
<1>1. Lists \in ListsOf /\ Once(Lists) /\ w # Complete /\ w # NIL
  BY NilAssumption, CompleteAssumption DEF CallsInv, Flow, QueueOK
<1>2. w \in Held(Lists, l) /\ w \in Waiting(Lists)
  BY <1>1, CutIs, HeldWaits
<1>3. Fits(txn, buf, l, w) /\ TxnOK(txn, buf, Waiting(Lists), w)
  BY <1>2 DEF CallsInv, Flow, QueueOK
<1>4. txn[w] \in Txn /\ b # NIL /\ txn[w].live /\ ~buf[b].userFree
  BY <1>3 DEF Fits, TypeOK
<1>5. b \in Bufs /\ buf[b] \in Buf
  BY <1>4 DEF Txn, TypeOK
<1>6. buf[b].live /\ buf[b].txn = w /\ buf[b].async = txn[w].oneway
  BY <1>3, <1>4 DEF BufferPointersAgree, PointersAgree, TxnOK
<1>7. \A m \in Place \ {l} : w \notin Held(Lists, m)
  BY <1>1, <1>2 DEF Held, Once
<1>. QED
  BY <1>1, <1>2, <1>3, <1>4, <1>5, <1>6, <1>7 DEF Taken

LEMMA DropNoOneWay ==
    ASSUME TypeOK, BufferPointersAgree, CallsInv,
           NEW l \in Place, Lists[l] # <<>>, NEW w \in Txns, w = Head(Lists[l]),
           NEW hs \in [Threads -> Thread],
           \A g \in Threads : /\ hs[g].stack = thr[g].stack
                              /\ hs[g].err = thr[g].err /\ hs[g].err2 = thr[g].err2,
           Drop(hs, w), ~txn[w].oneway
    PROVE  NoOneWay
<1>. DEFINE b == txn[w].buffer
<1>1. /\ w \in Txns /\ txn[w].live /\ b \in Bufs /\ b # NIL /\ buf[b] \in Buf /\ ~buf[b].async
  BY TakenIs DEF Taken
<1>2. CASE buf[b].node # NIL
  <2>1. IsCall(txn, buf, w) /\ w \in CallsOf(txn, buf)
    BY <1>1, <1>2 DEF IsCall, CallsOf
  <2>2. Dropped(hs, l, w, lock.thread)
    BY DropStep DEF CallsInv
  <2>3. FailReplied(txn, buf, hs, Cut(Lists, l), lock.thread, w, "BR_DEAD_REPLY")
    BY <2>1, <2>2 DEF Dropped
  <2>. QED
    BY <2>1, <2>3, FailedNoOneWay
<1>3. CASE buf[b].node = NIL
  <2>1. txn' = Freed(txn, {w}) /\ buf' = Detach(buf, txn, {w})
    BY <1>1, <1>3 DEF Drop
  <2>2. \A c \in Bufs : buf'[c] = IF c = b THEN [buf[b] EXCEPT !.txn = NIL] ELSE buf[c]
    BY <2>1 DEF Detach
  <2>3. \A t \in Txns : t # w => txn'[t] = txn[t]
    BY <2>1 DEF Freed
  <2>. QED
    BY <1>1, <2>2, <2>3 DEF NoOneWay, Buf
<1>. QED
  BY <1>2, <1>3

DroppedOneWay(w) ==
    LET b == txn[w].buffer IN
    /\ \A c \in Bufs \ {b} : buf'[c] = buf[c]
    /\ ~InPlay(buf', b) /\ InPlay(buf, b) /\ buf[b].proc = Owner[buf[b].node]
    /\ \A t \in Txns \ {w} : txn'[t] = txn[t]

LEMMA DropOneWay ==
    ASSUME CallsInv, NEW l, NEW w, Taken(l, w), NEW hs, Drop(hs, w), txn[w].oneway
    PROVE  DroppedOneWay(w)
<1>. DEFINE b == txn[w].buffer
<1>1. /\ w \in Txns /\ b \in Bufs /\ b # NIL /\ buf[b] \in Buf /\ buf[b].live /\ buf[b].async
      /\ ~buf[b].userFree /\ buf[b].txn = w /\ w # NIL
  BY DEF Taken
<1>2. txn' = Freed(txn, {w}) /\ buf' = Detach(buf, txn, {w})
  BY <1>1 DEF Drop
<1>3. \A c \in Bufs : buf'[c] = IF c = b THEN [buf[b] EXCEPT !.txn = NIL] ELSE buf[c]
  BY <1>2 DEF Detach
<1>4. \A t \in Txns \ {w} : txn'[t] = txn[t]
  BY <1>2 DEF Freed
<1>5. buf'[b].userFree = buf[b].userFree /\ buf'[b].txn = NIL
  <2>1. buf'[b] = [buf[b] EXCEPT !.txn = NIL] /\ buf[b] \in Buf
    BY <1>1, <1>3
  <2>. QED
    BY ONLY <2>1 DEF Buf
<1>6. buf[b].proc = Owner[buf[b].node]
  BY <1>1 DEF CallsInv, BufsOK
<1>. QED
  BY <1>1, <1>3, <1>4, <1>5, <1>6 DEF DroppedOneWay, InPlay

\* A dropped one-way call to another node is nothing to node n.
LEMMA DropElsewhere ==
    ASSUME TypeOK, TypeOK', NEW n \in Nodes, AsyncOK(n), node'[n] = node[n],
           n \in orphaned' <=> n \in orphaned,
           NEW l \in Place, l # <<"n", n>>, NEW w, Taken(l, w), DroppedOneWay(w),
           buf[txn[w].buffer].node # n
    PROVE  AsyncOK(n)'
<1>. DEFINE b == txn[w].buffer
<1>1. /\ \A c \in Bufs \ {b} : buf'[c] = buf[c]
      /\ ~InPlay(buf', b) /\ \A t \in Txns \ {w} : txn'[t] = txn[t]
  BY DEF DroppedOneWay
<1>2. \A c \in Bufs : InPlay(buf', c) /\ buf'[c].node = n <=> InPlay(buf, c) /\ buf[c].node = n
  BY <1>1 DEF InPlay
<1>3. <<"n", n>> \in Place
  BY PlaceIs
<1>4. \A t \in Held(Lists, <<"n", n>>) : txn'[t].buffer = txn[t].buffer
  BY <1>1, <1>3, HeldWaits DEF Taken
<1>. QED
  BY <1>2, <1>4, AsyncStays

\* One-way work off the list of an exiting thread, in a process that goes on:
\* the node's queue is stranded.
LEMMA ReleaseThreadWorkAsync ==
    ASSUME TypeOK, TypeOK', BufferPointersAgree, CallsInv, AsyncInv,
           NEW h \in Threads, ReleaseThreadWork(h)
    PROVE  AsyncInv'
<1>. DEFINE w == Head(thr[h].todo)
            b == txn[w].buffer
            l == <<"t", h>>
            hs == Dequeue(thr, h)
<1>1. /\ lock.thread = h /\ lock' = lock /\ thr[h].todo # <<>> /\ UNCHANGED <<ptodo, node>> /\ h # NIL
  BY NilAssumption DEF ReleaseThreadWork
<1>2. CASE w = Complete
  <2>1. UNCHANGED <<txn, buf, orphaned>>
    BY <1>2 DEF ReleaseThreadWork
  <2>. QED
    BY <1>1, <2>1, NoOneWayStep DEF NoOneWay, SameProc
<1>3. CASE w # Complete
  <2>1. thr \in [Threads -> Thread] /\ w \in Txns /\ hs \in [Threads -> Thread]
    BY <1>1, <1>3, TodoType DEF TypeOK
  <2>2. Lists[l] = thr[h].todo /\ l \in Place
    BY ListsIs, PlaceIs
  <2>3. \A g \in Threads : /\ hs[g].stack = thr[g].stack
                           /\ hs[g].err = thr[g].err /\ hs[g].err2 = thr[g].err2
    BY <2>1 DEF Dequeue, Thread
  <2>4. Drop(hs, w) /\ orphaned' = orphaned \cup Orphans(w)
    BY <1>3 DEF ReleaseThreadWork
  <2>5. w = Head(Lists[l]) /\ Lists[l] # <<>>
    BY <1>1, <2>2
  <2>6. Taken(l, w)
    BY <2>1, <2>2, <2>5, TakenIs
  <2>7. CASE ~txn[w].oneway
    <3>1. orphaned' = orphaned
      BY <2>4, <2>7 DEF Orphans
    <3>2. NoOneWay
      <4>. HIDE DEF w, l, hs
      <4>. QED
        BY <2>1, <2>2, <2>3, <2>4, <2>5, <2>7, DropNoOneWay
    <3>. QED
      BY <1>1, <3>1, <3>2, NoOneWayStep DEF SameProc
  <2>8. CASE txn[w].oneway
    <3>1. DroppedOneWay(w)
      BY <2>4, <2>6, <2>8, DropOneWay
    <3>. SUFFICES ASSUME NEW n \in Nodes, Owner[n] # lock.proc PROVE AsyncOK(n)'
      BY <1>1 DEF AsyncInv
    <3>2. AsyncOK(n) /\ l # <<"n", n>>
      BY DEF AsyncInv
    <3>3. CASE buf[b].node # n
      <4>1. n \in orphaned' <=> n \in orphaned
        BY <2>4, <3>3 DEF Orphans
      <4>. HIDE DEF l
      <4>. QED
        BY <1>1, <2>2, <2>6, <3>1, <3>2, <3>3, <4>1, DropElsewhere
    <3>4. CASE buf[b].node = n
      <4>0. /\ \A t \in Held(Lists, <<"n", n>>) : t # w /\ t \in Txns
            /\ <<"n", n>> \in Place
        BY <2>6, <3>2, PlaceIs, HeldWaits DEF Taken
      <4>1. b \in InDelivery(n)
        <5>1. \A t \in Held(Lists, <<"n", n>>) : txn[t].buffer # b
          <6>1. \A t \in Txns : txn[t].buffer # NIL => buf[txn[t].buffer].txn = t
            BY DEF BufferPointersAgree, PointersAgree
          <6>2. b # NIL /\ buf[b].txn = w
            BY <2>6 DEF Taken
          <6>. HIDE DEF w, b
          <6>. QED
            BY <4>0, <6>1, <6>2
        <5>. QED
          BY <2>6, <3>1, <3>4, <5>1, InDeliveryIs DEF Taken, DroppedOneWay
      <4>2. InDelivery(n)' = {}
        <5>. SUFFICES ASSUME NEW c \in Bufs, c \in InDelivery(n)' PROVE FALSE
          BY DEF InDelivery
        <5>1. /\ InPlay(buf', c) /\ buf'[c].node = n
              /\ \A t \in Held(Lists', <<"n", n>>) : txn'[t].buffer # c
          BY InDeliveryNext
        <5>2. c # b /\ buf'[c] = buf[c]
          BY <3>1, <5>1 DEF DroppedOneWay
        <5>3. Held(Lists', <<"n", n>>) = Held(Lists, <<"n", n>>)
          <6>1. Lists'[<<"n", n>>] = Lists[<<"n", n>>]
            BY <1>1, PlaceIs DEF Lists
          <6>. QED
            BY <6>1 DEF Held
        <5>4. \A t \in Held(Lists, <<"n", n>>) : txn'[t].buffer = txn[t].buffer
          BY <3>1, <4>0 DEF DroppedOneWay
        <5>5. c \in InDelivery(n)
          BY <5>1, <5>2, <5>3, <5>4, InDeliveryIs DEF InPlay
        <5>. QED
          BY <3>2, <4>1, <5>2, <5>5 DEF AsyncOK
      <4>3. n \in orphaned'
        <5>1. lock.proc = NIL
          <6>. SUFFICES ASSUME lock.proc # NIL PROVE FALSE
            OBVIOUS
          <6>1. ProcOf[h] = lock.proc
            BY <1>1 DEF CallsInv, LockOK
          <6>2. buf[b].proc = ProcOf[h]
            BY <2>6 DEF Fits, Taken
          <6>3. buf[b].proc = Owner[n]
            BY <3>1, <3>4 DEF DroppedOneWay
          <6>. QED
            BY <6>1, <6>2, <6>3
        <5>. QED
          BY <2>4, <2>8, <3>4, <5>1 DEF Orphans
      <4>. QED
        BY <1>1, <3>2, <4>1, <4>2, <4>3 DEF AsyncOK
    <3>. QED
      BY <3>3, <3>4
  <2>. QED
    BY <2>7, <2>8
<1>. QED
  BY <1>2, <1>3

\* The work of a process that is released is its own nodes'.
LEMMA ReleaseWorkAsync ==
    ASSUME TypeOK, TypeOK', BufferPointersAgree, CallsInv, AsyncInv,
           NEW p \in Procs, lock.proc = p, UNCHANGED <<lock, orphaned>>,
           \A n \in Nodes : Owner[n] # p => node'[n] = node[n],
           NEW l \in Place, Lists[l] # <<>>, NEW w \in Txns, w = Head(Lists[l]), Drop(thr, w),
           l = <<"p", p>> \/ \E n \in Nodes : Owner[n] = p /\ l = <<"n", n>>
    PROVE  AsyncInv'
<1>. SUFFICES ASSUME NEW m \in Nodes, Owner[m] # p PROVE AsyncOK(m)'
  BY DEF AsyncInv
<1>1. AsyncOK(m) /\ node'[m] = node[m] /\ <<"n", m>> \in Place /\ l # <<"n", m>>
  BY PlaceIs DEF AsyncInv
<1>2. Taken(l, w)
  BY TakenIs
<1>3. CASE txn[w].oneway
  <2>1. DroppedOneWay(w)
    BY <1>2, <1>3, DropOneWay
  <2>2. buf[txn[w].buffer].proc = p
    BY <1>2 DEF Taken, Fits
  <2>3. buf[txn[w].buffer].node # m
    BY <2>1, <2>2 DEF DroppedOneWay
  <2>. QED
    BY <1>1, <1>2, <2>1, <2>3, DropElsewhere
<1>4. CASE ~txn[w].oneway
  <2>1. thr \in [Threads -> Thread]
    BY DEF TypeOK
  <2>2. NoOneWay
    BY <1>4, <2>1, DropNoOneWay
  <2>3. \A t \in Held(Lists, <<"n", m>>) : txn'[t].buffer = txn[t].buffer
    <3>. SUFFICES ASSUME NEW t \in Held(Lists, <<"n", m>>) PROVE txn'[t].buffer = txn[t].buffer
      OBVIOUS
    <3>1. Fits(txn, buf, <<"n", m>>, t) /\ t \in Txns
      BY <1>1, HeldWaits DEF CallsInv, Flow, QueueOK
    <3>2. txn[t].live /\ txn[t].oneway
      BY <3>1 DEF Fits
    <3>. QED
      BY <2>2, <3>1, <3>2 DEF NoOneWay
  <2>4. \A c \in Bufs : InPlay(buf', c) /\ buf'[c].node = m <=> InPlay(buf, c) /\ buf[c].node = m
    BY <2>2 DEF NoOneWay, InPlay
  <2>. QED
    BY <1>1, <2>3, <2>4, AsyncStays
<1>. QED
  BY <1>3, <1>4

LEMMA ReleaseNodeWorkAsync ==
    ASSUME TypeOK, TypeOK', BufferPointersAgree, CallsInv, AsyncInv,
           NEW n \in Nodes, ReleaseNodeWork(n)
    PROVE  AsyncInv'
<1>. DEFINE l == <<"n", n>>
            w == Head(node[n].todo)
<1>1. /\ lock.proc = Owner[n] /\ Owner[n] \in Procs /\ UNCHANGED <<lock, orphaned>>
      /\ \A m \in Nodes : Owner[m] # Owner[n] => node'[m] = node[m]
  BY OwnerAssumption DEF ReleaseNodeWork, Releasing, TypeOK
<1>2. node[n].todo # <<>> /\ node[n].todo \in Seq(Txns) /\ Drop(thr, w)
  BY DEF ReleaseNodeWork, TypeOK
<1>3. l \in Place /\ Lists[l] = node[n].todo /\ w \in Txns
  BY <1>2, PlaceIs, ListsIs
<1>4. l = <<"p", Owner[n]>> \/ \E m \in Nodes : Owner[m] = Owner[n] /\ l = <<"n", m>>
  OBVIOUS
<1>. QED
  BY <1>1, <1>2, <1>3, <1>4, ReleaseWorkAsync

LEMMA ReleaseProcWorkAsync ==
    ASSUME TypeOK, TypeOK', BufferPointersAgree, CallsInv, AsyncInv,
           NEW p \in Procs, ReleaseProcWork(p)
    PROVE  AsyncInv'
<1>. DEFINE l == <<"p", p>>
            w == Head(ptodo[p])
<1>1. lock.proc = p /\ UNCHANGED <<lock, orphaned, node>>
  BY DEF ReleaseProcWork, Releasing
<1>2. ptodo[p] # <<>> /\ ptodo[p] \in Seq(Txns) /\ Drop(thr, w)
  BY DEF ReleaseProcWork, TypeOK
<1>3. l \in Place /\ Lists[l] = ptodo[p] /\ w \in Txns
  BY <1>2, PlaceIs, ListsIs
<1>4. \A n \in Nodes : Owner[n] # p => node'[n] = node[n]
  BY <1>1
<1>. QED
  BY <1>1, <1>2, <1>3, <1>4, ReleaseWorkAsync

\* The nodes of a released process are as if they had never been called.
LEMMA ReleaseProcAsync ==
    ASSUME TypeOK, TypeOK', BufferPointersAgree, CallsInv, AsyncInv,
           NEW p \in Procs, ReleaseProc(p)
    PROVE  AsyncInv'
<1>. DEFINE gone == {b \in Bufs : buf[b].live /\ buf[b].proc = p}
            left == {buf[b].txn : b \in gone} \ {NIL}
<1>1. /\ lock.proc = p
      /\ txn' = [t \in Txns |-> IF t \in left THEN [txn[t] EXCEPT !.buffer = NIL] ELSE txn[t]]
      /\ buf' = [b \in Bufs |-> IF b \in gone THEN NoBuf ELSE buf[b]]
      /\ node' = [n \in Nodes |-> IF Owner[n] = p THEN [async |-> FALSE, todo |-> <<>>] ELSE node[n]]
      /\ orphaned' = {n \in orphaned : Owner[n] # p}
  BY DEF ReleaseProc, Releasing
<1>. SUFFICES ASSUME NEW n \in Nodes PROVE AsyncOK(n)'
  BY DEF AsyncInv
<1>2. NoBuf.live = FALSE
  BY DEF NoBuf
<1>3. \A b \in Bufs : buf[b].live /\ buf[b].async => buf[b].proc = Owner[buf[b].node]
  BY DEF CallsInv, BufsOK
<1>4. CASE Owner[n] = p
  <2>1. node'[n].async = FALSE /\ node'[n].todo = <<>> /\ n \notin orphaned'
    BY <1>1, <1>4
  <2>2. InDelivery(n)' = {}
    <3>. SUFFICES ASSUME NEW c \in Bufs, c \in InDelivery(n)' PROVE FALSE
      BY DEF InDelivery
    <3>1. buf'[c].live /\ buf'[c].async /\ buf'[c].node = n
      BY InDeliveryNext DEF InPlay
    <3>2. c \notin gone /\ buf'[c] = buf[c]
      BY <1>1, <1>2, <3>1
    <3>. QED
      BY <1>3, <1>4, <3>1, <3>2
  <2>. QED
    BY <2>1, <2>2 DEF AsyncOK
<1>5. CASE Owner[n] # p
  <2>1. AsyncOK(n) /\ node'[n] = node[n] /\ (n \in orphaned' <=> n \in orphaned)
    BY <1>1, <1>5 DEF AsyncInv
  <2>2. \A b \in Bufs : InPlay(buf', b) /\ buf'[b].node = n <=> InPlay(buf, b) /\ buf[b].node = n
    BY <1>1, <1>2, <1>3, <1>5 DEF InPlay
  <2>3. ASSUME NEW t \in Held(Lists, <<"n", n>>) PROVE txn'[t].buffer = txn[t].buffer
    <3>1. <<"n", n>> \in Place /\ t \in Txns
      BY PlaceIs, HeldWaits
    <3>2. Fits(txn, buf, <<"n", n>>, t)
      BY <3>1 DEF CallsInv, Flow, QueueOK
    <3>3. txn[t].buffer # NIL /\ buf[txn[t].buffer].proc = Owner[n]
      BY <3>2 DEF Fits
    <3>4. t \notin left
      BY <1>5, <3>3 DEF BufferPointersAgree, PointersAgree
    <3>. QED
      BY <1>1, <3>1, <3>4
  <2>. QED
    BY <2>1, <2>2, <2>3, AsyncStays
<1>. QED
  BY <1>4, <1>5

\* A synchronous call's transaction and buffer were free.
LEMMA CallAsync ==
    ASSUME TypeOK, TypeOK', CallsInv, AsyncInv, NEW h \in Threads, NEW n \in Nodes, Call(h, n)
    PROVE  AsyncInv'
<1>1. PICK t \in FreeTxns, b \in FreeBufs :
         /\ txn' = [txn EXCEPT ![t] = [live |-> TRUE, from |-> h,
                        fromParent |-> thr[h].stack, toThread |-> Callee(h, Owner[n]),
                        toParent |-> NIL, oneway |-> FALSE, buffer |-> b]]
         /\ buf' = [buf EXCEPT ![b] = NewBuf(Owner[n], n, t, FALSE)]
  BY DEF Call
<1>2. t \in Txns /\ ~txn[t].live /\ b \in Bufs /\ buf[b] = NoBuf
  BY DEF FreeTxns, FreeBufs, CallsInv, BufsOK
<1>3. ~NoBuf.async /\ ~NewBuf(Owner[n], n, t, FALSE).async
  BY DEF NoBuf, NewBuf
<1>4. NoOneWay
  <2>1. \A c \in Bufs : buf'[c] = IF c = b THEN NewBuf(Owner[n], n, t, FALSE) ELSE buf[c]
    BY <1>1 DEF TypeOK
  <2>2. \A u \in Txns : u # t => txn'[u] = txn[u]
    BY <1>1 DEF TypeOK
  <2>. QED
    BY <1>2, <1>3, <2>1, <2>2 DEF NoOneWay
<1>. QED
  BY <1>4, NoOneWayStep DEF Call, SameProc

LEMMA ReplyAsync ==
    ASSUME TypeOK, TypeOK', CallsInv, AsyncInv, NEW h \in Threads, Reply(h)
    PROVE  AsyncInv'
<1>. DEFINE call == thr[h].stack
            p == ProcOf[Caller(h)]
<1>1. PICK t \in FreeTxns, b \in FreeBufs :
         /\ txn' = [Freed(txn, {call}) EXCEPT
                      ![t] = [NoTxn EXCEPT !.live = TRUE, !.toThread = Caller(h), !.buffer = b]]
         /\ buf' = [Detach(buf, txn, {call}) EXCEPT ![b] = NewBuf(p, NIL, t, FALSE)]
  BY DEF Reply
<1>2. t \in Txns /\ ~txn[t].live /\ b \in Bufs /\ buf[b] = NoBuf
  BY DEF FreeTxns, FreeBufs, CallsInv, BufsOK
<1>3. ~NoBuf.async /\ ~NewBuf(p, NIL, t, FALSE).async
  BY DEF NoBuf, NewBuf
<1>4. call \in CallsOf(txn, buf) /\ ~txn[call].oneway
  <2>1. call # NIL
    BY DEF Reply, CanReply
  <2>. QED
    BY <2>1, TopsAreCalls DEF CallsOf, IsCall
<1>5. ASSUME NEW u \in Txns, txn[u].live, txn[u].oneway PROVE txn'[u] = txn[u]
  <2>1. u # t /\ u # call
    BY <1>2, <1>4, <1>5
  <2>2. Freed(txn, {call})[u] = txn[u]
    BY <2>1 DEF Freed
  <2>. QED
    BY <1>1, <2>1, <2>2 DEF Freed
<1>6. ASSUME NEW c \in Bufs PROVE IF buf[c].async THEN buf'[c] = buf[c] ELSE ~buf'[c].async
  <2>1. c = b => buf'[c] = NewBuf(p, NIL, t, FALSE)
    BY <1>1 DEF Detach
  <2>2. c # b => buf'[c] = Detach(buf, txn, {call})[c]
    BY <1>1 DEF Detach
  <2>3. Detach(buf, txn, {call})[c] = IF txn[call].buffer = c THEN [buf[c] EXCEPT !.txn = NIL] ELSE buf[c]
    BY DEF Detach
  <2>4. txn[call].buffer = c => ~buf[c].async
    <3>1. c # NIL
      BY NilAssumption
    <3>. QED
      BY <1>4, <3>1, CallBuffer
  <2>5. buf[c] \in Buf
    BY DEF TypeOK
  <2>6. [buf[c] EXCEPT !.txn = NIL].async = buf[c].async
    BY <2>5 DEF Buf
  <2>. QED
    BY <1>2, <1>3, <2>1, <2>2, <2>3, <2>4, <2>6
<1>7. NoOneWay
  BY <1>5, <1>6 DEF NoOneWay
<1>. QED
  BY <1>7, NoOneWayStep DEF Reply, SameProc

LEMMA FailedReplyAsync ==
    ASSUME ~CookieMismatch, TypeOK, TypeOK', CallsInv, AsyncInv,
           NEW h \in Threads, ReplyToDead(h) \/ ReplyFails(h)
    PROVE  AsyncInv'
<1>1. PICK code \in {"BR_DEAD_REPLY", "BR_FAILED_REPLY"} :
         SendFailedReply(txn, buf, Replied(h), thr[h].stack, code)
  BY ReplyFailsWith DEF ReplyToDead
<1>2. CanReply(h) /\ UNCHANGED <<ptodo, node, lock, orphaned>> /\ code # "BR_OK"
  BY DEF ReplyToDead, ReplyFails
<1>3. FailReplied(txn, buf, Replied(h), Lists, NIL, thr[h].stack, code)
  BY <1>1, <1>2, ReplyFailed
<1>4. thr[h].stack \in CallsOf(txn, buf)
  BY <1>2, TopsAreCalls DEF CanReply
<1>5. NoOneWay
  BY <1>3, <1>4, FailedNoOneWay
<1>. QED
  BY <1>2, <1>5, NoOneWayStep DEF SameProc

LEMMA ExitAsync ==
    ASSUME TypeOK, TypeOK', CallsInv, AsyncInv,
           NEW h \in Threads, ThreadExit(h) \/ ReleaseThread(h)
    PROVE  AsyncInv'
<1>1. FreeStack(h) /\ UNCHANGED <<ptodo, node, orphaned>> /\ lock.thread = NIL
  BY UnlockedOK DEF ThreadExit, ReleaseThread, Running, CallsInv
<1>2. Emptied(h)
  BY <1>1, FreeStackStep DEF CallsInv
<1>3. NoOneWay
  BY <1>2, EmptiedNoOneWay
<1>4. SameProc
  <2>1. CASE ThreadExit(h)
    BY <2>1, UnlockedOK DEF ThreadExit, Running, CallsInv, Unlocked, SameProc
  <2>2. CASE ReleaseThread(h)
    BY <2>2 DEF ReleaseThread, TypeOK, Lock, SameProc
  <2>. QED
    BY <2>1, <2>2
<1>. QED
  BY <1>1, <1>3, <1>4, NoOneWayStep

LEMMA QuietAsync ==
    ASSUME TypeOK, TypeOK', CallsInv, AsyncInv, UNCHANGED <<txn, buf, node, orphaned>>, SameProc
    PROVE  AsyncInv'
BY NoOneWayStep DEF NoOneWay

LEMMA ReadTxnAsync ==
    ASSUME TypeOK, TypeOK', BufferPointersAgree, CallsInv, AsyncInv,
           NEW h \in Threads, ReadTxn(h)
    PROVE  AsyncInv'
<1>. DEFINE t == NextTxn(h)
            b == txn[t].buffer
            call == buf[b].node # NIL /\ ~txn[t].oneway
<1>1. PICK l \in Place : ReadFrom(h, l, t)
  BY ReadFromIs
<1>2. /\ Lists[l] # <<>> /\ t = Head(Lists[l]) /\ t \in Txns
      /\ l = <<"t", h>> \/ l = <<"p", ProcOf[h]>>
  BY <1>1 DEF ReadFrom
<1>. HIDE DEF t
<1>3. Taken(l, t)
  BY <1>2, TakenIs
<1>4. /\ b # NIL /\ b \in Bufs /\ buf[b] \in Buf /\ buf[b].async = txn[t].oneway
      /\ buf[b].live /\ buf[b].txn = t /\ t # NIL
  BY <1>3 DEF Taken
<1>5. /\ buf' = [buf EXCEPT ![b].userFree = TRUE, ![b].txn = IF call THEN @ ELSE NIL]
      /\ txn' = IF call THEN [txn EXCEPT ![t].toThread = h, ![t].toParent = thr[h].stack]
                ELSE Freed(txn, {t})
      /\ UNCHANGED <<node, lock, orphaned>>
  BY <1>4 DEF ReadTxn, t
<1>6. /\ \A c \in Bufs \ {b} : buf'[c] = buf[c]
      /\ buf'[b].live = buf[b].live /\ buf'[b].node = buf[b].node /\ buf'[b].async = buf[b].async
      /\ buf'[b].userFree = TRUE
  BY <1>4, <1>5 DEF TypeOK, Buf
<1>7. \A u \in Txns \ {t} : txn'[u] = txn[u]
  BY <1>5 DEF TypeOK, Freed
<1>8. CASE ~txn[t].oneway
  <2>1. NoOneWay
    BY <1>4, <1>6, <1>7, <1>8 DEF NoOneWay
  <2>. QED
    BY <1>5, <2>1, NoOneWayStep DEF SameProc
<1>9. CASE txn[t].oneway
  <2>. SUFFICES ASSUME NEW n \in Nodes, Owner[n] # lock.proc PROVE AsyncOK(n)'
    BY <1>5 DEF AsyncInv
  <2>1. AsyncOK(n) /\ <<"n", n>> \in Place \ {l}
    BY <1>2, PlaceIs DEF AsyncInv
  <2>2. \A c \in Bufs : InPlay(buf', c) /\ buf'[c].node = n <=> InPlay(buf, c) /\ buf[c].node = n
    BY <1>4, <1>6 DEF InPlay
  <2>3. \A u \in Held(Lists, <<"n", n>>) : txn'[u].buffer = txn[u].buffer
    BY <1>3, <1>7, <2>1, HeldWaits DEF Taken
  <2>. QED
    BY <1>5, <2>1, <2>2, <2>3, AsyncStays
<1>. QED
  BY <1>8, <1>9

\* A one-way call goes to work when the node has none in delivery, and waits
\* in async_todo when it has.
LEMMA CallOneWayAsync ==
    ASSUME TypeOK, TypeOK', BufferPointersAgree, CallsInv, AsyncInv,
           NEW h \in Threads, NEW n \in Nodes, CallOneWay(h, n)
    PROVE  AsyncInv'
<1>1. PICK t \in FreeTxns, b \in FreeBufs :
         /\ txn' = [txn EXCEPT ![t] = [NoTxn EXCEPT !.live = TRUE, !.oneway = TRUE, !.buffer = b]]
         /\ buf' = [buf EXCEPT ![b] = NewBuf(Owner[n], n, t, TRUE)]
         /\ IF node[n].async
            THEN node' = [node EXCEPT ![n].todo = Append(@, t)]
            ELSE node' = [node EXCEPT ![n].async = TRUE]
  BY DEF CallOneWay
<1>2. lock' = lock /\ orphaned' = orphaned /\ ~lock.held
  BY DEF CallOneWay, CanWrite, Running
<1>3. lock.proc = NIL /\ Owner[n] # NIL
  <2>1. lock = Unlocked
    BY <1>2, UnlockedOK DEF CallsInv
  <2>2. lock.proc = NIL
    BY <2>1 DEF Unlocked
  <2>3. Owner[n] \in Procs
    BY OwnerAssumption
  <2>. QED
    BY <2>2, <2>3, NilAssumption
<1>4. t \in Txns /\ t # NIL /\ t \notin Waiting(Lists)
  BY FreshTxn
<1>5. b \in Bufs /\ buf[b] = NoBuf /\ b # NIL /\ \A u \in Txns : txn[u].buffer # b
  BY FreshBuf
<1>6. /\ txn'[t].buffer = b /\ \A u \in Txns \ {t} : txn'[u] = txn[u]
      /\ \A c \in Bufs \ {b} : buf'[c] = buf[c]
      /\ buf'[b].live /\ buf'[b].async /\ buf'[b].node = n /\ buf'[b].txn = t
      /\ ~buf[b].live
  <2>1. /\ txn'[t] = [NoTxn EXCEPT !.live = TRUE, !.oneway = TRUE, !.buffer = b]
        /\ \A u \in Txns \ {t} : txn'[u] = txn[u]
        /\ buf'[b] = NewBuf(Owner[n], n, t, TRUE)
        /\ \A c \in Bufs \ {b} : buf'[c] = buf[c]
    BY <1>1, <1>4, <1>5 DEF TypeOK
  <2>. QED
    BY <1>5, <2>1 DEF NoTxn, NewBuf, NoBuf
<1>7. ~InPlay(buf, b) /\ InPlay(buf', b)
  BY <1>4, <1>6 DEF InPlay
<1>8. \A u \in Waiting(Lists) : u \in Txns /\ txn'[u] = txn[u]
  BY <1>4, <1>6, HeldWaits DEF Waiting
<1>9. node \in [Nodes -> [async: BOOLEAN, todo: Seq(Txns)]]
  BY DEF TypeOK
<1>10. ASSUME NEW m \in Nodes, m # n PROVE AsyncOK(m)'
  <2>1. AsyncOK(m) /\ node'[m] = node[m] /\ (m \in orphaned' <=> m \in orphaned)
    BY <1>1, <1>2, <1>3, <1>9, <1>10, OwnerAssumption, NilAssumption DEF AsyncInv
  <2>2. \A u \in Held(Lists, <<"n", m>>) : txn'[u].buffer = txn[u].buffer
    BY <1>8, PlaceIs, HeldWaits
  <2>3. \A c \in Bufs : InPlay(buf', c) /\ buf'[c].node = m <=> InPlay(buf, c) /\ buf[c].node = m
    BY <1>6, <1>7, <1>10 DEF InPlay
  <2>. QED
    BY <2>1, <2>2, <2>3, AsyncStays
<1>11. AsyncOK(n)'
  <2>. DEFINE l == <<"n", n>>
  <2>1. l \in Place /\ Lists[l] = node[n].todo /\ Lists'[l] = node'[n].todo /\ AsyncOK(n)
    BY <1>3, PlaceIs, ListsIs DEF Lists, AsyncInv
  <2>. HIDE DEF l
  <2>2. CASE node[n].async
    <3>1. node'[n].todo = Append(node[n].todo, t) /\ node'[n].async
      BY <1>1, <1>9, <2>2
    <3>2. Held(Lists', l) = Held(Lists, l) \cup {t}
      <4>1. Lists \in ListsOf /\ Once(Lists) /\ t \in Txns \cup {Complete} /\ t \in Txns
        BY <1>4 DEF CallsInv, Flow, QueueOK
      <4>2. Held(Put(Lists, l, t), l) = Held(Lists, l) \cup {t}
        BY <1>4, <2>1, <4>1, PutIs
      <4>3. Put(Lists, l, t)[l] = Append(Lists[l], t)
        BY <2>1, <4>1 DEF ListsOf, Put
      <4>5. Put(Lists, l, t)[l] = Lists'[l]
        BY <2>1, <3>1, <4>3
      <4>. QED
        BY <4>2, <4>5 DEF Held
    <3>3. ASSUME NEW c \in Bufs PROVE c \in InDelivery(n)' <=> c \in InDelivery(n)
      <4>1. c \in InDelivery(n)' <=>
              /\ InPlay(buf', c) /\ buf'[c].node = n
              /\ \A u \in Held(Lists', l) : txn'[u].buffer # c
        BY InDeliveryNext DEF l
      <4>2. c \in InDelivery(n) <=>
              /\ InPlay(buf, c) /\ buf[c].node = n
              /\ \A u \in Held(Lists, l) : txn[u].buffer # c
        BY InDeliveryIs DEF l
      <4>3. CASE c = b
        BY <1>6, <1>7, <3>2, <4>1, <4>2, <4>3
      <4>4. CASE c # b
        <5>1. InPlay(buf', c) /\ buf'[c].node = n <=> InPlay(buf, c) /\ buf[c].node = n
          BY <1>6, <4>4 DEF InPlay
        <5>2. \A u \in Held(Lists, l) : txn'[u] = txn[u]
          BY <1>8, <2>1, HeldWaits
        <5>. QED
          BY <1>6, <3>2, <4>1, <4>2, <4>4, <5>1, <5>2
      <4>. QED
        BY <4>3, <4>4
    <3>4. InDelivery(n)' = InDelivery(n)
      <4>1. InDelivery(n)' \subseteq Bufs /\ InDelivery(n) \subseteq Bufs
        BY DEF InDelivery
      <4>. QED
        BY <3>3, <4>1
    <3>. QED
      BY <1>2, <2>1, <2>2, <3>1, <3>4 DEF AsyncOK
  <2>3. CASE ~node[n].async
    <3>1. node'[n].todo = node[n].todo /\ node'[n].async
      BY <1>1, <1>9, <2>3
    <3>2. Held(Lists', l) = Held(Lists, l)
      BY <2>1, <3>1 DEF Held
    <3>3. InDelivery(n) = {} /\ n \notin orphaned'
      BY <1>2, <2>1, <2>3 DEF AsyncOK
    <3>4. b \in InDelivery(n)'
      <4>1. \A u \in Held(Lists', l) : txn'[u].buffer # b
        BY <1>5, <1>8, <2>1, <3>2, HeldWaits
      <4>. QED
        BY <1>5, <1>6, <1>7, <4>1, InDeliveryNext DEF l
    <3>5. ASSUME NEW c \in Bufs, c \in InDelivery(n)' PROVE c = b
      <4>. SUFFICES ASSUME c # b PROVE FALSE
        OBVIOUS
      <4>1. /\ InPlay(buf', c) /\ buf'[c].node = n
            /\ \A u \in Held(Lists', l) : txn'[u].buffer # c
        BY <3>5, InDeliveryNext DEF l
      <4>2. \A u \in Held(Lists, l) : txn'[u] = txn[u]
        BY <1>8, <2>1, HeldWaits
      <4>3. InPlay(buf, c) /\ buf[c].node = n
        BY <1>6, <4>1 DEF InPlay
      <4>4. c \in InDelivery(n)
        BY <3>2, <4>1, <4>2, <4>3, InDeliveryIs DEF l
      <4>. QED
        BY <3>3, <4>4
    <3>6. InDelivery(n)' \subseteq Bufs
      BY DEF InDelivery
    <3>. QED
      BY <3>1, <3>3, <3>4, <3>5, <3>6 DEF AsyncOK
  <2>. QED
    BY <2>2, <2>3
<1>. QED
  BY <1>10, <1>11 DEF AsyncInv


Unflagged == "async flag" \notin oops

\* BC_FREE_BUFFER of a one-way call's buffer hands the next one out, or finds
\* the node's queue empty.
LEMMA FreeBufferAsync ==
    ASSUME TypeOK, TypeOK', BufferPointersAgree, CallsInv, AsyncInv,
           NEW h \in Threads, NEW b \in Bufs, FreeBuffer(h, b)
    PROVE  AsyncInv' /\ (Unflagged => Unflagged')
<1>. DEFINE n == buf[b].node
            t == buf[b].txn
            async == buf[b].async /\ n # NIL
            next == async /\ node[n].todo # <<>>
            w == Head(node[n].todo)
<1>1. /\ ~lock.held
      /\ buf[b].live /\ buf[b].userFree
      /\ txn' = IF t = NIL THEN txn ELSE [txn EXCEPT ![t].buffer = NIL]
      /\ buf' = [buf EXCEPT ![b] = NoBuf]
      /\ node' = IF next THEN [node EXCEPT ![n].todo = Tail(@)]
                 ELSE IF async THEN [node EXCEPT ![n].async = FALSE] ELSE node
      /\ oops' = oops \cup (IF async /\ ~node[n].async THEN {"async flag"} ELSE {})
      /\ UNCHANGED <<lock, orphaned>>
  BY DEF FreeBuffer, CanWrite, Running
<1>2. /\ txn \in [Txns -> Txn] /\ buf \in [Bufs -> Buf] /\ t \in Txns \cup {NIL}
      /\ n \in Nodes \cup {NIL} /\ NIL \notin Txns /\ NIL \notin Bufs
      /\ node \in [Nodes -> [async: BOOLEAN, todo: Seq(Txns)]]
  BY NilAssumption DEF TypeOK, Buf
<1>3. lock.proc = NIL /\ \A m \in Nodes : Owner[m] # NIL
  <2>1. lock = Unlocked
    BY <1>1, UnlockedOK DEF CallsInv
  <2>2. lock.proc = NIL
    BY <2>1 DEF Unlocked
  <2>. QED
    BY <2>2, OwnerAssumption, NilAssumption
<1>4. \A u \in Waiting(Lists) :
        /\ u \in Txns /\ u # t
        /\ txn[u].buffer \in Bufs \ {b} /\ buf[txn[u].buffer].txn = u
        /\ buf[txn[u].buffer].live
  <2>. SUFFICES ASSUME NEW u \in Waiting(Lists)
                PROVE  /\ u \in Txns /\ u # t
                       /\ txn[u].buffer \in Bufs \ {b} /\ buf[txn[u].buffer].txn = u
                       /\ buf[txn[u].buffer].live
    OBVIOUS
  <2>1. PICK m \in Place : u \in Held(Lists, m)
    BY DEF Waiting
  <2>2. Fits(txn, buf, m, u) /\ u \in Txns
    BY <2>1, HeldWaits DEF CallsInv, Flow, QueueOK
  <2>3. txn[u].buffer # NIL /\ ~buf[txn[u].buffer].userFree
    BY <2>2 DEF Fits
  <2>4. txn[u] \in Txn
    BY <1>2, <2>2
  <2>5. txn[u].buffer \in Bufs
    BY <2>3, <2>4 DEF Txn
  <2>6. buf[txn[u].buffer].txn = u /\ buf[txn[u].buffer].live
    BY <2>2, <2>3 DEF BufferPointersAgree, PointersAgree
  <2>7. u = t => txn[u].buffer = b
    BY <1>2, <2>2 DEF BufferPointersAgree, PointersAgree
  <2>. QED
    BY <1>1, <2>2, <2>3, <2>5, <2>6, <2>7
<1>. HIDE DEF t, w
<1>5. \A u \in Waiting(Lists) : txn'[u] = txn[u]
  BY <1>1, <1>2, <1>4
<1>6. buf'[b] = NoBuf /\ \A c \in Bufs \ {b} : buf'[c] = buf[c]
  BY <1>1, <1>2
<1>7. ~InPlay(buf', b) /\ \A c \in Bufs \ {b} : InPlay(buf', c) <=> InPlay(buf, c)
  BY <1>6 DEF InPlay, NoBuf
<1>8. ASSUME NEW m \in Nodes, ~async \/ m # n PROVE AsyncOK(m)'
  <2>1. AsyncOK(m) /\ node'[m] = node[m] /\ (m \in orphaned' <=> m \in orphaned)
    BY <1>1, <1>2, <1>3, <1>8 DEF AsyncInv
  <2>2. \A u \in Held(Lists, <<"n", m>>) : txn'[u].buffer = txn[u].buffer
    BY <1>5, PlaceIs, HeldWaits
  <2>3. InPlay(buf, b) => buf[b].node # m
    BY <1>2, <1>8, NilAssumption DEF InPlay, n
  <2>4. \A c \in Bufs : InPlay(buf', c) /\ buf'[c].node = m <=> InPlay(buf, c) /\ buf[c].node = m
    BY <1>6, <1>7, <2>3
  <2>. QED
    BY <2>1, <2>2, <2>4, AsyncStays
<1>9. ASSUME NEW k \in Nodes, async, k = n PROVE AsyncOK(k)' /\ node[k].async
  <2>. DEFINE l == <<"n", k>>
  <2>. HIDE DEF n
  <2>1. AsyncOK(k)
    BY <1>3 DEF AsyncInv
  <2>2. l \in Place /\ Lists[l] = node[k].todo /\ Lists'[l] = node'[k].todo
    BY PlaceIs, ListsIs DEF Lists
  <2>3. /\ Lists \in ListsOf /\ Once(Lists)
        /\ \A u \in Held(Lists, l) : u \in Waiting(Lists) /\ Fits(txn, buf, l, u)
    BY <2>2, HeldWaits DEF CallsInv, Flow, QueueOK
  <2>. HIDE DEF l
  <2>4. InDelivery(k) \subseteq Bufs /\ InDelivery(k)' \subseteq Bufs
    BY DEF InDelivery
  <2>5. \A c \in Bufs : c \in InDelivery(k) <=>
          /\ InPlay(buf, c) /\ buf[c].node = k
          /\ \A u \in Held(Lists, l) : txn[u].buffer # c
    BY <2>1, InDeliveryIs DEF l
  <2>6. \A c \in Bufs : c \in InDelivery(k)' <=>
          /\ InPlay(buf', c) /\ buf'[c].node = k
          /\ \A u \in Held(Lists', l) : txn'[u].buffer # c
    BY <2>1, InDeliveryNext DEF l
  <2>7. b \in InDelivery(k)
    <3>1. InPlay(buf, b) /\ buf[b].node = k
      BY <1>1, <1>9 DEF InPlay, n
    <3>. QED
      BY <1>4, <2>3, <2>5, <3>1
  <2>8. InDelivery(k) = {b} /\ node[k].async /\ k \notin orphaned
    BY <2>1, <2>7 DEF AsyncOK
  <2>9. CASE node[k].todo # <<>>
    <3>1. node'[k].todo = Tail(node[k].todo) /\ node'[k].async
      BY <1>1, <1>2, <1>9, <2>1, <2>8, <2>9
    <3>2. w = Head(Lists[l]) /\ w \in Held(Lists, l) /\ Held(Lists', l) = Held(Lists, l) \ {w}
      <4>1. Lists[l] # <<>> /\ w = Head(Lists[l]) /\ w \in Txns
        BY <1>2, <1>9, <2>2, <2>9 DEF w
      <4>2. w \in Held(Lists, l) /\ Held(Cut(Lists, l), l) = Held(Lists, l) \ {w}
        BY <2>2, <2>3, <4>1, CutIs
      <4>3. Cut(Lists, l)[l] = Lists'[l]
        BY <2>2, <2>3, <3>1 DEF ListsOf, Cut
      <4>. QED
        BY <4>1, <4>2, <4>3 DEF Held
    <3>. DEFINE a == txn[w].buffer
    <3>3. w \in Waiting(Lists) /\ Fits(txn, buf, l, w) /\ w \in Txns
      BY <2>3, <3>2, HeldWaits, <2>2
    <3>4. a \in Bufs \ {b} /\ buf[a].txn = w /\ buf[a].live
      BY <1>4, <3>3
    <3>5. InPlay(buf, a) /\ buf[a].node = k
      <4>1. TxnOK(txn, buf, Waiting(Lists), w)
        BY <3>3 DEF CallsInv, Flow, QueueOK
      <4>2. buf[a].node = k /\ txn[w].oneway
        BY <3>3 DEF Fits, l
      <4>3. a # NIL /\ w # NIL
        BY <1>2, <3>3, <3>4
      <4>4. buf[a].async
        BY <4>1, <4>2, <4>3 DEF TxnOK
      <4>. QED
        BY <3>4, <4>2, <4>3, <4>4 DEF InPlay
    <3>. HIDE DEF a
    <3>6. a \in InDelivery(k)'
      <4>1. InPlay(buf', a) /\ buf'[a].node = k
        BY <1>6, <1>7, <3>4, <3>5
      <4>2. ASSUME NEW u \in Held(Lists', l), txn'[u].buffer = a PROVE FALSE
        <5>1. u \in Held(Lists, l) /\ u # w
          BY <3>2
        <5>2. txn[u].buffer = a /\ buf[a].txn = u
          BY <1>4, <1>5, <2>3, <4>2, <5>1
        <5>. QED
          BY <3>4, <5>1, <5>2
      <4>. QED
        BY <2>6, <3>4, <4>1, <4>2
    <3>7. ASSUME NEW c \in InDelivery(k)', c # a PROVE FALSE
      <4>1. c \in Bufs /\ InPlay(buf', c) /\ buf'[c].node = k
        BY <2>4, <2>6
      <4>2. c # b /\ InPlay(buf, c) /\ buf[c].node = k
        BY <1>6, <1>7, <4>1
      <4>3. \A u \in Held(Lists, l) : txn[u].buffer # c
        <5>. SUFFICES ASSUME NEW u \in Held(Lists, l), txn[u].buffer = c PROVE FALSE
          OBVIOUS
        <5>1. u # w
          BY <3>7 DEF a
        <5>2. u \in Held(Lists', l) /\ txn'[u] = txn[u]
          BY <1>5, <2>3, <3>2, <5>1
        <5>. QED
          BY <2>6, <4>1, <5>2
      <4>. QED
        BY <2>5, <2>8, <4>1, <4>2, <4>3
    <3>. QED
      BY <1>1, <2>8, <3>1, <3>6, <3>7 DEF AsyncOK
  <2>10. CASE node[k].todo = <<>>
    <3>1. node'[k].todo = <<>> /\ ~node'[k].async
      BY <1>1, <1>2, <1>9, <2>1, <2>10
    <3>2. Held(Lists', l) = {} /\ Held(Lists, l) = {}
      BY <2>2, <2>10, <3>1 DEF Held
    <3>3. ASSUME NEW c \in InDelivery(k)' PROVE FALSE
      <4>1. c \in Bufs /\ InPlay(buf', c) /\ buf'[c].node = k
        BY <2>4, <2>6
      <4>2. c # b /\ InPlay(buf, c) /\ buf[c].node = k
        BY <1>6, <1>7, <4>1
      <4>. QED
        BY <2>5, <2>8, <3>2, <4>1, <4>2
    <3>. QED
      BY <1>1, <2>8, <3>1, <3>3 DEF AsyncOK
  <2>. QED
    BY <2>8, <2>9, <2>10
<1>10. AsyncInv'
  <2>. SUFFICES ASSUME NEW m \in Nodes PROVE AsyncOK(m)'
    BY DEF AsyncInv
  <2>1. CASE async /\ m = n
    BY <1>9, <2>1
  <2>2. CASE ~(async /\ m = n)
    BY <1>8, <2>2
  <2>. QED
    BY <2>1, <2>2
<1>11. Unflagged => Unflagged'
  BY <1>1, <1>2, <1>9 DEF Unflagged
<1>. QED
  BY <1>10, <1>11


\* The steps that may leave the invariant to the change of the lock alone.
LEMMA IdleAsync ==
    ASSUME TypeOK, TypeOK', CallsInv, AsyncInv,
           \/ \E h \in Threads : \/ \E n \in Nodes, oneway \in BOOLEAN :
                                      CallRefused(h, n, oneway) \/ CallFails(h, n, oneway)
                                 \/ ReplyRefused(h) \/ ReadError(h) \/ ReadComplete(h)
                                 \/ ThreadFreed(h)
           \/ \E p \in Procs : Close(p) \/ DeferredRelease(p)
           \/ UNCHANGED vars
    PROVE  AsyncInv' /\ oops' = oops
<1>. SUFFICES UNCHANGED <<txn, buf, node, orphaned, oops>> /\ SameProc
  BY QuietAsync
<1>1. ASSUME NEW h \in Threads, NEW n \in Nodes, NEW oneway \in BOOLEAN,
             CallRefused(h, n, oneway) \/ CallFails(h, n, oneway)
      PROVE  UNCHANGED <<txn, buf, node, orphaned, oops>> /\ SameProc
  BY <1>1 DEF CallRefused, CallFails, Refuse, SameProc
<1>2. ASSUME NEW h \in Threads, ReplyRefused(h)
      PROVE  UNCHANGED <<txn, buf, node, orphaned, oops>> /\ SameProc
  BY <1>2 DEF ReplyRefused, Refuse, SameProc
<1>3. ASSUME NEW h \in Threads, ReadError(h) \/ ReadComplete(h)
      PROVE  UNCHANGED <<txn, buf, node, orphaned, oops>> /\ SameProc
  BY <1>3 DEF ReadError, ReadComplete, SameProc
<1>4. ASSUME NEW h \in Threads, ThreadFreed(h)
      PROVE  UNCHANGED <<txn, buf, node, orphaned, oops>> /\ SameProc
  <2>1. lock.proc # NIL => lock' = [lock EXCEPT !.thread = NIL]
    BY <1>4 DEF ThreadFreed
  <2>2. lock.proc # NIL => lock'.proc = lock.proc
    BY <2>1 DEF TypeOK, Lock
  <2>. QED
    BY <1>4, <2>2 DEF ThreadFreed, SameProc
<1>5. ASSUME NEW p \in Procs, Close(p) PROVE UNCHANGED <<txn, buf, node, orphaned, oops>> /\ SameProc
  BY <1>5 DEF Close, SameProc
<1>6. ASSUME NEW p \in Procs, DeferredRelease(p)
      PROVE  UNCHANGED <<txn, buf, node, orphaned, oops>> /\ SameProc
  <2>1. lock = Unlocked
    BY <1>6, UnlockedOK DEF CallsInv, DeferredRelease
  <2>. QED
    BY <1>6, <2>1 DEF DeferredRelease, SameProc, Unlocked
<1>7. ASSUME UNCHANGED vars PROVE UNCHANGED <<txn, buf, node, orphaned, oops>> /\ SameProc
  BY <1>7 DEF vars, SameProc
<1>. QED
  BY <1>1, <1>2, <1>3, <1>4, <1>5, <1>6, <1>7

\* Only BC_FREE_BUFFER can find a one-way buffer of an idle node.
LEMMA NoFlag ==
    ASSUME ~CookieMismatch, TypeOK, CallsInv, Unflagged,
           \/ \E h \in Threads :
                \/ \E n \in Nodes : Call(h, n) \/ CallOneWay(h, n)
                \/ ReplyToDead(h) \/ ReplyFails(h) \/ Reply(h) \/ ReadTxn(h) \/ ThreadExit(h)
                \/ ReleaseThread(h) \/ ReleaseThreadWork(h)
           \/ \E n \in Nodes : ReleaseNodeWork(n)
           \/ \E p \in Procs : ReleaseProcWork(p) \/ ReleaseProc(p)
    PROVE  Unflagged'
<1>0. "async flag" \notin oops
  BY DEF Unflagged
<1>1. ASSUME NEW tx, NEW bs, NEW hs, NEW t, NEW code, SendFailedReply(tx, bs, hs, t, code)
      PROVE  Unflagged'
  <2>1. oops' = oops
          \cup {"reply dropped" : x \in Answerable(tx, t) \ Deliverable(tx, hs, t)}
          \cup {"pop" : x \in {y \in Deliverable(tx, hs, t) : hs[tx[y].from].stack # y}}
    BY <1>1 DEF SendFailedReply
  <2>. QED
    BY <1>0, <2>1 DEF Unflagged
<1>2. ASSUME NEW hs, NEW t, Drop(hs, t) PROVE Unflagged'
  <2>1. \/ oops' \subseteq oops \cup {"no buffer"}
        \/ SendFailedReply(txn, buf, hs, t, "BR_DEAD_REPLY")
    BY <1>2 DEF Drop
  <2>2. CASE SendFailedReply(txn, buf, hs, t, "BR_DEAD_REPLY")
    BY <1>1, <2>2
  <2>3. CASE oops' \subseteq oops \cup {"no buffer"}
    BY ONLY <1>0, <2>3 DEF Unflagged
  <2>. QED
    BY <2>1, <2>2, <2>3
<1>3. ASSUME NEW h \in Threads, FreeStack(h) PROVE Unflagged'
  <2>1. \/ oops' \subseteq oops \cup {"stack walk"}
        \/ SendFailedReply(Unlinked(h), Unbound(h), Bare(h), thr[h].stack, "BR_DEAD_REPLY")
    BY <1>3 DEF FreeStack, Unlinked, Unbound, Bare
  <2>2. CASE SendFailedReply(Unlinked(h), Unbound(h), Bare(h), thr[h].stack, "BR_DEAD_REPLY")
    BY <1>1, <2>2
  <2>3. CASE oops' \subseteq oops \cup {"stack walk"}
    BY ONLY <1>0, <2>3 DEF Unflagged
  <2>. QED
    BY <2>1, <2>2, <2>3
<1>4. ASSUME NEW h \in Threads, NEW n \in Nodes, Call(h, n) \/ CallOneWay(h, n)
      PROVE  Unflagged'
  BY ONLY <1>0, <1>4 DEF Call, CallOneWay, Unflagged
<1>5. ASSUME NEW h \in Threads, ReplyToDead(h) \/ ReplyFails(h) \/ Reply(h) \/ ReadTxn(h)
      PROVE  Unflagged'
  <2>1. CASE ReplyToDead(h)
    BY <1>1, <2>1 DEF ReplyToDead
  <2>2. CASE ReplyFails(h)
    <3>1. SendFailedReply(txn, buf, Replied(h), thr[h].stack, "BR_FAILED_REPLY")
      BY <2>2, ReplyFailsWith
    <3>. QED
      BY <1>1, <3>1
  <2>3. CASE Reply(h)
    <3>1. oops' = oops
      BY <2>3 DEF Reply
    <3>. QED
      BY ONLY <1>0, <3>1 DEF Unflagged
  <2>4. CASE ReadTxn(h)
    <3>1. oops' \subseteq oops \cup {"no buffer"}
      BY <2>4 DEF ReadTxn
    <3>. QED
      BY ONLY <1>0, <3>1 DEF Unflagged
  <2>. QED
    BY <1>5, <2>1, <2>2, <2>3, <2>4
<1>6. ASSUME NEW h \in Threads, ThreadExit(h) \/ ReleaseThread(h) \/ ReleaseThreadWork(h)
      PROVE  Unflagged'
  BY ONLY <1>0, <1>2, <1>3, <1>6 DEF ThreadExit, ReleaseThread, ReleaseThreadWork, Unflagged
<1>7. ASSUME NEW n \in Nodes, ReleaseNodeWork(n) PROVE Unflagged'
  BY ONLY <1>0, <1>2, <1>7 DEF ReleaseNodeWork, Unflagged
<1>8. ASSUME NEW p \in Procs, ReleaseProcWork(p) \/ ReleaseProc(p) PROVE Unflagged'
  <2>1. CASE ReleaseProcWork(p)
    BY <1>2, <2>1 DEF ReleaseProcWork
  <2>2. CASE ReleaseProc(p)
    <3>1. oops' \subseteq oops \cup {"outlives release"}
      BY <2>2 DEF ReleaseProc
    <3>. QED
      BY ONLY <1>0, <3>1 DEF Unflagged
  <2>. QED
    BY <1>8, <2>1, <2>2
<1>. QED
  BY <1>4, <1>5, <1>6, <1>7, <1>8

\* Of the one-way calls to a node at most one is in delivery, and the node says
\* so; the nodes of a process that is being released are past that.
THEOREM AsyncInvAlways ==
    ASSUME ~CookieMismatch
    PROVE  Spec => [](AsyncInv /\ Unflagged)
<1>1. Init => AsyncInv /\ Unflagged
  <2>. SUFFICES ASSUME Init PROVE AsyncInv /\ Unflagged
    OBVIOUS
  <2>1. ASSUME NEW n \in Nodes PROVE AsyncOK(n)
    <3>1. InDelivery(n) = {}
      BY DEF Init, InDelivery, NoBuf
    <3>. QED
      BY <3>1 DEF Init, AsyncOK
  <2>. QED
    BY <2>1 DEF AsyncInv, Init, Unflagged
<1>2. /\ TypeOK /\ TypeOK' /\ BufferPointersAgree /\ CallsInv
      /\ AsyncInv /\ Unflagged /\ [Next]_vars
      => AsyncInv' /\ Unflagged'
  <2>. SUFFICES ASSUME TypeOK, TypeOK', BufferPointersAgree, CallsInv, AsyncInv,
                       Unflagged, [Next]_vars
                PROVE  AsyncInv' /\ Unflagged'
    OBVIOUS
  <2>1. ASSUME NEW h \in Threads, NEW n \in Nodes, NEW oneway \in BOOLEAN,
               CallRefused(h, n, oneway) \/ CallFails(h, n, oneway)
        PROVE  AsyncInv' /\ oops' = oops
    BY <2>1, IdleAsync
  <2>2. ASSUME NEW h \in Threads, NEW n \in Nodes, Call(h, n) \/ CallOneWay(h, n)
        PROVE  AsyncInv' /\ Unflagged'
    BY <2>2, CallAsync, CallOneWayAsync, NoFlag
  <2>3. ASSUME NEW h \in Threads, ReplyRefused(h) \/ ReadError(h) \/ ReadComplete(h) \/ ThreadFreed(h)
        PROVE  AsyncInv' /\ oops' = oops
    BY <2>3, IdleAsync
  <2>4. ASSUME NEW h \in Threads, ReplyToDead(h) \/ ReplyFails(h) \/ Reply(h)
        PROVE  AsyncInv' /\ Unflagged'
    BY <2>4, FailedReplyAsync, ReplyAsync, NoFlag
  <2>5. ASSUME NEW h \in Threads, NEW b \in Bufs, FreeBuffer(h, b)
        PROVE  AsyncInv' /\ Unflagged'
    BY <2>5, FreeBufferAsync
  <2>6. ASSUME NEW h \in Threads, ReadTxn(h) PROVE AsyncInv' /\ Unflagged'
    BY <2>6, ReadTxnAsync, NoFlag
  <2>7. ASSUME NEW h \in Threads, ThreadExit(h) \/ ReleaseThread(h)
        PROVE  AsyncInv' /\ Unflagged'
    BY <2>7, ExitAsync, NoFlag
  <2>8. ASSUME NEW p \in Procs, Close(p) \/ DeferredRelease(p) PROVE AsyncInv' /\ oops' = oops
    BY <2>8, IdleAsync
  <2>9. ASSUME NEW h \in Threads, ReleaseThreadWork(h)
        PROVE  AsyncInv' /\ Unflagged'
    BY <2>9, ReleaseThreadWorkAsync, NoFlag
  <2>10. ASSUME NEW n \in Nodes, ReleaseNodeWork(n)
         PROVE  AsyncInv' /\ Unflagged'
    BY <2>10, ReleaseNodeWorkAsync, NoFlag
  <2>11. ASSUME NEW p \in Procs, ReleaseProcWork(p) \/ ReleaseProc(p)
         PROVE  AsyncInv' /\ Unflagged'
    BY <2>11, ReleaseProcWorkAsync, ReleaseProcAsync, NoFlag
  <2>12. ASSUME UNCHANGED vars PROVE AsyncInv' /\ oops' = oops
    BY <2>12, IdleAsync
  <2>. QED
    BY <2>1, <2>2, <2>3, <2>4, <2>5, <2>6, <2>7, <2>8, <2>9, <2>10, <2>11, <2>12
       DEF Next, Write, Read, Worker, Unflagged
<1>. QED
  BY <1>1, <1>2, TypeCorrect, PointersAgreeAlways, CallsInvAlways, PTL DEF Spec

\* No two one-way calls to a node are in the hands of its process at once, and
\* none waits in async_todo for nothing.
THEOREM AsyncAlways ==
    ASSUME ~CookieMismatch
    PROVE  Spec => []AsyncSerialised
<1>1. TypeOK /\ CallsInv /\ AsyncInv => AsyncSerialised
  <2>. SUFFICES ASSUME TypeOK, CallsInv, AsyncInv, NEW n \in Nodes, ~lock.held
                PROVE  /\ Cardinality(InDelivery(n)) <= 1
                       /\ node[n].async <=> InDelivery(n) # {} \/ n \in orphaned
                       /\ node[n].todo # <<>> => node[n].async
    BY DEF AsyncSerialised
  <2>1. lock = Unlocked
    BY UnlockedOK DEF CallsInv
  <2>2. lock.proc = NIL
    BY <2>1 DEF Unlocked
  <2>3. AsyncOK(n)
    BY <2>2, OwnerAssumption, NilAssumption DEF AsyncInv
  <2>4. InDelivery(n) = {} \/ \E b : InDelivery(n) = {b}
    BY <2>3 DEF AsyncOK
  <2>5. Cardinality(InDelivery(n)) <= 1
    BY <2>4, FS_EmptySet, FS_Singleton, SMTT(60)
  <2>. QED
    BY <2>3, <2>5 DEF AsyncOK
<1>. QED
  BY <1>1, TypeCorrect, CallsInvAlways, AsyncInvAlways, PTL

\* No BUG() or BUG_ON() of the transaction code fires, no failed reply is
\* dropped, and no transaction outlives the process that was to serve it.
THEOREM NoBugAlways ==
    ASSUME ~CookieMismatch
    PROVE  Spec => []NoBug
<1>1. CallsInv /\ Unflagged => NoBug
  BY DEF CallsInv, NoBug, Unflagged
<1>. QED
  BY <1>1, CallsInvAlways, AsyncInvAlways, PTL


-------------------------------------------------------------------------------
(* What a thread is owed *)

\* The positions in a list that hold an item of G.
At(s, G) == {i \in DOMAIN s : s[i] \in G}

LEMMA AtFinite ==
    ASSUME NEW S, NEW s \in Seq(S), NEW G
    PROVE  IsFiniteSet(At(s, G)) /\ Cardinality(At(s, G)) \in Nat
<1>1. At(s, G) \subseteq 1..Len(s) /\ Len(s) \in Int
  BY DEF At
<1>2. IsFiniteSet(1..Len(s))
  BY <1>1, FS_Interval
<1>3. IsFiniteSet(At(s, G))
  BY <1>1, <1>2, FS_Subset
<1>. QED
  BY <1>3, FS_CardinalityType

LEMMA AtAppend ==
    ASSUME NEW S, NEW s \in Seq(S), NEW w \in S, NEW G
    PROVE  Cardinality(At(Append(s, w), G)) = Cardinality(At(s, G)) + One(w \in G)
<1>1. IsFiniteSet(At(s, G)) /\ Cardinality(At(s, G)) \in Nat
  BY AtFinite
<1>2. /\ DOMAIN Append(s, w) = DOMAIN s \cup {Len(s) + 1} /\ Len(s) + 1 \notin DOMAIN s
      /\ Append(s, w)[Len(s) + 1] = w
      /\ \A i \in DOMAIN s : Append(s, w)[i] = s[i]
  OBVIOUS
<1>3. CASE w \in G
  <2>1. At(Append(s, w), G) = At(s, G) \cup {Len(s) + 1} /\ Len(s) + 1 \notin At(s, G)
    BY <1>2, <1>3 DEF At
  <2>2. Cardinality(At(s, G) \cup {Len(s) + 1}) = Cardinality(At(s, G)) + 1
    BY <1>1, <2>1, FS_AddElement
  <2>. QED
    BY <1>3, <2>1, <2>2 DEF One
<1>4. CASE w \notin G
  <2>1. At(Append(s, w), G) = At(s, G)
    BY <1>2, <1>4 DEF At
  <2>. QED
    BY <1>1, <1>4, <2>1 DEF One
<1>. QED
  BY <1>3, <1>4

LEMMA AtTail ==
    ASSUME NEW S, NEW s \in Seq(S), s # <<>>, NEW G
    PROVE  Cardinality(At(Tail(s), G)) = Cardinality(At(s, G)) - One(Head(s) \in G)
<1>1. IsFiniteSet(At(s, G)) /\ Cardinality(At(s, G)) \in Nat
  BY AtFinite
<1>2. Tail(s) \in Seq(S) /\ Len(Tail(s)) = Len(s) - 1 /\ Len(s) \in Nat \ {0}
  OBVIOUS
<1>3. IsFiniteSet(At(Tail(s), G)) /\ Cardinality(At(Tail(s), G)) \in Nat
  BY <1>2, AtFinite
<1>4. \A i \in 1..(Len(s) - 1) : Tail(s)[i] = s[i + 1]
  BY <1>2
<1>. DEFINE T == At(Tail(s), G)
            U == At(s, G) \ {1}
            f == [i \in T |-> i + 1]
<1>5. \A i \in T : i \in 1..(Len(s) - 1) /\ i + 1 \in U
  BY <1>2, <1>4 DEF At
<1>6. \A j \in U : j - 1 \in T /\ (j - 1) + 1 = j
  BY <1>2, <1>4 DEF At
<1>7. f \in Bijection(T, U)
  <2>1. f \in [T -> U]
    BY <1>5
  <2>2. \A i, j \in T : f[i] = f[j] => i = j
    BY <1>5
  <2>3. \A j \in U : \E i \in T : f[i] = j
    <3>. SUFFICES ASSUME NEW j \in U PROVE \E i \in T : f[i] = j
      OBVIOUS
    <3>1. j - 1 \in T /\ (j - 1) + 1 = j
      BY <1>6
    <3>2. f[j - 1] = j
      BY <3>1
    <3>. QED
      BY <3>1, <3>2
  <2>. QED
    BY <2>1, <2>2, <2>3 DEF Bijection, Injection, Surjection, IsInjective
<1>8. Cardinality(U) = Cardinality(T)
  BY <1>3, <1>7, FS_Bijection DEF ExistsBijection
<1>. HIDE DEF T, U
<1>9. Cardinality(At(s, G) \ {1}) = IF 1 \in At(s, G) THEN Cardinality(At(s, G)) - 1
                                    ELSE Cardinality(At(s, G))
  BY <1>1, FS_RemoveElement
<1>10. 1 \in At(s, G) <=> Head(s) \in G
  BY <1>2 DEF At
<1>. QED
  BY <1>1, <1>8, <1>9, <1>10 DEF T, U, One


\* The items a thread returns from a read for: its completions and the replies.
Returned(tx, bs) == {Complete} \cup {t \in Txns : bs[tx[t].buffer].node = NIL}

\* The calls a thread has not been answered.
Asked(tx, bs, g) == {t \in CallsOf(tx, bs) : tx[t].from = g}

Owed(tx, bs, hs, g) ==
    Cardinality(At(hs[g].todo, Returned(tx, bs))) + Cardinality(Asked(tx, bs, g))
    + One(hs[g].err # "BR_OK") + One(hs[g].err2 # "BR_OK")

OwedInv == \A g \in Threads : lock.thread # g => due[g] = Owed(txn, buf, thr, g)

\* What an item of a thread's list counts for is settled while it waits.
SameItems(tx, bs, ty, bt, s) ==
    \A i \in DOMAIN s : s[i] \in Returned(ty, bt) <=> s[i] \in Returned(tx, bs)

LEMMA AskedFinite ==
    ASSUME NEW tx, NEW bs, NEW g
    PROVE  IsFiniteSet(Asked(tx, bs, g)) /\ Cardinality(Asked(tx, bs, g)) \in Nat
<1>1. Asked(tx, bs, g) \subseteq Txns
  BY DEF Asked, CallsOf
<1>2. IsFiniteSet(Asked(tx, bs, g))
  BY <1>1, FiniteAssumption, FS_Subset
<1>. QED
  BY <1>2, FS_CardinalityType

\* The two numbers a step may change.
LEMMA OwedIs ==
    ASSUME NEW tx, NEW bs, NEW hs \in [Threads -> Thread], NEW g \in Threads
    PROVE  /\ Owed(tx, bs, hs, g) =
                Cardinality(At(hs[g].todo, Returned(tx, bs))) + Cardinality(Asked(tx, bs, g))
                + One(hs[g].err # "BR_OK") + One(hs[g].err2 # "BR_OK")
           /\ Cardinality(At(hs[g].todo, Returned(tx, bs))) \in Nat
           /\ Cardinality(Asked(tx, bs, g)) \in Nat
           /\ hs[g].todo \in Seq(Txns \cup {Complete})
<1>1. hs[g].todo \in Seq(Txns \cup {Complete})
  BY DEF Thread
<1>. QED
  BY <1>1, AtFinite, AskedFinite DEF Owed

LEMMA SameAt ==
    ASSUME NEW tx, NEW bs, NEW ty, NEW bt, NEW s, SameItems(tx, bs, ty, bt, s)
    PROVE  At(s, Returned(ty, bt)) = At(s, Returned(tx, bs))
BY DEF SameItems, At

\* A step that changes nothing thread g is owed.
LEMMA OwedSame ==
    ASSUME NEW tx, NEW bs, NEW hs, NEW ty, NEW bt, NEW ht, NEW g \in Threads,
           ht[g].todo = hs[g].todo, ht[g].err = hs[g].err, ht[g].err2 = hs[g].err2,
           SameItems(tx, bs, ty, bt, hs[g].todo), Asked(ty, bt, g) = Asked(tx, bs, g)
    PROVE  Owed(ty, bt, ht, g) = Owed(tx, bs, hs, g)
BY SameAt DEF Owed


LEMMA ItemsWait ==
    ASSUME TypeOK, NEW g \in Threads, NEW i \in DOMAIN thr[g].todo, thr[g].todo[i] \in Txns
    PROVE  thr[g].todo[i] \in Held(Lists, <<"t", g>>) /\ thr[g].todo[i] \in Waiting(Lists)
<1>1. <<"t", g>> \in Place /\ Lists[<<"t", g>>] = thr[g].todo
  BY PlaceIs, ListsIs
<1>2. thr[g].todo[i] \in Held(Lists, <<"t", g>>)
  BY <1>1 DEF Held
<1>. QED
  BY <1>1, <1>2, HeldWaits

LEMMA ItemsKept ==
    ASSUME TypeOK, NEW g \in Threads, NEW ty, NEW bt,
           \A u \in Held(Lists, <<"t", g>>) :
               bt[ty[u].buffer].node = NIL <=> buf[txn[u].buffer].node = NIL
    PROVE  SameItems(txn, buf, ty, bt, thr[g].todo)
<1>. SUFFICES ASSUME NEW i \in DOMAIN thr[g].todo
              PROVE  thr[g].todo[i] \in Returned(ty, bt) <=> thr[g].todo[i] \in Returned(txn, buf)
  BY DEF SameItems
<1>1. CASE thr[g].todo[i] \in Txns
  BY <1>1, ItemsWait, CompleteAssumption DEF Returned
<1>2. CASE thr[g].todo[i] \notin Txns
  BY <1>2 DEF Returned
<1>. QED
  BY <1>1, <1>2

\* What thread r is told of its errors.
Codes1(r) == One(r.err # "BR_OK") + One(r.err2 # "BR_OK")

\* The three amounts a step may change.
LEMMA OwedSum ==
    ASSUME NEW tx, NEW bs, NEW hs \in [Threads -> Thread], NEW g \in Threads
    PROVE  /\ Owed(tx, bs, hs, g) = Cardinality(At(hs[g].todo, Returned(tx, bs)))
                                    + Cardinality(Asked(tx, bs, g)) + Codes1(hs[g])
           /\ Cardinality(At(hs[g].todo, Returned(tx, bs))) \in Int
           /\ Cardinality(Asked(tx, bs, g)) \in Int
           /\ Codes1(hs[g]) \in Int
           /\ Owed(tx, bs, hs, g) \in Int
<1>1. /\ Cardinality(At(hs[g].todo, Returned(tx, bs))) \in Int
      /\ Cardinality(Asked(tx, bs, g)) \in Int
  BY OwedIs
<1>2. One(hs[g].err # "BR_OK") \in Int /\ One(hs[g].err2 # "BR_OK") \in Int
  BY DEF One
<1>3. Owed(tx, bs, hs, g) = Cardinality(At(hs[g].todo, Returned(tx, bs)))
                             + Cardinality(Asked(tx, bs, g)) + Codes1(hs[g])
  BY <1>1, <1>2 DEF Owed, Codes1
<1>4. Codes1(hs[g]) \in Int
  BY <1>2 DEF Codes1
<1>. QED
  BY <1>1, <1>3, <1>4

\* Threads of which nothing changes.
LEMMA OwedIdle ==
    ASSUME NEW tx, NEW bs, NEW hs \in [Threads -> Thread], NEW ht \in [Threads -> Thread],
           NEW g \in Threads, ht[g].todo = hs[g].todo, ht[g].err = hs[g].err, ht[g].err2 = hs[g].err2
    PROVE  Owed(tx, bs, ht, g) = Owed(tx, bs, hs, g)
BY DEF Owed

LEMMA RefuseOwed ==
    ASSUME TypeOK, TypeOK', CallsInv, OwedInv, NEW h \in Threads, CanWrite(h),
           NEW code, code # "BR_OK", Refuse(h, code)
    PROVE  OwedInv'
<1>1. /\ thr' = [thr EXCEPT ![h].err = code] /\ due' = [due EXCEPT ![h] = @ + 1]
      /\ UNCHANGED <<txn, buf, lock>> /\ thr[h].err = "BR_OK"
  BY DEF Refuse, Returns, CanWrite
<1>2. lock.thread = NIL
  BY UnlockedOK DEF CallsInv, CanWrite, Running
<1>3. thr \in [Threads -> Thread] /\ thr' \in [Threads -> Thread] /\ due \in [Threads -> Int]
  BY DEF TypeOK
<1>4. \A g \in Threads : g # h => thr'[g] = thr[g] /\ due'[g] = due[g]
  BY <1>1, <1>3
<1>5. /\ thr'[h].todo = thr[h].todo /\ thr'[h].err2 = thr[h].err2 /\ thr'[h].err = code
      /\ due'[h] = due[h] + 1 /\ due[h] \in Int
  BY <1>1, <1>3 DEF Thread
<1>6. \A g \in Threads : due[g] = Owed(txn, buf, thr, g)
  BY <1>2, NilAssumption DEF OwedInv
<1>7. Owed(txn, buf, thr', h) = Owed(txn, buf, thr, h) + 1
  <2>1. Codes1(thr'[h]) = Codes1(thr[h]) + 1
    BY <1>1, <1>5 DEF Codes1, One
  <2>2. Cardinality(At(thr'[h].todo, Returned(txn, buf))) = Cardinality(At(thr[h].todo, Returned(txn, buf)))
    BY <1>5
  <2>. QED
    BY <1>3, <2>1, <2>2, OwedSum
<1>8. \A g \in Threads : g # h => Owed(txn, buf, thr', g) = Owed(txn, buf, thr, g)
  BY <1>3, <1>4, OwedIdle
<1>9. \A g \in Threads : due'[g] = Owed(txn, buf, thr', g)
  BY <1>4, <1>5, <1>6, <1>7, <1>8
<1>. QED
  BY <1>1, <1>9 DEF OwedInv

LEMMA ReadErrorOwed ==
    ASSUME TypeOK, TypeOK', CallsInv, OwedInv, NEW h \in Threads, ReadError(h)
    PROVE  OwedInv'
<1>1. /\ thr' = [thr EXCEPT ![h].err = "BR_OK", ![h].err2 = "BR_OK", ![h].late = FALSE]
      /\ due' = [due EXCEPT ![h] = @ + (IF thr[h].err2 = "BR_OK" THEN -1 ELSE -2)]
      /\ UNCHANGED <<txn, buf, lock>> /\ thr[h].err # "BR_OK"
  BY DEF ReadError, ErrorFirst, Returns
<1>2. lock.thread = NIL
  BY UnlockedOK DEF CallsInv, ReadError, Running
<1>3. thr \in [Threads -> Thread] /\ thr' \in [Threads -> Thread] /\ due \in [Threads -> Int]
  BY DEF TypeOK
<1>4. \A g \in Threads : g # h => thr'[g] = thr[g] /\ due'[g] = due[g]
  BY <1>1, <1>3
<1>5. /\ thr'[h].todo = thr[h].todo /\ thr'[h].err2 = "BR_OK" /\ thr'[h].err = "BR_OK"
      /\ due'[h] = due[h] - (IF thr[h].err2 = "BR_OK" THEN 1 ELSE 2) /\ due[h] \in Int
  BY <1>1, <1>3 DEF Thread
<1>6. \A g \in Threads : due[g] = Owed(txn, buf, thr, g)
  BY <1>2, NilAssumption DEF OwedInv
<1>7. Owed(txn, buf, thr', h) = Owed(txn, buf, thr, h) - (IF thr[h].err2 = "BR_OK" THEN 1 ELSE 2)
  <2>. DEFINE k == IF thr[h].err2 = "BR_OK" THEN 1 ELSE 2
  <2>1. Codes1(thr'[h]) = Codes1(thr[h]) + (0 - k) /\ 0 - k \in Int
    BY <1>1, <1>5 DEF Codes1, One
  <2>3. k \in Int
    OBVIOUS
  <2>. HIDE DEF k
  <2>4. Owed(txn, buf, thr', h) = Owed(txn, buf, thr, h) - k
    <3>1. Cardinality(At(thr'[h].todo, Returned(txn, buf))) = Cardinality(At(thr[h].todo, Returned(txn, buf)))
      BY <1>5
    <3>. QED
      BY <1>3, <2>1, <2>3, <3>1, OwedSum
  <2>. QED
    BY <2>4 DEF k
<1>8. \A g \in Threads : g # h => Owed(txn, buf, thr', g) = Owed(txn, buf, thr, g)
  BY <1>3, <1>4, OwedIdle
<1>9. \A g \in Threads : due'[g] = Owed(txn, buf, thr', g)
  BY <1>4, <1>5, <1>6, <1>7, <1>8
<1>. QED
  BY <1>1, <1>9 DEF OwedInv

LEMMA ReadCompleteOwed ==
    ASSUME TypeOK, TypeOK', CallsInv, OwedInv, NEW h \in Threads, ReadComplete(h)
    PROVE  OwedInv'
<1>1. /\ thr' = [Dequeue(thr, h) EXCEPT ![h].late = @ /\ Tail(thr[h].todo) # <<>>]
      /\ due' = [due EXCEPT ![h] = @ + -1]
      /\ UNCHANGED <<txn, buf, lock>> /\ thr[h].todo # <<>> /\ Head(thr[h].todo) = Complete
  BY DEF ReadComplete, Returns, OwnWork, OwnTxn
<1>2. lock.thread = NIL
  BY UnlockedOK DEF CallsInv, ReadComplete, Running
<1>3. thr \in [Threads -> Thread] /\ thr' \in [Threads -> Thread] /\ due \in [Threads -> Int]
  BY DEF TypeOK
<1>4. \A g \in Threads : g # h => thr'[g] = thr[g] /\ due'[g] = due[g]
  BY <1>1, <1>3 DEF Dequeue
<1>5. /\ thr'[h].todo = Tail(thr[h].todo) /\ thr'[h].err2 = thr[h].err2 /\ thr'[h].err = thr[h].err
      /\ due'[h] = due[h] - 1 /\ due[h] \in Int
  BY <1>1, <1>3 DEF Thread, Dequeue
<1>6. \A g \in Threads : due[g] = Owed(txn, buf, thr, g)
  BY <1>2, NilAssumption DEF OwedInv
<1>7. Owed(txn, buf, thr', h) = Owed(txn, buf, thr, h) - 1
  <2>1. thr[h].todo \in Seq(Txns \cup {Complete})
    BY <1>3 DEF Thread
  <2>2. Cardinality(At(Tail(thr[h].todo), Returned(txn, buf)))
          = Cardinality(At(thr[h].todo, Returned(txn, buf))) - One(Complete \in Returned(txn, buf))
    BY <1>1, <2>1, AtTail
  <2>3. One(Complete \in Returned(txn, buf)) = 1
    BY DEF One, Returned
  <2>4. Cardinality(At(thr'[h].todo, Returned(txn, buf)))
          = Cardinality(At(thr[h].todo, Returned(txn, buf))) - 1
    BY <1>5, <2>2, <2>3
  <2>6. Codes1(thr'[h]) = Codes1(thr[h])
    BY <1>5 DEF Codes1
  <2>. QED
    BY <1>3, <2>4, <2>6, OwedSum
<1>8. \A g \in Threads : g # h => Owed(txn, buf, thr', g) = Owed(txn, buf, thr, g)
  BY <1>3, <1>4, OwedIdle
<1>9. \A g \in Threads : due'[g] = Owed(txn, buf, thr', g)
  BY <1>4, <1>5, <1>6, <1>7, <1>8
<1>. QED
  BY <1>1, <1>9 DEF OwedInv

\* A file is closed, or the release of a process begins.
LEMMA CloseOwed ==
    ASSUME TypeOK, CallsInv, OwedInv, NEW p \in Procs, Close(p) \/ DeferredRelease(p)
    PROVE  OwedInv'
<1>1. UNCHANGED <<thr, txn, buf, due>> /\ lock.thread = NIL
  BY UnlockedOK DEF Close, DeferredRelease, CallsInv
<1>. QED
  BY <1>1, NilAssumption DEF OwedInv

\* The transactions a step leaves alone count as before.
LEMMA CountsKept ==
    ASSUME TypeOK, QueueOK(txn, buf, Lists), NEW X, NEW ty, NEW bt,
           \A u \in Txns \ X : /\ ty[u] = txn[u]
                               /\ txn[u].buffer # NIL => bt[txn[u].buffer].node = buf[txn[u].buffer].node
    PROVE  /\ \A g \in Threads : Held(Lists, <<"t", g>>) \cap X = {}
                                   => SameItems(txn, buf, ty, bt, thr[g].todo)
           /\ \A u \in Txns \ X : u \in CallsOf(ty, bt) <=> u \in CallsOf(txn, buf)
<1>1. ASSUME NEW g \in Threads, Held(Lists, <<"t", g>>) \cap X = {}
      PROVE  SameItems(txn, buf, ty, bt, thr[g].todo)
  <2>1. ASSUME NEW u \in Held(Lists, <<"t", g>>)
        PROVE  bt[ty[u].buffer].node = NIL <=> buf[txn[u].buffer].node = NIL
    <3>1. <<"t", g>> \in Place
      BY PlaceIs
    <3>2. u \in Waiting(Lists) /\ u \in Txns /\ u \notin X
      BY <1>1, <2>1, <3>1, HeldWaits
    <3>3. txn[u].buffer # NIL
      BY <3>2, WaitingBuffer
    <3>. QED
      BY <3>2, <3>3
  <2>. QED
    BY <2>1, ItemsKept
<1>2. \A u \in Txns \ X : u \in CallsOf(ty, bt) <=> u \in CallsOf(txn, buf)
  BY DEF CallsOf, IsCall
<1>. QED
  BY <1>1, <1>2

\* An item is appended to the list of a thread.
Appends(hs, ht, g, w) == w \in Txns \cup {Complete} /\ ht[g].todo = Append(hs[g].todo, w)

LEMMA ItemsAppend ==
    ASSUME NEW tx, NEW bs, NEW hs \in [Threads -> Thread], NEW ty, NEW bt, NEW ht, NEW g \in Threads,
           NEW w, Appends(hs, ht, g, w),
           SameItems(tx, bs, ty, bt, hs[g].todo)
    PROVE  Cardinality(At(ht[g].todo, Returned(ty, bt)))
             = Cardinality(At(hs[g].todo, Returned(tx, bs))) + One(w \in Returned(ty, bt))
<1>1. /\ hs[g].todo \in Seq(Txns \cup {Complete}) /\ w \in Txns \cup {Complete}
      /\ ht[g].todo = Append(hs[g].todo, w)
  BY DEF Thread, Appends
<1>2. Cardinality(At(Append(hs[g].todo, w), Returned(ty, bt)))
        = Cardinality(At(hs[g].todo, Returned(ty, bt))) + One(w \in Returned(ty, bt))
  BY <1>1, AtAppend
<1>. QED
  BY <1>1, <1>2, SameAt

LEMMA ItemsStay ==
    ASSUME NEW tx, NEW bs, NEW hs, NEW ty, NEW bt, NEW ht, NEW g \in Threads,
           ht[g].todo = hs[g].todo, SameItems(tx, bs, ty, bt, hs[g].todo)
    PROVE  Cardinality(At(ht[g].todo, Returned(ty, bt))) = Cardinality(At(hs[g].todo, Returned(tx, bs)))
BY SameAt

\* A call is made, or answered.
LEMMA AskedMore ==
    ASSUME NEW tx, NEW bs, NEW ty, NEW bt, NEW g, NEW t, t \notin CallsOf(tx, bs),
           t \in CallsOf(ty, bt), ty[t].from = g,
           \A u \in Txns \ {t} : /\ u \in CallsOf(ty, bt) <=> u \in CallsOf(tx, bs)
                                 /\ ty[u].from = tx[u].from
    PROVE  Cardinality(Asked(ty, bt, g)) = Cardinality(Asked(tx, bs, g)) + 1
<1>1. IsFiniteSet(Asked(tx, bs, g))
  BY AskedFinite
<1>3. t \notin Asked(tx, bs, g)
  BY DEF Asked
<1>2. Asked(ty, bt, g) = Asked(tx, bs, g) \cup {t}
  BY DEF Asked, CallsOf
<1>. QED
  BY <1>1, <1>2, <1>3, FS_AddElement

LEMMA AskedSame ==
    ASSUME NEW tx, NEW bs, NEW ty, NEW bt, NEW g,
           \A u \in Txns : \/ /\ u \in CallsOf(ty, bt) <=> u \in CallsOf(tx, bs)
                              /\ ty[u].from = tx[u].from
                           \/ u \notin Asked(ty, bt, g) /\ u \notin Asked(tx, bs, g)
    PROVE  Asked(ty, bt, g) = Asked(tx, bs, g)
<1>1. Asked(ty, bt, g) \subseteq Txns /\ Asked(tx, bs, g) \subseteq Txns
  BY DEF Asked, CallsOf
<1>2. \A u \in Txns : u \in Asked(ty, bt, g) <=> u \in Asked(tx, bs, g)
  BY DEF Asked
<1>. QED
  BY <1>1, <1>2

\* A thread that waits for no call has asked for none.
LEMMA NoneAsked ==
    ASSUME CallsInv, NEW h \in Threads, thr[h].stack = NIL
    PROVE  Asked(txn, buf, h) = {}
<1>1. Mem(CallsOf(txn, buf), Unread(txn, buf, Lists), txn, h) \subseteq Anc(txn, NIL)
  BY DEF CallsInv, Flow, Woven, Shape, Topped, Stacks
<1>2. Anc(txn, NIL) = {}
  BY AncNil
<1>. QED
  BY <1>1, <1>2 DEF Asked, Mem

LEMMA ThreadFreedOwed ==
    ASSUME TypeOK, TypeOK', CallsInv, OwedInv, NEW h \in Threads, ThreadFreed(h)
    PROVE  OwedInv'
<1>1. /\ lock.thread = h /\ thr' = [thr EXCEPT ![h] = NewThread] /\ due' = [due EXCEPT ![h] = 0]
      /\ UNCHANGED <<txn, buf>> /\ h # NIL
  BY NilAssumption DEF ThreadFreed
<1>2. thr[h].stack = NIL
  BY <1>1 DEF CallsInv, LockOK
<1>3. thr \in [Threads -> Thread] /\ thr' \in [Threads -> Thread] /\ due \in [Threads -> Int]
  BY DEF TypeOK
<1>4. \A g \in Threads : g # h => /\ thr'[g] = thr[g] /\ due'[g] = due[g]
                                  /\ due[g] = Owed(txn, buf, thr, g)
  BY <1>1, <1>3 DEF OwedInv
<1>5. \A g \in Threads : g # h => due'[g] = Owed(txn, buf, thr', g)
  BY <1>3, <1>4, OwedIdle
<1>6. due'[h] = Owed(txn, buf, thr', h)
  <2>1. due'[h] = 0 /\ thr'[h] = NewThread
    BY <1>1, <1>3
  <2>2. At(thr'[h].todo, Returned(txn, buf)) = {}
    BY <2>1 DEF At, NewThread
  <2>3. Asked(txn, buf, h) = {}
    BY <1>2, NoneAsked
  <2>4. Codes1(thr'[h]) = 0
    BY <2>1 DEF Codes1, NewThread, One
  <2>5. Cardinality({}) = 0
    BY FS_EmptySet
  <2>6. Cardinality(At(thr'[h].todo, Returned(txn, buf))) = 0 /\ Cardinality(Asked(txn, buf, h)) = 0
    BY <2>2, <2>3, <2>5
  <2>. QED
    BY <1>3, <2>1, <2>4, <2>6, OwedSum
<1>. QED
  BY <1>1, <1>5, <1>6 DEF OwedInv

LEMMA CallOwed ==
    ASSUME TypeOK, TypeOK', BufferPointersAgree, CallsInv, OwedInv,
           NEW h \in Threads, NEW n \in Nodes, Call(h, n)
    PROVE  OwedInv'
<1>. DEFINE p == Owner[n]
            k == Callee(h, p)
<1>1. PICK t \in FreeTxns, b \in FreeBufs :
         /\ txn' = [txn EXCEPT ![t] = [live |-> TRUE, from |-> h,
                        fromParent |-> thr[h].stack, toThread |-> k,
                        toParent |-> NIL, oneway |-> FALSE, buffer |-> b]]
         /\ buf' = [buf EXCEPT ![b] = NewBuf(p, n, t, FALSE)]
         /\ thr' = IF k = NIL THEN Waiter(h, t) ELSE Enqueue(Waiter(h, t), k, t)
  BY DEF Call, Waiter
<1>2. /\ lock' = lock /\ ~lock.held /\ p # ProcOf[h] /\ n # NIL /\ h # NIL
      /\ due' = [due EXCEPT ![h] = @ + 2]
  <2>1. <<h, n>> \in Calls
    BY DEF Call, MayCall
  <2>2. Owner[n] # ProcOf[h]
    BY <2>1, CallsAssumption
  <2>. QED
    BY <2>2, NilAssumption DEF Call, CanWrite, Running, Returns
<1>3. lock.thread = NIL /\ QueueOK(txn, buf, Lists) /\ Woven(CallsOf(txn, buf), Unread(txn, buf, Lists), txn, Stacks)
  BY <1>2, UnlockedOK DEF CallsInv, Flow
<1>4. t \in Txns /\ t # Complete /\ t \notin CallsOf(txn, buf) /\ t \notin Waiting(Lists)
  BY FreshTxn
<1>5. b \in Bufs /\ b # NIL /\ \A u \in Txns : txn[u].buffer # b
  BY FreshBuf
<1>6. Stacks[h] = thr[h].stack /\ thr[h].stack \in CallsOf(txn, buf) \cup {NIL}
  BY TopsAreCalls DEF Stacks
<1>7. k # NIL => k \in Threads /\ k # h
  <2>1. k # NIL => Waiters(txn, Stacks[h], p) = {k}
    <3>1. Shape(CallsOf(txn, buf), Unread(txn, buf, Lists), txn, Stacks) /\ Single(CallsOf(txn, buf), txn)
      BY <1>3 DEF Woven
    <3>. HIDE DEF p
    <3>. QED
      BY <1>6, <3>1, CalleeIs
  <2>. QED
    BY <1>2, <2>1 DEF Waiters
<1>. HIDE DEF k
<1>8. CallMade(h, t, k)
  BY <1>1, <1>4, <1>7, CallThreads
<1>9. /\ txn'[t].live /\ ~txn'[t].oneway /\ txn'[t].buffer = b /\ txn'[t].from = h
      /\ \A u \in Txns \ {t} : txn'[u] = txn[u]
      /\ buf'[b].node = n
      /\ \A a \in Bufs \ {b} : buf'[a] = buf[a]
  BY <1>1, <1>4, <1>5 DEF TypeOK, NewBuf
<1>10. /\ \A g \in Threads : SameItems(txn, buf, txn', buf', thr[g].todo)
       /\ \A u \in Txns \ {t} : u \in CallsOf(txn', buf') <=> u \in CallsOf(txn, buf)
  <2>1. \A u \in Txns \ {t} : /\ txn'[u] = txn[u]
                              /\ txn[u].buffer # NIL => buf'[txn[u].buffer].node = buf[txn[u].buffer].node
    BY <1>5, <1>9 DEF TypeOK, Txn
  <2>2. \A g \in Threads : Held(Lists, <<"t", g>>) \cap {t} = {}
    BY <1>4, PlaceIs, HeldWaits
  <2>3. \A g \in Threads : Held(Lists, <<"t", g>>) \cap {t} = {}
                             => SameItems(txn, buf, txn', buf', thr[g].todo)
    BY <1>3, <2>1, CountsKept
  <2>4. \A u \in Txns \ {t} : u \in CallsOf(txn', buf') <=> u \in CallsOf(txn, buf)
    BY <1>3, <2>1, CountsKept
  <2>. QED
    BY <2>2, <2>3, <2>4
<1>11. t \in CallsOf(txn', buf') /\ t \notin Returned(txn', buf')
  BY <1>2, <1>4, <1>5, <1>9 DEF CallsOf, IsCall, Returned
<1>12. thr \in [Threads -> Thread] /\ thr' \in [Threads -> Thread] /\ due \in [Threads -> Int]
  BY DEF TypeOK
<1>13. \A g \in Threads : due[g] = Owed(txn, buf, thr, g) /\ due'[g] = due[g] + (IF g = h THEN 2 ELSE 0)
  BY <1>2, <1>3, <1>12, NilAssumption DEF OwedInv
<1>14. ASSUME NEW g \in Threads
       PROVE  /\ Codes1(thr'[g]) = Codes1(thr[g])
              /\ Cardinality(At(thr'[g].todo, Returned(txn', buf')))
                   = Cardinality(At(thr[g].todo, Returned(txn, buf))) + (IF g = h THEN 1 ELSE 0)
              /\ Cardinality(Asked(txn', buf', g))
                   = Cardinality(Asked(txn, buf, g)) + (IF g = h THEN 1 ELSE 0)
  <2>1. /\ thr'[g].err = thr[g].err /\ thr'[g].err2 = thr[g].err2
        /\ thr'[g].todo = IF g = h THEN Append(thr[g].todo, Complete)
                          ELSE IF g = k THEN Append(thr[g].todo, t) ELSE thr[g].todo
    BY <1>8 DEF CallMade
  <2>2. Codes1(thr'[g]) = Codes1(thr[g])
    BY <2>1 DEF Codes1
  <2>3. SameItems(txn, buf, txn', buf', thr[g].todo)
    BY <1>10
  <2>4. Cardinality(At(thr[g].todo, Returned(txn, buf))) \in Int /\ Cardinality(Asked(txn, buf, g)) \in Int
    BY <1>12, OwedSum
  <2>5. Cardinality(At(thr'[g].todo, Returned(txn', buf')))
          = Cardinality(At(thr[g].todo, Returned(txn, buf))) + (IF g = h THEN 1 ELSE 0)
    <3>1. CASE g = h
      <4>1. Cardinality(At(thr'[g].todo, Returned(txn', buf')))
              = Cardinality(At(thr[g].todo, Returned(txn, buf))) + One(Complete \in Returned(txn', buf'))
        <5>1. Appends(thr, thr', g, Complete)
          BY <2>1, <3>1 DEF Appends
        <5>. QED
          BY <1>12, <2>3, <5>1, ItemsAppend
      <4>2. One(Complete \in Returned(txn', buf')) = 1
        BY DEF One, Returned
      <4>. QED
        BY <3>1, <4>1, <4>2
    <3>2. CASE g # h /\ g = k
      <4>1. Cardinality(At(thr'[g].todo, Returned(txn', buf')))
              = Cardinality(At(thr[g].todo, Returned(txn, buf))) + One(t \in Returned(txn', buf'))
        <5>1. Appends(thr, thr', g, t)
          BY <1>4, <2>1, <3>2 DEF Appends
        <5>. QED
          BY <1>12, <2>3, <5>1, ItemsAppend
      <4>2. One(t \in Returned(txn', buf')) = 0
        BY <1>11 DEF One
      <4>. QED
        BY <3>2, <4>1, <4>2
    <3>3. CASE g # h /\ g # k
      <4>1. Cardinality(At(thr'[g].todo, Returned(txn', buf')))
              = Cardinality(At(thr[g].todo, Returned(txn, buf)))
        BY <2>1, <2>3, <3>3, ItemsStay
      <4>. QED
        BY <2>4, <3>3, <4>1
    <3>. QED
      BY <3>1, <3>2, <3>3
  <2>6. Cardinality(Asked(txn', buf', g)) = Cardinality(Asked(txn, buf, g)) + (IF g = h THEN 1 ELSE 0)
    <3>1. \A u \in Txns \ {t} : /\ u \in CallsOf(txn', buf') <=> u \in CallsOf(txn, buf)
                                /\ txn'[u].from = txn[u].from
      BY <1>9, <1>10
    <3>2. CASE g = h
      <4>1. Cardinality(Asked(txn', buf', g)) = Cardinality(Asked(txn, buf, g)) + 1
        BY <1>4, <1>9, <1>11, <3>1, <3>2, AskedMore
      <4>. QED
        BY <3>2, <4>1
    <3>3. CASE g # h
      <4>1. t \notin Asked(txn', buf', g) /\ t \notin Asked(txn, buf, g)
        BY <1>4, <1>9, <3>3 DEF Asked
      <4>2. Asked(txn', buf', g) = Asked(txn, buf, g)
        BY <3>1, <4>1, AskedSame
      <4>. QED
        BY <2>4, <3>3, <4>2
    <3>. QED
      BY <3>2, <3>3
  <2>. QED
    BY <2>2, <2>5, <2>6
<1>15. ASSUME NEW g \in Threads PROVE due'[g] = Owed(txn', buf', thr', g)
  <2>1. /\ Owed(txn, buf, thr, g) = Cardinality(At(thr[g].todo, Returned(txn, buf)))
                                    + Cardinality(Asked(txn, buf, g)) + Codes1(thr[g])
        /\ Owed(txn', buf', thr', g) = Cardinality(At(thr'[g].todo, Returned(txn', buf')))
                                    + Cardinality(Asked(txn', buf', g)) + Codes1(thr'[g])
        /\ Cardinality(At(thr[g].todo, Returned(txn, buf))) \in Int
        /\ Cardinality(Asked(txn, buf, g)) \in Int /\ Codes1(thr[g]) \in Int
    BY <1>12, OwedSum
  <2>. QED
    BY ONLY <1>13, <1>14, <2>1, g \in Threads
<1>. QED
  BY <1>15 DEF OwedInv

LEMMA CallOneWayOwed ==
    ASSUME TypeOK, TypeOK', BufferPointersAgree, CallsInv, OwedInv,
           NEW h \in Threads, NEW n \in Nodes, CallOneWay(h, n)
    PROVE  OwedInv'
<1>1. PICK t \in FreeTxns, b \in FreeBufs :
         /\ txn' = [txn EXCEPT ![t] = [NoTxn EXCEPT !.live = TRUE, !.oneway = TRUE, !.buffer = b]]
         /\ buf' = [buf EXCEPT ![b] = NewBuf(Owner[n], n, t, TRUE)]
  BY DEF CallOneWay
<1>2. /\ thr' = Enqueue(thr, h, Complete) /\ lock' = lock /\ ~lock.held
      /\ due' = [due EXCEPT ![h] = @ + 1]
  BY DEF CallOneWay, CanWrite, Running, Returns
<1>3. lock.thread = NIL /\ QueueOK(txn, buf, Lists)
  BY <1>2, UnlockedOK DEF CallsInv, Flow
<1>4. t \in Txns /\ t \notin CallsOf(txn, buf) /\ t \notin Waiting(Lists)
  BY FreshTxn
<1>5. b \in Bufs /\ b # NIL /\ \A u \in Txns : txn[u].buffer # b
  BY FreshBuf
<1>6. /\ txn'[t].oneway /\ \A u \in Txns \ {t} : txn'[u] = txn[u]
      /\ \A a \in Bufs \ {b} : buf'[a] = buf[a]
  BY <1>1, <1>4, <1>5 DEF TypeOK, NoTxn
<1>7. t \notin CallsOf(txn', buf')
  BY <1>6 DEF CallsOf, IsCall
<1>8. /\ \A g \in Threads : SameItems(txn, buf, txn', buf', thr[g].todo)
      /\ \A u \in Txns \ {t} : u \in CallsOf(txn', buf') <=> u \in CallsOf(txn, buf)
  <2>1. \A u \in Txns \ {t} : /\ txn'[u] = txn[u]
                              /\ txn[u].buffer # NIL => buf'[txn[u].buffer].node = buf[txn[u].buffer].node
    BY <1>5, <1>6 DEF TypeOK, Txn
  <2>2. \A g \in Threads : Held(Lists, <<"t", g>>) \cap {t} = {}
    BY <1>4, PlaceIs, HeldWaits
  <2>3. \A g \in Threads : Held(Lists, <<"t", g>>) \cap {t} = {}
                             => SameItems(txn, buf, txn', buf', thr[g].todo)
    BY <1>3, <2>1, CountsKept
  <2>4. \A u \in Txns \ {t} : u \in CallsOf(txn', buf') <=> u \in CallsOf(txn, buf)
    BY <1>3, <2>1, CountsKept
  <2>. QED
    BY <2>2, <2>3, <2>4
<1>9. thr \in [Threads -> Thread] /\ thr' \in [Threads -> Thread] /\ due \in [Threads -> Int]
  BY DEF TypeOK
<1>10. \A g \in Threads : /\ thr'[g].err = thr[g].err /\ thr'[g].err2 = thr[g].err2
                          /\ thr'[g].todo = IF g = h THEN Append(thr[h].todo, Complete) ELSE thr[g].todo
  BY <1>2, <1>9 DEF Enqueue, Thread
<1>11. ASSUME NEW g \in Threads PROVE Asked(txn', buf', g) = Asked(txn, buf, g)
  <2>1. \A u \in Txns \ {t} : /\ u \in CallsOf(txn', buf') <=> u \in CallsOf(txn, buf)
                              /\ txn'[u].from = txn[u].from
    BY <1>6, <1>8
  <2>2. t \notin Asked(txn', buf', g) /\ t \notin Asked(txn, buf, g)
    BY <1>4, <1>7 DEF Asked
  <2>. QED
    BY <2>1, <2>2, AskedSame
<1>12. ASSUME NEW g \in Threads PROVE due'[g] = Owed(txn', buf', thr', g)
  <2>1. due[g] = Owed(txn, buf, thr, g) /\ due'[g] = due[g] + (IF g = h THEN 1 ELSE 0)
    BY <1>2, <1>3, <1>9, NilAssumption DEF OwedInv
  <2>2. CASE g # h
    <3>1. due[g] \in Int
      BY <1>9
    <3>2. Owed(txn', buf', thr', g) = Owed(txn, buf, thr, g)
      BY <1>8, <1>10, <1>11, <2>2, OwedSame
    <3>. QED
      BY <2>1, <2>2, <3>1, <3>2
  <2>3. CASE g = h
    <3>1. Appends(thr, thr', h, Complete)
      BY <1>10 DEF Appends
    <3>2. Cardinality(At(thr'[h].todo, Returned(txn', buf')))
            = Cardinality(At(thr[h].todo, Returned(txn, buf))) + One(Complete \in Returned(txn', buf'))
      BY <1>8, <1>9, <3>1, ItemsAppend
    <3>3. One(Complete \in Returned(txn', buf')) = 1
      BY DEF One, Returned
    <3>4. Codes1(thr'[h]) = Codes1(thr[h])
      BY <1>10 DEF Codes1
    <3>5. Asked(txn', buf', h) = Asked(txn, buf, h)
      BY <1>11
    <3>6. /\ Owed(txn, buf, thr, h) = Cardinality(At(thr[h].todo, Returned(txn, buf)))
                                      + Cardinality(Asked(txn, buf, h)) + Codes1(thr[h])
          /\ Owed(txn', buf', thr', h) = Cardinality(At(thr'[h].todo, Returned(txn', buf')))
                                      + Cardinality(Asked(txn', buf', h)) + Codes1(thr'[h])
          /\ Cardinality(At(thr[h].todo, Returned(txn, buf))) \in Int
          /\ Cardinality(Asked(txn, buf, h)) \in Int /\ Codes1(thr[h]) \in Int
      BY <1>9, OwedSum
    <3>. QED
      BY ONLY <2>1, <2>3, <3>2, <3>3, <3>4, <3>5, <3>6
  <2>. QED
    BY <2>2, <2>3
<1>. QED
  BY <1>12 DEF OwedInv

LEMMA FreeBufferOwed ==
    ASSUME TypeOK, TypeOK', BufferPointersAgree, CallsInv, OwedInv,
           NEW h \in Threads, NEW b \in Bufs, FreeBuffer(h, b)
    PROVE  OwedInv'
<1>. DEFINE n == buf[b].node
            t == buf[b].txn
            next == buf[b].async /\ n # NIL /\ node[n].todo # <<>>
            w == Head(node[n].todo)
<1>1. /\ ~lock.held /\ buf[b].live /\ buf[b].userFree
      /\ txn' = IF t = NIL THEN txn ELSE [txn EXCEPT ![t].buffer = NIL]
      /\ buf' = [buf EXCEPT ![b] = NoBuf]
      /\ thr' = IF next THEN Enqueue(thr, h, w) ELSE thr
      /\ UNCHANGED <<lock, due>>
  BY DEF FreeBuffer, CanWrite, Running
<1>2. lock.thread = NIL /\ QueueOK(txn, buf, Lists)
  BY <1>1, UnlockedOK DEF CallsInv, Flow
<1>3. /\ txn \in [Txns -> Txn] /\ buf \in [Bufs -> Buf] /\ thr \in [Threads -> Thread]
      /\ thr' \in [Threads -> Thread] /\ node \in [Nodes -> [async: BOOLEAN, todo: Seq(Txns)]]
      /\ t \in Txns \cup {NIL} /\ n \in Nodes \cup {NIL} /\ NIL \notin Txns /\ NIL \notin Bufs
  BY NilAssumption DEF TypeOK, Buf
<1>4. \A u \in Waiting(Lists) : u \in Txns /\ u # t /\ txn[u].buffer # b
  <2>. SUFFICES ASSUME NEW u \in Waiting(Lists) PROVE u \in Txns /\ u # t /\ txn[u].buffer # b
    OBVIOUS
  <2>1. PICK m \in Place : u \in Held(Lists, m)
    BY DEF Waiting
  <2>2. Fits(txn, buf, m, u) /\ u \in Txns
    BY <1>2, <2>1, HeldWaits DEF QueueOK
  <2>3. ~buf[txn[u].buffer].userFree
    BY <2>2 DEF Fits
  <2>4. u = t => txn[u].buffer = b
    BY <1>3, <2>2 DEF BufferPointersAgree, PointersAgree
  <2>. QED
    BY <1>1, <2>2, <2>3, <2>4
<1>5. next => /\ w \in Txns /\ w # t /\ txn[w].buffer # b /\ txn[w].buffer \in Bufs
              /\ buf[txn[w].buffer].node # NIL
  <2>. SUFFICES ASSUME next PROVE /\ w \in Txns /\ w # t /\ txn[w].buffer # b /\ txn[w].buffer \in Bufs
                                  /\ buf[txn[w].buffer].node # NIL
    OBVIOUS
  <2>1. n \in Nodes /\ <<"n", n>> \in Place /\ Lists[<<"n", n>>] = node[n].todo
    BY <1>3, PlaceIs, ListsIs
  <2>2. w \in Txns /\ w \in Held(Lists, <<"n", n>>)
    <3>1. node[n].todo \in Seq(Txns) /\ node[n].todo # <<>>
      BY <1>3, <2>1
    <3>2. w \in Txns /\ 1 \in DOMAIN node[n].todo /\ node[n].todo[1] = w
      BY <3>1
    <3>. QED
      BY <2>1, <3>2 DEF Held
  <2>3. Fits(txn, buf, <<"n", n>>, w) /\ w \in Waiting(Lists)
    BY <1>2, <2>1, <2>2, HeldWaits DEF QueueOK
  <2>4. buf[txn[w].buffer].node = n /\ txn[w].buffer # NIL
    BY <2>3 DEF Fits
  <2>5. txn[w] \in Txn
    BY <1>3, <2>2
  <2>. QED
    BY <1>3, <1>4, <2>1, <2>2, <2>3, <2>4, <2>5 DEF Txn
<1>6. t \in Txns => txn[t].live /\ txn[t].buffer = b /\ t \in CallsOf(txn, buf)
  <2>. SUFFICES ASSUME t \in Txns PROVE txn[t].live /\ txn[t].buffer = b /\ t \in CallsOf(txn, buf)
    OBVIOUS
  <2>1. txn[t].buffer = b /\ txn[t].live
    BY <1>3 DEF BufferPointersAgree, PointersAgree
  <2>2. t \notin Waiting(Lists)
    BY <1>4
  <2>3. TxnOK(txn, buf, Waiting(Lists), t)
    BY <1>2 DEF QueueOK
  <2>. QED
    BY <2>1, <2>2, <2>3 DEF TxnOK, CallsOf
<1>7. \A u \in Txns \ {t} : txn[u].buffer # b
  <2>. SUFFICES ASSUME NEW u \in Txns, txn[u].buffer = b PROVE u = t
    OBVIOUS
  <2>. QED
    BY <1>3 DEF BufferPointersAgree, PointersAgree
<1>. HIDE DEF t, w, n
<1>8. /\ \A u \in Txns \ {t} : txn'[u] = txn[u]
      /\ t \in Txns => txn'[t] = [txn[t] EXCEPT !.buffer = NIL]
      /\ \A a \in Bufs \ {b} : buf'[a] = buf[a]
  BY <1>1, <1>3
<1>9. /\ \A g \in Threads : SameItems(txn, buf, txn', buf', thr[g].todo)
      /\ \A u \in Txns \ {t} : u \in CallsOf(txn', buf') <=> u \in CallsOf(txn, buf)
  <2>1. \A u \in Txns \ {t} : /\ txn'[u] = txn[u]
                              /\ txn[u].buffer # NIL => buf'[txn[u].buffer].node = buf[txn[u].buffer].node
    BY <1>3, <1>7, <1>8 DEF Txn
  <2>2. \A g \in Threads : Held(Lists, <<"t", g>>) \cap {t} = {}
    BY <1>4, PlaceIs, HeldWaits
  <2>3. \A g \in Threads : Held(Lists, <<"t", g>>) \cap {t} = {}
                             => SameItems(txn, buf, txn', buf', thr[g].todo)
    BY <1>2, <2>1, CountsKept
  <2>4. \A u \in Txns \ {t} : u \in CallsOf(txn', buf') <=> u \in CallsOf(txn, buf)
    BY <1>2, <2>1, CountsKept
  <2>. QED
    BY <2>2, <2>3, <2>4
<1>10. t \in Txns => t \in CallsOf(txn', buf') /\ txn'[t].from = txn[t].from
  <2>. SUFFICES ASSUME t \in Txns PROVE t \in CallsOf(txn', buf') /\ txn'[t].from = txn[t].from
    OBVIOUS
  <2>1. txn[t] \in Txn
    BY <1>3
  <2>2. /\ txn'[t].live = txn[t].live /\ txn'[t].oneway = txn[t].oneway /\ txn'[t].buffer = NIL
        /\ txn'[t].from = txn[t].from
    BY <1>8, <2>1 DEF Txn
  <2>. QED
    BY <1>6, <2>2 DEF CallsOf, IsCall
<1>11. ASSUME NEW g \in Threads PROVE Asked(txn', buf', g) = Asked(txn, buf, g)
  <2>1. \A u \in Txns : /\ u \in CallsOf(txn', buf') <=> u \in CallsOf(txn, buf)
                        /\ txn'[u].from = txn[u].from
    BY <1>6, <1>8, <1>9, <1>10
  <2>. QED
    BY <2>1, AskedSame
<1>12. \A g \in Threads : due[g] = Owed(txn, buf, thr, g)
  BY <1>2, NilAssumption DEF OwedInv
<1>13. thr \in [Threads -> Thread] /\ thr' \in [Threads -> Thread]
  BY <1>3
<1>14. CASE ~next
  <2>1. thr' = thr
    BY <1>1, <1>14
  <2>2. \A g \in Threads : Owed(txn', buf', thr', g) = Owed(txn, buf, thr, g)
    BY <1>9, <1>11, <2>1, OwedSame
  <2>. QED
    BY <1>1, <1>12, <2>2 DEF OwedInv
<1>15. CASE next
  <2>1. \A g \in Threads : /\ thr'[g].err = thr[g].err /\ thr'[g].err2 = thr[g].err2
                           /\ thr'[g].todo = IF g = h THEN Append(thr[h].todo, w) ELSE thr[g].todo
    <3>1. thr' = Enqueue(thr, h, w)
      BY <1>1, <1>15
    <3>. QED
      BY <1>3, <3>1 DEF Enqueue, Thread
  <2>2. \A g \in Threads : g # h => Owed(txn', buf', thr', g) = Owed(txn, buf, thr, g)
    BY <1>9, <1>11, <2>1, OwedSame
  <2>3. w \notin Returned(txn', buf')
    <3>1. txn'[w] = txn[w] /\ buf'[txn[w].buffer].node # NIL /\ w \in Txns
      BY <1>5, <1>8, <1>15
    <3>. QED
      BY <3>1, CompleteAssumption DEF Returned
  <2>4. Owed(txn', buf', thr', h) = Owed(txn, buf, thr, h)
    <3>1. Appends(thr, thr', h, w)
      BY <1>5, <1>15, <2>1 DEF Appends
    <3>2. Cardinality(At(thr'[h].todo, Returned(txn', buf')))
            = Cardinality(At(thr[h].todo, Returned(txn, buf))) + One(w \in Returned(txn', buf'))
      BY <1>9, <1>13, <3>1, ItemsAppend
    <3>3. One(w \in Returned(txn', buf')) = 0
      BY <2>3 DEF One
    <3>4. Codes1(thr'[h]) = Codes1(thr[h])
      BY <2>1 DEF Codes1
    <3>5. Asked(txn', buf', h) = Asked(txn, buf, h)
      BY <1>11
    <3>6. /\ Owed(txn, buf, thr, h) = Cardinality(At(thr[h].todo, Returned(txn, buf)))
                                      + Cardinality(Asked(txn, buf, h)) + Codes1(thr[h])
          /\ Owed(txn', buf', thr', h) = Cardinality(At(thr'[h].todo, Returned(txn', buf')))
                                      + Cardinality(Asked(txn', buf', h)) + Codes1(thr'[h])
          /\ Cardinality(At(thr[h].todo, Returned(txn, buf))) \in Int
          /\ Cardinality(Asked(txn, buf, h)) \in Int /\ Codes1(thr[h]) \in Int
      BY <1>13, OwedSum
    <3>. QED
      BY ONLY <3>2, <3>3, <3>4, <3>5, <3>6
  <2>5. \A g \in Threads : due[g] = Owed(txn', buf', thr', g)
    BY <1>12, <2>2, <2>4
  <2>. QED
    BY <1>1, <2>5 DEF OwedInv
<1>. QED
  BY <1>14, <1>15

\* The same of a list that is not as it was.
LEMMA ListKept ==
    ASSUME QueueOK(txn, buf, Lists), NEW X, NEW ty, NEW bt,
           \A u \in Txns \ X : /\ ty[u] = txn[u]
                               /\ txn[u].buffer # NIL => bt[txn[u].buffer].node = buf[txn[u].buffer].node,
           NEW s, \A i \in DOMAIN s : s[i] \in Txns => s[i] \in Waiting(Lists) \ X
    PROVE  SameItems(txn, buf, ty, bt, s)
<1>. SUFFICES ASSUME NEW i \in DOMAIN s
              PROVE  s[i] \in Returned(ty, bt) <=> s[i] \in Returned(txn, buf)
  BY DEF SameItems
<1>1. CASE s[i] \in Txns
  <2>1. s[i] \in Waiting(Lists) /\ s[i] \notin X
    BY <1>1
  <2>2. txn[s[i]].buffer # NIL
    BY <2>1, WaitingBuffer
  <2>. QED
    BY <1>1, <2>1, <2>2 DEF Returned
<1>2. CASE s[i] \notin Txns
  BY <1>2 DEF Returned
<1>. QED
  BY <1>1, <1>2

LEMMA TailKept ==
    ASSUME TypeOK, QueueOK(txn, buf, Lists), NEW X, NEW ty, NEW bt,
           \A u \in Txns \ X : /\ ty[u] = txn[u]
                               /\ txn[u].buffer # NIL => bt[txn[u].buffer].node = buf[txn[u].buffer].node,
           NEW g \in Threads, thr[g].todo # <<>>,
           Held(Lists, <<"t", g>>) \cap X \subseteq {Head(thr[g].todo)}
    PROVE  SameItems(txn, buf, ty, bt, Tail(thr[g].todo))
<1>. DEFINE l == <<"t", g>>
            s == Tail(thr[g].todo)
            w == Head(thr[g].todo)
<1>1. l \in Place /\ Lists[l] = thr[g].todo /\ Lists \in ListsOf /\ Once(Lists)
  BY PlaceIs, ListsIs DEF QueueOK
<1>2. Held(Cut(Lists, l), l) = Held(Lists, l) \ {w} /\ Cut(Lists, l)[l] = s
  BY <1>1, CutIs, ListAt
<1>3. Held(Lists, l) \subseteq Waiting(Lists) /\ Held(Lists, l) \cap X \subseteq {w}
  BY <1>1, HeldWaits
<1>. HIDE DEF l, s, w
<1>4. \A i \in DOMAIN s : s[i] \in Txns => s[i] \in Held(Cut(Lists, l), l)
  BY <1>2 DEF Held
<1>5. \A i \in DOMAIN s : s[i] \in Txns => s[i] \in Waiting(Lists) \ X
  BY <1>2, <1>3, <1>4
<1>6. SameItems(txn, buf, ty, bt, s)
  BY <1>5, ListKept
<1>. QED
  BY <1>6 DEF s

LEMMA ItemsTail ==
    ASSUME NEW tx, NEW bs, NEW hs \in [Threads -> Thread], NEW ty, NEW bt, NEW ht, NEW g \in Threads,
           hs[g].todo # <<>>, ht[g].todo = Tail(hs[g].todo),
           SameItems(tx, bs, ty, bt, Tail(hs[g].todo))
    PROVE  Cardinality(At(ht[g].todo, Returned(ty, bt)))
             = Cardinality(At(hs[g].todo, Returned(tx, bs))) - One(Head(hs[g].todo) \in Returned(tx, bs))
<1>1. hs[g].todo \in Seq(Txns \cup {Complete})
  BY DEF Thread
<1>2. Cardinality(At(Tail(hs[g].todo), Returned(tx, bs)))
        = Cardinality(At(hs[g].todo, Returned(tx, bs))) - One(Head(hs[g].todo) \in Returned(tx, bs))
  BY <1>1, AtTail
<1>3. At(ht[g].todo, Returned(ty, bt)) = At(Tail(hs[g].todo), Returned(tx, bs))
  BY SameAt
<1>. QED
  BY <1>2, <1>3

LEMMA ReadTxnOwed ==
    ASSUME TypeOK, TypeOK', BufferPointersAgree, CallsInv, OwedInv, NEW h \in Threads, ReadTxn(h)
    PROVE  OwedInv'
<1>. DEFINE t == NextTxn(h)
            b == txn[t].buffer
            call == buf[b].node # NIL /\ ~txn[t].oneway
<1>1. PICK l \in Place : ReadFrom(h, l, t)
  BY ReadFromIs
<1>2. /\ Lists[l] # <<>> /\ t = Head(Lists[l]) /\ t \in Txns
      /\ l = <<"t", h>> \/ l = <<"p", ProcOf[h]>>
      /\ Lists' = Cut(Lists, l)
  BY <1>1 DEF ReadFrom
<1>. HIDE DEF t
<1>3. Taken(l, t)
  BY <1>2, TakenIs
<1>4. /\ b # NIL /\ b \in Bufs /\ txn[t].live /\ txn[t] \in Txn /\ buf[b] \in Buf /\ t # Complete
      /\ l = <<"p", ProcOf[h]>> => buf[b].node # NIL
  BY <1>3 DEF Taken, Fits
<1>5. /\ buf' = [buf EXCEPT ![b].userFree = TRUE, ![b].txn = IF call THEN @ ELSE NIL]
      /\ txn' = IF call THEN [txn EXCEPT ![t].toThread = h, ![t].toParent = thr[h].stack]
                ELSE Freed(txn, {t})
      /\ due' = [due EXCEPT ![h] = @ + (IF buf[b].node = NIL THEN -1 ELSE 0)]
      /\ lock' = lock /\ ~lock.held
  BY <1>4 DEF ReadTxn, t, Returns, Running
<1>6. thr' = IF call THEN [Dequeued(h) EXCEPT ![h].stack = t] ELSE Dequeued(h)
  BY <1>4 DEF ReadTxn, t
<1>7. lock.thread = NIL /\ QueueOK(txn, buf, Lists)
  BY <1>5, UnlockedOK DEF CallsInv, Flow
<1>8. /\ thr \in [Threads -> Thread] /\ thr' \in [Threads -> Thread] /\ due \in [Threads -> Int]
      /\ txn \in [Txns -> Txn]
  BY DEF TypeOK
<1>9. \A u \in Txns \ {t} : txn'[u] = txn[u]
  BY <1>5, <1>8 DEF Freed
<1>10. \A c \in Bufs : buf'[c].node = buf[c].node
  BY <1>4, <1>5 DEF TypeOK, Buf
<1>11. \A g \in Threads : thr'[g].err = thr[g].err /\ thr'[g].err2 = thr[g].err2
  <2>1. Dequeued(h) \in [Threads -> [stack: Txns \cup {NIL}, todo: Seq(Txns \cup {Complete}),
                                     err: Codes, err2: Codes, late: BOOLEAN]]
    <3>1. CASE thr[h].todo # <<>>
      <4>1. Tail(thr[h].todo) \in Seq(Txns \cup {Complete})
        BY <1>8, <3>1 DEF Thread
      <4>. QED
        BY <1>8, <3>1, <4>1, ZenonT(60) DEF Dequeued, Dequeue, Thread
    <3>2. CASE thr[h].todo = <<>>
      BY <1>8, <3>2 DEF Dequeued, Thread
    <3>. QED
      BY <3>1, <3>2
  <2>2. \A g \in Threads : Dequeued(h)[g].err = thr[g].err /\ Dequeued(h)[g].err2 = thr[g].err2
    BY <1>8 DEF Dequeued, Dequeue, Thread
  <2>. QED
    BY <1>6, <2>1, <2>2
<1>12. ASSUME NEW g \in Threads
       PROVE  thr'[g].todo = IF l = <<"t", g>> THEN Tail(thr[g].todo) ELSE thr[g].todo
  <2>1. <<"t", g>> \in Place /\ Lists[<<"t", g>>] = thr[g].todo /\ Lists'[<<"t", g>>] = thr'[g].todo
    BY PlaceIs, ListsIs DEF Lists
  <2>2. Lists \in ListsOf
    BY ListsIs
  <2>. QED
    BY <1>2, <2>1, <2>2, ListAt
<1>13. \A u \in Txns \ {t} : /\ txn'[u] = txn[u]
                             /\ txn[u].buffer # NIL => buf'[txn[u].buffer].node = buf[txn[u].buffer].node
  BY <1>8, <1>9, <1>10 DEF Txn
<1>14. \A u \in Txns \ {t} : u \in CallsOf(txn', buf') <=> u \in CallsOf(txn, buf)
  BY <1>7, <1>13, CountsKept
<1>15. ASSUME NEW g \in Threads PROVE Asked(txn', buf', g) = Asked(txn, buf, g)
  <2>1. \A u \in Txns \ {t} : /\ u \in CallsOf(txn', buf') <=> u \in CallsOf(txn, buf)
                              /\ txn'[u].from = txn[u].from
    BY <1>9, <1>14
  <2>2. CASE call
    <3>1. /\ txn'[t].live = txn[t].live /\ txn'[t].oneway = txn[t].oneway /\ txn'[t].buffer = b
          /\ txn'[t].from = txn[t].from
      BY <1>2, <1>4, <1>5, <1>8, <2>2 DEF Txn
    <3>2. t \in CallsOf(txn', buf') /\ t \in CallsOf(txn, buf)
      BY <1>2, <1>4, <1>10, <2>2, <3>1 DEF CallsOf, IsCall
    <3>. QED
      BY <2>1, <3>1, <3>2, AskedSame
  <2>3. CASE ~call
    <3>1. txn'[t] = NoTxn
      BY <1>2, <1>5, <2>3 DEF Freed
    <3>2. t \notin CallsOf(txn', buf') /\ t \notin CallsOf(txn, buf)
      BY <1>4, <2>3, <3>1 DEF CallsOf, IsCall, NoTxn
    <3>3. t \notin Asked(txn', buf', g) /\ t \notin Asked(txn, buf, g)
      BY <3>2 DEF Asked
    <3>. QED
      BY <2>1, <3>3, AskedSame
  <2>. QED
    BY <2>2, <2>3
<1>. HIDE DEF call
<1>16. ASSUME NEW g \in Threads
       PROVE  Cardinality(At(thr'[g].todo, Returned(txn', buf')))
                = Cardinality(At(thr[g].todo, Returned(txn, buf)))
                  - One(g = h /\ buf[b].node = NIL)
  <2>1. Cardinality(At(thr[g].todo, Returned(txn, buf))) \in Int
    BY <1>8, OwedSum
  <2>2. CASE l = <<"t", g>>
    <3>1. g = h /\ thr[g].todo # <<>> /\ t = Head(thr[g].todo)
      BY <1>2, <2>2, PlaceIs, ListsIs
    <3>2. SameItems(txn, buf, txn', buf', Tail(thr[g].todo))
      <4>1. Held(Lists, <<"t", g>>) \cap {t} \subseteq {Head(thr[g].todo)}
        BY <3>1
      <4>. QED
        BY <1>7, <1>13, <3>1, <4>1, TailKept
    <3>3. thr'[g].todo = Tail(thr[g].todo)
      BY <1>12, <2>2
    <3>4. Cardinality(At(thr'[g].todo, Returned(txn', buf')))
            = Cardinality(At(thr[g].todo, Returned(txn, buf))) - One(Head(thr[g].todo) \in Returned(txn, buf))
      BY <1>8, <3>1, <3>2, <3>3, ItemsTail
    <3>5. t \in Returned(txn, buf) <=> buf[b].node = NIL
      BY <1>2, <1>4 DEF Returned
    <3>. QED
      BY <3>1, <3>4, <3>5 DEF One
  <2>3. CASE l # <<"t", g>>
    <3>1. Held(Lists, <<"t", g>>) \cap {t} = {}
      BY <1>3, <2>3, PlaceIs DEF Taken
    <3>2. SameItems(txn, buf, txn', buf', thr[g].todo)
      BY <1>7, <1>13, <3>1, CountsKept
    <3>3. thr'[g].todo = thr[g].todo
      BY <1>12, <2>3
    <3>4. Cardinality(At(thr'[g].todo, Returned(txn', buf')))
            = Cardinality(At(thr[g].todo, Returned(txn, buf)))
      BY <3>2, <3>3, ItemsStay
    <3>5. ~(g = h /\ buf[b].node = NIL)
      BY <1>2, <1>4, <2>3
    <3>6. One(g = h /\ buf[b].node = NIL) = 0
      BY <3>5 DEF One
    <3>. QED
      BY <2>1, <3>4, <3>6
  <2>. QED
    BY <2>2, <2>3
<1>17. ASSUME NEW g \in Threads PROVE due'[g] = Owed(txn', buf', thr', g)
  <2>1. due[g] = Owed(txn, buf, thr, g) /\ due'[g] = due[g] - One(g = h /\ buf[b].node = NIL)
    <3>1. due[g] = Owed(txn, buf, thr, g) /\ due[g] \in Int
      BY <1>7, <1>8, NilAssumption DEF OwedInv
    <3>2. CASE g = h
      BY <1>5, <1>8, <3>1, <3>2 DEF One
    <3>3. CASE g # h
      BY <1>5, <1>8, <3>1, <3>3 DEF One
    <3>. QED
      BY <3>1, <3>2, <3>3
  <2>2. One(g = h /\ buf[b].node = NIL) \in Int
    BY DEF One
  <2>3. Codes1(thr'[g]) = Codes1(thr[g])
    BY <1>11 DEF Codes1
  <2>4. Asked(txn', buf', g) = Asked(txn, buf, g)
    BY <1>15
  <2>5. /\ Owed(txn, buf, thr, g) = Cardinality(At(thr[g].todo, Returned(txn, buf)))
                                    + Cardinality(Asked(txn, buf, g)) + Codes1(thr[g])
        /\ Owed(txn', buf', thr', g) = Cardinality(At(thr'[g].todo, Returned(txn', buf')))
                                    + Cardinality(Asked(txn', buf', g)) + Codes1(thr'[g])
        /\ Cardinality(At(thr[g].todo, Returned(txn, buf))) \in Int
        /\ Cardinality(Asked(txn, buf, g)) \in Int /\ Codes1(thr[g]) \in Int
    BY <1>8, OwedSum
  <2>6. Cardinality(At(thr'[g].todo, Returned(txn', buf')))
          = Cardinality(At(thr[g].todo, Returned(txn, buf))) - One(g = h /\ buf[b].node = NIL)
    BY <1>16
  <2>. QED
    BY ONLY <2>1, <2>2, <2>3, <2>4, <2>5, <2>6
<1>. QED
  BY <1>17 DEF OwedInv

LEMMA AskedLess ==
    ASSUME NEW tx, NEW bs, NEW ty, NEW bt, NEW g, NEW x, x \in CallsOf(tx, bs), tx[x].from = g,
           x \notin CallsOf(ty, bt),
           \A u \in Txns \ {x} : \/ /\ u \in CallsOf(ty, bt) <=> u \in CallsOf(tx, bs)
                                    /\ ty[u].from = tx[u].from
                                 \/ u \notin Asked(ty, bt, g) /\ u \notin Asked(tx, bs, g)
    PROVE  Cardinality(Asked(ty, bt, g)) = Cardinality(Asked(tx, bs, g)) - 1
<1>1. IsFiniteSet(Asked(ty, bt, g)) /\ Cardinality(Asked(ty, bt, g)) \in Int
  BY AskedFinite
<1>2. x \notin Asked(ty, bt, g)
  BY DEF Asked
<1>3. Asked(ty, bt, g) \subseteq Txns /\ Asked(tx, bs, g) \subseteq Txns /\ x \in Asked(tx, bs, g)
  BY DEF Asked, CallsOf
<1>4. \A u \in Txns \ {x} : u \in Asked(ty, bt, g) <=> u \in Asked(tx, bs, g)
  BY DEF Asked
<1>5. Asked(tx, bs, g) = Asked(ty, bt, g) \cup {x}
  BY <1>2, <1>3, <1>4
<1>6. Cardinality(Asked(ty, bt, g) \cup {x}) = Cardinality(Asked(ty, bt, g)) + 1
  BY <1>1, <1>2, FS_AddElement
<1>. QED
  BY <1>1, <1>5, <1>6

LEMMA ReplyOwed ==
    ASSUME TypeOK, TypeOK', BufferPointersAgree, CallsInv, OwedInv, NEW h \in Threads, Reply(h)
    PROVE  OwedInv'
<1>. DEFINE l == thr[h].stack
            f == Caller(h)
<1>1. PICK t \in FreeTxns, b \in FreeBufs :
         /\ txn' = [Freed(txn, {l}) EXCEPT ![t] = [NoTxn EXCEPT !.live = TRUE, !.toThread = f, !.buffer = b]]
         /\ buf' = [Detach(buf, txn, {l}) EXCEPT ![b] = NewBuf(ProcOf[f], NIL, t, FALSE)]
         /\ thr' = Enqueue(Enqueue(Unwound(h, l, f), f, t), h, Complete)
  BY DEF Reply
<1>2. /\ CanReply(h) /\ f # NIL /\ ~lock.held /\ l # NIL /\ f = txn[l].from
      /\ lock' = lock /\ due' = [due EXCEPT ![h] = @ + 1]
  BY DEF Reply, CanReply, CanWrite, Running, Caller, Returns
<1>3. /\ thr \in [Threads -> Thread] /\ buf \in [Bufs -> Buf] /\ txn \in [Txns -> Txn]
      /\ thr' \in [Threads -> Thread] /\ due \in [Threads -> Int] /\ NIL \notin Bufs
  BY NilAssumption DEF TypeOK
<1>4. l \in Txns /\ f \in Threads
  BY <1>2, <1>3 DEF Thread, Txn
<1>5. l \notin Waiting(Lists) /\ l \in CallsOf(txn, buf) /\ f # h
  <2>. DEFINE st == [g \in Threads |-> IF g = h THEN txn[l].toParent ELSE thr[g].stack]
  <2>1. \A g \in Threads : st[g] = IF g = h THEN txn[thr[h].stack].toParent ELSE thr[g].stack
    OBVIOUS
  <2>2. TakenOff(h, st)
    <3>. HIDE DEF st
    <3>. QED
      BY <1>2, <2>1, TakenOffStack
  <2>. QED
    BY <1>2, <2>2 DEF TakenOff
<1>6. /\ t \in Txns /\ txn[t] = NoTxn /\ t # l /\ t # Complete
      /\ t \notin CallsOf(txn, buf) /\ t \notin Waiting(Lists)
  BY <1>5, FreshTxn
<1>7. b \in Bufs /\ b # NIL /\ \A u \in Txns : txn[u].buffer # b
  BY FreshBuf
<1>. HIDE DEF l, f
<1>8. ReplyMade(h, l, f, t)
  BY <1>1, <1>4, <1>5, <1>6, ReplyThreads
<1>9. /\ txn'[t] = [NoTxn EXCEPT !.live = TRUE, !.toThread = f, !.buffer = b] /\ txn'[l] = NoTxn
      /\ \A u \in Txns \ {t, l} : txn'[u] = txn[u]
  BY <1>1, <1>4, <1>6 DEF Freed
<1>10. buf'[b] = NewBuf(ProcOf[f], NIL, t, FALSE) /\ \A a \in Bufs \ {b} : buf'[a].node = buf[a].node
  <2>1. \A a \in Bufs : Detach(buf, txn, {l})[a].node = buf[a].node
    BY <1>3 DEF Detach, Buf
  <2>2. buf'[b] = NewBuf(ProcOf[f], NIL, t, FALSE)
        /\ \A a \in Bufs \ {b} : buf'[a] = Detach(buf, txn, {l})[a]
    BY <1>1, <1>7 DEF Detach
  <2>. QED
    BY <2>1, <2>2
<1>11. lock.thread = NIL /\ QueueOK(txn, buf, Lists)
  BY <1>2, UnlockedOK DEF CallsInv, Flow
<1>12. /\ \A g \in Threads : SameItems(txn, buf, txn', buf', thr[g].todo)
       /\ \A u \in Txns \ {t, l} : u \in CallsOf(txn', buf') <=> u \in CallsOf(txn, buf)
  <2>1. \A u \in Txns \ {t, l} : /\ txn'[u] = txn[u]
                                 /\ txn[u].buffer # NIL => buf'[txn[u].buffer].node = buf[txn[u].buffer].node
    BY <1>3, <1>7, <1>9, <1>10 DEF Txn
  <2>2. \A g \in Threads : Held(Lists, <<"t", g>>) \cap {t, l} = {}
    BY <1>5, <1>6, PlaceIs, HeldWaits
  <2>3. \A g \in Threads : Held(Lists, <<"t", g>>) \cap {t, l} = {}
                             => SameItems(txn, buf, txn', buf', thr[g].todo)
    BY <1>11, <2>1, CountsKept
  <2>4. \A u \in Txns \ {t, l} : u \in CallsOf(txn', buf') <=> u \in CallsOf(txn, buf)
    BY <1>11, <2>1, CountsKept
  <2>. QED
    BY <2>2, <2>3, <2>4
<1>13. /\ t \in Returned(txn', buf')
       /\ t \notin CallsOf(txn', buf') /\ l \notin CallsOf(txn', buf')
  <2>1. txn'[t].buffer = b /\ buf'[b].node = NIL /\ ~txn'[l].live
    BY <1>9, <1>10 DEF NoTxn, NewBuf
  <2>. QED
    BY <1>6, <1>7, <2>1 DEF Returned, CallsOf, IsCall
<1>14. thr \in [Threads -> Thread] /\ thr' \in [Threads -> Thread]
  BY <1>3
<1>15. ASSUME NEW g \in Threads
       PROVE  Cardinality(At(thr'[g].todo, Returned(txn', buf')))
                = Cardinality(At(thr[g].todo, Returned(txn, buf))) + One(g \in {f, h})
  <2>1. thr'[g].todo = IF g = f THEN Append(thr[g].todo, t)
                       ELSE IF g = h THEN Append(thr[g].todo, Complete) ELSE thr[g].todo
    BY <1>8 DEF ReplyMade
  <2>2. SameItems(txn, buf, txn', buf', thr[g].todo)
    BY <1>12
  <2>3. Complete \in Returned(txn', buf')
    BY DEF Returned
  <2>4. CASE g = f
    <3>1. Appends(thr, thr', g, t)
      BY <1>6, <2>1, <2>4 DEF Appends
    <3>2. Cardinality(At(thr'[g].todo, Returned(txn', buf')))
            = Cardinality(At(thr[g].todo, Returned(txn, buf))) + One(t \in Returned(txn', buf'))
      BY <1>14, <2>2, <3>1, ItemsAppend
    <3>. QED
      BY <1>13, <2>4, <3>2 DEF One
  <2>5. CASE g = h
    <3>1. Appends(thr, thr', g, Complete)
      BY <1>5, <2>1, <2>5 DEF Appends
    <3>2. Cardinality(At(thr'[g].todo, Returned(txn', buf')))
            = Cardinality(At(thr[g].todo, Returned(txn, buf))) + One(Complete \in Returned(txn', buf'))
      BY <1>14, <2>2, <3>1, ItemsAppend
    <3>. QED
      BY <2>3, <2>5, <3>2 DEF One
  <2>6. CASE g \notin {f, h}
    <3>1. Cardinality(At(thr'[g].todo, Returned(txn', buf'))) = Cardinality(At(thr[g].todo, Returned(txn, buf)))
      BY <2>1, <2>2, <2>6, ItemsStay
    <3>2. Cardinality(At(thr[g].todo, Returned(txn, buf))) \in Int
      BY <1>14, OwedSum
    <3>. QED
      BY <2>6, <3>1, <3>2 DEF One
  <2>. QED
    BY <2>4, <2>5, <2>6
<1>16. ASSUME NEW g \in Threads
       PROVE  Cardinality(Asked(txn', buf', g)) = Cardinality(Asked(txn, buf, g)) - One(g = f)
  <2>1. \A u \in Txns \ {t, l} : /\ u \in CallsOf(txn', buf') <=> u \in CallsOf(txn, buf)
                                 /\ txn'[u].from = txn[u].from
    BY <1>9, <1>12
  <2>2. t \notin Asked(txn', buf', g) /\ t \notin Asked(txn, buf, g) /\ l \notin Asked(txn', buf', g)
    BY <1>6, <1>13 DEF Asked
  <2>3. CASE g = f
    <3>1. txn[l].from = g
      BY <1>2, <2>3
    <3>2. Cardinality(Asked(txn', buf', g)) = Cardinality(Asked(txn, buf, g)) - 1
      BY <1>5, <1>13, <2>1, <2>2, <3>1, AskedLess
    <3>. QED
      BY <2>3, <3>2 DEF One
  <2>4. CASE g # f
    <3>1. l \notin Asked(txn, buf, g)
      BY <1>2, <2>4 DEF Asked
    <3>2. Asked(txn', buf', g) = Asked(txn, buf, g)
      BY <2>1, <2>2, <3>1, AskedSame
    <3>3. Cardinality(Asked(txn, buf, g)) \in Int
      BY <1>14, OwedSum
    <3>. QED
      BY <2>4, <3>2, <3>3 DEF One
  <2>. QED
    BY <2>3, <2>4
<1>17. ASSUME NEW g \in Threads PROVE due'[g] = Owed(txn', buf', thr', g)
  <2>1. due[g] = Owed(txn, buf, thr, g) /\ due'[g] = due[g] + One(g = h) /\ due[g] \in Int
    <3>1. due[g] = Owed(txn, buf, thr, g) /\ due[g] \in Int
      BY <1>3, <1>11, NilAssumption DEF OwedInv
    <3>2. CASE g = h
      BY <1>2, <1>3, <3>1, <3>2 DEF One
    <3>3. CASE g # h
      BY <1>2, <1>3, <3>1, <3>3 DEF One
    <3>. QED
      BY <3>1, <3>2, <3>3
  <2>2. One(g \in {f, h}) - One(g = f) = One(g = h) /\ One(g \in {f, h}) \in Int /\ One(g = f) \in Int
        /\ One(g = h) \in Int
    BY <1>5 DEF One
  <2>3. Codes1(thr'[g]) = Codes1(thr[g])
    BY <1>8 DEF Codes1, ReplyMade
  <2>4. /\ Owed(txn, buf, thr, g) = Cardinality(At(thr[g].todo, Returned(txn, buf)))
                                    + Cardinality(Asked(txn, buf, g)) + Codes1(thr[g])
        /\ Owed(txn', buf', thr', g) = Cardinality(At(thr'[g].todo, Returned(txn', buf')))
                                    + Cardinality(Asked(txn', buf', g)) + Codes1(thr'[g])
        /\ Cardinality(At(thr[g].todo, Returned(txn, buf))) \in Int
        /\ Cardinality(Asked(txn, buf, g)) \in Int /\ Codes1(thr[g]) \in Int
    BY <1>14, OwedSum
  <2>. QED
    BY ONLY <1>15, <1>16, <2>1, <2>2, <2>3, <2>4, g \in Threads
<1>. QED
  BY <1>17 DEF OwedInv

-------------------------------------------------------------------------------
(* What a failed reply does to it: the caller reads an error for its call *)

LEMMA FailOwed ==
    ASSUME NEW tx \in [Txns -> Txn], NEW bs \in [Bufs -> Buf], NEW hs \in [Threads -> Thread],
           NEW M, NEW x, NEW l, NEW code, code # "BR_OK", FailReplied(tx, bs, hs, M, x, l, code),
           TypeOK', NEW g \in Threads,
           \A i \in DOMAIN hs[g].todo : hs[g].todo[i] \in Txns => hs[g].todo[i] \in Waiting(M)
    PROVE  Owed(txn', buf', thr', g) = Owed(tx, bs, hs, g)
<1>. DEFINE A == Answ(tx, l)
            P == Failing(tx, l)
<1>1. /\ OneTold(tx, bs, l) /\ ToldBy(tx, hs, l, code, thr')
      /\ txn' = Freed(tx, P) /\ buf' = Detach(bs, tx, P)
      /\ QueueOK(txn', buf', M)
  BY DEF FailReplied, Flow
<1>2. A \subseteq P /\ \A u \in P \ A : tx[u].from = NIL
  <2>. SUFFICES ASSUME NEW u \in Aband(tx, l) PROVE tx[u].from = NIL
    BY DEF Failing
  <2>1. u \in Anc(tx, l) /\ \A z \in Anc(tx, l) : u \in Anc(tx, z) => tx[z].from = NIL
    BY DEF Aband
  <2>2. u \in Txns
    BY <2>1 DEF Anc
  <2>3. u # NIL
    BY <2>2, NilAssumption
  <2>4. u \in Anc(tx, u)
    BY ONLY <2>2, <2>3, tx \in [Txns -> Txn], AncUp
  <2>. QED
    BY <2>1, <2>4
<1>. HIDE DEF P, A
<1>3. \A u \in Txns : IF u \in P THEN txn'[u] = NoTxn ELSE txn'[u] = tx[u]
  BY <1>1 DEF Freed
<1>4. \A c \in Bufs : buf'[c].node = bs[c].node
  BY <1>1 DEF Detach, Buf
<1>5. \A u \in Txns : tx[u].buffer \in Bufs \cup {NIL}
  BY DEF Txn
<1>6. /\ \A u \in P : u \notin CallsOf(txn', buf')
      /\ \A u \in Txns \ P : u \in CallsOf(txn', buf') <=> u \in CallsOf(tx, bs)
  <2>1. \A u \in P : u \notin CallsOf(txn', buf')
    BY <1>3 DEF CallsOf, IsCall, NoTxn
  <2>2. \A u \in Txns \ P : u \in CallsOf(txn', buf') <=> u \in CallsOf(tx, bs)
    BY <1>3, <1>4, <1>5 DEF CallsOf, IsCall
  <2>. QED
    BY <2>1, <2>2
<1>7. SameItems(tx, bs, txn', buf', hs[g].todo)
  <2>. SUFFICES ASSUME NEW i \in DOMAIN hs[g].todo
                PROVE  hs[g].todo[i] \in Returned(txn', buf') <=> hs[g].todo[i] \in Returned(tx, bs)
    BY DEF SameItems
  <2>. DEFINE u == hs[g].todo[i]
  <2>1. CASE u \in Txns
    <3>1. u \in Waiting(M)
      BY <2>1
    <3>. HIDE DEF u
    <3>2. txn'[u].live /\ txn'[u].buffer # NIL
      BY <1>1, <3>1, WaitingBuffer
    <3>3. u \notin P
      BY <1>3, <2>1, <3>2 DEF NoTxn
    <3>4. txn'[u] = tx[u] /\ buf'[tx[u].buffer].node = bs[tx[u].buffer].node
      BY <1>3, <1>4, <1>5, <2>1, <3>2, <3>3
    <3>5. u \in Returned(txn', buf') <=> u \in Returned(tx, bs)
      BY <2>1, <3>4 DEF Returned
    <3>. QED
      BY <3>5 DEF u
  <2>2. CASE u \notin Txns
    BY <2>2 DEF Returned
  <2>. QED
    BY <2>1, <2>2
<1>8. thr' \in [Threads -> Thread] /\ g # NIL
  BY NilAssumption DEF TypeOK
<1>9. CASE \E y \in A : tx[y].from = g
  <2>1. PICK y \in A : tx[y].from = g
    BY <1>9
  <2>2. /\ hs[g].err2 = "BR_OK" /\ thr'[g].err = code /\ thr'[g].err2 = hs[g].err
        /\ thr'[g].todo = hs[g].todo
    BY <1>1, <1>9 DEF ToldBy, A
  <2>3. y \in CallsOf(tx, bs) /\ \A z \in A : z = y
    BY <1>1 DEF OneTold, A
  <2>4. Cardinality(Asked(txn', buf', g)) = Cardinality(Asked(tx, bs, g)) - 1
    <3>1. \A u \in Txns \ {y} : \/ /\ u \in CallsOf(txn', buf') <=> u \in CallsOf(tx, bs)
                                   /\ txn'[u].from = tx[u].from
                                \/ u \notin Asked(txn', buf', g) /\ u \notin Asked(tx, bs, g)
      BY <1>2, <1>3, <1>6, <1>8, <2>3 DEF Asked
    <3>2. y \notin CallsOf(txn', buf')
      BY <1>2, <1>6
    <3>. QED
      BY <2>1, <2>3, <3>1, <3>2, AskedLess
  <2>5. Codes1(thr'[g]) = Codes1(hs[g]) + 1
    BY <2>2 DEF Codes1, One
  <2>6. Cardinality(At(thr'[g].todo, Returned(txn', buf'))) = Cardinality(At(hs[g].todo, Returned(tx, bs)))
    BY <1>7, <2>2, ItemsStay
  <2>7. /\ Owed(tx, bs, hs, g) = Cardinality(At(hs[g].todo, Returned(tx, bs)))
                                 + Cardinality(Asked(tx, bs, g)) + Codes1(hs[g])
        /\ Owed(txn', buf', thr', g) = Cardinality(At(thr'[g].todo, Returned(txn', buf')))
                                 + Cardinality(Asked(txn', buf', g)) + Codes1(thr'[g])
        /\ Cardinality(At(hs[g].todo, Returned(tx, bs))) \in Int
        /\ Cardinality(Asked(tx, bs, g)) \in Int /\ Codes1(hs[g]) \in Int
    BY <1>8, OwedSum
  <2>. QED
    BY ONLY <2>4, <2>5, <2>6, <2>7
<1>10. CASE ~ \E y \in A : tx[y].from = g
  <2>1. thr'[g] = hs[g]
    BY <1>1, <1>10 DEF ToldBy, A
  <2>2. Asked(txn', buf', g) = Asked(tx, bs, g)
    <3>1. \A u \in Txns : \/ /\ u \in CallsOf(txn', buf') <=> u \in CallsOf(tx, bs)
                             /\ txn'[u].from = tx[u].from
                          \/ u \notin Asked(txn', buf', g) /\ u \notin Asked(tx, bs, g)
      BY <1>2, <1>3, <1>6, <1>8, <1>10 DEF Asked
    <3>. QED
      BY <3>1, AskedSame
  <2>. QED
    BY <1>7, <2>1, <2>2, OwedSame
<1>. QED
  BY <1>9, <1>10

\* The thread that replies is owed a completion, the caller hears of the failure
\* in place of the answer.
LEMMA FailedReplyOwed ==
    ASSUME TypeOK, TypeOK', CallsInv, OwedInv, NEW h \in Threads, CanReply(h),
           NEW code, code # "BR_OK",
           FailReplied(txn, buf, Replied(h), Lists, NIL, thr[h].stack, code),
           Returns(h, 1), lock' = lock
    PROVE  OwedInv'
<1>. DEFINE hs == Replied(h)
            l == thr[h].stack
<1>1. /\ lock.thread = NIL /\ thr[h].err = "BR_OK" /\ l \in Txns
      /\ thr \in [Threads -> Thread] /\ buf \in [Bufs -> Buf] /\ txn \in [Txns -> Txn]
      /\ due \in [Threads -> Int] /\ due' = [due EXCEPT ![h] = @ + 1]
  BY UnlockedOK DEF CanReply, CanWrite, Running, CallsInv, TypeOK, Thread, Returns
<1>2. \A g \in Threads :
         /\ hs[g].err = IF g = h THEN "BR_TRANSACTION_COMPLETE" ELSE thr[g].err
         /\ hs[g].err2 = thr[g].err2 /\ hs[g].todo = thr[g].todo
  BY <1>1 DEF Replied, Thread
<1>3. hs \in [Threads -> Thread]
  <2>1. txn[l].toParent \in Txns \cup {NIL}
    BY <1>1 DEF Txn
  <2>2. \A r \in Thread, s \in Txns \cup {NIL} :
           [r EXCEPT !.stack = s, !.err = "BR_TRANSACTION_COMPLETE"] \in Thread
    BY DEF Thread, Codes
  <2>3. hs = [thr EXCEPT ![h] = [thr[h] EXCEPT !.stack = txn[l].toParent, !.err = "BR_TRANSACTION_COMPLETE"]]
    BY <1>1 DEF Replied
  <2>4. thr[h] \in Thread
    BY <1>1
  <2>. QED
    BY <1>1, <2>1, <2>2, <2>3, <2>4, ZenonT(60)
<1>4. FailReplied(txn, buf, hs, Lists, NIL, l, code)
  OBVIOUS
<1>. HIDE DEF hs, l
<1>5. ASSUME NEW g \in Threads
      PROVE  Owed(txn', buf', thr', g) = Owed(txn, buf, hs, g)
  <2>1. \A i \in DOMAIN hs[g].todo : hs[g].todo[i] \in Txns => hs[g].todo[i] \in Waiting(Lists)
    BY <1>2, ItemsWait
  <2>. QED
    BY <1>1, <1>3, <1>4, <2>1, FailOwed
<1>6. ASSUME NEW g \in Threads
      PROVE  Owed(txn, buf, hs, g) = Owed(txn, buf, thr, g) + One(g = h)
  <2>1. Codes1(hs[g]) = Codes1(thr[g]) + One(g = h)
    BY <1>1, <1>2 DEF Codes1, One
  <2>2. At(hs[g].todo, Returned(txn, buf)) = At(thr[g].todo, Returned(txn, buf))
    BY <1>2
  <2>3. One(g = h) \in Int
    BY DEF One
  <2>4. /\ Owed(txn, buf, hs, g) = Cardinality(At(hs[g].todo, Returned(txn, buf)))
                                   + Cardinality(Asked(txn, buf, g)) + Codes1(hs[g])
        /\ Owed(txn, buf, thr, g) = Cardinality(At(thr[g].todo, Returned(txn, buf)))
                                   + Cardinality(Asked(txn, buf, g)) + Codes1(thr[g])
        /\ Cardinality(At(thr[g].todo, Returned(txn, buf))) \in Int
        /\ Cardinality(Asked(txn, buf, g)) \in Int /\ Codes1(thr[g]) \in Int
    BY <1>1, <1>3, OwedSum
  <2>. QED
    BY ONLY <2>1, <2>2, <2>3, <2>4
<1>7. ASSUME NEW g \in Threads PROVE due'[g] = Owed(txn', buf', thr', g)
  <2>1. due[g] = Owed(txn, buf, thr, g) /\ due[g] \in Int
    BY <1>1, NilAssumption DEF OwedInv
  <2>2. due'[g] = due[g] + One(g = h)
    BY <1>1, <2>1 DEF One
  <2>. QED
    BY <1>5, <1>6, <2>1, <2>2
<1>. QED
  BY <1>7 DEF OwedInv

LEMMA ReplyToDeadOwed ==
    ASSUME TypeOK, TypeOK', CallsInv, OwedInv, NEW h \in Threads, ReplyToDead(h)
    PROVE  OwedInv'
<1>1. "BR_DEAD_REPLY" # "BR_OK"
  OBVIOUS
<1>2. /\ CanReply(h) /\ UNCHANGED <<ptodo, node, lock>> /\ Returns(h, 1)
      /\ SendFailedReply(txn, buf, Replied(h), thr[h].stack, "BR_DEAD_REPLY")
  BY DEF ReplyToDead
<1>3. FailReplied(txn, buf, Replied(h), Lists, NIL, thr[h].stack, "BR_DEAD_REPLY")
  BY <1>1, <1>2, ReplyFailed
<1>. QED
  BY <1>1, <1>2, <1>3, FailedReplyOwed

LEMMA ReplyFailsOwed ==
    ASSUME ~CookieMismatch, TypeOK, TypeOK', CallsInv, OwedInv, NEW h \in Threads, ReplyFails(h)
    PROVE  OwedInv'
<1>1. "BR_FAILED_REPLY" # "BR_OK"
  OBVIOUS
<1>2. /\ CanReply(h) /\ UNCHANGED <<ptodo, node, lock>>
      /\ FailReplied(txn, buf, Replied(h), Lists, NIL, thr[h].stack, "BR_FAILED_REPLY")
  BY <1>1, ReplyFailsWith, ReplyFailed
<1>3. Returns(h, 1)
  BY DEF ReplyFails
<1>. QED
  BY <1>1, <1>2, <1>3, FailedReplyOwed

\* A dropped item is no one's but the owner's of the list; if it is a call, its
\* caller hears of it.
LEMMA DropOwed ==
    ASSUME TypeOK, TypeOK', BufferPointersAgree, CallsInv,
           NEW l \in Place, Lists[l] # <<>>, NEW w \in Txns, w = Head(Lists[l]),
           NEW hs \in [Threads -> Thread],
           \A f \in Threads : /\ hs[f].stack = thr[f].stack
                              /\ hs[f].err = thr[f].err /\ hs[f].err2 = thr[f].err2,
           Drop(hs, w), NEW g \in Threads, hs[g].todo = thr[g].todo, l # <<"t", g>>
    PROVE  Owed(txn', buf', thr', g) = Owed(txn, buf, thr, g)
<1>. DEFINE M == Cut(Lists, l)
            x == lock.thread
<1>1. Dropped(hs, l, w, x)
  BY DropStep DEF CallsInv
<1>2. Taken(l, w) /\ QueueOK(txn, buf, Lists) /\ Lists \in ListsOf /\ Once(Lists)
  BY TakenIs DEF CallsInv, Flow, QueueOK
<1>3. txn \in [Txns -> Txn] /\ buf \in [Bufs -> Buf] /\ thr \in [Threads -> Thread]
  BY DEF TypeOK
<1>4. <<"t", g>> \in Place /\ w \notin Held(Lists, <<"t", g>>)
  BY <1>2, PlaceIs DEF Taken
<1>5. \A m \in Place : Held(M, m) = Held(Lists, m) \ {w}
  BY <1>2, CutIs
<1>. HIDE DEF M, x
<1>6. Owed(txn, buf, hs, g) = Owed(txn, buf, thr, g)
  BY <1>3, OwedIdle
<1>7. CASE IsCall(txn, buf, w)
  <2>1. FailReplied(txn, buf, hs, M, x, w, "BR_DEAD_REPLY")
    BY <1>1, <1>7 DEF Dropped, M
  <2>2. \A i \in DOMAIN hs[g].todo : hs[g].todo[i] \in Txns => hs[g].todo[i] \in Waiting(M)
    BY <1>4, <1>5, ItemsWait, HeldWaits
  <2>3. "BR_DEAD_REPLY" # "BR_OK"
    OBVIOUS
  <2>4. Owed(txn', buf', thr', g) = Owed(txn, buf, hs, g)
    BY <1>3, <2>1, <2>2, <2>3, FailOwed
  <2>. QED
    BY <1>6, <2>4
<1>8. CASE ~IsCall(txn, buf, w)
  <2>1. thr' = hs /\ txn' = Freed(txn, {w}) /\ buf' = Detach(buf, txn, {w})
    BY <1>1, <1>8 DEF Dropped
  <2>2. /\ \A u \in Txns \ {w} : txn'[u] = txn[u]
        /\ txn'[w] = NoTxn
    BY <2>1 DEF Freed
  <2>3. \A c \in Bufs : buf'[c].node = buf[c].node
    BY <1>3, <2>1 DEF Detach, Buf
  <2>4. \A u \in Txns : txn[u].buffer \in Bufs \cup {NIL}
    BY <1>3 DEF Txn
  <2>5. /\ SameItems(txn, buf, txn', buf', thr[g].todo)
        /\ \A u \in Txns \ {w} : u \in CallsOf(txn', buf') <=> u \in CallsOf(txn, buf)
    <3>1. \A u \in Txns \ {w} : /\ txn'[u] = txn[u]
                                /\ txn[u].buffer # NIL =>
                                     buf'[txn[u].buffer].node = buf[txn[u].buffer].node
      BY <2>2, <2>3, <2>4
    <3>2. Held(Lists, <<"t", g>>) \cap {w} = {}
      BY <1>4
    <3>. QED
      BY <1>2, <3>1, <3>2, CountsKept
  <2>6. Asked(txn', buf', g) = Asked(txn, buf, g)
    <3>1. w \notin Asked(txn', buf', g) /\ w \notin Asked(txn, buf, g)
      BY <1>8, <2>2 DEF Asked, CallsOf, IsCall, NoTxn
    <3>2. \A u \in Txns : \/ /\ u \in CallsOf(txn', buf') <=> u \in CallsOf(txn, buf)
                             /\ txn'[u].from = txn[u].from
                          \/ u \notin Asked(txn', buf', g) /\ u \notin Asked(txn, buf, g)
      BY <2>2, <2>5, <3>1
    <3>. QED
      BY <3>2, AskedSame
  <2>7. thr'[g].todo = thr[g].todo /\ thr'[g].err = thr[g].err /\ thr'[g].err2 = thr[g].err2
    BY <2>1
  <2>. QED
    BY <2>5, <2>6, <2>7, OwedSame
<1>. QED
  BY <1>7, <1>8

LEMMA ReleaseThreadWorkOwed ==
    ASSUME TypeOK, TypeOK', BufferPointersAgree, CallsInv, OwedInv,
           NEW h \in Threads, ReleaseThreadWork(h)
    PROVE  OwedInv'
<1>. DEFINE w == Head(thr[h].todo)
            hs == Dequeue(thr, h)
            l == <<"t", h>>
<1>1. /\ lock.thread = h /\ thr[h].todo # <<>> /\ UNCHANGED <<lock, due>>
      /\ IF w = Complete THEN thr' = hs /\ UNCHANGED <<txn, buf>> ELSE Drop(hs, w)
  BY DEF ReleaseThreadWork
<1>2. thr \in [Threads -> Thread] /\ thr[h].todo \in Seq(Txns \cup {Complete})
  BY DEF TypeOK, Thread
<1>3. \A g \in Threads : /\ hs[g].stack = thr[g].stack
                         /\ hs[g].err = thr[g].err /\ hs[g].err2 = thr[g].err2
                         /\ hs[g].todo = IF g = h THEN Tail(thr[h].todo) ELSE thr[g].todo
  BY <1>2 DEF Dequeue, Thread
<1>4. hs \in [Threads -> Thread]
  <2>1. Tail(thr[h].todo) \in Seq(Txns \cup {Complete})
    BY <1>1, <1>2
  <2>. QED
    BY <1>2, <2>1 DEF Dequeue, Thread
<1>5. l \in Place /\ Lists[l] = thr[h].todo /\ \A g \in Threads \ {h} : l # <<"t", g>>
  BY PlaceIs, ListsIs
<1>6. w \in Txns \cup {Complete}
  BY <1>1, <1>2
<1>. HIDE DEF hs, l
<1>7. ASSUME NEW g \in Threads, g # h PROVE Owed(txn', buf', thr', g) = Owed(txn, buf, thr, g)
  <2>1. hs[g].todo = thr[g].todo /\ l # <<"t", g>>
    BY <1>3, <1>5, <1>7
  <2>2. CASE w = Complete
    <3>1. thr' = hs /\ txn' = txn /\ buf' = buf
      BY <1>1, <2>2
    <3>. QED
      BY <1>2, <1>3, <1>4, <2>1, <3>1, OwedIdle
  <2>3. CASE w # Complete
    <3>1. Drop(hs, w) /\ w \in Txns /\ w = Head(Lists[l]) /\ Lists[l] # <<>>
      BY <1>1, <1>5, <1>6, <2>3
    <3>. HIDE DEF w
    <3>. QED
      BY <1>3, <1>4, <1>5, <2>1, <3>1, DropOwed
  <2>. QED
    BY <2>2, <2>3
<1>. QED
  BY <1>1, <1>7 DEF OwedInv

LEMMA ReleaseNodeWorkOwed ==
    ASSUME TypeOK, TypeOK', BufferPointersAgree, CallsInv, OwedInv,
           NEW n \in Nodes, ReleaseNodeWork(n)
    PROVE  OwedInv'
<1>. DEFINE w == Head(node[n].todo)
            l == <<"n", n>>
<1>1. /\ UNCHANGED <<lock, due>> /\ node[n].todo # <<>> /\ Drop(thr, w)
      /\ thr \in [Threads -> Thread] /\ w \in Txns
  BY DEF ReleaseNodeWork, TypeOK
<1>2. Lists[l] = node[n].todo /\ l \in Place /\ \A g \in Threads : l # <<"t", g>>
  BY ListsIs, PlaceIs
<1>3. w = Head(Lists[l]) /\ Lists[l] # <<>>
  BY <1>1, <1>2
<1>. HIDE DEF w, l
<1>4. \A g \in Threads : Owed(txn', buf', thr', g) = Owed(txn, buf, thr, g)
  BY <1>1, <1>2, <1>3, DropOwed
<1>. QED
  BY <1>1, <1>4 DEF OwedInv

LEMMA ReleaseProcWorkOwed ==
    ASSUME TypeOK, TypeOK', BufferPointersAgree, CallsInv, OwedInv,
           NEW p \in Procs, ReleaseProcWork(p)
    PROVE  OwedInv'
<1>. DEFINE w == Head(ptodo[p])
            l == <<"p", p>>
<1>1. /\ UNCHANGED <<lock, due>> /\ ptodo[p] # <<>> /\ Drop(thr, w)
      /\ thr \in [Threads -> Thread] /\ w \in Txns
  BY DEF ReleaseProcWork, TypeOK
<1>2. Lists[l] = ptodo[p] /\ l \in Place /\ \A g \in Threads : l # <<"t", g>>
  BY ListsIs, PlaceIs
<1>3. w = Head(Lists[l]) /\ Lists[l] # <<>>
  BY <1>1, <1>2
<1>. HIDE DEF w, l
<1>4. \A g \in Threads : Owed(txn', buf', thr', g) = Owed(txn, buf, thr, g)
  BY <1>1, <1>2, <1>3, DropOwed
<1>. QED
  BY <1>1, <1>4 DEF OwedInv

\* The buffers of a released process are no queued item's.
LEMMA ReleaseProcOwed ==
    ASSUME TypeOK, TypeOK', BufferPointersAgree, CallsInv, OwedInv, NEW p \in Procs, ReleaseProc(p)
    PROVE  OwedInv'
<1>. DEFINE gone == {b \in Bufs : buf[b].live /\ buf[b].proc = p}
            left == {buf[b].txn : b \in gone} \ {NIL}
<1>1. /\ Releasing(p) /\ ptodo[p] = <<>>
      /\ \A n \in Nodes : Owner[n] = p => node[n].todo = <<>>
      /\ txn' = [t \in Txns |-> IF t \in left THEN [txn[t] EXCEPT !.buffer = NIL] ELSE txn[t]]
      /\ buf' = [b \in Bufs |-> IF b \in gone THEN NoBuf ELSE buf[b]]
      /\ UNCHANGED <<thr, due>> /\ lock.thread = NIL
  BY DEF ReleaseProc, Releasing
<1>2. \A b \in gone : buf[b].txn = NIL
  BY <1>1, NoneOutlives
<1>3. left = {}
  BY <1>2
<1>. HIDE DEF left
<1>4. txn' = txn
  BY <1>1, <1>3 DEF TypeOK
<1>5. QueueOK(txn, buf, Lists) /\ txn \in [Txns -> Txn] /\ buf \in [Bufs -> Buf]
  BY DEF CallsInv, Flow, TypeOK
<1>6. \A u \in Txns \ {} : /\ txn'[u] = txn[u]
                           /\ txn[u].buffer # NIL => buf'[txn[u].buffer].node = buf[txn[u].buffer].node
  <2>. SUFFICES ASSUME NEW t \in Txns, txn[t].buffer # NIL PROVE txn[t].buffer \in Bufs \ gone
    BY <1>1, <1>4
  <2>1. txn[t].buffer \in Bufs /\ buf[txn[t].buffer].txn = t /\ t # NIL
    BY <1>5, NilAssumption DEF BufferPointersAgree, PointersAgree, Txn
  <2>. QED
    BY <1>2, <2>1
<1>. HIDE DEF gone
<1>7. /\ \A g \in Threads : SameItems(txn, buf, txn', buf', thr[g].todo)
      /\ \A u \in Txns : u \in CallsOf(txn', buf') <=> u \in CallsOf(txn, buf)
  <2>1. /\ \A g \in Threads : Held(Lists, <<"t", g>>) \cap {} = {}
                                => SameItems(txn, buf, txn', buf', thr[g].todo)
        /\ \A u \in Txns \ {} : u \in CallsOf(txn', buf') <=> u \in CallsOf(txn, buf)
    BY ONLY <1>5, <1>6, TypeOK, CountsKept
  <2>. QED
    BY <2>1
<1>8. ASSUME NEW g \in Threads PROVE due'[g] = Owed(txn', buf', thr', g)
  <2>1. Asked(txn', buf', g) = Asked(txn, buf, g)
    BY <1>4, <1>7, AskedSame
  <2>2. Owed(txn', buf', thr', g) = Owed(txn, buf, thr, g)
    BY <1>1, <1>7, <2>1, OwedSame
  <2>. QED
    BY <1>1, <2>2, NilAssumption DEF OwedInv
<1>. QED
  BY <1>8 DEF OwedInv

\* The calls a thread leaves behind when it exits are still its callers' to wait
\* for; its own calls are no one else's.
LEMMA EmptiedOwed ==
    ASSUME TypeOK, TypeOK', CallsInv, NEW h \in Threads, Emptied(h), NEW g \in Threads, g # h
    PROVE  Owed(txn', buf', thr', g) = Owed(txn, buf, thr, g)
<1>. DEFINE C == CallsOf(txn, buf)
            Q == Unread(txn, buf, Lists)
            W == OnStack(h)
            tx == Unlinked(h)
            bs == Unbound(h)
            hs == Bare(h)
            top == thr[h].stack
<1>1. /\ QueueOK(txn, buf, Lists) /\ Shape(C, Q, txn, Stacks) /\ C \subseteq Txns /\ Q \subseteq C
  BY DEF CallsInv, Flow, Woven, CallsOf, Unread
<1>2. /\ txn \in [Txns -> Txn] /\ buf \in [Bufs -> Buf] /\ thr \in [Threads -> Thread]
      /\ h # NIL /\ g # NIL /\ NIL \notin Txns
  BY NilAssumption DEF TypeOK
<1>3. W = Mem(C, Q, txn, h)
  <2>1. Stacks[h] = thr[h].stack
    BY DEF Stacks
  <2>. QED
    BY <1>1, <2>1, OnStackIs
<1>4. \A t \in W : /\ t \in C /\ IsCall(txn, buf, t)
                   /\ Incoming(h, t) => t \notin Q /\ txn[t].from # h
                   /\ ~Incoming(h, t) => txn[t].from = h
  <2>1. \A t \in W : t \in C /\ (txn[t].from = h \/ (txn[t].toThread = h /\ t \notin Q))
    BY <1>3 DEF Mem
  <2>2. Elsewhere(C, txn)
    BY <1>1 DEF Shape
  <2>3. \A t \in C : IsCall(txn, buf, t)
    BY DEF CallsOf
  <2>. QED
    BY <1>2, <2>1, <2>2, <2>3 DEF Elsewhere, Incoming
<1>5. \A t \in Txns : /\ t \notin W => tx[t] = txn[t]
                      /\ t \in W /\ Incoming(h, t) =>
                           tx[t] = [txn[t] EXCEPT !.toThread = NIL, !.buffer = NIL]
                      /\ t \in W /\ ~Incoming(h, t) => tx[t] = [txn[t] EXCEPT !.from = NIL]
  BY DEF Unlinked
<1>6. \A b \in Bufs : bs[b].node = buf[b].node
  BY <1>2 DEF Unbound, Detach, Buf
<1>7. \A f \in Threads : hs[f] = IF f = h THEN [thr[h] EXCEPT !.stack = NIL] ELSE thr[f]
  BY <1>2 DEF Bare
<1>8. tx = [t \in Txns |-> tx[t]] /\ hs = [f \in Threads |-> hs[f]]
  BY <1>2 DEF Unlinked, Bare
<1>9. bs \in [Bufs -> Buf]
  BY <1>2, FreedType DEF Unbound
<1>. HIDE DEF C, Q, W, tx, bs, hs
<1>10. tx \in [Txns -> Txn] /\ hs \in [Threads -> Thread]
  <2>1. \A t \in Txns : tx[t] \in Txn
    <3>1. \A t \in Txns : txn[t] \in Txn
      BY <1>2
    <3>2. \A r \in Txn : [r EXCEPT !.toThread = NIL, !.buffer = NIL] \in Txn /\ [r EXCEPT !.from = NIL] \in Txn
      BY DEF Txn
    <3>. QED
      BY <1>5, <3>1, <3>2, ZenonT(60)
  <2>2. \A f \in Threads : hs[f] \in Thread
    BY <1>2, <1>7, ZenonT(60) DEF Thread
  <2>. QED
    BY <1>8, <2>1, <2>2
<1>11. \A t \in Txns :
          /\ tx[t].live = txn[t].live /\ tx[t].oneway = txn[t].oneway
          /\ tx[t].from = IF t \in W /\ ~Incoming(h, t) THEN NIL ELSE txn[t].from
          /\ tx[t].buffer = IF t \in W /\ Incoming(h, t) THEN NIL ELSE txn[t].buffer
          /\ txn[t].buffer \in Bufs \cup {NIL}
  <2>. SUFFICES ASSUME NEW t \in Txns
                PROVE  /\ tx[t].live = txn[t].live /\ tx[t].oneway = txn[t].oneway
                       /\ tx[t].from = IF t \in W /\ ~Incoming(h, t) THEN NIL ELSE txn[t].from
                       /\ tx[t].buffer = IF t \in W /\ Incoming(h, t) THEN NIL ELSE txn[t].buffer
                       /\ txn[t].buffer \in Bufs \cup {NIL}
    OBVIOUS
  <2>1. txn[t] \in Txn
    BY <1>2
  <2>. QED
    BY <1>5, <2>1 DEF Txn
<1>12. Asked(tx, bs, g) = Asked(txn, buf, g)
  <2>. SUFFICES ASSUME NEW u \in Txns
                PROVE  \/ /\ u \in CallsOf(tx, bs) <=> u \in CallsOf(txn, buf)
                          /\ tx[u].from = txn[u].from
                       \/ u \notin Asked(tx, bs, g) /\ u \notin Asked(txn, buf, g)
    BY AskedSame
  <2>1. CASE u \notin W
    BY <1>6, <1>11, <2>1 DEF CallsOf, IsCall
  <2>2. CASE u \in W /\ Incoming(h, u)
    <3>1. IsCall(txn, buf, u)
      BY <1>4, <2>2
    <3>. QED
      BY <1>11, <2>2, <3>1 DEF CallsOf, IsCall
  <2>3. CASE u \in W /\ ~Incoming(h, u)
    <3>1. txn[u].from = h /\ tx[u].from = NIL
      BY <1>4, <1>11, <2>3
    <3>. QED
      BY <1>2, <3>1 DEF Asked
  <2>. QED
    BY <2>1, <2>2, <2>3
<1>13. SameItems(txn, buf, tx, bs, thr[g].todo)
  <2>. SUFFICES ASSUME NEW u \in Held(Lists, <<"t", g>>)
                PROVE  bs[tx[u].buffer].node = NIL <=> buf[txn[u].buffer].node = NIL
    BY ItemsKept
  <2>1. u \in Waiting(Lists) /\ u \in Txns
    BY PlaceIs, HeldWaits
  <2>2. ~(u \in W /\ Incoming(h, u))
    BY <1>4, <2>1 DEF Q, C, Unread
  <2>3. txn[u].buffer # NIL
    BY <1>1, <2>1, WaitingBuffer
  <2>. QED
    BY <1>6, <1>11, <2>1, <2>2, <2>3
<1>14. Owed(tx, bs, hs, g) = Owed(txn, buf, thr, g)
  <2>1. hs[g] = thr[g]
    BY <1>7
  <2>. QED
    BY <1>12, <1>13, <2>1, OwedSame
<1>15. CASE Serving(h)
  <2>1. FailReplied(tx, bs, hs, Lists, h, top, "BR_DEAD_REPLY")
    BY <1>15 DEF Emptied, tx, bs, hs
  <2>2. \A i \in DOMAIN hs[g].todo : hs[g].todo[i] \in Txns => hs[g].todo[i] \in Waiting(Lists)
    BY <1>7, ItemsWait
  <2>3. "BR_DEAD_REPLY" # "BR_OK"
    OBVIOUS
  <2>. HIDE DEF top
  <2>4. Owed(txn', buf', thr', g) = Owed(tx, bs, hs, g)
    BY <1>9, <1>10, <2>1, <2>2, <2>3, FailOwed
  <2>. QED
    BY <1>14, <2>4
<1>16. CASE ~Serving(h)
  <2>1. txn' = tx /\ buf' = bs /\ thr' = hs
    BY <1>16 DEF Emptied, tx, bs, hs
  <2>. QED
    BY <1>14, <2>1
<1>. QED
  BY <1>15, <1>16

LEMMA ExitOwed ==
    ASSUME TypeOK, TypeOK', CallsInv, OwedInv, NEW h \in Threads, ThreadExit(h) \/ ReleaseThread(h)
    PROVE  OwedInv'
<1>1. lock.thread = NIL /\ lock'.thread = h /\ due' = due /\ FreeStack(h)
  <2>1. CASE ThreadExit(h)
    BY <2>1, UnlockedOK DEF ThreadExit, Running, CallsInv, Unlocked
  <2>2. CASE ReleaseThread(h)
    BY <2>2 DEF ReleaseThread, TypeOK, Lock
  <2>. QED
    BY <2>1, <2>2
<1>2. Emptied(h)
  BY <1>1, FreeStackStep DEF CallsInv
<1>3. \A g \in Threads : g # h => Owed(txn', buf', thr', g) = Owed(txn, buf, thr, g)
  BY <1>2, EmptiedOwed
<1>. QED
  BY <1>1, <1>3, NilAssumption DEF OwedInv

\* The steps that create no transaction and carry none.
LEMMA RefusedOwed ==
    ASSUME ~CookieMismatch, TypeOK, TypeOK', CallsInv, OwedInv,
           NEW h \in Threads, NEW n \in Nodes, NEW oneway \in BOOLEAN,
           CallRefused(h, n, oneway) \/ CallFails(h, n, oneway) \/ ReplyRefused(h)
    PROVE  OwedInv'
<1>1. CanWrite(h) /\ (Refuse(h, "BR_DEAD_REPLY") \/ Refuse(h, "BR_FAILED_REPLY"))
  BY DEF CallRefused, ReplyRefused, CallFails, FailureCodes
<1>2. "BR_DEAD_REPLY" # "BR_OK" /\ "BR_FAILED_REPLY" # "BR_OK"
  OBVIOUS
<1>. QED
  BY <1>1, <1>2, RefuseOwed

\* Every thread is owed, at any time, what is in its list for it to return
\* from a read, an answer to each of its calls, and the errors it has not read.
THEOREM OwedInvAlways ==
    ASSUME ~CookieMismatch
    PROVE  Spec => []OwedInv
<1>1. Init => OwedInv
  <2>. SUFFICES ASSUME Init, NEW g \in Threads PROVE due[g] = Owed(txn, buf, thr, g)
    BY DEF OwedInv
  <2>1. /\ due[g] = 0 /\ thr[g] = NewThread /\ \A t \in Txns : txn[t] = NoTxn
        /\ thr \in [Threads -> Thread]
    <3>1. NewThread \in Thread
      BY DEF NewThread, Thread, Codes
    <3>. QED
      BY <3>1 DEF Init
  <2>2. At(thr[g].todo, Returned(txn, buf)) = {}
    BY <2>1 DEF At, NewThread
  <2>3. Asked(txn, buf, g) = {}
    BY <2>1 DEF Asked, CallsOf, IsCall, NoTxn
  <2>4. Codes1(thr[g]) = 0
    BY <2>1 DEF Codes1, NewThread, One
  <2>5. Cardinality(At(thr[g].todo, Returned(txn, buf))) = 0 /\ Cardinality(Asked(txn, buf, g)) = 0
    BY <2>2, <2>3, FS_EmptySet
  <2>. QED
    BY <2>1, <2>4, <2>5, OwedSum
<1>2. /\ TypeOK /\ TypeOK' /\ BufferPointersAgree /\ CallsInv /\ OwedInv /\ [Next]_vars
      => OwedInv'
  <2>. SUFFICES ASSUME TypeOK, TypeOK', BufferPointersAgree, CallsInv, OwedInv, [Next]_vars
                PROVE  OwedInv'
    OBVIOUS
  <2>1. ASSUME NEW h \in Threads, NEW n \in Nodes, NEW oneway \in BOOLEAN,
               CallRefused(h, n, oneway) \/ CallFails(h, n, oneway)
        PROVE  OwedInv'
    BY <2>1, RefusedOwed
  <2>2. ASSUME NEW h \in Threads, NEW n \in Nodes, Call(h, n) \/ CallOneWay(h, n)
        PROVE  OwedInv'
    BY <2>2, CallOwed, CallOneWayOwed
  <2>3. ASSUME NEW h \in Threads, ReplyRefused(h) PROVE OwedInv'
    BY <2>3, RefuseOwed DEF ReplyRefused
  <2>4. ASSUME NEW h \in Threads, ReadError(h) \/ ReadComplete(h) \/ ThreadFreed(h)
        PROVE  OwedInv'
    BY <2>4, ReadErrorOwed, ReadCompleteOwed, ThreadFreedOwed
  <2>5. ASSUME NEW h \in Threads, ReplyToDead(h) \/ ReplyFails(h) \/ Reply(h)
        PROVE  OwedInv'
    BY <2>5, ReplyToDeadOwed, ReplyFailsOwed, ReplyOwed
  <2>6. ASSUME NEW h \in Threads, NEW b \in Bufs, FreeBuffer(h, b)
        PROVE  OwedInv'
    BY <2>6, FreeBufferOwed
  <2>7. ASSUME NEW h \in Threads, ReadTxn(h) PROVE OwedInv'
    BY <2>7, ReadTxnOwed
  <2>8. ASSUME NEW h \in Threads, ThreadExit(h) \/ ReleaseThread(h) PROVE OwedInv'
    BY <2>8, ExitOwed
  <2>9. ASSUME NEW p \in Procs, Close(p) \/ DeferredRelease(p) PROVE OwedInv'
    BY <2>9, CloseOwed
  <2>10. ASSUME NEW h \in Threads, ReleaseThreadWork(h) PROVE OwedInv'
    BY <2>10, ReleaseThreadWorkOwed
  <2>11. ASSUME NEW n \in Nodes, ReleaseNodeWork(n) PROVE OwedInv'
    BY <2>11, ReleaseNodeWorkOwed
  <2>12. ASSUME NEW p \in Procs, ReleaseProcWork(p) \/ ReleaseProc(p) PROVE OwedInv'
    BY <2>12, ReleaseProcWorkOwed, ReleaseProcOwed
  <2>13. CASE UNCHANGED vars
    BY <2>13 DEF vars, OwedInv, Owed, At, Returned, Asked, CallsOf, IsCall
  <2>. QED
    BY <2>1, <2>2, <2>3, <2>4, <2>5, <2>6, <2>7, <2>8, <2>9, <2>10, <2>11, <2>12, <2>13
       DEF Next, Write, Read, Worker
<1>. QED
  BY <1>1, <1>2, TypeCorrect, PointersAgreeAlways, CallsInvAlways, PTL DEF Spec

\* A thread gets one return for every command it wrote and one more for every
\* synchronous call that was accepted: none is lost, none comes twice.
THEOREM EveryAnsweredAlways ==
    ASSUME ~CookieMismatch
    PROVE  Spec => []EveryCommandAnswered
<1>1. TypeOK /\ CallsInv /\ OwedInv => EveryCommandAnswered
  <2>. SUFFICES ASSUME TypeOK, CallsInv, OwedInv, NEW h \in Threads, lock.thread # h
                PROVE  due[h] =
            Cardinality({i \in DOMAIN thr[h].todo :
                LET w == thr[h].todo[i] IN
                w = Complete \/ buf[txn[w].buffer].node = NIL})
            + Cardinality({t \in OnStack(h) : txn[t].from = h})
            + One(thr[h].err # "BR_OK") + One(thr[h].err2 # "BR_OK")
    BY DEF EveryCommandAnswered
  <2>1. due[h] = Owed(txn, buf, thr, h)
    BY DEF OwedInv
  <2>2. {i \in DOMAIN thr[h].todo :
                LET w == thr[h].todo[i] IN
                w = Complete \/ buf[txn[w].buffer].node = NIL} = At(thr[h].todo, Returned(txn, buf))
    <3>1. thr[h].todo \in Seq(Txns \cup {Complete})
      BY DEF TypeOK, Thread
    <3>2. \A i \in DOMAIN thr[h].todo : thr[h].todo[i] \in Txns \cup {Complete}
      BY <3>1
    <3>. QED
      BY <3>2 DEF At, Returned
  <2>3. {t \in OnStack(h) : txn[t].from = h} = Asked(txn, buf, h)
    <3>1. Shape(CallsOf(txn, buf), Unread(txn, buf, Lists), txn, Stacks) /\ Stacks[h] = thr[h].stack
      BY DEF CallsInv, Flow, Woven, Stacks
    <3>2. OnStack(h) = Mem(CallsOf(txn, buf), Unread(txn, buf, Lists), txn, h)
      BY <3>1, OnStackIs
    <3>. QED
      BY <3>2 DEF Mem, Asked
  <2>. QED
    BY <2>1, <2>2, <2>3 DEF Owed
<1>. QED
  BY <1>1, TypeCorrect, CallsInvAlways, OwedInvAlways, PTL

===============================================================================
