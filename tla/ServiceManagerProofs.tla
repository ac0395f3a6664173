------------------------- MODULE ServiceManagerProofs -------------------------
(***************************************************************************)
(* Proofs about the service manager, for every set of services, names and  *)
(* transactions: its entries have the counts they need, it keeps the       *)
(* promise of Registry, and it forgets the plain services that have died.  *)
(***************************************************************************)
EXTENDS ServiceManager, BinderDeathProofs

-------------------------------------------------------------------------------
(* The order of a list *)

Before(s, m, d) == \A i, j \in DOMAIN s: s[i] = m /\ s[j] = d => i < j

LEMMA BeforeAppend ==
    ASSUME NEW S, NEW s \in Seq(S), NEW e, NEW m, NEW d, Before(s, m, d),
           m # d, e = m => d \notin Range(s)
    PROVE  Before(Append(s, e), m, d)
<1>. DEFINE a == Append(s, e)
            n == Len(s)
<1>1. n \in Nat /\ DOMAIN s = 1..n /\ DOMAIN a = 1..(n + 1) /\ a[n + 1] = e
      /\ \A i \in 1..n: a[i] = s[i]
  OBVIOUS
<1>. HIDE DEF a, n
<1>2. ASSUME NEW i \in 1..(n + 1), NEW j \in 1..(n + 1), a[i] = m, a[j] = d PROVE i < j
  <2>1. CASE i \in 1..n /\ j \in 1..n
    BY <1>1, <1>2, <2>1 DEF Before
  <2>2. CASE i = n + 1
    <3>1. j \in 1..n /\ e = m
      BY <1>1, <1>2, <2>2
    <3>. QED
      BY <1>1, <1>2, <3>1 DEF Range
  <2>3. CASE i \in 1..n /\ j = n + 1
    BY <1>1, <2>3
  <2>. QED
    BY <1>1, <2>1, <2>2, <2>3
<1>. QED
  BY <1>1, <1>2 DEF Before, a

LEMMA BeforeTail ==
    ASSUME NEW S, NEW s \in Seq(S), s # <<>>, NEW m, NEW d, Before(s, m, d)
    PROVE  Before(Tail(s), m, d)
<1>. DEFINE a == Tail(s)
            n == Len(s)
<1>1. n \in Nat /\ DOMAIN s = 1..n /\ DOMAIN a = 1..(n - 1)
      /\ \A i \in 1..(n - 1): a[i] = s[i + 1]
  OBVIOUS
<1>. HIDE DEF a, n
<1>2. ASSUME NEW i \in 1..(n - 1), NEW j \in 1..(n - 1), a[i] = m, a[j] = d PROVE i < j
  <2>1. i + 1 \in 1..n /\ j + 1 \in 1..n /\ s[i + 1] = m /\ s[j + 1] = d
    BY <1>1, <1>2
  <2>2. i + 1 < j + 1
    BY <1>1, <2>1 DEF Before
  <2>. QED
    BY <1>1, <2>2
<1>. QED
  BY <1>1, <1>2 DEF Before, a

LEMMA BeforeWithout ==
    ASSUME NEW S, NEW s \in Seq(S), NEW e, NEW m, NEW d, Before(s, m, d)
    PROVE  Before(Without(s, e), m, d)
<1>1. CASE e \notin Range(s)
  BY <1>1 DEF Without
<1>2. CASE e \in Range(s)
  <2>. DEFINE a == Without(s, e)
              n == Len(s)
  <2>1. n \in Nat /\ DOMAIN s = 1..n
    OBVIOUS
  <2>2. PICK k \in 1..n: /\ DOMAIN a = 1..(n - 1)
                         /\ \A i \in 1..(n - 1): a[i] = IF i < k THEN s[i] ELSE s[i + 1]
    BY <1>2, WithoutAt
  <2>. HIDE DEF a, n
  <2>3. ASSUME NEW i \in 1..(n - 1), NEW j \in 1..(n - 1), a[i] = m, a[j] = d PROVE i < j
    <3>. DEFINE to(q) == IF q < k THEN q ELSE q + 1
    <3>1. a[i] = s[to(i)] /\ a[j] = s[to(j)] /\ to(i) \in 1..n /\ to(j) \in 1..n
      BY <2>1, <2>2
    <3>2. to(i) < to(j)
      BY <2>1, <2>3, <3>1 DEF Before
    <3>. QED
      BY <2>1, <3>2
  <2>. QED
    BY <2>2, <2>3 DEF Before, a
<1>. QED
  BY <1>1, <1>2

-------------------------------------------------------------------------------
(* The inductive invariant *)

\* The entries that have the handle of n, and the transactions that carry it.
Holders(n) == {x \in Names: svc[x] # 0 /\ svc[x] = ref[n].desc}

\* The entry of the call that is served has the handle of n and no count for it.
Pending(n) == IF at = "acquire" /\ msg[job].node = n THEN 1 ELSE 0

\* The call that is served, and where the manager is in it.
Served ==
    /\ at \in {"start", "loop", "override", "acquire", "link", "reply", "died"}
    /\ at \in {"override", "acquire", "link", "reply"} => job \in Msgs /\ msg[job].st = "held"
    /\ at \in {"override", "acquire", "link"} => msg[job].node \in Nodes
    /\ at \in {"acquire", "link"} => svc[call[job]] = ref[msg[job].node].desc
    /\ at = "override" => svc[call[job]] # 0
    /\ at = "died" => job \in Names
    /\ \A m \in Msgs: msg[m].st = "held" =>
           m = job /\ at \in {"override", "acquire", "link", "reply"}

\* The transactions that wait are on the list of the process.
Posted == \A m \in Msgs: msg[m].st = "queued" => m \in Range(todo[Proc])

\* Services go by their names, in transactions, entries and notifications.
Called ==
    /\ svc \in [Names -> Handles \cup {0}]
    /\ call \in [Msgs -> Names \cup {NIL}]
    /\ \A m \in Msgs: msg[m].node # NIL => call[m] \in NamesOf[msg[m].node]
    /\ \A n \in Nodes: Holders(n) \subseteq NamesOf[n]
    /\ \A n \in Nodes: ref[n].death # NIL => death[ref[n].death].cookie \in NamesOf[n]

\* Entries have handles that mean something, and the counts that they need.
Kept ==
    /\ \A x \in Names: svc[x] # 0 => \E n \in Nodes: ref[n].desc = svc[x]
    /\ \A n \in Nodes: ref[n].count + Pending(n) = Cardinality(Holders(n)) + Cardinality(Carriers(n))

\* The manager clears no notification.
Uncleared == \A d \in Deaths: death[d].type \in {"free", "armed", "dead"}

\* No transaction that carries n waits behind the notification of n's death.
Ahead(n) ==
    LET d == ref[n].death IN
    \A m \in Carriers(n):
        /\ d \in Range(todo[Manager]) => msg[m].st # "queued"
        /\ Before(todo[Proc], m, d)

\* A plain service has one transaction at most; its entry has a notification, or
\* is about to have one; that of a dead one waits to be read, or has been.
Heeded(n) ==
    /\ \A m, k \in Carriers(n): m = k
    /\ Holders(n) # {} /\ ref[n].death = NIL => at \in {"acquire", "link"} /\ msg[job].node = n
    /\ n \notin alive /\ ref[n].death # NIL =>
         \/ \E l \in Lists: ref[n].death \in Range(todo[l])
         \/ at = "died" /\ job \in NamesOf[n] /\ Carriers(n) = {}
    /\ Ahead(n)

\* The death that the manager has read of.
Cause ==
    at = "died" =>
        \E n \in Nodes \ alive:
            /\ job \in NamesOf[n]
            /\ n \in Plain => svc[job] = ref[n].desc /\ svc[job] # 0

MInv ==
    /\ IInv
    /\ Served /\ Posted /\ Called /\ Kept /\ Uncleared
    /\ \A n \in Plain: Heeded(n)
    /\ Cause

-------------------------------------------------------------------------------
(* Handles, entries and counts *)

LEMMA Alone ==
    /\ Manager \in Threads /\ Lists = {Manager, Proc} /\ Manager # Proc
    /\ NIL \notin Nodes /\ NIL \notin Names /\ NIL \notin Nat /\ NIL \notin Deaths
    /\ NIL \notin Msgs /\ Deaths \cap Msgs = {}
    /\ \A h \in Handles: h \in Nat /\ h # 0 /\ h # NIL
BY ManagerThread, ManagerNil, DeathThreads, DeathItems, DeathNil, FS_CardinalityType
   DEF Lists, Handles

\* A handle names one node.
LEMMA NamedIs ==
    ASSUME IInv, NEW n \in Nodes, ref[n].desc # NIL
    PROVE  Named(ref[n].desc) = {n} /\ ref[n].desc \in Handles
<1>1. ref[n].desc \in Handles
  BY Shape DEF Ref
<1>. QED
  BY <1>1 DEF IInv, Counts, Named

LEMMA EntryNamed ==
    ASSUME IInv, Called, Kept, NEW x \in Names, svc[x] # 0
    PROVE  \E n \in Nodes: /\ Named(svc[x]) = {n} /\ svc[x] = ref[n].desc /\ svc[x] \in Handles
                           /\ x \in Holders(n)
<1>1. svc[x] \in Handles
  BY DEF Called
<1>2. PICK n \in Nodes: ref[n].desc = svc[x]
  BY DEF Kept
<1>. QED
  BY <1>1, <1>2, Alone, NamedIs DEF Holders

LEMMA HoldersFinite ==
    ASSUME NEW n
    PROVE  /\ IsFiniteSet(Holders(n)) /\ Cardinality(Holders(n)) \in Nat
           /\ Cardinality(Holders(n)') \in Nat
BY ManagerRoom, FS_Subset, FS_CardinalityType DEF Holders

\* A step that asks for no notification of o, and neither queues nor reads it.
Steady(o) ==
    ref'[o].death # NIL =>
         /\ ref'[o].death = ref[o].death
         /\ death'[ref[o].death].cookie = death[ref[o].death].cookie
         /\ \A l \in Lists: ref[o].death \in Range(todo'[l]) <=> ref[o].death \in Range(todo[l])

\* The transactions stay where they are.
Settled ==
    /\ \A m \in Msgs, l \in Lists: m \in Range(todo'[l]) <=> m \in Range(todo[l])
    /\ \A m, d: Before(todo[Proc], m, d) => Before(todo'[Proc], m, d)

\* A count given back.
LEMMA UncountDoes ==
    ASSUME IInv, NEW n \in Nodes, ref[n].count >= 1, Uncount(n)
    PROVE  /\ (\A o \in Nodes: Steady(o)) /\ Settled
           /\ \A e \in Deaths: death'[e].type = death[e].type \/ death'[e].type = "free"
           /\ \A o \in Nodes: o # n => ref'[o] = ref[o]
           /\ IF ref[n].count = 1 THEN ref'[n] = NoRef
              ELSE /\ ref'[n].desc = ref[n].desc /\ ref'[n].count = ref[n].count - 1
                   /\ ref'[n].death = ref[n].death
<1>. DEFINE d == ref[n].death
<1>1. /\ \A o \in Nodes: o # n => ref'[o] = ref[o]
      /\ IF ref[n].count = 1 THEN ref'[n] = NoRef
         ELSE /\ ref'[n].desc = ref[n].desc /\ ref'[n].count = ref[n].count - 1
              /\ ref'[n].death = ref[n].death
  <2>1. ref \in [Nodes -> Ref]
    BY Shape
  <2>2. CASE ref[n].count = 1
    <3>1. ref' = [ref EXCEPT ![n] = NoRef]
      BY <2>2 DEF Uncount
    <3>. QED
      BY <2>1, <2>2, <3>1
  <2>3. CASE ref[n].count # 1
    <3>1. ref' = [ref EXCEPT ![n].count = @ - 1]
      BY <2>3 DEF Uncount
    <3>. QED
      BY <2>1, <2>3, <3>1 DEF Ref
  <2>. QED
    BY <2>2, <2>3
<1>2. \A o \in Nodes: /\ ref'[o].death # NIL => ref'[o].death = ref[o].death
                      /\ ref[n].count = 1 /\ d # NIL /\ ref'[o].death # NIL => ref[o].death # d
  BY <1>1 DEF NoRef, IInv, Single
<1>3. CASE ref[n].count = 1 /\ d # NIL
  <2>1. /\ death' = [death EXCEPT ![d] = NoDeath]
        /\ todo' = [l \in Lists |-> Without(todo[l], d)]
    BY <1>3 DEF Uncount
  <2>2. d \in Deaths
    BY <1>3, Shape DEF Ref
  <2>. HIDE DEF d
  <2>3. \A l \in Lists: Range(todo'[l]) = Range(todo[l]) \ {d}
    BY <2>1, Shape, WithoutIs DEF Separate
  <2>4. \A m, e: Before(todo[Proc], m, e) => Before(todo'[Proc], m, e)
    <3>1. todo[Proc] \in Seq(Items) /\ todo'[Proc] = Without(todo[Proc], d)
      BY <2>1, Shape
    <3>. QED
      BY <3>1, BeforeWithout
  <2>5. \A e \in Deaths: IF e = d THEN death'[e].type = "free" ELSE death'[e] = death[e]
    BY <2>1, <2>2, Shape DEF NoDeath
  <2>6. \A o \in Nodes: ref[o].death # NIL => ref[o].death \in Deaths
    BY Shape DEF Ref
  <2>7. \A o \in Nodes: Steady(o)
    BY <1>2, <1>3, <2>3, <2>5, <2>6 DEF Steady
  <2>8. Settled
    BY <2>2, <2>3, <2>4, Alone DEF Settled
  <2>. QED
    BY <1>1, <2>5, <2>7, <2>8
<1>4. CASE ~(ref[n].count = 1 /\ d # NIL)
  <2>1. UNCHANGED <<death, todo, delivered>>
    BY <1>4 DEF Uncount
  <2>. QED
    BY <1>1, <1>2, <2>1 DEF Steady, Settled
<1>. QED
  BY <1>3, <1>4

\* A service that a transaction carries has a handle and a count for it.
LEMMA CarriedIs ==
    ASSUME IInv, NEW m \in Msgs, NEW n \in Nodes, msg[m].node = n
    PROVE  /\ ref[n].desc \in Handles /\ ref[n].desc # NIL /\ ref[n].count \in Nat
           /\ Cardinality(Carriers(n)) >= 1 /\ ref[n].count >= 1
<1>1. m \in Carriers(n) /\ IsFiniteSet(Carriers(n))
  BY CarriersFinite DEF Carriers
<1>2. Cardinality(Carriers(n)) >= 1
  <2>1. Cardinality(Carriers(n)) # 0
    BY <1>1, FS_EmptySet
  <2>. QED
    BY <2>1, CarriersFinite
<1>3. ref[n].count \in Nat /\ Cardinality(Carriers(n)) <= ref[n].count
  BY Shape DEF Ref, IInv, Counts
<1>4. ref[n].desc # NIL
  <2>1. ref[n].count # 0
    BY <1>2, <1>3, CarriersFinite
  <2>. QED
    BY <2>1 DEF IInv, Counts, NoRef
<1>. QED
  BY <1>2, <1>3, <1>4, NamedIs, CarriersFinite

\* What is on a list is an item; a list that loses or gains another keeps it.
LEMMA NothingNamed ==
    ASSUME IInv, NEW l \in Lists
    PROVE  NIL \notin Range(todo[l]) /\ Range(todo[l]) \subseteq Items
<1>1. todo[l] \in Seq(Items)
  BY Shape
<1>2. Range(todo[l]) \subseteq Items
  BY <1>1 DEF Range
<1>. QED
  BY <1>2, DeathNil DEF Items

LEMMA NothingNamedNext ==
    ASSUME IInv'
    PROVE  \A l \in Lists: NIL \notin Range(todo'[l])
<1>1. \A l \in Lists: todo'[l] \in Seq(Deaths \cup Msgs)
  BY DEF IInv, TypeOK, Lists
<1>2. \A l \in Lists: Range(todo'[l]) \subseteq Deaths \cup Msgs
  BY <1>1 DEF Range
<1>. QED
  BY <1>2, DeathNil

\* The notification of a living node has not been queued.
LEMMA NotYetQueued ==
    ASSUME IInv, NEW n \in alive, NEW l \in Lists
    PROVE  ref[n].death \notin Range(todo[l])
<1>1. CASE ref[n].death = NIL
  BY <1>1, NothingNamed
<1>2. CASE ref[n].death # NIL
  <2>1. n \in Nodes /\ ref[n].death \in Deaths
    BY <1>2, Shape DEF Ref
  <2>2. death[ref[n].death].type = "armed" /\ Fate(ref[n].death)
    BY <1>2, <2>1 DEF IInv, Living
  <2>. QED
    BY <2>2 DEF Fate, Queued
<1>. QED
  BY <1>1, <1>2

\* A step that leaves a plain service heeded.
LEMMA HeedKept ==
    ASSUME NEW n \in Plain, Heeded(n), Steady(n), n \in alive' <=> n \in alive,
           \A m \in Carriers(n)': m \in Carriers(n) /\ (msg'[m].st = "queued" => msg[m].st = "queued"),
           \A m \in Carriers(n): Before(todo[Proc], m, ref[n].death) => Before(todo'[Proc], m, ref[n].death),
           \A l \in Lists: NIL \notin Range(todo'[l]),
           Holders(n)' # {} /\ ref'[n].death = NIL
             => at' \in {"acquire", "link"} /\ msg'[job'].node = n,
           at = "died" /\ job \in NamesOf[n] /\ Carriers(n) = {} /\ n \notin alive
             => ref'[n].death = NIL \/ (at' = "died" /\ job' = job)
    PROVE  Heeded(n)'
<1>1. \A m, k \in Carriers(n)': m = k
  BY DEF Heeded
<1>2. n \notin alive' /\ ref'[n].death # NIL =>
         \/ \E l \in Lists: ref'[n].death \in Range(todo'[l])
         \/ at' = "died" /\ job' \in NamesOf[n] /\ Carriers(n)' = {}
  BY DEF Heeded, Steady
<1>3. Ahead(n)'
  <2>1. CASE ref'[n].death = NIL
    <3>1. ASSUME NEW m \in Carriers(n)'
          PROVE  Before(todo'[Proc], m, ref'[n].death)
      BY <2>1, Alone DEF Before, Range
    <3>. QED
      BY <2>1, <3>1, Alone DEF Ahead
  <2>2. CASE ref'[n].death # NIL
    <3>1. ref'[n].death = ref[n].death
          /\ (ref[n].death \in Range(todo'[Manager]) <=> ref[n].death \in Range(todo[Manager]))
      BY <2>2, Alone DEF Steady
    <3>. QED
      BY <3>1 DEF Ahead, Heeded
  <2>. QED
    BY <2>1, <2>2
<1>. QED
  BY <1>1, <1>2, <1>3 DEF Heeded

-------------------------------------------------------------------------------
(* Clients *)

LEMMA InitMInv == ManagerInit => MInv
<1>. SUFFICES ASSUME ManagerInit PROVE MInv
  OBVIOUS
<1>1. /\ Init /\ svc = [x \in Names |-> 0] /\ call = [m \in Msgs |-> NIL] /\ at = "start"
      /\ ref = [n \in Nodes |-> NoRef] /\ msg = [m \in Msgs |-> NoMsg] /\ alive = Nodes
      /\ death = [d \in Deaths |-> NoDeath] /\ todo = [l \in Lists |-> <<>>]
  BY DEF ManagerInit, Init
<1>2. IInv
  BY <1>1, InitInv
<1>3. \A n \in Nodes: /\ Holders(n) = {} /\ Carriers(n) = {} /\ Pending(n) = 0
                      /\ ref[n].death = NIL /\ ref[n].count = 0
  BY <1>1, Alone DEF Holders, Carriers, Pending, NoRef, NoMsg
<1>4. Served /\ Posted /\ Cause
  BY <1>1 DEF Served, Posted, Cause, NoMsg
<1>5. Called /\ Uncleared
  BY <1>1, <1>3 DEF Called, Uncleared, NoMsg, NoDeath
<1>6. Kept
  <2>1. Cardinality({}) = 0
    BY FS_EmptySet
  <2>. QED
    BY <1>1, <1>3, <2>1 DEF Kept
<1>7. ASSUME NEW n \in Plain PROVE Heeded(n)
  BY <1>1, <1>3, ManagerNamesOf DEF Heeded, Ahead, Plain
<1>. QED
  BY <1>2, <1>4, <1>5, <1>6, <1>7 DEF MInv

\* A transaction about x is sent, with a reference to k or without.
LEMMA SentInv ==
    ASSUME MInv, NEW m \in Msgs, NEW k \in Nodes \cup {NIL}, NEW x \in Names, Send(m, k),
           call' = [call EXCEPT ![m] = x], UNCHANGED <<svc, at, job>>,
           k # NIL => x \in NamesOf[k],
           k \in Careful => k \in alive /\ \A j \in Msgs: msg[j].node # k
    PROVE  MInv'
<1>. DEFINE w == [st |-> "queued", node |-> k, by |-> NIL]
<1>1. /\ msg' = [msg EXCEPT ![m] = w] /\ todo' = [todo EXCEPT ![Proc] = Append(@, m)]
      /\ ref' = IF k = NIL THEN ref ELSE Counted(k)
      /\ UNCHANGED <<alive, death, delivered>> /\ msg[m].st = "free"
  BY DEF Send
<1>2. IInv /\ IInv' /\ Served /\ Posted /\ Called /\ Kept /\ Uncleared
  BY SendInv DEF MInv
<1>3. /\ msg[m].node = NIL /\ w \in Msg /\ w.st = "queued" /\ w.node = k
      /\ msg' \in [Msgs -> Msg] /\ msg'[m] = w
      /\ \A j \in Msgs: j # m => msg'[j] = msg[j]
  BY <1>1, <1>2, Shape DEF Msg, IInv, Counts
<1>4. /\ Range(todo'[Proc]) = Range(todo[Proc]) \cup {m} /\ todo'[Manager] = todo[Manager]
      /\ todo[Proc] \in Seq(Items) /\ todo'[Proc] = Append(todo[Proc], m)
      /\ m \notin Range(todo[Proc])
  <2>1. todo \in [Lists -> Seq(Items)] /\ m \in Items
    BY <1>2, Shape DEF Items
  <2>2. todo[Proc] \in Seq(Items) /\ todo'[Proc] = Append(todo[Proc], m)
        /\ todo'[Manager] = todo[Manager]
    BY <1>1, <2>1, Alone
  <2>3. m \notin Range(todo[Proc])
    BY <1>1, <1>2, Alone DEF IInv, Messages
  <2>. QED
    BY <2>1, <2>2, <2>3, AppendIs
<1>5. \A o \in Nodes: /\ ref'[o].death = ref[o].death
                      /\ ref[o].desc # NIL => ref'[o].desc = ref[o].desc
                      /\ ref'[o].count = ref[o].count + (IF o = k THEN 1 ELSE 0)
                      /\ ref[o].desc = NIL /\ ref'[o].desc # NIL => Named(ref'[o].desc) = {}
  <2>0. \A o \in Nodes: ref[o].count \in Nat
    BY <1>2, Shape DEF Ref
  <2>1. CASE k = NIL
    BY <1>1, <2>0, <2>1, Alone
  <2>2. CASE k # NIL
    <3>1. k \in Nodes /\ ref' = Counted(k) /\ TypeOK /\ Counts
      BY <1>1, <1>2, <2>2 DEF IInv
    <3>2. /\ \A o \in Nodes: ref'[o].death = ref[o].death /\ (o # k => ref'[o] = ref[o])
          /\ ref'[k].count = ref[k].count + 1
      BY <3>1, CountedIs
    <3>3. CASE ref[k].desc # NIL
      <4>1. ref' = [ref EXCEPT ![k].count = @ + 1]
        BY <3>1, <3>3 DEF Counted
      <4>2. ref'[k].desc = ref[k].desc
        BY <1>2, <3>1, <4>1, Shape DEF Ref
      <4>. QED
        BY <2>0, <3>1, <3>2, <3>3, <4>2
    <3>4. CASE ref[k].desc = NIL
      <4>1. ref' = [ref EXCEPT ![k] = [NoRef EXCEPT !.desc = NewDesc, !.count = 1]]
        BY <3>1, <3>4 DEF Counted
      <4>2. ref'[k].desc = NewDesc
        BY <1>2, <3>1, <4>1, Shape DEF NoRef
      <4>3. Named(NewDesc) = {}
        BY <3>1, <3>4, NewDescIs
      <4>. QED
        BY <2>0, <3>1, <3>2, <3>4, <4>2, <4>3
    <3>. QED
      BY <3>3, <3>4
  <2>. QED
    BY <2>1, <2>2
<1>. HIDE DEF w
<1>6. \A o \in Nodes: Holders(o)' = Holders(o)
  <2>. SUFFICES ASSUME NEW o \in Nodes, NEW y \in Names
       PROVE  svc[y] # 0 => (svc[y] = ref'[o].desc <=> svc[y] = ref[o].desc)
    BY DEF Holders
  <2>1. svc[y] # 0 => svc[y] # NIL /\ \E q \in Nodes: ref[q].desc = svc[y]
    BY <1>2, Alone DEF Called, Kept
  <2>. QED
    BY <1>5, <2>1 DEF Named
<1>7. /\ at \in {"override", "acquire", "link", "reply"} => job # m /\ job \in Msgs
      /\ at \in {"override", "acquire", "link", "reply"} =>
           msg'[job] = msg[job] /\ call'[job] = call[job]
  BY <1>1, <1>2, <1>3 DEF Served, Called
<1>8. Served' /\ \A o \in Nodes: Pending(o)' = Pending(o)
  <2>1. at \in {"acquire", "link"} =>
           ref'[msg[job].node].desc = ref[msg[job].node].desc
    BY <1>2, <1>5, CarriedIs DEF Served
  <2>2. \A j \in Msgs: msg'[j].st = "held" => msg[j].st = "held"
    BY <1>3
  <2>. QED
    BY <1>2, <1>7, <2>1, <2>2 DEF Served, Pending
<1>9. Posted'
  BY <1>2, <1>3, <1>4 DEF Posted
<1>10. Called'
  <2>1. call' \in [Msgs -> Names \cup {NIL}] /\ call'[m] = x
        /\ \A j \in Msgs: j # m => call'[j] = call[j]
    BY <1>2 DEF Called
  <2>2. \A j \in Msgs: msg'[j].node # NIL => call'[j] \in NamesOf[msg'[j].node]
    BY <1>2, <1>3, <2>1 DEF Called
  <2>. QED
    BY <1>1, <1>2, <1>5, <1>6, <2>1, <2>2 DEF Called
<1>11. Kept'
  <2>1. \A y \in Names: svc[y] # 0 => \E q \in Nodes: ref'[q].desc = svc[y]
    BY <1>2, <1>5, Alone DEF Called, Kept
  <2>2. \A o \in Nodes: Cardinality(Carriers(o)')
                          = Cardinality(Carriers(o)) + (IF o = k THEN 1 ELSE 0)
    BY <1>1, <1>2, <1>3, Shape, CarryMore
  <2>3. ASSUME NEW o \in Nodes
        PROVE  ref'[o].count + Pending(o)' = Cardinality(Holders(o)') + Cardinality(Carriers(o)')
    <3>1. /\ ref[o].count \in Nat /\ Pending(o) \in Nat /\ Cardinality(Holders(o)) \in Nat
          /\ Cardinality(Carriers(o)) \in Nat
      BY <1>2, Shape, HoldersFinite, CarriersFinite DEF Ref, Pending
    <3>2. ref[o].count + Pending(o) = Cardinality(Holders(o)) + Cardinality(Carriers(o))
      BY <1>2 DEF Kept
    <3>. QED
      BY <1>5, <1>6, <1>8, <2>2, <3>1, <3>2
  <2>. QED
    BY <2>1, <2>3 DEF Kept
<1>12. Uncleared'
  BY <1>1, <1>2 DEF Uncleared
<1>13. ASSUME NEW n \in Plain PROVE Heeded(n)'
  <2>. DEFINE d == ref[n].death
  <2>1. n \in Nodes /\ n \in Careful /\ Heeded(n) /\ ref'[n].death = d /\ d # m
    BY <1>2, <1>5, ManagerNamesOf, Shape, Alone DEF MInv, Plain, Ref
  <2>2. Carriers(n)' = IF n = k THEN {m} ELSE Carriers(n)
    BY <1>3, <2>1, Alone DEF Carriers
  <2>3. Holders(n)' # {} /\ d = NIL => at \in {"acquire", "link"} /\ msg'[job].node = n
    BY <1>6, <1>7, <2>1 DEF Heeded
  <2>4. n \notin alive /\ d # NIL =>
           \/ \E l \in Lists: d \in Range(todo'[l])
           \/ at = "died" /\ job \in NamesOf[n] /\ Carriers(n)' = {}
    BY <1>4, <2>1, <2>2, Alone DEF Heeded
  <2>5. ASSUME NEW j \in Carriers(n)'
        PROVE  /\ d \in Range(todo'[Manager]) => msg'[j].st # "queued"
               /\ Before(todo'[Proc], j, d)
    <3>1. CASE j = m
      <4>1. n = k
        BY <1>3, <2>5, <3>1 DEF Carriers
      <4>2. d \notin Range(todo[Proc]) /\ d \notin Range(todo[Manager])
        BY <1>2, <2>1, <4>1, NotYetQueued, Alone
      <4>3. Before(todo[Proc], m, d)
        BY <4>2 DEF Before, Range
      <4>. QED
        BY <1>4, <2>1, <3>1, <4>2, <4>3, BeforeAppend
    <3>2. CASE j # m
      <4>1. j \in Carriers(n) /\ msg'[j] = msg[j] /\ j \in Msgs
        BY <1>3, <2>5, <3>2 DEF Carriers
      <4>2. (d \in Range(todo[Manager]) => msg[j].st # "queued") /\ Before(todo[Proc], j, d)
        BY <2>1, <4>1 DEF Heeded, Ahead
      <4>3. j # d
        BY <1>2, <2>1, <4>1, Shape, Alone DEF Ref
      <4>. QED
        BY <1>4, <3>2, <4>1, <4>2, <4>3, BeforeAppend
    <3>. QED
      BY <3>1, <3>2
  <2>6. \A j, i \in Carriers(n)': j = i
    BY <2>1, <2>2 DEF Heeded
  <2>. QED
    BY <1>1, <2>1, <2>3, <2>4, <2>5, <2>6 DEF Heeded, Ahead
<1>14. Cause'
  <2>1. at = "died" /\ svc[job] # 0 => svc[job] # NIL
    BY <1>2, Alone DEF Served, Called
  <2>. QED
    BY <1>1, <1>5, <2>1, ManagerNamesOf DEF MInv, Cause, Plain
<1>. QED
  BY <1>2, <1>8, <1>9, <1>10, <1>11, <1>12, <1>13, <1>14 DEF MInv

-------------------------------------------------------------------------------
(* The loop, and calls that are read *)

LEMMA PlainIs == \A n \in Plain: n \in Nodes /\ \A x, y \in NamesOf[n]: x = y
BY ManagerNamesOf DEF Plain

\* A step in which only counts, or nothing of the driver's lists, changes.
LEMMA EnterLoopInv ==
    ASSUME MInv, EnterLoop
    PROVE  MInv'
<1>1. /\ at = "start" /\ at' = "loop" /\ EnterLooper(Manager)
      /\ UNCHANGED <<alive, ref, death, msg, todo, delivered, svc, call, job>>
  BY DEF EnterLoop, EnterLooper
<1>2. IInv'
  BY <1>1, Alone, StepInv DEF MInv, Next, Command
<1>3. \A o \in Nodes: /\ Carriers(o)' = Carriers(o) /\ Holders(o)' = Holders(o)
                      /\ Pending(o)' = 0 /\ Pending(o) = 0
  BY <1>1 DEF Carriers, Holders, Pending
<1>4. Served' /\ Posted' /\ Uncleared' /\ Cause'
  BY <1>1 DEF MInv, Served, Posted, Uncleared, Cause
<1>5. Called' /\ Kept'
  BY <1>1, <1>3 DEF MInv, Called, Kept
<1>6. ASSUME NEW n \in Plain PROVE Heeded(n)'
  BY <1>1, <1>3, PlainIs DEF MInv, Heeded, Ahead
<1>. QED
  BY <1>2, <1>4, <1>5, <1>6 DEF MInv

\* The first item of the list that the manager reads.
LEMMA FirstIs ==
    ASSUME IInv, NEW i \in Items, Next1(Manager) = i, todo' = Taken(Manager)
    PROVE  /\ \A l \in Lists: Range(todo'[l]) = Range(todo[l]) \ {i}
           /\ \A m, d: Before(todo[Proc], m, d) => Before(todo'[Proc], m, d)
           /\ i \notin Range(todo[Manager]) =>
                /\ 1 \in DOMAIN todo[Proc] /\ todo[Proc][1] = i
                /\ DOMAIN todo[Proc] \subseteq Nat \ {0}
           /\ \E l \in Lists: i \in Range(todo[l])
<1>1. /\ \A l \in Lists: Range(todo'[l]) = Range(todo[l]) \ {i}
      /\ \E l \in Lists: i \in Range(todo[l])
  BY TakenIs, Alone
<1>2. PICK k \in Lists: k = Source(Manager)
  BY Alone DEF Source
<1>3. /\ todo[k] # <<>> /\ i = Head(todo[k]) /\ todo' = [todo EXCEPT ![k] = Tail(@)]
  BY <1>2, DeathNil DEF Next1, Taken, Items
<1>4. todo[k] \in Seq(Items) /\ todo[Proc] \in Seq(Items) /\ todo \in [Lists -> Seq(Items)]
  BY Shape
<1>5. \A m, d: Before(todo[Proc], m, d) => Before(todo'[Proc], m, d)
  <2>1. CASE k = Proc
    <3>1. todo'[Proc] = Tail(todo[Proc]) /\ todo[Proc] # <<>>
      BY <1>3, <1>4, <2>1
    <3>. QED
      BY <1>4, <3>1, BeforeTail
  <2>2. CASE k # Proc
    <3>1. todo'[Proc] = todo[Proc]
      BY <1>3, <1>4, <2>2, Alone
    <3>. QED
      BY <3>1
  <2>. QED
    BY <2>1, <2>2
<1>6. i \in Range(todo[k])
  BY <1>3, <1>4, TailIs
<1>7. CASE k = Manager
  BY <1>1, <1>5, <1>6, <1>7
<1>8. CASE k = Proc
  <2>1. 1 \in DOMAIN todo[Proc] /\ todo[Proc][1] = i /\ DOMAIN todo[Proc] \subseteq Nat \ {0}
    BY <1>3, <1>4, <1>8
  <2>. QED
    BY <1>1, <1>5, <2>1
<1>. QED
  BY <1>7, <1>8, Alone

\* An entry gets the handle of n.
LEMMA EntrySet ==
    ASSUME IInv, Called, NEW x \in Names, NEW n \in Nodes, ref[n].desc # NIL,
           \A o \in Nodes: x \notin Holders(o),
           svc' = [svc EXCEPT ![x] = ref[n].desc], ref' = ref
    PROVE  /\ Holders(n)' = Holders(n) \cup {x}
           /\ Cardinality(Holders(n)') = Cardinality(Holders(n)) + 1
           /\ \A o \in Nodes: o # n => Holders(o)' = Holders(o)
           /\ svc' \in [Names -> Handles \cup {0}]
<1>1. /\ svc'[x] = ref[n].desc /\ ref[n].desc # 0 /\ svc' \in [Names -> Handles \cup {0}]
      /\ \A y \in Names: y # x => svc'[y] = svc[y]
  BY NamedIs, Alone DEF Called
<1>2. \A o \in Nodes: ref[o].desc = ref[n].desc => o = n
  BY DEF IInv, Counts
<1>3. /\ Holders(n)' = Holders(n) \cup {x} /\ x \notin Holders(n)
      /\ \A o \in Nodes: o # n => Holders(o)' = Holders(o)
  BY <1>1, <1>2 DEF Holders
<1>4. Cardinality(Holders(n) \cup {x}) = Cardinality(Holders(n)) + 1
  BY <1>3, HoldersFinite, FS_AddElement
<1>. QED
  BY <1>1, <1>3, <1>4

LEMMA ServeInv ==
    ASSUME MInv, Serve
    PROVE  MInv'
<1>1. PICK m \in Msgs: m = Next1(Manager)
  BY DEF Serve, ReadMsg
<1>2. PICK n \in Nodes \cup {NIL}: n = msg[m].node
  BY Shape DEF MInv, Msg
<1>3. /\ at = "loop" /\ ReadMsg(Manager) /\ job' = m /\ call' = call
      /\ at' = IF n = NIL THEN "reply" ELSE First(call[m])
      /\ svc' = IF at' = "acquire" THEN [svc EXCEPT ![call[m]] = ref[n].desc] ELSE svc
      /\ msg' = [msg EXCEPT ![m].st = "held", ![m].by = Manager] /\ todo' = Taken(Manager)
      /\ UNCHANGED <<alive, ref, death, delivered>>
  BY <1>1, <1>2 DEF Serve, ReadMsg
<1>4. IInv /\ Served /\ Posted /\ Called /\ Kept /\ Uncleared /\ m \in Items
  BY DEF MInv, Items
<1>5. IInv'
  BY <1>3, <1>4, Alone, StepInv DEF Next, Read
<1>6. /\ msg'[m].st = "held" /\ msg'[m].node = n
      /\ \A k \in Msgs: msg'[k].node = msg[k].node /\ (k # m => msg'[k] = msg[k])
  BY <1>2, <1>3, <1>4, Shape DEF Msg
<1>7. /\ \A l \in Lists: Range(todo'[l]) = Range(todo[l]) \ {m}
      /\ \A k, d: Before(todo[Proc], k, d) => Before(todo'[Proc], k, d)
      /\ \E l \in Lists: m \in Range(todo[l])
  BY <1>1, <1>3, <1>4, FirstIs
<1>8. msg[m].st = "queued"
  BY <1>4, <1>7 DEF IInv, Messages
<1>9. \A o \in Nodes: Carriers(o)' = Carriers(o) /\ Pending(o) = 0
  BY <1>3, <1>6 DEF Carriers, Pending
<1>10. /\ at' \in {"reply", "override", "acquire"}
       /\ n = NIL <=> at' = "reply"
       /\ at' = "override" => svc[call[m]] # 0
       /\ at' = "acquire" => svc[call[m]] = 0
       /\ n # NIL => call[m] \in NamesOf[n] /\ call[m] \in Names /\ ref[n].desc # NIL
  <2>1. n # NIL => call[m] \in NamesOf[n] /\ NamesOf[n] \subseteq Names /\ ref[n].desc # NIL
    BY <1>2, <1>4, CarriedIs, ManagerNamesOf DEF Called
  <2>. QED
    BY <1>3, <2>1 DEF First
<1>11. /\ svc' \in [Names -> Handles \cup {0}]
       /\ at' = "acquire" => svc'[call[m]] = ref[n].desc
       /\ \A o \in Nodes:
            IF at' = "acquire" /\ o = n
            THEN /\ Holders(o)' = Holders(o) \cup {call[m]}
                 /\ Cardinality(Holders(o)') = Cardinality(Holders(o)) + 1
            ELSE Holders(o)' = Holders(o)
  <2>1. CASE at' = "acquire"
    <3>1. n \in Nodes /\ \A o \in Nodes: call[m] \notin Holders(o)
      BY <1>10, <2>1 DEF Holders
    <3>2. svc' = [svc EXCEPT ![call[m]] = ref[n].desc] /\ ref' = ref
      BY <1>3, <2>1
    <3>3. svc'[call[m]] = ref[n].desc
      BY <1>4, <1>10, <2>1, <3>2 DEF Called
    <3>. QED
      BY <1>4, <1>10, <2>1, <3>1, <3>2, <3>3, EntrySet
  <2>2. CASE at' # "acquire"
    BY <1>3, <1>4, <2>2 DEF Holders, Called
  <2>. QED
    BY <2>1, <2>2
<1>12. Served'
  <2>1. \A k \in Msgs: msg'[k].st = "held" => k = m
    BY <1>3, <1>4, <1>6 DEF Served
  <2>2. at' = "override" => svc'[call'[m]] # 0
    BY <1>3, <1>10
  <2>. QED
    BY <1>3, <1>6, <1>10, <1>11, <2>1, <2>2, Alone DEF Served
<1>13. Posted' /\ Uncleared' /\ Cause'
  <2>1. \A k \in Msgs: msg'[k].st = "queued" => k # m /\ msg[k].st = "queued"
    BY <1>6
  <2>. QED
    BY <1>3, <1>4, <1>7, <1>10, <2>1, Alone DEF Posted, Uncleared, Cause
<1>14. Called'
  <2>1. \A o \in Nodes: Holders(o)' \subseteq NamesOf[o]
    BY <1>4, <1>10, <1>11 DEF Called
  <2>2. \A k \in Msgs: msg'[k].node # NIL => call'[k] \in NamesOf[msg'[k].node]
    BY <1>3, <1>4, <1>6 DEF Called
  <2>. QED
    BY <1>3, <1>4, <1>11, <2>1, <2>2 DEF Called
<1>15. \A o \in Nodes: Pending(o)' = IF at' = "acquire" /\ o = n THEN 1 ELSE 0
  BY <1>3, <1>6 DEF Pending
<1>16. Kept'
  <2>1. ASSUME NEW y \in Names, svc'[y] # 0 PROVE \E q \in Nodes: ref'[q].desc = svc'[y]
    <3>1. CASE at' = "acquire" /\ y = call[m]
      BY <1>3, <1>10, <1>11, <3>1, Alone
    <3>2. CASE ~(at' = "acquire" /\ y = call[m])
      <4>1. svc'[y] = svc[y]
        BY <1>3, <1>4, <3>2 DEF Called
      <4>. QED
        BY <1>3, <1>4, <2>1, <4>1 DEF Kept
    <3>. QED
      BY <3>1, <3>2
  <2>2. ASSUME NEW o \in Nodes
        PROVE  ref'[o].count + Pending(o)' = Cardinality(Holders(o)') + Cardinality(Carriers(o)')
    <3>1. /\ ref[o].count \in Nat /\ Cardinality(Holders(o)) \in Nat
          /\ Cardinality(Carriers(o)) \in Nat
      BY <1>4, Shape, HoldersFinite, CarriersFinite DEF Ref
    <3>2. ref[o].count = Cardinality(Holders(o)) + Cardinality(Carriers(o))
      BY <1>4, <1>9, <3>1 DEF Kept
    <3>. QED
      BY <1>3, <1>9, <1>11, <1>15, <3>1, <3>2
  <2>. QED
    BY <2>1, <2>2 DEF Kept
<1>17. ASSUME NEW o \in Plain PROVE Heeded(o)'
  <2>1. o \in Nodes /\ Heeded(o)
    BY PlainIs DEF MInv
  <2>2. ref[o].death # NIL => ref[o].death \in Deaths
    BY <1>4, <2>1, Shape DEF Ref
  <2>3. Steady(o)
    BY <1>3, <1>7, <2>2, Alone DEF Steady
  <2>4. \A l \in Lists: NIL \notin Range(todo'[l])
    BY <1>4, <1>7, NothingNamed
  <2>5. Holders(o)' # {} /\ ref'[o].death = NIL
          => at' \in {"acquire", "link"} /\ msg'[job'].node = o
    BY <1>3, <1>6, <1>11, <2>1 DEF Heeded
  <2>6. \A k \in Carriers(o)': k \in Carriers(o) /\ (msg'[k].st = "queued" => msg[k].st = "queued")
    BY <1>6, <1>8, <1>9, <2>1 DEF Carriers
  <2>. QED
    BY <1>3, <1>7, <2>1, <2>3, <2>4, <2>5, <2>6, HeedKept
<1>. QED
  BY <1>5, <1>12, <1>13, <1>14, <1>16, <1>17 DEF MInv

-------------------------------------------------------------------------------
(* Commands *)

LEMMA AcquireNewInv ==
    ASSUME MInv, AcquireNew
    PROVE  MInv'
<1>1. /\ at = "acquire" /\ at' = "link" /\ UNCHANGED <<svc, call, job>>
      /\ Told(svc[call[job]], Acquire(svc[call[job]]))
  BY DEF AcquireNew
<1>2. IInv /\ Served /\ Posted /\ Called /\ Kept /\ Uncleared
  BY DEF MInv
<1>3. PICK n \in Nodes: n = msg[job].node /\ job \in Msgs /\ svc[call[job]] = ref[n].desc
  BY <1>1, <1>2 DEF Served
<1>4. Named(ref[n].desc) = {n} /\ ref[n].desc \in Handles /\ ref[n].desc # NIL
  BY <1>2, <1>3, CarriedIs, NamedIs
<1>5. Acquire(ref[n].desc)
  BY <1>1, <1>3, <1>4 DEF Told
<1>6. /\ ref' = [ref EXCEPT ![n].count = @ + 1]
      /\ UNCHANGED <<alive, death, msg, todo, delivered>>
  BY <1>4, <1>5 DEF Acquire
<1>7. IInv'
  BY <1>2, <1>4, <1>5, AcquireInv
<1>8. /\ ref[n].count \in Nat /\ ref'[n].count = ref[n].count + 1
      /\ \A o \in Nodes: /\ ref'[o].desc = ref[o].desc /\ ref'[o].death = ref[o].death
                         /\ o # n => ref'[o] = ref[o]
  BY <1>2, <1>6, Shape DEF Ref
<1>9. \A o \in Nodes: /\ Carriers(o)' = Carriers(o) /\ Holders(o)' = Holders(o)
                      /\ Pending(o)' = 0 /\ Pending(o) = IF o = n THEN 1 ELSE 0
  BY <1>1, <1>3, <1>6, <1>8 DEF Carriers, Holders, Pending
<1>10. Served' /\ Posted' /\ Uncleared' /\ Cause'
  BY <1>1, <1>2, <1>3, <1>6, <1>8 DEF Served, Posted, Uncleared, Cause
<1>11. Called'
  BY <1>1, <1>2, <1>6, <1>8, <1>9 DEF Called
<1>12. Kept'
  <2>1. ASSUME NEW o \in Nodes
        PROVE  ref'[o].count + Pending(o)' = Cardinality(Holders(o)') + Cardinality(Carriers(o)')
    <3>1. ref[o].count \in Nat /\ ref[o].count + Pending(o)
                                    = Cardinality(Holders(o)) + Cardinality(Carriers(o))
      BY <1>2, Shape DEF Kept, Ref
    <3>2. ref'[o].count = ref[o].count + (IF o = n THEN 1 ELSE 0)
      BY <1>8, <3>1
    <3>. QED
      BY <1>9, <3>1, <3>2
  <2>. QED
    BY <1>1, <1>2, <1>8, <2>1 DEF Kept
<1>13. ASSUME NEW o \in Plain PROVE Heeded(o)'
  BY <1>1, <1>6, <1>8, <1>9, PlainIs DEF MInv, Heeded, Ahead
<1>. QED
  BY <1>7, <1>10, <1>11, <1>12, <1>13 DEF MInv

\* The handle of an entry is released.
LEMMA LetGo ==
    ASSUME MInv, NEW x \in Names, svc[x] # 0, at \in {"override", "died"},
           Told(svc[x], Release(svc[x]))
    PROVE  \E n \in Nodes:
             /\ x \in Holders(n) /\ svc[x] = ref[n].desc /\ svc[x] # NIL
             /\ svc[x] \in Handles /\ Took(svc[x]) /\ Release(svc[x])
             /\ IInv' /\ (\A o \in Nodes: Steady(o)) /\ Settled
             /\ UNCHANGED <<alive, msg>>
             /\ \A e \in Deaths: death'[e].type = death[e].type \/ death'[e].type = "free"
             /\ \A o \in Nodes: o # n => ref'[o] = ref[o]
             /\ ref[n].count = 1 =>
                  ref'[n] = NoRef /\ Holders(n) = {x} /\ Carriers(n) = {}
             /\ ref[n].count # 1 =>
                  /\ ref'[n].desc = ref[n].desc /\ ref'[n].death = ref[n].death
                  /\ ref'[n].count = ref[n].count - 1
<1>1. IInv /\ Called /\ Kept
  BY DEF MInv
<1>2. PICK n \in Nodes: /\ Named(svc[x]) = {n} /\ svc[x] = ref[n].desc /\ svc[x] \in Handles
                        /\ x \in Holders(n)
  BY <1>1, EntryNamed
<1>3. Release(svc[x])
  BY <1>2 DEF Told
<1>4. Uncount(n) /\ UNCHANGED <<open, alive, msg, looper, bug>>
  BY <1>2, <1>3 DEF Release
<1>5. /\ ref[n].count = Cardinality(Holders(n)) + Cardinality(Carriers(n))
      /\ Cardinality(Holders(n)) \in Nat /\ Cardinality(Carriers(n)) \in Nat
      /\ ref[n].count \in Nat
  <2>1. Pending(n) = 0
    BY DEF Pending
  <2>2. ref[n].count \in Nat
    BY <1>1, Shape DEF Ref
  <2>. QED
    BY <1>1, <2>1, <2>2, HoldersFinite, CarriersFinite DEF Kept
<1>6. Cardinality(Holders(n)) # 0
  BY <1>2, HoldersFinite, FS_EmptySet
<1>7. ref[n].count >= 1 /\ ref[n].count > Cardinality(Carriers(n))
  BY <1>5, <1>6
<1>8. IInv' /\ Took(svc[x])
  <2>1. Took(svc[x])
    BY <1>2, <1>7 DEF Took, Carriers
  <2>. QED
    BY <1>1, <1>2, <1>3, <2>1, ReleaseInv
<1>9. ref[n].count = 1 => Holders(n) = {x} /\ Carriers(n) = {}
  <2>1. ASSUME ref[n].count = 1
        PROVE  Cardinality(Holders(n)) = 1 /\ Cardinality(Carriers(n)) = 0
    BY <1>5, <1>6, <2>1
  <2>2. \A S: IsFiniteSet(S) /\ Cardinality(S) = 1 => \E y: S = {y}
    BY FS_Singleton
  <2>3. \A S: IsFiniteSet(S) /\ Cardinality(S) = 0 => S = {}
    BY FS_EmptySet
  <2>4. IsFiniteSet(Holders(n)) /\ IsFiniteSet(Carriers(n))
    BY HoldersFinite, CarriersFinite
  <2>. QED
    BY <1>2, <2>1, <2>2, <2>3, <2>4
<1>. QED
  BY <1>1, <1>2, <1>3, <1>4, <1>7, <1>8, <1>9, Alone, UncountDoes

\* An entry that is emptied, or overwritten by a handle of another service.
LEMMA EntryLess ==
    ASSUME IInv, NEW x \in Names, NEW n \in Nodes, x \in Holders(n),
           svc' \in [Names -> Handles \cup {0}],
           \A y \in Names: y # x => svc'[y] = svc[y], svc'[x] # ref[n].desc,
           ref'[n].desc = ref[n].desc
    PROVE  /\ Holders(n)' = Holders(n) \ {x}
           /\ Cardinality(Holders(n)') = Cardinality(Holders(n)) - 1
<1>1. Holders(n)' = Holders(n) \ {x}
  BY DEF Holders
<1>2. Cardinality(Holders(n) \ {x}) = Cardinality(Holders(n)) - 1
  BY HoldersFinite, FS_RemoveElement
<1>. QED
  BY <1>1, <1>2

\* No entry has the handle of a reference that is gone.
LEMMA NoHolder ==
    ASSUME NEW n, svc' \in [Names -> Handles \cup {0}], ref'[n] = NoRef
    PROVE  Holders(n)' = {} /\ Cardinality(Holders(n)') = 0 /\ ref'[n].count = 0
<1>1. Holders(n)' = {}
  BY Alone DEF Holders, NoRef
<1>. QED
  BY <1>1, FS_EmptySet DEF NoRef

\* The service that a death is about to be handled for has the one entry.
LEMMA Doomed ==
    ASSUME MInv, NEW n \in Plain, at # "acquire", NEW x \in NamesOf[n], ref[n].desc # NIL,
           Carriers(n) = {}
    PROVE  Holders(n) = {x} /\ ref[n].count = 1 /\ svc[x] = ref[n].desc /\ svc[x] # 0
<1>1. n \in Nodes /\ IInv /\ Called /\ Kept
  BY PlainIs DEF MInv
<1>2. ref[n].count >= 1 /\ ref[n].count \in Nat
  BY <1>1, Shape DEF IInv, Counts, Ref
<1>3. Pending(n) = 0 /\ Cardinality(Carriers(n)) = 0
  BY FS_EmptySet DEF Pending
<1>4. ref[n].count = Cardinality(Holders(n)) /\ Cardinality(Holders(n)) \in Nat
  <2>1. ref[n].count + Pending(n) = Cardinality(Holders(n)) + Cardinality(Carriers(n))
    BY <1>1 DEF Kept
  <2>2. Cardinality(Holders(n)) \in Nat
    BY HoldersFinite
  <2>. QED
    BY <1>2, <1>3, <2>1, <2>2
<1>5. Holders(n) # {}
  BY <1>2, <1>4, FS_EmptySet
<1>6. Holders(n) \subseteq {x}
  BY <1>1, PlainIs DEF Called
<1>7. Holders(n) = {x}
  BY <1>5, <1>6
<1>. QED
  BY <1>4, <1>7, FS_Singleton DEF Holders

LEMMA OverrideInv ==
    ASSUME MInv, Override
    PROVE  MInv'
<1>. DEFINE x == call[job]
            k == msg[job].node
<1>1. /\ at = "override" /\ at' = "acquire" /\ UNCHANGED <<call, job>>
      /\ Told(svc[x], Release(svc[x])) /\ svc' = [svc EXCEPT ![x] = ref[k].desc]
  BY DEF Override
<1>2. IInv /\ Served /\ Posted /\ Called /\ Kept /\ Uncleared
  BY DEF MInv
<1>3. /\ job \in Msgs /\ k \in Nodes /\ svc[x] # 0 /\ x \in NamesOf[k] /\ x \in Names
      /\ ref[k].desc \in Handles /\ ref[k].desc # NIL /\ Cardinality(Carriers(k)) >= 1
      /\ job \in Carriers(k)
  <2>1. job \in Msgs /\ k \in Nodes /\ svc[x] # 0
    BY <1>1, <1>2 DEF Served
  <2>2. x \in NamesOf[k] /\ x \in Names
    BY <1>2, <2>1, Alone, ManagerNamesOf DEF Called
  <2>. QED
    BY <1>2, <2>1, <2>2, CarriedIs DEF Carriers
<1>. HIDE DEF x, k
<1>4. PICK n \in Nodes:
             /\ x \in Holders(n) /\ svc[x] = ref[n].desc /\ svc[x] # NIL
             /\ IInv' /\ (\A o \in Nodes: Steady(o)) /\ Settled
             /\ UNCHANGED <<alive, msg>>
             /\ \A e \in Deaths: death'[e].type = death[e].type \/ death'[e].type = "free"
             /\ \A o \in Nodes: o # n => ref'[o] = ref[o]
             /\ ref[n].count = 1 =>
                  ref'[n] = NoRef /\ Holders(n) = {x} /\ Carriers(n) = {}
             /\ ref[n].count # 1 =>
                  /\ ref'[n].desc = ref[n].desc /\ ref'[n].death = ref[n].death
                  /\ ref'[n].count = ref[n].count - 1
  BY <1>1, <1>3, <1>2, LetGo
<1>5. /\ svc' \in [Names -> Handles \cup {0}] /\ svc'[x] = ref[k].desc /\ ref[k].desc # 0
      /\ \A y \in Names: y # x => svc'[y] = svc[y]
  BY <1>1, <1>2, <1>3, Alone DEF Called
<1>6. \A o \in Nodes: /\ Carriers(o)' = Carriers(o) /\ Pending(o) = 0
                      /\ Pending(o)' = IF o = k THEN 1 ELSE 0
                      /\ ref[o].desc = ref[n].desc => o = n
                      /\ ref[o].desc = ref[k].desc => o = k
  <2>1. \A o \in Nodes: Carriers(o)' = Carriers(o) /\ Pending(o) = 0
                        /\ Pending(o)' = IF o = k THEN 1 ELSE 0
    BY <1>1, <1>4 DEF Carriers, Pending, k
  <2>2. \A o \in Nodes: /\ ref[o].desc = ref[n].desc => o = n
                        /\ ref[o].desc = ref[k].desc => o = k
    BY <1>2, <1>3, <1>4 DEF IInv, Counts
  <2>. QED
    BY <2>1, <2>2
\* The reference of k stays: the call that is served carries it.
<1>7. ref'[k].desc = ref[k].desc /\ (k = n => ref[n].count # 1)
  BY <1>3, <1>4
<1>8. ASSUME NEW o \in Nodes
      PROVE  /\ ref'[o].count + Pending(o)' = Cardinality(Holders(o)') + Cardinality(Carriers(o)')
             /\ Holders(o)' \subseteq Holders(o) \cup (IF o = k THEN {x} ELSE {})
             /\ ref'[o].death = NIL /\ Holders(o)' # {} /\ o # k =>
                  ref[o].death = NIL /\ Holders(o) # {}
  <2>1. /\ ref[o].count \in Nat /\ Cardinality(Holders(o)) \in Nat
        /\ Cardinality(Carriers(o)) \in Nat
        /\ ref[o].count = Cardinality(Holders(o)) + Cardinality(Carriers(o))
    <3>1. /\ ref[o].count \in Nat /\ Cardinality(Holders(o)) \in Nat
          /\ Cardinality(Carriers(o)) \in Nat
      BY <1>2, Shape, HoldersFinite, CarriersFinite DEF Ref
    <3>2. ref[o].count + Pending(o) = Cardinality(Holders(o)) + Cardinality(Carriers(o))
      BY <1>2 DEF Kept
    <3>. QED
      BY <1>6, <3>1, <3>2
  <2>2. CASE k = n
    <3>1. ref'[o].desc = ref[o].desc /\ svc' = svc
      BY <1>1, <1>2, <1>4, <1>7, <2>2 DEF Called
    <3>2. Holders(o)' = Holders(o)
      BY <3>1 DEF Holders
    <3>. QED
      BY <1>4, <1>6, <1>7, <2>1, <2>2, <3>2
  <2>3. CASE k # n /\ o = k
    <3>1. x \notin Holders(o) /\ ref'[o] = ref[o]
      BY <1>4, <1>6, <2>3 DEF Holders
    <3>2. Holders(o)' = Holders(o) \cup {x}
      BY <1>3, <1>5, <2>3, <3>1 DEF Holders
    <3>3. Cardinality(Holders(o) \cup {x}) = Cardinality(Holders(o)) + 1
      BY <3>1, HoldersFinite, FS_AddElement
    <3>. QED
      BY <1>6, <2>1, <2>3, <3>1, <3>2, <3>3
  <2>4. CASE k # n /\ o = n /\ ref[n].count = 1
    <3>1. Holders(o)' = {} /\ Cardinality(Holders(o)') = 0 /\ ref'[o].count = 0
          /\ Cardinality(Carriers(o)) = 0
      BY <1>4, <1>5, <2>4, NoHolder, FS_EmptySet
    <3>. QED
      BY <1>6, <2>4, <3>1
  <2>5. CASE k # n /\ o = n /\ ref[n].count # 1
    <3>1. svc'[x] # ref[n].desc
      BY <1>5, <1>6, <2>5
    <3>2. /\ Holders(n)' = Holders(n) \ {x}
          /\ Cardinality(Holders(n)') = Cardinality(Holders(n)) - 1
      BY <1>2, <1>3, <1>4, <1>5, <2>5, <3>1, EntryLess
    <3>. QED
      BY <1>4, <1>6, <2>1, <2>5, <3>2
  <2>6. CASE k # n /\ o # n /\ o # k
    <3>1. x \notin Holders(o) /\ ref'[o] = ref[o] /\ ref[k].desc # ref[o].desc
      BY <1>4, <1>6, <2>6 DEF Holders
    <3>2. Holders(o)' = Holders(o)
      BY <1>5, <3>1 DEF Holders
    <3>. QED
      BY <1>6, <2>1, <2>6, <3>1, <3>2
  <2>. QED
    BY <2>2, <2>3, <2>4, <2>5, <2>6
<1>9. Served'
  BY <1>1, <1>2, <1>3, <1>4, <1>5, <1>7 DEF Served, x, k
<1>10. Posted' /\ Uncleared' /\ Cause'
  BY <1>1, <1>2, <1>4, Alone DEF Posted, Uncleared, Cause, Settled
<1>11. Called'
  <2>1. \A o \in Nodes: Holders(o)' \subseteq NamesOf[o]
    BY <1>2, <1>3, <1>8 DEF Called
  <2>2. \A o \in Nodes: ref'[o].death # NIL => death'[ref'[o].death].cookie \in NamesOf[o]
    BY <1>2, <1>4 DEF Called, Steady
  <2>. QED
    BY <1>1, <1>2, <1>4, <1>5, <2>1, <2>2 DEF Called
<1>12. Kept'
  <2>1. ASSUME NEW y \in Names, svc'[y] # 0 PROVE \E q \in Nodes: ref'[q].desc = svc'[y]
    <3>1. CASE y = x
      BY <1>3, <1>5, <1>7, <3>1
    <3>2. CASE y # x
      <4>1. PICK q \in Nodes: ref[q].desc = svc[y] /\ svc'[y] = svc[y]
        BY <1>2, <1>5, <2>1, <3>2 DEF Kept
      <4>2. q = n => ref[n].count # 1
        BY <1>4, <1>5, <2>1, <3>2, <4>1 DEF Holders
      <4>. QED
        BY <1>4, <4>1, <4>2
    <3>. QED
      BY <3>1, <3>2
  <2>. QED
    BY <1>8, <2>1 DEF Kept
<1>13. ASSUME NEW o \in Plain PROVE Heeded(o)'
  <2>1. o \in Nodes /\ Heeded(o)
    BY PlainIs DEF MInv
  <2>2. \A l \in Lists: NIL \notin Range(todo'[l])
    BY <1>4, NothingNamedNext
  <2>3. Holders(o)' # {} /\ ref'[o].death = NIL
          => at' \in {"acquire", "link"} /\ msg'[job'].node = o
    BY <1>1, <1>4, <1>8, <2>1 DEF Heeded, k
  <2>. QED
    BY <1>1, <1>4, <1>6, <2>1, <2>2, <2>3, HeedKept DEF Settled
<1>. QED
  BY <1>4, <1>9, <1>10, <1>11, <1>12, <1>13 DEF MInv

\* The death of the service in the cookie is handled.
LEMMA SvcinfoDeathInv ==
    ASSUME MInv, SvcinfoDeath
    PROVE  MInv'
<1>1. /\ at = "died" /\ at' = "loop" /\ svc' = [svc EXCEPT ![job] = 0] /\ call' = call
      /\ IF svc[job] = 0 THEN UNCHANGED vars ELSE Told(svc[job], Release(svc[job]))
  BY DEF SvcinfoDeath
<1>2. IInv /\ Served /\ Posted /\ Called /\ Kept /\ Uncleared /\ job \in Names
  BY <1>1 DEF MInv, Served
<1>. DEFINE x == job
<1>3. /\ svc' \in [Names -> Handles \cup {0}] /\ svc'[x] = 0
      /\ \A y \in Names: y # x => svc'[y] = svc[y]
  BY <1>1, <1>2 DEF Called
<1>4. PICK n \in Nodes \cup {NIL}:
             /\ IInv' /\ (\A o \in Nodes: Steady(o)) /\ Settled
             /\ UNCHANGED <<alive, msg>>
             /\ \A e \in Deaths: death'[e].type = death[e].type \/ death'[e].type = "free"
             /\ \A o \in Nodes: o # n => ref'[o] = ref[o]
             /\ n = NIL => svc[x] = 0
             /\ n # NIL =>
                  /\ svc[x] # 0 /\ svc[x] # NIL /\ x \in Holders(n) /\ svc[x] = ref[n].desc
                  /\ ref[n].count = 1 =>
                       ref'[n] = NoRef /\ Holders(n) = {x} /\ Carriers(n) = {}
                  /\ ref[n].count # 1 =>
                       /\ ref'[n].desc = ref[n].desc /\ ref'[n].death = ref[n].death
                       /\ ref'[n].count = ref[n].count - 1
  <2>1. CASE svc[x] = 0
    <3>1. UNCHANGED vars
      BY <1>1, <2>1
    <3>2. IInv'
      BY <1>2, <3>1, StepInv
    <3>3. UNCHANGED <<alive, msg, death, ref, todo>>
      BY <3>1 DEF vars
    <3>4. (\A o \in Nodes: Steady(o)) /\ Settled
      BY <3>3 DEF Steady, Settled
    <3>. QED
      BY <2>1, <3>2, <3>3, <3>4
  <2>2. CASE svc[x] # 0
    BY <1>1, <1>2, <2>2, LetGo, Alone
  <2>. QED
    BY <2>1, <2>2
<1>. HIDE DEF x
<1>5. \A o \in Nodes: /\ Carriers(o)' = Carriers(o) /\ Pending(o) = 0 /\ Pending(o)' = 0
                      /\ n # NIL /\ ref[o].desc = ref[n].desc => o = n
  <2>1. \A o \in Nodes: Carriers(o)' = Carriers(o) /\ Pending(o) = 0 /\ Pending(o)' = 0
    BY <1>1, <1>4 DEF Carriers, Pending
  <2>2. \A o \in Nodes: n # NIL /\ ref[o].desc = ref[n].desc => o = n
    BY <1>2, <1>4 DEF IInv, Counts
  <2>. QED
    BY <2>1, <2>2
<1>6. ASSUME NEW o \in Nodes
      PROVE  /\ ref'[o].count = Cardinality(Holders(o)') + Cardinality(Carriers(o)')
             /\ Holders(o)' \subseteq Holders(o)
             /\ ref'[o].death = NIL /\ Holders(o)' # {} => ref[o].death = NIL
  <2>1. /\ ref[o].count \in Nat /\ Cardinality(Holders(o)) \in Nat
        /\ Cardinality(Carriers(o)) \in Nat
        /\ ref[o].count = Cardinality(Holders(o)) + Cardinality(Carriers(o))
    <3>1. /\ ref[o].count \in Nat /\ Cardinality(Holders(o)) \in Nat
          /\ Cardinality(Carriers(o)) \in Nat
      BY <1>2, Shape, HoldersFinite, CarriersFinite DEF Ref
    <3>2. ref[o].count + Pending(o) = Cardinality(Holders(o)) + Cardinality(Carriers(o))
      BY <1>2 DEF Kept
    <3>. QED
      BY <1>5, <3>1, <3>2
  <2>2. CASE o = n /\ ref[n].count = 1
    <3>1. Holders(o)' = {} /\ Cardinality(Holders(o)') = 0 /\ ref'[o].count = 0
          /\ Cardinality(Carriers(o)) = 0
      BY <1>3, <1>4, <2>2, NoHolder, FS_EmptySet, Alone
    <3>. QED
      BY <1>5, <2>2, <3>1
  <2>3. CASE o = n /\ ref[n].count # 1
    <3>1. /\ n \in Nodes /\ n # NIL /\ x \in Names /\ svc'[x] # ref[n].desc
          /\ ref'[n].desc = ref[n].desc
      BY <1>2, <1>3, <1>4, <2>3, Alone DEF x
    <3>2. /\ Holders(n)' = Holders(n) \ {x}
          /\ Cardinality(Holders(n)') = Cardinality(Holders(n)) - 1
      BY <1>2, <1>3, <1>4, <3>1, EntryLess
    <3>. QED
      BY <1>4, <1>5, <2>1, <2>3, <3>1, <3>2
  <2>4. CASE o # n
    <3>1. x \notin Holders(o) /\ ref'[o] = ref[o]
      BY <1>4, <1>5, <2>4 DEF Holders
    <3>2. Holders(o)' = Holders(o)
      BY <1>3, <3>1 DEF Holders
    <3>. QED
      BY <1>5, <2>1, <3>1, <3>2
  <2>. QED
    BY <2>2, <2>3, <2>4
<1>7. Served' /\ Posted' /\ Uncleared' /\ Cause'
  BY <1>1, <1>2, <1>4, Alone DEF Served, Posted, Uncleared, Cause, Settled
<1>8. Called'
  <2>1. \A o \in Nodes: Holders(o)' \subseteq NamesOf[o]
    BY <1>2, <1>6 DEF Called
  <2>2. \A o \in Nodes: ref'[o].death # NIL => death'[ref'[o].death].cookie \in NamesOf[o]
    BY <1>2, <1>4 DEF Called, Steady
  <2>. QED
    BY <1>1, <1>2, <1>3, <1>4, <2>1, <2>2 DEF Called
<1>9. Kept'
  <2>1. ASSUME NEW y \in Names, svc'[y] # 0 PROVE \E q \in Nodes: ref'[q].desc = svc'[y]
    <3>1. y # x
      BY <1>3, <2>1
    <3>2. PICK q \in Nodes: ref[q].desc = svc[y] /\ svc'[y] = svc[y]
      BY <1>2, <1>3, <2>1, <3>1 DEF Kept
    <3>3. q = n => ref[n].count # 1
      BY <1>3, <1>4, <2>1, <3>1, <3>2, Alone DEF Holders
    <3>. QED
      BY <1>4, <3>2, <3>3, Alone
  <2>. QED
    BY <1>5, <1>6, <2>1, HoldersFinite, CarriersFinite DEF Kept
<1>10. ASSUME NEW o \in Plain PROVE Heeded(o)'
  <2>1. o \in Nodes /\ Heeded(o)
    BY PlainIs DEF MInv
  <2>2. \A l \in Lists: NIL \notin Range(todo'[l])
    BY <1>4, NothingNamedNext
  <2>3. Holders(o)' = {} \/ ref'[o].death # NIL
    BY <1>1, <1>6, <2>1 DEF Heeded
  <2>4. ASSUME at = "died", x \in NamesOf[o], Carriers(o) = {}
        PROVE  ref'[o].death = NIL
    <3>1. CASE ref[o].desc = NIL
      <4>1. ref[o] = NoRef
        BY <1>2, <2>1, <3>1 DEF IInv, Counts
      <4>2. o # n
        BY <1>4, <2>1, <3>1, Alone
      <4>. QED
        BY <1>4, <2>1, <4>1, <4>2 DEF NoRef
    <3>2. CASE ref[o].desc # NIL
      <4>1. ref[o].count = 1 /\ svc[x] = ref[o].desc /\ svc[x] # 0
        BY <1>1, <2>4, <3>2, Doomed
      <4>2. o = n
        BY <1>4, <1>5, <2>1, <4>1
      <4>. QED
        BY <1>4, <4>1, <4>2, Alone DEF NoRef
    <3>. QED
      BY <3>1, <3>2
  <2>. QED
    <3>1. at = "died" /\ job \in NamesOf[o] /\ Carriers(o) = {} /\ o \notin alive
            => ref'[o].death = NIL
      BY <2>4 DEF x
    <3>2. \A m, d: Before(todo[Proc], m, d) => Before(todo'[Proc], m, d)
      BY <1>4 DEF Settled
    <3>3. Steady(o) /\ (o \in alive' <=> o \in alive)
          /\ \A m \in Carriers(o)': m \in Carriers(o) /\ (msg'[m].st = "queued" => msg[m].st = "queued")
      BY <1>4, <1>5, <2>1
    <3>. QED
      BY <2>1, <2>2, <2>3, <3>1, <3>2, <3>3, HeedKept
<1>. QED
  BY <1>4, <1>7, <1>8, <1>9, <1>10 DEF MInv

\* A notification that is queued at the end of a list.
LEMMA QueuedLast ==
    ASSUME IInv, NEW d \in Deaths, NEW k \in Lists, todo' = [todo EXCEPT ![k] = Append(@, d)]
    PROVE  /\ \A l \in Lists: Range(todo'[l]) = Range(todo[l]) \cup (IF l = k THEN {d} ELSE {})
           /\ \A m \in Msgs, e \in Deaths: Before(todo[Proc], m, e) => Before(todo'[Proc], m, e)
<1>1. todo \in [Lists -> Seq(Items)] /\ d \in Items /\ todo[Proc] \in Seq(Items)
  BY Shape DEF Items
<1>2. /\ todo'[k] = Append(todo[k], d) /\ Range(todo'[k]) = Range(todo[k]) \cup {d}
      /\ \A l \in Lists: l # k => todo'[l] = todo[l]
  BY <1>1, AppendIs
<1>3. ASSUME NEW m \in Msgs, NEW e \in Deaths, Before(todo[Proc], m, e)
      PROVE  Before(todo'[Proc], m, e)
  <2>1. m # e /\ m # d
    BY Alone
  <2>2. CASE k = Proc
    BY <1>1, <1>2, <1>3, <2>1, <2>2, BeforeAppend
  <2>3. CASE k # Proc
    <3>1. todo'[Proc] = todo[Proc]
      BY <1>2, <2>3, Alone
    <3>. QED
      BY <1>3, <3>1
  <2>. QED
    BY <2>2, <2>3
<1>. QED
  BY <1>2, <1>3

LEMMA LinkInv ==
    ASSUME MInv, Link
    PROVE  MInv'
<1>. DEFINE k == msg[job].node
            c == call[job]
<1>1. /\ at = "link" /\ at' = "reply" /\ UNCHANGED <<svc, call, job>>
      /\ IF \A n \in Named(svc[c]): ref[n].death # NIL
         THEN UNCHANGED vars ELSE Request(Manager, svc[c], c)
  BY DEF Link
<1>2. IInv /\ Served /\ Posted /\ Called /\ Kept /\ Uncleared
  BY DEF MInv
<1>3. /\ job \in Msgs /\ k \in Nodes /\ svc[c] = ref[k].desc /\ msg[job].st = "held"
      /\ c \in NamesOf[k] /\ c \in Cookies /\ job \in Carriers(k)
  <2>1. job \in Msgs /\ k \in Nodes /\ svc[c] = ref[k].desc /\ msg[job].st = "held"
    BY <1>1, <1>2 DEF Served
  <2>2. c \in NamesOf[k] /\ NamesOf[k] \subseteq Names
    BY <1>2, <2>1, Alone, ManagerNamesOf DEF Called
  <2>. QED
    BY <2>1, <2>2 DEF Carriers, Names
<1>4. Named(svc[c]) = {k} /\ svc[c] \in Handles
  BY <1>2, <1>3, CarriedIs, NamedIs
<1>. HIDE DEF k, c
<1>5. CASE ref[k].death # NIL
  <2>1. UNCHANGED vars
    BY <1>1, <1>4, <1>5
  <2>2. IInv'
    BY <1>2, <2>1, StepInv
  <2>3. UNCHANGED <<alive, ref, death, msg, todo, delivered>>
    BY <2>1 DEF vars
  <2>4. \A o \in Nodes: /\ Carriers(o)' = Carriers(o) /\ Holders(o)' = Holders(o)
                        /\ Pending(o)' = 0 /\ Pending(o) = 0
    BY <1>1, <2>3 DEF Carriers, Holders, Pending
  <2>5. Served' /\ Posted' /\ Uncleared' /\ Cause'
    BY <1>1, <1>2, <1>3, <2>3 DEF Served, Posted, Uncleared, Cause
  <2>6. Called' /\ Kept'
    BY <1>1, <1>2, <2>3, <2>4 DEF Called, Kept
  <2>7. ASSUME NEW o \in Plain PROVE Heeded(o)'
    <3>1. Heeded(o) /\ (o = k => ref[o].death # NIL)
      BY <1>5 DEF MInv
    <3>. QED
      BY <1>1, <2>3, <2>4, <3>1, PlainIs DEF Heeded, Ahead, k
  <2>. QED
    BY <2>2, <2>5, <2>6, <2>7 DEF MInv
<1>6. CASE ref[k].death = NIL
  <2>1. Request(Manager, svc[c], c)
    BY <1>1, <1>4, <1>6
  <2>2. IInv'
    BY <1>2, <1>3, <1>4, <2>1, Alone, RequestInv
  <2>. DEFINE L == ListFor(Manager)
  <2>3. PICK d \in Unused:
           /\ ref' = [ref EXCEPT ![k].death = d]
           /\ IF k \in alive
              THEN /\ death' = [death EXCEPT ![d] = NewDeath(c)]
                   /\ UNCHANGED todo
              ELSE /\ death' = [death EXCEPT ![d] = [NewDeath(c) EXCEPT !.type = "dead"]]
                   /\ todo' = [todo EXCEPT ![L] = Append(@, d)]
           /\ UNCHANGED <<alive, msg, delivered>>
    BY <1>4, <2>1 DEF Request
  <2>4. d \in Deaths /\ death[d].type = "free"
    BY DEF Unused
  <2>5. d # NIL /\ L \in Lists
    BY <1>2, <2>4, Alone, Shape
  <2>. HIDE DEF L
  <2>6. /\ \A o \in Nodes: ref[o].death # d
        /\ \A l \in Lists: d \notin Range(todo[l])
    <3>1. Fate(d)
      BY <1>2, <2>4 DEF IInv
    <3>. QED
      BY <2>4, <3>1 DEF Fate, Owned, Queued
  <2>7. \A o \in Nodes: /\ ref'[o].desc = ref[o].desc /\ ref'[o].count = ref[o].count
                        /\ ref'[o].death = IF o = k THEN d ELSE ref[o].death
    BY <1>2, <1>3, <2>3, Shape DEF Ref
  <2>8. \A e \in Deaths: IF e = d THEN /\ death'[e].type \in {"armed", "dead"}
                                       /\ death'[e].cookie = c
                         ELSE death'[e] = death[e]
    <3>1. death \in [Deaths -> Death]
      BY <1>2, Shape
    <3>. QED
      BY <2>3, <2>4, <3>1, ZenonT(60) DEF NewDeath, NoDeath
  <2>9. /\ \A l \in Lists: /\ Range(todo[l]) \subseteq Range(todo'[l])
                           /\ Range(todo'[l]) \subseteq Range(todo[l]) \cup {d}
        /\ k \notin alive => d \in Range(todo'[L])
        /\ \A m \in Msgs, e \in Deaths: Before(todo[Proc], m, e) => Before(todo'[Proc], m, e)
    <3>1. CASE k \in alive
      BY <2>3, <3>1
    <3>2. CASE k \notin alive
      <4>1. todo' = [todo EXCEPT ![L] = Append(@, d)]
        BY <2>3, <3>2
      <4>2. /\ \A l \in Lists: Range(todo'[l]) = Range(todo[l]) \cup (IF l = L THEN {d} ELSE {})
            /\ \A m \in Msgs, e \in Deaths: Before(todo[Proc], m, e) => Before(todo'[Proc], m, e)
        BY <1>2, <2>4, <2>5, <4>1, QueuedLast
      <4>. QED
        BY <2>5, <4>2
    <3>. QED
      BY <3>1, <3>2
  <2>10. \A o \in Nodes: /\ Carriers(o)' = Carriers(o) /\ Holders(o)' = Holders(o)
                         /\ Pending(o)' = 0 /\ Pending(o) = 0
    BY <1>1, <2>3, <2>7 DEF Carriers, Holders, Pending
  <2>11. \A o \in Nodes: ref[o].death # NIL => ref[o].death \in Deaths /\ ref[o].death # d
    BY <1>2, <2>6, Shape DEF Ref
  <2>12. Served' /\ Posted' /\ Uncleared' /\ Cause'
    <3>1. Served' /\ Cause' /\ Posted'
      BY <1>1, <1>2, <1>3, <2>3, <2>9, Alone DEF Served, Cause, Posted
    <3>2. Uncleared'
      BY <1>2, <2>8 DEF Uncleared
    <3>. QED
      BY <3>1, <3>2
  <2>13. Called'
    <3>1. \A o \in Nodes: ref'[o].death # NIL => death'[ref'[o].death].cookie \in NamesOf[o]
      BY <1>2, <1>3, <2>4, <2>7, <2>8, <2>11 DEF Called
    <3>. QED
      BY <1>1, <1>2, <2>3, <2>10, <3>1 DEF Called
  <2>14. Kept'
    BY <1>1, <1>2, <2>7, <2>10 DEF Kept
  <2>15. ASSUME NEW o \in Plain PROVE Heeded(o)'
    <3>1. o \in Nodes /\ Heeded(o)
      BY PlainIs DEF MInv
    <3>2. CASE o = k
      <4>1. \A m \in Carriers(o)': m = job
        BY <1>3, <2>10, <3>1, <3>2 DEF Heeded
      <4>2. job \notin Range(todo'[Proc]) /\ msg'[job].st = "held"
        BY <1>3, <2>2, <2>3, Alone DEF IInv, Messages
      <4>3. Ahead(o)'
        <5>1. Before(todo'[Proc], job, ref'[o].death)
          BY <4>2 DEF Before, Range
        <5>. QED
          BY <4>1, <4>2, <5>1 DEF Ahead
      <4>4. \A m, j \in Carriers(o)': m = j
        BY <4>1
      <4>. QED
        BY <1>3, <2>3, <2>5, <2>7, <2>9, <3>2, <4>3, <4>4 DEF Heeded
    <3>3. CASE o # k
      <4>1. Steady(o)
        BY <2>7, <2>8, <2>9, <2>11, <3>1, <3>3 DEF Steady
      <4>2. \A l \in Lists: NIL \notin Range(todo'[l])
        BY <2>2, NothingNamedNext
      <4>3. \A m \in Carriers(o): Before(todo[Proc], m, ref[o].death) => Before(todo'[Proc], m, ref[o].death)
        <5>1. CASE ref[o].death = NIL
          BY <4>2, <5>1, Alone DEF Before, Range
        <5>2. CASE ref[o].death # NIL
          BY <2>9, <2>11, <3>1, <5>2 DEF Carriers
        <5>. QED
          BY <5>1, <5>2
      <4>4. ~(Holders(o)' # {} /\ ref'[o].death = NIL)
        BY <1>1, <2>7, <2>10, <3>1, <3>3 DEF Heeded, k
      <4>. QED
        BY <1>1, <2>3, <2>10, <3>1, <4>1, <4>2, <4>3, <4>4, HeedKept
    <3>. QED
      BY <3>2, <3>3
  <2>. QED
    BY <2>2, <2>12, <2>13, <2>14, <2>15 DEF MInv
<1>. QED
  BY <1>5, <1>6

LEMMA SendReplyInv ==
    ASSUME MInv, SendReply
    PROVE  MInv'
<1>1. /\ at = "reply" /\ at' = "loop" /\ svc' = svc /\ call' = [call EXCEPT ![job] = NIL]
      /\ Reply(Manager, job)
  BY DEF SendReply
<1>2. IInv /\ Served /\ Posted /\ Called /\ Kept /\ Uncleared
  BY DEF MInv
<1>3. PICK m \in Msgs: m = job
  BY <1>1, <1>2 DEF Served
<1>4. PICK n \in Nodes \cup {NIL}: n = msg[m].node
  BY <1>2, Shape DEF Msg
<1>5. /\ msg' = [msg EXCEPT ![m] = NoMsg] /\ alive' = alive
      /\ IF n = NIL THEN UNCHANGED <<ref, death, todo, delivered>> ELSE Uncount(n)
  BY <1>1, <1>3, <1>4 DEF Reply
<1>6. IInv'
  BY <1>1, <1>2, <1>3, Alone, ReplyInv
<1>7. /\ msg'[m].st = "free" /\ msg'[m].node = NIL
      /\ \A j \in Msgs: j # m => msg'[j] = msg[j]
      /\ call' \in [Msgs -> Names \cup {NIL}] /\ \A j \in Msgs: j # m => call'[j] = call[j]
  BY <1>1, <1>2, <1>3, <1>5, Shape DEF NoMsg, Called
<1>8. \A o \in Nodes: /\ Pending(o)' = 0 /\ Pending(o) = 0
                      /\ Carriers(o)' \subseteq Carriers(o)
                      /\ Cardinality(Carriers(o)')
                           = Cardinality(Carriers(o)) - (IF o = n THEN 1 ELSE 0)
  <2>1. \A o \in Nodes: Cardinality(Carriers(o)')
                          = Cardinality(Carriers(o)) - (IF o = n THEN 1 ELSE 0)
    BY <1>2, <1>4, <1>5, Shape, CarryLess
  <2>. QED
    BY <1>1, <1>7, <2>1, Alone DEF Pending, Carriers
<1>9. /\ (\A o \in Nodes: Steady(o)) /\ Settled
      /\ \A e \in Deaths: death'[e].type = death[e].type \/ death'[e].type = "free"
      /\ \A o \in Nodes: o # n => ref'[o] = ref[o]
      /\ n # NIL => IF ref[n].count = 1 THEN ref'[n] = NoRef
                    ELSE /\ ref'[n].desc = ref[n].desc /\ ref'[n].count = ref[n].count - 1
                         /\ ref'[n].death = ref[n].death
  <2>1. CASE n = NIL
    BY <1>5, <2>1, Alone DEF Steady, Settled
  <2>2. CASE n # NIL
    <3>1. n \in Nodes /\ ref[n].count >= 1 /\ Uncount(n)
      BY <1>2, <1>4, <1>5, <2>2, CarriedIs
    <3>. QED
      BY <1>2, <2>2, <3>1, UncountDoes
  <2>. QED
    BY <2>1, <2>2
\* Had an entry the handle as well, it would have a count too.
<1>10. n # NIL /\ ref[n].count = 1 => Holders(n) = {}
  <2>. SUFFICES ASSUME n # NIL, ref[n].count = 1 PROVE Holders(n) = {}
    OBVIOUS
  <2>1. /\ ref[n].count + Pending(n) = Cardinality(Holders(n)) + Cardinality(Carriers(n))
        /\ Pending(n) = 0 /\ Cardinality(Carriers(n)) >= 1
    BY <1>2, <1>4, <1>8, CarriedIs DEF Kept
  <2>2. Cardinality(Holders(n)) \in Nat /\ Cardinality(Carriers(n)) \in Nat
    BY HoldersFinite, CarriersFinite
  <2>3. Cardinality(Holders(n)) = 0
    BY <2>1, <2>2
  <2>. QED
    BY <2>3, HoldersFinite, FS_EmptySet
<1>11. ASSUME NEW o \in Nodes
       PROVE  /\ Holders(o)' = Holders(o)
              /\ ref'[o].count = Cardinality(Holders(o)') + Cardinality(Carriers(o)')
              /\ ref'[o].death = NIL /\ Holders(o)' # {} => ref[o].death = NIL
  <2>1. /\ ref[o].count \in Nat /\ Cardinality(Holders(o)) \in Nat
        /\ Cardinality(Carriers(o)) \in Nat
        /\ ref[o].count = Cardinality(Holders(o)) + Cardinality(Carriers(o))
    <3>1. /\ ref[o].count \in Nat /\ Cardinality(Holders(o)) \in Nat
          /\ Cardinality(Carriers(o)) \in Nat
      BY <1>2, Shape, HoldersFinite, CarriersFinite DEF Ref
    <3>2. ref[o].count + Pending(o) = Cardinality(Holders(o)) + Cardinality(Carriers(o))
      BY <1>2 DEF Kept
    <3>. QED
      BY <1>8, <3>1, <3>2
  <2>2. CASE o = n /\ ref[n].count = 1
    <3>1. Holders(o)' = {} /\ Cardinality(Holders(o)') = 0 /\ ref'[o].count = 0 /\ Holders(o) = {}
          /\ Cardinality(Holders(o)) = 0
      BY <1>1, <1>2, <1>9, <1>10, <2>2, NoHolder, FS_EmptySet, Alone DEF Called
    <3>. QED
      BY <1>8, <2>1, <2>2, <3>1
  <2>3. CASE ~(o = n /\ ref[n].count = 1)
    <3>1. /\ ref'[o].desc = ref[o].desc /\ ref'[o].death = ref[o].death
          /\ ref'[o].count = ref[o].count - (IF o = n THEN 1 ELSE 0)
      BY <1>9, <2>1, <2>3, Alone
    <3>2. Holders(o)' = Holders(o)
      BY <1>1, <3>1 DEF Holders
    <3>. QED
      BY <1>8, <2>1, <3>1, <3>2
  <2>. QED
    BY <2>2, <2>3
<1>12. Served' /\ Posted' /\ Uncleared' /\ Cause'
  <2>1. \A j \in Msgs: msg'[j].st # "held"
    BY <1>1, <1>2, <1>3, <1>7 DEF Served
  <2>2. Served' /\ Uncleared' /\ Cause'
    BY <1>1, <1>2, <1>9, <2>1 DEF Served, Uncleared, Cause
  <2>3. Posted'
    <3>1. \A j \in Msgs: msg'[j].st = "queued" => msg[j].st = "queued"
      BY <1>7
    <3>. QED
      BY <1>2, <1>9, <3>1, Alone DEF Posted, Settled
  <2>. QED
    BY <2>2, <2>3
<1>13. Called'
  <2>1. \A o \in Nodes: Holders(o)' \subseteq NamesOf[o]
    BY <1>2, <1>11 DEF Called
  <2>2. \A o \in Nodes: ref'[o].death # NIL => death'[ref'[o].death].cookie \in NamesOf[o]
    BY <1>2, <1>9 DEF Called, Steady
  <2>3. \A j \in Msgs: msg'[j].node # NIL => call'[j] \in NamesOf[msg'[j].node]
    BY <1>2, <1>7 DEF Called
  <2>. QED
    BY <1>1, <1>2, <1>7, <2>1, <2>2, <2>3 DEF Called
<1>14. Kept'
  <2>1. ASSUME NEW y \in Names, svc'[y] # 0 PROVE \E q \in Nodes: ref'[q].desc = svc'[y]
    <3>1. PICK q \in Nodes: ref[q].desc = svc[y] /\ svc'[y] = svc[y]
      BY <1>1, <1>2, <2>1 DEF Kept
    <3>2. q = n => ref[n].count # 1
      BY <1>10, <2>1, <3>1, Alone DEF Holders
    <3>. QED
      BY <1>9, <3>1, <3>2, Alone
  <2>2. \A o \in Nodes: ref'[o].count + Pending(o)'
                          = Cardinality(Holders(o)') + Cardinality(Carriers(o)')
    BY <1>8, <1>11, HoldersFinite, CarriersFinite
  <2>. QED
    BY <2>1, <2>2 DEF Kept
<1>15. ASSUME NEW o \in Plain PROVE Heeded(o)'
  <2>1. o \in Nodes /\ Heeded(o)
    BY PlainIs DEF MInv
  <2>2. \A l \in Lists: NIL \notin Range(todo'[l])
    BY <1>6, NothingNamedNext
  <2>3. ~(Holders(o)' # {} /\ ref'[o].death = NIL)
    BY <1>1, <1>11, <2>1 DEF Heeded
  <2>4. \A j \in Carriers(o)': j \in Carriers(o) /\ (msg'[j].st = "queued" => msg[j].st = "queued")
    BY <1>7, <1>8, <2>1 DEF Carriers
  <2>5. \A j \in Carriers(o): Before(todo[Proc], j, ref[o].death) => Before(todo'[Proc], j, ref[o].death)
    BY <1>9 DEF Settled
  <2>. QED
    BY <1>1, <1>5, <1>9, <2>1, <2>2, <2>3, <2>4, <2>5, HeedKept
<1>. QED
  BY <1>6, <1>12, <1>13, <1>14, <1>15 DEF MInv

-------------------------------------------------------------------------------
(* Deaths *)

\* What the driver reports is the death of a service that still has its
\* reference; if it is plain, its entry is the one in the cookie.
LEMMA ReportedIs ==
    ASSUME MInv, at = "loop", NEW d \in Deaths, Next1(Manager) = d, todo' = Taken(Manager),
           death[d].type \in {"dead", "deadclear"}
    PROVE  \E n \in Nodes \ alive:
             /\ ref[n].death = d /\ death[d].cookie \in NamesOf[n]
             /\ death[d].cookie \in Names
             /\ n \in Plain => /\ Carriers(n) = {}
                               /\ svc[death[d].cookie] = ref[n].desc
                               /\ svc[death[d].cookie] # 0
<1>1. IInv /\ Served /\ Posted /\ Called
  BY DEF MInv
<1>2. d # NIL /\ d \in Items /\ death[d].type = "dead"
  BY Alone DEF Items, MInv, Uncleared
<1>3. PICK n \in Nodes: ref[n].death = d
  BY <1>1, <1>2 DEF IInv, Fate, Owned
<1>4. n \notin alive
  BY <1>1, <1>2, <1>3 DEF IInv, Living
<1>5. death[d].cookie \in NamesOf[n] /\ death[d].cookie \in Names
  BY <1>1, <1>2, <1>3, ManagerNamesOf DEF Called
<1>6. ASSUME n \in Plain PROVE Carriers(n) = {}
  <2>1. SUFFICES ASSUME NEW m \in Carriers(n) PROVE FALSE
    OBVIOUS
  <2>2. m \in Msgs /\ msg[m].node = n /\ msg[m].st # "free"
    BY <1>1, Alone DEF Carriers, IInv, Counts
  <2>3. msg[m].st = "queued"
    BY <1>1, <2>2, Shape DEF Served, Msg
  <2>4. Heeded(n)
    BY <1>6 DEF MInv
  <2>5. d \notin Range(todo[Manager]) /\ Before(todo[Proc], m, d)
    BY <1>3, <2>1, <2>3, <2>4 DEF Heeded, Ahead
  <2>6. 1 \in DOMAIN todo[Proc] /\ todo[Proc][1] = d /\ DOMAIN todo[Proc] \subseteq Nat \ {0}
    BY <1>1, <1>2, <2>5, FirstIs
  <2>7. PICK i \in DOMAIN todo[Proc]: todo[Proc][i] = m
    BY <1>1, <2>2, <2>3 DEF Posted, Range
  <2>8. i < 1 /\ i \in Nat \ {0}
    BY <2>5, <2>6, <2>7 DEF Before
  <2>. QED
    BY <2>8
<1>7. ref[n].desc # NIL
  BY <1>1, <1>2, <1>3 DEF IInv, Counts, NoRef
<1>8. ASSUME n \in Plain
      PROVE  svc[death[d].cookie] = ref[n].desc /\ svc[death[d].cookie] # 0
  BY <1>5, <1>6, <1>7, <1>8, Doomed
<1>. QED
  BY <1>3, <1>4, <1>5, <1>6, <1>8

LEMMA HearDeathInv ==
    ASSUME MInv, HearDeath
    PROVE  MInv'
<1>1. PICK d \in Deaths: d = Next1(Manager)
  BY DEF HearDeath, ReadDead
<1>2. /\ at = "loop" /\ at' = "died" /\ job' = death[d].cookie /\ UNCHANGED <<svc, call>>
      /\ ReadDead(Manager) /\ death[d].type \in {"dead", "deadclear"}
      /\ death' = [death EXCEPT ![d].told = TRUE] /\ todo' = Taken(Manager)
      /\ UNCHANGED <<alive, ref, msg>>
  BY <1>1 DEF HearDeath, ReadDead
<1>3. IInv /\ Served /\ Posted /\ Called /\ Kept /\ Uncleared /\ d \in Items /\ d # NIL
  BY Alone DEF MInv, Items
<1>4. IInv'
  BY <1>2, <1>3, Alone, ReadDeadInv
<1>5. PICK n \in Nodes \ alive:
             /\ ref[n].death = d /\ death[d].cookie \in NamesOf[n]
             /\ death[d].cookie \in Names
             /\ n \in Plain => /\ Carriers(n) = {}
                               /\ svc[death[d].cookie] = ref[n].desc
                               /\ svc[death[d].cookie] # 0
  BY <1>1, <1>2, ReportedIs
<1>6. /\ \A l \in Lists: Range(todo'[l]) = Range(todo[l]) \ {d}
      /\ \A m, e: Before(todo[Proc], m, e) => Before(todo'[Proc], m, e)
  BY <1>1, <1>2, <1>3, FirstIs
<1>7. \A e \in Deaths: death'[e].type = death[e].type /\ death'[e].cookie = death[e].cookie
  BY <1>2, <1>3, Shape DEF Death
<1>8. \A o \in Nodes: /\ Carriers(o)' = Carriers(o) /\ Holders(o)' = Holders(o)
                      /\ Pending(o)' = 0 /\ Pending(o) = 0
                      /\ ref[o].death # NIL => ref[o].death \in Deaths
  BY <1>2, <1>3, Shape DEF Carriers, Holders, Pending, Ref
<1>9. Served' /\ Posted' /\ Uncleared' /\ Cause'
  <2>1. Served'
    BY <1>2, <1>3, <1>5 DEF Served
  <2>2. Posted'
    BY <1>2, <1>3, <1>6, Alone DEF Posted
  <2>3. Uncleared' /\ Cause'
    BY <1>2, <1>3, <1>5, <1>7 DEF Uncleared, Cause
  <2>. QED
    BY <2>1, <2>2, <2>3
<1>10. Called'
  BY <1>2, <1>3, <1>7, <1>8 DEF Called
<1>11. Kept'
  BY <1>2, <1>3, <1>8 DEF Kept
<1>12. ASSUME NEW o \in Plain PROVE Heeded(o)'
  <2>1. o \in Nodes /\ Heeded(o)
    BY PlainIs DEF MInv
  <2>2. CASE o = n
    BY <1>2, <1>3, <1>5, <1>8, <2>1, <2>2 DEF Heeded, Ahead
  <2>3. CASE o # n
    <3>1. ref[o].death # NIL => ref[o].death # d
      BY <1>3, <1>5, <2>1, <2>3 DEF IInv, Single
    <3>2. Steady(o)
      BY <1>2, <1>6, <1>7, <1>8, <2>1, <3>1 DEF Steady
    <3>3. \A l \in Lists: NIL \notin Range(todo'[l])
      BY <1>4, NothingNamedNext
    <3>4. ~(Holders(o)' # {} /\ ref'[o].death = NIL)
      BY <1>2, <1>8, <2>1 DEF Heeded
    <3>. QED
      BY <1>2, <1>6, <1>8, <2>1, <3>2, <3>3, <3>4, HeedKept
  <2>. QED
    BY <2>2, <2>3
<1>. QED
  BY <1>4, <1>9, <1>10, <1>11, <1>12 DEF MInv

LEMMA ServiceDiesInv ==
    ASSUME MInv, NEW n \in Nodes, ServiceDies(n)
    PROVE  MInv'
<1>. DEFINE d == ref[n].death
<1>1. /\ Dies(n) /\ n \in alive /\ alive' = alive \ {n}
      /\ UNCHANGED <<ref, msg, delivered, svc, call, at, job>>
  BY DEF ServiceDies, Dies, manager
<1>2. IInv /\ Served /\ Posted /\ Called /\ Kept /\ Uncleared
  BY DEF MInv
<1>3. IInv'
  BY <1>1, <1>2, DiesInv
<1>4. d # NIL => d \in Deaths /\ ~Queued(d) /\ death[d].type = "armed"
  <2>1. ASSUME d # NIL PROVE d \in Deaths /\ ~Queued(d) /\ death[d].type = "armed"
    <3>1. d \in Deaths /\ death[d].type = "armed"
      BY <1>1, <1>2, <2>1, Shape DEF IInv, Living, Ref
    <3>. QED
      BY <1>2, <3>1 DEF IInv, Fate
  <2>. QED
    BY <2>1
<1>5. IF d = NIL THEN UNCHANGED <<death, todo>>
      ELSE /\ death' = [death EXCEPT ![d].type = "dead"]
           /\ todo' = [todo EXCEPT ![Proc] = Append(@, d)]
  BY <1>1, <1>4 DEF Dies
<1>6. /\ \A e \in Deaths: /\ death'[e].cookie = death[e].cookie
                          /\ e # d => death'[e] = death[e]
      /\ d # NIL => death'[d].type = "dead"
  <2>1. death \in [Deaths -> Death]
    BY <1>2, Shape
  <2>2. CASE d = NIL
    BY <1>5, <2>2
  <2>3. CASE d # NIL
    <3>1. death' = [death EXCEPT ![d].type = "dead"] /\ d \in Deaths
      BY <1>4, <1>5, <2>3
    <3>. QED
      BY <2>1, <3>1 DEF Death
  <2>. QED
    BY <2>2, <2>3
<1>7. /\ \A l \in Lists: /\ Range(todo[l]) \subseteq Range(todo'[l])
                         /\ Range(todo'[l]) \subseteq Range(todo[l]) \cup {d}
      /\ d # NIL => d \in Range(todo'[Proc]) /\ Range(todo'[Manager]) = Range(todo[Manager])
      /\ \A m \in Msgs, e \in Deaths: Before(todo[Proc], m, e) => Before(todo'[Proc], m, e)
  <2>1. CASE d = NIL
    BY <1>5, <2>1
  <2>2. CASE d # NIL
    <3>1. todo' = [todo EXCEPT ![Proc] = Append(@, d)] /\ d \in Deaths
      BY <1>4, <1>5, <2>2
    <3>2. /\ \A l \in Lists: Range(todo'[l]) = Range(todo[l]) \cup (IF l = Proc THEN {d} ELSE {})
          /\ \A m \in Msgs, e \in Deaths: Before(todo[Proc], m, e) => Before(todo'[Proc], m, e)
      BY <1>2, <3>1, Alone, QueuedLast
    <3>. QED
      BY <3>2, Alone
  <2>. QED
    BY <2>1, <2>2
<1>8. d # NIL => \A l \in Lists: d \notin Range(todo[l])
  BY <1>4 DEF Queued
<1>. HIDE DEF d
<1>9. \A o \in Nodes: /\ Carriers(o)' = Carriers(o) /\ Holders(o)' = Holders(o)
                      /\ Pending(o)' = Pending(o)
                      /\ ref[o].death # NIL => ref[o].death \in Deaths
  BY <1>1, <1>2, Shape DEF Carriers, Holders, Pending, Ref
<1>10. Served' /\ Posted' /\ Uncleared' /\ Cause'
  <2>0. Uncleared'
    BY <1>2, <1>6, Alone DEF Uncleared
  <2>1. Served'
    BY <1>1, <1>2 DEF Served
  <2>2. Posted'
    BY <1>1, <1>2, <1>7, Alone DEF Posted
  <2>3. Cause'
    BY <1>1 DEF MInv, Cause
  <2>. QED
    BY <2>0, <2>1, <2>2, <2>3
<1>11. Called'
  BY <1>1, <1>2, <1>6, <1>9 DEF Called
<1>12. Kept'
  BY <1>1, <1>2, <1>9 DEF Kept
<1>13. ASSUME NEW o \in Plain PROVE Heeded(o)'
  <2>1. o \in Nodes /\ Heeded(o)
    BY PlainIs DEF MInv
  <2>2. \A l \in Lists: NIL \notin Range(todo'[l])
    BY <1>3, NothingNamedNext
  <2>3. \A m \in Carriers(o): Before(todo[Proc], m, ref[o].death) => Before(todo'[Proc], m, ref[o].death)
    <3>1. CASE ref[o].death = NIL
      BY <2>2, <3>1, Alone DEF Before, Range
    <3>2. CASE ref[o].death # NIL
      BY <1>7, <1>9, <2>1, <3>2 DEF Carriers
    <3>. QED
      BY <3>1, <3>2
  <2>4. Holders(o)' # {} /\ ref'[o].death = NIL
          => at' \in {"acquire", "link"} /\ msg'[job'].node = o
    BY <1>1, <1>9, <2>1 DEF Heeded
  <2>5. CASE o = n
    <3>1. ref'[o].death = ref[o].death /\ ref[o].death = d
      BY <1>1, <2>5 DEF d
    <3>2. \A m \in Carriers(o)': /\ d \in Range(todo'[Manager]) => msg'[m].st # "queued"
                                 /\ Before(todo'[Proc], m, d)
      <4>1. CASE d = NIL
        BY <2>2, <4>1, Alone DEF Before, Range
      <4>2. CASE d # NIL
        <5>1. \A m \in Carriers(o): Before(todo[Proc], m, d)
          BY <2>1, <3>1 DEF Heeded, Ahead
        <5>. QED
          BY <1>7, <1>8, <1>9, <2>1, <2>3, <3>1, <4>2, <5>1, Alone
      <4>. QED
        BY <4>1, <4>2
    <3>3. \A m, j \in Carriers(o)': m = j
      BY <1>9, <2>1 DEF Heeded
    <3>4. ref'[o].death # NIL => \E l \in Lists: ref'[o].death \in Range(todo'[l])
      BY <1>7, <3>1, Alone
    <3>. QED
      BY <2>4, <3>1, <3>2, <3>3, <3>4 DEF Heeded, Ahead
  <2>6. CASE o # n
    <3>1. ref[o].death # NIL => ref[o].death # d
      BY <1>2, <2>1, <2>6 DEF IInv, Single, d
    <3>2. Steady(o)
      BY <1>1, <1>6, <1>7, <1>9, <2>1, <3>1 DEF Steady
    <3>. QED
      BY <1>1, <1>9, <2>1, <2>2, <2>3, <2>4, <2>6, <3>2, HeedKept
  <2>. QED
    BY <2>5, <2>6
<1>. QED
  BY <1>3, <1>10, <1>11, <1>12, <1>13 DEF MInv

-------------------------------------------------------------------------------
(* Every step *)

LEMMA StepMInv == MInv /\ [ManagerNext]_allVars => MInv'
<1>. SUFFICES ASSUME MInv, [ManagerNext]_allVars PROVE MInv'
  OBVIOUS
<1>1. ASSUME NEW m \in Msgs, NEW x \in Names, NEW n \in Nodes, SendAdd(m, x, n) PROVE MInv'
  <2>1. n # NIL
    BY Alone
  <2>. QED
    BY <1>1, <2>1, SentInv DEF SendAdd
<1>2. ASSUME NEW m \in Msgs, NEW x \in Names, SendCheck(m, x) PROVE MInv'
  <2>1. NIL \notin Careful
    BY ManagerNamesOf, Alone
  <2>. QED
    BY <1>2, <2>1, SentInv DEF SendCheck
<1>3. CASE UNCHANGED allVars
  <2>1. UNCHANGED <<vars, svc, call, at, job>>
    BY <1>3 DEF allVars, manager
  <2>2. IInv'
    BY <2>1, StepInv DEF MInv
  <2>3. UNCHANGED <<alive, ref, death, msg, todo, delivered, svc, call, at, job>>
    BY <2>1 DEF vars
  <2>4. \A o \in Nodes: /\ Carriers(o)' = Carriers(o) /\ Holders(o)' = Holders(o)
                        /\ Pending(o)' = Pending(o)
    BY <2>3 DEF Carriers, Holders, Pending
  <2>5. Served' /\ Posted' /\ Uncleared' /\ Cause'
    BY <2>3 DEF MInv, Served, Posted, Uncleared, Cause
  <2>6. Called' /\ Kept'
    BY <2>3, <2>4 DEF MInv, Called, Kept
  <2>7. ASSUME NEW o \in Plain PROVE Heeded(o)'
    BY <2>3, <2>4, PlainIs DEF MInv, Heeded, Ahead
  <2>. QED
    BY <2>2, <2>5, <2>6, <2>7 DEF MInv
<1>. QED
  BY <1>1, <1>2, <1>3, EnterLoopInv, ServeInv, OverrideInv, AcquireNewInv, LinkInv, SendReplyInv,
     HearDeathInv, SvcinfoDeathInv, ServiceDiesInv DEF ManagerNext, Loop

\* The service manager asks nothing of the driver that BinderDeath does not
\* allow its process: it gives back only counts that it took.
LEMMA DriverStep == MInv /\ [ManagerNext]_allVars => [Next]_vars
<1>. SUFFICES ASSUME MInv, [ManagerNext]_allVars PROVE [Next]_vars
  OBVIOUS
<1>1. IInv /\ Served /\ Called /\ Kept
  BY DEF MInv
<1>2. \A x \in Names: svc[x] # 0 => svc[x] \in Handles
  BY <1>1 DEF Called
<1>3. ASSUME at \in {"acquire", "link"}
      PROVE  svc[call[job]] \in Handles /\ call[job] \in Cookies
  <2>1. PICK k \in Nodes: k = msg[job].node /\ job \in Msgs /\ svc[call[job]] = ref[k].desc
    BY <1>1, <1>3 DEF Served
  <2>2. call[job] \in NamesOf[k] /\ NamesOf[k] \subseteq Names
    BY <1>1, <2>1, Alone, ManagerNamesOf DEF Called
  <2>. QED
    BY <1>1, <2>1, <2>2, CarriedIs DEF Names
<1>4. ASSUME NEW m \in Msgs, NEW x \in Names, NEW n \in Nodes, SendAdd(m, x, n) PROVE Next
  BY <1>4 DEF SendAdd, Next
<1>5. ASSUME NEW m \in Msgs, NEW x \in Names, SendCheck(m, x) PROVE Next
  BY <1>5 DEF SendCheck, Next
<1>6. ASSUME NEW n \in Nodes, ServiceDies(n) PROVE Next
  BY <1>6 DEF ServiceDies, Next
<1>7. CASE EnterLoop
  BY <1>7, Alone DEF EnterLoop, Next, Command
<1>8. CASE Serve
  BY <1>8, Alone DEF Serve, Next, Read
<1>9. CASE Override
  <2>1. /\ at = "override" /\ call[job] \in Names /\ svc[call[job]] # 0
        /\ Told(svc[call[job]], Release(svc[call[job]]))
    <3>1. /\ at = "override" /\ svc[call[job]] # 0 /\ job \in Msgs /\ msg[job].node \in Nodes
          /\ Told(svc[call[job]], Release(svc[call[job]]))
      BY <1>1, <1>9 DEF Override, Served
    <3>2. call[job] \in NamesOf[msg[job].node]
      BY <1>1, <3>1, Alone DEF Called
    <3>. QED
      BY <3>1, <3>2, ManagerNamesOf
  <2>2. svc[call[job]] \in Handles /\ Took(svc[call[job]]) /\ Release(svc[call[job]])
    BY <2>1, LetGo
  <2>. QED
    BY <2>2 DEF Next
<1>10. CASE AcquireNew
  BY <1>3, <1>10 DEF AcquireNew, Told, Next
<1>11. CASE Link
  BY <1>3, <1>11, Alone DEF Link, Next, Command
<1>12. CASE SendReply
  <2>1. job \in Msgs /\ Reply(Manager, job)
    BY <1>1, <1>12 DEF SendReply, Served
  <2>. QED
    BY <2>1, Alone DEF Next, Command
<1>13. CASE HearDeath
  BY <1>13, Alone DEF HearDeath, Next, Read
<1>14. CASE SvcinfoDeath
  <2>1. /\ at = "died" /\ job \in Names
        /\ IF svc[job] = 0 THEN UNCHANGED vars ELSE Told(svc[job], Release(svc[job]))
    BY <1>1, <1>14 DEF SvcinfoDeath, Served
  <2>2. CASE svc[job] # 0
    <3>1. svc[job] \in Handles /\ Took(svc[job]) /\ Release(svc[job])
      BY <2>1, <2>2, LetGo
    <3>. QED
      BY <3>1 DEF Next
  <2>. QED
    BY <2>1, <2>2
<1>15. CASE UNCHANGED allVars
  BY <1>15 DEF allVars
<1>. QED
  BY <1>4, <1>5, <1>6, <1>7, <1>8, <1>9, <1>10, <1>11, <1>12, <1>13, <1>14, <1>15
     DEF ManagerNext, Loop

\* The entries of the table, as references.
EntriesNamed ==
    \A x \in Names:
        /\ Entry(x) = NIL <=> svc[x] = 0
        /\ \A n \in Nodes: Entry(x) = n <=> x \in Holders(n)

LEMMA EntryIs == MInv => EntriesNamed
<1>. SUFFICES ASSUME MInv, NEW x \in Names
     PROVE  /\ Entry(x) = NIL <=> svc[x] = 0
            /\ \A n \in Nodes: Entry(x) = n <=> x \in Holders(n)
  BY DEF EntriesNamed
<1>1. IInv /\ Called /\ Kept
  BY DEF MInv
<1>2. CASE svc[x] = 0
  BY <1>2, Alone DEF Entry, Holders
<1>3. CASE svc[x] # 0
  <2>1. PICK n \in Nodes: Named(svc[x]) = {n} /\ x \in Holders(n)
    BY <1>1, <1>3, EntryNamed
  <2>2. \A o \in Nodes: ref[o].desc = svc[x] <=> o = n
    BY <2>1 DEF Named
  <2>3. Entry(x) = n
    BY <1>3, <2>2 DEF Entry, NodeOf
  <2>4. \A o \in Nodes: x \in Holders(o) <=> o = n
    BY <2>1, <2>2 DEF Holders
  <2>. QED
    BY <1>3, <2>3, <2>4, Alone
<1>. QED
  BY <1>2, <1>3

LEMMA EntryIsNext == MInv' => EntriesNamed'
BY EntryIs, PTL

\* A handle that is in use is not given to another service.
LEMMA HandleKept ==
    ASSUME IInv, [Next]_vars, ~Close
    PROVE  \A n \in Nodes: ref'[n].desc # NIL =>
               ref'[n].desc = ref[n].desc \/ Named(ref'[n].desc) = {}
<1>. DEFINE Same == \A n \in Nodes: ref'[n].desc # NIL =>
                        ref'[n].desc = ref[n].desc \/ Named(ref'[n].desc) = {}
<1>0. ref \in [Nodes -> Ref]
  BY Shape
<1>1. ASSUME NEW n \in Nodes, Uncount(n) PROVE Same
  <2>1. CASE ref[n].count = 1
    <3>1. ref' = [ref EXCEPT ![n] = NoRef]
      BY <1>1, <2>1 DEF Uncount
    <3>. QED
      BY <1>0, <3>1 DEF NoRef
  <2>2. CASE ref[n].count # 1
    <3>1. ref' = [ref EXCEPT ![n].count = @ - 1]
      BY <1>1, <2>2 DEF Uncount
    <3>. QED
      BY <1>0, <3>1 DEF Ref
  <2>. QED
    BY <2>1, <2>2
<1>2. ASSUME NEW m \in Msgs, NEW n \in Nodes \cup {NIL}, Send(m, n) PROVE Same
  <2>1. CASE n = NIL \/ ref[n].desc # NIL
    <3>1. ref' = IF n = NIL THEN ref ELSE [ref EXCEPT ![n].count = @ + 1]
      BY <1>2, <2>1 DEF Send, Counted
    <3>. QED
      BY <1>0, <3>1 DEF Ref
  <2>2. CASE n # NIL /\ ref[n].desc = NIL
    <3>1. ref' = [ref EXCEPT ![n] = [NoRef EXCEPT !.desc = NewDesc, !.count = 1]]
      BY <1>2, <2>2 DEF Send, Counted
    <3>2. Named(NewDesc) = {}
      BY <2>2, NewDescIs DEF IInv
    <3>. QED
      BY <1>0, <3>1, <3>2 DEF NoRef
  <2>. QED
    BY <2>1, <2>2
<1>3. ASSUME NEW h \in Handles, Acquire(h) PROVE Same
  BY <1>0, <1>3 DEF Acquire, Named, Ref
<1>4. ASSUME NEW h \in Handles, Release(h) PROVE Same
  BY <1>1, <1>4 DEF Release, Named
<1>5. ASSUME NEW t \in Threads, NEW m \in Msgs, Reply(t, m) PROVE Same
  <2>1. msg[m].node = NIL \/ msg[m].node \in Nodes
    BY Shape DEF Msg
  <2>. QED
    BY <1>1, <1>5, <2>1 DEF Reply
<1>6. ASSUME NEW t \in Threads, NEW h \in Handles, NEW c \in Cookies,
             Request(t, h, c) \/ Clear(t, h, c)
      PROVE  Same
  BY <1>0, <1>6, SMTT(60) DEF Request, Clear, Named, Ref
<1>7. ASSUME NEW t \in Threads,
             Read(t) \/ EnterLooper(t) \/ ThreadExit(t) \/ \E c \in Cookies: Done(t, c)
      PROVE  Same
  BY <1>7 DEF Read, ReadMsg, ReadDead, ReadCleared, EnterLooper, ThreadExit, Done
<1>8. ASSUME NEW n \in Nodes, Dies(n) PROVE Same
  BY <1>8 DEF Dies
<1>9. ASSUME UNCHANGED vars PROVE Same
  BY <1>9 DEF vars
<1>. HIDE DEF Same
<1>10. Same
  BY <1>2, <1>3, <1>4, <1>5, <1>6, <1>7, <1>8, <1>9 DEF Next, Command
<1>. QED
  BY <1>10 DEF Same

\* An entry that keeps its handle keeps its service.
LEMMA EntryKept ==
    ASSUME MInv, [ManagerNext]_allVars, NEW x \in Names, svc'[x] = svc[x]
    PROVE  Entry(x)' = Entry(x)
<1>1. EntriesNamed /\ EntriesNamed' /\ MInv'
  BY StepMInv, EntryIs, EntryIsNext
<1>2. IInv /\ Called /\ Kept
  BY DEF MInv
<1>3. [Next]_vars /\ ~Close
  BY DriverStep, ManagerThread DEF Close
<1>4. CASE svc[x] = 0
  BY <1>1, <1>4 DEF EntriesNamed
<1>5. CASE svc[x] # 0
  <2>1. PICK n \in Nodes: Named(svc[x]) = {n} /\ x \in Holders(n)
    BY <1>2, <1>5, EntryNamed
  <2>2. PICK o \in Nodes: ref'[o].desc = svc[x]
    BY <1>1, <1>5 DEF MInv, Kept
  <2>3. svc[x] # NIL
    BY <1>2, <1>5, Alone DEF Called
  <2>4. ref[o].desc = svc[x]
    BY <1>2, <1>3, <2>1, <2>2, <2>3, HandleKept
  <2>5. o = n
    BY <2>1, <2>4 DEF Named
  <2>6. x \in Holders(n)'
    BY <1>5, <2>2, <2>5 DEF Holders
  <2>. QED
    BY <1>1, <2>1, <2>6 DEF EntriesNamed
<1>. QED
  BY <1>4, <1>5

-------------------------------------------------------------------------------
(* The theorems *)

\* MInv holds in every state.
THEOREM MInvAlways == ManagerSpec => []MInv
<1>. QED
  BY InitMInv, StepMInv, PTL DEF ManagerSpec

\* The service manager with the driver under it is a process of BinderDeath, so
\* that all that is proved about those holds of it.
THEOREM ManagerIsProcess == ManagerSpec => Spec
<1>1. ManagerInit => Init
  BY DEF ManagerInit
<1>. QED
  BY <1>1, DriverStep, MInvAlways, PTL DEF ManagerSpec, Spec

\* svclist and the driver agree on every count (do_add_service, svcinfo_death).
THEOREM CountsHeldAlways == ManagerSpec => []CountsHeld
<1>1. MInv => CountsHeld
  <2>. SUFFICES ASSUME MInv, NEW n \in Nodes
       PROVE  ref[n].count = Cardinality({x \in Names: svc[x] # 0 /\ Entry(x) = n})
                             + Cardinality({m \in Msgs: msg[m].node = n})
                             - (IF at = "acquire" /\ Entry(call[job]) = n THEN 1 ELSE 0)
    BY DEF CountsHeld
  <2>1. EntriesNamed /\ IInv /\ Served /\ Called /\ Kept
    BY EntryIs DEF MInv
  <2>2. {x \in Names: svc[x] # 0 /\ Entry(x) = n} = Holders(n)
    BY <2>1 DEF EntriesNamed, Holders
  <2>3. ASSUME at = "acquire" PROVE Entry(call[job]) = msg[job].node
    <3>1. PICK k \in Nodes: k = msg[job].node /\ job \in Msgs /\ svc[call[job]] = ref[k].desc
      BY <2>1, <2>3 DEF Served
    <3>2. call[job] \in Names /\ ref[k].desc # 0
      BY <2>1, <3>1, Alone, CarriedIs, ManagerNamesOf DEF Called
    <3>3. call[job] \in Holders(k)
      BY <3>1, <3>2 DEF Holders
    <3>. QED
      BY <2>1, <3>1, <3>2, <3>3 DEF EntriesNamed
  <2>4. ref[n].count + Pending(n) = Cardinality(Holders(n)) + Cardinality(Carriers(n))
    BY <2>1 DEF Kept
  <2>5. /\ ref[n].count \in Nat /\ Cardinality(Holders(n)) \in Nat
        /\ Cardinality(Carriers(n)) \in Nat
    BY <2>1, Shape, HoldersFinite, CarriersFinite DEF Ref
  <2>6. Pending(n) = IF at = "acquire" /\ Entry(call[job]) = n THEN 1 ELSE 0
    BY <2>3 DEF Pending
  <2>. QED
    <3>1. {m \in Msgs: msg[m].node = n} = Carriers(n)
      BY DEF Carriers
    <3>2. Pending(n) \in Nat
      BY DEF Pending
    <3>3. ref[n].count = Cardinality(Holders(n)) + Cardinality(Carriers(n)) - Pending(n)
      BY <2>4, <2>5, <3>2
    <3>. QED
      BY <2>2, <2>6, <3>1, <3>3
<1>. QED
  BY <1>1, MInvAlways, PTL

\* When the manager has read all there is, it names no plain service that has
\* died (svcinfo_death, binder_link_to_death).
THEOREM CaughtUpAlways == ManagerSpec => []CaughtUp
<1>1. MInv => CaughtUp
  <2>. SUFFICES ASSUME MInv, at = "loop", \A l \in Lists: todo[l] = <<>>,
                       NEW x \in Names, Entry(x) \in Plain, Entry(x) \notin alive
       PROVE  FALSE
    BY DEF CaughtUp
  <2>1. PICK n \in Plain: n = Entry(x)
    OBVIOUS
  <2>2. n \in Nodes /\ Heeded(n) /\ x \in Holders(n)
    BY <2>1, PlainIs, EntryIs DEF MInv, EntriesNamed
  <2>3. ref[n].death # NIL
    BY <2>2 DEF Heeded
  <2>4. PICK l \in Lists: ref[n].death \in Range(todo[l])
    BY <2>1, <2>2, <2>3 DEF Heeded
  <2>. QED
    BY <2>4, NothingListed
<1>. QED
  BY <1>1, MInvAlways, PTL

\* The service manager keeps the promise of Registry: only what is published
\* under a name, or the death of a service that stands there, changes it, but
\* for services that are not plain.
THEOREM ManagerKeepsRegistry == ManagerSpec => RegistrySpec
<1>. DEFINE table == [x \in Names |-> Entry(x)]
<1>1. ManagerInit => R!Init
  <2>. SUFFICES ASSUME ManagerInit PROVE table = [x \in Names |-> NIL] /\ alive = Nodes
    BY DEF R!Init
  <2>1. MInv /\ svc = [x \in Names |-> 0]
    BY InitMInv DEF ManagerInit
  <2>2. \A x \in Names: Entry(x) = NIL
    BY <2>1, EntryIs DEF EntriesNamed
  <2>. QED
    BY <2>2 DEF ManagerInit, Init
<1>2. ASSUME MInv, [ManagerNext]_allVars PROVE [R!Next]_(R!vars)
  <2>1. EntriesNamed /\ EntriesNamed' /\ MInv'
    BY <1>2, StepMInv, EntryIs, EntryIsNext
  <2>2. IInv /\ Served /\ Called /\ Kept /\ Cause
    BY <1>2 DEF MInv
  <2>3. \A x \in Names: svc'[x] = svc[x] => Entry(x)' = Entry(x)
    BY <1>2, EntryKept
  <2>4. /\ table' = [x \in Names |-> Entry(x)'] /\ \A x \in Names: table[x] = Entry(x)
        /\ R!vars = <<table, alive>>
    BY DEF R!vars
  <2>. HIDE DEF table
  <2>5. svc' = svc => table' = table
    BY <2>3, <2>4 DEF table
  <2>6. ASSUME NEW x \in Names, NEW n \in Nodes, x \in NamesOf[n], ref[n].desc # NIL,
               svc' = [svc EXCEPT ![x] = ref[n].desc], svc'[x] = ref'[n].desc, alive' = alive
        PROVE  R!Publish(x, n)
    <3>1. svc'[x] = ref[n].desc /\ \A y \in Names: y # x => svc'[y] = svc[y]
      BY <2>2, <2>6 DEF Called
    <3>2. svc'[x] # 0
      BY <2>2, <2>6, <3>1, Alone, NamedIs
    <3>3. Entry(x)' = n
      BY <2>1, <2>6, <3>2 DEF EntriesNamed, Holders
    <3>4. table' = [table EXCEPT ![x] = n]
      BY <2>3, <2>4, <3>1, <3>3 DEF table
    <3>. QED
      BY <2>6, <3>4 DEF R!Publish, table
  <2>7. ASSUME svc' = svc, alive' = alive PROVE UNCHANGED R!vars
    BY <2>5, <2>7 DEF R!vars, table
  <2>8. ASSUME NEW m \in Msgs, NEW x \in Names, NEW n \in Nodes \cup {NIL}, Send(m, n), svc' = svc
        PROVE  UNCHANGED R!vars
    BY <2>7, <2>8 DEF Send
  <2>9. CASE EnterLoop \/ AcquireNew \/ Link \/ SendReply \/ HearDeath
    <3>1. svc' = svc /\ (EnterLoop \/ Link \/ SendReply \/ HearDeath => alive' = alive)
      BY <2>9 DEF EnterLoop, AcquireNew, Link, SendReply, HearDeath, EnterLooper, Reply, ReadDead,
                  Request, vars
    <3>2. AcquireNew => alive' = alive
      <4>1. ASSUME NEW h, Told(h, Acquire(h)) PROVE alive' = alive
        BY <4>1 DEF Told, Acquire, vars
      <4>. QED
        BY <4>1 DEF AcquireNew
    <3>. QED
      BY <2>7, <2>9, <3>1, <3>2
  <2>10. CASE Serve
    <3>1. PICK m \in Msgs: m = Next1(Manager)
      BY <2>10 DEF Serve, ReadMsg
    <3>2. PICK n \in Nodes \cup {NIL}: n = msg[m].node
      BY <2>2, Shape DEF Msg
    <3>3. /\ job' = m /\ UNCHANGED <<call, alive, ref>>
          /\ msg' = [msg EXCEPT ![m].st = "held", ![m].by = Manager]
          /\ at' = IF n = NIL THEN "reply" ELSE First(call[m])
          /\ svc' = IF at' = "acquire" THEN [svc EXCEPT ![call[m]] = ref[n].desc] ELSE svc
      BY <2>10, <3>1, <3>2 DEF Serve, ReadMsg
    <3>4. CASE at' = "acquire"
      <4>1. n \in Nodes /\ n # NIL
        BY <3>3, <3>4, Alone
      <4>2. call[m] \in NamesOf[n] /\ call[m] \in Names /\ ref[n].desc # NIL
        BY <2>2, <3>2, <4>1, ManagerNamesOf, CarriedIs DEF Called
      <4>3. svc' = [svc EXCEPT ![call[m]] = ref[n].desc] /\ svc'[call[m]] = ref'[n].desc
        BY <2>2, <3>3, <3>4, <4>2 DEF Called
      <4>4. R!Publish(call[m], n)
        BY <2>6, <3>3, <4>1, <4>2, <4>3
      <4>. QED
        BY <4>1, <4>2, <4>4 DEF R!Next
    <3>5. CASE at' # "acquire"
      BY <2>7, <3>3, <3>5
    <3>. QED
      BY <3>4, <3>5
  <2>11. CASE Override
    <3>1. PICK n \in Nodes: n = msg[job].node /\ job \in Msgs /\ svc[call[job]] # 0
      BY <2>2, <2>11 DEF Override, Served
    <3>2. call[job] \in NamesOf[n] /\ call[job] \in Names /\ ref[n].desc # NIL
      BY <2>2, <3>1, Alone, ManagerNamesOf, CarriedIs DEF Called
    <3>3. /\ at = "override" /\ at' = "acquire" /\ UNCHANGED <<call, job>>
          /\ svc' = [svc EXCEPT ![call[job]] = ref[n].desc]
          /\ Told(svc[call[job]], Release(svc[call[job]]))
      BY <2>11, <3>1 DEF Override
    <3>4. UNCHANGED <<alive, msg>>
      BY <1>2, <3>1, <3>2, <3>3, LetGo
    <3>5. svc'[call[job]] = ref'[n].desc
      BY <2>1, <3>1, <3>3, <3>4 DEF MInv, Served
    <3>6. R!Publish(call[job], n)
      BY <2>6, <3>2, <3>3, <3>4, <3>5
    <3>. QED
      BY <3>2, <3>6 DEF R!Next
  <2>12. CASE SvcinfoDeath
    <3>0. PICK x \in Names: x = job
      BY <2>2, <2>12 DEF SvcinfoDeath, Served
    <3>1. /\ at = "died" /\ svc' = [svc EXCEPT ![x] = 0]
          /\ IF svc[x] = 0 THEN UNCHANGED vars ELSE Told(svc[x], Release(svc[x]))
      BY <2>12, <3>0 DEF SvcinfoDeath
    <3>2. alive' = alive
      <4>1. CASE svc[x] = 0
        BY <3>1, <4>1 DEF vars
      <4>2. CASE svc[x] # 0
        BY <1>2, <3>1, <4>2, LetGo
      <4>. QED
        BY <4>1, <4>2
    <3>3. svc'[x] = 0 /\ \A y \in Names: y # x => svc'[y] = svc[y]
      BY <2>2, <3>1 DEF Called
    <3>4. PICK n \in Nodes \ alive: /\ x \in NamesOf[n]
                                    /\ n \in Plain => svc[x] = ref[n].desc /\ svc[x] # 0
      BY <2>2, <3>0, <3>1 DEF Cause
    <3>5. n = table[x] \/ n \notin Plain
      BY <2>1, <2>4, <3>4 DEF EntriesNamed, Holders
    <3>6. Entry(x)' = NIL
      BY <2>1, <3>3 DEF EntriesNamed
    <3>7. table' = [table EXCEPT ![x] = NIL]
      BY <2>3, <2>4, <3>3, <3>6 DEF table
    <3>8. R!Expire(x)
      BY <3>2, <3>4, <3>5, <3>7 DEF R!Expire, table
    <3>. QED
      BY <3>8 DEF R!Next
  <2>13. ASSUME NEW n \in Nodes, ServiceDies(n) PROVE R!Die(n)
    <3>1. svc' = svc /\ n \in alive /\ alive' = alive \ {n}
      BY <2>13 DEF ServiceDies, Dies, manager
    <3>2. table' = table
      BY <2>5, <3>1
    <3>. QED
      BY <3>1, <3>2 DEF R!Die, table
  <2>14. CASE UNCHANGED allVars
    BY <2>7, <2>14 DEF allVars, manager, vars
  <2>15. ASSUME NEW m \in Msgs, NEW x \in Names,
                SendCheck(m, x) \/ \E n \in Nodes: SendAdd(m, x, n)
         PROVE  UNCHANGED R!vars
    BY <2>8, <2>15 DEF SendCheck, SendAdd
  <2>. QED
    BY <1>2, <2>9, <2>10, <2>11, <2>12, <2>13, <2>14, <2>15 DEF ManagerNext, Loop, R!Next
<1>. QED
  BY <1>1, <1>2, MInvAlways, PTL DEF ManagerSpec, RegistrySpec, R!Spec
===============================================================================
