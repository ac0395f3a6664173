---------------------------- MODULE BinderRefsProofs ----------------------------
(***************************************************************************)
(* Proofs about BinderRefs, for any processes, threads, objects, buffers   *)
(* and bounds: the counts of a node are what refers to it, nothing that is *)
(* referred to is freed, the claims of its process are nested, and that    *)
(* process knows what it may not drop, or the work to tell it is queued,   *)
(* unless a thread exited with that work; and a process that lets go only  *)
(* of what it holds finds its counts behind each of its handles.           *)
(***************************************************************************)
EXTENDS BinderRefs, FiniteSetTheorems, WellFoundedInduction, TLAPS

-------------------------------------------------------------------------------
(* One node and what refers to it *)

Mgr(n) == One(n \in Managers)

\* Node nd of object n, whose process is up or not, and which is the context
\* manager's (mg) or not: the processes S with a strong count and H with a
\* reference, the buffers T addressed to it, the strong and weak objects LS and LW.
Sound(n, nd, up, mg, S, H, T, LS, LW) ==
    /\ nd \in Node /\ S \subseteq H
    /\ mg => nd.st = "live" /\ n \in Managers
    /\ nd.iS = Cardinality(S)
    /\ nd.st = "live" =>
         /\ up
         /\ nd.lS = Cardinality(T) + Cardinality(LS) + One(nd.pS) + Mgr(n)
         /\ nd.lW = Cardinality(LW) + One(nd.pW) + Mgr(n)
         /\ (nd.pS => nd.hS) /\ (nd.pW => nd.hW) /\ (nd.hS => nd.hW)
    /\ nd.st = "dead" => nd.lS = 0 /\ nd.lW = 0 /\ H # {} /\ ~up
    /\ nd.st = "none" => H = {}
    /\ nd.st # "live" => T = {} /\ LS = {} /\ LW = {} /\ nd.work = NIL

LEMMA CardIs ==
    ASSUME NEW S, IsFiniteSet(S)
    PROVE  /\ Cardinality(S) \in Nat /\ (Cardinality(S) = 0 <=> S = {})
           /\ \A x : /\ IsFiniteSet(S \cup {x}) /\ IsFiniteSet(S \ {x})
                     /\ x \notin S => Cardinality(S \cup {x}) = Cardinality(S) + 1
                     /\ x \in S => /\ Cardinality(S \ {x}) = Cardinality(S) - 1
                                   /\ Cardinality(S) > 0
<1>1. Cardinality(S) \in Nat /\ (Cardinality(S) = 0 <=> S = {})
  BY FS_CardinalityType, FS_EmptySet
<1>2. ASSUME NEW x
      PROVE  /\ IsFiniteSet(S \cup {x}) /\ IsFiniteSet(S \ {x})
             /\ x \notin S => Cardinality(S \cup {x}) = Cardinality(S) + 1
             /\ x \in S => Cardinality(S \ {x}) = Cardinality(S) - 1
  BY FS_AddElement, FS_RemoveElement
<1>3. \A x \in S : Cardinality(S) > 0
  BY <1>1
<1>. QED
  BY <1>1, <1>2, <1>3

LEMMA OneIs == \A b : One(b) \in Nat /\ (One(b) = 0 <=> ~b) /\ (b => One(b) = 1)
BY DEF One

LEMMA MgrIs ==
    ASSUME NEW n
    PROVE  /\ Mgr(n) \in Nat /\ (Mgr(n) = 0 <=> n \notin Managers)
           /\ (n \in Managers => Mgr(n) = 1)
BY DEF Mgr, One

LEMMA NoNodeIs ==
    /\ NoNode \in Node /\ NewNode \in Node
    /\ NewNode.st = "live" /\ NewNode.iS = 0 /\ NewNode.lS = 0 /\ NewNode.lW = 0
    /\ ~NewNode.hS /\ ~NewNode.pS /\ ~NewNode.hW /\ ~NewNode.pW /\ NewNode.work = NIL
<1>1. NoNode \in Node
  BY DEF NoNode, Node
<1>2. NewNode = [NoNode EXCEPT !.st = "live"]
  BY DEF NewNode
<1>3. NewNode \in Node /\ NewNode.st = "live"
  BY <1>1, <1>2 DEF Node
<1>. QED
  BY <1>1, <1>2, <1>3 DEF NoNode

LEMMA NoNodeSound ==
    ASSUME NEW n, NEW up, NEW mg, ~mg
    PROVE  Sound(n, NoNode, up, mg, {}, {}, {}, {}, {})
BY NoNodeIs, FS_EmptySet DEF Sound, NoNode

\* A node just made, which nothing refers to.
LEMMA NewNodeSound ==
    ASSUME NEW n \in Nodes \ Managers, NEW up, NEW mg, up,
           NEW nd, nd.st = "none", NEW S, NEW H, NEW T, NEW LS, NEW LW,
           Sound(n, nd, up, mg, S, H, T, LS, LW)
    PROVE  Sound(n, NewNode, up, mg, S, H, T, LS, LW)
<1>1. S = {} /\ H = {} /\ T = {} /\ LS = {} /\ LW = {}
  BY DEF Sound
<1>2. Cardinality({}) = 0 /\ One(FALSE) = 0 /\ n \notin Managers
  BY FS_EmptySet DEF One
<1>3. One(NewNode.pS) = 0 /\ One(NewNode.pW) = 0 /\ Mgr(n) = 0
  BY <1>2, NoNodeIs, MgrIs DEF One
<1>. QED
  BY <1>1, <1>2, <1>3, NoNodeIs DEF Sound

\* A reference more.
LEMMA HeldSound ==
    ASSUME NEW n, NEW nd, NEW up, NEW mg, NEW S, NEW H, NEW T, NEW LS, NEW LW,
           Sound(n, nd, up, mg, S, H, T, LS, LW), nd.st # "none", NEW p
    PROVE  Sound(n, nd, up, mg, S, H \cup {p}, T, LS, LW)
BY DEF Sound

LEMMA IncStrongSound ==
    ASSUME NEW n, NEW nd, NEW up, NEW mg, NEW S, NEW H, NEW T, NEW LS, NEW LW,
           Sound(n, nd, up, mg, S, H, T, LS, LW), nd.st # "none", IsFiniteSet(S),
           NEW p, p \notin S, NEW list \in Threads \cup {NIL}, list # NIL => nd.st = "live"
    PROVE  Sound(n, IncStrong(nd, list), up, mg, S \cup {p}, H \cup {p}, T, LS, LW)
<1>. DEFINE d == IncStrong(nd, list)
<1>1. /\ d \in Node /\ d.st = nd.st /\ d.iS = nd.iS + 1 /\ d.lS = nd.lS /\ d.lW = nd.lW
      /\ d.pS = nd.pS /\ d.pW = nd.pW /\ d.hS = nd.hS /\ d.hW = nd.hW
      /\ d.work \in {nd.work, list} /\ (list = NIL => d.work = nd.work)
  <2>. DEFINE w == IF ~nd.hS /\ list # NIL THEN list ELSE nd.work
  <2>1. d = [nd EXCEPT !.iS = @ + 1, !.work = w]
    BY DEF IncStrong
  <2>2. nd \in Node /\ w \in Threads \cup Procs \cup {NIL}
    BY DEF Sound, Node
  <2>3. w \in {nd.work, list} /\ (list = NIL => w = nd.work)
    OBVIOUS
  <2>. HIDE DEF w, d
  <2>4. d \in Node
    <3>. DEFINE e == [nd EXCEPT !.iS = @ + 1]
    <3>1. nd.iS + 1 \in Nat
      BY <2>2 DEF Node
    <3>2. e \in Node
      BY <2>2, <3>1 DEF Node
    <3>3. d = [e EXCEPT !.work = w]
      BY <2>1, <2>2 DEF Node
    <3>. HIDE DEF e
    <3>. QED
      BY <2>2, <3>2, <3>3 DEF Node
  <2>5. d.st = nd.st /\ d.iS = nd.iS + 1 /\ d.lS = nd.lS /\ d.lW = nd.lW /\ d.work = w
    BY <2>1, <2>2 DEF Node
  <2>6. d.pS = nd.pS /\ d.pW = nd.pW /\ d.hS = nd.hS /\ d.hW = nd.hW
    BY <2>1, <2>2 DEF Node
  <2>. QED
    BY <2>3, <2>4, <2>5, <2>6
<1>2. Cardinality(S \cup {p}) = nd.iS + 1
  BY CardIs DEF Sound
<1>. HIDE DEF d
<1>. QED
  BY <1>1, <1>2 DEF Sound, d

LEMMA IncWeakSound ==
    ASSUME NEW n, NEW nd, NEW up, NEW mg, NEW S, NEW H, NEW T, NEW LS, NEW LW,
           Sound(n, nd, up, mg, S, H, T, LS, LW), nd.st # "none",
           NEW p, NEW list \in Threads \cup {NIL}, list # NIL => nd.st = "live"
    PROVE  Sound(n, IncWeak(nd, list), up, mg, S, H \cup {p}, T, LS, LW)
<1>. DEFINE d == IncWeak(nd, list)
<1>1. /\ d \in Node /\ d.st = nd.st /\ d.iS = nd.iS /\ d.lS = nd.lS /\ d.lW = nd.lW
      /\ d.pS = nd.pS /\ d.pW = nd.pW /\ d.hS = nd.hS /\ d.hW = nd.hW
      /\ d.work \in {nd.work, list} /\ (list = NIL => d.work = nd.work)
  BY DEF Sound, IncWeak, Node
<1>. HIDE DEF d
<1>. QED
  BY <1>1 DEF Sound, d

\* A node that its process is told of, or freed if nothing is left.
LEMMA SettledSound ==
    ASSUME NEW n \in Nodes, NEW nd, NEW up, NEW mg, NEW S, NEW H, NEW T, NEW LS, NEW LW,
           Sound(n, nd, up, mg, S, H, T, LS, LW), NEW alone, alone => H = {},
           IsFiniteSet(T), IsFiniteSet(LS), IsFiniteSet(LW)
    PROVE  Sound(n, Settled(n, nd, alone), up, mg, S, H, T, LS, LW)
<1>1. CASE nd.st = "live" /\ (nd.hS \/ nd.hW)
  <2>. DEFINE d == [nd EXCEPT !.work = IF @ = NIL THEN Owner[n] ELSE @]
  <2>1. Settled(n, nd, alone) = d
    BY <1>1 DEF Settled
  <2>2. /\ d \in Node /\ d.st = nd.st /\ d.iS = nd.iS /\ d.lS = nd.lS /\ d.lW = nd.lW
        /\ d.pS = nd.pS /\ d.pW = nd.pW /\ d.hS = nd.hS /\ d.hW = nd.hW
    BY RefsOwner DEF Sound, Node
  <2>. HIDE DEF d
  <2>. QED
    BY <1>1, <2>1, <2>2 DEF Sound
<1>2. CASE ~(nd.st = "live" /\ (nd.hS \/ nd.hW)) /\ alone /\ nd.lS = 0 /\ nd.lW = 0
  <2>1. Settled(n, nd, alone) = NoNode
    BY <1>2 DEF Settled
  <2>2. H = {} /\ S = {}
    BY <1>2 DEF Sound
  <2>4. ~mg
    <3>1. CASE nd.st = "live" /\ mg
      <4>1. /\ n \in Managers
            /\ Cardinality(T) + Cardinality(LS) + One(nd.pS) + Mgr(n) = 0
        BY <1>2, <3>1 DEF Sound
      <4>2. Mgr(n) = 1
        BY <4>1, OneIs, MgrIs
      <4>. QED
        BY <4>1, <4>2, CardIs, OneIs, MgrIs
    <3>. QED
      BY <3>1 DEF Sound
  <2>3. T = {} /\ LS = {} /\ LW = {}
    <3>1. CASE nd.st = "live"
      <4>1. /\ Cardinality(T) + Cardinality(LS) + One(nd.pS) + Mgr(n) = 0
            /\ Cardinality(LW) + One(nd.pW) + Mgr(n) = 0
        BY <1>2, <3>1 DEF Sound
      <4>2. Cardinality(T) = 0 /\ Cardinality(LS) = 0 /\ Cardinality(LW) = 0
        BY <4>1, CardIs, OneIs, MgrIs
      <4>. QED
        BY <4>2, CardIs
    <3>2. CASE nd.st # "live"
      BY <3>2 DEF Sound
    <3>. QED
      BY <3>1, <3>2
  <2>. QED
    BY <2>1, <2>2, <2>3, <2>4, NoNodeSound
<1>3. CASE /\ ~(nd.st = "live" /\ (nd.hS \/ nd.hW))
           /\ ~(alone /\ nd.lS = 0 /\ nd.lW = 0)
  BY <1>3 DEF Settled
<1>. QED
  BY <1>1, <1>2, <1>3

\* A process gives its last strong count on n back.
LEMMA DecStrongSound ==
    ASSUME NEW n \in Nodes, NEW nd, NEW up, NEW mg, NEW S, NEW H, NEW T, NEW LS, NEW LW,
           Sound(n, nd, up, mg, S, H, T, LS, LW), NEW p \in S,
           IsFiniteSet(S), IsFiniteSet(T), IsFiniteSet(LS), IsFiniteSet(LW)
    PROVE  Sound(n, DecStrong(n, nd), up, mg, S \ {p}, H, T, LS, LW)
<1>. DEFINE d == [nd EXCEPT !.iS = @ - 1]
<1>1. Cardinality(S \ {p}) = nd.iS - 1 /\ nd.iS > 0
  <2>1. nd.iS = Cardinality(S)
    BY DEF Sound
  <2>. QED
    BY <2>1, CardIs
<1>2. /\ d \in Node /\ d.st = nd.st /\ d.iS = nd.iS - 1 /\ d.lS = nd.lS /\ d.lW = nd.lW
      /\ d.pS = nd.pS /\ d.pW = nd.pW /\ d.hS = nd.hS /\ d.hW = nd.hW /\ d.work = nd.work
  BY <1>1 DEF Sound, Node
<1>3. DecStrong(n, nd) = IF d.iS # 0 \/ d.lS # 0 THEN d ELSE Settled(n, d, FALSE)
  BY DEF DecStrong
<1>. HIDE DEF d
<1>4. Sound(n, d, up, mg, S \ {p}, H, T, LS, LW)
  BY <1>1, <1>2 DEF Sound
<1>5. Sound(n, Settled(n, d, FALSE), up, mg, S \ {p}, H, T, LS, LW)
  BY <1>4, SettledSound
<1>. QED
  BY <1>3, <1>4, <1>5

\* The reference of p, which has no strong count left, goes.
LEMMA DecWeakSound ==
    ASSUME NEW n \in Nodes, NEW nd, NEW up, NEW mg, NEW S, NEW H, NEW T, NEW LS, NEW LW,
           Sound(n, nd, up, mg, S, H, T, LS, LW), NEW p \in H, p \notin S,
           IsFiniteSet(T), IsFiniteSet(LS), IsFiniteSet(LW)
    PROVE  Sound(n, DecWeak(n, nd, H = {p}), up, mg, S, H \ {p}, T, LS, LW)
<1>1. CASE nd.lW # 0 \/ H # {p}
  <2>1. DecWeak(n, nd, H = {p}) = nd
    BY <1>1 DEF DecWeak
  <2>2. H # {p} => H \ {p} # {}
    OBVIOUS
  <2>3. nd.st # "none" /\ (nd.st = "dead" => H # {p})
    BY <1>1 DEF Sound
  <2>. QED
    BY <2>1, <2>2, <2>3 DEF Sound
<1>2. CASE nd.lW = 0 /\ H = {p}
  <2>1. DecWeak(n, nd, H = {p}) = Settled(n, nd, TRUE)
    BY <1>2 DEF DecWeak
  <2>2. CASE nd.st = "live"
    <3>1. Sound(n, nd, up, mg, S, {}, T, LS, LW)
      BY <1>2, <2>2 DEF Sound
    <3>2. Sound(n, Settled(n, nd, TRUE), up, mg, S, {}, T, LS, LW)
      BY <3>1, SettledSound
    <3>3. H \ {p} = {}
      BY <1>2
    <3>. QED
      BY <2>1, <3>2, <3>3
  <2>3. CASE nd.st = "dead"
    <3>1. Settled(n, nd, TRUE) = NoNode
      BY <1>2, <2>3 DEF Settled, Sound
    <3>2. ~mg /\ S = {} /\ H \ {p} = {} /\ T = {} /\ LS = {} /\ LW = {}
      BY <1>2, <2>3 DEF Sound
    <3>3. Sound(n, NoNode, up, mg, {}, {}, {}, {}, {})
      BY <3>2, NoNodeSound
    <3>. QED
      BY <2>1, <3>1, <3>2, <3>3
  <2>. QED
    BY <2>2, <2>3 DEF Sound, Node
<1>. QED
  BY <1>1, <1>2

\* binder_dec_node from a local count: d is the node without it.
LEMMA DecLocalSound ==
    ASSUME NEW n \in Nodes, NEW nd, NEW strong, NEW up, NEW mg, NEW S, NEW T, NEW LS, NEW LW,
           NEW d, d = IF strong THEN [nd EXCEPT !.lS = @ - 1] ELSE [nd EXCEPT !.lW = @ - 1],
           Sound(n, d, up, mg, S, Holders(n), T, LS, LW),
           IsFiniteSet(T), IsFiniteSet(LS), IsFiniteSet(LW)
    PROVE  Sound(n, DecLocal(n, nd, strong, Holders(n) = {}), up, mg, S, Holders(n), T, LS, LW)
<1>1. DecLocal(n, nd, strong, Holders(n) = {}) \in {d, Settled(n, d, Holders(n) = {})}
  BY DEF DecLocal
<1>2. Sound(n, Settled(n, d, Holders(n) = {}), up, mg, S, Holders(n), T, LS, LW)
  BY SettledSound
<1>. QED
  BY <1>1, <1>2

Recounted(nd, lS, lW) == [nd EXCEPT !.lS = lS, !.lW = lW]

\* A live node whose local counts have changed with what they count.
LEMMA RecountSound ==
    ASSUME NEW n, NEW nd, NEW up, NEW mg, NEW S, NEW H, NEW T, NEW LS, NEW LW,
           Sound(n, nd, up, mg, S, H, T, LS, LW), nd.st = "live",
           NEW lS \in Nat, NEW lW \in Nat, NEW T2, NEW LS2, NEW LW2,
           lS = Cardinality(T2) + Cardinality(LS2) + One(nd.pS) + Mgr(n),
           lW = Cardinality(LW2) + One(nd.pW) + Mgr(n)
    PROVE  Sound(n, Recounted(nd, lS, lW), up, mg, S, H, T2, LS2, LW2)
<1>. DEFINE d == Recounted(nd, lS, lW)
<1>1. nd \in Node
  BY DEF Sound
<1>2. /\ d \in Node /\ d.st = "live" /\ d.iS = nd.iS /\ d.lS = lS /\ d.lW = lW
      /\ d.pS = nd.pS /\ d.pW = nd.pW /\ d.hS = nd.hS /\ d.hW = nd.hW
  BY <1>1 DEF Node, Recounted
<1>. HIDE DEF d
<1>3. Sound(n, d, up, mg, S, H, T2, LS2, LW2)
  BY <1>2 DEF Sound
<1>. QED
  BY <1>3 DEF d

\* A buffer addressed to the node is let go, or an object in a buffer.
LEMMA LetGoSound ==
    ASSUME NEW n \in Nodes, NEW nd, NEW up, NEW mg, NEW S, NEW T, NEW LS, NEW LW,
           Sound(n, nd, up, mg, S, Holders(n), T, LS, LW),
           IsFiniteSet(T), IsFiniteSet(LS), IsFiniteSet(LW), NEW x
    PROVE  /\ x \in T => Sound(n, DecLocal(n, nd, TRUE, Holders(n) = {}), up, mg, S, Holders(n),
                               T \ {x}, LS, LW)
           /\ x \in LS => Sound(n, DecLocal(n, nd, TRUE, Holders(n) = {}), up, mg, S, Holders(n),
                                T, LS \ {x}, LW)
           /\ x \in LW => Sound(n, DecLocal(n, nd, FALSE, Holders(n) = {}), up, mg, S, Holders(n),
                                T, LS, LW \ {x})
<1>1. /\ nd \in Node /\ Cardinality(T) \in Nat /\ Cardinality(LS) \in Nat /\ Cardinality(LW) \in Nat
      /\ IsFiniteSet(T \ {x}) /\ IsFiniteSet(LS \ {x}) /\ IsFiniteSet(LW \ {x})
      /\ One(nd.pS) \in Nat /\ One(nd.pW) \in Nat /\ Mgr(n) \in Nat
      /\ nd.lS \in Nat /\ nd.lW \in Nat
  BY CardIs, OneIs, MgrIs DEF Sound, Node
<1>2. x \in T \/ x \in LS \/ x \in LW =>
        /\ nd.st = "live"
        /\ nd.lS = Cardinality(T) + Cardinality(LS) + One(nd.pS) + Mgr(n)
        /\ nd.lW = Cardinality(LW) + One(nd.pW) + Mgr(n)
  BY DEF Sound
<1>3. /\ x \in T => Cardinality(T \ {x}) = Cardinality(T) - 1 /\ Cardinality(T) > 0
      /\ x \in LS => Cardinality(LS \ {x}) = Cardinality(LS) - 1 /\ Cardinality(LS) > 0
      /\ x \in LW => Cardinality(LW \ {x}) = Cardinality(LW) - 1 /\ Cardinality(LW) > 0
  BY CardIs
<1>4. /\ [nd EXCEPT !.lS = @ - 1] = Recounted(nd, nd.lS - 1, nd.lW)
      /\ [nd EXCEPT !.lW = @ - 1] = Recounted(nd, nd.lS, nd.lW - 1)
  BY <1>1 DEF Node, Recounted
<1>5. ASSUME x \in T
      PROVE  Sound(n, DecLocal(n, nd, TRUE, Holders(n) = {}), up, mg, S, Holders(n), T \ {x}, LS, LW)
  <2>1. /\ nd.lS - 1 \in Nat
        /\ nd.lS - 1 = Cardinality(T \ {x}) + Cardinality(LS) + One(nd.pS) + Mgr(n)
    BY <1>1, <1>2, <1>3, <1>5
  <2>2. Sound(n, [nd EXCEPT !.lS = @ - 1], up, mg, S, Holders(n), T \ {x}, LS, LW)
    BY <1>1, <1>2, <1>4, <1>5, <2>1, RecountSound
  <2>. QED
    BY <1>1, <2>2, DecLocalSound
<1>6. ASSUME x \in LS
      PROVE  Sound(n, DecLocal(n, nd, TRUE, Holders(n) = {}), up, mg, S, Holders(n), T, LS \ {x}, LW)
  <2>1. /\ nd.lS - 1 \in Nat
        /\ nd.lS - 1 = Cardinality(T) + Cardinality(LS \ {x}) + One(nd.pS) + Mgr(n)
    BY <1>1, <1>2, <1>3, <1>6
  <2>2. Sound(n, [nd EXCEPT !.lS = @ - 1], up, mg, S, Holders(n), T, LS \ {x}, LW)
    BY <1>1, <1>2, <1>4, <1>6, <2>1, RecountSound
  <2>. QED
    BY <1>1, <2>2, DecLocalSound
<1>7. ASSUME x \in LW
      PROVE  Sound(n, DecLocal(n, nd, FALSE, Holders(n) = {}), up, mg, S, Holders(n), T, LS, LW \ {x})
  <2>1. /\ nd.lW - 1 \in Nat
        /\ nd.lW - 1 = Cardinality(LW \ {x}) + One(nd.pW) + Mgr(n)
    BY <1>1, <1>2, <1>3, <1>7
  <2>2. Sound(n, [nd EXCEPT !.lW = @ - 1], up, mg, S, Holders(n), T, LS, LW \ {x})
    BY <1>1, <1>2, <1>4, <1>7, <2>1, RecountSound
  <2>. QED
    BY <1>1, <2>2, DecLocalSound
<1>. QED
  BY <1>5, <1>6, <1>7

\* A buffer more addressed to the node, or an object more in a buffer.
LEMMA IncLocalSound ==
    ASSUME NEW n \in Nodes, NEW nd, NEW up, NEW mg, NEW S, NEW H, NEW T, NEW LS, NEW LW,
           Sound(n, nd, up, mg, S, H, T, LS, LW), nd.st = "live",
           IsFiniteSet(T), IsFiniteSet(LS), IsFiniteSet(LW), NEW x
    PROVE  /\ x \notin T => Sound(n, IncLocal(nd, TRUE), up, mg, S, H, T \cup {x}, LS, LW)
           /\ x \notin LS => Sound(n, IncLocal(nd, TRUE), up, mg, S, H, T, LS \cup {x}, LW)
           /\ x \notin LW => Sound(n, IncLocal(nd, FALSE), up, mg, S, H, T, LS, LW \cup {x})
<1>1. /\ nd \in Node /\ Cardinality(T) \in Nat /\ Cardinality(LS) \in Nat /\ Cardinality(LW) \in Nat
      /\ One(nd.pS) \in Nat /\ One(nd.pW) \in Nat /\ Mgr(n) \in Nat
      /\ nd.lS \in Nat /\ nd.lW \in Nat
  BY CardIs, OneIs, MgrIs DEF Sound, Node
<1>2. /\ nd.lS = Cardinality(T) + Cardinality(LS) + One(nd.pS) + Mgr(n)
      /\ nd.lW = Cardinality(LW) + One(nd.pW) + Mgr(n)
  BY DEF Sound
<1>3. /\ x \notin T => Cardinality(T \cup {x}) = Cardinality(T) + 1
      /\ x \notin LS => Cardinality(LS \cup {x}) = Cardinality(LS) + 1
      /\ x \notin LW => Cardinality(LW \cup {x}) = Cardinality(LW) + 1
  BY CardIs
<1>4. /\ IncLocal(nd, TRUE) = Recounted(nd, nd.lS + 1, nd.lW)
      /\ IncLocal(nd, FALSE) = Recounted(nd, nd.lS, nd.lW + 1)
  BY <1>1 DEF Node, IncLocal, Recounted
<1>5. ASSUME x \notin T PROVE Sound(n, IncLocal(nd, TRUE), up, mg, S, H, T \cup {x}, LS, LW)
  <2>1. /\ nd.lS + 1 \in Nat
        /\ nd.lS + 1 = Cardinality(T \cup {x}) + Cardinality(LS) + One(nd.pS) + Mgr(n)
    BY <1>1, <1>2, <1>3, <1>5
  <2>. QED
    BY <1>1, <1>2, <1>4, <2>1, RecountSound
<1>6. ASSUME x \notin LS PROVE Sound(n, IncLocal(nd, TRUE), up, mg, S, H, T, LS \cup {x}, LW)
  <2>1. /\ nd.lS + 1 \in Nat
        /\ nd.lS + 1 = Cardinality(T) + Cardinality(LS \cup {x}) + One(nd.pS) + Mgr(n)
    BY <1>1, <1>2, <1>3, <1>6
  <2>. QED
    BY <1>1, <1>2, <1>4, <2>1, RecountSound
<1>7. ASSUME x \notin LW PROVE Sound(n, IncLocal(nd, FALSE), up, mg, S, H, T, LS, LW \cup {x})
  <2>1. /\ nd.lW + 1 \in Nat
        /\ nd.lW + 1 = Cardinality(LW \cup {x}) + One(nd.pW) + Mgr(n)
    BY <1>1, <1>2, <1>3, <1>7
  <2>2. Sound(n, Recounted(nd, nd.lS, nd.lW + 1), up, mg, S, H, T, LS, LW \cup {x})
    BY <1>1, <1>2, <2>1, RecountSound
  <2>. QED
    BY <1>4, <2>2
<1>. QED
  BY <1>5, <1>6, <1>7

\* BC_ACQUIRE_DONE and BC_INCREFS_DONE.
LEMMA DoneSound ==
    ASSUME NEW n \in Nodes, NEW nd, NEW up, NEW mg, NEW S, NEW T, NEW LS, NEW LW,
           Sound(n, nd, up, mg, S, Holders(n), T, LS, LW), nd.st = "live",
           IsFiniteSet(T), IsFiniteSet(LS), IsFiniteSet(LW)
    PROVE  /\ nd.pS => Sound(n, DecLocal(n, [nd EXCEPT !.pS = FALSE], TRUE, Holders(n) = {}),
                             up, mg, S, Holders(n), T, LS, LW)
           /\ nd.pW => Sound(n, DecLocal(n, [nd EXCEPT !.pW = FALSE], FALSE, Holders(n) = {}),
                             up, mg, S, Holders(n), T, LS, LW)
<1>1. /\ nd \in Node /\ Cardinality(T) \in Nat /\ Cardinality(LS) \in Nat /\ Cardinality(LW) \in Nat
      /\ Mgr(n) \in Nat /\ nd.lS \in Nat /\ nd.lW \in Nat
  BY CardIs, OneIs, MgrIs DEF Sound, Node
<1>2. /\ nd.lS = Cardinality(T) + Cardinality(LS) + One(nd.pS) + Mgr(n)
      /\ nd.lW = Cardinality(LW) + One(nd.pW) + Mgr(n)
  BY DEF Sound
<1>3. ASSUME nd.pS
      PROVE  Sound(n, DecLocal(n, [nd EXCEPT !.pS = FALSE], TRUE, Holders(n) = {}),
                   up, mg, S, Holders(n), T, LS, LW)
  <2>. DEFINE e == [nd EXCEPT !.pS = FALSE]
              d == [e EXCEPT !.lS = @ - 1]
  <2>0. One(nd.pS) = 1
    BY <1>3 DEF One
  <2>1. nd.lS - 1 = Cardinality(T) + Cardinality(LS) + Mgr(n)
        /\ nd.lS - 1 \in Nat
    <3>1. nd.lS = Cardinality(T) + Cardinality(LS) + 1 + Mgr(n)
      BY <1>2, <2>0
    <3>. QED
      BY <1>1, <3>1
  <2>2. /\ d \in Node /\ d.st = nd.st /\ d.iS = nd.iS /\ d.lS = nd.lS - 1 /\ d.lW = nd.lW
        /\ d.pS = FALSE /\ d.pW = nd.pW /\ d.hS = nd.hS /\ d.hW = nd.hW
    BY <1>1, <2>1 DEF Node
  <2>. HIDE DEF d
  <2>6. One(d.pS) = 0
    BY <2>2 DEF One
  <2>3. Sound(n, d, up, mg, S, Holders(n), T, LS, LW)
    BY <1>1, <2>1, <2>2, <2>6 DEF Sound
  <2>4. d = IF TRUE THEN [e EXCEPT !.lS = @ - 1] ELSE [e EXCEPT !.lW = @ - 1]
    BY DEF d
  <2>. HIDE DEF e
  <2>5. Sound(n, DecLocal(n, e, TRUE, Holders(n) = {}), up, mg, S, Holders(n), T, LS, LW)
    BY <2>3, <2>4, DecLocalSound
  <2>. QED
    BY <2>5 DEF e
<1>4. ASSUME nd.pW
      PROVE  Sound(n, DecLocal(n, [nd EXCEPT !.pW = FALSE], FALSE, Holders(n) = {}),
                   up, mg, S, Holders(n), T, LS, LW)
  <2>. DEFINE e == [nd EXCEPT !.pW = FALSE]
              d == [e EXCEPT !.lW = @ - 1]
  <2>0. One(nd.pW) = 1
    BY <1>4 DEF One
  <2>1. nd.lW - 1 = Cardinality(LW) + Mgr(n) /\ nd.lW - 1 \in Nat
    <3>1. nd.lW = Cardinality(LW) + 1 + Mgr(n)
      BY <1>2, <2>0
    <3>. QED
      BY <1>1, <3>1
  <2>2. /\ d \in Node /\ d.st = nd.st /\ d.iS = nd.iS /\ d.lS = nd.lS /\ d.lW = nd.lW - 1
        /\ d.pS = nd.pS /\ d.pW = FALSE /\ d.hS = nd.hS /\ d.hW = nd.hW
    BY <1>1, <2>1 DEF Node
  <2>. HIDE DEF d
  <2>6. One(d.pW) = 0
    BY <2>2 DEF One
  <2>3. Sound(n, d, up, mg, S, Holders(n), T, LS, LW)
    BY <1>1, <2>1, <2>2, <2>6 DEF Sound
  <2>4. d = IF FALSE THEN [e EXCEPT !.lS = @ - 1] ELSE [e EXCEPT !.lW = @ - 1]
    BY DEF d
  <2>. HIDE DEF e
  <2>5. Sound(n, DecLocal(n, e, FALSE, Holders(n) = {}), up, mg, S, Holders(n), T, LS, LW)
    BY <2>3, <2>4, DecLocalSound
  <2>. QED
    BY <2>5 DEF e
<1>. QED
  BY <1>3, <1>4

\* A node whose claims have changed with the counts they stand for, or whose
\* work has.
LEMMA ClaimSound ==
    ASSUME NEW n, NEW nd, NEW up, NEW mg, NEW S, NEW H, NEW T, NEW LS, NEW LW,
           Sound(n, nd, up, mg, S, H, T, LS, LW), nd.st = "live",
           IsFiniteSet(T), IsFiniteSet(LS), IsFiniteSet(LW),
           NEW d \in Node, d.st = "live", d.iS = nd.iS,
           d.lS - One(d.pS) = nd.lS - One(nd.pS), d.lW - One(d.pW) = nd.lW - One(nd.pW),
           d.pS => d.hS, d.pW => d.hW, d.hS => d.hW
    PROVE  Sound(n, d, up, mg, S, H, T, LS, LW)
<1>1. /\ nd \in Node /\ up /\ S \subseteq H /\ (mg => n \in Managers) /\ nd.iS = Cardinality(S)
      /\ nd.lS = Cardinality(T) + Cardinality(LS) + One(nd.pS) + Mgr(n)
      /\ nd.lW = Cardinality(LW) + One(nd.pW) + Mgr(n)
  BY DEF Sound
<1>2. /\ d.lS \in Nat /\ d.lW \in Nat /\ nd.lS \in Nat /\ nd.lW \in Nat
      /\ One(d.pS) \in Nat /\ One(d.pW) \in Nat /\ One(nd.pS) \in Nat /\ One(nd.pW) \in Nat
      /\ Mgr(n) \in Nat
      /\ Cardinality(T) \in Nat /\ Cardinality(LS) \in Nat /\ Cardinality(LW) \in Nat
  BY <1>1, OneIs, MgrIs, CardIs DEF Node
<1>3. /\ d.lS = Cardinality(T) + Cardinality(LS) + One(d.pS) + Mgr(n)
      /\ d.lW = Cardinality(LW) + One(d.pW) + Mgr(n)
  <2>1. /\ Cardinality(T) + Cardinality(LS) + Mgr(n) = nd.lS - One(nd.pS)
        /\ Cardinality(LW) + Mgr(n) = nd.lW - One(nd.pW)
    BY <1>1, <1>2
  <2>. QED
    BY <1>2, <2>1
<1>. QED
  BY <1>1, <1>3 DEF Sound

\* One pass of binder_thread_read over the node.
LEMMA ToldSound ==
    ASSUME NEW n \in Nodes, NEW nd, NEW up, NEW mg, NEW S, NEW T, NEW LS, NEW LW,
           Sound(n, nd, up, mg, S, Holders(n), T, LS, LW), nd.st = "live",
           IsFiniteSet(S), IsFiniteSet(T), IsFiniteSet(LS), IsFiniteSet(LW)
    PROVE  Sound(n, Told(n, nd), up, mg, S, Holders(n), T, LS, LW)
<1>1. /\ nd \in Node /\ (nd.pS => nd.hS) /\ (nd.pW => nd.hW) /\ (nd.hS => nd.hW)
      /\ nd.lS = Cardinality(T) + Cardinality(LS) + One(nd.pS) + Mgr(n)
      /\ nd.lW = Cardinality(LW) + One(nd.pW) + Mgr(n)
  BY DEF Sound
<1>0. nd.lS \in Nat /\ nd.lS + 1 \in Nat /\ nd.lW \in Nat /\ nd.lW + 1 \in Nat
  BY <1>1 DEF Node
<1>2. /\ nd.lS = 0 => ~nd.pS /\ T = {} /\ LS = {}
      /\ nd.lW = 0 => ~nd.pW /\ LW = {} /\ n \notin Managers
  <2>1. /\ Cardinality(T) \in Nat /\ Cardinality(LS) \in Nat /\ Cardinality(LW) \in Nat
        /\ One(nd.pS) \in Nat /\ One(nd.pW) \in Nat /\ Mgr(n) \in Nat
    BY CardIs, OneIs, MgrIs
  <2>2. /\ nd.lS = Cardinality(T) + Cardinality(LS) + One(nd.pS) + Mgr(n)
        /\ nd.lW = Cardinality(LW) + One(nd.pW) + Mgr(n)
    BY <1>1
  <2>3. nd.lS = 0 => Cardinality(T) = 0 /\ Cardinality(LS) = 0 /\ One(nd.pS) = 0
    BY <2>1, <2>2
  <2>4. nd.lW = 0 => Cardinality(LW) = 0 /\ One(nd.pW) = 0 /\ Mgr(n) = 0
    BY <2>1, <2>2
  <2>5. /\ Cardinality(T) = 0 => T = {}
        /\ Cardinality(LS) = 0 => LS = {}
        /\ Cardinality(LW) = 0 => LW = {}
    BY CardIs
  <2>6. /\ One(nd.pS) = 0 => ~nd.pS
        /\ One(nd.pW) = 0 => ~nd.pW
        /\ Mgr(n) = 0 => n \notin Managers
    BY OneIs, MgrIs
  <2>. QED
    BY <2>3, <2>4, <2>5, <2>6
<1>3. nd.pS \in BOOLEAN /\ nd.pW \in BOOLEAN /\ nd.hS \in BOOLEAN /\ nd.hW \in BOOLEAN
  BY <1>1 DEF Node
<1>4. CASE Weak(n, nd) /\ ~nd.hW
  <2>. DEFINE d == [nd EXCEPT !.hW = TRUE, !.pW = TRUE, !.lW = @ + 1]
  <2>1. Told(n, nd) = d
    BY <1>4 DEF Told
  <2>2. /\ d \in Node /\ d.st = "live" /\ d.iS = nd.iS /\ d.lS = nd.lS /\ d.lW = nd.lW + 1
        /\ d.pS = nd.pS /\ d.pW = TRUE /\ d.hS = nd.hS /\ d.hW = TRUE
    BY <1>0, <1>1 DEF Node
  <2>. HIDE DEF d
  <2>3. d.lS - One(d.pS) = nd.lS - One(nd.pS) /\ d.lW - One(d.pW) = nd.lW - One(nd.pW)
    <3>1. One(d.pW) = 1 /\ One(nd.pW) = 0
      BY <1>1, <1>4, <2>2 DEF One
    <3>. QED
      BY <1>0, <2>2, <3>1
  <2>. QED
    BY <1>1, <2>1, <2>2, <2>3, ClaimSound
<1>5. CASE ~(Weak(n, nd) /\ ~nd.hW) /\ Strong(nd) /\ ~nd.hS
  <2>. DEFINE d == [nd EXCEPT !.hS = TRUE, !.pS = TRUE, !.lS = @ + 1]
  <2>1. Told(n, nd) = d
    BY <1>5 DEF Told
  <2>2. /\ d \in Node /\ d.st = "live" /\ d.iS = nd.iS /\ d.lS = nd.lS + 1 /\ d.lW = nd.lW
        /\ d.pS = TRUE /\ d.pW = nd.pW /\ d.hS = TRUE /\ d.hW = nd.hW
    BY <1>0, <1>1 DEF Node
  <2>. HIDE DEF d
  <2>3. d.lS - One(d.pS) = nd.lS - One(nd.pS) /\ d.lW - One(d.pW) = nd.lW - One(nd.pW)
    <3>1. One(d.pS) = 1 /\ One(nd.pS) = 0
      BY <1>1, <1>5, <2>2 DEF One
    <3>. QED
      BY <1>0, <2>2, <3>1
  <2>4. nd.hW
    BY <1>5 DEF Weak
  <2>. QED
    BY <1>1, <2>1, <2>2, <2>3, <2>4, ClaimSound
<1>6. CASE ~(Weak(n, nd) /\ ~nd.hW) /\ ~Strong(nd) /\ nd.hS
  <2>. DEFINE d == [nd EXCEPT !.hS = FALSE]
  <2>1. Told(n, nd) = d
    BY <1>6 DEF Told
  <2>2. /\ d \in Node /\ d.st = "live" /\ d.iS = nd.iS /\ d.lS = nd.lS /\ d.lW = nd.lW
        /\ d.pS = nd.pS /\ d.pW = nd.pW /\ d.hS = FALSE /\ d.hW = nd.hW
    BY <1>0, <1>1 DEF Node
  <2>. HIDE DEF d
  <2>3. ~nd.pS
    BY <1>2, <1>6 DEF Strong
  <2>. QED
    BY <1>1, <2>1, <2>2, <2>3, ClaimSound
<1>7. CASE ~Strong(nd) /\ ~nd.hS /\ ~Weak(n, nd) /\ nd.hW
  <2>. DEFINE d == [nd EXCEPT !.hW = FALSE]
  <2>1. Told(n, nd) = d
    BY <1>7 DEF Told
  <2>2. /\ d \in Node /\ d.st = "live" /\ d.iS = nd.iS /\ d.lS = nd.lS /\ d.lW = nd.lW
        /\ d.pS = nd.pS /\ d.pW = nd.pW /\ d.hS = nd.hS /\ d.hW = FALSE
    BY <1>0, <1>1 DEF Node
  <2>. HIDE DEF d
  <2>3. ~nd.pW
    BY <1>2, <1>7 DEF Weak
  <2>. QED
    BY <1>1, <1>7, <2>1, <2>2, <2>3, ClaimSound
<1>8. CASE Weak(n, nd) /\ nd.hW /\ ~(Strong(nd) /\ ~nd.hS) /\ ~(~Strong(nd) /\ nd.hS)
  <2>. DEFINE d == [nd EXCEPT !.work = NIL]
  <2>1. Told(n, nd) = d
    BY <1>8 DEF Told
  <2>2. /\ d \in Node /\ d.st = "live" /\ d.iS = nd.iS /\ d.lS = nd.lS /\ d.lW = nd.lW
        /\ d.pS = nd.pS /\ d.pW = nd.pW /\ d.hS = nd.hS /\ d.hW = nd.hW
    BY <1>0, <1>1 DEF Node
  <2>. HIDE DEF d
  <2>. QED
    BY <1>1, <2>1, <2>2, ClaimSound
<1>9. CASE ~Weak(n, nd) /\ ~nd.hW
  <2>1. Told(n, nd) = NoNode
    BY <1>1, <1>9 DEF Told, Weak
  <2>2. Holders(n) = {} /\ S = {} /\ T = {} /\ LS = {} /\ LW = {} /\ ~mg
    BY <1>2, <1>9 DEF Weak, Strong, Sound
  <2>. QED
    BY <2>1, <2>2, NoNodeSound
<1>. QED
  BY <1>3, <1>4, <1>5, <1>6, <1>7, <1>8, <1>9 DEF Weak

\* The process of a live node is released: everything in its buffers goes.
LEMMA OrphanSound ==
    ASSUME NEW n, NEW up, NEW mg, NEW S, NEW T, NEW LS, NEW LW, node[n].st = "live",
           Sound(n, node[n], up, mg, S, Holders(n), T, LS, LW)
    PROVE  Sound(n, Orphan(n), FALSE, FALSE, S, Holders(n), {}, {}, {})
<1>1. CASE Holders(n) = {}
  <2>1. S = {} /\ Orphan(n) = NoNode
    BY <1>1 DEF Sound, Orphan
  <2>. QED
    BY <1>1, <2>1, NoNodeSound
<1>2. CASE Holders(n) # {}
  <2>. DEFINE d == [node[n] EXCEPT !.st = "dead", !.lS = 0, !.lW = 0, !.work = NIL]
  <2>1. Orphan(n) = d
    BY <1>2 DEF Orphan
  <2>2. node[n] \in Node
    BY DEF Sound
  <2>3. d \in Node /\ d.st = "dead" /\ d.iS = node[n].iS /\ d.lS = 0 /\ d.lW = 0 /\ d.work = NIL
    BY <2>2 DEF Node
  <2>. HIDE DEF d
  <2>. QED
    BY <1>2, <2>1, <2>3 DEF Sound
<1>. QED
  BY <1>1, <1>2

\* The reference of a process that is released.
LEMMA DeletedSound ==
    ASSUME NEW n \in Nodes, NEW nd, NEW up, NEW mg, NEW S, NEW H, NEW T, NEW LS, NEW LW,
           Sound(n, nd, up, mg, S, H, T, LS, LW), NEW p \in H,
           NEW r, r.s # 0 <=> p \in S,
           IsFiniteSet(S), IsFiniteSet(T), IsFiniteSet(LS), IsFiniteSet(LW)
    PROVE  Sound(n, Deleted(n, nd, r, H = {p}), up, mg, S \ {p}, H \ {p}, T, LS, LW)
<1>. DEFINE d == IF r.s # 0 THEN DecStrong(n, nd) ELSE nd
<1>1. Sound(n, d, up, mg, S \ {p}, H, T, LS, LW)
  <2>1. CASE r.s # 0
    BY <2>1, DecStrongSound
  <2>2. CASE r.s = 0
    <3>1. S \ {p} = S
      BY <2>2
    <3>. QED
      BY <2>2, <3>1
  <2>. QED
    BY <2>1, <2>2
<1>2. Deleted(n, nd, r, H = {p}) = DecWeak(n, d, H = {p})
  BY DEF Deleted
<1>. HIDE DEF d
<1>3. Sound(n, DecWeak(n, d, H = {p}), up, mg, S \ {p}, H \ {p}, T, LS, LW)
  <2>. DEFINE S2 == S \ {p}
  <2>1. p \notin S2
    OBVIOUS
  <2>. HIDE DEF S2
  <2>2. Sound(n, d, up, mg, S2, H, T, LS, LW)
    BY <1>1 DEF S2
  <2>3. Sound(n, DecWeak(n, d, H = {p}), up, mg, S2, H \ {p}, T, LS, LW)
    BY <2>1, <2>2, DecWeakSound
  <2>. QED
    BY <2>3 DEF S2
<1>. QED
  BY <1>2, <1>3

\* The work of a node is taken off its list.
LEMMA UnlistedSound ==
    ASSUME NEW n, NEW nd, NEW up, NEW mg, NEW S, NEW H, NEW T, NEW LS, NEW LW,
           Sound(n, nd, up, mg, S, H, T, LS, LW)
    PROVE  Sound(n, [nd EXCEPT !.work = NIL], up, mg, S, H, T, LS, LW)
<1>. DEFINE d == [nd EXCEPT !.work = NIL]
<1>1. /\ d \in Node /\ d.st = nd.st /\ d.iS = nd.iS /\ d.lS = nd.lS /\ d.lW = nd.lW
      /\ d.pS = nd.pS /\ d.pW = nd.pW /\ d.hS = nd.hS /\ d.hW = nd.hW /\ d.work = NIL
  BY DEF Sound, Node
<1>. HIDE DEF d
<1>2. Sound(n, d, up, mg, S, H, T, LS, LW)
  BY <1>1 DEF Sound
<1>. QED
  BY <1>2 DEF d

-------------------------------------------------------------------------------
(* The state *)

\* Whether the i-th object of buffer k is a local one of node n.
IsLocal(n, strong, k, i) ==
    /\ i \in k.next..Len(k.objs)
    /\ k.objs[i].type = "binder" /\ k.objs[i].node = n /\ k.objs[i].strong = strong

\* What refers to n, in references rf and buffers bf.
Who(rf, n) == {p \in Procs : rf[p][n].desc # NIL}
WhoStrong(rf, n) == {p \in Who(rf, n) : rf[p][n].s > 0}
To(bf, n) == {b \in Bufs : bf[b].target = n}
In(bf, n, strong) ==
    {x \in Bufs \X (1..MaxObjs) : IsLocal(n, strong, bf[x[1]], x[2])}

Up(n) == Owner[n] \in alive
IsMgr(n) == n = mgr
Counts ==
    \A n \in Nodes :
        Sound(n, node[n], Up(n), IsMgr(n), WhoStrong(ref, n), Who(ref, n), To(buf, n),
              In(buf, n, TRUE), In(buf, n, FALSE))

\* Nothing in buffer k is out of place: its process is alive, and what it addresses
\* and carries as an object, not a handle, lives there.
Fits(k, up) ==
    /\ Len(k.objs) <= MaxObjs
    /\ k.next \in 1..(Len(k.objs) + 1)
    /\ k.st # "releasing" => k.next = 1
    /\ k.st = "releasing" => k.target = NIL
    /\ k.st = "free" => k = NoBuf
    /\ k.st # "free" => k.proc \in up
    /\ k.target # NIL => Owner[k.target] = k.proc
    /\ \A i \in 1..Len(k.objs) :
         IF k.objs[i].type = "binder" THEN Owner[k.objs[i].node] = k.proc
         ELSE k.objs[i].desc # NIL

\* The process that fills or releases a buffer is alive.
InHand == busy.buf # NIL => busy.thread \in Threads /\ ProcOf[busy.thread] \in alive

Held == TypeOK /\ Counts /\ InHand /\ \A b \in Bufs : Fits(buf[b], alive)

LEMMA RefersIs ==
    ASSUME NEW n
    PROVE  /\ Holders(n) = Who(ref, n) /\ Targeted(n) = To(buf, n)
           /\ \A strong : Locals(n, strong) = In(buf, n, strong)
BY DEF Holders, Who, Targeted, To, Locals, Carried, ObjAt, In, IsLocal

LEMMA Finite ==
    ASSUME NEW n
    PROVE  /\ IsFiniteSet(Who(ref, n)) /\ IsFiniteSet(WhoStrong(ref, n)) /\ IsFiniteSet(To(buf, n))
           /\ IsFiniteSet(In(buf, n, TRUE)) /\ IsFiniteSet(In(buf, n, FALSE))
<1>1. IsFiniteSet(Procs) /\ IsFiniteSet(Bufs)
  BY RefsFinite
<1>2. Who(ref, n) \subseteq Procs /\ WhoStrong(ref, n) \subseteq Procs /\ To(buf, n) \subseteq Bufs
  BY DEF Who, WhoStrong, To
<1>3. IsFiniteSet(1..MaxObjs)
  BY RefsBounds, FS_Interval
<1>4. IsFiniteSet(Bufs \X (1..MaxObjs))
  BY <1>1, <1>3, FS_Product
<1>5. /\ In(buf, n, TRUE) \subseteq Bufs \X (1..MaxObjs)
      /\ In(buf, n, FALSE) \subseteq Bufs \X (1..MaxObjs)
  BY DEF In
<1>. QED
  BY <1>1, <1>2, <1>4, <1>5, FS_Subset

-------------------------------------------------------------------------------
(* References *)

\* There is always a handle left for a node that has none.
LEMMA NewDescIs ==
    ASSUME NEW p \in Procs, NEW n \in Nodes, ref[p][n].desc = NIL
    PROVE  NewDesc(p, n) \in Handles /\ Named(p, NewDesc(p, n)) = {}
<1>. DEFINE free == {d \in Handles : Named(p, d) = {} /\ (d = 0 => n = mgr)}
            c == Cardinality(Nodes)
<1>1. IsFiniteSet(Nodes) /\ c \in Nat
  BY RefsFinite, FS_CardinalityType
<1>2. free # {}
  <2>. SUFFICES ASSUME free = {} PROVE FALSE
    OBVIOUS
  <2>. DEFINE f == [d \in 1..c |-> CHOOSE x \in Nodes : ref[p][x].desc = d]
  <2>1. \A d \in 1..c : \E x \in Nodes : ref[p][x].desc = d
    BY <1>1 DEF Named, Handles
  <2>2. \A d \in 1..c : f[d] \in Nodes /\ ref[p][f[d]].desc = d
    BY <2>1
  <2>3. NIL \notin 1..c
    BY RefsNil, <1>1
  <2>. HIDE DEF f
  <2>4. f \in [1..c -> Nodes \ {n}]
    BY <2>2, <2>3, f = [d \in 1..c |-> f[d]] DEF f
  <2>5. /\ IsFiniteSet(Nodes \ {n}) /\ Cardinality(Nodes \ {n}) = c - 1
    BY <1>1, FS_RemoveElement
  <2>6. IsFiniteSet(1..c) /\ Cardinality(1..c) = c
    BY <1>1, FS_Interval
  <2>7. \E x, y \in 1..c : x # y /\ f[x] = f[y]
    BY <1>1, <2>4, <2>5, <2>6, FS_PigeonHole
  <2>. QED
    BY <2>2, <2>7
<1>3. free \in SUBSET Nat
  BY <1>1 DEF Handles
<1>4. PICK h \in free : \A k \in free : ~(<<k, h>> \in OpToRel(<, Nat))
  BY <1>2, <1>3, NatLessThanWellFounded, WFMin
<1>5. \A k \in free : h <= k
  <2>1. \A k \in free : ~(k < h)
    BY <1>3, <1>4 DEF OpToRel
  <2>2. \A k \in free : k \in Nat /\ h \in Nat
    BY <1>3
  <2>. HIDE DEF free
  <2>. QED
    BY <2>1, <2>2
<1>6. NewDesc(p, n) \in free
  BY <1>5 DEF NewDesc
<1>. QED
  BY <1>6

\* binder_get_ref_for_node: the reference there is, or a new one with a handle.
LEMMA RefForIs ==
    ASSUME TypeOK, NEW p \in Procs, NEW n \in Nodes
    PROVE  /\ RefFor(p, n) \in Ref /\ RefFor(p, n).desc \in Handles /\ RefFor(p, n).desc # NIL
           /\ p \in Who(ref, n) => RefFor(p, n) = ref[p][n]
           /\ p \notin Who(ref, n) => /\ RefFor(p, n).s = 0 /\ RefFor(p, n).w = 0
                                      /\ Named(p, RefFor(p, n).desc) = {}
<1>1. NIL \notin Handles
  BY RefsNil, RefsFinite, FS_CardinalityType DEF Handles
<1>2. ref[p][n] \in Ref
  BY DEF TypeOK
<1>3. CASE p \in Who(ref, n)
  BY <1>1, <1>2, <1>3 DEF RefFor, Who, Holders, Ref
<1>4. CASE p \notin Who(ref, n)
  <2>1. NewDesc(p, n) \in Handles /\ Named(p, NewDesc(p, n)) = {}
    BY <1>4, NewDescIs DEF Who, Holders
  <2>2. RefFor(p, n) = [NoRef EXCEPT !.desc = NewDesc(p, n)]
    BY <1>4, RefersIs DEF RefFor
  <2>. QED
    BY <1>1, <1>4, <2>1, <2>2 DEF NoRef, Ref
<1>. QED
  BY <1>3, <1>4

\* What the references of the other nodes are does not change.
LEMMA OneRefIs ==
    ASSUME TypeOK, NEW p \in Procs, NEW n \in Nodes, NEW r \in Ref,
           ref' = [ref EXCEPT ![p][n] = r]
    PROVE  /\ ref' \in [Procs -> [Nodes -> Ref]]
           /\ ref'[p][n] = r
           /\ \A q \in Procs, m \in Nodes : <<q, m>> # <<p, n>> => ref'[q][m] = ref[q][m]
           /\ \A m \in Nodes \ {n} : Who(ref', m) = Who(ref, m) /\ WhoStrong(ref', m) = WhoStrong(ref, m)
           /\ Who(ref', n) = IF r.desc # NIL THEN Who(ref, n) \cup {p} ELSE Who(ref, n) \ {p}
           /\ WhoStrong(ref', n) = IF r.desc # NIL /\ r.s > 0 THEN WhoStrong(ref, n) \cup {p}
                              ELSE WhoStrong(ref, n) \ {p}
<1>1. ref \in [Procs -> [Nodes -> Ref]]
  BY DEF TypeOK
<1>2. ref' \in [Procs -> [Nodes -> Ref]] /\ ref'[p][n] = r
  BY <1>1
<1>3. \A q \in Procs, m \in Nodes : q # p \/ m # n => ref'[q][m] = ref[q][m]
  BY <1>1
<1>. QED
  BY <1>2, <1>3 DEF Who, Holders, WhoStrong

\* Node nd of object n, with what refers to n.
SoundAt(n, nd) ==
    Sound(n, nd, Up(n), IsMgr(n), WhoStrong(ref, n), Who(ref, n), To(buf, n),
          In(buf, n, TRUE), In(buf, n, FALSE))

\* A step of the references to n, and of its node with them.
Moved(n) ==
    /\ ref' \in [Procs -> [Nodes -> Ref]]
    /\ node' = [node EXCEPT ![n] = node'[n]]
    /\ Sound(n, node'[n], Up(n), IsMgr(n), WhoStrong(ref', n), Who(ref', n), To(buf, n),
             In(buf, n, TRUE), In(buf, n, FALSE))
    /\ \A m \in Nodes \ {n} : Who(ref', m) = Who(ref, m) /\ WhoStrong(ref', m) = WhoStrong(ref, m)

LEMMA IncRefSound ==
    ASSUME TypeOK, NEW p \in Procs, NEW n \in Nodes, NEW nd,
           SoundAt(n, nd), nd.st # "none", NEW strong \in BOOLEAN,
           NEW list \in Threads \cup {NIL}, list # NIL => nd.st = "live",
           IncRef(p, n, nd, strong, list)
    PROVE  Moved(n)
<1>. DEFINE r == RefFor(p, n)
            fails == IncRefused(p, n, nd, strong, list)
            r2 == IF fails THEN r
                  ELSE IF strong THEN [r EXCEPT !.s = @ + 1] ELSE [r EXCEPT !.w = @ + 1]
            d == IF fails THEN nd
                 ELSE IF strong THEN (IF r.s = 0 THEN IncStrong(nd, list) ELSE nd)
                 ELSE (IF r.w = 0 THEN IncWeak(nd, list) ELSE nd)
            S == WhoStrong(ref, n)
            H == Who(ref, n)
            up == Up(n)
            mg == IsMgr(n)
            T == To(buf, n)
            LS == In(buf, n, TRUE)
            LW == In(buf, n, FALSE)
<1>1. ref' = [ref EXCEPT ![p][n] = r2] /\ node' = [node EXCEPT ![n] = d] /\ node'[n] = d
  BY DEF IncRef, TypeOK
<1>2. r \in Ref /\ r.desc # NIL /\ (p \in S <=> r.s > 0)
  BY RefForIs DEF WhoStrong, Who, Ref
<1>3. /\ r2 \in Ref /\ r2.desc # NIL
      /\ r2.s = IF ~fails /\ strong THEN r.s + 1 ELSE r.s
  <2>. HIDE DEF r, fails
  <2>1. [r EXCEPT !.s = @ + 1] \in Ref /\ [r EXCEPT !.w = @ + 1] \in Ref
    BY <1>2 DEF Ref
  <2>. QED
    BY <1>2, <2>1 DEF Ref
<1>4. Sound(n, nd, up, mg, S, H, T, LS, LW) /\ IsFiniteSet(S)
  BY Finite DEF SoundAt
<1>. HIDE DEF r, fails, r2, d
<1>5. /\ ref' \in [Procs -> [Nodes -> Ref]]
      /\ Who(ref', n) = H \cup {p}
      /\ WhoStrong(ref', n) = IF r2.s > 0 THEN S \cup {p} ELSE S \ {p}
      /\ \A m \in Nodes \ {n} : Who(ref', m) = Who(ref, m) /\ WhoStrong(ref', m) = WhoStrong(ref, m)
  <2>0. ref' = [ref EXCEPT ![p][n] = r2] /\ r2 \in Ref
    BY <1>1, <1>3
  <2>1. /\ ref' \in [Procs -> [Nodes -> Ref]]
        /\ Who(ref', n) = IF r2.desc # NIL THEN Who(ref, n) \cup {p} ELSE Who(ref, n) \ {p}
        /\ WhoStrong(ref', n) = IF r2.desc # NIL /\ r2.s > 0 THEN WhoStrong(ref, n) \cup {p}
                           ELSE WhoStrong(ref, n) \ {p}
        /\ \A m \in Nodes \ {n} : Who(ref', m) = Who(ref, m) /\ WhoStrong(ref', m) = WhoStrong(ref, m)
    BY <2>0, OneRefIs
  <2>. QED
    BY <1>3, <2>1
<1>. HIDE DEF S, H, up, mg, T, LS, LW
<1>6. ASSUME fails
      PROVE  Sound(n, d, up, mg, WhoStrong(ref', n), Who(ref', n), T, LS, LW)
  <2>1. d = nd /\ WhoStrong(ref', n) = S
    BY <1>2, <1>3, <1>5, <1>6 DEF d
  <2>2. Sound(n, nd, up, mg, S, H \cup {p}, T, LS, LW)
    BY <1>4, HeldSound
  <2>. QED
    BY <1>5, <2>1, <2>2
<1>7. ASSUME ~fails /\ strong /\ r.s = 0
      PROVE  Sound(n, d, up, mg, WhoStrong(ref', n), Who(ref', n), T, LS, LW)
  <2>1. d = IncStrong(nd, list) /\ WhoStrong(ref', n) = S \cup {p} /\ p \notin S
    BY <1>2, <1>3, <1>5, <1>7 DEF d
  <2>2. Sound(n, IncStrong(nd, list), up, mg, S \cup {p}, H \cup {p}, T, LS, LW)
    BY <1>4, <2>1, IncStrongSound
  <2>. QED
    BY <1>5, <2>1, <2>2
<1>8. ASSUME ~fails /\ ~strong /\ r.w = 0
      PROVE  Sound(n, d, up, mg, WhoStrong(ref', n), Who(ref', n), T, LS, LW)
  <2>1. d = IncWeak(nd, list) /\ WhoStrong(ref', n) = S
    BY <1>2, <1>3, <1>5, <1>8 DEF d
  <2>2. Sound(n, IncWeak(nd, list), up, mg, S, H \cup {p}, T, LS, LW)
    BY <1>4, IncWeakSound
  <2>. QED
    BY <1>5, <2>1, <2>2
<1>9. ASSUME ~fails /\ (IF strong THEN r.s # 0 ELSE r.w # 0)
      PROVE  Sound(n, d, up, mg, WhoStrong(ref', n), Who(ref', n), T, LS, LW)
  <2>1. r.s \in Nat
    BY <1>2 DEF Ref
  <2>2. d = nd /\ WhoStrong(ref', n) = S
    BY <1>2, <1>3, <1>5, <1>9, <2>1 DEF d
  <2>3. Sound(n, nd, up, mg, S, H \cup {p}, T, LS, LW)
    BY <1>4, HeldSound
  <2>. QED
    BY <1>5, <2>2, <2>3
<1>10. Sound(n, d, up, mg, WhoStrong(ref', n), Who(ref', n), T, LS, LW)
  BY <1>6, <1>7, <1>8, <1>9
<1>. QED
  BY <1>1, <1>5, <1>10 DEF Moved, up, mg, T, LS, LW

LEMMA DecRefSound ==
    ASSUME TypeOK, NEW p \in Procs, NEW n \in Nodes,
           SoundAt(n, node[n]), p \in Who(ref, n), NEW strong \in BOOLEAN,
           DecRef(p, n, strong)
    PROVE  Moved(n)
<1>. DEFINE r == ref[p][n]
            low == IF strong THEN r.s = 0 ELSE r.w = 0
            less == IF strong THEN [r EXCEPT !.s = @ - 1] ELSE [r EXCEPT !.w = @ - 1]
            nd == IF strong /\ less.s = 0 THEN DecStrong(n, node[n]) ELSE node[n]
            gone == less.s = 0 /\ less.w = 0
            S == WhoStrong(ref, n)
            H == Who(ref, n)
            up == Up(n)
            mg == IsMgr(n)
            T == To(buf, n)
            LS == In(buf, n, TRUE)
            LW == In(buf, n, FALSE)
<1>1. r \in Ref /\ r.desc # NIL /\ (p \in S <=> r.s > 0) /\ p \in H /\ node \in [Nodes -> Node]
  BY DEF TypeOK, WhoStrong, Who, Holders
<1>2. Sound(n, node[n], up, mg, S, H, T, LS, LW) /\ IsFiniteSet(S)
  BY Finite DEF SoundAt
<1>5. IsFiniteSet(T) /\ IsFiniteSet(LS) /\ IsFiniteSet(LW)
  BY Finite
<1>3. CASE low
  <2>1. ref' = ref /\ node' = node
    BY <1>3 DEF DecRef
  <2>2. \A m \in Nodes : Who(ref', m) = Who(ref, m) /\ WhoStrong(ref', m) = WhoStrong(ref, m)
    BY <2>1
  <2>3. node' = [node EXCEPT ![n] = node'[n]] /\ ref' \in [Procs -> [Nodes -> Ref]]
    BY <1>1, <2>1 DEF TypeOK
  <2>. QED
    BY <1>2, <2>1, <2>2, <2>3 DEF Moved
<1>4. CASE ~low
  <2>. DEFINE r2 == IF gone THEN NoRef ELSE less
              d == IF gone THEN DecWeak(n, nd, H = {p}) ELSE nd
  <2>1. ref' = [ref EXCEPT ![p][n] = r2] /\ node' = [node EXCEPT ![n] = d] /\ node'[n] = d
    BY <1>1, <1>4, RefersIs DEF DecRef
  <2>2. /\ less \in Ref /\ less.desc = r.desc
        /\ less.s = (IF strong THEN r.s - 1 ELSE r.s) /\ less.w = (IF strong THEN r.w ELSE r.w - 1)
    <3>. HIDE DEF r
    <3>1. /\ strong => r.s - 1 \in Nat /\ r.s \in Nat
          /\ ~strong => r.w - 1 \in Nat /\ r.w \in Nat
      BY <1>1, <1>4 DEF Ref
    <3>. QED
      BY <1>1, <3>1 DEF Ref
  <2>3. r2 \in Ref /\ (r2.desc = NIL <=> gone) /\ (gone => r2.s = 0) /\ (~gone => r2 = less)
    BY <1>1, <2>2 DEF NoRef, Ref
  <2>. HIDE DEF r, low, less, nd, gone, S, H, r2, d, up, mg, T, LS, LW
  <2>4. PICK S2 : S2 = IF less.s > 0 THEN S ELSE S \ {p}
    OBVIOUS
  <2>5. Sound(n, nd, up, mg, S2, H, T, LS, LW) /\ (gone => p \notin S2)
    <3>1. r.s \in Nat /\ less.s \in Nat
      BY <1>1, <2>2 DEF Ref
    <3>2. CASE strong /\ less.s = 0
      <4>1. p \in S /\ S2 = S \ {p}
        BY <1>1, <1>4, <2>2, <2>4, <3>1, <3>2 DEF low
      <4>2. nd = DecStrong(n, node[n])
        BY <3>2 DEF nd
      <4>3. Sound(n, DecStrong(n, node[n]), up, mg, S \ {p}, H, T, LS, LW)
        BY <1>2, <1>5, <4>1, DecStrongSound
      <4>. QED
        BY <4>1, <4>2, <4>3
    <3>3. CASE ~(strong /\ less.s = 0)
      <4>1. S2 = S
        BY <1>1, <2>2, <2>4, <3>1, <3>3
      <4>2. nd = node[n]
        BY <3>3 DEF nd
      <4>3. gone => p \notin S
        BY <1>1, <2>2, <3>1, <3>3 DEF gone
      <4>. QED
        BY <1>2, <4>1, <4>2, <4>3
    <3>. QED
      BY <3>2, <3>3
  <2>6. /\ ref' \in [Procs -> [Nodes -> Ref]]
        /\ Who(ref', n) = IF gone THEN H \ {p} ELSE H
        /\ WhoStrong(ref', n) = S2
        /\ \A m \in Nodes \ {n} : Who(ref', m) = Who(ref, m) /\ WhoStrong(ref', m) = WhoStrong(ref, m)
    <3>1. /\ ref' \in [Procs -> [Nodes -> Ref]]
          /\ Who(ref', n) = IF r2.desc # NIL THEN H \cup {p} ELSE H \ {p}
          /\ WhoStrong(ref', n) = IF r2.desc # NIL /\ r2.s > 0 THEN S \cup {p} ELSE S \ {p}
          /\ \A m \in Nodes \ {n} : Who(ref', m) = Who(ref, m) /\ WhoStrong(ref', m) = WhoStrong(ref, m)
      BY <2>1, <2>3, OneRefIs DEF H, S
    <3>2. r.s \in Nat /\ less.s \in Nat /\ (gone => less.s = 0)
      BY <1>1, <2>2 DEF Ref, gone
    <3>3. less.s > 0 => p \in S
      BY <1>1, <2>2, <3>2
    <3>4. Who(ref', n) = IF gone THEN H \ {p} ELSE H
      BY <1>1, <2>3, <3>1
    <3>5. WhoStrong(ref', n) = S2
      <4>1. CASE gone
        BY <2>3, <2>4, <3>1, <3>2, <4>1
      <4>2. CASE ~gone /\ less.s > 0
        BY <2>3, <2>4, <3>1, <3>3, <4>2
      <4>3. CASE ~gone /\ ~(less.s > 0)
        BY <2>3, <2>4, <3>1, <4>3
      <4>. QED
        BY <4>1, <4>2, <4>3
    <3>. QED
      BY <3>1, <3>4, <3>5
  <2>7. Sound(n, d, up, mg, S2, Who(ref', n), T, LS, LW)
    <3>1. CASE gone
      <4>1. d = DecWeak(n, nd, H = {p}) /\ Who(ref', n) = H \ {p}
        BY <2>6, <3>1 DEF d
      <4>2. Sound(n, DecWeak(n, nd, H = {p}), up, mg, S2, H \ {p}, T, LS, LW)
        BY <1>1, <1>5, <2>5, <3>1, DecWeakSound
      <4>. QED
        BY <4>1, <4>2
    <3>2. CASE ~gone
      BY <2>5, <2>6, <3>2 DEF d
    <3>. QED
      BY <3>1, <3>2
  <2>. QED
    BY <2>1, <2>6, <2>7 DEF Moved, up, mg, T, LS, LW
<1>. QED
  BY <1>3, <1>4

-------------------------------------------------------------------------------
(* Buffers *)

LEMMA LocalsMore ==
    ASSUME NEW n, NEW strong, NEW b \in Bufs, NEW k \in 1..MaxObjs,
           \A c \in Bufs, i \in 1..MaxObjs :
              IsLocal(n, strong, buf'[c], i) <=> IsLocal(n, strong, buf[c], i) \/ (c = b /\ i = k)
    PROVE  In(buf', n, strong) = In(buf, n, strong) \cup {<<b, k>>}
<1>1. /\ In(buf, n, strong) = {x \in Bufs \X (1..MaxObjs) : IsLocal(n, strong, buf[x[1]], x[2])}
      /\ In(buf', n, strong) = {x \in Bufs \X (1..MaxObjs) : IsLocal(n, strong, buf'[x[1]], x[2])}
  BY DEF In, IsLocal
<1>2. \A x \in Bufs \X (1..MaxObjs) :
         /\ x[1] \in Bufs /\ x[2] \in 1..MaxObjs
         /\ x = <<b, k>> <=> x[1] = b /\ x[2] = k
  OBVIOUS
<1>3. <<b, k>> \in Bufs \X (1..MaxObjs)
  OBVIOUS
<1>. QED
  BY <1>1, <1>2, <1>3

\* Buffers bf are as they were but for the k-th object of b, which is none of n's.
Without(n, strong, bf, b, k) ==
    /\ ~IsLocal(n, strong, bf[b], k)
    /\ \A c \in Bufs, i \in 1..MaxObjs : c # b \/ i # k =>
          (IsLocal(n, strong, bf[c], i) <=> IsLocal(n, strong, buf[c], i))

LEMMA LocalsLess ==
    ASSUME NEW n, NEW strong, NEW bf, NEW b \in Bufs, NEW k \in 1..MaxObjs,
           Without(n, strong, bf, b, k)
    PROVE  In(bf, n, strong) = In(buf, n, strong) \ {<<b, k>>}
<1>. DEFINE x == <<b, k>>
<1>1. /\ In(buf, n, strong) = {y \in Bufs \X (1..MaxObjs) : IsLocal(n, strong, buf[y[1]], y[2])}
      /\ In(bf, n, strong) = {y \in Bufs \X (1..MaxObjs) : IsLocal(n, strong, bf[y[1]], y[2])}
  BY DEF In, IsLocal
<1>2. \A y \in Bufs \X (1..MaxObjs) :
         /\ y[1] \in Bufs /\ y[2] \in 1..MaxObjs
         /\ y = x <=> y[1] = b /\ y[2] = k
  OBVIOUS
<1>3. x \in Bufs \X (1..MaxObjs)
  OBVIOUS
<1>4. x[1] = b /\ x[2] = k
  OBVIOUS
<1>. HIDE DEF x
<1>5. In(bf, n, strong) = In(buf, n, strong) \ {x}
  BY <1>1, <1>2, <1>3, <1>4 DEF Without
<1>. QED
  BY <1>5 DEF x

\* A buffer changes, but not what it has to be.
LEMMA OneBufIs ==
    ASSUME Held, NEW b \in Bufs, NEW k \in Buf, Fits(k, alive), buf' = [buf EXCEPT ![b] = k]
    PROVE  /\ buf' \in [Bufs -> Buf] /\ buf'[b] = k
           /\ \A c \in Bufs \ {b} : buf'[c] = buf[c]
           /\ \A c \in Bufs : Fits(buf'[c], alive)
           /\ \A m : To(buf', m) = IF k.target = m THEN To(buf, m) \cup {b}
                                    ELSE To(buf, m) \ {b}
<1>1. buf \in [Bufs -> Buf]
  BY DEF Held, TypeOK
<1>2. /\ buf' \in [Bufs -> Buf] /\ buf'[b] = k
      /\ \A c \in Bufs \ {b} : buf'[c] = buf[c]
  BY <1>1
<1>. QED
  BY <1>2 DEF Held, To

LEMMA LocalsKept ==
    ASSUME NEW n, NEW strong,
           \A c \in Bufs, i \in 1..MaxObjs : IsLocal(n, strong, buf'[c], i) <=> IsLocal(n, strong, buf[c], i)
    PROVE  In(buf', n, strong) = In(buf, n, strong)
<1>1. /\ In(buf, n, strong) = {x \in Bufs \X (1..MaxObjs) : IsLocal(n, strong, buf[x[1]], x[2])}
      /\ In(buf', n, strong) = {x \in Bufs \X (1..MaxObjs) : IsLocal(n, strong, buf'[x[1]], x[2])}
  BY DEF In, IsLocal
<1>2. \A x \in Bufs \X (1..MaxObjs) : x[1] \in Bufs /\ x[2] \in 1..MaxObjs
  OBVIOUS
<1>. QED
  BY <1>1, <1>2

\* An object more in the buffer that is being filled.
LEMMA CarryIs ==
    ASSUME Held, NEW b \in Bufs, busy.buf = b, buf[b].st = "filling",
           Len(buf[b].objs) < MaxObjs, NEW o \in Obj, Carry(o),
           IF o.type = "binder" THEN Owner[o.node] = buf[b].proc ELSE o.desc # NIL
    PROVE  LET k == Len(buf[b].objs) + 1 IN
           /\ buf' \in [Bufs -> Buf]
           /\ \A c \in Bufs : Fits(buf'[c], alive)
           /\ \A m : To(buf', m) = To(buf, m)
           /\ \A m, strong :
                /\ <<b, k>> \notin In(buf, m, strong)
                /\ In(buf', m, strong) =
                     IF o.type = "binder" /\ o.node = m /\ o.strong = strong
                     THEN In(buf, m, strong) \cup {<<b, k>>} ELSE In(buf, m, strong)
<1>. DEFINE k == Len(buf[b].objs) + 1
            os == Append(buf[b].objs, o)
<1>1. buf \in [Bufs -> Buf] /\ buf[b] \in Buf /\ buf[b].objs \in Seq(Obj) /\ Fits(buf[b], alive)
  BY DEF Held, TypeOK, Buf
<1>2. /\ os \in Seq(Obj) /\ Len(os) = k /\ os[k] = o /\ k \in Nat
      /\ \A i \in 1..(k - 1) : os[i] = buf[b].objs[i]
  BY <1>1
<1>. HIDE DEF os
<1>. DEFINE v == [buf[b] EXCEPT !.objs = os]
<1>3. buf' = [buf EXCEPT ![b] = v]
  BY DEF Carry, os
<1>4. /\ v \in Buf /\ v.objs = os /\ v.next = buf[b].next /\ v.st = buf[b].st
      /\ v.proc = buf[b].proc /\ v.target = buf[b].target
  BY <1>1, <1>2 DEF Buf
<1>. HIDE DEF v
<1>5. /\ buf' \in [Bufs -> Buf] /\ buf'[b] = v
      /\ \A c \in Bufs \ {b} : buf'[c] = buf[c]
  BY <1>1, <1>3, <1>4
<1>6. buf[b].next = 1 /\ k \in 1..MaxObjs /\ k - 1 = Len(buf[b].objs)
  BY <1>1, <1>2, RefsBounds DEF Fits
<1>7. ASSUME NEW c \in Bufs PROVE Fits(buf'[c], alive)
  <2>1. CASE c # b
    BY <1>5, <2>1 DEF Held
  <2>2. CASE c = b
    <3>1. \A i \in 1..k : IF os[i].type = "binder" THEN Owner[os[i].node] = buf[b].proc
                          ELSE os[i].desc # NIL
      <4>1. \A i \in 1..(k - 1) : IF os[i].type = "binder" THEN Owner[os[i].node] = buf[b].proc
                                  ELSE os[i].desc # NIL
        BY <1>1, <1>2, <1>6 DEF Fits
      <4>2. \A i \in 1..k : i = k \/ i \in 1..(k - 1)
        BY <1>2
      <4>. QED
        BY <1>2, <4>1, <4>2
    <3>2. /\ buf[b].st # "free" /\ buf[b].proc \in alive
          /\ buf[b].target # NIL => Owner[buf[b].target] = buf[b].proc
      BY <1>1 DEF Fits
    <3>3. /\ k <= MaxObjs /\ buf[b].next \in 1..(k + 1)
      BY <1>2, <1>6
    <3>. QED
      BY <1>2, <1>4, <1>5, <1>6, <2>2, <3>1, <3>2, <3>3, SMTT(60) DEF Fits
  <2>. QED
    BY <2>1, <2>2
<1>8. \A m : To(buf', m) = To(buf, m)
  BY <1>4, <1>5 DEF To
<1>9. ASSUME NEW m, NEW strong
      PROVE  /\ <<b, k>> \notin In(buf, m, strong)
             /\ In(buf', m, strong) =
                  IF o.type = "binder" /\ o.node = m /\ o.strong = strong
                  THEN In(buf, m, strong) \cup {<<b, k>>} ELSE In(buf, m, strong)
  <2>1. <<b, k>> \notin In(buf, m, strong)
    BY <1>2, <1>6 DEF In, IsLocal
  <2>2. /\ \A c \in Bufs, i \in 1..MaxObjs :
             c # b \/ i # k => (IsLocal(m, strong, buf'[c], i) <=> IsLocal(m, strong, buf[c], i))
        /\ IsLocal(m, strong, buf'[b], k) <=> o.type = "binder" /\ o.node = m /\ o.strong = strong
        /\ ~IsLocal(m, strong, buf[b], k)
    <3>1. ASSUME NEW c \in Bufs, NEW i \in 1..MaxObjs, c # b
          PROVE  IsLocal(m, strong, buf'[c], i) <=> IsLocal(m, strong, buf[c], i)
      BY <1>5, <3>1 DEF IsLocal
    <3>2. ASSUME NEW i \in 1..MaxObjs, i # k
          PROVE  IsLocal(m, strong, buf'[b], i) <=> IsLocal(m, strong, buf[b], i)
      <4>1. i \in 1..k <=> i \in 1..(k - 1)
        BY <1>2, <3>2
      <4>2. i \in 1..(k - 1) => os[i] = buf[b].objs[i]
        BY <1>2
      <4>. QED
        BY <1>2, <1>4, <1>5, <1>6, <4>1, <4>2 DEF IsLocal
    <3>3. IsLocal(m, strong, buf'[b], k) <=> o.type = "binder" /\ o.node = m /\ o.strong = strong
      BY <1>2, <1>4, <1>5, <1>6 DEF IsLocal
    <3>4. ~IsLocal(m, strong, buf[b], k)
      BY <1>2, <1>6 DEF IsLocal
    <3>. QED
      BY <3>1, <3>2, <3>3, <3>4
  <2>3. CASE o.type = "binder" /\ o.node = m /\ o.strong = strong
    <3>1. \A c \in Bufs, i \in 1..MaxObjs :
            IsLocal(m, strong, buf'[c], i) <=> IsLocal(m, strong, buf[c], i) \/ (c = b /\ i = k)
      BY <2>2, <2>3
    <3>2. In(buf', m, strong) = In(buf, m, strong) \cup {<<b, k>>}
      BY <1>6, <3>1, LocalsMore
    <3>. QED
      BY <2>1, <2>3, <3>2
  <2>4. CASE ~(o.type = "binder" /\ o.node = m /\ o.strong = strong)
    <3>1. \A c \in Bufs, i \in 1..MaxObjs :
            IsLocal(m, strong, buf'[c], i) <=> IsLocal(m, strong, buf[c], i)
      BY <2>2, <2>4
    <3>2. In(buf', m, strong) = In(buf, m, strong)
      BY <3>1, LocalsKept
    <3>. QED
      BY <2>1, <2>4, <3>2
  <2>. QED
    BY <2>3, <2>4
<1>. QED
  BY <1>5, <1>7, <1>8, <1>9

LEMMA NoBufIs == /\ NoBuf \in Buf /\ NoBuf.st = "free" /\ NoBuf.target = NIL /\ NoBuf.next = 1
                 /\ NoBuf.objs = <<>> /\ NoBuf.objs \in Seq(Obj) /\ NoBuf.proc = NIL
BY DEF NoBuf, Buf

\* A buffer for a transaction to node n or, from a reply, to none.
Started(b, q, n) ==
    buf' = [buf EXCEPT ![b] = [NoBuf EXCEPT !.st = "filling", !.proc = q, !.target = n]]

LEMMA StartIs ==
    ASSUME Held, NEW b \in Bufs, buf[b].st = "free", NEW q \in alive, NEW n \in Nodes \cup {NIL},
           n # NIL => Owner[n] = q, Started(b, q, n)
    PROVE  /\ buf' \in [Bufs -> Buf]
           /\ \A c \in Bufs : Fits(buf'[c], alive)
           /\ \A m \in Nodes : b \notin To(buf, m)
           /\ \A m \in Nodes : To(buf', m) = IF m = n THEN To(buf, m) \cup {b} ELSE To(buf, m)
           /\ \A m, strong : In(buf', m, strong) = In(buf, m, strong)
<1>. DEFINE k == [NoBuf EXCEPT !.st = "filling", !.proc = q, !.target = n]
<1>1. buf[b] = NoBuf
  BY DEF Held, Fits
<1>2. /\ k \in Buf /\ k.st = "filling" /\ k.proc = q /\ k.target = n /\ k.objs = <<>>
      /\ k.next = 1
  <2>1. q \in Procs
    BY DEF Held, TypeOK
  <2>. QED
    BY <2>1, NoBufIs DEF Buf
<1>. HIDE DEF k
<1>3. Fits(k, alive)
  BY <1>2, RefsBounds DEF Fits
<1>4. buf' = [buf EXCEPT ![b] = k]
  BY DEF k, Started
<1>5. \A m \in Nodes : b \notin To(buf, m)
  BY <1>1, RefsNil DEF To, NoBuf
<1>6. ASSUME NEW m, NEW strong PROVE In(buf', m, strong) = In(buf, m, strong)
  <2>1. \A i \in 1..MaxObjs : ~IsLocal(m, strong, k, i) /\ ~IsLocal(m, strong, buf[b], i)
    BY <1>1, <1>2 DEF IsLocal, NoBuf
  <2>2. \A c \in Bufs, i \in 1..MaxObjs :
          IsLocal(m, strong, buf'[c], i) <=> IsLocal(m, strong, buf[c], i)
    BY <1>3, <1>4, <1>2, <2>1, OneBufIs
  <2>. QED
    BY <2>2, LocalsKept
<1>7. /\ buf' \in [Bufs -> Buf]
      /\ \A c \in Bufs : Fits(buf'[c], alive)
      /\ \A m : To(buf', m) = IF k.target = m THEN To(buf, m) \cup {b} ELSE To(buf, m) \ {b}
  BY <1>2, <1>3, <1>4, OneBufIs
<1>8. ASSUME NEW m \in Nodes
      PROVE  To(buf', m) = IF m = n THEN To(buf, m) \cup {b} ELSE To(buf, m)
  <2>1. To(buf', m) = IF k.target = m THEN To(buf, m) \cup {b} ELSE To(buf, m) \ {b}
    BY <1>7
  <2>2. b \notin To(buf, m) /\ k.target = n
    BY <1>2, <1>5
  <2>. QED
    BY <2>1, <2>2
<1>9. buf' \in [Bufs -> Buf] /\ \A c \in Bufs : Fits(buf'[c], alive)
  BY <1>7
<1>. QED
  BY <1>5, <1>6, <1>8, <1>9

\* The buffer in hand, with everything still in it.
LEMMA SameContents ==
    ASSUME Held, NEW b \in Bufs, NEW k \in Buf, Fits(k, alive), buf' = [buf EXCEPT ![b] = k],
           k.objs = buf[b].objs, k.next = buf[b].next
    PROVE  \A m, strong : In(buf', m, strong) = In(buf, m, strong)
<1>. SUFFICES ASSUME NEW m, NEW strong PROVE In(buf', m, strong) = In(buf, m, strong)
  OBVIOUS
<1>1. \A i \in 1..MaxObjs : IsLocal(m, strong, k, i) <=> IsLocal(m, strong, buf[b], i)
  BY DEF IsLocal
<1>2. \A c \in Bufs, i \in 1..MaxObjs :
        IsLocal(m, strong, buf'[c], i) <=> IsLocal(m, strong, buf[c], i)
  BY <1>1, OneBufIs
<1>. QED
  BY <1>2, LocalsKept

\* The buffer is complete.
LEMMA FilledIs ==
    ASSUME Held, NEW b \in Bufs, buf[b].st = "filling", buf' = [buf EXCEPT ![b].st = "held"]
    PROVE  /\ buf' \in [Bufs -> Buf]
           /\ \A c \in Bufs : Fits(buf'[c], alive)
           /\ \A m : To(buf', m) = To(buf, m)
           /\ \A m, strong : In(buf', m, strong) = In(buf, m, strong)
<1>. DEFINE k == [buf[b] EXCEPT !.st = "held"]
<1>1. buf[b] \in Buf /\ Fits(buf[b], alive)
  BY DEF Held, TypeOK
<1>2. /\ k \in Buf /\ k.st = "held" /\ k.proc = buf[b].proc /\ k.target = buf[b].target
      /\ k.objs = buf[b].objs /\ k.next = buf[b].next
  BY <1>1 DEF Buf
<1>3. buf' = [buf EXCEPT ![b] = k]
  OBVIOUS
<1>. HIDE DEF k
<1>4. Fits(k, alive)
  BY <1>1, <1>2 DEF Fits
<1>5. /\ buf' \in [Bufs -> Buf]
      /\ \A c \in Bufs : Fits(buf'[c], alive)
      /\ \A m : To(buf', m) = IF k.target = m THEN To(buf, m) \cup {b} ELSE To(buf, m) \ {b}
  BY <1>2, <1>3, <1>4, OneBufIs
<1>6. \A m : k.target = m <=> b \in To(buf, m)
  BY <1>2 DEF To
<1>7. \A m, strong : In(buf', m, strong) = In(buf, m, strong)
  BY <1>2, <1>3, <1>4, SameContents
<1>8. ASSUME NEW m PROVE To(buf', m) = To(buf, m)
  <2>1. To(buf', m) = IF k.target = m THEN To(buf, m) \cup {b} ELSE To(buf, m) \ {b}
    BY <1>5
  <2>2. k.target = m <=> b \in To(buf, m)
    BY <1>6
  <2>. QED
    BY <2>1, <2>2
<1>9. buf' \in [Bufs -> Buf] /\ \A c \in Bufs : Fits(buf'[c], alive)
  BY <1>5
<1>. QED
  BY <1>7, <1>8, <1>9

\* The release of a buffer begins with its target.
LEMMA UntargetIs ==
    ASSUME Held, NEW b \in Bufs, buf[b].st \in {"filling", "held"},
           buf' = [buf EXCEPT ![b].st = "releasing", ![b].target = NIL]
    PROVE  /\ buf' \in [Bufs -> Buf]
           /\ \A c \in Bufs : Fits(buf'[c], alive)
           /\ \A m \in Nodes : To(buf', m) = To(buf, m) \ {b}
           /\ \A m, strong : In(buf', m, strong) = In(buf, m, strong)
<1>. DEFINE k == [buf[b] EXCEPT !.st = "releasing", !.target = NIL]
<1>1. buf[b] \in Buf /\ Fits(buf[b], alive) /\ buf \in [Bufs -> Buf]
  BY DEF Held, TypeOK
<1>2. /\ k \in Buf /\ k.st = "releasing" /\ k.proc = buf[b].proc /\ k.target = NIL
      /\ k.objs = buf[b].objs /\ k.next = buf[b].next
  BY <1>1 DEF Buf
<1>3. buf' = [buf EXCEPT ![b] = k]
  BY <1>1
<1>. HIDE DEF k
<1>4. Fits(k, alive)
  BY <1>1, <1>2 DEF Fits
<1>5. /\ buf' \in [Bufs -> Buf]
      /\ \A c \in Bufs : Fits(buf'[c], alive)
      /\ \A m : To(buf', m) = IF k.target = m THEN To(buf, m) \cup {b} ELSE To(buf, m) \ {b}
  BY <1>2, <1>3, <1>4, OneBufIs
<1>6. \A m \in Nodes : k.target # m
  BY <1>2, RefsNil
<1>7. \A m, strong : In(buf', m, strong) = In(buf, m, strong)
  BY <1>2, <1>3, <1>4, SameContents
<1>. QED
  BY <1>5, <1>6, <1>7

\* One object further.
LEMMA NextIs ==
    ASSUME Held, NEW b \in Bufs, buf[b].st = "releasing", buf[b].next <= Len(buf[b].objs),
           buf' = [buf EXCEPT ![b].next = @ + 1]
    PROVE  LET i == buf[b].next
               o == buf[b].objs[i] IN
           /\ buf' \in [Bufs -> Buf]
           /\ \A c \in Bufs : Fits(buf'[c], alive)
           /\ \A m : To(buf', m) = To(buf, m)
           /\ \A m, strong :
                In(buf', m, strong) = IF o.type = "binder" /\ o.node = m /\ o.strong = strong
                                     THEN In(buf, m, strong) \ {<<b, i>>} ELSE In(buf, m, strong)
           /\ o.type = "binder" => <<b, i>> \in In(buf, o.node, o.strong)
<1>. DEFINE i == buf[b].next
            o == buf[b].objs[i]
            k == [buf[b] EXCEPT !.next = @ + 1]
<1>1. buf[b] \in Buf /\ Fits(buf[b], alive) /\ buf \in [Bufs -> Buf]
  BY DEF Held, TypeOK
<1>2. /\ i \in Nat /\ i + 1 \in Nat /\ Len(buf[b].objs) \in Nat
      /\ i \in 1..Len(buf[b].objs) /\ i \in 1..MaxObjs /\ buf[b].objs \in Seq(Obj)
  BY <1>1, RefsBounds DEF Fits, Buf
<1>3. /\ k \in Buf /\ k.st = "releasing" /\ k.proc = buf[b].proc /\ k.target = buf[b].target
      /\ k.objs = buf[b].objs /\ k.next = i + 1
  BY <1>1, <1>2 DEF Buf
<1>4. buf' = [buf EXCEPT ![b] = k]
  BY <1>1
<1>. HIDE DEF k
<1>5. Fits(k, alive)
  BY <1>1, <1>2, <1>3 DEF Fits
<1>6. /\ buf' \in [Bufs -> Buf] /\ buf'[b] = k
      /\ \A c \in Bufs \ {b} : buf'[c] = buf[c]
      /\ \A c \in Bufs : Fits(buf'[c], alive)
      /\ \A m : To(buf', m) = IF k.target = m THEN To(buf, m) \cup {b} ELSE To(buf, m) \ {b}
  BY ZenonT(60), <1>3, <1>4, <1>5, OneBufIs
<1>7. \A m : k.target = m <=> b \in To(buf, m)
  BY <1>3 DEF To
<1>8. o.type = "binder" => <<b, i>> \in In(buf, o.node, o.strong)
  <2>1. IsLocal(o.node, o.strong, buf[b], i) <=> o.type = "binder"
    BY <1>2 DEF IsLocal
  <2>. QED
    BY <1>2, <2>1 DEF In
<1>9. ASSUME NEW m, NEW strong
      PROVE  In(buf', m, strong) = IF o.type = "binder" /\ o.node = m /\ o.strong = strong
                                  THEN In(buf, m, strong) \ {<<b, i>>} ELSE In(buf, m, strong)
  <2>1. ASSUME NEW j \in 1..MaxObjs, j # i
        PROVE  IsLocal(m, strong, k, j) <=> IsLocal(m, strong, buf[b], j)
    <3>1. j \in i..Len(buf[b].objs) <=> j \in (i + 1)..Len(buf[b].objs)
      BY <1>2, <2>1
    <3>. QED
      BY <1>3, <3>1 DEF IsLocal
  <2>2. ~IsLocal(m, strong, k, i)
    BY <1>2, <1>3 DEF IsLocal
  <2>3. IsLocal(m, strong, buf[b], i) <=> o.type = "binder" /\ o.node = m /\ o.strong = strong
    BY <1>2 DEF IsLocal
  <2>. HIDE DEF i, o
  <2>4. CASE o.type = "binder" /\ o.node = m /\ o.strong = strong
    <3>1. /\ ~IsLocal(m, strong, buf'[b], i)
          /\ \A c \in Bufs, j \in 1..MaxObjs : c # b \/ j # i =>
               (IsLocal(m, strong, buf'[c], j) <=> IsLocal(m, strong, buf[c], j))
      BY <1>6, <2>1, <2>2
    <3>2. Without(m, strong, buf', b, i)
      BY <3>1 DEF Without
    <3>3. i \in 1..MaxObjs
      BY <1>2
    <3>. QED
      BY <2>4, <3>2, <3>3, LocalsLess
  <2>5. CASE ~(o.type = "binder" /\ o.node = m /\ o.strong = strong)
    <3>1. \A c \in Bufs, j \in 1..MaxObjs :
            IsLocal(m, strong, buf'[c], j) <=> IsLocal(m, strong, buf[c], j)
      BY <1>6, <2>1, <2>2, <2>3, <2>5
    <3>. QED
      BY <2>5, <3>1, LocalsKept
  <2>. QED
    BY <2>4, <2>5
<1>10. ASSUME NEW m PROVE To(buf', m) = To(buf, m)
  <2>1. To(buf', m) = IF k.target = m THEN To(buf, m) \cup {b} ELSE To(buf, m) \ {b}
    BY <1>6
  <2>2. k.target = m <=> b \in To(buf, m)
    BY <1>7
  <2>. QED
    BY <2>1, <2>2
<1>11. buf' \in [Bufs -> Buf] /\ \A c \in Bufs : Fits(buf'[c], alive)
  BY <1>6
<1>. HIDE DEF i, o
<1>. QED
  BY <1>8, <1>9, <1>10, <1>11 DEF i, o

\* The buffer is free.
LEMMA EmptyIs ==
    ASSUME Held, NEW b \in Bufs, buf[b].st = "releasing", buf[b].next > Len(buf[b].objs),
           buf' = [buf EXCEPT ![b] = NoBuf]
    PROVE  /\ buf' \in [Bufs -> Buf]
           /\ \A c \in Bufs : Fits(buf'[c], alive)
           /\ \A m \in Nodes : To(buf', m) = To(buf, m)
           /\ \A m, strong : In(buf', m, strong) = In(buf, m, strong)
<1>1. buf[b] \in Buf /\ Fits(buf[b], alive)
  BY DEF Held, TypeOK
<1>2. Fits(NoBuf, alive)
  BY NoBufIs, RefsBounds DEF Fits
<1>3. /\ buf' \in [Bufs -> Buf] /\ buf'[b] = NoBuf
      /\ \A c \in Bufs \ {b} : buf'[c] = buf[c]
      /\ \A c \in Bufs : Fits(buf'[c], alive)
      /\ \A m : To(buf', m) = IF NoBuf.target = m THEN To(buf, m) \cup {b} ELSE To(buf, m) \ {b}
  BY <1>2, NoBufIs, OneBufIs
<1>4. \A m \in Nodes : NoBuf.target # m /\ b \notin To(buf, m)
  BY <1>1, NoBufIs, RefsNil DEF To, Fits
<1>5. ASSUME NEW m, NEW strong PROVE In(buf', m, strong) = In(buf, m, strong)
  <2>1. buf[b].next \in Nat /\ Len(buf[b].objs) \in Nat
    BY <1>1 DEF Buf
  <2>2. \A i \in 1..MaxObjs : ~IsLocal(m, strong, NoBuf, i) /\ ~IsLocal(m, strong, buf[b], i)
    BY <2>1, NoBufIs DEF IsLocal
  <2>3. \A c \in Bufs, i \in 1..MaxObjs :
          IsLocal(m, strong, buf'[c], i) <=> IsLocal(m, strong, buf[c], i)
    BY <1>3, <2>2
  <2>. QED
    BY <2>3, LocalsKept
<1>6. ASSUME NEW m \in Nodes PROVE To(buf', m) = To(buf, m)
  <2>1. To(buf', m) = IF NoBuf.target = m THEN To(buf, m) \cup {b} ELSE To(buf, m) \ {b}
    BY <1>3
  <2>. QED
    BY <1>4, <2>1
<1>7. buf' \in [Bufs -> Buf] /\ \A c \in Bufs : Fits(buf'[c], alive)
  BY <1>3
<1>. QED
  BY <1>5, <1>6, <1>7

\* The buffers of a process go with it.
LEMMA GoneIs ==
    ASSUME Held, NEW p \in Procs, alive' = alive \ {p},
           buf' = [b \in Bufs |-> IF buf[b].proc = p THEN NoBuf ELSE buf[b]]
    PROVE  /\ buf' \in [Bufs -> Buf]
           /\ \A c \in Bufs : Fits(buf'[c], alive')
           /\ \A m \in Nodes :
                To(buf', m) = IF Owner[m] = p THEN {} ELSE To(buf, m)
           /\ \A m \in Nodes, strong \in BOOLEAN :
                In(buf', m, strong) = IF Owner[m] = p THEN {} ELSE In(buf, m, strong)
<1>1. \A c \in Bufs : buf[c] \in Buf /\ Fits(buf[c], alive)
  BY DEF Held, TypeOK
<1>2. \A c \in Bufs : buf'[c] = IF buf[c].proc = p THEN NoBuf ELSE buf[c]
  OBVIOUS
<1>3. buf' \in [Bufs -> Buf]
  BY <1>1, NoBufIs
<1>4. ASSUME NEW c \in Bufs PROVE Fits(buf'[c], alive')
  <2>1. CASE buf[c].proc = p
    <3>1. buf'[c] = NoBuf
      BY <1>2, <2>1
    <3>. QED
      BY <3>1, NoBufIs, RefsBounds DEF Fits
  <2>2. CASE buf[c].proc # p
    BY <1>1, <1>2, <2>2 DEF Fits
  <2>. QED
    BY <2>1, <2>2
<1>5. ASSUME NEW m \in Nodes
      PROVE  To(buf', m) = IF Owner[m] = p THEN {} ELSE To(buf, m)
  <2>1. m # NIL
    BY RefsNil
  <2>2. \A c \in Bufs : buf[c].target = m => Owner[m] = buf[c].proc
    BY <1>1, <2>1 DEF Fits
  <2>3. \A c \in Bufs : buf'[c].target = m <=> buf[c].target = m /\ Owner[m] # p
    BY <1>2, <2>1, <2>2, NoBufIs
  <2>. QED
    BY <2>3 DEF To
<1>6. ASSUME NEW m \in Nodes, NEW strong \in BOOLEAN
      PROVE  In(buf', m, strong) = IF Owner[m] = p THEN {} ELSE In(buf, m, strong)
  <2>1. ASSUME NEW c \in Bufs, NEW i \in 1..MaxObjs, IsLocal(m, strong, buf[c], i)
        PROVE  Owner[m] = buf[c].proc
    <3>1. buf[c].next \in Nat /\ buf[c].next >= 1 /\ Len(buf[c].objs) \in Nat
      BY <1>1 DEF Fits, Buf
    <3>2. i \in 1..Len(buf[c].objs)
      BY <2>1, <3>1 DEF IsLocal
    <3>. QED
      BY <1>1, <2>1, <3>2 DEF Fits, IsLocal
  <2>2. \A i \in 1..MaxObjs : ~IsLocal(m, strong, NoBuf, i)
    BY NoBufIs DEF IsLocal
  <2>3. \A c \in Bufs, i \in 1..MaxObjs :
          IsLocal(m, strong, buf'[c], i) <=> IsLocal(m, strong, buf[c], i) /\ Owner[m] # p
    BY <1>2, <2>1, <2>2
  <2>4. CASE Owner[m] # p
    BY <2>3, <2>4, LocalsKept
  <2>5. CASE Owner[m] = p
    <3>1. In(buf', m, strong) = {x \in Bufs \X (1..MaxObjs) : IsLocal(m, strong, buf'[x[1]], x[2])}
      BY DEF In, IsLocal
    <3>2. \A x \in Bufs \X (1..MaxObjs) : x[1] \in Bufs /\ x[2] \in 1..MaxObjs
      OBVIOUS
    <3>. QED
      BY <2>3, <2>5, <3>1, <3>2
  <2>. QED
    BY <2>4, <2>5
<1>. QED
  BY <1>3, <1>4, <1>5, <1>6

-------------------------------------------------------------------------------
(* Steps *)

\* All of Held but the nodes.
Around ==
    /\ alive \in SUBSET Procs
    /\ ref \in [Procs -> [Nodes -> Ref]]
    /\ buf \in [Bufs -> Buf] /\ \A c \in Bufs : Fits(buf[c], alive)
    /\ mgr \in Nodes \cup {NIL}
    /\ busy \in [buf: Bufs \cup {NIL}, thread: Threads \cup {NIL}] /\ InHand
    /\ user \in [Procs -> [Handles -> [s: Nat, w: Nat]]]
    /\ lost \in SUBSET Nodes
    /\ unsure \in SUBSET Procs

LEMMA AroundIs == Held <=> Around /\ node \in [Nodes -> Node] /\ Counts
BY DEF Held, Around, TypeOK

\* A step at one node.
LEMMA OneNodeHeld ==
    ASSUME Held, Around', alive' = alive, mgr' = mgr, NEW n \in Nodes, NEW d,
           node' = [node EXCEPT ![n] = d],
           \A m \in Nodes \ {n} :
             /\ Who(ref', m) = Who(ref, m) /\ WhoStrong(ref', m) = WhoStrong(ref, m)
             /\ To(buf', m) = To(buf, m) /\ In(buf', m, TRUE) = In(buf, m, TRUE)
             /\ In(buf', m, FALSE) = In(buf, m, FALSE),
           Sound(n, d, Up(n), IsMgr(n), WhoStrong(ref', n), Who(ref', n), To(buf', n),
                 In(buf', n, TRUE), In(buf', n, FALSE))
    PROVE  Held'
<1>1. d \in Node /\ node \in [Nodes -> Node] /\ Counts
  BY DEF Sound, Held, TypeOK
<1>2. node' \in [Nodes -> Node] /\ node'[n] = d /\ \A m \in Nodes \ {n} : node'[m] = node[m]
  BY <1>1
<1>3. Counts'
  <2>. SUFFICES ASSUME NEW m \in Nodes
                PROVE  Sound(m, node'[m], Up(m)', IsMgr(m)', WhoStrong(ref', m), Who(ref', m),
                             To(buf', m), In(buf', m, TRUE), In(buf', m, FALSE))
    BY DEF Counts
  <2>1. Up(m)' = Up(m) /\ IsMgr(m)' = IsMgr(m)
    BY DEF Up, IsMgr
  <2>2. CASE m = n
    BY <1>2, <2>1, <2>2
  <2>3. CASE m # n
    <3>1. /\ node'[m] = node[m] /\ Who(ref', m) = Who(ref, m) /\ WhoStrong(ref', m) = WhoStrong(ref, m)
          /\ To(buf', m) = To(buf, m) /\ In(buf', m, TRUE) = In(buf, m, TRUE)
          /\ In(buf', m, FALSE) = In(buf, m, FALSE)
      BY <1>2, <2>3
    <3>2. Sound(m, node[m], Up(m), IsMgr(m), WhoStrong(ref, m), Who(ref, m), To(buf, m),
                In(buf, m, TRUE), In(buf, m, FALSE))
      BY <1>1 DEF Counts
    <3>. QED
      BY <2>1, <3>1, <3>2
  <2>. QED
    BY <2>2, <2>3
<1>. QED
  BY <1>2, <1>3 DEF Held, Around, TypeOK

\* A step that leaves the nodes and what refers to them alone.
LEMMA NoNodeHeld ==
    ASSUME Held, Around', alive' = alive, mgr' = mgr, node' = node,
           \A m \in Nodes :
             /\ Who(ref', m) = Who(ref, m) /\ WhoStrong(ref', m) = WhoStrong(ref, m)
             /\ To(buf', m) = To(buf, m) /\ In(buf', m, TRUE) = In(buf, m, TRUE)
             /\ In(buf', m, FALSE) = In(buf, m, FALSE)
    PROVE  Held'
<1>1. node \in [Nodes -> Node] /\ Counts
  BY DEF Held, TypeOK
<1>3. Counts'
  <2>. SUFFICES ASSUME NEW m \in Nodes
                PROVE  Sound(m, node'[m], Up(m)', IsMgr(m)', WhoStrong(ref', m), Who(ref', m),
                             To(buf', m), In(buf', m, TRUE), In(buf', m, FALSE))
    BY DEF Counts
  <2>1. Up(m)' = Up(m) /\ IsMgr(m)' = IsMgr(m)
    BY DEF Up, IsMgr
  <2>. QED
    BY <1>1, <2>1 DEF Counts
<1>. QED
  BY <1>1, <1>3 DEF Held, Around, TypeOK

LEMMA SameRefs ==
    ASSUME ref' = ref
    PROVE  \A m \in Nodes : Who(ref', m) = Who(ref, m) /\ WhoStrong(ref', m) = WhoStrong(ref, m)
BY DEF Who, Holders, WhoStrong

LEMMA SameBufs ==
    ASSUME buf' = buf
    PROVE  \A m \in Nodes : /\ To(buf', m) = To(buf, m) /\ In(buf', m, TRUE) = In(buf, m, TRUE)
                            /\ In(buf', m, FALSE) = In(buf, m, FALSE)
BY DEF To, In

LEMMA HeldInit == Init => Held
<1>. SUFFICES ASSUME Init PROVE Held
  OBVIOUS
<1>1. \A c \in Bufs : buf[c] = NoBuf /\ Fits(buf[c], alive)
  BY NoBufIs, RefsBounds DEF Init, Fits
<1>2. NoRef \in Ref /\ [s |-> 0, w |-> 0] \in [s: Nat, w: Nat] /\ NoRef.desc = NIL
  BY DEF NoRef, Ref
<1>3. /\ alive \in SUBSET Procs /\ mgr = NIL /\ lost \in SUBSET Nodes /\ unsure \in SUBSET Procs
      /\ ref \in [Procs -> [Nodes -> Ref]] /\ buf \in [Bufs -> Buf]
      /\ user \in [Procs -> [Handles -> [s: Nat, w: Nat]]]
  BY <1>2, NoBufIs DEF Init
<1>4. busy \in [buf: Bufs \cup {NIL}, thread: Threads \cup {NIL}] /\ InHand
  BY DEF Init, InHand, Idle
<1>5. node \in [Nodes -> Node] /\ \A n \in Nodes : node[n] = NoNode
  BY NoNodeIs DEF Init
<1>6. Counts
  <2>. SUFFICES ASSUME NEW n \in Nodes
                PROVE  Sound(n, node[n], Up(n), IsMgr(n), WhoStrong(ref, n), Who(ref, n),
                             To(buf, n), In(buf, n, TRUE), In(buf, n, FALSE))
    BY DEF Counts
  <2>1. Who(ref, n) = {} /\ WhoStrong(ref, n) = {}
    BY <1>2 DEF Init, Who, Holders, WhoStrong
  <2>2. To(buf, n) = {}
    BY <1>1, NoBufIs, RefsNil DEF To
  <2>3. \A c \in Bufs, i \in 1..MaxObjs, strong \in BOOLEAN : ~IsLocal(n, strong, buf[c], i)
    BY <1>1, NoBufIs DEF IsLocal
  <2>4. In(buf, n, TRUE) = {} /\ In(buf, n, FALSE) = {} /\ ~IsMgr(n)
    BY <1>3, <2>3, RefsNil DEF In, IsMgr
  <2>. QED
    BY <1>5, <2>1, <2>2, <2>4, NoNodeSound
<1>. QED
  BY <1>1, <1>3, <1>4, <1>5, <1>6 DEF Held, TypeOK

LEMMA NodeSound ==
    ASSUME Held, NEW n \in Nodes
    PROVE  /\ Sound(n, node[n], Up(n), IsMgr(n), WhoStrong(ref, n), Who(ref, n), To(buf, n),
                    In(buf, n, TRUE), In(buf, n, FALSE))
           /\ SoundAt(n, node[n])
           /\ node[n] \in Node
           /\ Who(ref, n) # {} => node[n].st # "none"
           /\ node[n].st = "live" => Owner[n] \in alive
           /\ n = mgr => node[n].st = "live"
BY DEF Held, Counts, SoundAt, Sound, Up, IsMgr

\* The counting commands.
LEMMA IncHeld ==
    ASSUME Held, NEW p \in Procs, NEW d \in Handles, NEW strong \in BOOLEAN, Inc(p, d, strong)
    PROVE  Held'
<1>1. PICK n \in Counted(p, d) :
        /\ IncRef(p, n, node[n], strong, NIL)
        /\ NotSure(p, IncRefused(p, n, node[n], strong, NIL) \/ RefFor(p, n).desc # d)
  BY DEF Inc
<1>2. /\ UNCHANGED <<alive, buf, mgr, busy, lost>>
      /\ user' = IF strong THEN [user EXCEPT ![p][d].s = @ + 1] ELSE [user EXCEPT ![p][d].w = @ + 1]
  BY DEF Inc
<1>3. TypeOK
  BY DEF Held
<1>4. n \in Nodes /\ node[n].st # "none"
  <2>1. CASE d = 0 /\ mgr # NIL
    BY <1>1, <1>3, <2>1, NodeSound DEF Counted, TypeOK
  <2>2. CASE ~(d = 0 /\ mgr # NIL)
    <3>1. n \in Nodes /\ ref[p][n].desc = d
      BY <1>1, <2>2 DEF Counted, Named
    <3>2. d # NIL
      BY RefsNil, RefsFinite, FS_CardinalityType DEF Handles
    <3>. QED
      BY <3>1, <3>2, NodeSound DEF Who, Holders
  <2>. QED
    BY <2>1, <2>2
<1>5. Moved(n)
  <2>1. SoundAt(n, node[n])
    BY <1>4, NodeSound
  <2>2. NIL \in Threads \cup {NIL} /\ IncRef(p, n, node[n], strong, NIL)
    BY <1>1
  <2>. QED
    BY <1>3, <1>4, <2>1, <2>2, IncRefSound
<1>6. user' \in [Procs -> [Handles -> [s: Nat, w: Nat]]]
  <2>1. user[p][d] \in [s: Nat, w: Nat]
    BY <1>3 DEF TypeOK
  <2>2. user[p][d].s + 1 \in Nat /\ user[p][d].w + 1 \in Nat
    BY <2>1
  <2>. QED
    BY <1>2, <1>3, <2>2 DEF TypeOK
<1>7. unsure' \in SUBSET Procs
  BY <1>1, <1>3 DEF NotSure, TypeOK
<1>8. Around'
  BY <1>2, <1>5, <1>6, <1>7, AroundIs DEF Around, InHand, Moved
<1>9. \A m \in Nodes : /\ To(buf', m) = To(buf, m) /\ In(buf', m, TRUE) = In(buf, m, TRUE)
                       /\ In(buf', m, FALSE) = In(buf, m, FALSE)
  BY <1>2, SameBufs
<1>. QED
  BY <1>2, <1>4, <1>5, <1>8, <1>9, OneNodeHeld DEF Moved

LEMMA DecHeld ==
    ASSUME Held, NEW p \in Procs, NEW d \in Handles, NEW strong \in BOOLEAN, Dec(p, d, strong)
    PROVE  Held'
<1>. DEFINE holds == (IF strong THEN user[p][d].s ELSE user[p][d].w) > 0
<1>1. PICK n \in Named(p, d) : DecRef(p, n, strong)
  BY DEF Dec
<1>2. /\ UNCHANGED <<alive, buf, mgr, busy, lost, unsure>>
      /\ user' = IF ~holds THEN user
                 ELSE IF strong THEN [user EXCEPT ![p][d].s = @ - 1]
                 ELSE [user EXCEPT ![p][d].w = @ - 1]
  BY DEF Dec
<1>3. TypeOK
  BY DEF Held
<1>4. n \in Nodes /\ p \in Who(ref, n)
  <2>1. n \in Nodes /\ ref[p][n].desc = d
    BY <1>1 DEF Named
  <2>2. d # NIL
    BY RefsNil, RefsFinite, FS_CardinalityType DEF Handles
  <2>. QED
    BY <2>1, <2>2 DEF Who, Holders
<1>5. Moved(n)
  BY <1>1, <1>3, <1>4, NodeSound, DecRefSound
<1>6. user' \in [Procs -> [Handles -> [s: Nat, w: Nat]]]
  <2>1. user[p][d] \in [s: Nat, w: Nat]
    BY <1>3 DEF TypeOK
  <2>2. /\ holds /\ strong => user[p][d].s - 1 \in Nat
        /\ holds /\ ~strong => user[p][d].w - 1 \in Nat
    BY <2>1
  <2>. QED
    BY <1>2, <1>3, <2>2 DEF TypeOK
<1>8. Around'
  BY <1>2, <1>5, <1>6, AroundIs DEF Around, InHand, Moved
<1>9. \A m \in Nodes : /\ To(buf', m) = To(buf, m) /\ In(buf', m, TRUE) = In(buf, m, TRUE)
                       /\ In(buf', m, FALSE) = In(buf, m, FALSE)
  BY <1>2, SameBufs
<1>. QED
  BY <1>2, <1>4, <1>5, <1>8, <1>9, OneNodeHeld DEF Moved

LEMMA DoneHeld ==
    ASSUME Held, NEW n \in Nodes, NEW strong \in BOOLEAN, Done(n, strong)
    PROVE  Held'
<1>. DEFINE nd == node[n]
            d == DecLocal(n, IF strong THEN [nd EXCEPT !.pS = FALSE] ELSE [nd EXCEPT !.pW = FALSE],
                          strong, Holders(n) = {})
<1>1. /\ nd.st = "live" /\ (IF strong THEN nd.pS ELSE nd.pW)
      /\ node' = [node EXCEPT ![n] = d]
      /\ UNCHANGED <<alive, ref, buf, mgr, busy, user, lost, unsure>>
  BY DEF Done
<1>2. Sound(n, nd, Up(n), IsMgr(n), WhoStrong(ref, n), Holders(n), To(buf, n),
            In(buf, n, TRUE), In(buf, n, FALSE))
  BY NodeSound, RefersIs
<1>3. Sound(n, d, Up(n), IsMgr(n), WhoStrong(ref, n), Holders(n), To(buf, n),
            In(buf, n, TRUE), In(buf, n, FALSE))
  <2>1. IsFiniteSet(To(buf, n)) /\ IsFiniteSet(In(buf, n, TRUE)) /\ IsFiniteSet(In(buf, n, FALSE))
    BY Finite
  <2>. HIDE DEF nd
  <2>2. CASE strong
    BY <1>1, <1>2, <2>1, <2>2, DoneSound
  <2>3. CASE ~strong
    BY <1>1, <1>2, <2>1, <2>3, DoneSound
  <2>. QED
    BY <2>2, <2>3
<1>. HIDE DEF d
<1>4. Sound(n, d, Up(n), IsMgr(n), WhoStrong(ref', n), Who(ref', n), To(buf', n),
            In(buf', n, TRUE), In(buf', n, FALSE))
  BY <1>1, <1>3, RefersIs
<1>5. Around'
  BY <1>1, AroundIs DEF Around, InHand
<1>. QED
  BY <1>1, <1>4, <1>5, SameRefs, SameBufs, OneNodeHeld

\* BINDER_WORK_NODE.
LEMMA ReadNodeHeld ==
    ASSUME Held, NEW h \in Threads, NEW n \in Nodes, ReadNode(h, n)
    PROVE  Held'
<1>. DEFINE nd == node[n]
            d == Told(n, nd)
<1>1. /\ nd.work \in {h, ProcOf[h]} /\ node' = [node EXCEPT ![n] = d]
      /\ UNCHANGED <<alive, ref, buf, mgr, busy, user, lost, unsure>>
  BY DEF ReadNode, Held, TypeOK
<1>2. Sound(n, nd, Up(n), IsMgr(n), WhoStrong(ref, n), Holders(n), To(buf, n),
            In(buf, n, TRUE), In(buf, n, FALSE))
  BY NodeSound, RefersIs
<1>3. nd.st = "live"
  <2>1. ProcOf[h] \in Procs
    BY RefsProcOf
  <2>2. nd.work # NIL
    BY <1>1, <2>1, RefsNil
  <2>. QED
    BY <1>2, <2>2 DEF Sound
<1>4. Sound(n, d, Up(n), IsMgr(n), WhoStrong(ref, n), Holders(n), To(buf, n),
            In(buf, n, TRUE), In(buf, n, FALSE))
  BY <1>2, <1>3, Finite, ToldSound
<1>. HIDE DEF d, nd
<1>5. Sound(n, d, Up(n), IsMgr(n), WhoStrong(ref', n), Who(ref', n), To(buf', n),
            In(buf', n, TRUE), In(buf', n, FALSE))
  BY <1>1, <1>4, RefersIs
<1>6. Around'
  BY <1>1, AroundIs DEF Around, InHand
<1>. QED
  BY <1>1, <1>5, <1>6, SameRefs, SameBufs, OneNodeHeld

\* Work that goes with its thread.
LEMMA ThreadExitHeld ==
    ASSUME Held, NEW h \in Threads, ThreadExit(h)
    PROVE  Held'
<1>. DEFINE mine == {n \in Nodes : node[n].work = h}
<1>1. /\ node' = [n \in Nodes |-> IF n \in mine THEN [node[n] EXCEPT !.work = NIL] ELSE node[n]]
      /\ lost' = lost \cup mine
      /\ UNCHANGED <<alive, ref, buf, mgr, busy, user, unsure>>
  BY DEF ThreadExit
<1>. HIDE DEF mine
<1>2. ASSUME NEW n \in Nodes
      PROVE  Sound(n, node'[n], Up(n)', IsMgr(n)', WhoStrong(ref', n), Who(ref', n), To(buf', n),
                   In(buf', n, TRUE), In(buf', n, FALSE))
  <2>1. Sound(n, node[n], Up(n), IsMgr(n), WhoStrong(ref, n), Who(ref, n), To(buf, n),
              In(buf, n, TRUE), In(buf, n, FALSE))
    BY NodeSound
  <2>2. Sound(n, [node[n] EXCEPT !.work = NIL], Up(n), IsMgr(n), WhoStrong(ref, n), Who(ref, n),
              To(buf, n), In(buf, n, TRUE), In(buf, n, FALSE))
    BY <2>1, UnlistedSound
  <2>3. Sound(n, node'[n], Up(n), IsMgr(n), WhoStrong(ref, n), Who(ref, n), To(buf, n),
              In(buf, n, TRUE), In(buf, n, FALSE))
    BY <1>1, <2>1, <2>2
  <2>4. Up(n)' = Up(n) /\ IsMgr(n)' = IsMgr(n)
    BY <1>1 DEF Up, IsMgr
  <2>. QED
    BY <1>1, <2>3, <2>4
<1>3. node' \in [Nodes -> Node] /\ Counts'
  <2>1. \A n \in Nodes : node'[n] \in Node
    BY <1>2 DEF Sound
  <2>. QED
    BY <1>1, <1>2, <2>1 DEF Counts
<1>4. lost' \in SUBSET Nodes
  BY <1>1 DEF mine, Held, TypeOK
<1>. QED
  BY <1>1, <1>3, <1>4 DEF Held, TypeOK, InHand

\* The context manager's node, which nothing refers to yet.
LEMMA ManagerSound ==
    ASSUME NEW n \in Managers, NEW up, NEW mg, up, NEW v,
           NEW nd, nd.st = "none", NEW S, NEW H, NEW T, NEW LS, NEW LW,
           Sound(n, nd, up, mg, S, H, T, LS, LW),
           v = [NewNode EXCEPT !.lS = 1, !.lW = 1, !.hS = TRUE, !.hW = TRUE]
    PROVE  Sound(n, v, up, TRUE, S, H, T, LS, LW)
<1>1. /\ v \in Node /\ v.st = "live" /\ v.iS = 0 /\ v.lS = 1 /\ v.lW = 1
      /\ v.hS /\ v.hW /\ ~v.pS /\ ~v.pW
  BY NoNodeIs DEF Node
<1>2. S = {} /\ H = {} /\ T = {} /\ LS = {} /\ LW = {}
  BY DEF Sound
<1>3. Cardinality({}) = 0 /\ Mgr(n) = 1
  BY FS_EmptySet, MgrIs
<1>4. One(v.pS) = 0 /\ One(v.pW) = 0
  BY <1>1 DEF One
<1>. QED
  BY <1>1, <1>2, <1>3, <1>4 DEF Sound

LEMMA SetContextMgrHeld ==
    ASSUME Held, NEW n \in Nodes, SetContextMgr(n)
    PROVE  Held'
<1>. DEFINE d == [NewNode EXCEPT !.lS = 1, !.lW = 1, !.hS = TRUE, !.hW = TRUE]
<1>1. /\ n \in Managers /\ Up(n) /\ mgr = NIL /\ node[n].st = "none" /\ mgr' = n
      /\ node' = [node EXCEPT ![n] = d]
      /\ UNCHANGED <<alive, ref, buf, busy, user, lost, unsure>>
  BY DEF SetContextMgr, Up
<1>2. Sound(n, d, Up(n), TRUE, WhoStrong(ref, n), Who(ref, n), To(buf, n),
            In(buf, n, TRUE), In(buf, n, FALSE))
  BY <1>1, NodeSound, ManagerSound
<1>. HIDE DEF d
<1>3. node \in [Nodes -> Node] /\ d \in Node
  BY <1>2 DEF Held, TypeOK, Sound
<1>4. node' \in [Nodes -> Node] /\ node'[n] = d /\ \A m \in Nodes \ {n} : node'[m] = node[m]
  BY <1>1, <1>3
<1>5. ASSUME NEW m \in Nodes
      PROVE  Sound(m, node'[m], Up(m)', IsMgr(m)', WhoStrong(ref', m), Who(ref', m), To(buf', m),
                   In(buf', m, TRUE), In(buf', m, FALSE))
  <2>1. Up(m)' = Up(m) /\ (m = n => IsMgr(m)' = TRUE) /\ (m # n => IsMgr(m)' = IsMgr(m))
    <3>1. m # NIL
      BY RefsNil
    <3>. QED
      BY <1>1, <3>1 DEF Up, IsMgr
  <2>2. CASE m = n
    BY <1>1, <1>2, <1>4, <2>1, <2>2
  <2>3. CASE m # n
    <3>1. Sound(m, node[m], Up(m), IsMgr(m), WhoStrong(ref, m), Who(ref, m), To(buf, m),
                In(buf, m, TRUE), In(buf, m, FALSE))
      BY NodeSound
    <3>. QED
      BY <1>1, <1>4, <2>1, <2>3, <3>1
  <2>. QED
    BY <2>2, <2>3
<1>6. Counts'
  BY <1>5 DEF Counts
<1>. QED
  BY <1>1, <1>4, <1>6 DEF Held, TypeOK, InHand

\* The target of buffer b loses its count, after the nodes have become ns.
LEMMA ReleaseStartHeld ==
    ASSUME Held, NEW b \in Bufs, buf[b].st \in {"filling", "held"},
           NEW ns \in [Nodes -> Node], \A m \in Nodes : SoundAt(m, ns[m]),
           ReleaseStart(b, ns), UNCHANGED <<alive, ref, mgr, user, lost, unsure>>,
           busy' \in [buf: Bufs \cup {NIL}, thread: Threads \cup {NIL}], InHand'
    PROVE  Held'
<1>. DEFINE t == buf[b].target
            d == DecLocal(t, ns[t], TRUE, Holders(t) = {})
<1>1. buf' = [buf EXCEPT ![b].st = "releasing", ![b].target = NIL]
  BY DEF ReleaseStart
<1>2. /\ buf' \in [Bufs -> Buf]
      /\ \A c \in Bufs : Fits(buf'[c], alive)
      /\ \A m \in Nodes : To(buf', m) = To(buf, m) \ {b}
      /\ \A m, strong : In(buf', m, strong) = In(buf, m, strong)
  BY <1>1, UntargetIs
<1>3. node' = IF t = NIL THEN ns ELSE [ns EXCEPT ![t] = d]
  BY DEF ReleaseStart
<1>4. t \in Nodes \cup {NIL}
  BY DEF Held, TypeOK, Buf
<1>5. \A m \in Nodes : (m = t <=> b \in To(buf, m))
  BY DEF To
<1>6. ASSUME t \in Nodes
      PROVE  Sound(t, d, Up(t), IsMgr(t), WhoStrong(ref, t), Who(ref, t), To(buf, t) \ {b},
                   In(buf, t, TRUE), In(buf, t, FALSE))
  <2>1. Sound(t, ns[t], Up(t), IsMgr(t), WhoStrong(ref, t), Holders(t), To(buf, t),
              In(buf, t, TRUE), In(buf, t, FALSE))
    BY <1>6, RefersIs DEF SoundAt
  <2>2. IsFiniteSet(To(buf, t)) /\ IsFiniteSet(In(buf, t, TRUE)) /\ IsFiniteSet(In(buf, t, FALSE))
    BY Finite
  <2>3. b \in To(buf, t)
    BY <1>5, <1>6
  <2>. HIDE DEF t
  <2>4. Sound(t, d, Up(t), IsMgr(t), WhoStrong(ref, t), Holders(t), To(buf, t) \ {b},
              In(buf, t, TRUE), In(buf, t, FALSE))
    BY <1>6, <2>1, <2>2, <2>3, LetGoSound
  <2>. QED
    BY <2>4, RefersIs
<1>. HIDE DEF t, d
<1>7. ASSUME NEW m \in Nodes
      PROVE  Sound(m, node'[m], Up(m), IsMgr(m), WhoStrong(ref, m), Who(ref, m), To(buf, m) \ {b},
                   In(buf, m, TRUE), In(buf, m, FALSE))
  <2>1. CASE m = t
    <3>1. t # NIL
      BY <2>1, RefsNil
    <3>2. node'[m] = d
      BY <1>3, <2>1, <3>1
    <3>. QED
      BY <1>6, <2>1, <3>2
  <2>2. CASE m # t
    <3>1. node'[m] = ns[m]
      BY <1>3, <2>2
    <3>2. To(buf, m) \ {b} = To(buf, m)
      BY <1>5, <2>2
    <3>. QED
      BY <3>1, <3>2 DEF SoundAt
  <2>. QED
    BY <2>1, <2>2
<1>8. ASSUME NEW m \in Nodes
      PROVE  Sound(m, node'[m], Up(m)', IsMgr(m)', WhoStrong(ref', m), Who(ref', m), To(buf', m),
                   In(buf', m, TRUE), In(buf', m, FALSE))
  <2>1. Up(m)' = Up(m) /\ IsMgr(m)' = IsMgr(m)
    BY DEF Up, IsMgr
  <2>2. ref' = ref /\ To(buf', m) = To(buf, m) \ {b}
        /\ In(buf', m, TRUE) = In(buf, m, TRUE) /\ In(buf', m, FALSE) = In(buf, m, FALSE)
    BY <1>2
  <2>. QED
    BY <1>7, <2>1, <2>2
<1>9. Counts'
  BY <1>8 DEF Counts
<1>10. node' \in [Nodes -> Node]
  <2>1. \A m \in Nodes : node'[m] \in Node
    BY <1>7 DEF Sound
  <2>. QED
    BY <1>3, <2>1
<1>11. Around'
  BY <1>2, AroundIs DEF Around
<1>. QED
  BY <1>9, <1>10, <1>11 DEF Held, Around, TypeOK

\* BC_FREE_BUFFER.
LEMMA FreeBufferHeld ==
    ASSUME Held, NEW h \in Threads, NEW b \in Bufs, FreeBuffer(h, b)
    PROVE  Held'
<1>1. /\ ProcOf[h] \in alive /\ buf[b].st = "held" /\ ReleaseStart(b, node)
      /\ busy' = [buf |-> b, thread |-> h]
      /\ UNCHANGED <<alive, ref, mgr, user, lost, unsure>>
  BY DEF FreeBuffer
<1>2. node \in [Nodes -> Node] /\ \A m \in Nodes : SoundAt(m, node[m])
  BY NodeSound DEF Held, TypeOK
<1>3. busy' \in [buf: Bufs \cup {NIL}, thread: Threads \cup {NIL}] /\ InHand'
  BY <1>1 DEF InHand
<1>. QED
  BY <1>1, <1>2, <1>3, ReleaseStartHeld

\* The sender of the buffer that is being filled.
LEMMA SendingIs ==
    ASSUME Held, NEW h \in Threads, Sending(h)
    PROVE  /\ busy.buf \in Bufs /\ buf[busy.buf].st = "filling" /\ ProcOf[h] \in alive
           /\ busy.thread = h /\ buf[busy.buf].proc \in alive
           /\ busy \in [buf: Bufs \cup {NIL}, thread: Threads \cup {NIL}]
           /\ Fits(buf[busy.buf], alive)
<1>1. busy \in [buf: Bufs \cup {NIL}, thread: Threads \cup {NIL}] /\ InHand
  BY DEF Held, TypeOK
<1>2. busy.buf \in Bufs /\ buf[busy.buf].st = "filling" /\ ProcOf[h] \in alive /\ busy.thread = h
  BY <1>1 DEF Sending, InHand
<1>3. Fits(buf[busy.buf], alive)
  BY <1>2 DEF Held
<1>. QED
  BY <1>1, <1>2, <1>3 DEF Fits

\* A transaction that fails, perhaps after it has made a node.
LEMMA SendFailsHeld ==
    ASSUME Held, NEW h \in Threads, SendFails(h)
    PROVE  Held'
<1>1. /\ Sending(h) /\ UNCHANGED <<alive, ref, mgr, busy, user, lost, unsure>>
  BY DEF SendFails
<1>2. /\ busy.buf \in Bufs /\ buf[busy.buf].st = "filling"
      /\ busy' \in [buf: Bufs \cup {NIL}, thread: Threads \cup {NIL}] /\ InHand'
      /\ ProcOf[h] \in alive
  BY <1>1, SendingIs DEF InHand
<1>3. node \in [Nodes -> Node] /\ \A m \in Nodes : SoundAt(m, node[m])
  BY NodeSound DEF Held, TypeOK
<1>4. CASE ReleaseStart(busy.buf, node)
  BY <1>1, <1>2, <1>3, <1>4, ReleaseStartHeld
<1>5. CASE \E n \in Nodes \ Managers :
             /\ Owner[n] = ProcOf[h] /\ node[n].st = "none"
             /\ ReleaseStart(busy.buf, [node EXCEPT ![n] = NewNode])
  <2>1. PICK n \in Nodes \ Managers :
             /\ Owner[n] = ProcOf[h] /\ node[n].st = "none"
             /\ ReleaseStart(busy.buf, [node EXCEPT ![n] = NewNode])
    BY <1>5
  <2>. DEFINE ns == [node EXCEPT ![n] = NewNode]
  <2>2. SoundAt(n, NewNode)
    <3>1. Up(n)
      BY <1>2, <2>1 DEF Up
    <3>. QED
      BY <1>3, <2>1, <3>1, NewNodeSound DEF SoundAt
  <2>3. ns \in [Nodes -> Node] /\ ns[n] = NewNode /\ \A m \in Nodes \ {n} : ns[m] = node[m]
    BY <1>3, NoNodeIs
  <2>. HIDE DEF ns
  <2>4. \A m \in Nodes : SoundAt(m, ns[m])
    BY <1>3, <2>2, <2>3
  <2>5. ReleaseStart(busy.buf, ns)
    BY <2>1 DEF ns
  <2>. QED
    BY <1>1, <1>2, <2>3, <2>4, <2>5, ReleaseStartHeld
<1>. QED
  BY <1>4, <1>5 DEF SendFails

\* A transaction begins.
LEMMA SendStartHeld ==
    ASSUME Held, NEW h \in Threads, NEW q \in Procs, NEW n \in Nodes \cup {NIL}, NEW b \in Bufs,
           SendStart(h, q, n, b)
    PROVE  Held'
<1>. DEFINE d == IncLocal(node[n], TRUE)
<1>1. /\ ProcOf[h] \in alive /\ q \in alive /\ buf[b].st = "free"
      /\ n # NIL => node[n].st = "live" /\ Owner[n] = q
      /\ node' = IF n = NIL THEN node ELSE [node EXCEPT ![n] = d]
      /\ buf' = [buf EXCEPT ![b] = [NoBuf EXCEPT !.st = "filling", !.proc = q, !.target = n]]
      /\ busy' = [buf |-> b, thread |-> h]
      /\ UNCHANGED <<alive, ref, mgr, user, lost, unsure>>
  BY DEF SendStart, Held, TypeOK
<1>2. /\ buf' \in [Bufs -> Buf]
      /\ \A c \in Bufs : Fits(buf'[c], alive)
      /\ \A m \in Nodes : b \notin To(buf, m)
      /\ \A m \in Nodes : To(buf', m) = IF m = n THEN To(buf, m) \cup {b} ELSE To(buf, m)
      /\ \A m, strong : In(buf', m, strong) = In(buf, m, strong)
  <2>1. q \in alive /\ buf[b].st = "free" /\ n \in Nodes \cup {NIL} /\ (n # NIL => Owner[n] = q)
    BY <1>1
  <2>2. Started(b, q, n)
    BY <1>1 DEF Started
  <2>. QED
    BY <2>1, <2>2, StartIs
<1>3. Around'
  BY <1>1, <1>2, AroundIs DEF Around, InHand
<1>4. CASE n = NIL
  <2>1. \A m \in Nodes : To(buf', m) = To(buf, m)
    BY <1>2, <1>4, RefsNil
  <2>. QED
    BY <1>1, <1>2, <1>3, <1>4, <2>1, SameRefs, NoNodeHeld
<1>5. CASE n # NIL
  <2>1. n \in Nodes /\ node[n].st = "live" /\ node' = [node EXCEPT ![n] = d]
    BY <1>1, <1>5
  <2>2. Sound(n, node[n], Up(n), IsMgr(n), WhoStrong(ref, n), Who(ref, n), To(buf, n),
              In(buf, n, TRUE), In(buf, n, FALSE))
    BY <2>1, NodeSound
  <2>3. Sound(n, d, Up(n), IsMgr(n), WhoStrong(ref, n), Who(ref, n), To(buf, n) \cup {b},
              In(buf, n, TRUE), In(buf, n, FALSE))
    BY <1>2, <2>1, <2>2, Finite, IncLocalSound
  <2>. HIDE DEF d
  <2>4. /\ Who(ref', n) = Who(ref, n) /\ WhoStrong(ref', n) = WhoStrong(ref, n)
        /\ To(buf', n) = To(buf, n) \cup {b}
        /\ In(buf', n, TRUE) = In(buf, n, TRUE) /\ In(buf', n, FALSE) = In(buf, n, FALSE)
    BY <1>1, <1>2, <2>1
  <2>5. Sound(n, d, Up(n), IsMgr(n), WhoStrong(ref', n), Who(ref', n), To(buf', n),
              In(buf', n, TRUE), In(buf', n, FALSE))
    BY <2>3, <2>4
  <2>6. \A m \in Nodes \ {n} : To(buf', m) = To(buf, m)
    BY <1>2
  <2>7. \A m \in Nodes \ {n} :
             /\ Who(ref', m) = Who(ref, m) /\ WhoStrong(ref', m) = WhoStrong(ref, m)
             /\ To(buf', m) = To(buf, m) /\ In(buf', m, TRUE) = In(buf, m, TRUE)
             /\ In(buf', m, FALSE) = In(buf, m, FALSE)
    BY <1>1, <1>2, <2>6
  <2>. QED
    BY <1>1, <1>3, <2>1, <2>5, <2>7, OneNodeHeld
<1>. QED
  BY <1>4, <1>5

LEMMA SendDoneHeld ==
    ASSUME Held, NEW h \in Threads, SendDone(h)
    PROVE  Held'
<1>. DEFINE b == busy.buf
<1>1. /\ Sending(h) /\ buf' = [buf EXCEPT ![b].st = "held"] /\ busy' = Idle
      /\ UNCHANGED <<alive, node, ref, mgr, user, lost, unsure>>
  BY DEF SendDone
<1>2. b \in Bufs /\ buf[b].st = "filling"
  BY <1>1, SendingIs
<1>3. /\ buf' \in [Bufs -> Buf]
      /\ \A c \in Bufs : Fits(buf'[c], alive)
      /\ \A m : To(buf', m) = To(buf, m)
      /\ \A m, strong : In(buf', m, strong) = In(buf, m, strong)
  BY <1>1, <1>2, FilledIs
<1>4. Around'
  BY <1>1, <1>3, AroundIs DEF Around, InHand, Idle
<1>. QED
  BY <1>1, <1>3, <1>4, SameRefs, NoNodeHeld

\* The buffer that is being released.
LEMMA ReleasingIs ==
    ASSUME Held, Releasing
    PROVE  /\ busy.buf \in Bufs /\ buf[busy.buf].st = "releasing"
           /\ busy \in [buf: Bufs \cup {NIL}, thread: Threads \cup {NIL}]
           /\ Fits(buf[busy.buf], alive) /\ buf[busy.buf] \in Buf
BY DEF Held, TypeOK, Releasing

LEMMA ReleaseDoneHeld ==
    ASSUME Held, ReleaseDone
    PROVE  Held'
<1>. DEFINE b == busy.buf
<1>1. /\ Releasing /\ buf[b].next > Len(buf[b].objs)
      /\ buf' = [buf EXCEPT ![b] = NoBuf] /\ busy' = Idle
      /\ UNCHANGED <<alive, node, ref, mgr, user, lost, unsure>>
  BY DEF ReleaseDone
<1>2. b \in Bufs /\ buf[b].st = "releasing"
  BY <1>1, ReleasingIs
<1>3. /\ buf' \in [Bufs -> Buf]
      /\ \A c \in Bufs : Fits(buf'[c], alive)
      /\ \A m \in Nodes : To(buf', m) = To(buf, m)
      /\ \A m, strong : In(buf', m, strong) = In(buf, m, strong)
  BY <1>1, <1>2, EmptyIs
<1>4. Around'
  BY <1>1, <1>3, AroundIs DEF Around, InHand, Idle
<1>. QED
  BY <1>1, <1>3, <1>4, SameRefs, NoNodeHeld

\* A step of the references to n that no buffer notices.
LEMMA MovedHeld ==
    ASSUME Held, NEW n \in Nodes, Moved(n), Around', alive' = alive, mgr' = mgr,
           \A m : To(buf', m) = To(buf, m),
           \A m, strong : In(buf', m, strong) = In(buf, m, strong)
    PROVE  Held'
<1>1. \A m \in Nodes \ {n} :
         /\ Who(ref', m) = Who(ref, m) /\ WhoStrong(ref', m) = WhoStrong(ref, m)
         /\ To(buf', m) = To(buf, m) /\ In(buf', m, TRUE) = In(buf, m, TRUE)
         /\ In(buf', m, FALSE) = In(buf, m, FALSE)
  BY DEF Moved
<1>2. Sound(n, node'[n], Up(n), IsMgr(n), WhoStrong(ref', n), Who(ref', n), To(buf', n),
            In(buf', n, TRUE), In(buf', n, FALSE))
  BY DEF Moved
<1>3. node' = [node EXCEPT ![n] = node'[n]]
  BY DEF Moved
<1>. QED
  BY <1>1, <1>2, <1>3, OneNodeHeld

\* A handle more in the buffer that is being filled.
LEMMA HandleIs ==
    ASSUME Held, NEW h \in Threads, MoreObjs(h), NEW n \in Nodes, NEW strong \in BOOLEAN,
           NEW o, o = [type |-> "handle", strong |-> strong, node |-> n,
                       desc |-> RefFor(Target(h), n).desc],
           Carry(o)
    PROVE  /\ buf' \in [Bufs -> Buf]
           /\ \A c \in Bufs : Fits(buf'[c], alive)
           /\ \A m : To(buf', m) = To(buf, m)
           /\ \A m, s : In(buf', m, s) = In(buf, m, s)
<1>. DEFINE b == busy.buf
<1>1. b \in Bufs /\ buf[b].st = "filling" /\ Len(buf[b].objs) < MaxObjs /\ Target(h) \in Procs
  BY SendingIs DEF MoreObjs, Target, Held, TypeOK
<1>2. RefFor(Target(h), n).desc \in Handles /\ RefFor(Target(h), n).desc # NIL
  BY <1>1, RefForIs DEF Held
<1>3. o \in Obj /\ o.type = "handle" /\ o.desc # NIL
  BY <1>2 DEF Obj
<1>4. IF o.type = "binder" THEN Owner[o.node] = buf[b].proc ELSE o.desc # NIL
  BY <1>3
<1>. HIDE DEF b
<1>5. /\ buf' \in [Bufs -> Buf]
      /\ \A c \in Bufs : Fits(buf'[c], alive)
      /\ \A m : To(buf', m) = To(buf, m)
      /\ \A m, s : /\ <<b, Len(buf[b].objs) + 1>> \notin In(buf, m, s)
                   /\ In(buf', m, s) = IF o.type = "binder" /\ o.node = m /\ o.strong = s
                        THEN In(buf, m, s) \cup {<<b, Len(buf[b].objs) + 1>>} ELSE In(buf, m, s)
  BY <1>1, <1>3, <1>4, CarryIs DEF b
<1>6. o.type # "binder"
  BY <1>3
<1>7. ASSUME NEW m, NEW s PROVE In(buf', m, s) = In(buf, m, s)
  BY <1>5, <1>6
<1>8. /\ buf' \in [Bufs -> Buf] /\ \A c \in Bufs : Fits(buf'[c], alive)
      /\ \A m : To(buf', m) = To(buf, m)
  BY <1>5
<1>. QED
  BY <1>7, <1>8

\* BINDER_TYPE_BINDER.
LEMMA SendBinderHeld ==
    ASSUME Held, NEW h \in Threads, NEW n \in Nodes, NEW strong \in BOOLEAN,
           SendBinder(h, n, strong)
    PROVE  Held'
<1>. DEFINE q == Target(h)
            nd == IF node[n].st = "none" THEN NewNode ELSE node[n]
            o == [type |-> "handle", strong |-> strong, node |-> n, desc |-> RefFor(q, n).desc]
<1>1. /\ MoreObjs(h) /\ Owner[n] = ProcOf[h] /\ n \notin Managers
      /\ IncRef(q, n, nd, strong, h) /\ Carry(o)
      /\ UNCHANGED <<alive, mgr, busy, user, lost, unsure>>
  BY DEF SendBinder
<1>2. Up(n) /\ q \in Procs /\ TypeOK
  BY <1>1, SendingIs DEF MoreObjs, Target, Up, Held, TypeOK
<1>3. SoundAt(n, nd) /\ nd.st = "live"
  <2>1. SoundAt(n, node[n])
    BY NodeSound
  <2>2. CASE node[n].st = "none"
    <3>1. SoundAt(n, NewNode)
      BY <1>1, <1>2, <2>1, <2>2, NewNodeSound DEF SoundAt
    <3>. QED
      BY <2>2, <3>1, NoNodeIs
  <2>3. CASE node[n].st # "none"
    <3>1. node[n].st \in {"none", "live", "dead"}
      BY <1>2 DEF TypeOK, Node
    <3>2. node[n].st # "dead"
      BY <1>2, <2>1 DEF SoundAt, Sound
    <3>. QED
      BY <2>1, <2>3, <3>1, <3>2
  <2>. QED
    BY <2>2, <2>3
<1>. HIDE DEF nd, q
<1>4. Moved(n)
  BY <1>1, <1>2, <1>3, IncRefSound
<1>5. /\ buf' \in [Bufs -> Buf]
      /\ \A c \in Bufs : Fits(buf'[c], alive)
      /\ \A m : To(buf', m) = To(buf, m)
      /\ \A m, s : In(buf', m, s) = In(buf, m, s)
  BY <1>1, HandleIs DEF q
<1>6. Around'
  BY <1>1, <1>4, <1>5, AroundIs DEF Around, InHand, Moved
<1>. QED
  BY <1>1, <1>4, <1>5, <1>6, MovedHeld

\* BINDER_TYPE_HANDLE.
LEMMA SendHandleHeld ==
    ASSUME Held, NEW h \in Threads, NEW n \in Nodes, NEW strong \in BOOLEAN,
           SendHandle(h, n, strong)
    PROVE  Held'
<1>. DEFINE b == busy.buf
            q == Target(h)
            home == node[n].st = "live" /\ Owner[n] = q
            o == [type |-> "binder", strong |-> strong, node |-> n, desc |-> NIL]
            e == [type |-> "handle", strong |-> strong, node |-> n, desc |-> RefFor(q, n).desc]
            d == IncLocal(node[n], strong)
            k == Len(buf[b].objs) + 1
<1>1. /\ MoreObjs(h) /\ ProcOf[h] \in Holders(n)
      /\ UNCHANGED <<alive, mgr, busy, user, lost>>
  BY DEF SendHandle
<1>2. /\ home => /\ node' = [node EXCEPT ![n] = d] /\ Carry(o) /\ UNCHANGED <<ref, unsure>>
      /\ ~home => /\ IncRef(q, n, node[n], strong, NIL) /\ Carry(e)
                  /\ NotSure(q, IncRefused(q, n, node[n], strong, NIL))
  BY DEF SendHandle, Held, TypeOK
<1>3. q \in Procs /\ TypeOK /\ b \in Bufs /\ buf[b].st = "filling" /\ q = buf[b].proc
      /\ Len(buf[b].objs) < MaxObjs
  BY <1>1, SendingIs DEF MoreObjs, Target, Held, TypeOK
<1>. HIDE DEF e, d
<1>4. CASE ~home
  <2>1. SoundAt(n, node[n]) /\ node[n].st # "none"
    BY <1>1, NodeSound, RefersIs
  <2>2. NIL \in Threads \cup {NIL} /\ IncRef(q, n, node[n], strong, NIL)
    BY <1>2, <1>4
  <2>3. Moved(n)
    BY <1>3, <2>1, <2>2, IncRefSound
  <2>4. Carry(e)
    BY <1>2, <1>4
  <2>5. /\ buf' \in [Bufs -> Buf]
        /\ \A c \in Bufs : Fits(buf'[c], alive)
        /\ \A m : To(buf', m) = To(buf, m)
        /\ \A m, s : In(buf', m, s) = In(buf, m, s)
    BY <1>1, <2>4, HandleIs DEF e
  <2>6. unsure' \in SUBSET Procs
    BY <1>2, <1>3, <1>4 DEF NotSure, TypeOK
  <2>7. Around'
    BY <1>1, <2>3, <2>5, <2>6, AroundIs DEF Around, InHand, Moved
  <2>. QED
    BY <1>1, <2>3, <2>5, <2>7, MovedHeld
<1>5. CASE home
  <2>1. o \in Obj /\ o.type = "binder" /\ o.node = n /\ o.strong = strong
    BY DEF Obj
  <2>2. IF o.type = "binder" THEN Owner[o.node] = buf[b].proc ELSE o.desc # NIL
    BY <1>3, <1>5, <2>1
  <2>3. Carry(o)
    BY <1>2, <1>5
  <2>. HIDE DEF o, b, home, q
  <2>4. /\ buf' \in [Bufs -> Buf]
        /\ \A c \in Bufs : Fits(buf'[c], alive)
        /\ \A m : To(buf', m) = To(buf, m)
        /\ \A m, s : /\ <<b, k>> \notin In(buf, m, s)
                     /\ In(buf', m, s) = IF o.type = "binder" /\ o.node = m /\ o.strong = s
                          THEN In(buf, m, s) \cup {<<b, k>>} ELSE In(buf, m, s)
    BY <1>3, <2>1, <2>2, <2>3, CarryIs DEF b
  <2>. HIDE DEF k
  <2>5. ASSUME NEW m, NEW s
        PROVE  /\ <<b, k>> \notin In(buf, m, s)
               /\ In(buf', m, s) = IF m = n /\ s = strong THEN In(buf, m, s) \cup {<<b, k>>}
                                   ELSE In(buf, m, s)
    BY <2>1, <2>4
  <2>6. Sound(n, node[n], Up(n), IsMgr(n), WhoStrong(ref, n), Who(ref, n), To(buf, n),
              In(buf, n, TRUE), In(buf, n, FALSE)) /\ node[n].st = "live"
    BY <1>5, NodeSound DEF home
  <2>7. Sound(n, d, Up(n), IsMgr(n), WhoStrong(ref, n), Who(ref, n), To(buf, n),
              In(buf', n, TRUE), In(buf', n, FALSE))
    <3>1. IsFiniteSet(To(buf, n)) /\ IsFiniteSet(In(buf, n, TRUE)) /\ IsFiniteSet(In(buf, n, FALSE))
      BY Finite
    <3>2. CASE strong = TRUE
      <4>1. /\ In(buf', n, TRUE) = In(buf, n, TRUE) \cup {<<b, k>>} /\ <<b, k>> \notin In(buf, n, TRUE)
            /\ In(buf', n, FALSE) = In(buf, n, FALSE)
        BY <2>5, <3>2
      <4>2. Sound(n, IncLocal(node[n], TRUE), Up(n), IsMgr(n), WhoStrong(ref, n), Who(ref, n),
                  To(buf, n), In(buf, n, TRUE) \cup {<<b, k>>}, In(buf, n, FALSE))
        BY <2>6, <3>1, <4>1, IncLocalSound
      <4>. QED
        BY <3>2, <4>1, <4>2 DEF d
    <3>3. CASE strong = FALSE
      <4>1. /\ In(buf', n, FALSE) = In(buf, n, FALSE) \cup {<<b, k>>} /\ <<b, k>> \notin In(buf, n, FALSE)
            /\ In(buf', n, TRUE) = In(buf, n, TRUE)
        BY <2>5, <3>3
      <4>2. Sound(n, IncLocal(node[n], FALSE), Up(n), IsMgr(n), WhoStrong(ref, n), Who(ref, n),
                  To(buf, n), In(buf, n, TRUE), In(buf, n, FALSE) \cup {<<b, k>>})
        BY <2>6, <3>1, <4>1, IncLocalSound
      <4>. QED
        BY <3>3, <4>1, <4>2 DEF d
    <3>. QED
      BY <3>2, <3>3
  <2>8. node' = [node EXCEPT ![n] = d] /\ UNCHANGED <<ref, unsure>>
    BY <1>2, <1>5
  <2>9. To(buf', n) = To(buf, n)
    BY <2>4
  <2>10. Sound(n, d, Up(n), IsMgr(n), WhoStrong(ref', n), Who(ref', n), To(buf', n),
               In(buf', n, TRUE), In(buf', n, FALSE))
    BY <2>7, <2>8, <2>9
  <2>11. Around'
    BY <1>1, <2>4, <2>8, AroundIs DEF Around, InHand
  <2>12. ASSUME NEW m \in Nodes \ {n}
         PROVE  /\ Who(ref', m) = Who(ref, m) /\ WhoStrong(ref', m) = WhoStrong(ref, m)
                /\ To(buf', m) = To(buf, m) /\ In(buf', m, TRUE) = In(buf, m, TRUE)
                /\ In(buf', m, FALSE) = In(buf, m, FALSE)
    BY <2>4, <2>5, <2>8
  <2>. QED
    BY <1>1, <2>8, <2>10, <2>11, <2>12, OneNodeHeld
<1>. QED
  BY <1>4, <1>5

\* One object of the buffer that is being released.
LEMMA ReleaseObjectHeld ==
    ASSUME Held, ReleaseObject
    PROVE  Held'
<1>. DEFINE b == busy.buf
            i == buf[b].next
            o == buf[b].objs[i]
            q == buf[b].proc
            d == DecLocal(o.node, node[o.node], o.strong, Holders(o.node) = {})
<1>1. /\ Releasing /\ i <= Len(buf[b].objs) /\ buf' = [buf EXCEPT ![b].next = @ + 1]
      /\ UNCHANGED <<alive, mgr, busy, user, lost, unsure>>
      /\ o.type = "handle" =>
           IF Named(q, o.desc) = {} THEN UNCHANGED <<node, ref>>
           ELSE \E n \in Named(q, o.desc) : DecRef(q, n, o.strong)
      /\ o.type # "handle" => node[o.node].st = "none" \/ node' = [node EXCEPT ![o.node] = d]
      /\ o.type # "handle" => ref' = ref
  BY DEF ReleaseObject, Held, TypeOK
<1>2. /\ b \in Bufs /\ buf[b].st = "releasing" /\ Fits(buf[b], alive) /\ buf[b] \in Buf /\ TypeOK
  BY <1>1, ReleasingIs DEF Held
<1>3. /\ i \in 1..Len(buf[b].objs) /\ q \in Procs
      /\ o.type # "binder" => o.desc # NIL
  <2>1. i \in Nat \ {0} /\ Len(buf[b].objs) \in Nat
    BY <1>2 DEF Fits, Buf
  <2>2. i \in 1..Len(buf[b].objs)
    <3>1. i <= Len(buf[b].objs)
      BY <1>1
    <3>. HIDE DEF i
    <3>. QED
      BY <2>1, <3>1
  <2>3. q \in alive /\ alive \subseteq Procs
    BY <1>2 DEF Fits, Held, TypeOK
  <2>4. o.type # "binder" => o.desc # NIL
    <3>. HIDE DEF i
    <3>. QED
      BY <1>2, <2>2 DEF Fits
  <2>. QED
    BY <2>2, <2>3, <2>4
<1>4. o \in Obj
  BY <1>2, <1>3 DEF Buf
<1>. HIDE DEF d, b
<1>5. /\ buf' \in [Bufs -> Buf]
      /\ \A c \in Bufs : Fits(buf'[c], alive)
      /\ \A m : To(buf', m) = To(buf, m)
      /\ \A m, s : In(buf', m, s) = IF o.type = "binder" /\ o.node = m /\ o.strong = s
                                    THEN In(buf, m, s) \ {<<b, i>>} ELSE In(buf, m, s)
      /\ o.type = "binder" => <<b, i>> \in In(buf, o.node, o.strong)
  BY <1>1, <1>2, NextIs
<1>. HIDE DEF i, o, q
<1>6. CASE o.type = "handle"
  <2>1. ASSUME NEW m, NEW s PROVE In(buf', m, s) = In(buf, m, s)
    BY <1>5, <1>6
  <2>2. \A m : To(buf', m) = To(buf, m)
    BY <1>5
  <2>3. CASE Named(q, o.desc) = {}
    <3>1. UNCHANGED <<node, ref>>
      BY <1>1, <1>6, <2>3
    <3>2. Around'
      BY <1>1, <1>5, <3>1, AroundIs DEF Around, InHand
    <3>. QED
      BY <1>1, <2>1, <2>2, <3>1, <3>2, SameRefs, NoNodeHeld
  <2>4. CASE Named(q, o.desc) # {}
    <3>1. PICK n \in Named(q, o.desc) : DecRef(q, n, o.strong)
      BY <1>1, <1>6, <2>4
    <3>2. n \in Nodes /\ q \in Who(ref, n) /\ o.strong \in BOOLEAN
      BY <1>3, <1>4, <1>6 DEF Named, Who, Obj
    <3>3. SoundAt(n, node[n])
      BY <3>2, NodeSound
    <3>4. Moved(n)
      BY <1>2, <1>3, <3>1, <3>2, <3>3, DecRefSound
    <3>5. Around'
      BY <1>1, <1>5, <3>4, AroundIs DEF Around, InHand, Moved
    <3>. QED
      BY <1>1, <2>1, <2>2, <3>2, <3>4, <3>5, MovedHeld
  <2>. QED
    BY <2>3, <2>4
<1>7. CASE o.type # "handle"
  <2>. DEFINE n == o.node
              x == <<b, i>>
  <2>1. o.type = "binder" /\ n \in Nodes /\ o.strong \in BOOLEAN
    BY <1>4, <1>7 DEF Obj
  <2>2. x \in In(buf, n, o.strong)
    BY <1>5, <2>1
  <2>3. Sound(n, node[n], Up(n), IsMgr(n), WhoStrong(ref, n), Holders(n), To(buf, n),
              In(buf, n, TRUE), In(buf, n, FALSE))
    BY <2>1, NodeSound, RefersIs
  <2>4. node[n].st = "live"
    <3>1. In(buf, n, TRUE) # {} \/ In(buf, n, FALSE) # {}
      <4>1. o.strong = TRUE \/ o.strong = FALSE
        BY <2>1
      <4>. QED
        BY <2>2, <4>1
    <3>. QED
      BY <2>3, <3>1 DEF Sound
  <2>5. node' = [node EXCEPT ![n] = d] /\ ref' = ref
    BY <1>1, <1>7, <2>4
  <2>6. IsFiniteSet(To(buf, n)) /\ IsFiniteSet(In(buf, n, TRUE)) /\ IsFiniteSet(In(buf, n, FALSE))
    BY Finite
  <2>7. d = DecLocal(n, node[n], o.strong, Holders(n) = {})
    BY DEF d
  <2>8. ASSUME NEW m, NEW s
        PROVE  In(buf', m, s) = IF m = n /\ s = o.strong THEN In(buf, m, s) \ {x} ELSE In(buf, m, s)
    BY <1>5, <2>1
  <2>. HIDE DEF n, x
  <2>9. Sound(n, d, Up(n), IsMgr(n), WhoStrong(ref, n), Holders(n), To(buf, n),
              In(buf', n, TRUE), In(buf', n, FALSE))
    <3>1. CASE o.strong = TRUE
      <4>1. /\ In(buf', n, TRUE) = In(buf, n, TRUE) \ {x} /\ x \in In(buf, n, TRUE)
            /\ In(buf', n, FALSE) = In(buf, n, FALSE)
        BY <2>2, <2>8, <3>1
      <4>2. Sound(n, DecLocal(n, node[n], TRUE, Holders(n) = {}), Up(n), IsMgr(n), WhoStrong(ref, n),
                  Holders(n), To(buf, n), In(buf, n, TRUE) \ {x}, In(buf, n, FALSE))
        BY <2>1, <2>3, <2>6, <4>1, LetGoSound
      <4>. QED
        BY <2>7, <3>1, <4>1, <4>2
    <3>2. CASE o.strong = FALSE
      <4>1. /\ In(buf', n, FALSE) = In(buf, n, FALSE) \ {x} /\ x \in In(buf, n, FALSE)
            /\ In(buf', n, TRUE) = In(buf, n, TRUE)
        BY <2>2, <2>8, <3>2
      <4>2. Sound(n, DecLocal(n, node[n], FALSE, Holders(n) = {}), Up(n), IsMgr(n), WhoStrong(ref, n),
                  Holders(n), To(buf, n), In(buf, n, TRUE), In(buf, n, FALSE) \ {x})
        BY <2>1, <2>3, <2>6, <4>1, LetGoSound
      <4>. QED
        BY <2>7, <3>2, <4>1, <4>2
    <3>. QED
      BY <2>1, <3>1, <3>2
  <2>10. To(buf', n) = To(buf, n)
    BY <1>5
  <2>11. Sound(n, d, Up(n), IsMgr(n), WhoStrong(ref', n), Who(ref', n), To(buf', n),
               In(buf', n, TRUE), In(buf', n, FALSE))
    BY <2>5, <2>9, <2>10, RefersIs
  <2>12. Around'
    BY <1>1, <1>5, <2>5, AroundIs DEF Around, InHand
  <2>13. ASSUME NEW m \in Nodes \ {n}
         PROVE  /\ Who(ref', m) = Who(ref, m) /\ WhoStrong(ref', m) = WhoStrong(ref, m)
                /\ To(buf', m) = To(buf, m) /\ In(buf', m, TRUE) = In(buf, m, TRUE)
                /\ In(buf', m, FALSE) = In(buf, m, FALSE)
    BY <1>5, <2>5, <2>8
  <2>. QED
    BY <1>1, <2>1, <2>5, <2>11, <2>12, <2>13, OneNodeHeld
<1>. QED
  BY <1>6, <1>7

\* What is left of Up and IsMgr when process p is gone.
StillUp(n, p) == Owner[n] \in alive \ {p}
StillMgr(n, p) == n = mgr /\ Owner[n] # p

\* The nodes of p first.
LEMMA MineSound ==
    ASSUME Held, NEW p \in alive, NEW n \in Nodes,
           NEW T, T = IF Owner[n] = p THEN {} ELSE To(buf, n),
           NEW LS, LS = IF Owner[n] = p THEN {} ELSE In(buf, n, TRUE),
           NEW LW, LW = IF Owner[n] = p THEN {} ELSE In(buf, n, FALSE),
           NEW nd, nd = IF Owner[n] = p /\ node[n].st = "live" THEN Orphan(n) ELSE node[n]
    PROVE  Sound(n, nd, StillUp(n, p), StillMgr(n, p), WhoStrong(ref, n), Who(ref, n), T, LS, LW)
<1>1. Sound(n, node[n], Up(n), IsMgr(n), WhoStrong(ref, n), Holders(n), To(buf, n),
            In(buf, n, TRUE), In(buf, n, FALSE)) /\ Holders(n) = Who(ref, n)
  BY NodeSound, RefersIs
<1>2. CASE Owner[n] # p
  <2>1. nd = node[n] /\ T = To(buf, n) /\ LS = In(buf, n, TRUE) /\ LW = In(buf, n, FALSE)
    BY <1>2
  <2>2. (StillUp(n, p) <=> Up(n)) /\ (StillMgr(n, p) <=> IsMgr(n))
    BY <1>2 DEF StillUp, Up, StillMgr, IsMgr
  <2>. QED
    BY <1>1, <2>1, <2>2 DEF Sound
<1>3. CASE Owner[n] = p
  <2>1. T = {} /\ LS = {} /\ LW = {} /\ ~StillUp(n, p) /\ ~StillMgr(n, p) /\ Up(n)
    BY <1>3 DEF StillUp, StillMgr, Up
  <2>2. CASE node[n].st = "live"
    <3>1. Sound(n, Orphan(n), FALSE, FALSE, WhoStrong(ref, n), Holders(n), {}, {}, {})
      BY <1>1, <2>2, OrphanSound
    <3>2. nd = Orphan(n)
      BY <1>3, <2>2
    <3>. QED
      BY <1>1, <2>1, <3>1, <3>2 DEF Sound
  <2>3. CASE node[n].st # "live"
    <3>1. nd = node[n]
      BY <2>3
    <3>. QED
      BY <1>1, <2>1, <2>3, <3>1 DEF Sound
  <2>. QED
    BY <2>2, <2>3
<1>. QED
  BY <1>2, <1>3

\* The end of a process.
LEMMA ReleaseHeld ==
    ASSUME Held, NEW p \in Procs, Release(p)
    PROVE  Held'
<1>. DEFINE mine(n) == IF Owner[n] = p /\ node[n].st = "live" THEN Orphan(n) ELSE node[n]
<1>1. /\ Free /\ p \in alive /\ alive' = alive \ {p}
      /\ mgr' = IF mgr # NIL /\ Owner[mgr] = p THEN NIL ELSE mgr
      /\ node' = [n \in Nodes |->
                    IF p \in Holders(n) THEN Deleted(n, mine(n), ref[p][n], Holders(n) = {p})
                    ELSE mine(n)]
      /\ ref' = [ref EXCEPT ![p] = [n \in Nodes |-> NoRef]]
      /\ buf' = [b \in Bufs |-> IF buf[b].proc = p THEN NoBuf ELSE buf[b]]
      /\ user' = [user EXCEPT ![p] = [d \in Handles |-> [s |-> 0, w |-> 0]]]
      /\ UNCHANGED <<busy, lost, unsure>>
  BY DEF Release
<1>2. /\ buf' \in [Bufs -> Buf]
      /\ \A c \in Bufs : Fits(buf'[c], alive')
      /\ \A m \in Nodes : To(buf', m) = IF Owner[m] = p THEN {} ELSE To(buf, m)
      /\ \A m \in Nodes, strong \in BOOLEAN :
           In(buf', m, strong) = IF Owner[m] = p THEN {} ELSE In(buf, m, strong)
  <2>1. alive' = alive \ {p} /\ buf' = [b \in Bufs |-> IF buf[b].proc = p THEN NoBuf ELSE buf[b]]
    BY <1>1
  <2>. QED
    BY <2>1, GoneIs
<1>3. /\ ref' \in [Procs -> [Nodes -> Ref]]
      /\ \A n \in Nodes : ref'[p][n].desc = NIL
      /\ \A q \in Procs \ {p}, n \in Nodes : ref'[q][n] = ref[q][n]
  <2>1. NoRef \in Ref /\ NoRef.desc = NIL
    BY DEF NoRef, Ref
  <2>2. ref \in [Procs -> [Nodes -> Ref]]
    BY DEF Held, TypeOK
  <2>. QED
    BY <1>1, <2>1, <2>2
<1>4. \A n \in Nodes : /\ Who(ref', n) = Who(ref, n) \ {p}
                       /\ WhoStrong(ref', n) = WhoStrong(ref, n) \ {p}
  BY <1>3 DEF Who, WhoStrong
<1>5. \A n \in Nodes : ref[p][n].s # 0 /\ p \in Who(ref, n) <=> p \in WhoStrong(ref, n)
  <2>1. \A n \in Nodes : ref[p][n].s \in Nat
    BY DEF Held, TypeOK, Ref
  <2>. QED
    BY <2>1 DEF WhoStrong
<1>6. ASSUME NEW n \in Nodes
      PROVE  Sound(n, node'[n], StillUp(n, p), StillMgr(n, p), WhoStrong(ref, n) \ {p},
                   Who(ref, n) \ {p}, To(buf', n), In(buf', n, TRUE), In(buf', n, FALSE))
  <2>. DEFINE nd == mine(n)
              r == ref[p][n]
              T == To(buf', n)
              LS == In(buf', n, TRUE)
              LW == In(buf', n, FALSE)
  <2>1. /\ T = (IF Owner[n] = p THEN {} ELSE To(buf, n))
        /\ LS = (IF Owner[n] = p THEN {} ELSE In(buf, n, TRUE))
        /\ LW = (IF Owner[n] = p THEN {} ELSE In(buf, n, FALSE))
    BY <1>2
  <2>2. nd = IF Owner[n] = p /\ node[n].st = "live" THEN Orphan(n) ELSE node[n]
    OBVIOUS
  <2>3. node'[n] = IF p \in Who(ref, n) THEN Deleted(n, nd, r, Who(ref, n) = {p}) ELSE nd
    BY <1>1, RefersIs
  <2>. HIDE DEF T, LS, LW, nd
  <2>4. Sound(n, nd, StillUp(n, p), StillMgr(n, p), WhoStrong(ref, n), Who(ref, n), T, LS, LW)
    BY <1>1, <2>1, <2>2, MineSound
  <2>5. IsFiniteSet(WhoStrong(ref, n)) /\ IsFiniteSet(T) /\ IsFiniteSet(LS) /\ IsFiniteSet(LW)
    BY <2>1, Finite, FS_EmptySet
  <2>6. CASE p \in Who(ref, n)
    <3>1. r.s # 0 <=> p \in WhoStrong(ref, n)
      BY <1>5, <2>6
    <3>2. Sound(n, Deleted(n, nd, r, Who(ref, n) = {p}), StillUp(n, p), StillMgr(n, p),
                WhoStrong(ref, n) \ {p}, Who(ref, n) \ {p}, T, LS, LW)
      BY <2>4, <2>5, <2>6, <3>1, DeletedSound
    <3>. QED
      BY <2>3, <2>6, <3>2 DEF T, LS, LW
  <2>7. CASE p \notin Who(ref, n)
    <3>1. Who(ref, n) \ {p} = Who(ref, n) /\ WhoStrong(ref, n) \ {p} = WhoStrong(ref, n)
      BY <2>7 DEF WhoStrong
    <3>. QED
      BY <2>3, <2>4, <2>7, <3>1 DEF T, LS, LW
  <2>. QED
    BY <2>6, <2>7
<1>7. ASSUME NEW n \in Nodes
      PROVE  Sound(n, node'[n], Up(n)', IsMgr(n)', WhoStrong(ref', n), Who(ref', n), To(buf', n),
                   In(buf', n, TRUE), In(buf', n, FALSE))
  <2>1. Up(n)' <=> StillUp(n, p)
    BY <1>1 DEF Up, StillUp
  <2>2. IsMgr(n)' <=> StillMgr(n, p)
    <3>1. n # NIL
      BY RefsNil
    <3>. QED
      BY <1>1, <3>1 DEF IsMgr, StillMgr
  <2>. QED
    BY <1>4, <1>6, <2>1, <2>2 DEF Sound
<1>8. Counts' /\ node' \in [Nodes -> Node]
  <2>1. \A n \in Nodes : node'[n] \in Node
    BY <1>6 DEF Sound
  <2>2. Counts'
    BY <1>7 DEF Counts
  <2>3. node' = [n \in Nodes |-> node'[n]]
    BY <1>1
  <2>. QED
    BY <2>1, <2>2, <2>3
<1>9. /\ alive' \in SUBSET Procs /\ mgr' \in Nodes \cup {NIL}
      /\ user' \in [Procs -> [Handles -> [s: Nat, w: Nat]]]
  <2>1. [d \in Handles |-> [s |-> 0, w |-> 0]] \in [Handles -> [s: Nat, w: Nat]]
    OBVIOUS
  <2>. QED
    BY <1>1, <2>1 DEF Held, TypeOK
<1>10. InHand'
  BY <1>1 DEF InHand, Free
<1>. QED
  BY <1>1, <1>2, <1>3, <1>8, <1>9, <1>10 DEF Held, TypeOK

-------------------------------------------------------------------------------
(* The specification *)

LEMMA HeldNext == Held /\ [Next]_vars => Held'
<1>. SUFFICES ASSUME Held, [Next]_vars PROVE Held'
  OBVIOUS
<1>1. ASSUME NEW p \in Procs, Count(p) PROVE Held'
  BY <1>1, IncHeld, DecHeld DEF Count
<1>2. ASSUME NEW p \in Procs, Release(p) PROVE Held'
  BY <1>2, ReleaseHeld
<1>3. ASSUME NEW n \in Nodes, NEW strong \in BOOLEAN, Done(n, strong) PROVE Held'
  BY <1>3, DoneHeld
<1>4. ASSUME NEW n \in Nodes, SetContextMgr(n) PROVE Held'
  BY <1>4, SetContextMgrHeld
<1>5. ASSUME NEW h \in Threads, Send(h) PROVE Held'
  BY <1>5, SendStartHeld, SendBinderHeld, SendHandleHeld, SendDoneHeld, SendFailsHeld DEF Send
<1>6. ASSUME NEW h \in Threads, ThreadExit(h) PROVE Held'
  BY <1>6, ThreadExitHeld
<1>7. ASSUME NEW h \in Threads, NEW b \in Bufs, FreeBuffer(h, b) PROVE Held'
  BY <1>7, FreeBufferHeld
<1>8. ASSUME NEW h \in Threads, NEW n \in Nodes, ReadNode(h, n) PROVE Held'
  BY <1>8, ReadNodeHeld
<1>9. CASE ReleaseObject
  BY <1>9, ReleaseObjectHeld
<1>10. CASE ReleaseDone
  BY <1>10, ReleaseDoneHeld
<1>11. CASE UNCHANGED vars
  <2>1. UNCHANGED <<alive, node, ref, buf, mgr, busy, user, lost, unsure>>
    BY <1>11 DEF vars
  <2>. QED
    BY <2>1, AroundIs, SameRefs, SameBufs, NoNodeHeld DEF Around, InHand
<1>. QED
  BY <1>1, <1>2, <1>3, <1>4, <1>5, <1>6, <1>7, <1>8, <1>9, <1>10, <1>11 DEF Next

LEMMA HeldAlways == Spec => []Held
BY HeldInit, HeldNext, PTL DEF Spec

\* Every field keeps its type; the handle of a new reference is always there
\* to be found (binder_get_ref_for_node).
THEOREM RefsTypeOK == Spec => []TypeOK
<1>1. Held => TypeOK
  BY DEF Held
<1>. QED
  BY <1>1, HeldAlways, PTL

\* The counts of a node are what refers to it, in whatever order increments,
\* releases, acknowledgements, failures and exits come.
THEOREM CountsAlwaysExact == Spec => []CountsExact
<1>1. ASSUME Held PROVE CountsExact
  <2>. SUFFICES ASSUME NEW n \in Nodes
                PROVE  LET nd == node[n] IN
                       /\ nd.iS = Cardinality({p \in Holders(n) : ref[p][n].s > 0})
                       /\ nd.st = "live" =>
                            /\ nd.lS = Cardinality(Targeted(n)) + Cardinality(Locals(n, TRUE))
                                         + One(nd.pS) + One(n \in Managers)
                            /\ nd.lW = Cardinality(Locals(n, FALSE)) + One(nd.pW)
                                         + One(n \in Managers)
                       /\ nd.st = "dead" => nd.lS = 0 /\ nd.lW = 0
    BY DEF CountsExact
  <2>1. Sound(n, node[n], Up(n), IsMgr(n), WhoStrong(ref, n), Who(ref, n), To(buf, n),
              In(buf, n, TRUE), In(buf, n, FALSE))
    BY <1>1, NodeSound
  <2>2. /\ {p \in Holders(n) : ref[p][n].s > 0} = WhoStrong(ref, n)
        /\ Targeted(n) = To(buf, n)
        /\ Locals(n, TRUE) = In(buf, n, TRUE) /\ Locals(n, FALSE) = In(buf, n, FALSE)
    BY RefersIs DEF WhoStrong
  <2>3. Mgr(n) = One(n \in Managers)
    BY DEF Mgr
  <2>. QED
    BY <2>1, <2>2, <2>3 DEF Sound
<1>. QED
  BY <1>1, HeldAlways, PTL

\* Nothing refers to a freed node; a node outlives its process only while it is
\* referred to, and its work is on a list of a live process.
THEOREM NoDanglingNodeEver == Spec => []NoDanglingNode
<1>1. ASSUME Held PROVE NoDanglingNode
  <2>1. ASSUME NEW n \in Nodes
        PROVE  /\ Holders(n) # {} => node[n].st # "none"
               /\ node[n].st = "dead" => Holders(n) # {} /\ Owner[n] \notin alive
               /\ Targeted(n) # {} => node[n].st = "live"
               /\ node[n].work # NIL => node[n].st = "live" /\ Owner[n] \in alive
    <3>1. Sound(n, node[n], Up(n), IsMgr(n), WhoStrong(ref, n), Who(ref, n), To(buf, n),
                In(buf, n, TRUE), In(buf, n, FALSE))
      BY <1>1, NodeSound
    <3>2. Holders(n) = Who(ref, n) /\ Targeted(n) = To(buf, n)
      BY RefersIs
    <3>. QED
      BY <3>1, <3>2 DEF Sound, Up
  <2>2. ASSUME NEW x \in Carried, ObjAt(x).type = "binder"
        PROVE  node[ObjAt(x).node].st = "live"
    <3>. DEFINE n == ObjAt(x).node
                strong == ObjAt(x).strong
    <3>1. x[1] \in Bufs /\ x[2] \in buf[x[1]].next..Len(buf[x[1]].objs)
      BY DEF Carried
    <3>2. buf[x[1]] \in Buf /\ Fits(buf[x[1]], alive)
      BY <1>1, <3>1 DEF Held, TypeOK
    <3>3. x[2] \in 1..Len(buf[x[1]].objs)
      BY <3>1, <3>2 DEF Buf, Fits
    <3>4. ObjAt(x) \in Obj
      BY <3>2, <3>3 DEF ObjAt, Buf
    <3>5. n \in Nodes /\ strong \in BOOLEAN
      BY <3>4 DEF Obj
    <3>6. x \in Locals(n, strong)
      BY <2>2 DEF Locals
    <3>. HIDE DEF n, strong
    <3>7. In(buf, n, TRUE) # {} \/ In(buf, n, FALSE) # {}
      <4>1. strong = TRUE \/ strong = FALSE
        BY <3>5
      <4>. QED
        BY <3>6, <4>1, RefersIs
    <3>8. Sound(n, node[n], Up(n), IsMgr(n), WhoStrong(ref, n), Who(ref, n), To(buf, n),
                In(buf, n, TRUE), In(buf, n, FALSE))
      BY <1>1, <3>5, NodeSound
    <3>9. node[n].st = "live"
      BY <3>7, <3>8 DEF Sound
    <3>. QED
      BY <3>9 DEF n
  <2>. QED
    BY <2>1, <2>2 DEF NoDanglingNode
<1>. QED
  BY <1>1, HeldAlways, PTL

\* What the process of a node claims and has yet to acknowledge is nested.
THEOREM ClaimsAlwaysNested == Spec => []ClaimsNested
<1>1. ASSUME Held PROVE ClaimsNested
  <2>1. ASSUME NEW n \in Nodes, node[n].st = "live"
        PROVE  (node[n].pS => node[n].hS) /\ (node[n].pW => node[n].hW)
               /\ (node[n].hS => node[n].hW)
    BY <1>1, <2>1, NodeSound DEF Sound
  <2>. QED
    BY <2>1 DEF ClaimsNested
<1>. QED
  BY <1>1, HeldAlways, PTL

-------------------------------------------------------------------------------
(* One node *)

\* What the process of node nd knows, the context manager's (mg) or one whose
\* work was lost (lo), with the references of H.  The manager's node has claims
\* from the start and keeps them: BC_INCREFS and BC_ACQUIRE of handle 0 make the
\* first reference to it without a list to put its work on.
Aware(nd, mg, lo, H) ==
    /\ mg => nd.hS /\ nd.hW
    /\ ~lo /\ nd.st = "live" /\ nd.work = NIL =>
         /\ nd.iS > 0 => nd.hS
         /\ H # {} => nd.hW
         /\ nd.hS => nd.iS # 0 \/ nd.lS # 0
         /\ nd.hW => H # {} \/ nd.lW # 0 \/ nd.iS # 0 \/ nd.lS # 0

LEMMA NewAware ==
    ASSUME NEW lo
    PROVE  Aware(NewNode, FALSE, lo, {}) /\ Aware(NoNode, FALSE, lo, {})
BY NoNodeIs DEF Aware, NoNode

LEMMA HeldAware ==
    ASSUME NEW nd, NEW mg, NEW lo, NEW H, Aware(nd, mg, lo, H), NEW p, mg \/ H # {}
    PROVE  Aware(nd, mg, lo, H \cup {p})
BY DEF Aware

LEMMA IncStrongAware ==
    ASSUME NEW n, NEW nd, NEW up, NEW mg, NEW S, NEW H, NEW T, NEW LS, NEW LW, NEW lo,
           Sound(n, nd, up, mg, S, H, T, LS, LW), Aware(nd, mg, lo, H),
           NEW list \in Threads \cup {NIL}, list = NIL => nd.iS # 0 \/ mg, NEW p
    PROVE  Aware(IncStrong(nd, list), mg, lo, H \cup {p})
<1>. DEFINE d == IncStrong(nd, list)
            w == IF ~nd.hS /\ list # NIL THEN list ELSE nd.work
<1>1. nd \in Node /\ nd.iS \in Nat /\ (nd.st = "live" => (nd.hS => nd.hW))
  BY DEF Sound, Node
<1>2. d = [nd EXCEPT !.iS = @ + 1, !.work = w]
  BY DEF IncStrong
<1>. HIDE DEF d, w
<1>3. /\ d.st = nd.st /\ d.iS = nd.iS + 1 /\ d.lS = nd.lS /\ d.lW = nd.lW
      /\ d.hS = nd.hS /\ d.hW = nd.hW /\ d.work = w
  BY <1>1, <1>2 DEF Node
<1>4. CASE list # NIL /\ ~nd.hS
  <2>1. d.work # NIL
    BY <1>3, <1>4 DEF w
  <2>. QED
    BY <1>3, <2>1 DEF Aware, d
<1>5. CASE nd.hS \/ list = NIL
  <2>1. d.work = nd.work
    BY <1>3, <1>5 DEF w
  <2>2. nd.iS # 0 => nd.iS > 0
    BY <1>1
  <2>3. d.iS # 0
    BY <1>1, <1>3
  <2>. QED
    BY <1>1, <1>3, <1>5, <2>1, <2>2, <2>3 DEF Aware, d
<1>. QED
  BY <1>4, <1>5

LEMMA IncWeakAware ==
    ASSUME NEW nd \in Node, NEW mg, NEW lo, NEW H, Aware(nd, mg, lo, H),
           NEW list \in Threads \cup {NIL}, list = NIL => nd.hW \/ nd.work # NIL, NEW p
    PROVE  Aware(IncWeak(nd, list), mg, lo, H \cup {p})
<1>. DEFINE d == IncWeak(nd, list)
<1>1. /\ d.st = nd.st /\ d.iS = nd.iS /\ d.lS = nd.lS /\ d.lW = nd.lW
      /\ d.hS = nd.hS /\ d.hW = nd.hW
      /\ d.work = IF ~nd.hW /\ nd.work = NIL THEN list ELSE nd.work
  BY DEF IncWeak, Node
<1>. HIDE DEF d
<1>. QED
  BY <1>1 DEF Aware, d

\* A count that goes: the work is queued, or there is nothing to tell.
LEMMA SettledAware ==
    ASSUME NEW n \in Nodes, NEW nd \in Node, NEW mg, NEW lo, NEW H, NEW alone,
           mg => nd.st = "live" /\ nd.hS /\ nd.hW,
           ~lo /\ nd.st = "live" /\ nd.work = NIL => (nd.iS > 0 => nd.hS) /\ (H # {} => nd.hW)
    PROVE  Aware(Settled(n, nd, alone), mg, lo, H)
<1>1. CASE nd.st = "live" /\ (nd.hS \/ nd.hW)
  <2>. DEFINE w == IF nd.work = NIL THEN Owner[n] ELSE nd.work
              d == [nd EXCEPT !.work = w]
  <2>1. Settled(n, nd, alone) = d
    BY <1>1 DEF Settled
  <2>2. w # NIL
    BY RefsOwner, RefsNil
  <2>. HIDE DEF w
  <2>3. d.work # NIL /\ d.hS = nd.hS /\ d.hW = nd.hW
    BY <2>2 DEF Node
  <2>. HIDE DEF d
  <2>. QED
    BY <2>1, <2>3 DEF Aware
<1>2. CASE ~(nd.st = "live" /\ (nd.hS \/ nd.hW))
  <2>1. Settled(n, nd, alone) \in {nd, NoNode} /\ ~mg
    BY <1>2 DEF Settled
  <2>2. NoNode.st = "none"
    BY DEF NoNode
  <2>3. Aware(nd, mg, lo, H) /\ Aware(NoNode, mg, lo, H)
    BY <1>2, <2>1, <2>2 DEF Aware
  <2>. QED
    BY <2>1, <2>3
<1>. QED
  BY <1>1, <1>2

LEMMA DecStrongAware ==
    ASSUME NEW n \in Nodes, NEW nd \in Node, NEW mg, NEW lo, NEW H, Aware(nd, mg, lo, H),
           mg => nd.st = "live", nd.iS > 0
    PROVE  Aware(DecStrong(n, nd), mg, lo, H)
<1>. DEFINE d == [nd EXCEPT !.iS = @ - 1]
<1>1. nd.iS - 1 \in Nat
  BY DEF Node
<1>2. /\ d \in Node /\ d.st = nd.st /\ d.iS = nd.iS - 1 /\ d.lS = nd.lS /\ d.lW = nd.lW
      /\ d.hS = nd.hS /\ d.hW = nd.hW /\ d.work = nd.work
  BY <1>1 DEF Node
<1>3. DecStrong(n, nd) = IF d.iS # 0 \/ d.lS # 0 THEN d ELSE Settled(n, d, FALSE)
  BY DEF DecStrong
<1>. HIDE DEF d
<1>4. d.iS # 0 \/ d.lS # 0 => Aware(d, mg, lo, H)
  BY <1>2 DEF Aware
<1>5. Aware(Settled(n, d, FALSE), mg, lo, H)
  <2>1. /\ mg => d.st = "live" /\ d.hS /\ d.hW
        /\ ~lo /\ d.st = "live" /\ d.work = NIL => (d.iS > 0 => d.hS) /\ (H # {} => d.hW)
    BY <1>2 DEF Aware
  <2>. QED
    BY <1>2, <2>1, SettledAware
<1>. QED
  BY <1>3, <1>4, <1>5

LEMMA DecWeakAware ==
    ASSUME NEW n \in Nodes, NEW nd \in Node, NEW mg, NEW lo, NEW H, Aware(nd, mg, lo, H),
           mg => nd.st = "live", NEW p \in H
    PROVE  Aware(DecWeak(n, nd, H = {p}), mg, lo, H \ {p})
<1>1. CASE nd.lW # 0 \/ H # {p}
  <2>1. DecWeak(n, nd, H = {p}) = nd
    BY <1>1 DEF DecWeak
  <2>2. H # {p} => H \ {p} # {}
    OBVIOUS
  <2>3. Aware(nd, mg, lo, H \ {p})
    BY <1>1, <2>2 DEF Aware
  <2>. QED
    BY <2>1, <2>3
<1>2. CASE nd.lW = 0 /\ H = {p}
  <2>1. DecWeak(n, nd, H = {p}) = Settled(n, nd, TRUE)
    BY <1>2 DEF DecWeak
  <2>2. /\ mg => nd.st = "live" /\ nd.hS /\ nd.hW
        /\ ~lo /\ nd.st = "live" /\ nd.work = NIL =>
             (nd.iS > 0 => nd.hS) /\ ({} # {} => nd.hW)
    BY DEF Aware
  <2>3. Aware(Settled(n, nd, TRUE), mg, lo, {})
    BY <2>2, SettledAware
  <2>4. H \ {p} = {}
    BY <1>2
  <2>. QED
    BY <2>1, <2>3, <2>4
<1>. QED
  BY <1>1, <1>2

\* d is the node without the count, or with one pending claim acknowledged too.
LEMMA DecLocalAware ==
    ASSUME NEW n \in Nodes, NEW nd, NEW strong, NEW mg, NEW lo, NEW old,
           Aware(old, mg, lo, Holders(n)), mg => old.st = "live",
           NEW d \in Node, d = IF strong THEN [nd EXCEPT !.lS = @ - 1] ELSE [nd EXCEPT !.lW = @ - 1],
           d.st = old.st, d.iS = old.iS, d.hS = old.hS, d.hW = old.hW, d.work = old.work,
           d.lS = IF strong THEN old.lS - 1 ELSE old.lS,
           d.lW = IF strong THEN old.lW ELSE old.lW - 1
    PROVE  Aware(DecLocal(n, nd, strong, Holders(n) = {}), mg, lo, Holders(n))
<1>1. DecLocal(n, nd, strong, Holders(n) = {}) =
        IF (IF strong THEN d.iS # 0 \/ d.lS # 0 ELSE d.lW # 0 \/ Holders(n) # {})
        THEN d ELSE Settled(n, d, Holders(n) = {})
  BY DEF DecLocal
<1>2. ASSUME IF strong THEN d.iS # 0 \/ d.lS # 0 ELSE d.lW # 0 \/ Holders(n) # {}
      PROVE  Aware(d, mg, lo, Holders(n))
  BY <1>2 DEF Aware
<1>3. Aware(Settled(n, d, Holders(n) = {}), mg, lo, Holders(n))
  <2>1. /\ mg => d.st = "live" /\ d.hS /\ d.hW
        /\ ~lo /\ d.st = "live" /\ d.work = NIL =>
             (d.iS > 0 => d.hS) /\ (Holders(n) # {} => d.hW)
    BY DEF Aware
  <2>. QED
    BY <2>1, SettledAware
<1>. QED
  BY <1>1, <1>2, <1>3

LEMMA IncLocalAware ==
    ASSUME NEW nd \in Node, NEW mg, NEW lo, NEW H, Aware(nd, mg, lo, H), NEW strong
    PROVE  Aware(IncLocal(nd, strong), mg, lo, H)
<1>. DEFINE d == IncLocal(nd, strong)
<1>1. /\ d.st = nd.st /\ d.iS = nd.iS /\ d.hS = nd.hS /\ d.hW = nd.hW /\ d.work = nd.work
      /\ d.lS \in {nd.lS, nd.lS + 1} /\ d.lW \in {nd.lW, nd.lW + 1} /\ nd.lS \in Nat /\ nd.lW \in Nat
  BY DEF IncLocal, Node
<1>. HIDE DEF d
<1>2. (nd.lS # 0 => d.lS # 0) /\ (nd.lW # 0 => d.lW # 0)
  BY <1>1
<1>. QED
  BY <1>1, <1>2 DEF Aware, d

LEMMA LocalAware ==
    ASSUME NEW n \in Nodes, NEW nd \in Node, NEW mg, NEW lo, Aware(nd, mg, lo, Holders(n)),
           mg => nd.st = "live", NEW strong \in BOOLEAN, nd.lS > 0 \/ ~strong, nd.lW > 0 \/ strong
    PROVE  /\ Aware(DecLocal(n, nd, strong, Holders(n) = {}), mg, lo, Holders(n))
           /\ Aware(DecLocal(n, IF strong THEN [nd EXCEPT !.pS = FALSE] ELSE [nd EXCEPT !.pW = FALSE],
                             strong, Holders(n) = {}), mg, lo, Holders(n))
<1>. DEFINE e == IF strong THEN [nd EXCEPT !.pS = FALSE] ELSE [nd EXCEPT !.pW = FALSE]
            d(k) == IF strong THEN [k EXCEPT !.lS = @ - 1] ELSE [k EXCEPT !.lW = @ - 1]
<1>1. /\ e \in Node /\ e.st = nd.st /\ e.iS = nd.iS /\ e.lS = nd.lS /\ e.lW = nd.lW
      /\ e.hS = nd.hS /\ e.hW = nd.hW /\ e.work = nd.work
  BY DEF Node
<1>. HIDE DEF e
<1>2. ASSUME NEW k \in Node, k.st = nd.st, k.iS = nd.iS, k.lS = nd.lS, k.lW = nd.lW,
             k.hS = nd.hS, k.hW = nd.hW, k.work = nd.work
      PROVE  Aware(DecLocal(n, k, strong, Holders(n) = {}), mg, lo, Holders(n))
  <2>0. strong => nd.lS - 1 \in Nat
    BY DEF Node
  <2>1. ~strong => nd.lW - 1 \in Nat
    BY DEF Node
  <2>2. /\ d(k) \in Node /\ d(k).st = nd.st /\ d(k).iS = nd.iS /\ d(k).hS = nd.hS
        /\ d(k).hW = nd.hW /\ d(k).work = nd.work
        /\ d(k).lS = IF strong THEN nd.lS - 1 ELSE nd.lS
        /\ d(k).lW = IF strong THEN nd.lW ELSE nd.lW - 1
    BY <1>2, <2>0, <2>1 DEF Node
  <2>3. PICK c : c = d(k)
    OBVIOUS
  <2>4. c = IF strong THEN [k EXCEPT !.lS = @ - 1] ELSE [k EXCEPT !.lW = @ - 1]
    BY <2>3
  <2>. HIDE DEF d
  <2>. QED
    BY <2>2, <2>3, <2>4, DecLocalAware, ZenonT(60)
<1>3. Aware(DecLocal(n, nd, strong, Holders(n) = {}), mg, lo, Holders(n))
  BY <1>2
<1>4. Aware(DecLocal(n, e, strong, Holders(n) = {}), mg, lo, Holders(n))
  BY <1>1, <1>2
<1>. QED
  BY <1>3, <1>4 DEF e

\* One pass over the work: it leaves the list only when nothing is left to tell.
LEMMA ToldAware ==
    ASSUME NEW n \in Nodes, NEW nd \in Node, NEW mg, NEW lo, Aware(nd, mg, lo, Holders(n)),
           mg => Strong(nd), nd.work # NIL
    PROVE  Aware(Told(n, nd), mg, lo, Holders(n))
<1>1. CASE Weak(n, nd) /\ ~nd.hW
  <2>. DEFINE d == [nd EXCEPT !.hW = TRUE, !.pW = TRUE, !.lW = @ + 1]
  <2>1. Told(n, nd) = d
    BY <1>1 DEF Told
  <2>2. d.work = nd.work /\ d.hS = nd.hS /\ d.hW = TRUE
    BY DEF Node
  <2>. HIDE DEF d
  <2>. QED
    BY <2>1, <2>2 DEF Aware
<1>2. CASE ~(Weak(n, nd) /\ ~nd.hW) /\ Strong(nd) /\ ~nd.hS
  <2>. DEFINE d == [nd EXCEPT !.hS = TRUE, !.pS = TRUE, !.lS = @ + 1]
  <2>1. Told(n, nd) = d
    BY <1>2 DEF Told
  <2>2. d.work = nd.work /\ d.hS = TRUE /\ d.hW = nd.hW
    BY DEF Node
  <2>. HIDE DEF d
  <2>. QED
    BY <2>1, <2>2 DEF Aware
<1>3. CASE ~(Weak(n, nd) /\ ~nd.hW) /\ ~Strong(nd) /\ nd.hS
  <2>. DEFINE d == [nd EXCEPT !.hS = FALSE]
  <2>1. Told(n, nd) = d
    BY <1>3 DEF Told
  <2>2. d.work = nd.work
    BY DEF Node
  <2>. HIDE DEF d
  <2>. QED
    BY <1>3, <2>1, <2>2 DEF Aware
<1>4. CASE ~Strong(nd) /\ ~nd.hS /\ ~Weak(n, nd) /\ nd.hW
  <2>. DEFINE d == [nd EXCEPT !.hW = FALSE]
  <2>1. Told(n, nd) = d
    BY <1>4 DEF Told
  <2>2. d.work = nd.work
    BY DEF Node
  <2>. HIDE DEF d
  <2>. QED
    BY <1>4, <2>1, <2>2 DEF Aware
<1>5. CASE Weak(n, nd) /\ nd.hW /\ (Strong(nd) <=> nd.hS)
  <2>. DEFINE d == [nd EXCEPT !.work = NIL]
  <2>1. Told(n, nd) = d
    BY <1>5 DEF Told
  <2>2. /\ d.st = nd.st /\ d.iS = nd.iS /\ d.lS = nd.lS /\ d.lW = nd.lW
        /\ d.hS = nd.hS /\ d.hW = nd.hW /\ nd.iS \in Nat
    BY DEF Node
  <2>. HIDE DEF d
  <2>3. nd.iS > 0 => nd.iS # 0
    BY <2>2
  <2>. QED
    BY <1>5, <2>1, <2>2, <2>3 DEF Aware, Weak, Strong
<1>6. CASE ~Weak(n, nd) /\ ~nd.hW /\ ~(~Strong(nd) /\ nd.hS)
  <2>1. Told(n, nd) = NoNode /\ ~mg
    BY <1>6 DEF Told, Weak
  <2>2. NoNode.st = "none"
    BY DEF NoNode
  <2>. QED
    BY <2>1, <2>2 DEF Aware
<1>7. nd.hS \in BOOLEAN /\ nd.hW \in BOOLEAN
  BY DEF Node
<1>. QED
  BY <1>1, <1>2, <1>3, <1>4, <1>5, <1>6, <1>7 DEF Weak

-------------------------------------------------------------------------------
(* The state *)

Lost(n) == n \in lost
AwareAt(n, nd) == Aware(nd, IsMgr(n), Lost(n), Who(ref, n))

\* A reference that is not there counts nothing.
Clean == \A p \in Procs, n \in Nodes :
            ref[p][n].desc = NIL => ref[p][n].s = 0 /\ ref[p][n].w = 0

Known == Clean /\ \A n \in Nodes : AwareAt(n, node[n])

\* A step of node n and of the references to it.
Moves(n) ==
    /\ node' = [node EXCEPT ![n] = node'[n]]
    /\ Aware(node'[n], IsMgr(n), Lost(n), Who(ref', n))
    /\ \A m \in Nodes \ {n} : Who(ref', m) = Who(ref, m)
    /\ Clean'

LEMMA OneNodeKnown ==
    ASSUME Held, Known, mgr' = mgr, lost' = lost, NEW n \in Nodes, Moves(n)
    PROVE  Known'
<1>1. node \in [Nodes -> Node]
  BY DEF Held, TypeOK
<1>2. \A m \in Nodes \ {n} : node'[m] = node[m] /\ Who(ref', m) = Who(ref, m)
  BY <1>1 DEF Moves
<1>3. ASSUME NEW m \in Nodes
      PROVE  Aware(node'[m], IsMgr(m)', Lost(m)', Who(ref', m))
  <2>1. IsMgr(m)' = IsMgr(m) /\ Lost(m)' = Lost(m)
    BY DEF IsMgr, Lost
  <2>2. CASE m = n
    BY <2>1, <2>2 DEF Moves
  <2>3. CASE m # n
    BY <1>2, <2>1, <2>3 DEF Known, AwareAt
  <2>. QED
    BY <2>2, <2>3
<1>4. \A m \in Nodes : AwareAt(m, node[m])'
  BY <1>3 DEF AwareAt
<1>. QED
  BY <1>4 DEF Known, Moves

LEMMA CleanIs ==
    ASSUME TypeOK, Clean, NEW p \in Procs, NEW n \in Nodes, NEW r \in Ref,
           r.desc = NIL => r = NoRef, ref' = [ref EXCEPT ![p][n] = r]
    PROVE  Clean'
<1>1. /\ ref'[p][n] = r
      /\ \A q \in Procs, m \in Nodes : <<q, m>> # <<p, n>> => ref'[q][m] = ref[q][m]
  <2>1. ref \in [Procs -> [Nodes -> Ref]]
    BY DEF TypeOK
  <2>2. ref'[p] = [ref[p] EXCEPT ![n] = r] /\ \A q \in Procs \ {p} : ref'[q] = ref[q]
    BY <2>1
  <2>3. DOMAIN ref[p] = Nodes
    BY <2>1
  <2>4. ref'[p][n] = r /\ \A m \in Nodes \ {n} : ref'[p][m] = ref[p][m]
    BY <2>2, <2>3
  <2>. QED
    BY <2>2, <2>4
<1>2. NoRef.s = 0 /\ NoRef.w = 0
  BY DEF NoRef
<1>. QED
  BY <1>1, <1>2 DEF Clean

LEMMA IncRefAware ==
    ASSUME TypeOK, Clean, NEW p \in Procs, NEW n \in Nodes, NEW nd,
           SoundAt(n, nd), AwareAt(n, nd), NEW strong \in BOOLEAN,
           NEW list \in Threads \cup {NIL}, list = NIL => IsMgr(n) \/ Who(ref, n) # {},
           IncRef(p, n, nd, strong, list)
    PROVE  Moves(n)
<1>. DEFINE r == RefFor(p, n)
            fails == IncRefused(p, n, nd, strong, list)
            r2 == IF fails THEN r
                  ELSE IF strong THEN [r EXCEPT !.s = @ + 1] ELSE [r EXCEPT !.w = @ + 1]
            d == IF fails THEN nd
                 ELSE IF strong THEN (IF r.s = 0 THEN IncStrong(nd, list) ELSE nd)
                 ELSE (IF r.w = 0 THEN IncWeak(nd, list) ELSE nd)
            H == Who(ref, n)
            mg == IsMgr(n)
            lo == Lost(n)
<1>1. ref' = [ref EXCEPT ![p][n] = r2] /\ node' = [node EXCEPT ![n] = d] /\ node'[n] = d
  BY DEF IncRef, TypeOK
<1>2. /\ r \in Ref /\ r.desc # NIL /\ (p \notin H => r.s = 0 /\ r.w = 0)
      /\ r.s = ref[p][n].s /\ r.w = ref[p][n].w
  BY RefForIs DEF Clean, Who
<1>3. r2 \in Ref /\ r2.desc # NIL
  <2>. HIDE DEF r, fails
  <2>1. [r EXCEPT !.s = @ + 1] \in Ref /\ [r EXCEPT !.w = @ + 1] \in Ref
    BY <1>2 DEF Ref
  <2>. QED
    BY <1>2, <2>1 DEF Ref
<1>4. /\ fails <=> IF strong THEN r.s = 0 /\ list = NIL /\ nd.iS = 0 /\ ~(mg /\ nd.hS)
                   ELSE r.w = 0 /\ list = NIL /\ ~nd.hW /\ nd.work = NIL
      /\ Aware(nd, mg, lo, H) /\ nd \in Node
  BY <1>2 DEF IncRefused, StrongRefused, WeakRefused, IsMgr, AwareAt, SoundAt, Sound
<1>5. /\ Who(ref', n) = H \cup {p} /\ Clean'
      /\ \A m \in Nodes \ {n} : Who(ref', m) = Who(ref, m)
  <2>. HIDE DEF r2
  <2>1. ref' = [ref EXCEPT ![p][n] = r2] /\ r2 \in Ref
    BY <1>1, <1>3
  <2>2. /\ ref' \in [Procs -> [Nodes -> Ref]]
        /\ Who(ref', n) = IF r2.desc # NIL THEN Who(ref, n) \cup {p} ELSE Who(ref, n) \ {p}
        /\ WhoStrong(ref', n) = IF r2.desc # NIL /\ r2.s > 0 THEN WhoStrong(ref, n) \cup {p}
                                ELSE WhoStrong(ref, n) \ {p}
        /\ \A m \in Nodes \ {n} : Who(ref', m) = Who(ref, m) /\ WhoStrong(ref', m) = WhoStrong(ref, m)
    BY <2>1, OneRefIs
  <2>3. Clean'
    BY <1>3, <2>1, CleanIs
  <2>. QED
    BY <1>3, <2>2, <2>3
<1>6. Sound(n, nd, Up(n), mg, WhoStrong(ref, n), H, To(buf, n), In(buf, n, TRUE), In(buf, n, FALSE))
  BY DEF SoundAt
<1>. HIDE DEF r, fails, r2, d, H, mg, lo
<1>7. CASE fails
  <2>1. d = nd /\ (mg \/ H # {})
    BY <1>4, <1>7 DEF d, mg, H
  <2>2. Aware(nd, mg, lo, H \cup {p})
    BY <1>4, <2>1, HeldAware
  <2>. QED
    BY <1>1, <1>5, <2>1, <2>2 DEF Moves, mg, lo
<1>8. CASE ~fails /\ strong /\ r.s = 0
  <2>1. d = IncStrong(nd, list) /\ (list = NIL => nd.iS # 0 \/ mg)
    BY <1>4, <1>8 DEF d
  <2>2. Aware(IncStrong(nd, list), mg, lo, H \cup {p})
    BY <1>4, <1>6, <2>1, IncStrongAware
  <2>. QED
    BY <1>1, <1>5, <2>1, <2>2 DEF Moves, mg, lo
<1>9. CASE ~fails /\ ~strong /\ r.w = 0
  <2>1. d = IncWeak(nd, list) /\ (list = NIL => nd.hW \/ nd.work # NIL)
    BY <1>4, <1>9 DEF d
  <2>2. Aware(IncWeak(nd, list), mg, lo, H \cup {p})
    BY <1>4, <2>1, IncWeakAware
  <2>. QED
    BY <1>1, <1>5, <2>1, <2>2 DEF Moves, mg, lo
<1>10. CASE ~fails /\ (IF strong THEN r.s # 0 ELSE r.w # 0)
  <2>1. d = nd /\ H \cup {p} = H
    BY <1>2, <1>10 DEF d
  <2>. QED
    BY <1>1, <1>4, <1>5, <2>1 DEF Moves, mg, lo
<1>. QED
  BY <1>7, <1>8, <1>9, <1>10

LEMMA DecRefAware ==
    ASSUME TypeOK, Clean, NEW p \in Procs, NEW n \in Nodes,
           SoundAt(n, node[n]), AwareAt(n, node[n]), p \in Who(ref, n), NEW strong \in BOOLEAN,
           DecRef(p, n, strong)
    PROVE  Moves(n)
<1>. DEFINE r == ref[p][n]
            low == IF strong THEN r.s = 0 ELSE r.w = 0
            less == IF strong THEN [r EXCEPT !.s = @ - 1] ELSE [r EXCEPT !.w = @ - 1]
            nd == IF strong /\ less.s = 0 THEN DecStrong(n, node[n]) ELSE node[n]
            gone == less.s = 0 /\ less.w = 0
            S == WhoStrong(ref, n)
            H == Who(ref, n)
            up == Up(n)
            mg == IsMgr(n)
            lo == Lost(n)
            T == To(buf, n)
            LS == In(buf, n, TRUE)
            LW == In(buf, n, FALSE)
<1>1. r \in Ref /\ r.desc # NIL /\ (p \in S <=> r.s > 0) /\ p \in H /\ node \in [Nodes -> Node]
  BY DEF TypeOK, WhoStrong, Who
<1>2. /\ Sound(n, node[n], up, mg, S, H, T, LS, LW) /\ Aware(node[n], mg, lo, H)
      /\ IsFiniteSet(S) /\ IsFiniteSet(T) /\ IsFiniteSet(LS) /\ IsFiniteSet(LW)
  BY Finite DEF SoundAt, AwareAt
<1>3. CASE low
  <2>1. ref' = ref /\ node' = node
    BY <1>3 DEF DecRef
  <2>2. node' = [node EXCEPT ![n] = node'[n]] /\ Clean'
    BY <1>1, <2>1 DEF Clean
  <2>. QED
    BY <1>2, <2>1, <2>2 DEF Moves
<1>4. CASE ~low
  <2>. DEFINE r2 == IF gone THEN NoRef ELSE less
              d == IF gone THEN DecWeak(n, nd, H = {p}) ELSE nd
  <2>1. ref' = [ref EXCEPT ![p][n] = r2] /\ node' = [node EXCEPT ![n] = d] /\ node'[n] = d
    BY <1>1, <1>4, RefersIs DEF DecRef
  <2>2. /\ less \in Ref /\ less.desc = r.desc
        /\ less.s = (IF strong THEN r.s - 1 ELSE r.s) /\ less.w = (IF strong THEN r.w ELSE r.w - 1)
    <3>. HIDE DEF r
    <3>1. /\ strong => r.s - 1 \in Nat /\ r.s \in Nat
          /\ ~strong => r.w - 1 \in Nat /\ r.w \in Nat
      BY <1>1, <1>4 DEF Ref
    <3>. QED
      BY <1>1, <3>1 DEF Ref
  <2>3. r2 \in Ref /\ (r2.desc = NIL <=> gone) /\ (r2.desc = NIL => r2 = NoRef)
    BY <1>1, <2>2 DEF NoRef, Ref
  <2>. HIDE DEF r, low, less, nd, gone, r2, d, mg, lo, up, S, H, T, LS, LW
  <2>4. Aware(nd, mg, lo, H) /\ nd \in Node /\ (mg => nd.st = "live")
    <3>1. r.s \in Nat /\ less.s \in Nat
      BY <1>1, <2>2 DEF Ref
    <3>2. CASE strong /\ less.s = 0
      <4>1. p \in S
        BY <1>1, <1>4, <2>2, <3>1, <3>2 DEF low
      <4>2. nd = DecStrong(n, node[n])
        BY <3>2 DEF nd
      <4>3. node[n].iS > 0 /\ node[n] \in Node /\ (mg => node[n].st = "live")
        <5>1. node[n].iS = Cardinality(S) /\ node[n] \in Node /\ (mg => node[n].st = "live")
          BY <1>2 DEF Sound
        <5>2. Cardinality(S) > 0
          BY <1>2, <4>1, CardIs
        <5>. QED
          BY <5>1, <5>2
      <4>4. Sound(n, DecStrong(n, node[n]), up, mg, S \ {p}, H, T, LS, LW)
        BY <1>2, <4>1, DecStrongSound
      <4>5. Aware(DecStrong(n, node[n]), mg, lo, H)
        BY <1>2, <4>3, DecStrongAware
      <4>. QED
        BY <4>2, <4>4, <4>5 DEF Sound
    <3>3. CASE ~(strong /\ less.s = 0)
      <4>1. nd = node[n]
        BY <3>3 DEF nd
      <4>. QED
        BY <1>2, <4>1 DEF Sound
    <3>. QED
      BY <3>2, <3>3
  <2>5. /\ Who(ref', n) = IF gone THEN H \ {p} ELSE H
        /\ \A m \in Nodes \ {n} : Who(ref', m) = Who(ref, m)
    <3>1. ref' = [ref EXCEPT ![p][n] = r2] /\ r2 \in Ref
      BY <2>1, <2>3
    <3>2. /\ ref' \in [Procs -> [Nodes -> Ref]]
          /\ Who(ref', n) = IF r2.desc # NIL THEN H \cup {p} ELSE H \ {p}
          /\ WhoStrong(ref', n) = IF r2.desc # NIL /\ r2.s > 0 THEN S \cup {p} ELSE S \ {p}
          /\ \A m \in Nodes \ {n} : Who(ref', m) = Who(ref, m) /\ WhoStrong(ref', m) = WhoStrong(ref, m)
      BY <3>1, OneRefIs DEF H, S
    <3>3. Who(ref', n) = IF gone THEN H \ {p} ELSE H
      BY <1>1, <2>3, <3>2
    <3>. QED
      BY <3>2, <3>3
  <2>6. Clean'
    BY <2>1, <2>3, CleanIs
  <2>7. Aware(d, mg, lo, Who(ref', n))
    <3>1. CASE gone
      <4>1. d = DecWeak(n, nd, H = {p}) /\ Who(ref', n) = H \ {p}
        BY <2>5, <3>1 DEF d
      <4>2. Aware(DecWeak(n, nd, H = {p}), mg, lo, H \ {p})
        BY <1>1, <2>4, DecWeakAware
      <4>. QED
        BY <4>1, <4>2
    <3>2. CASE ~gone
      BY <2>4, <2>5, <3>2 DEF d
    <3>. QED
      BY <3>1, <3>2
  <2>. QED
    BY <2>1, <2>5, <2>6, <2>7 DEF Moves, mg, lo
<1>. QED
  BY <1>3, <1>4

LEMMA KnownInit == Init => Known
<1>. SUFFICES ASSUME Init PROVE Known
  OBVIOUS
<1>1. NoRef.desc = NIL /\ NoRef.s = 0 /\ NoRef.w = 0
  BY DEF NoRef
<1>2. Clean
  BY <1>1 DEF Init, Clean
<1>3. ASSUME NEW n \in Nodes PROVE AwareAt(n, node[n])
  <2>1. ~IsMgr(n)
    BY RefsNil DEF Init, IsMgr
  <2>2. Aware(NoNode, FALSE, Lost(n), {})
    BY NewAware
  <2>3. node[n] = NoNode /\ NoNode.st = "none"
    BY DEF Init, NoNode
  <2>. QED
    BY <2>1, <2>3 DEF AwareAt, Aware
<1>. QED
  BY <1>2, <1>3 DEF Known

LEMMA NodeAware ==
    ASSUME Held, Known, NEW n \in Nodes
    PROVE  /\ AwareAt(n, node[n]) /\ SoundAt(n, node[n]) /\ TypeOK /\ Clean
           /\ node[n] \in Node /\ (IsMgr(n) => node[n].st = "live")
BY NodeSound DEF Known, Held, SoundAt, Sound

\* A step that leaves the references alone.
LEMMA SameRefKnown ==
    ASSUME Held, Known, ref' = ref, mgr' = mgr, lost' = lost, NEW n \in Nodes, NEW d,
           node' = [node EXCEPT ![n] = d], AwareAt(n, d)
    PROVE  Known'
<1>1. node'[n] = d
  BY DEF Held, TypeOK
<1>2. Moves(n)
  BY <1>1 DEF Moves, AwareAt, Known, Clean
<1>. QED
  BY <1>2, OneNodeKnown

LEMMA SameNodesKnown ==
    ASSUME Known, ref' = ref, mgr' = mgr, lost' = lost, node' = node
    PROVE  Known'
<1>1. \A n \in Nodes : IsMgr(n)' = IsMgr(n) /\ Lost(n)' = Lost(n)
  BY DEF IsMgr, Lost
<1>2. ASSUME NEW n \in Nodes PROVE AwareAt(n, node[n])'
  BY <1>1 DEF Known, AwareAt
<1>. QED
  BY <1>2 DEF Known, Clean

\* What counts locally is counted.
LEMMA LocallyCounted ==
    ASSUME NEW n, NEW nd, SoundAt(n, nd), nd.st = "live"
    PROVE  /\ To(buf, n) # {} \/ In(buf, n, TRUE) # {} \/ nd.pS \/ n \in Managers => nd.lS > 0
           /\ In(buf, n, FALSE) # {} \/ nd.pW \/ n \in Managers => nd.lW > 0
<1>. DEFINE a == Cardinality(To(buf, n))
            b == Cardinality(In(buf, n, TRUE))
            c == Cardinality(In(buf, n, FALSE))
            s == One(nd.pS)
            w == One(nd.pW)
            m == Mgr(n)
<1>1. nd.lS = a + b + s + m /\ nd.lW = c + w + m
  BY DEF SoundAt, Sound
<1>2. /\ a \in Nat /\ b \in Nat /\ c \in Nat /\ s \in Nat /\ w \in Nat /\ m \in Nat
      /\ To(buf, n) # {} => a # 0
      /\ In(buf, n, TRUE) # {} => b # 0
      /\ In(buf, n, FALSE) # {} => c # 0
      /\ (nd.pS => s # 0) /\ (nd.pW => w # 0) /\ (n \in Managers => m # 0)
  <2>1. IsFiniteSet(To(buf, n)) /\ IsFiniteSet(In(buf, n, TRUE)) /\ IsFiniteSet(In(buf, n, FALSE))
    BY Finite
  <2>2. /\ a \in Nat /\ b \in Nat /\ c \in Nat
        /\ To(buf, n) # {} => a # 0
        /\ In(buf, n, TRUE) # {} => b # 0
        /\ In(buf, n, FALSE) # {} => c # 0
    BY <2>1, CardIs
  <2>3. /\ s \in Nat /\ w \in Nat /\ m \in Nat
        /\ (nd.pS => s # 0) /\ (nd.pW => w # 0) /\ (n \in Managers => m # 0)
    BY OneIs, MgrIs
  <2>. QED
    BY <2>2, <2>3
<1>. HIDE DEF a, b, c, s, w, m
<1>3. /\ a # 0 \/ b # 0 \/ s # 0 \/ m # 0 => a + b + s + m > 0
      /\ c # 0 \/ w # 0 \/ m # 0 => c + w + m > 0
  BY <1>2
<1>. QED
  BY <1>1, <1>2, <1>3

LEMMA IncKnown ==
    ASSUME Held, Known, NEW p \in Procs, NEW d \in Handles, NEW strong \in BOOLEAN,
           Inc(p, d, strong)
    PROVE  Known'
<1>1. PICK n \in Counted(p, d) : IncRef(p, n, node[n], strong, NIL)
  BY DEF Inc
<1>2. mgr' = mgr /\ lost' = lost
  BY DEF Inc
<1>3. n \in Nodes /\ (IsMgr(n) \/ Who(ref, n) # {})
  <2>1. CASE d = 0 /\ mgr # NIL
    BY <1>1, <2>1 DEF Counted, IsMgr, Held, TypeOK
  <2>2. CASE ~(d = 0 /\ mgr # NIL)
    <3>1. n \in Nodes /\ ref[p][n].desc = d
      BY <1>1, <2>2 DEF Counted, Named
    <3>2. d # NIL
      BY RefsNil, RefsFinite, FS_CardinalityType DEF Handles
    <3>. QED
      BY <3>1, <3>2 DEF Who
  <2>. QED
    BY <2>1, <2>2
<1>4. AwareAt(n, node[n]) /\ SoundAt(n, node[n]) /\ TypeOK /\ Clean
  BY <1>3, NodeAware
<1>5. NIL \in Threads \cup {NIL} /\ IncRef(p, n, node[n], strong, NIL)
  BY <1>1
<1>6. Moves(n)
  BY <1>3, <1>4, <1>5, IncRefAware
<1>. QED
  BY <1>2, <1>3, <1>6, OneNodeKnown

LEMMA DecKnown ==
    ASSUME Held, Known, NEW p \in Procs, NEW d \in Handles, NEW strong \in BOOLEAN,
           Dec(p, d, strong)
    PROVE  Known'
<1>1. PICK n \in Named(p, d) : DecRef(p, n, strong)
  BY DEF Dec
<1>2. mgr' = mgr /\ lost' = lost
  BY DEF Dec
<1>3. n \in Nodes /\ p \in Who(ref, n)
  <2>1. n \in Nodes /\ ref[p][n].desc = d
    BY <1>1 DEF Named
  <2>2. d # NIL
    BY RefsNil, RefsFinite, FS_CardinalityType DEF Handles
  <2>. QED
    BY <2>1, <2>2 DEF Who
<1>4. AwareAt(n, node[n]) /\ SoundAt(n, node[n]) /\ TypeOK /\ Clean
  BY <1>3, NodeAware
<1>5. Moves(n)
  BY <1>1, <1>3, <1>4, DecRefAware
<1>. QED
  BY <1>2, <1>3, <1>5, OneNodeKnown

LEMMA DoneKnown ==
    ASSUME Held, Known, NEW n \in Nodes, NEW strong \in BOOLEAN, Done(n, strong)
    PROVE  Known'
<1>. DEFINE nd == node[n]
            d == DecLocal(n, IF strong THEN [nd EXCEPT !.pS = FALSE] ELSE [nd EXCEPT !.pW = FALSE],
                          strong, Holders(n) = {})
<1>1. /\ nd.st = "live" /\ (IF strong THEN nd.pS ELSE nd.pW)
      /\ node' = [node EXCEPT ![n] = d] /\ ref' = ref /\ mgr' = mgr /\ lost' = lost
  BY DEF Done
<1>2. /\ Aware(nd, IsMgr(n), Lost(n), Holders(n)) /\ nd \in Node /\ SoundAt(n, nd)
      /\ IsMgr(n) => nd.st = "live"
  BY NodeAware, RefersIs DEF AwareAt
<1>. HIDE DEF nd
<1>3. (nd.lS > 0 \/ ~strong) /\ (nd.lW > 0 \/ strong)
  BY <1>1, <1>2, LocallyCounted
<1>4. Aware(d, IsMgr(n), Lost(n), Holders(n))
  BY <1>1, <1>2, <1>3, LocalAware
<1>. HIDE DEF d
<1>5. AwareAt(n, d)
  BY <1>4, RefersIs DEF AwareAt
<1>. QED
  BY <1>1, <1>5, SameRefKnown

LEMMA ReadNodeKnown ==
    ASSUME Held, Known, NEW h \in Threads, NEW n \in Nodes, ReadNode(h, n)
    PROVE  Known'
<1>. DEFINE nd == node[n]
            d == Told(n, nd)
<1>1. /\ nd.work \in {h, ProcOf[h]} /\ node' = [node EXCEPT ![n] = d]
      /\ ref' = ref /\ mgr' = mgr /\ lost' = lost
  BY DEF ReadNode, Held, TypeOK
<1>2. /\ Aware(nd, IsMgr(n), Lost(n), Holders(n)) /\ nd \in Node /\ SoundAt(n, nd)
      /\ (IsMgr(n) => nd.st = "live" /\ n \in Managers)
  BY NodeAware, RefersIs DEF AwareAt, SoundAt, Sound
<1>3. nd.work # NIL
  <2>1. ProcOf[h] \in Procs
    BY RefsProcOf
  <2>. QED
    BY <1>1, <2>1, RefsNil
<1>. HIDE DEF nd
<1>4. IsMgr(n) => Strong(nd)
  <2>1. IsMgr(n) => nd.lS > 0
    BY <1>2, LocallyCounted
  <2>. QED
    BY <2>1 DEF Strong
<1>5. Aware(d, IsMgr(n), Lost(n), Holders(n))
  BY <1>2, <1>3, <1>4, ToldAware
<1>. HIDE DEF d
<1>6. AwareAt(n, d)
  BY <1>5, RefersIs DEF AwareAt
<1>. QED
  BY <1>1, <1>6, SameRefKnown

LEMMA SetContextMgrKnown ==
    ASSUME Held, Known, NEW n \in Nodes, SetContextMgr(n)
    PROVE  Known'
<1>. DEFINE d == [NewNode EXCEPT !.lS = 1, !.lW = 1, !.hS = TRUE, !.hW = TRUE]
<1>1. /\ mgr = NIL /\ mgr' = n /\ node[n].st = "none"
      /\ node' = [node EXCEPT ![n] = d] /\ ref' = ref /\ lost' = lost
  BY DEF SetContextMgr
<1>2. d.st = "live" /\ d.hS = TRUE /\ d.hW = TRUE /\ d.lS = 1 /\ d.iS = 0
  BY NoNodeIs DEF Node
<1>. HIDE DEF d
<1>3. node'[n] = d /\ \A m \in Nodes \ {n} : node'[m] = node[m]
  BY <1>1 DEF Held, TypeOK
<1>4. ASSUME NEW m \in Nodes PROVE AwareAt(m, node[m])'
  <2>1. Lost(m)' = Lost(m) /\ Who(ref, m)' = Who(ref, m)
    BY <1>1 DEF Lost, Who
  <2>2. CASE m = n
    <3>1. d.lS # 0
      BY <1>2
    <3>2. Aware(d, IsMgr(m)', Lost(m), Who(ref, m))
      BY <1>2, <3>1 DEF Aware
    <3>. QED
      BY <1>3, <2>1, <2>2, <3>2 DEF AwareAt
  <2>3. CASE m # n
    <3>1. IsMgr(m)' = IsMgr(m)
      <4>1. m # NIL
        BY RefsNil
      <4>. QED
        BY <1>1, <2>3, <4>1 DEF IsMgr
    <3>2. Aware(node[m], IsMgr(m), Lost(m), Who(ref, m))
      BY DEF Known, AwareAt
    <3>. QED
      BY <1>3, <2>1, <2>3, <3>1, <3>2 DEF AwareAt
  <2>. QED
    BY <2>2, <2>3
<1>5. Clean'
  BY <1>1 DEF Known, Clean
<1>. QED
  BY <1>4, <1>5 DEF Known

LEMMA ThreadExitKnown ==
    ASSUME Held, Known, NEW h \in Threads, ThreadExit(h)
    PROVE  Known'
<1>. DEFINE mine == {n \in Nodes : node[n].work = h}
<1>1. /\ node' = [n \in Nodes |-> IF n \in mine THEN [node[n] EXCEPT !.work = NIL] ELSE node[n]]
      /\ lost' = lost \cup mine /\ ref' = ref /\ mgr' = mgr
  BY DEF ThreadExit
<1>. HIDE DEF mine
<1>2. ASSUME NEW n \in Nodes PROVE AwareAt(n, node[n])'
  <2>1. IsMgr(n)' = IsMgr(n) /\ Who(ref, n)' = Who(ref, n)
    BY <1>1 DEF IsMgr, Who
  <2>2. Aware(node[n], IsMgr(n), Lost(n), Who(ref, n)) /\ node[n] \in Node
    BY NodeAware DEF AwareAt
  <2>3. CASE n \in mine
    <3>1. node'[n].hS = node[n].hS /\ node'[n].hW = node[n].hW
      BY <1>1, <2>2, <2>3 DEF Node
    <3>2. Lost(n)'
      BY <1>1, <2>3 DEF Lost
    <3>. QED
      BY <2>1, <2>2, <3>1, <3>2 DEF AwareAt, Aware
  <2>4. CASE n \notin mine
    <3>1. node'[n] = node[n] /\ Lost(n)' = Lost(n)
      BY <1>1, <2>4 DEF Lost
    <3>. QED
      BY <2>1, <2>2, <3>1 DEF AwareAt
  <2>. QED
    BY <2>3, <2>4
<1>3. Clean'
  BY <1>1 DEF Known, Clean
<1>. QED
  BY <1>2, <1>3 DEF Known

LEMMA SendStartKnown ==
    ASSUME Held, Known, NEW h \in Threads, NEW q \in Procs, NEW n \in Nodes \cup {NIL},
           NEW b \in Bufs, SendStart(h, q, n, b)
    PROVE  Known'
<1>. DEFINE d == IncLocal(node[n], TRUE)
<1>1. /\ node' = IF n = NIL THEN node ELSE [node EXCEPT ![n] = d]
      /\ ref' = ref /\ mgr' = mgr /\ lost' = lost
  BY DEF SendStart, Held, TypeOK
<1>2. CASE n = NIL
  BY <1>1, <1>2, SameNodesKnown
<1>3. CASE n # NIL
  <2>1. n \in Nodes /\ node' = [node EXCEPT ![n] = d]
    BY <1>1, <1>3
  <2>2. AwareAt(n, d)
    BY <2>1, NodeAware, IncLocalAware DEF AwareAt
  <2>. HIDE DEF d
  <2>. QED
    BY <1>1, <2>1, <2>2, SameRefKnown
<1>. QED
  BY <1>2, <1>3

LEMMA SendBinderKnown ==
    ASSUME Held, Known, NEW h \in Threads, NEW n \in Nodes, NEW strong \in BOOLEAN,
           SendBinder(h, n, strong)
    PROVE  Known'
<1>. DEFINE q == Target(h)
            nd == IF node[n].st = "none" THEN NewNode ELSE node[n]
<1>1. /\ MoreObjs(h) /\ Owner[n] = ProcOf[h] /\ n \notin Managers
      /\ IncRef(q, n, nd, strong, h) /\ mgr' = mgr /\ lost' = lost
  BY DEF SendBinder
<1>2. Up(n) /\ q \in Procs /\ TypeOK /\ Clean /\ h # NIL
  BY <1>1, SendingIs, RefsNil DEF MoreObjs, Target, Up, Held, TypeOK, Known
<1>3. SoundAt(n, nd) /\ AwareAt(n, nd)
  <2>1. SoundAt(n, node[n]) /\ AwareAt(n, node[n])
    BY NodeAware
  <2>2. CASE node[n].st = "none"
    <3>1. SoundAt(n, NewNode)
      BY <1>1, <1>2, <2>1, <2>2, NewNodeSound DEF SoundAt
    <3>2. Who(ref, n) = {} /\ ~IsMgr(n)
      BY <2>1, <2>2 DEF SoundAt, Sound
    <3>3. Aware(NewNode, FALSE, Lost(n), {})
      BY NewAware
    <3>4. AwareAt(n, NewNode)
      BY <3>2, <3>3 DEF AwareAt, Aware
    <3>. QED
      BY <2>2, <3>1, <3>4
  <2>3. CASE node[n].st # "none"
    BY <2>1, <2>3
  <2>. QED
    BY <2>2, <2>3
<1>. HIDE DEF nd, q
<1>4. Moves(n)
  BY <1>1, <1>2, <1>3, IncRefAware
<1>. QED
  BY <1>1, <1>4, OneNodeKnown

LEMMA SendHandleKnown ==
    ASSUME Held, Known, NEW h \in Threads, NEW n \in Nodes, NEW strong \in BOOLEAN,
           SendHandle(h, n, strong)
    PROVE  Known'
<1>. DEFINE q == Target(h)
            home == node[n].st = "live" /\ Owner[n] = q
            d == IncLocal(node[n], strong)
<1>1. /\ MoreObjs(h) /\ ProcOf[h] \in Holders(n) /\ mgr' = mgr /\ lost' = lost
      /\ home => node' = [node EXCEPT ![n] = d] /\ ref' = ref
      /\ ~home => IncRef(q, n, node[n], strong, NIL)
  BY DEF SendHandle, Held, TypeOK
<1>2. q \in Procs
  BY <1>1, SendingIs DEF MoreObjs, Target, Held, TypeOK
<1>3. SoundAt(n, node[n]) /\ AwareAt(n, node[n]) /\ TypeOK /\ Clean
  BY NodeAware
<1>. HIDE DEF q, home
<1>4. CASE home
  <2>1. AwareAt(n, d)
    BY NodeAware, IncLocalAware DEF AwareAt
  <2>. HIDE DEF d
  <2>. QED
    BY <1>1, <1>4, <2>1, SameRefKnown
<1>5. CASE ~home
  <2>1. NIL \in Threads \cup {NIL} /\ IncRef(q, n, node[n], strong, NIL)
    BY <1>1, <1>5
  <2>2. Who(ref, n) # {}
    BY <1>1, RefersIs
  <2>3. Moves(n)
    BY <1>2, <1>3, <2>1, <2>2, IncRefAware
  <2>. QED
    BY <1>1, <2>3, OneNodeKnown
<1>. QED
  BY <1>4, <1>5

\* The target of buffer b loses its count, after the nodes have become ns.
LEMMA ReleaseStartKnown ==
    ASSUME Held, Known, NEW b \in Bufs,
           NEW ns \in [Nodes -> Node], \A m \in Nodes : SoundAt(m, ns[m]) /\ AwareAt(m, ns[m]),
           ReleaseStart(b, ns), ref' = ref, mgr' = mgr, lost' = lost
    PROVE  Known'
<1>. DEFINE t == buf[b].target
            d == DecLocal(t, ns[t], TRUE, Holders(t) = {})
<1>1. /\ node' = IF t = NIL THEN ns ELSE [ns EXCEPT ![t] = d]
      /\ t \in Nodes \cup {NIL}
  BY DEF ReleaseStart, Held, TypeOK, Buf
<1>2. ASSUME t \in Nodes PROVE AwareAt(t, d)
  <2>1. b \in To(buf, t)
    BY DEF To
  <2>2. SoundAt(t, ns[t]) /\ Aware(ns[t], IsMgr(t), Lost(t), Holders(t)) /\ ns[t] \in Node
    BY <1>2, RefersIs DEF AwareAt
  <2>. HIDE DEF t
  <2>3. ns[t].st = "live"
    BY <2>1, <2>2 DEF SoundAt, Sound
  <2>4. ns[t].lS > 0
    BY <2>1, <2>2, <2>3, LocallyCounted
  <2>5. Aware(d, IsMgr(t), Lost(t), Holders(t))
    BY <1>2, <2>2, <2>3, <2>4, LocalAware
  <2>. QED
    BY <2>5, RefersIs DEF AwareAt
<1>. HIDE DEF t, d
<1>3. ASSUME NEW m \in Nodes PROVE AwareAt(m, node'[m])
  <2>1. CASE m = t
    <3>1. node'[m] = d
      BY <1>1, <2>1, RefsNil
    <3>. QED
      BY <1>2, <2>1, <3>1
  <2>2. CASE m # t
    <3>1. node'[m] = ns[m]
      BY <1>1, <2>2
    <3>. QED
      BY <3>1
  <2>. QED
    BY <2>1, <2>2
<1>4. ASSUME NEW m \in Nodes PROVE AwareAt(m, node[m])'
  <2>1. IsMgr(m)' = IsMgr(m) /\ Lost(m)' = Lost(m) /\ Who(ref, m)' = Who(ref, m)
    BY DEF IsMgr, Lost, Who
  <2>. QED
    BY <1>3, <2>1 DEF AwareAt
<1>5. Clean'
  BY DEF Known, Clean
<1>. QED
  BY <1>4, <1>5 DEF Known

LEMMA FreeBufferKnown ==
    ASSUME Held, Known, NEW h \in Threads, NEW b \in Bufs, FreeBuffer(h, b)
    PROVE  Known'
<1>1. ReleaseStart(b, node) /\ ref' = ref /\ mgr' = mgr /\ lost' = lost
  BY DEF FreeBuffer
<1>2. node \in [Nodes -> Node] /\ \A m \in Nodes : SoundAt(m, node[m]) /\ AwareAt(m, node[m])
  BY NodeAware DEF Held, TypeOK
<1>. QED
  BY <1>1, <1>2, ReleaseStartKnown

LEMMA SendFailsKnown ==
    ASSUME Held, Known, NEW h \in Threads, SendFails(h)
    PROVE  Known'
<1>1. Sending(h) /\ ref' = ref /\ mgr' = mgr /\ lost' = lost
  BY DEF SendFails
<1>2. busy.buf \in Bufs /\ ProcOf[h] \in alive
  BY <1>1, SendingIs
<1>3. node \in [Nodes -> Node] /\ \A m \in Nodes : SoundAt(m, node[m]) /\ AwareAt(m, node[m])
  BY NodeAware DEF Held, TypeOK
<1>4. CASE ReleaseStart(busy.buf, node)
  BY <1>1, <1>2, <1>3, <1>4, ReleaseStartKnown
<1>5. CASE \E n \in Nodes \ Managers :
             /\ Owner[n] = ProcOf[h] /\ node[n].st = "none"
             /\ ReleaseStart(busy.buf, [node EXCEPT ![n] = NewNode])
  <2>1. PICK n \in Nodes \ Managers :
             /\ Owner[n] = ProcOf[h] /\ node[n].st = "none"
             /\ ReleaseStart(busy.buf, [node EXCEPT ![n] = NewNode])
    BY <1>5
  <2>. DEFINE ns == [node EXCEPT ![n] = NewNode]
  <2>2. SoundAt(n, NewNode)
    <3>1. Up(n)
      BY <1>2, <2>1 DEF Up
    <3>. QED
      BY <1>3, <2>1, <3>1, NewNodeSound DEF SoundAt
  <2>3. AwareAt(n, NewNode)
    <3>1. SoundAt(n, node[n])
      BY <1>3
    <3>2. Who(ref, n) = {} /\ ~IsMgr(n)
      BY <2>1, <3>1 DEF SoundAt, Sound
    <3>3. Aware(NewNode, FALSE, Lost(n), {})
      BY NewAware
    <3>. QED
      BY <3>2, <3>3 DEF AwareAt, Aware
  <2>4. ns \in [Nodes -> Node] /\ ns[n] = NewNode /\ \A m \in Nodes \ {n} : ns[m] = node[m]
    BY <1>3, NoNodeIs
  <2>. HIDE DEF ns
  <2>5. \A m \in Nodes : SoundAt(m, ns[m]) /\ AwareAt(m, ns[m])
    BY <1>3, <2>2, <2>3, <2>4
  <2>6. ReleaseStart(busy.buf, ns)
    BY <2>1 DEF ns
  <2>. QED
    BY <1>1, <1>2, <2>4, <2>5, <2>6, ReleaseStartKnown
<1>. QED
  BY <1>4, <1>5 DEF SendFails

LEMMA ReleaseObjectKnown ==
    ASSUME Held, Known, ReleaseObject
    PROVE  Known'
<1>. DEFINE b == busy.buf
            i == buf[b].next
            o == buf[b].objs[i]
            q == buf[b].proc
            d == DecLocal(o.node, node[o.node], o.strong, Holders(o.node) = {})
<1>1. /\ Releasing /\ i <= Len(buf[b].objs) /\ buf' = [buf EXCEPT ![b].next = @ + 1]
      /\ mgr' = mgr /\ lost' = lost
      /\ o.type = "handle" =>
           IF Named(q, o.desc) = {} THEN UNCHANGED <<node, ref>>
           ELSE \E n \in Named(q, o.desc) : DecRef(q, n, o.strong)
      /\ o.type # "handle" => node' = node \/ node' = [node EXCEPT ![o.node] = d]
      /\ o.type # "handle" => ref' = ref
  BY DEF ReleaseObject, Held, TypeOK
<1>2. b \in Bufs /\ buf[b].st = "releasing" /\ Fits(buf[b], alive) /\ buf[b] \in Buf
  BY <1>1, ReleasingIs
<1>3. /\ i \in 1..Len(buf[b].objs) /\ q \in Procs
      /\ o.type # "binder" => o.desc # NIL
  <2>1. i \in Nat \ {0} /\ Len(buf[b].objs) \in Nat
    BY <1>2 DEF Fits, Buf
  <2>2. i \in 1..Len(buf[b].objs)
    <3>1. i <= Len(buf[b].objs)
      BY <1>1
    <3>. HIDE DEF i
    <3>. QED
      BY <2>1, <3>1
  <2>3. q \in alive /\ alive \subseteq Procs
    BY <1>2 DEF Fits, Held, TypeOK
  <2>4. o.type # "binder" => o.desc # NIL
    <3>. HIDE DEF i
    <3>. QED
      BY <1>2, <2>2 DEF Fits
  <2>. QED
    BY <2>2, <2>3, <2>4
<1>4. o \in Obj
  BY <1>2, <1>3 DEF Buf
<1>5. o.type = "binder" => <<b, i>> \in In(buf, o.node, o.strong)
  BY <1>1, <1>2, NextIs
<1>. HIDE DEF d, b, i, o, q
<1>6. CASE o.type = "handle"
  <2>1. CASE Named(q, o.desc) = {}
    BY <1>1, <1>6, <2>1, SameNodesKnown
  <2>2. CASE Named(q, o.desc) # {}
    <3>1. PICK n \in Named(q, o.desc) : DecRef(q, n, o.strong)
      BY <1>1, <1>6, <2>2
    <3>2. n \in Nodes /\ q \in Who(ref, n) /\ o.strong \in BOOLEAN
      BY <1>3, <1>4, <1>6 DEF Named, Who, Obj
    <3>3. SoundAt(n, node[n]) /\ AwareAt(n, node[n]) /\ TypeOK /\ Clean
      BY <3>2, NodeAware
    <3>4. Moves(n)
      BY <1>3, <3>1, <3>2, <3>3, DecRefAware
    <3>. QED
      BY <1>1, <3>2, <3>4, OneNodeKnown
  <2>. QED
    BY <2>1, <2>2
<1>7. CASE o.type # "handle"
  <2>. DEFINE n == o.node
              nd == node[n]
  <2>1. o.type = "binder" /\ n \in Nodes /\ o.strong \in BOOLEAN
    BY <1>4, <1>7 DEF Obj
  <2>2. In(buf, n, o.strong) # {}
    BY <1>5, <2>1
  <2>3. /\ SoundAt(n, nd) /\ Aware(nd, IsMgr(n), Lost(n), Holders(n)) /\ nd \in Node
        /\ IsMgr(n) => nd.st = "live"
    BY <2>1, NodeAware, RefersIs DEF AwareAt
  <2>4. d = DecLocal(n, nd, o.strong, Holders(n) = {})
    BY DEF d
  <2>5. node' = node \/ node' = [node EXCEPT ![n] = d]
    BY <1>1, <1>7
  <2>. HIDE DEF n, nd
  <2>6. /\ o.strong => In(buf, n, TRUE) # {}
        /\ ~o.strong => In(buf, n, FALSE) # {}
    <3>1. (o.strong => o.strong = TRUE) /\ (~o.strong => o.strong = FALSE)
      BY <2>1
    <3>. QED
      BY <2>2, <3>1
  <2>7. nd.st = "live"
    BY <2>1, <2>3, <2>6 DEF SoundAt, Sound
  <2>8. (nd.lS > 0 \/ ~o.strong) /\ (nd.lW > 0 \/ o.strong)
    BY <2>3, <2>6, <2>7, LocallyCounted
  <2>9. Aware(DecLocal(n, nd, o.strong, Holders(n) = {}), IsMgr(n), Lost(n), Holders(n))
    BY <2>1, <2>3, <2>8, LocalAware
  <2>10. AwareAt(n, d)
    BY <2>4, <2>9, RefersIs DEF AwareAt
  <2>11. CASE node' = node
    BY <1>1, <1>7, <2>11, SameNodesKnown
  <2>12. CASE node' = [node EXCEPT ![n] = d]
    BY <1>1, <1>7, <2>1, <2>10, <2>12, SameRefKnown
  <2>. QED
    BY <2>5, <2>11, <2>12
<1>. QED
  BY <1>6, <1>7

LEMMA DeletedAware ==
    ASSUME NEW n \in Nodes, NEW nd, NEW up, NEW mg, NEW lo, NEW S, NEW H, NEW T, NEW LS, NEW LW,
           Sound(n, nd, up, mg, S, H, T, LS, LW), Aware(nd, mg, lo, H), NEW p \in H,
           NEW r, r.s # 0 <=> p \in S,
           IsFiniteSet(S), IsFiniteSet(T), IsFiniteSet(LS), IsFiniteSet(LW)
    PROVE  Aware(Deleted(n, nd, r, H = {p}), mg, lo, H \ {p})
<1>. DEFINE d == IF r.s # 0 THEN DecStrong(n, nd) ELSE nd
<1>1. Deleted(n, nd, r, H = {p}) = DecWeak(n, d, H = {p})
  BY DEF Deleted
<1>2. nd \in Node /\ (mg => nd.st = "live") /\ nd.iS = Cardinality(S)
  BY DEF Sound
<1>3. d \in Node /\ (mg => d.st = "live") /\ Aware(d, mg, lo, H)
  <2>1. CASE r.s # 0
    <3>1. Sound(n, DecStrong(n, nd), up, mg, S \ {p}, H, T, LS, LW)
      BY <2>1, DecStrongSound
    <3>2. nd.iS > 0
      BY <1>2, <2>1, CardIs
    <3>3. Aware(DecStrong(n, nd), mg, lo, H)
      BY <1>2, <3>2, DecStrongAware
    <3>. QED
      BY <2>1, <3>1, <3>3 DEF Sound
  <2>2. CASE ~(r.s # 0)
    BY <1>2, <2>2
  <2>. QED
    BY <2>1, <2>2
<1>. HIDE DEF d
<1>. QED
  BY <1>1, <1>3, DecWeakAware

LEMMA MineAware ==
    ASSUME Held, Known, NEW p \in alive, NEW n \in Nodes,
           NEW nd, nd = IF Owner[n] = p /\ node[n].st = "live" THEN Orphan(n) ELSE node[n]
    PROVE  Aware(nd, StillMgr(n, p), Lost(n), Who(ref, n))
<1>1. Aware(node[n], IsMgr(n), Lost(n), Who(ref, n)) /\ (StillMgr(n, p) => IsMgr(n))
      /\ node[n] \in Node
  BY NodeAware DEF AwareAt, StillMgr, IsMgr
<1>2. CASE Owner[n] = p /\ node[n].st = "live"
  <2>1. nd = Orphan(n) /\ ~StillMgr(n, p)
    BY <1>2 DEF StillMgr
  <2>2. Orphan(n).st # "live"
    BY <1>1 DEF Orphan, NoNode, Node
  <2>. QED
    BY <2>1, <2>2 DEF Aware
<1>3. CASE ~(Owner[n] = p /\ node[n].st = "live")
  <2>1. nd = node[n]
    BY <1>3
  <2>. QED
    BY <1>1, <2>1 DEF Aware
<1>. QED
  BY <1>2, <1>3

LEMMA ReleaseKnown ==
    ASSUME Held, Known, NEW p \in Procs, Release(p)
    PROVE  Known'
<1>. DEFINE mine(n) == IF Owner[n] = p /\ node[n].st = "live" THEN Orphan(n) ELSE node[n]
<1>1. /\ p \in alive
      /\ mgr' = IF mgr # NIL /\ Owner[mgr] = p THEN NIL ELSE mgr
      /\ node' = [n \in Nodes |->
                    IF p \in Holders(n) THEN Deleted(n, mine(n), ref[p][n], Holders(n) = {p})
                    ELSE mine(n)]
      /\ ref' = [ref EXCEPT ![p] = [n \in Nodes |-> NoRef]] /\ lost' = lost
  BY DEF Release
<1>2. /\ \A n \in Nodes : ref'[p][n] = NoRef
      /\ \A q \in Procs \ {p}, n \in Nodes : ref'[q][n] = ref[q][n]
      /\ NoRef.desc = NIL /\ NoRef.s = 0 /\ NoRef.w = 0
  <2>1. ref \in [Procs -> [Nodes -> Ref]]
    BY DEF Held, TypeOK
  <2>. QED
    BY <1>1, <2>1 DEF NoRef
<1>3. Clean'
  BY <1>2 DEF Known, Clean
<1>4. \A n \in Nodes : Who(ref', n) = Who(ref, n) \ {p}
  BY <1>2 DEF Who
<1>5. \A n \in Nodes : p \in Who(ref, n) => (ref[p][n].s # 0 <=> p \in WhoStrong(ref, n))
  <2>1. \A n \in Nodes : ref[p][n].s \in Nat
    BY DEF Held, TypeOK, Ref
  <2>. QED
    BY <2>1 DEF WhoStrong
<1>6. ASSUME NEW n \in Nodes
      PROVE  Aware(node'[n], StillMgr(n, p), Lost(n), Who(ref, n) \ {p})
  <2>1. PICK nd : nd = mine(n)
    OBVIOUS
  <2>2. PICK T, LS, LW : /\ T = IF Owner[n] = p THEN {} ELSE To(buf, n)
                         /\ LS = IF Owner[n] = p THEN {} ELSE In(buf, n, TRUE)
                         /\ LW = IF Owner[n] = p THEN {} ELSE In(buf, n, FALSE)
    OBVIOUS
  <2>3. node'[n] = IF p \in Who(ref, n) THEN Deleted(n, nd, ref[p][n], Who(ref, n) = {p}) ELSE nd
    BY <1>1, <2>1, RefersIs
  <2>. HIDE DEF mine
  <2>4. nd = IF Owner[n] = p /\ node[n].st = "live" THEN Orphan(n) ELSE node[n]
    BY <2>1 DEF mine
  <2>5. Sound(n, nd, StillUp(n, p), StillMgr(n, p), WhoStrong(ref, n), Who(ref, n), T, LS, LW)
    BY <1>1, <2>2, <2>4, MineSound
  <2>6. Aware(nd, StillMgr(n, p), Lost(n), Who(ref, n))
    BY <1>1, <2>4, MineAware
  <2>7. IsFiniteSet(WhoStrong(ref, n)) /\ IsFiniteSet(T) /\ IsFiniteSet(LS) /\ IsFiniteSet(LW)
    BY <2>2, Finite, FS_EmptySet
  <2>8. CASE p \in Who(ref, n)
    <3>1. ref[p][n].s # 0 <=> p \in WhoStrong(ref, n)
      BY <1>5, <2>8
    <3>2. Aware(Deleted(n, nd, ref[p][n], Who(ref, n) = {p}), StillMgr(n, p), Lost(n),
                Who(ref, n) \ {p})
      BY <2>5, <2>6, <2>7, <2>8, <3>1, DeletedAware
    <3>. QED
      BY <2>3, <2>8, <3>2
  <2>9. CASE p \notin Who(ref, n)
    <3>1. Who(ref, n) \ {p} = Who(ref, n)
      BY <2>9
    <3>. QED
      BY <2>3, <2>6, <2>9, <3>1
  <2>. QED
    BY <2>8, <2>9
<1>7. ASSUME NEW n \in Nodes PROVE AwareAt(n, node[n])'
  <2>1. IsMgr(n)' => StillMgr(n, p)
    <3>1. n # NIL
      BY RefsNil
    <3>. QED
      BY <1>1, <3>1 DEF IsMgr, StillMgr
  <2>2. Lost(n)' = Lost(n)
    BY <1>1 DEF Lost
  <2>. QED
    BY <1>4, <1>6, <2>1, <2>2 DEF AwareAt, Aware
<1>. QED
  BY <1>3, <1>7 DEF Known

-------------------------------------------------------------------------------
(* The specification *)

LEMMA KnownNext == Held /\ Known /\ [Next]_vars => Known'
<1>. SUFFICES ASSUME Held, Known, [Next]_vars PROVE Known'
  OBVIOUS
<1>1. ASSUME NEW p \in Procs, Count(p) PROVE Known'
  BY <1>1, IncKnown, DecKnown DEF Count
<1>2. ASSUME NEW p \in Procs, Release(p) PROVE Known'
  BY <1>2, ReleaseKnown
<1>3. ASSUME NEW n \in Nodes, NEW strong \in BOOLEAN, Done(n, strong) PROVE Known'
  BY <1>3, DoneKnown
<1>4. ASSUME NEW n \in Nodes, SetContextMgr(n) PROVE Known'
  BY <1>4, SetContextMgrKnown
<1>5. ASSUME NEW h \in Threads, SendDone(h) PROVE Known'
  BY <1>5, SameNodesKnown DEF SendDone
<1>6. ASSUME NEW h \in Threads, Send(h) PROVE Known'
  BY <1>5, <1>6, SendStartKnown, SendBinderKnown, SendHandleKnown, SendFailsKnown DEF Send
<1>7. ASSUME NEW h \in Threads, ThreadExit(h) PROVE Known'
  BY <1>7, ThreadExitKnown
<1>8. ASSUME NEW h \in Threads, NEW b \in Bufs, FreeBuffer(h, b) PROVE Known'
  BY <1>8, FreeBufferKnown
<1>9. ASSUME NEW h \in Threads, NEW n \in Nodes, ReadNode(h, n) PROVE Known'
  BY <1>9, ReadNodeKnown
<1>10. CASE ReleaseObject
  BY <1>10, ReleaseObjectKnown
<1>11. CASE ReleaseDone
  BY <1>11, SameNodesKnown DEF ReleaseDone
<1>12. CASE UNCHANGED vars
  BY <1>12, SameNodesKnown DEF vars
<1>. QED
  BY <1>1, <1>2, <1>3, <1>4, <1>6, <1>7, <1>8, <1>9, <1>10, <1>11, <1>12 DEF Next

\* While what the process of a node was told and the counts of the node disagree,
\* the work to tell it is queued, unless a thread exited with that work.
THEOREM OwnerAlwaysTold == Spec => []OwnerTold
<1>1. Spec => [](Held /\ Known)
  BY HeldInit, HeldNext, KnownInit, KnownNext, PTL DEF Spec
<1>2. ASSUME Held, Known PROVE OwnerTold
  <2>1. ASSUME NEW n \in Nodes \ lost, node[n].st = "live", node[n].work = NIL
        PROVE  /\ node[n].iS > 0 => node[n].hS
               /\ Holders(n) # {} => node[n].hW
               /\ node[n].hS => Strong(node[n])
               /\ node[n].hW => Weak(n, node[n])
    <3>1. Aware(node[n], IsMgr(n), Lost(n), Holders(n)) /\ ~Lost(n)
      BY <1>2, <2>1, NodeAware, RefersIs DEF AwareAt, Lost
    <3>. QED
      BY <2>1, <3>1 DEF Aware, Strong, Weak
  <2>. QED
    BY <2>1 DEF OwnerTold
<1>. QED
  BY <1>1, <1>2, PTL

-------------------------------------------------------------------------------
(* What a handle means *)

\* Whether the i-th object of buffer k is handle d of p's, for node n, and counts.
Bears(k, i, p, n, strong, d) ==
    /\ i \in k.next..Len(k.objs) /\ k.proc = p
    /\ k.objs[i].type = "handle" /\ k.objs[i].node = n
    /\ k.objs[i].strong = strong /\ k.objs[i].desc = d
Handed(bf, p, n, strong, d) ==
    {x \in Bufs \X (1..MaxObjs) : Bears(bf[x[1]], x[2], p, n, strong, d)}
Kind(r, strong) == IF strong THEN r.s ELSE r.w

\* References R of p, with its own increments u and the buffers bf: each is what it
\* counts, each handle in a buffer is the one its node has, no handle means two
\* nodes, and none is counted that means nothing.
Matched(p, R, u, bf) ==
    /\ \A n \in Nodes :
         /\ \A strong \in BOOLEAN, d \in Handles \cup {NIL} :
              d = NIL \/ d # R[n].desc => Handed(bf, p, n, strong, d) = {}
         /\ R[n].desc # NIL =>
              /\ \A strong \in BOOLEAN :
                   Kind(R[n], strong) = Kind(u[R[n].desc], strong)
                                          + Cardinality(Handed(bf, p, n, strong, R[n].desc))
              /\ R[n].s + R[n].w > 0
              /\ \A m \in Nodes \ {n} : R[m].desc # R[n].desc
    /\ \A d \in Handles : (\A n \in Nodes : R[n].desc # d) => u[d].s = 0 /\ u[d].w = 0

Exactly == \A p \in Careful \ unsure : Matched(p, ref[p], user[p], buf)

LEMMA NotHandle == NIL \notin Handles /\ \A d \in Handles : d # NIL
BY RefsNil, RefsFinite, FS_CardinalityType DEF Handles

LEMMA HandedFinite ==
    ASSUME NEW bf, NEW p, NEW n, NEW strong, NEW d
    PROVE  IsFiniteSet(Handed(bf, p, n, strong, d))
<1>1. IsFiniteSet(1..MaxObjs)
  BY RefsBounds, FS_Interval
<1>2. IsFiniteSet(Bufs \X (1..MaxObjs))
  BY <1>1, RefsFinite, FS_Product
<1>3. Handed(bf, p, n, strong, d) \subseteq Bufs \X (1..MaxObjs)
  BY DEF Handed
<1>. QED
  BY <1>2, <1>3, FS_Subset

\* The handles of p in buffers are the ones they were.
HandsKept(p) ==
    \A n \in Nodes, strong \in BOOLEAN, d \in Handles \cup {NIL} :
        Handed(buf', p, n, strong, d) = Handed(buf, p, n, strong, d)

\* The same objects are handle d of p's for n, but perhaps for the k-th of b.
ButFor(p, n, strong, d, b, k) ==
    \A c \in Bufs, i \in 1..MaxObjs : c # b \/ i # k =>
        (Bears(buf'[c], i, p, n, strong, d) <=> Bears(buf[c], i, p, n, strong, d))

LEMMA HandedMore ==
    ASSUME NEW p, NEW n, NEW strong, NEW d, NEW b \in Bufs, NEW k \in 1..MaxObjs,
           ButFor(p, n, strong, d, b, k), Bears(buf'[b], k, p, n, strong, d)
    PROVE  Handed(buf', p, n, strong, d) = Handed(buf, p, n, strong, d) \cup {<<b, k>>}
<1>1. /\ Handed(buf', p, n, strong, d) =
            {x \in Bufs \X (1..MaxObjs) : Bears(buf'[x[1]], x[2], p, n, strong, d)}
      /\ Handed(buf, p, n, strong, d) =
            {x \in Bufs \X (1..MaxObjs) : Bears(buf[x[1]], x[2], p, n, strong, d)}
  BY DEF Handed
<1>2. \A x \in Bufs \X (1..MaxObjs) :
         /\ x[1] \in Bufs /\ x[2] \in 1..MaxObjs
         /\ x = <<b, k>> <=> x[1] = b /\ x[2] = k
  OBVIOUS
<1>3. <<b, k>> \in Bufs \X (1..MaxObjs) /\ <<b, k>>[1] = b /\ <<b, k>>[2] = k
  OBVIOUS
<1>. QED
  BY <1>1, <1>2, <1>3 DEF ButFor

LEMMA HandedLess ==
    ASSUME NEW p, NEW n, NEW strong, NEW d, NEW b \in Bufs, NEW k \in 1..MaxObjs,
           ButFor(p, n, strong, d, b, k), ~Bears(buf'[b], k, p, n, strong, d)
    PROVE  Handed(buf', p, n, strong, d) = Handed(buf, p, n, strong, d) \ {<<b, k>>}
<1>1. /\ Handed(buf', p, n, strong, d) =
            {x \in Bufs \X (1..MaxObjs) : Bears(buf'[x[1]], x[2], p, n, strong, d)}
      /\ Handed(buf, p, n, strong, d) =
            {x \in Bufs \X (1..MaxObjs) : Bears(buf[x[1]], x[2], p, n, strong, d)}
  BY DEF Handed
<1>2. \A x \in Bufs \X (1..MaxObjs) :
         /\ x[1] \in Bufs /\ x[2] \in 1..MaxObjs
         /\ x = <<b, k>> <=> x[1] = b /\ x[2] = k
  OBVIOUS
<1>3. <<b, k>> \in Bufs \X (1..MaxObjs) /\ <<b, k>>[1] = b /\ <<b, k>>[2] = k
  OBVIOUS
<1>. QED
  BY <1>1, <1>2, <1>3 DEF ButFor

LEMMA HandedSame ==
    ASSUME NEW p, NEW n, NEW strong, NEW d,
           \A c \in Bufs, i \in 1..MaxObjs :
              Bears(buf'[c], i, p, n, strong, d) <=> Bears(buf[c], i, p, n, strong, d)
    PROVE  Handed(buf', p, n, strong, d) = Handed(buf, p, n, strong, d)
<1>1. /\ Handed(buf', p, n, strong, d) =
            {x \in Bufs \X (1..MaxObjs) : Bears(buf'[x[1]], x[2], p, n, strong, d)}
      /\ Handed(buf, p, n, strong, d) =
            {x \in Bufs \X (1..MaxObjs) : Bears(buf[x[1]], x[2], p, n, strong, d)}
  BY DEF Handed
<1>2. \A x \in Bufs \X (1..MaxObjs) : x[1] \in Bufs /\ x[2] \in 1..MaxObjs
  OBVIOUS
<1>. QED
  BY <1>1, <1>2

\* An object more in the buffer that is being filled.
LEMMA CarryHands ==
    ASSUME Held, NEW b \in Bufs, busy.buf = b, buf[b].st = "filling",
           Len(buf[b].objs) < MaxObjs, NEW o \in Obj, Carry(o)
    PROVE  LET k == Len(buf[b].objs) + 1 IN
           \A p, n, strong, d :
             /\ <<b, k>> \notin Handed(buf, p, n, strong, d)
             /\ Handed(buf', p, n, strong, d) =
                  IF /\ o.type = "handle" /\ p = buf[b].proc /\ n = o.node
                     /\ strong = o.strong /\ d = o.desc
                  THEN Handed(buf, p, n, strong, d) \cup {<<b, k>>}
                  ELSE Handed(buf, p, n, strong, d)
<1>. DEFINE k == Len(buf[b].objs) + 1
            os == Append(buf[b].objs, o)
<1>1. buf \in [Bufs -> Buf] /\ buf[b] \in Buf /\ buf[b].objs \in Seq(Obj) /\ Fits(buf[b], alive)
  BY DEF Held, TypeOK, Buf
<1>2. /\ os \in Seq(Obj) /\ Len(os) = k /\ os[k] = o /\ k \in Nat
      /\ \A i \in 1..(k - 1) : os[i] = buf[b].objs[i]
  BY <1>1
<1>. HIDE DEF os
<1>3. buf' = [buf EXCEPT ![b] = [buf[b] EXCEPT !.objs = os]]
  BY DEF Carry, os
<1>4. /\ buf'[b].objs = os /\ buf'[b].next = buf[b].next /\ buf'[b].proc = buf[b].proc
      /\ \A c \in Bufs \ {b} : buf'[c] = buf[c]
  BY <1>1, <1>2, <1>3 DEF Buf
<1>5. buf[b].next = 1 /\ k \in 1..MaxObjs /\ k - 1 = Len(buf[b].objs)
  BY <1>1, <1>2, RefsBounds DEF Fits
<1>6. SUFFICES ASSUME NEW p, NEW n, NEW strong, NEW d
               PROVE  /\ <<b, k>> \notin Handed(buf, p, n, strong, d)
                      /\ Handed(buf', p, n, strong, d) =
                           IF /\ o.type = "handle" /\ p = buf[b].proc /\ n = o.node
                              /\ strong = o.strong /\ d = o.desc
                           THEN Handed(buf, p, n, strong, d) \cup {<<b, k>>}
                           ELSE Handed(buf, p, n, strong, d)
  OBVIOUS
<1>. DEFINE new == /\ o.type = "handle" /\ p = buf[b].proc /\ n = o.node
                   /\ strong = o.strong /\ d = o.desc
            Is(k2, i) == Bears(k2, i, p, n, strong, d)
<1>7. ~Is(buf[b], k) /\ <<b, k>> \notin Handed(buf, p, n, strong, d)
  BY <1>2, <1>5 DEF Handed, Bears
<1>8. Is(buf'[b], k) <=> new
  BY <1>2, <1>4, <1>5 DEF Bears
<1>9. ASSUME NEW c \in Bufs, NEW i \in 1..MaxObjs, c # b \/ i # k
      PROVE  Is(buf'[c], i) <=> Is(buf[c], i)
  <2>1. CASE c # b
    BY <1>4, <2>1
  <2>2. CASE c = b
    <3>1. i \in 1..k <=> i \in 1..(k - 1)
      BY <1>2, <1>9, <2>2
    <3>2. i \in 1..(k - 1) => os[i] = buf[b].objs[i]
      BY <1>2
    <3>. QED
      BY <1>2, <1>4, <1>5, <2>2, <3>1, <3>2 DEF Bears
  <2>. QED
    BY <2>1, <2>2
<1>10. ButFor(p, n, strong, d, b, k)
  BY <1>9 DEF ButFor
<1>. HIDE DEF k, new
<1>11. CASE new
  <2>1. Handed(buf', p, n, strong, d) = Handed(buf, p, n, strong, d) \cup {<<b, k>>}
    BY <1>5, <1>8, <1>10, <1>11, HandedMore
  <2>. QED
    BY <1>7, <1>11, <2>1 DEF new
<1>12. CASE ~new
  <2>1. Handed(buf', p, n, strong, d) = Handed(buf, p, n, strong, d) \ {<<b, k>>}
    BY <1>5, <1>8, <1>10, <1>12, HandedLess
  <2>. QED
    BY <1>7, <1>12, <2>1 DEF new
<1>. QED
  BY <1>11, <1>12

\* One object further in the buffer that is being released.
Passed(b) == buf' = [buf EXCEPT ![b].next = @ + 1]

LEMMA NextHands ==
    ASSUME Held, NEW b \in Bufs, buf[b].st = "releasing", buf[b].next <= Len(buf[b].objs),
           Passed(b)
    PROVE  LET i == buf[b].next
               o == buf[b].objs[i] IN
           /\ i \in 1..MaxObjs /\ o \in Obj
           /\ \A p, n, strong, d :
                LET is == /\ o.type = "handle" /\ p = buf[b].proc /\ n = o.node
                          /\ strong = o.strong /\ d = o.desc IN
                /\ is => <<b, i>> \in Handed(buf, p, n, strong, d)
                /\ Handed(buf', p, n, strong, d) =
                     IF is THEN Handed(buf, p, n, strong, d) \ {<<b, i>>}
                     ELSE Handed(buf, p, n, strong, d)
<1>. DEFINE i == buf[b].next
            o == buf[b].objs[i]
<1>1. buf[b] \in Buf /\ Fits(buf[b], alive) /\ buf \in [Bufs -> Buf]
  BY DEF Held, TypeOK
<1>2. /\ i \in Nat /\ i + 1 \in Nat /\ Len(buf[b].objs) \in Nat
      /\ i \in 1..Len(buf[b].objs) /\ i \in 1..MaxObjs /\ buf[b].objs \in Seq(Obj)
  BY <1>1, RefsBounds DEF Fits, Buf
<1>3. o \in Obj
  BY <1>2
<1>4. /\ buf'[b].proc = buf[b].proc /\ buf'[b].objs = buf[b].objs /\ buf'[b].next = i + 1
      /\ \A c \in Bufs \ {b} : buf'[c] = buf[c]
  BY <1>1, <1>2 DEF Buf, Passed
<1>5. ASSUME NEW p, NEW n, NEW strong, NEW d,
             NEW is, is = /\ o.type = "handle" /\ p = buf[b].proc /\ n = o.node
                          /\ strong = o.strong /\ d = o.desc
      PROVE  /\ is => <<b, i>> \in Handed(buf, p, n, strong, d)
             /\ Handed(buf', p, n, strong, d) =
                  IF is THEN Handed(buf, p, n, strong, d) \ {<<b, i>>}
                  ELSE Handed(buf, p, n, strong, d)
  <2>. DEFINE Is(k2, j) == Bears(k2, j, p, n, strong, d)
  <2>1. ASSUME NEW j \in 1..MaxObjs, j # i PROVE Is(buf'[b], j) <=> Is(buf[b], j)
    <3>1. j \in i..Len(buf[b].objs) <=> j \in (i + 1)..Len(buf[b].objs)
      BY <1>2, <2>1
    <3>. QED
      BY <1>4, <3>1 DEF Bears
  <2>2. ~Is(buf'[b], i)
    BY <1>2, <1>4 DEF Bears
  <2>3. Is(buf[b], i) <=> is
    BY <1>2, <1>5 DEF Bears
  <2>. HIDE DEF i, o
  <2>4. ButFor(p, n, strong, d, b, i)
    BY <1>4, <2>1 DEF ButFor
  <2>5. Handed(buf', p, n, strong, d) = Handed(buf, p, n, strong, d) \ {<<b, i>>}
    <3>1. i \in 1..MaxObjs
      BY <1>2
    <3>2. ~Bears(buf'[b], i, p, n, strong, d)
      BY <2>2
    <3>. HIDE DEF Is
    <3>. QED
      BY <2>4, <3>1, <3>2, HandedLess, SMTT(60)
  <2>6. <<b, i>> \in Handed(buf, p, n, strong, d) <=> is
    <3>1. <<b, i>> \in Bufs \X (1..MaxObjs) /\ <<b, i>>[1] = b /\ <<b, i>>[2] = i
      BY <1>2
    <3>. QED
      BY <2>3, <3>1 DEF Handed
  <2>. QED
    BY <2>5, <2>6
<1>. HIDE DEF i, o
<1>6. ASSUME NEW p, NEW n, NEW strong, NEW d
      PROVE  LET is == /\ o.type = "handle" /\ p = buf[b].proc /\ n = o.node
                       /\ strong = o.strong /\ d = o.desc IN
             /\ is => <<b, i>> \in Handed(buf, p, n, strong, d)
             /\ Handed(buf', p, n, strong, d) =
                  IF is THEN Handed(buf, p, n, strong, d) \ {<<b, i>>}
                  ELSE Handed(buf, p, n, strong, d)
  BY <1>5
<1>. QED
  BY <1>2, <1>3, <1>6 DEF i, o

\* A buffer changes, but not what counts in it.
LEMMA StillHands ==
    ASSUME Held, NEW b \in Bufs, NEW k, buf' = [buf EXCEPT ![b] = k],
           \/ k.objs = buf[b].objs /\ k.next = buf[b].next /\ k.proc = buf[b].proc
           \/ k.next..Len(k.objs) = {} /\ buf[b].next..Len(buf[b].objs) = {}
    PROVE  \A p : HandsKept(p)
<1>. SUFFICES ASSUME NEW p, NEW n \in Nodes, NEW strong \in BOOLEAN, NEW d \in Handles \cup {NIL}
              PROVE  Handed(buf', p, n, strong, d) = Handed(buf, p, n, strong, d)
  BY Zenon DEF HandsKept
<1>1. buf \in [Bufs -> Buf]
  BY DEF Held, TypeOK
<1>2. buf'[b] = k /\ \A c \in Bufs \ {b} : buf'[c] = buf[c]
  BY <1>1
<1>3. \A i : Bears(k, i, p, n, strong, d) <=> Bears(buf[b], i, p, n, strong, d)
  BY DEF Bears
<1>4. \A c \in Bufs, i \in 1..MaxObjs :
         Bears(buf'[c], i, p, n, strong, d) <=> Bears(buf[c], i, p, n, strong, d)
  BY <1>2, <1>3
<1>. QED
  BY <1>4, HandedSame, ZenonT(60)
-------------------------------------------------------------------------------
(* Handles: the steps *)

\* From R, u and bf to R2, u2 and bf2, only the reference to n, whose handle is d,
\* moves, with what it counts.
Frame(p, n, d, R, u, bf, R2, u2, bf2) ==
    /\ R[n].desc \in {d, NIL}
    /\ \A m \in Nodes \ {n} : R2[m] = R[m] /\ R[m].desc # d /\ R[m].desc \in Handles \cup {NIL}
    /\ \A e \in Handles \ {d} : u2[e] = u[e]
    /\ \A m \in Nodes, strong \in BOOLEAN, e \in Handles \cup {NIL} :
         m # n \/ e # d => Handed(bf2, p, m, strong, e) = Handed(bf, p, m, strong, e)

\* The reference r to n counts what there is, or it has gone and nothing is left.
Accounted(p, n, d, r, u, bf) ==
    \/ /\ r.desc = d /\ r.s + r.w > 0
       /\ \A strong \in BOOLEAN :
            Kind(r, strong) = Kind(u[d], strong) + Cardinality(Handed(bf, p, n, strong, d))
    \/ /\ r.desc = NIL /\ u[d].s = 0 /\ u[d].w = 0
       /\ \A strong \in BOOLEAN : Handed(bf, p, n, strong, d) = {}

LEMMA OneMatched ==
    ASSUME NEW p, NEW R, NEW u, NEW bf, Matched(p, R, u, bf),
           NEW n \in Nodes, NEW d \in Handles, NEW R2, NEW u2, NEW bf2,
           Frame(p, n, d, R, u, bf, R2, u2, bf2), Accounted(p, n, d, R2[n], u2, bf2)
    PROVE  Matched(p, R2, u2, bf2)
<1>. USE DEF Frame, Accounted
<1>1. d # NIL
  BY NotHandle
<1>2. ASSUME NEW m \in Nodes, NEW strong \in BOOLEAN, NEW e \in Handles \cup {NIL},
             e = NIL \/ e # R2[m].desc
      PROVE  Handed(bf2, p, m, strong, e) = {}
  <2>1. CASE m = n /\ e = d
    BY <1>1, <1>2, <2>1
  <2>2. CASE m # n \/ e # d
    <3>1. Handed(bf2, p, m, strong, e) = Handed(bf, p, m, strong, e)
      BY <2>2
    <3>2. e = NIL \/ e # R[m].desc
      BY <1>2, <2>2
    <3>3. Handed(bf, p, m, strong, e) = {}
      BY <3>2 DEF Matched
    <3>. QED
      BY <3>1, <3>3
  <2>. QED
    BY <2>1, <2>2
<1>3. ASSUME NEW m \in Nodes, R2[m].desc # NIL
      PROVE  /\ \A strong \in BOOLEAN :
                  Kind(R2[m], strong) = Kind(u2[R2[m].desc], strong)
                                          + Cardinality(Handed(bf2, p, m, strong, R2[m].desc))
             /\ R2[m].s + R2[m].w > 0
             /\ \A l \in Nodes \ {m} : R2[l].desc # R2[m].desc
  <2>1. CASE m = n
    <3>1. R2[n].desc = d
      BY <1>3, <2>1
    <3>2. \A l \in Nodes \ {n} : R2[l].desc # d
      OBVIOUS
    <3>. QED
      BY <1>1, <2>1, <3>1, <3>2
  <2>2. CASE m # n
    <3>. DEFINE e == R[m].desc
    <3>1. R2[m] = R[m] /\ e # d /\ e \in Handles /\ e # NIL /\ u2[e] = u[e]
      BY <1>3, <2>2
    <3>2. /\ \A strong \in BOOLEAN :
               Kind(R[m], strong) = Kind(u[e], strong) + Cardinality(Handed(bf, p, m, strong, e))
          /\ R[m].s + R[m].w > 0
          /\ \A l \in Nodes \ {m} : R[l].desc # e
      BY <3>1 DEF Matched
    <3>3. \A strong \in BOOLEAN : Handed(bf2, p, m, strong, e) = Handed(bf, p, m, strong, e)
      BY <3>1
    <3>4. \A l \in Nodes \ {m} : R2[l].desc # e
      <4>1. R2[n].desc # e
        BY <3>1
      <4>. QED
        BY <3>2, <4>1
    <3>. HIDE DEF e
    <3>5. R2[m].desc = e
      BY <3>1 DEF e
    <3>. QED
      BY <3>1, <3>2, <3>3, <3>4, <3>5
  <2>. QED
    BY <2>1, <2>2
<1>4. ASSUME NEW e \in Handles, \A m \in Nodes : R2[m].desc # e
      PROVE  u2[e].s = 0 /\ u2[e].w = 0
  <2>1. CASE e = d
    BY <1>4, <2>1
  <2>2. CASE e # d
    <3>1. u2[e] = u[e]
      BY <2>2
    <3>2. \A m \in Nodes : R[m].desc # e
      <4>1. R[n].desc # e
        BY <2>2, NotHandle
      <4>. QED
        BY <1>4, <4>1
    <3>. QED
      BY <3>1, <3>2 DEF Matched
  <2>. QED
    BY <2>1, <2>2
<1>. QED
  BY <1>2, <1>3, <1>4 DEF Matched

LEMMA SameMatched ==
    ASSUME NEW p, Matched(p, ref[p], user[p], buf), ref'[p] = ref[p], user'[p] = user[p],
           HandsKept(p), TypeOK, p \in Procs
    PROVE  Matched(p, ref'[p], user'[p], buf')
<1>1. \A n \in Nodes : ref[p][n].desc \in Handles \cup {NIL}
  BY DEF TypeOK, Ref
<1>. QED
  BY <1>1 DEF Matched, HandsKept

\* What the reference of p to n counts, before a step of it: none yet is one
\* that counts nothing.
LEMMA BeforeIs ==
    ASSUME Held, NEW p \in Procs, Matched(p, ref[p], user[p], buf), NEW n \in Nodes,
           NEW r, r = RefFor(p, n)
    PROVE  /\ r \in Ref /\ r.desc \in Handles /\ ref[p][n].desc \in {r.desc, NIL}
           /\ \A m \in Nodes \ {n} : ref[p][m].desc # r.desc /\ ref[p][m].desc \in Handles \cup {NIL}
           /\ \A strong \in BOOLEAN :
                Kind(r, strong) = Kind(user[p][r.desc], strong)
                                    + Cardinality(Handed(buf, p, n, strong, r.desc))
<1>1. /\ r \in Ref /\ r.desc \in Handles /\ r.desc # NIL
      /\ p \in Who(ref, n) => r = ref[p][n]
      /\ p \notin Who(ref, n) => r.s = 0 /\ r.w = 0 /\ Named(p, r.desc) = {}
  BY RefForIs DEF Held
<1>2. \A m \in Nodes : ref[p][m].desc \in Handles \cup {NIL}
  BY DEF Held, TypeOK, Ref
<1>3. p \in Who(ref, n) <=> ref[p][n].desc # NIL
  BY DEF Who
<1>4. CASE p \in Who(ref, n)
  BY <1>1, <1>2, <1>3, <1>4 DEF Matched
<1>5. CASE p \notin Who(ref, n)
  <2>1. \A m \in Nodes : ref[p][m].desc # r.desc
    BY <1>1, <1>5 DEF Named
  <2>2. user[p][r.desc].s = 0 /\ user[p][r.desc].w = 0
    BY <1>1, <2>1 DEF Matched
  <2>3. \A strong \in BOOLEAN : Handed(buf, p, n, strong, r.desc) = {}
    BY <1>1, <2>1 DEF Matched
  <2>4. \A strong \in BOOLEAN :
          Kind(r, strong) = 0 /\ Kind(user[p][r.desc], strong) = 0
    BY <1>1, <1>5, <2>2 DEF Kind
  <2>5. \A strong \in BOOLEAN :
          Kind(r, strong) = Kind(user[p][r.desc], strong)
                              + Cardinality(Handed(buf, p, n, strong, r.desc))
    BY <2>3, <2>4, FS_EmptySet
  <2>. QED
    BY <1>1, <1>2, <1>3, <1>5, <2>1, <2>5
<1>. QED
  BY <1>4, <1>5

\* The step of a process is none of another's.
Others(p) == \A q \in Procs \ {p} : ref'[q] = ref[q] /\ user'[q] = user[q]

LEMMA OthersExactly ==
    ASSUME Held, Exactly, NEW p, Others(p), \A q \in Procs \ {p} : HandsKept(q),
           unsure \subseteq unsure',
           p \in Careful \ unsure' => Matched(p, ref'[p], user'[p], buf')
    PROVE  Exactly'
<1>1. ASSUME NEW q \in Careful \ unsure' PROVE Matched(q, ref'[q], user'[q], buf')
  <2>1. q \in Procs /\ q \in Careful \ unsure
    BY RefsSubsets
  <2>2. CASE q = p
    BY <1>1, <2>2
  <2>3. CASE q # p
    <3>1. Matched(q, ref[q], user[q], buf)
      BY <2>1 DEF Exactly
    <3>. QED
      BY <2>1, <2>3, <3>1, SameMatched DEF Others, Held
  <2>. QED
    BY <2>2, <2>3
<1>. QED
  BY <1>1 DEF Exactly

\* No handle is concerned.
LEMMA NoneExactly ==
    ASSUME Held, Exactly, UNCHANGED <<ref, user, unsure>>, \A q \in Procs : HandsKept(q)
    PROVE  Exactly'
<1>1. ASSUME NEW q \in Careful \ unsure' PROVE Matched(q, ref'[q], user'[q], buf')
  <2>1. q \in Procs /\ q \in Careful \ unsure
    BY RefsSubsets
  <2>2. Matched(q, ref[q], user[q], buf)
    BY <2>1 DEF Exactly
  <2>. QED
    BY <2>1, <2>2, SameMatched DEF Held
<1>. QED
  BY <1>1 DEF Exactly

LEMMA SameHands == ASSUME buf' = buf PROVE \A p : HandsKept(p)
BY DEF HandsKept

\* A count more, of an increment of p's own or of an object in a buffer of p.
Raised(r, strong) == IF strong THEN [r EXCEPT !.s = @ + 1] ELSE [r EXCEPT !.w = @ + 1]

\* What handle d of p's counts for n, and it alone, is one more.
Gains(p, n, strong, d) ==
    /\ \A e \in Handles \ {d} : user'[p][e] = user[p][e]
    /\ \A m \in Nodes, s \in BOOLEAN, e \in Handles \cup {NIL} :
         m # n \/ e # d => Handed(buf', p, m, s, e) = Handed(buf, p, m, s, e)
    /\ \A s \in BOOLEAN :
         Kind(user'[p][d], s) + Cardinality(Handed(buf', p, n, s, d))
           = Kind(user[p][d], s) + Cardinality(Handed(buf, p, n, s, d)) + One(s = strong)

LEMMA MoreMatched ==
    ASSUME Held, NEW p \in Procs, Matched(p, ref[p], user[p], buf), NEW n \in Nodes,
           NEW strong \in BOOLEAN, NEW r, r = RefFor(p, n),
           ref' = [ref EXCEPT ![p][n] = Raised(r, strong)],
           Gains(p, n, strong, r.desc)
    PROVE  Matched(p, ref'[p], user'[p], buf')
<1>. DEFINE r2 == Raised(r, strong)
<1>1. /\ r \in Ref /\ r.desc \in Handles /\ ref[p][n].desc \in {r.desc, NIL}
      /\ \A m \in Nodes \ {n} : ref[p][m].desc # r.desc /\ ref[p][m].desc \in Handles \cup {NIL}
      /\ \A s \in BOOLEAN :
           Kind(r, s) = Kind(user[p][r.desc], s) + Cardinality(Handed(buf, p, n, s, r.desc))
  BY BeforeIs
<1>2. /\ r2 \in Ref /\ r2.desc = r.desc /\ r2.s + r2.w > 0
      /\ \A s \in BOOLEAN : Kind(r2, s) = Kind(r, s) + One(s = strong)
  BY <1>1 DEF Ref, Kind, One, Raised
<1>3. ref'[p][n] = r2 /\ \A m \in Nodes \ {n} : ref'[p][m] = ref[p][m]
  <2>1. ref \in [Procs -> [Nodes -> Ref]]
    BY DEF Held, TypeOK
  <2>. HIDE DEF r2
  <2>2. ref' = [ref EXCEPT ![p][n] = r2]
    BY DEF r2
  <2>. QED
    BY <2>1, <2>2
<1>. HIDE DEF r2
<1>4. \A s \in BOOLEAN :
        Kind(r2, s) = Kind(user'[p][r.desc], s) + Cardinality(Handed(buf', p, n, s, r.desc))
  BY <1>1, <1>2 DEF Gains
<1>5. PICK R2 : R2 = ref'[p]
  OBVIOUS
<1>6. PICK u2 : u2 = user'[p]
  OBVIOUS
<1>7. Frame(p, n, r.desc, ref[p], user[p], buf, R2, u2, buf')
  BY <1>1, <1>3, <1>5, <1>6 DEF Frame, Gains
<1>8. Accounted(p, n, r.desc, R2[n], u2, buf')
  BY <1>2, <1>3, <1>4, <1>5, <1>6 DEF Accounted
<1>9. Matched(p, R2, u2, buf')
  BY <1>1, <1>7, <1>8, OneMatched
<1>. QED
  BY <1>5, <1>6, <1>9

\* binder_dec_ref: a count less.
LEMMA LessMatched ==
    ASSUME Held, NEW p \in Procs, Matched(p, ref[p], user[p], buf), NEW n \in Nodes,
           NEW strong \in BOOLEAN, NEW d, d = ref[p][n].desc, d # NIL, DecRef(p, n, strong),
           user' \in [Procs -> [Handles -> [s: Nat, w: Nat]]],
           \A e \in Handles \ {d} : user'[p][e] = user[p][e],
           \A m \in Nodes, s \in BOOLEAN, e \in Handles \cup {NIL} :
              m # n \/ e # d => Handed(buf', p, m, s, e) = Handed(buf, p, m, s, e),
           \A s \in BOOLEAN :
              Kind(user[p][d], s) + Cardinality(Handed(buf, p, n, s, d))
                = Kind(user'[p][d], s) + Cardinality(Handed(buf', p, n, s, d)) + One(s = strong)
    PROVE  Matched(p, ref'[p], user'[p], buf')
<1>. DEFINE r == ref[p][n]
            less == IF strong THEN [r EXCEPT !.s = @ - 1] ELSE [r EXCEPT !.w = @ - 1]
            gone == less.s = 0 /\ less.w = 0
            r2 == IF gone THEN NoRef ELSE less
<1>1. /\ d \in Handles /\ r \in Ref
      /\ \A m \in Nodes \ {n} : ref[p][m].desc # d /\ ref[p][m].desc \in Handles \cup {NIL}
      /\ \A s \in BOOLEAN : Kind(r, s) = Kind(user[p][d], s) + Cardinality(Handed(buf, p, n, s, d))
  <2>1. \A m \in Nodes : ref[p][m] \in Ref
    BY DEF Held, TypeOK
  <2>. QED
    BY <2>1 DEF Matched, Ref
<1>2. \A s \in BOOLEAN : /\ Kind(user'[p][d], s) \in Nat
                         /\ Cardinality(Handed(buf', p, n, s, d)) \in Nat
  <2>1. user'[p][d] \in [s: Nat, w: Nat]
    BY <1>1
  <2>2. \A s \in BOOLEAN : Cardinality(Handed(buf', p, n, s, d)) \in Nat
    BY HandedFinite, FS_CardinalityType
  <2>. QED
    BY <2>1, <2>2 DEF Kind
<1>3. \A s \in BOOLEAN :
        Kind(r, s) = Kind(user'[p][d], s) + Cardinality(Handed(buf', p, n, s, d)) + One(s = strong)
  BY <1>1
<1>4. Kind(r, strong) > 0
  BY <1>2, <1>3 DEF One
<1>5. ref' = [ref EXCEPT ![p][n] = r2]
  BY <1>4 DEF DecRef, Kind
<1>6. /\ less \in Ref /\ less.desc = d
      /\ \A s \in BOOLEAN :
           Kind(less, s) = Kind(user'[p][d], s) + Cardinality(Handed(buf', p, n, s, d))
  <2>1. \A s \in BOOLEAN : Kind(less, s) = Kind(r, s) - One(s = strong)
    BY <1>1 DEF Kind, One, Ref
  <2>2. less \in Ref /\ less.desc = d
    BY <1>1, <1>4 DEF Kind, Ref
  <2>3. \A s \in BOOLEAN : One(s = strong) \in Nat
    BY OneIs
  <2>. HIDE DEF less, r
  <2>. QED
    BY <1>2, <1>3, <2>1, <2>2, <2>3
<1>7. ref'[p][n] = r2 /\ \A m \in Nodes \ {n} : ref'[p][m] = ref[p][m]
  <2>1. ref \in [Procs -> [Nodes -> Ref]]
    BY DEF Held, TypeOK
  <2>. HIDE DEF r2
  <2>. QED
    BY <1>5, <2>1
<1>. HIDE DEF r, less
<1>8. Accounted(p, n, d, r2, user'[p], buf')
  <2>1. CASE gone
    <3>1. r2.desc = NIL
      BY <2>1 DEF NoRef
    <3>2. \A s \in BOOLEAN : Kind(less, s) = 0
      BY <2>1 DEF Kind
    <3>3. \A s \in BOOLEAN : /\ Kind(user'[p][d], s) = 0
                             /\ Cardinality(Handed(buf', p, n, s, d)) = 0
      BY <1>2, <1>6, <3>2
    <3>4. user'[p][d].s = 0 /\ user'[p][d].w = 0
      BY <3>3 DEF Kind
    <3>5. \A s \in BOOLEAN : Handed(buf', p, n, s, d) = {}
      BY <3>3, HandedFinite, FS_EmptySet
    <3>. QED
      BY <3>1, <3>4, <3>5 DEF Accounted
  <2>2. CASE ~gone
    <3>1. r2 = less
      BY <2>2
    <3>2. less.s + less.w > 0
      <4>1. less.s \in Nat /\ less.w \in Nat
        BY <1>6 DEF Ref
      <4>2. less.s # 0 \/ less.w # 0
        BY <2>2
      <4>3. \A x, y \in Nat : x # 0 \/ y # 0 => x + y > 0
        OBVIOUS
      <4>. QED
        BY <4>1, <4>2, <4>3
    <3>. HIDE DEF gone, r2
    <3>. QED
      BY <1>6, <3>1, <3>2 DEF Accounted
  <2>. QED
    BY <2>1, <2>2
<1>. HIDE DEF r2
<1>9. PICK R2 : R2 = ref'[p]
  OBVIOUS
<1>10. PICK u2 : u2 = user'[p]
  OBVIOUS
<1>11. Frame(p, n, d, ref[p], user[p], buf, R2, u2, buf')
  BY <1>1, <1>7, <1>9, <1>10 DEF Frame
<1>12. Accounted(p, n, d, R2[n], u2, buf')
  BY <1>7, <1>8, <1>9, <1>10
<1>13. Matched(p, R2, u2, buf')
  BY <1>1, <1>11, <1>12, OneMatched
<1>. QED
  BY <1>9, <1>10, <1>13

LEMMA IncExactly ==
    ASSUME Held, Exactly, NEW p \in Procs, NEW d \in Handles, NEW strong \in BOOLEAN,
           Inc(p, d, strong)
    PROVE  Exactly'
<1>1. PICK n \in Counted(p, d) :
        /\ IncRef(p, n, node[n], strong, NIL)
        /\ NotSure(p, IncRefused(p, n, node[n], strong, NIL) \/ RefFor(p, n).desc # d)
  BY DEF Inc
<1>2. /\ buf' = buf
      /\ user' = IF strong THEN [user EXCEPT ![p][d].s = @ + 1] ELSE [user EXCEPT ![p][d].w = @ + 1]
  BY DEF Inc
<1>3. n \in Nodes
  BY <1>1 DEF Counted, Named, Held, TypeOK
<1>4. Others(p)
  <2>1. ref \in [Procs -> [Nodes -> Ref]] /\ user \in [Procs -> [Handles -> [s: Nat, w: Nat]]]
    BY DEF Held, TypeOK
  <2>2. PICK r2 : ref' = [ref EXCEPT ![p][n] = r2]
    BY <1>1 DEF IncRef
  <2>. QED
    BY <1>2, <2>1, <2>2 DEF Others
<1>5. ASSUME p \in Careful \ unsure' PROVE Matched(p, ref'[p], user'[p], buf')
  <2>1. /\ ~IncRefused(p, n, node[n], strong, NIL) /\ RefFor(p, n).desc = d
        /\ p \in Careful \ unsure
    BY <1>1, <1>5 DEF NotSure
  <2>2. Matched(p, ref[p], user[p], buf)
    BY <2>1 DEF Exactly
  <2>3. ref' = [ref EXCEPT ![p][n] = Raised(RefFor(p, n), strong)]
    BY <1>1, <2>1 DEF IncRef, Raised
  <2>4. user[p] \in [Handles -> [s: Nat, w: Nat]] /\ user \in [Procs -> [Handles -> [s: Nat, w: Nat]]]
    BY DEF Held, TypeOK
  <2>5. /\ \A e \in Handles \ {d} : user'[p][e] = user[p][e]
        /\ \A s \in BOOLEAN : Kind(user'[p][d], s) = Kind(user[p][d], s) + One(s = strong)
    BY <1>2, <2>4 DEF Kind, One
  <2>6. \A s \in BOOLEAN :
          Kind(user'[p][d], s) + Cardinality(Handed(buf', p, n, s, d))
            = Kind(user[p][d], s) + Cardinality(Handed(buf, p, n, s, d)) + One(s = strong)
    <3>1. \A s \in BOOLEAN : Cardinality(Handed(buf, p, n, s, d)) \in Nat
      BY HandedFinite, FS_CardinalityType
    <3>2. \A s \in BOOLEAN : Kind(user[p][d], s) \in Nat /\ One(s = strong) \in Nat
      BY <2>4, OneIs DEF Kind
    <3>. QED
      BY <1>2, <2>5, <3>1, <3>2
  <2>7. \A m \in Nodes, s \in BOOLEAN, e \in Handles \cup {NIL} :
          Handed(buf', p, m, s, e) = Handed(buf, p, m, s, e)
    BY <1>2
  <2>8. PICK r : r = RefFor(p, n)
    OBVIOUS
  <2>. QED
    <3>1. Gains(p, n, strong, r.desc)
      BY <2>1, <2>5, <2>6, <2>7, <2>8 DEF Gains
    <3>2. ref' = [ref EXCEPT ![p][n] = Raised(r, strong)]
      BY <2>3, <2>8
    <3>. QED
      BY <1>3, <2>2, <2>8, <3>1, <3>2, MoreMatched
<1>. QED
  BY <1>1, <1>2, <1>4, <1>5, SameHands, OthersExactly DEF NotSure

LEMMA DecExactly ==
    ASSUME Held, Held', Exactly, NEW p \in Procs, NEW d \in Handles, NEW strong \in BOOLEAN,
           Dec(p, d, strong)
    PROVE  Exactly'
<1>. DEFINE holds == (IF strong THEN user[p][d].s ELSE user[p][d].w) > 0
<1>1. PICK n \in Named(p, d) : DecRef(p, n, strong)
  BY DEF Dec
<1>2. /\ buf' = buf /\ unsure' = unsure /\ (p \in Careful => holds)
      /\ user' = IF ~holds THEN user
                 ELSE IF strong THEN [user EXCEPT ![p][d].s = @ - 1]
                 ELSE [user EXCEPT ![p][d].w = @ - 1]
  BY DEF Dec
<1>3. n \in Nodes /\ ref[p][n].desc = d /\ d # NIL
  BY <1>1, NotHandle DEF Named
<1>4. user[p] \in [Handles -> [s: Nat, w: Nat]] /\ user \in [Procs -> [Handles -> [s: Nat, w: Nat]]]
  BY DEF Held, TypeOK
<1>5. Others(p)
  <2>1. ref \in [Procs -> [Nodes -> Ref]]
    BY DEF Held, TypeOK
  <2>2. ref' = ref \/ \E r2 : ref' = [ref EXCEPT ![p][n] = r2]
    BY <1>1 DEF DecRef
  <2>3. \A q \in Procs \ {p} : ref'[q] = ref[q]
    BY <2>1, <2>2
  <2>4. \A q \in Procs \ {p} : user'[q] = user[q]
    BY <1>2, <1>4
  <2>. QED
    BY <2>3, <2>4 DEF Others
<1>6. ASSUME p \in Careful \ unsure' PROVE Matched(p, ref'[p], user'[p], buf')
  <2>1. p \in Careful \ unsure /\ holds
    BY <1>2, <1>6
  <2>2. Matched(p, ref[p], user[p], buf)
    BY <2>1 DEF Exactly
  <2>3. /\ \A e \in Handles \ {d} : user'[p][e] = user[p][e]
        /\ \A s \in BOOLEAN : Kind(user'[p][d], s) = Kind(user[p][d], s) - One(s = strong)
    BY <1>2, <1>4, <2>1 DEF Kind, One
  <2>4. \A s \in BOOLEAN :
          Kind(user[p][d], s) + Cardinality(Handed(buf, p, n, s, d))
            = Kind(user'[p][d], s) + Cardinality(Handed(buf', p, n, s, d)) + One(s = strong)
    <3>1. \A s \in BOOLEAN : Cardinality(Handed(buf, p, n, s, d)) \in Nat
      BY HandedFinite, FS_CardinalityType
    <3>2. \A s \in BOOLEAN : Kind(user[p][d], s) \in Nat /\ One(s = strong) \in Nat
      BY <1>4, OneIs DEF Kind
    <3>. QED
      BY <1>2, <2>3, <3>1, <3>2
  <2>5. \A m \in Nodes, s \in BOOLEAN, e \in Handles \cup {NIL} :
          Handed(buf', p, m, s, e) = Handed(buf, p, m, s, e)
    BY <1>2
  <2>6. user' \in [Procs -> [Handles -> [s: Nat, w: Nat]]]
    BY DEF Held, TypeOK
  <2>. QED
    BY <1>1, <1>3, <2>2, <2>3, <2>4, <2>5, <2>6, LessMatched
<1>. QED
  BY <1>2, <1>5, <1>6, SameHands, OthersExactly

\* A handle of the target's more in the buffer that is being filled.
LEMMA CarryExactly ==
    ASSUME Held, Exactly, NEW h \in Threads, MoreObjs(h), NEW n \in Nodes, NEW strong \in BOOLEAN,
           NEW q, q = Target(h), NEW nd, NEW list, IncRef(q, n, nd, strong, list),
           NEW o, o = [type |-> "handle", strong |-> strong, node |-> n,
                       desc |-> RefFor(q, n).desc],
           Carry(o), user' = user, unsure \subseteq unsure',
           IncRefused(q, n, nd, strong, list) => q \in unsure'
    PROVE  Exactly'
<1>. DEFINE b == busy.buf
            k == Len(buf[b].objs) + 1
<1>1. /\ b \in Bufs /\ buf[b].st = "filling" /\ Len(buf[b].objs) < MaxObjs /\ q \in Procs
      /\ buf[b].proc = q /\ busy.buf = b
  BY SendingIs DEF MoreObjs, Target, Held, TypeOK
<1>2. PICK r : r = RefFor(q, n)
  OBVIOUS
<1>3. r.desc \in Handles /\ r.desc # NIL
  BY <1>1, <1>2, RefForIs DEF Held
<1>4. o \in Obj /\ o.type = "handle" /\ o.node = n /\ o.strong = strong /\ o.desc = r.desc
  BY <1>2, <1>3 DEF Obj
<1>. HIDE DEF b
<1>5. \A p, m, s, e :
        /\ <<b, k>> \notin Handed(buf, p, m, s, e)
        /\ Handed(buf', p, m, s, e) =
             IF /\ o.type = "handle" /\ p = buf[b].proc /\ m = o.node
                /\ s = o.strong /\ e = o.desc
             THEN Handed(buf, p, m, s, e) \cup {<<b, k>>}
             ELSE Handed(buf, p, m, s, e)
  BY <1>1, <1>4, CarryHands
<1>. HIDE DEF k
<1>6. \A p, m, s, e :
        p # q \/ m # n \/ s # strong \/ e # r.desc =>
           Handed(buf', p, m, s, e) = Handed(buf, p, m, s, e)
  BY <1>1, <1>4, <1>5
<1>7. /\ Handed(buf', q, n, strong, r.desc) = Handed(buf, q, n, strong, r.desc) \cup {<<b, k>>}
      /\ <<b, k>> \notin Handed(buf, q, n, strong, r.desc)
  BY <1>1, <1>4, <1>5
<1>8. \A s \in BOOLEAN :
        Cardinality(Handed(buf', q, n, s, r.desc))
          = Cardinality(Handed(buf, q, n, s, r.desc)) + One(s = strong)
  <2>1. Cardinality(Handed(buf', q, n, strong, r.desc))
          = Cardinality(Handed(buf, q, n, strong, r.desc)) + 1
    <3>1. IsFiniteSet(Handed(buf, q, n, strong, r.desc))
      BY HandedFinite
    <3>. QED
      BY <1>7, <3>1, CardIs
  <2>2. \A s \in BOOLEAN : Cardinality(Handed(buf, q, n, s, r.desc)) \in Nat
    BY HandedFinite, FS_CardinalityType
  <2>3. \A s \in BOOLEAN : s # strong => Handed(buf', q, n, s, r.desc) = Handed(buf, q, n, s, r.desc)
    BY <1>6
  <2>. QED
    BY <2>1, <2>2, <2>3 DEF One
<1>9. Others(q)
  <2>1. ref \in [Procs -> [Nodes -> Ref]]
    BY DEF Held, TypeOK
  <2>2. PICK r2 : ref' = [ref EXCEPT ![q][n] = r2]
    BY DEF IncRef
  <2>. QED
    BY <2>1, <2>2 DEF Others
<1>10. \A p \in Procs \ {q} : HandsKept(p)
  BY <1>6 DEF HandsKept
<1>11. ASSUME q \in Careful \ unsure' PROVE Matched(q, ref'[q], user'[q], buf')
  <2>1. ~IncRefused(q, n, nd, strong, list) /\ q \in Careful \ unsure
    BY <1>11
  <2>2. Matched(q, ref[q], user[q], buf)
    BY <2>1 DEF Exactly
  <2>3. ref' = [ref EXCEPT ![q][n] = Raised(r, strong)]
    BY <1>2, <2>1 DEF IncRef, Raised
  <2>4. \A s \in BOOLEAN :
          Kind(user'[q][r.desc], s) + Cardinality(Handed(buf', q, n, s, r.desc))
            = Kind(user[q][r.desc], s) + Cardinality(Handed(buf, q, n, s, r.desc)) + One(s = strong)
    <3>1. \A s \in BOOLEAN : Cardinality(Handed(buf, q, n, s, r.desc)) \in Nat
      BY HandedFinite, FS_CardinalityType
    <3>2. \A s \in BOOLEAN : Kind(user[q][r.desc], s) \in Nat /\ One(s = strong) \in Nat
      BY <1>1, <1>3, OneIs DEF Kind, Held, TypeOK
    <3>. QED
      BY <1>8, <3>1, <3>2
  <2>5. \A e \in Handles \ {r.desc} : user'[q][e] = user[q][e]
    OBVIOUS
  <2>6. \A m \in Nodes, s \in BOOLEAN, e \in Handles \cup {NIL} :
          m # n \/ e # r.desc => Handed(buf', q, m, s, e) = Handed(buf, q, m, s, e)
    BY <1>6
  <2>. QED
    <3>1. Gains(q, n, strong, r.desc)
      BY <2>4, <2>5, <2>6 DEF Gains
    <3>. QED
      BY <1>1, <1>2, <2>2, <2>3, <3>1, MoreMatched
<1>. QED
  BY <1>9, <1>10, <1>11, OthersExactly

LEMMA SendBinderExactly ==
    ASSUME Held, Exactly, NEW h \in Threads, NEW n \in Nodes, NEW strong \in BOOLEAN,
           SendBinder(h, n, strong)
    PROVE  Exactly'
<1>. DEFINE q == Target(h)
            nd == IF node[n].st = "none" THEN NewNode ELSE node[n]
            o == [type |-> "handle", strong |-> strong, node |-> n, desc |-> RefFor(q, n).desc]
<1>1. /\ MoreObjs(h) /\ IncRef(q, n, nd, strong, h) /\ Carry(o) /\ user' = user /\ unsure' = unsure
  BY DEF SendBinder
<1>2. ~IncRefused(q, n, nd, strong, h)
  BY RefsNil DEF IncRefused, StrongRefused, WeakRefused
<1>. HIDE DEF nd
<1>. QED
  BY <1>1, <1>2, CarryExactly

LEMMA SendHandleExactly ==
    ASSUME Held, Exactly, NEW h \in Threads, NEW n \in Nodes, NEW strong \in BOOLEAN,
           SendHandle(h, n, strong)
    PROVE  Exactly'
<1>. DEFINE b == busy.buf
            q == Target(h)
            home == node[n].st = "live" /\ Owner[n] = q
            o == [type |-> "binder", strong |-> strong, node |-> n, desc |-> NIL]
            e == [type |-> "handle", strong |-> strong, node |-> n, desc |-> RefFor(q, n).desc]
<1>1. /\ MoreObjs(h) /\ user' = user
      /\ home => Carry(o) /\ UNCHANGED <<ref, unsure>>
      /\ ~home => /\ IncRef(q, n, node[n], strong, NIL) /\ Carry(e)
                  /\ NotSure(q, IncRefused(q, n, node[n], strong, NIL))
  BY DEF SendHandle
<1>2. CASE home
  <2>1. b \in Bufs /\ buf[b].st = "filling" /\ Len(buf[b].objs) < MaxObjs /\ busy.buf = b
    BY <1>1, SendingIs DEF MoreObjs
  <2>2. o \in Obj /\ o.type # "handle"
    BY DEF Obj
  <2>3. Carry(o) /\ UNCHANGED <<ref, unsure>>
    BY <1>1, <1>2
  <2>. HIDE DEF b, o, home
  <2>4. \A p, m, s, d : Handed(buf', p, m, s, d) = Handed(buf, p, m, s, d)
    <3>1. \A p, m, s, d :
            /\ <<b, Len(buf[b].objs) + 1>> \notin Handed(buf, p, m, s, d)
            /\ Handed(buf', p, m, s, d) =
                 IF /\ o.type = "handle" /\ p = buf[b].proc /\ m = o.node
                    /\ s = o.strong /\ d = o.desc
                 THEN Handed(buf, p, m, s, d) \cup {<<b, Len(buf[b].objs) + 1>>}
                 ELSE Handed(buf, p, m, s, d)
      BY <2>1, <2>2, <2>3, CarryHands
    <3>. QED
      BY <2>2, <3>1
  <2>5. \A p \in Procs : HandsKept(p)
    BY <2>4 DEF HandsKept
  <2>. QED
    BY <1>1, <2>3, <2>5, NoneExactly
<1>3. CASE ~home
  <2>1. /\ IncRef(q, n, node[n], strong, NIL) /\ Carry(e)
        /\ NotSure(q, IncRefused(q, n, node[n], strong, NIL))
    BY <1>1, <1>3
  <2>2. unsure \subseteq unsure' /\ (IncRefused(q, n, node[n], strong, NIL) => q \in unsure')
    BY <2>1 DEF NotSure
  <2>. HIDE DEF home, b, o
  <2>. QED
    BY <1>1, <2>1, <2>2, CarryExactly
<1>. QED
  BY <1>2, <1>3

\* One object of the buffer that is being released: the handle is still the one
\* its node has, so what goes is what it counted.
LEMMA ReleaseObjectExactly ==
    ASSUME Held, Exactly, ReleaseObject
    PROVE  Exactly'
<1>. DEFINE b == busy.buf
            i == buf[b].next
            o == buf[b].objs[i]
            q == buf[b].proc
<1>1. /\ Releasing /\ i <= Len(buf[b].objs) /\ Passed(b) /\ user' = user /\ unsure' = unsure
      /\ o.type = "handle" =>
           IF Named(q, o.desc) = {} THEN UNCHANGED <<node, ref>>
           ELSE \E n \in Named(q, o.desc) : DecRef(q, n, o.strong)
      /\ o.type # "handle" => ref' = ref
  BY DEF ReleaseObject, Passed
<1>2. b \in Bufs /\ buf[b].st = "releasing" /\ Fits(buf[b], alive) /\ buf[b] \in Buf
  BY <1>1, ReleasingIs
<1>3. q \in Procs /\ (o.type # "binder" => o.desc # NIL)
  <2>1. i \in 1..Len(buf[b].objs)
    BY <1>1, <1>2 DEF Fits, Buf
  <2>2. q \in alive /\ alive \subseteq Procs
    BY <1>2 DEF Fits, Held, TypeOK
  <2>. HIDE DEF i
  <2>. QED
    BY <1>2, <2>1, <2>2 DEF Fits
<1>. HIDE DEF b
<1>4. /\ i \in 1..MaxObjs /\ o \in Obj
      /\ \A p, m, s, e :
           LET is == /\ o.type = "handle" /\ p = buf[b].proc /\ m = o.node
                     /\ s = o.strong /\ e = o.desc IN
           /\ is => <<b, i>> \in Handed(buf, p, m, s, e)
           /\ Handed(buf', p, m, s, e) =
                IF is THEN Handed(buf, p, m, s, e) \ {<<b, i>>} ELSE Handed(buf, p, m, s, e)
  BY <1>1, <1>2, NextHands
<1>. HIDE DEF i, o
<1>5. CASE o.type # "handle"
  <2>1. \A p, m, s, e : Handed(buf', p, m, s, e) = Handed(buf, p, m, s, e)
    BY <1>4, <1>5
  <2>2. \A p \in Procs : HandsKept(p)
    BY <2>1 DEF HandsKept
  <2>. QED
    BY <1>1, <1>5, <2>2, NoneExactly
<1>6. CASE o.type = "handle"
  <2>. DEFINE n == o.node
              d == o.desc
              strong == o.strong
  <2>1. n \in Nodes /\ d \in Handles /\ d # NIL /\ strong \in BOOLEAN
    BY <1>3, <1>4, <1>6 DEF Obj
  <2>2. /\ <<b, i>> \in Handed(buf, q, n, strong, d)
        /\ Handed(buf', q, n, strong, d) = Handed(buf, q, n, strong, d) \ {<<b, i>>}
        /\ \A p, m, s, e : p # q \/ m # n \/ s # strong \/ e # d =>
             Handed(buf', p, m, s, e) = Handed(buf, p, m, s, e)
    BY <1>4, <1>6
  <2>. HIDE DEF n, d, strong
  <2>3. ref' = ref \/ \E m \in Named(q, d) : \E r2 : ref' = [ref EXCEPT ![q][m] = r2]
    BY <1>1, <1>6 DEF DecRef, d
  <2>4. Others(q)
    <3>1. ref \in [Procs -> [Nodes -> Ref]]
      BY DEF Held, TypeOK
    <3>2. \A p \in Procs \ {q} : ref'[p] = ref[p]
      BY <2>3, <3>1
    <3>. QED
      BY <1>1, <3>2 DEF Others
  <2>5. \A p \in Procs \ {q} : HandsKept(p)
    BY <2>2 DEF HandsKept
  <2>6. ASSUME q \in Careful \ unsure' PROVE Matched(q, ref'[q], user'[q], buf')
    <3>1. Matched(q, ref[q], user[q], buf)
      BY <1>1, <2>6 DEF Exactly
    <3>2. ref[q][n].desc = d
      BY <2>1, <2>2, <3>1 DEF Matched
    <3>3. Named(q, d) = {n}
      BY <2>1, <3>1, <3>2 DEF Matched, Named
    <3>4. DecRef(q, n, strong)
      BY <1>1, <1>6, <3>3 DEF d, strong
    <3>5. \A s \in BOOLEAN :
            Kind(user[q][d], s) + Cardinality(Handed(buf, q, n, s, d))
              = Kind(user'[q][d], s) + Cardinality(Handed(buf', q, n, s, d)) + One(s = strong)
      <4>1. Cardinality(Handed(buf', q, n, strong, d))
              = Cardinality(Handed(buf, q, n, strong, d)) - 1
        <5>1. IsFiniteSet(Handed(buf, q, n, strong, d))
          BY HandedFinite
        <5>. QED
          BY <2>2, <5>1, CardIs
      <4>2. \A s \in BOOLEAN : Cardinality(Handed(buf, q, n, s, d)) \in Nat
        BY HandedFinite, FS_CardinalityType
      <4>3. \A s \in BOOLEAN : s # strong => Handed(buf', q, n, s, d) = Handed(buf, q, n, s, d)
        BY <2>2
      <4>4. \A s \in BOOLEAN : Kind(user[q][d], s) \in Nat
        BY <1>3, <2>1 DEF Kind, Held, TypeOK
      <4>5. user'[q] = user[q]
        BY <1>1
      <4>. QED
        BY <2>1, <4>1, <4>2, <4>3, <4>4, <4>5 DEF One
    <3>6. \A m \in Nodes, s \in BOOLEAN, e \in Handles \cup {NIL} :
            m # n \/ e # d => Handed(buf', q, m, s, e) = Handed(buf, q, m, s, e)
      BY <2>2
    <3>7. /\ \A e \in Handles \ {d} : user'[q][e] = user[q][e]
          /\ user' \in [Procs -> [Handles -> [s: Nat, w: Nat]]]
      BY <1>1 DEF Held, TypeOK
    <3>. HIDE DEF q
    <3>. QED
      BY <1>3, <2>1, <3>1, <3>2, <3>4, <3>5, <3>6, <3>7, LessMatched
  <2>. QED
    BY <1>1, <2>4, <2>5, <2>6, OthersExactly
<1>. QED
  BY <1>5, <1>6

\* The references of a process that ends go with its buffers and its increments.
LEMMA ReleaseExactly ==
    ASSUME Held, Exactly, NEW p \in Procs, Release(p)
    PROVE  Exactly'
<1>1. /\ ref' = [ref EXCEPT ![p] = [n \in Nodes |-> NoRef]]
      /\ buf' = [b \in Bufs |-> IF buf[b].proc = p THEN NoBuf ELSE buf[b]]
      /\ user' = [user EXCEPT ![p] = [d \in Handles |-> [s |-> 0, w |-> 0]]]
      /\ unsure' = unsure
  BY DEF Release
<1>2. /\ Others(p) /\ ref'[p] = [n \in Nodes |-> NoRef]
      /\ user'[p] = [d \in Handles |-> [s |-> 0, w |-> 0]]
  BY <1>1 DEF Others, Held, TypeOK
<1>3. \A i, q, n, strong, d : ~Bears(NoBuf, i, q, n, strong, d)
  BY NoBufIs DEF Bears
<1>4. \A q \in Procs \ {p} : HandsKept(q)
  <2>1. ASSUME NEW q \in Procs \ {p}, NEW n \in Nodes, NEW strong \in BOOLEAN,
               NEW d \in Handles \cup {NIL}
        PROVE  Handed(buf', q, n, strong, d) = Handed(buf, q, n, strong, d)
    <3>1. \A c \in Bufs, i \in 1..MaxObjs :
            Bears(buf'[c], i, q, n, strong, d) <=> Bears(buf[c], i, q, n, strong, d)
      <4>1. ASSUME NEW c \in Bufs, NEW i \in 1..MaxObjs, buf[c].proc = p
            PROVE  ~Bears(buf'[c], i, q, n, strong, d) /\ ~Bears(buf[c], i, q, n, strong, d)
        <5>1. buf'[c] = NoBuf
          BY <1>1, <4>1
        <5>. QED
          BY <1>3, <4>1, <5>1 DEF Bears
      <4>2. \A c \in Bufs : buf[c].proc # p => buf'[c] = buf[c]
        BY <1>1
      <4>. QED
        BY <4>1, <4>2
    <3>. QED
      BY <3>1, HandedSame
  <2>. QED
    BY <2>1 DEF HandsKept
<1>5. \A n \in Nodes, strong \in BOOLEAN, d \in Handles \cup {NIL} :
        Handed(buf', p, n, strong, d) = {}
  <2>1. ASSUME NEW n, NEW strong, NEW d, NEW c \in Bufs, NEW i
        PROVE  ~Bears(buf'[c], i, p, n, strong, d)
    <3>1. CASE buf[c].proc = p
      BY <1>1, <1>3, <3>1
    <3>2. CASE buf[c].proc # p
      BY <1>1, <3>2 DEF Bears
    <3>. QED
      BY <3>1, <3>2
  <2>. QED
    BY <2>1 DEF Handed
<1>6. Matched(p, ref'[p], user'[p], buf')
  <2>1. \A n \in Nodes : ref'[p][n].desc = NIL
    BY <1>2 DEF NoRef
  <2>2. \A d \in Handles : user'[p][d].s = 0 /\ user'[p][d].w = 0
    BY <1>2
  <2>. QED
    BY <1>5, <2>1, <2>2 DEF Matched
<1>. QED
  BY <1>1, <1>2, <1>4, <1>6, OthersExactly

LEMMA ExactlyInit == Init => Exactly
<1>. SUFFICES ASSUME Init PROVE Exactly
  OBVIOUS
<1>1. ASSUME NEW p \in Careful PROVE Matched(p, ref[p], user[p], buf)
  <2>0. p \in Procs
    BY RefsSubsets
  <2>1. \A n \in Nodes : ref[p][n].desc = NIL
    BY <2>0 DEF Init, NoRef
  <2>2. \A d \in Handles : user[p][d].s = 0 /\ user[p][d].w = 0
    BY <2>0 DEF Init
  <2>3. \A n, strong, d, i : \A c \in Bufs : ~Bears(buf[c], i, p, n, strong, d)
    BY NoBufIs DEF Init, Bears
  <2>4. \A n \in Nodes, strong \in BOOLEAN, d \in Handles \cup {NIL} :
          Handed(buf, p, n, strong, d) = {}
    BY <2>3 DEF Handed
  <2>. QED
    BY <2>1, <2>2, <2>4 DEF Matched
<1>. QED
  BY <1>1 DEF Exactly

\* The release of a buffer begins: its objects are all still there.
LEMMA ReleaseStartExactly ==
    ASSUME Held, Exactly, NEW b \in Bufs, NEW ns, ReleaseStart(b, ns),
           UNCHANGED <<ref, user, unsure>>
    PROVE  Exactly'
<1>. DEFINE k == [buf[b] EXCEPT !.st = "releasing", !.target = NIL]
<1>1. buf \in [Bufs -> Buf]
  BY DEF Held, TypeOK
<1>2. k.objs = buf[b].objs /\ k.next = buf[b].next /\ k.proc = buf[b].proc
  BY <1>1 DEF Buf
<1>3. buf' = [buf EXCEPT ![b] = k]
  BY <1>1 DEF ReleaseStart
<1>. HIDE DEF k
<1>4. \A p : HandsKept(p)
  BY <1>2, <1>3, StillHands
<1>. QED
  BY <1>4, NoneExactly

LEMMA SendStartExactly ==
    ASSUME Held, Exactly, NEW h \in Threads, NEW q \in Procs, NEW n \in Nodes \cup {NIL},
           NEW b \in Bufs, SendStart(h, q, n, b)
    PROVE  Exactly'
<1>. DEFINE k == [NoBuf EXCEPT !.st = "filling", !.proc = q, !.target = n]
<1>1. buf' = [buf EXCEPT ![b] = k] /\ buf[b].st = "free" /\ UNCHANGED <<ref, user, unsure>>
  BY DEF SendStart
<1>2. buf[b] = NoBuf
  BY <1>1 DEF Held, Fits
<1>3. k.next..Len(k.objs) = {} /\ buf[b].next..Len(buf[b].objs) = {}
  <2>1. k.next = 1 /\ k.objs = <<>>
    BY NoBufIs DEF Buf
  <2>. HIDE DEF k
  <2>. QED
    BY <1>2, <2>1, NoBufIs
<1>. HIDE DEF k
<1>4. \A p : HandsKept(p)
  BY <1>1, <1>3, StillHands
<1>. QED
  BY <1>1, <1>4, NoneExactly

LEMMA SendDoneExactly ==
    ASSUME Held, Exactly, NEW h \in Threads, SendDone(h)
    PROVE  Exactly'
<1>. DEFINE b == busy.buf
            k == [buf[b] EXCEPT !.st = "held"]
<1>1. Sending(h) /\ buf' = [buf EXCEPT ![b].st = "held"] /\ UNCHANGED <<ref, user, unsure>>
  BY DEF SendDone
<1>2. b \in Bufs /\ buf \in [Bufs -> Buf]
  BY <1>1, SendingIs DEF Held, TypeOK
<1>3. k.objs = buf[b].objs /\ k.next = buf[b].next /\ k.proc = buf[b].proc
  BY <1>2 DEF Buf
<1>4. buf' = [buf EXCEPT ![b] = k]
  BY <1>1
<1>. HIDE DEF k, b
<1>5. \A p : HandsKept(p)
  BY <1>2, <1>3, <1>4, StillHands
<1>. QED
  BY <1>1, <1>5, NoneExactly

LEMMA ReleaseDoneExactly ==
    ASSUME Held, Exactly, ReleaseDone
    PROVE  Exactly'
<1>. DEFINE b == busy.buf
<1>1. /\ Releasing /\ buf[b].next > Len(buf[b].objs) /\ buf' = [buf EXCEPT ![b] = NoBuf]
      /\ UNCHANGED <<ref, user, unsure>>
  BY DEF ReleaseDone
<1>2. b \in Bufs /\ buf[b] \in Buf
  BY <1>1, ReleasingIs
<1>3. NoBuf.next..Len(NoBuf.objs) = {} /\ buf[b].next..Len(buf[b].objs) = {}
  BY <1>1, <1>2, NoBufIs DEF Buf
<1>. HIDE DEF b
<1>4. \A p : HandsKept(p)
  BY <1>1, <1>2, <1>3, StillHands
<1>. QED
  BY <1>1, <1>4, NoneExactly

LEMMA ExactlyNext == Held /\ Held' /\ Exactly /\ [Next]_vars => Exactly'
<1>. SUFFICES ASSUME Held, Held', Exactly, [Next]_vars PROVE Exactly'
  OBVIOUS
<1>0. ASSUME UNCHANGED <<ref, user, unsure, buf>> PROVE Exactly'
  BY <1>0, SameHands, NoneExactly
<1>1. ASSUME NEW p \in Procs, Count(p) PROVE Exactly'
  BY <1>1, IncExactly, DecExactly DEF Count
<1>2. ASSUME NEW p \in Procs, Release(p) PROVE Exactly'
  BY <1>2, ReleaseExactly
<1>3. ASSUME NEW n \in Nodes, NEW strong \in BOOLEAN, Done(n, strong) PROVE Exactly'
  BY <1>0, <1>3 DEF Done
<1>4. ASSUME NEW n \in Nodes, SetContextMgr(n) PROVE Exactly'
  BY <1>0, <1>4 DEF SetContextMgr
<1>5. ASSUME NEW h \in Threads, SendFails(h) PROVE Exactly'
  <2>1. Sending(h) /\ UNCHANGED <<ref, user, unsure>> /\ \E ns : ReleaseStart(busy.buf, ns)
    BY <1>5 DEF SendFails
  <2>2. busy.buf \in Bufs
    BY <2>1, SendingIs
  <2>. QED
    BY <2>1, <2>2, ReleaseStartExactly
<1>6. ASSUME NEW h \in Threads, Send(h) PROVE Exactly'
  BY <1>5, <1>6, SendStartExactly, SendBinderExactly, SendHandleExactly, SendDoneExactly DEF Send
<1>7. ASSUME NEW h \in Threads, ThreadExit(h) PROVE Exactly'
  BY <1>0, <1>7 DEF ThreadExit
<1>8. ASSUME NEW h \in Threads, NEW b \in Bufs, FreeBuffer(h, b) PROVE Exactly'
  BY <1>8, ReleaseStartExactly DEF FreeBuffer
<1>9. ASSUME NEW h \in Threads, NEW n \in Nodes, ReadNode(h, n) PROVE Exactly'
  BY <1>0, <1>9 DEF ReadNode
<1>10. CASE ReleaseObject
  BY <1>10, ReleaseObjectExactly
<1>11. CASE ReleaseDone
  BY <1>11, ReleaseDoneExactly
<1>12. CASE UNCHANGED vars
  BY <1>0, <1>12 DEF vars
<1>. QED
  BY <1>1, <1>2, <1>3, <1>4, <1>6, <1>7, <1>8, <1>9, <1>10, <1>11, <1>12 DEF Next

\* The handles of a careful process mean what they should, whatever the others do.
LEMMA ExactlyAlways == Spec => []Exactly
BY HeldAlways, HeldNext, ExactlyInit, ExactlyNext, PTL DEF Spec

\* The handles of p for n that count are those of the handle that p has for it.
LEMMA InBuffersIs ==
    ASSUME NEW p \in Procs, TypeOK, NEW n \in Nodes, NEW strong \in BOOLEAN,
           \A d \in Handles \cup {NIL} : d # ref[p][n].desc => Handed(buf, p, n, strong, d) = {}
    PROVE  InBuffers(p, n, strong) = Handed(buf, p, n, strong, ref[p][n].desc)
<1>. DEFINE e == ref[p][n].desc
<1>1. ASSUME NEW x \in InBuffers(p, n, strong) PROVE x \in Handed(buf, p, n, strong, e)
  <2>1. /\ x \in Bufs \X (1..MaxObjs) /\ x[1] \in Bufs
        /\ x[2] \in buf[x[1]].next..Len(buf[x[1]].objs)
        /\ buf[x[1]].proc = p /\ ObjAt(x).type = "handle" /\ ObjAt(x).node = n
        /\ ObjAt(x).strong = strong
    BY <1>1 DEF InBuffers, Carried
  <2>2. ObjAt(x).desc \in Handles \cup {NIL}
    <3>1. buf[x[1]] \in Buf
      BY <2>1 DEF TypeOK
    <3>2. x[2] \in 1..Len(buf[x[1]].objs)
      <4>1. buf[x[1]].next \in Nat /\ Len(buf[x[1]].objs) \in Nat /\ x[2] \in 1..MaxObjs
        BY <2>1, <3>1 DEF Buf
      <4>. QED
        BY <2>1, <4>1
    <3>3. buf[x[1]].objs \in Seq(Obj)
      BY <3>1 DEF Buf
    <3>4. ObjAt(x) \in Obj
      BY <3>2, <3>3 DEF ObjAt
    <3>. QED
      BY <3>4 DEF Obj
  <2>3. x \in Handed(buf, p, n, strong, ObjAt(x).desc)
    BY <2>1 DEF Handed, Bears, ObjAt
  <2>. QED
    BY <2>2, <2>3
<1>2. ASSUME NEW x \in Handed(buf, p, n, strong, e) PROVE x \in InBuffers(p, n, strong)
  BY <1>2 DEF Handed, Bears, InBuffers, Carried, ObjAt
<1>. QED
  BY <1>1, <1>2

\* Where everyone lets go only of what he holds, a handle means one thing.
THEOREM HandlesAlwaysExact == ASSUME Careful = Procs PROVE Spec => []HandlesExact
<1>1. ASSUME Careful = Procs, Held, Exactly PROVE HandlesExact
  <2>1. ASSUME NEW p \in Procs \ unsure, NEW n \in Nodes, NEW r, r = ref[p][n]
        PROVE  /\ r.desc = NIL => InBuffers(p, n, TRUE) = {} /\ InBuffers(p, n, FALSE) = {}
               /\ r.desc # NIL =>
                    /\ r.s = user[p][r.desc].s + Cardinality(InBuffers(p, n, TRUE))
                    /\ r.w = user[p][r.desc].w + Cardinality(InBuffers(p, n, FALSE))
                    /\ \A x \in InBuffers(p, n, TRUE) \cup InBuffers(p, n, FALSE) :
                         ObjAt(x).desc = r.desc
                    /\ \A m \in Nodes \ {n} : ref[p][m].desc # r.desc
                    /\ r.s + r.w > 0
    <3>1. Matched(p, ref[p], user[p], buf)
      BY <1>1 DEF Exactly
    <3>2. \A strong \in BOOLEAN : InBuffers(p, n, strong) = Handed(buf, p, n, strong, r.desc)
      <4>1. ASSUME NEW strong \in BOOLEAN
            PROVE  InBuffers(p, n, strong) = Handed(buf, p, n, strong, r.desc)
        <5>1. \A d \in Handles \cup {NIL} :
                d # ref[p][n].desc => Handed(buf, p, n, strong, d) = {}
          BY <3>1 DEF Matched
        <5>. QED
          BY <1>1, <2>1, <5>1, InBuffersIs DEF Held
      <4>. QED
        BY <4>1
    <3>3. /\ InBuffers(p, n, TRUE) = Handed(buf, p, n, TRUE, r.desc)
          /\ InBuffers(p, n, FALSE) = Handed(buf, p, n, FALSE, r.desc)
      BY <3>2
    <3>4. CASE r.desc = NIL
      <4>1. /\ Handed(buf, p, n, TRUE, r.desc) = {} /\ Handed(buf, p, n, FALSE, r.desc) = {}
        BY <3>1, <3>4 DEF Matched
      <4>. QED
        BY <3>3, <3>4, <4>1
    <3>5. CASE r.desc # NIL
      <4>1. /\ \A strong \in BOOLEAN :
                 Kind(r, strong) = Kind(user[p][r.desc], strong)
                                     + Cardinality(Handed(buf, p, n, strong, r.desc))
            /\ r.s + r.w > 0
            /\ \A m \in Nodes \ {n} : ref[p][m].desc # r.desc
        BY <2>1, <3>1, <3>5 DEF Matched
      <4>2. /\ r.s = user[p][r.desc].s + Cardinality(Handed(buf, p, n, TRUE, r.desc))
            /\ r.w = user[p][r.desc].w + Cardinality(Handed(buf, p, n, FALSE, r.desc))
        BY <4>1 DEF Kind
      <4>3. \A strong \in BOOLEAN : \A x \in Handed(buf, p, n, strong, r.desc) :
              ObjAt(x).desc = r.desc
        BY DEF Handed, Bears, ObjAt
      <4>. QED
        BY <3>3, <3>5, <4>1, <4>2, <4>3
    <3>. QED
      BY <3>4, <3>5
  <2>. QED
    BY <2>1 DEF HandlesExact
<1>. QED
  BY <1>1, HeldAlways, ExactlyAlways, PTL
===================================================================================
