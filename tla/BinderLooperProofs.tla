-------------------------- MODULE BinderLooperProofs --------------------------
(***************************************************************************)
(* Proofs about the threads of a process for any number of threads, calls  *)
(* and limits: ready_threads counts exactly the threads that wait for work *)
(* of the process, one thread at most is on its way, and no wake-up is     *)
(* lost.                                                                   *)
(***************************************************************************)
EXTENDS BinderLooper, FiniteSetTheorems, TLAPS

-------------------------------------------------------------------------------
(* Waking and counting *)

\* The threads inside a read that wait for work of the process.
Waiters == {t \in Threads: InRead(t) /\ forProc[t]}

\* The inductive invariant.  WantsThread needs the exact count, and the bound on
\* the threads started needs the limit in force to be no larger than the largest.
IInv == TypeOK /\ ReadyExact /\ SpawnBound /\ maxThreads <= top /\ NoLostWakeup

\* A wake-up moves at most one sleeper, and one if there is any.
LEMMA WakeOneIs ==
    ASSUME NEW p \in [Threads -> Places], NEW q \in WakeOne(p)
    PROVE  /\ q \in [Threads -> Places]
           /\ \A u \in Threads: \/ q[u] = p[u]
                                \/ p[u] = "sleep" /\ q[u] = "woken"
           /\ Sleepers(p) # {} => \E u \in Threads: q[u] = "woken" /\ forProc[u]
<1>1. CASE Sleepers(p) = {}
  BY <1>1 DEF WakeOne
<1>2. CASE Sleepers(p) # {}
  <2>1. PICK t \in Sleepers(p): q = [p EXCEPT ![t] = "woken"]
    BY <1>2 DEF WakeOne
  <2>2. t \in Threads /\ p[t] = "sleep" /\ forProc[t]
    BY <2>1 DEF Sleepers
  <2>. QED
    BY <2>1, <2>2 DEF Places, Reading
<1>. QED
  BY <1>1, <1>2

LEMMA WaitersFinite == IsFiniteSet(Waiters) /\ Cardinality(Waiters) \in Nat
BY LooperFinite, FS_Subset, FS_CardinalityType DEF Waiters

\* What is left of ready_threads without t is the number of the other waiters.
LEMMA NotReadyIs ==
    ASSUME TypeOK, ReadyExact, NEW t \in Threads, InRead(t)
    PROVE  NotReady(t) \in Nat /\ NotReady(t) = Cardinality(Waiters \ {t})
<1>1. ready = Cardinality(Waiters)
  BY DEF ReadyExact, Waiters
<1>2. IsFiniteSet(Waiters \ {t})
      /\ Cardinality(Waiters \ {t})
           = IF t \in Waiters THEN Cardinality(Waiters) - 1 ELSE Cardinality(Waiters)
  BY WaitersFinite, FS_RemoveElement, Zenon
<1>3. Cardinality(Waiters \ {t}) \in Nat
  BY <1>2, FS_CardinalityType
<1>4. t \in Waiters <=> forProc[t]
  BY DEF Waiters
<1>. QED
  BY <1>1, <1>2, <1>3, <1>4 DEF NotReady

\* The step to the wait keeps the count exact.
LEMMA WaitCounts ==
    ASSUME TypeOK, NEW t \in Threads, NEW w \in BOOLEAN, NEW rd \in Nat,
           rd = Cardinality(Waiters \ {t}), Wait(t, w, rd)
    PROVE  /\ pc' \in [Threads -> Places] /\ looper' \in [Threads -> SUBSET Flags]
           /\ forProc' \in [Threads -> BOOLEAN]
           /\ ready' \in Nat /\ ReadyExact'
<1>1. /\ pc' \in [Threads -> Places] /\ looper' \in [Threads -> SUBSET Flags]
      /\ forProc' \in [Threads -> BOOLEAN]
      /\ ready' \in Nat
  BY DEF Wait, TypeOK, Places, Reading, Flags
<1>2. IsFiniteSet(Waiters \ {t})
  BY WaitersFinite, FS_RemoveElement, Zenon
<1>3. \A u \in Threads \ {t}: u \in Waiters' <=> u \in Waiters
  BY DEF Wait, TypeOK, Waiters, InRead
<1>4. t \in Waiters' <=> w
  BY DEF Wait, TypeOK, Waiters, InRead, Reading
<1>5. Waiters' \subseteq Threads /\ Waiters \subseteq Threads
  BY DEF Waiters
<1>6. CASE w
  <2>1. Waiters' = (Waiters \ {t}) \cup {t}
    BY <1>3, <1>4, <1>5, <1>6
  <2>2. Cardinality((Waiters \ {t}) \cup {t}) = Cardinality(Waiters \ {t}) + 1
    <3>1. t \notin Waiters \ {t}
      OBVIOUS
    <3>. QED
      BY <1>2, <3>1, FS_AddElement
  <2>3. ready' = Cardinality(Waiters')
    BY <1>6, <2>1, <2>2 DEF Wait
  <2>. QED
    BY <1>1, <2>3 DEF ReadyExact, Waiters
<1>7. CASE ~w
  <2>1. Waiters' = Waiters \ {t}
    BY <1>3, <1>4, <1>5, <1>7
  <2>2. ready' = Cardinality(Waiters')
    BY <1>7, <2>1 DEF Wait
  <2>. QED
    BY <1>1, <2>2 DEF ReadyExact, Waiters
<1>. QED
  BY <1>6, <1>7

\* So does the end of a read, which also passes the wake-up on.
LEMMA LeaveCounts ==
    ASSUME TypeOK, ReadyExact, NEW t \in Threads, InRead(t),
           NEW p \in Places \ Reading, NEW rest, Leave(t, p, rest), forProc' = forProc
    PROVE  /\ pc' \in [Threads -> Places] /\ looper' \in [Threads -> SUBSET Flags]
           /\ ready' \in Nat /\ ReadyExact' /\ NoLostWakeup'
<1>. DEFINE pp == [pc EXCEPT ![t] = p]
<1>1. pp \in [Threads -> Places]
  BY DEF TypeOK
<1>2. (pc' = pp /\ rest = <<>>) \/ pc' \in WakeOne(pp)
  BY DEF Leave
<1>3. /\ pc' \in [Threads -> Places]
      /\ \A u \in Threads: \/ pc'[u] = pp[u]
                           \/ pp[u] = "sleep" /\ pc'[u] = "woken"
  BY ZenonT(60), <1>1, <1>2, WakeOneIs
<1>4. looper' \in [Threads -> SUBSET Flags] /\ todo' = rest /\ ready' = NotReady(t)
  BY DEF Leave, TypeOK
<1>5. Waiters' = Waiters \ {t}
  <2>1. \A u \in Threads: pc'[u] \in Reading <=> pp[u] \in Reading
    BY <1>3 DEF Reading
  <2>2. \A u \in Threads: pp[u] \in Reading <=> u # t /\ pc[u] \in Reading
    BY DEF TypeOK
  <2>. QED
    BY <2>1, <2>2 DEF Waiters, InRead
<1>6. ready' \in Nat /\ ReadyExact'
  BY <1>4, <1>5, NotReadyIs DEF ReadyExact, Waiters
<1>7. ASSUME todo' # <<>>, Sleepers(pc)' # {}
      PROVE  \E u \in Threads: Awake(u)'
  <2>1. pc' \in WakeOne(pp)
    BY <1>2, <1>4, <1>7
  <2>2. PICK v \in Threads: pc'[v] = "sleep" /\ forProc[v]
    BY <1>7 DEF Sleepers
  <2>3. pp[v] = "sleep"
    BY <1>3, <2>2
  <2>4. Sleepers(pp) # {}
    BY <2>2, <2>3 DEF Sleepers
  <2>5. PICK u \in Threads: pc'[u] = "woken" /\ forProc[u]
    BY <1>1, <2>1, <2>4, WakeOneIs
  <2>. QED
    BY <2>5 DEF Awake
<1>. QED
  BY <1>3, <1>4, <1>6, <1>7 DEF NoLostWakeup

\* A step outside the reads disturbs neither the count nor the wake-ups.
LEMMA Outside ==
    ASSUME ReadyExact, NoLostWakeup,
           forProc' = forProc, ready' = ready, todo' = todo,
           \A u \in Threads: pc'[u] = pc[u] \/ (pc[u] \notin Reading /\ pc'[u] \notin Reading)
    PROVE  ReadyExact' /\ NoLostWakeup'
<1>1. Waiters' = Waiters
  BY DEF Waiters, InRead
<1>2. Sleepers(pc)' = Sleepers(pc) /\ \A u \in Threads: Awake(u)' <=> Awake(u)
  BY DEF Sleepers, Awake, Reading
<1>. QED
  BY <1>1, <1>2 DEF ReadyExact, Waiters, NoLostWakeup

\* A new wait wakes nobody and sends nobody to sleep.
LEMMA WaitWakes ==
    ASSUME TypeOK, NoLostWakeup, NEW t \in Threads, NEW w \in BOOLEAN, NEW rd,
           Wait(t, w, rd), todo' = todo, pc[t] # "sleep", Awake(t) => todo = <<>>
    PROVE  NoLostWakeup'
<1>1. Sleepers(pc)' = Sleepers(pc)
  BY DEF Wait, Sleepers, TypeOK
<1>2. \A u \in Threads \ {t}: Awake(u)' <=> Awake(u)
  BY DEF Wait, Awake, TypeOK
<1>. QED
  BY <1>1, <1>2 DEF NoLostWakeup

-------------------------------------------------------------------------------
(* The invariant *)

LEMMA InitInv == Init => IInv
<1>. SUFFICES ASSUME Init PROVE IInv
  OBVIOUS
<1>1. TypeOK
  BY LooperMain DEF Init, TypeOK, Places
<1>2. ReadyExact
  <2>1. {t \in Threads: InRead(t) /\ forProc[t]} = {}
    BY DEF Init, InRead, Reading
  <2>. QED
    BY <2>1, FS_EmptySet DEF Init, ReadyExact
<1>. QED
  BY <1>1, <1>2 DEF Init, IInv, SpawnBound, NoLostWakeup

LEMMA StepInv == IInv /\ [Next]_vars => IInv'
<1>. SUFFICES ASSUME IInv, [Next]_vars PROVE IInv'
  OBVIOUS
<1>. USE DEF IInv
<1>1. ASSUME NEW t \in Threads, StartRead(t) PROVE IInv'
  <2>1. pc[t] = "user" /\ Wait(t, ForProcWork(t), ready) /\ ForProcWork(t) \in BOOLEAN
    BY <1>1 DEF StartRead, ForProcWork
  <2>2. ready \in Nat /\ ready = Cardinality(Waiters \ {t})
    <3>1. t \notin Waiters
      BY <2>1 DEF Waiters, InRead, Reading
    <3>2. Waiters \ {t} = Waiters
      BY <3>1
    <3>. QED
      BY <3>2 DEF ReadyExact, Waiters, TypeOK
  <2>3. /\ pc' \in [Threads -> Places] /\ looper' \in [Threads -> SUBSET Flags]
        /\ forProc' \in [Threads -> BOOLEAN] /\ ready' \in Nat /\ ReadyExact'
    BY <2>1, <2>2, WaitCounts
  <2>4. TypeOK'
    <3>1. frame' \in [Threads -> Threads \cup {NIL}]
      BY <1>1 DEF StartRead, TypeOK
    <3>. QED
      BY <1>1, <2>3, <3>1 DEF StartRead, TypeOK
  <2>5. NoLostWakeup'
    BY <1>1, <2>1, WaitWakes DEF StartRead, Awake
  <2>. QED
    BY <1>1, <2>3, <2>4, <2>5 DEF StartRead, SpawnBound
<1>2. ASSUME NEW t \in Threads, Test(t) PROVE IInv'
  <2>1. TypeOK'
    BY <1>2 DEF Test, TypeOK, counters, Places, Reading
  <2>2. Waiters' = Waiters
    BY <1>2 DEF Test, Waiters, InRead, Reading, TypeOK
  <2>3. ASSUME todo' # <<>>, Sleepers(pc)' # {} PROVE \E u \in Threads: Awake(u)'
    <3>1. CASE forProc[t]
      <4>1. pc' = [pc EXCEPT ![t] = "relock"]
        BY <1>2, <2>3, <3>1 DEF Test, Condition, HasProcWork
      <4>. QED
        BY <1>2, <3>1, <4>1 DEF Test, Awake, TypeOK
    <3>2. CASE ~forProc[t]
      <4>1. Sleepers(pc)' \subseteq Sleepers(pc)
        BY <1>2, <3>2 DEF Test, Sleepers, TypeOK
      <4>2. PICK u \in Threads: Awake(u)
        BY <1>2, <2>3, <4>1 DEF NoLostWakeup, Test
      <4>3. u # t
        BY <3>2, <4>2 DEF Awake
      <4>. QED
        BY <1>2, <4>2, <4>3 DEF Test, Awake, TypeOK
    <3>. QED
      BY <3>1, <3>2
  <2>. QED
    BY <1>2, <2>1, <2>2, <2>3 DEF Test, counters, ReadyExact, Waiters, NoLostWakeup, SpawnBound
<1>3. ASSUME NEW t \in Threads, FinishRead(t) PROVE IInv'
  <2>. DEFINE rest == IF Finds(t) = "proc" THEN Tail(todo) ELSE todo
              wants == WantsThread(t, NotReady(t))
              p == IF wants THEN IF outgoing[t] THEN "spawnNull" ELSE "spawn" ELSE "user"
  <2>1. pc[t] = "relock" /\ InRead(t)
    BY <1>3 DEF FinishRead, InRead, Reading
  <2>2. Leave(t, p, rest) /\ p \in Places \ Reading /\ forProc' = forProc
    BY <1>3 DEF FinishRead, Places, Reading, Spawning
  <2>3. /\ pc' \in [Threads -> Places] /\ looper' \in [Threads -> SUBSET Flags]
        /\ ready' \in Nat /\ ReadyExact' /\ NoLostWakeup'
    <3>. HIDE DEF p, rest
    <3>. QED
      BY <2>1, <2>2, LeaveCounts
  <2>4. todo' = rest /\ (Finds(t) = "proc" => todo # <<>>)
    BY <2>2 DEF Leave, Finds
  <2>5. todo' \in Seq(Calls) /\ (Finds(t) = "proc" => Head(todo) \in Calls)
    BY <2>4 DEF TypeOK
  <2>6. NotReady(t) \in Nat
    BY <2>1, NotReadyIs
  <2>7. TypeOK'
    <3>1. own' \in [Threads -> SUBSET {"COMPLETE", "REPLY"}]
          /\ outgoing' \in [Threads -> BOOLEAN]
      BY <1>3 DEF FinishRead, TypeOK
    <3>2. serving' \in [Threads -> Calls \cup {NIL}]
      BY <1>3, <2>5 DEF FinishRead, TypeOK
    <3>3. requested' \in Nat
      BY <1>3 DEF FinishRead, TypeOK
    <3>. QED
      BY <1>3, <2>3, <2>5, <3>1, <3>2, <3>3 DEF FinishRead, TypeOK
  <2>8. SpawnBound'
    <3>1. CASE wants
      <4>1. requested = 0 /\ started < maxThreads
        BY <2>6, <3>1 DEF WantsThread, TypeOK
      <4>2. requested' = 1 /\ started' = started /\ top' = top
        BY <1>3, <3>1, <4>1 DEF FinishRead
      <4>. QED
        BY <4>1, <4>2 DEF SpawnBound, TypeOK
    <3>2. CASE ~wants
      BY <1>3, <3>2 DEF FinishRead, SpawnBound
    <3>. QED
      BY <3>1, <3>2
  <2>. QED
    BY <1>3, <2>3, <2>7, <2>8 DEF FinishRead
<1>4. ASSUME NEW t \in Threads, Retry(t) PROVE IInv'
  <2>1. pc[t] = "relock" /\ InRead(t)
        /\ Wait(t, ForProcWork(t), NotReady(t)) /\ ForProcWork(t) \in BOOLEAN
    BY <1>4 DEF Retry, InRead, Reading, ForProcWork
  <2>2. NotReady(t) \in Nat /\ NotReady(t) = Cardinality(Waiters \ {t})
    BY <2>1, NotReadyIs
  <2>3. /\ pc' \in [Threads -> Places] /\ looper' \in [Threads -> SUBSET Flags]
        /\ forProc' \in [Threads -> BOOLEAN] /\ ready' \in Nat /\ ReadyExact'
    BY <2>1, <2>2, WaitCounts
  <2>4. Awake(t) => todo = <<>>
    BY <1>4 DEF Retry, Finds, Awake
  <2>5. NoLostWakeup'
    BY <1>4, <2>1, <2>4, WaitWakes DEF Retry
  <2>. QED
    BY <1>4, <2>3, <2>5 DEF Retry, TypeOK, SpawnBound
<1>5. ASSUME NEW t \in Threads, FailRead(t) PROVE IInv'
  <2>1. InRead(t) /\ Leave(t, "gone", todo) /\ forProc' = forProc /\ todo' = todo
    BY <1>5 DEF FailRead, InRead, Reading, Leave
  <2>2. "gone" \in Places \ Reading
    BY DEF Places, Reading
  <2>3. /\ pc' \in [Threads -> Places] /\ looper' \in [Threads -> SUBSET Flags]
        /\ ready' \in Nat /\ ReadyExact' /\ NoLostWakeup'
    BY <2>1, <2>2, LeaveCounts
  <2>. QED
    BY <1>5, <2>1, <2>3 DEF FailRead, TypeOK, SpawnBound
<1>6. ASSUME NEW t \in Threads, SpawnThread(t) PROVE IInv'
  <2>1. TypeOK'
    BY <1>6 DEF SpawnThread, TypeOK, counters, Places
  <2>2. \A u \in Threads: pc'[u] = pc[u] \/ (pc[u] \notin Reading /\ pc'[u] \notin Reading)
    BY <1>6 DEF SpawnThread, TypeOK, Reading, Spawning
  <2>3. ReadyExact' /\ NoLostWakeup'
    BY <1>6, <2>2, Outside DEF SpawnThread, counters
  <2>. QED
    BY <1>6, <2>1, <2>3 DEF SpawnThread, counters, SpawnBound
<1>7. ASSUME NEW t \in Threads, RegisterLooper(t) PROVE IInv'
  <2>1. Registered(t) => requested - 1 \in Nat
    BY DEF Registered, TypeOK
  <2>2. TypeOK'
    <3>1. requested' \in Nat /\ started' \in Nat
      BY <1>7, <2>1 DEF RegisterLooper, TypeOK
    <3>2. pc' \in [Threads -> Places] /\ looper' \in [Threads -> SUBSET Flags]
      BY <1>7 DEF RegisterLooper, TypeOK, Places, Flags
    <3>3. mute' \in SUBSET Threads
      BY <1>7 DEF RegisterLooper, TypeOK
    <3>. QED
      BY <1>7, <3>1, <3>2, <3>3 DEF RegisterLooper, TypeOK
  <2>3. \A u \in Threads: pc'[u] = pc[u] \/ (pc[u] \notin Reading /\ pc'[u] \notin Reading)
    BY <1>7 DEF RegisterLooper, TypeOK, Reading
  <2>4. ReadyExact' /\ NoLostWakeup'
    BY <1>7, <2>3, Outside DEF RegisterLooper
  <2>5. SpawnBound'
    BY <1>7 DEF RegisterLooper, SpawnBound, TypeOK
  <2>. QED
    BY <1>7, <2>2, <2>4, <2>5 DEF RegisterLooper
<1>8. ASSUME NEW t \in Threads, SendReply(t) PROVE IInv'
  <2>1. ReadyExact' /\ NoLostWakeup'
    BY <1>8, Outside DEF SendReply, counters
  <2>2. TypeOK'
    BY <1>8 DEF SendReply, TypeOK, counters
  <2>. QED
    BY <1>8, <2>1, <2>2 DEF SendReply, counters, SpawnBound
<1>9. ASSUME EnterLooper PROVE IInv'
  <2>1. TypeOK'
    BY <1>9 DEF EnterLooper, TypeOK, counters, Places, Flags
  <2>2. \A u \in Threads: pc'[u] = pc[u] \/ (pc[u] \notin Reading /\ pc'[u] \notin Reading)
    BY <1>9 DEF EnterLooper, TypeOK, Reading
  <2>3. ReadyExact' /\ NoLostWakeup'
    BY <1>9, <2>2, Outside DEF EnterLooper, counters
  <2>. QED
    BY <1>9, <2>1, <2>3 DEF EnterLooper, counters, SpawnBound
<1>10. ASSUME NEW t \in Threads, Signal(t) PROVE IInv'
  <2>. DEFINE p == [pc EXCEPT ![t] = "relock"]
  <2>1. p \in [Threads -> Places] /\ (pc' = p \/ pc' \in WakeOne(p))
    BY <1>10 DEF Signal, TypeOK, Places, Reading
  <2>2. /\ pc' \in [Threads -> Places]
        /\ \A u \in Threads: pc'[u] = p[u] \/ (p[u] = "sleep" /\ pc'[u] = "woken")
    BY <2>1, WakeOneIs
  <2>3. pc'[t] = "relock" /\ pc[t] \in Reading /\ forProc[t] /\ forProc' = forProc
    BY <1>10, <2>2 DEF Signal, TypeOK, Reading
  <2>4. \A u \in Threads: pc'[u] \in Reading <=> pc[u] \in Reading
    BY <2>2, <2>3 DEF TypeOK, Reading
  <2>5. Waiters' = Waiters
    BY <2>3, <2>4 DEF Waiters, InRead
  <2>6. NoLostWakeup'
    BY <2>3 DEF NoLostWakeup, Awake
  <2>7. TypeOK'
    BY <1>10, <2>2 DEF Signal, TypeOK, counters
  <2>. QED
    BY <1>10, <2>5, <2>6, <2>7 DEF Signal, counters, ReadyExact, Waiters, SpawnBound
<1>11. ASSUME NEW t \in Threads, CallOut(t) PROVE IInv'
  <2>1. pc[t] = "user" /\ Wait(t, FALSE, ready)
    BY <1>11 DEF CallOut
  <2>2. ready \in Nat /\ ready = Cardinality(Waiters \ {t})
    <3>1. t \notin Waiters
      BY <2>1 DEF Waiters, InRead, Reading
    <3>2. Waiters \ {t} = Waiters
      BY <3>1
    <3>. QED
      BY <3>2 DEF ReadyExact, Waiters, TypeOK
  <2>3. /\ pc' \in [Threads -> Places] /\ looper' \in [Threads -> SUBSET Flags]
        /\ forProc' \in [Threads -> BOOLEAN] /\ ready' \in Nat /\ ReadyExact'
    BY <2>1, <2>2, WaitCounts
  <2>4. TypeOK'
    <3>1. own' \in [Threads -> SUBSET {"COMPLETE", "REPLY"}]
          /\ outgoing' \in [Threads -> BOOLEAN] /\ nested' \in Nat
      BY <1>11 DEF CallOut, TypeOK
    <3>. QED
      BY <1>11, <2>3, <3>1 DEF CallOut, TypeOK
  <2>5. NoLostWakeup'
    BY <1>11, <2>1, WaitWakes DEF CallOut, Awake
  <2>. QED
    BY <1>11, <2>3, <2>4, <2>5 DEF CallOut, SpawnBound
<1>12. ASSUME NEW t \in Threads, ThreadExit(t) PROVE IInv'
  <2>1. TypeOK'
    BY <1>12 DEF ThreadExit, TypeOK, counters, Places
  <2>2. \A u \in Threads: pc'[u] = pc[u] \/ (pc[u] \notin Reading /\ pc'[u] \notin Reading)
    BY <1>12 DEF ThreadExit, TypeOK, Reading
  <2>3. ReadyExact' /\ NoLostWakeup'
    BY <1>12, <2>2, Outside DEF ThreadExit, counters
  <2>. QED
    BY <1>12, <2>1, <2>3 DEF ThreadExit, counters, SpawnBound
<1>13. ASSUME NEW t \in Threads, Answer(t) PROVE IInv'
  <2>1. pc' = pc \/ (pc[t] = "sleep" /\ ~forProc[t] /\ pc' = [pc EXCEPT ![t] = "woken"])
    BY <1>13 DEF Answer, WakeOwn
  <2>2. TypeOK'
    BY <1>13, <2>1 DEF Answer, TypeOK, counters, Places, Reading
  <2>3. Waiters' = Waiters /\ Sleepers(pc)' = Sleepers(pc)
        /\ \A u \in Threads: Awake(u)' <=> Awake(u)
    BY <1>13, <2>1 DEF Answer, Waiters, Sleepers, Awake, InRead, Reading, TypeOK
  <2>. QED
    BY <1>13, <2>2, <2>3 DEF Answer, counters, ReadyExact, Waiters, NoLostWakeup, SpawnBound
<1>14. ASSUME NEW k \in MaxThreads, SetMaxThreads(k) PROVE IInv'
  <2>1. k \in Nat
    BY LooperBounds
  <2>2. TypeOK'
    BY <1>14, <2>1 DEF SetMaxThreads, TypeOK
  <2>3. ReadyExact' /\ NoLostWakeup'
    BY <1>14, Outside DEF SetMaxThreads
  <2>4. top' \in Nat /\ top' >= top /\ maxThreads' <= top'
    BY <1>14, <2>1 DEF SetMaxThreads, TypeOK
  <2>. QED
    BY <1>14, <2>2, <2>3, <2>4 DEF SetMaxThreads, SpawnBound, TypeOK
<1>15. ASSUME NEW c \in Calls, Arrive(c) PROVE IInv'
  <2>1. pc \in [Threads -> Places] /\ pc' \in WakeOne(pc)
    BY <1>15 DEF Arrive, TypeOK
  <2>2. /\ pc' \in [Threads -> Places]
        /\ \A u \in Threads: pc'[u] = pc[u] \/ (pc[u] = "sleep" /\ pc'[u] = "woken")
        /\ Sleepers(pc) # {} => \E u \in Threads: pc'[u] = "woken" /\ forProc[u]
    BY <2>1, WakeOneIs
  <2>3. TypeOK'
    BY <1>15, <2>2 DEF Arrive, TypeOK, counters
  <2>4. Waiters' = Waiters /\ Sleepers(pc)' \subseteq Sleepers(pc)
    BY <1>15, <2>2 DEF Arrive, Waiters, InRead, Reading, Sleepers
  <2>5. NoLostWakeup'
    BY <1>15, <2>2, <2>4 DEF Arrive, NoLostWakeup, Awake
  <2>. QED
    BY <1>15, <2>3, <2>4, <2>5 DEF Arrive, counters, ReadyExact, Waiters, SpawnBound
<1>16. ASSUME Flush PROVE IInv'
  <2>1. TypeOK'
    BY <1>16 DEF Flush, TypeOK, counters, Places, Reading, Flags
  <2>2. Waiters' = Waiters /\ Sleepers(pc)' = {}
    BY <1>16 DEF Flush, Waiters, InRead, Reading, Sleepers, TypeOK
  <2>. QED
    BY <1>16, <2>1, <2>2 DEF Flush, counters, ReadyExact, Waiters, NoLostWakeup, SpawnBound
<1>17. ASSUME UNCHANGED vars PROVE IInv'
  BY <1>17 DEF vars, counters, TypeOK, ReadyExact, InRead, SpawnBound, NoLostWakeup, Sleepers, Awake
<1>. QED
  BY <1>1, <1>2, <1>3, <1>4, <1>5, <1>6, <1>7, <1>8, <1>9, <1>10, <1>11, <1>12, <1>13,
     <1>14, <1>15, <1>16, <1>17 DEF Next, Runs

\* The inductive invariant holds in every reachable state.
THEOREM InvAlways == Spec => []IInv
<1>1. Init => IInv
  BY InitInv
<1>2. IInv /\ [Next]_vars => IInv'
  BY StepInv
<1>. QED
  BY <1>1, <1>2, PTL DEF Spec

\* Every variable keeps its type; in particular no counter goes below zero.
THEOREM TypeAlways == Spec => []TypeOK
<1>1. IInv => TypeOK
  BY DEF IInv
<1>. QED
  BY <1>1, InvAlways, PTL

\* ready_threads counts the waiting threads exactly, for any number of threads.
THEOREM ReadyExactAlways == Spec => []ReadyExact
<1>1. IInv => ReadyExact
  BY DEF IInv
<1>. QED
  BY <1>1, InvAlways, PTL

\* One BR_SPAWN_LOOPER at most is outstanding, and the threads asked for never
\* exceed the largest limit.
THEOREM SpawnBoundAlways == Spec => []SpawnBound
<1>1. IInv => SpawnBound
  BY DEF IInv
<1>. QED
  BY <1>1, InvAlways, PTL

\* No wake-up for work of the process is lost, in any interleaving of reads,
\* signals, flushes and arrivals.
THEOREM NoLostWakeupAlways == Spec => []NoLostWakeup
<1>1. IInv => NoLostWakeup
  BY DEF IInv
<1>. QED
  BY <1>1, InvAlways, PTL
===============================================================================
