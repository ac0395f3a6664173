----------------------- MODULE BinderTransactionsProofs -----------------------
(***************************************************************************)
(* Proofs about BinderTransactions, for every set of processes, threads,   *)
(* nodes, transactions and buffers: types, pointers that agree, and what   *)
(* the walks along from_parent and to_parent reach and what becomes of     *)
(* them when a call is made, read, answered or failed, or a thread exits.  *)
(***************************************************************************)
EXTENDS BinderTransactions, FiniteSetTheorems, TLAPS

\* The cleared records have the types of the records they clear.
LEMMA Cleared == NoTxn \in Txn /\ NoBuf \in Buf /\ NewThread \in Thread /\ Unlocked \in Lock
<1>1. NoTxn \in Txn
  BY DEF NoTxn, Txn
<1>2. NoBuf \in Buf
  BY DEF NoBuf, Buf
<1>3. <<>> \in Seq(Txns \cup {Complete})
  OBVIOUS
<1>4. NewThread \in Thread
  BY <1>3 DEF NewThread, Thread, Codes
<1>5. Unlocked \in Lock
  BY DEF Unlocked, Lock
<1> QED
  BY <1>1, <1>2, <1>4, <1>5

\* Freeing transactions and detaching their buffers keeps both well typed.
LEMMA FreedType ==
    ASSUME NEW tx \in [Txns -> Txn], NEW bs \in [Bufs -> Buf], NEW gone
    PROVE  Freed(tx, gone) \in [Txns -> Txn] /\ Detach(bs, tx, gone) \in [Bufs -> Buf]
<1>1. ASSUME NEW t \in Txns PROVE Freed(tx, gone)[t] \in Txn
  BY Cleared DEF Freed
<1>2. ASSUME NEW b \in Bufs PROVE Detach(bs, tx, gone)[b] \in Buf
  <2>1. bs[b] \in Buf
    OBVIOUS
  <2>2. [bs[b] EXCEPT !.txn = NIL] \in Buf
    BY <2>1 DEF Buf
  <2> QED
    BY <2>1, <2>2 DEF Detach
<1> QED
  BY <1>1, <1>2 DEF Freed, Detach

\* A failed reply is written into well-typed threads, whichever the chain.
LEMMA SendFailedReplyType ==
    ASSUME NEW tx \in [Txns -> Txn], NEW bs \in [Bufs -> Buf], NEW hs \in [Threads -> Thread],
           NEW t, NEW code \in Codes, oops \in SUBSET Bugs,
           SendFailedReply(tx, bs, hs, t, code)
    PROVE  /\ txn' \in [Txns -> Txn] /\ buf' \in [Bufs -> Buf]
           /\ thr' \in [Threads -> Thread] /\ oops' \in SUBSET Bugs
<1>1. txn' \in [Txns -> Txn] /\ buf' \in [Bufs -> Buf]
  BY FreedType DEF SendFailedReply
<1>2. ASSUME NEW h \in Threads PROVE thr'[h] \in Thread
  <2>1. Moved(hs, h) \in Thread
    <3>1. hs[h] \in Thread
      OBVIOUS
    <3>2. [hs[h] EXCEPT !.err2 = hs[h].err, !.err = "BR_OK"] \in Thread
      BY <3>1 DEF Thread, Codes
    <3> QED
      BY <3>1, <3>2 DEF Moved
  <2>2. ASSUME NEW x \in Txns, NEW late \in BOOLEAN
        PROVE  [Moved(hs, h) EXCEPT !.stack = tx[x].fromParent, !.err = code,
                                    !.late = late] \in Thread
    <3>1. tx[x].fromParent \in Txns \cup {NIL}
      BY DEF Txn
    <3> QED
      BY <2>1, <3>1 DEF Thread
  <2>3. Deliverable(tx, hs, t) \subseteq Txns
    BY DEF Deliverable, Answerable
  <2> DEFINE To == \E x \in Deliverable(tx, hs, t) : tx[x].from = h
             pick == CHOOSE y \in Deliverable(tx, hs, t) : tx[y].from = h
  <2>4. CASE To
    <3>1. pick \in Txns
      BY <2>3, <2>4
    <3>2. PICK late \in BOOLEAN :
            thr'[h] = [Moved(hs, h) EXCEPT !.stack = tx[pick].fromParent, !.err = code,
                                           !.late = late /\ hs[h].err = "BR_OK"]
      BY <2>4 DEF SendFailedReply
    <3> DEFINE came == late /\ hs[h].err = "BR_OK"
    <3>3. came \in BOOLEAN
      OBVIOUS
    <3> HIDE DEF pick
    <3>4. [Moved(hs, h) EXCEPT !.stack = tx[pick].fromParent, !.err = code,
                               !.late = came] \in Thread
      <4> HIDE DEF came
      <4> QED
        BY <2>2, <3>1, <3>3
    <3> QED
      BY <3>2, <3>4
  <2>5. CASE ~To
    <3>1. thr'[h] = hs[h]
      BY <2>5 DEF SendFailedReply
    <3> QED
      BY <3>1
  <2> QED
    BY <2>4, <2>5
<1>3. thr' \in [Threads -> Thread]
  BY <1>2 DEF SendFailedReply
<1>4. oops' \in SUBSET Bugs
  BY DEF SendFailedReply, Bugs
<1> QED
  BY <1>1, <1>3, <1>4

\* A work item put on, or taken off, the todo list of a thread.
LEMMA TodoType ==
    ASSUME NEW hs \in [Threads -> Thread], NEW h \in Threads
    PROVE  /\ \A w \in Txns \cup {Complete} :
                 Enqueue(hs, h, w) \in [Threads -> Thread]
           /\ hs[h].todo # <<>> =>
                 /\ Dequeue(hs, h) \in [Threads -> Thread]
                 /\ Head(hs[h].todo) \in Txns \cup {Complete}
<1>1. hs[h] \in Thread /\ hs[h].todo \in Seq(Txns \cup {Complete})
  BY DEF Thread
<1>2. ASSUME NEW s \in Seq(Txns \cup {Complete})
      PROVE  [hs EXCEPT ![h].todo = s] \in [Threads -> Thread]
  <2>1. [hs[h] EXCEPT !.todo = s] \in Thread
    BY <1>1 DEF Thread
  <2> QED
    BY <2>1
<1>3. ASSUME NEW w \in Txns \cup {Complete}
      PROVE  Append(hs[h].todo, w) \in Seq(Txns \cup {Complete})
  BY <1>1
<1>4. hs[h].todo # <<>> => /\ Tail(hs[h].todo) \in Seq(Txns \cup {Complete})
                          /\ Head(hs[h].todo) \in Txns \cup {Complete}
  BY <1>1
<1> QED
  BY <1>2, <1>3, <1>4 DEF Enqueue, Dequeue

\* What a thread reads next is a transaction.
LEMMA NextTxnType ==
    ASSUME TypeOK, NEW h \in Threads, ReadTxn(h)
    PROVE  NextTxn(h) \in Txns
<1>1. thr[h].todo # <<>> => Head(thr[h].todo) \in Txns \cup {Complete}
  BY TodoType DEF TypeOK
<1>2. ptodo[ProcOf[h]] \in Seq(Txns)
  BY ProcOfAssumption DEF TypeOK
<1>3. CASE OwnTxn(h)
  BY <1>1, <1>3 DEF OwnTxn, OwnWork, NextTxn
<1>4. CASE ProcTxn(h)
  <2>1. NextTxn(h) = Head(ptodo[ProcOf[h]]) /\ ptodo[ProcOf[h]] # <<>>
    BY <1>4 DEF ProcTxn, NextTxn
  <2> QED
    BY <1>2, <2>1
<1> QED
  BY <1>3, <1>4 DEF ReadTxn

\* The walk over a dying thread's stack, and the release of one work item.
LEMMA FreeStackType ==
    ASSUME TypeOK, NEW h \in Threads, FreeStack(h)
    PROVE  /\ txn' \in [Txns -> Txn] /\ buf' \in [Bufs -> Buf]
           /\ thr' \in [Threads -> Thread] /\ oops' \in SUBSET Bugs
<1> DEFINE walked == OnStack(h)
           tx == [t \in Txns |->
                    IF t \notin walked THEN txn[t]
                    ELSE IF Incoming(h, t) THEN [txn[t] EXCEPT !.toThread = NIL, !.buffer = NIL]
                    ELSE [txn[t] EXCEPT !.from = NIL]]
           bs == Detach(buf, txn, {t \in walked : Incoming(h, t)})
           hs == [thr EXCEPT ![h].stack = NIL]
<1>1. tx \in [Txns -> Txn]
  <2>1. ASSUME NEW t \in Txns PROVE tx[t] \in Txn
    <3>1. txn[t] \in Txn
      BY DEF TypeOK
    <3>2. [txn[t] EXCEPT !.toThread = NIL, !.buffer = NIL] \in Txn
      BY <3>1 DEF Txn
    <3>3. [txn[t] EXCEPT !.from = NIL] \in Txn
      BY <3>1 DEF Txn
    <3> QED
      BY <3>1, <3>2, <3>3
  <2> QED
    BY <2>1
<1>2. bs \in [Bufs -> Buf]
  BY FreedType DEF TypeOK
<1>3. hs \in [Threads -> Thread]
  BY ZenonT(60) DEF TypeOK, Thread
<1>4. "BR_DEAD_REPLY" \in Codes
  BY DEF Codes
<1>5. CASE txn' = tx /\ buf' = bs /\ thr' = hs /\ oops' = oops
  BY <1>1, <1>2, <1>3, <1>5 DEF TypeOK
<1>6. CASE SendFailedReply(tx, bs, hs, thr[h].stack, "BR_DEAD_REPLY")
  <2>1. oops \in SUBSET Bugs
    BY DEF TypeOK
  <2> HIDE DEF tx, bs, hs
  <2> QED
    BY <1>1, <1>2, <1>3, <1>4, <1>6, <2>1, SendFailedReplyType
<1>7. CASE oops' = oops \cup {"stack walk"} /\ UNCHANGED <<txn, buf, thr>>
  BY <1>7 DEF TypeOK, Bugs
<1> QED
  BY <1>5, <1>6, <1>7 DEF FreeStack

LEMMA DropType ==
    ASSUME TypeOK, NEW hs \in [Threads -> Thread], NEW t \in Txns, Drop(hs, t)
    PROVE  /\ txn' \in [Txns -> Txn] /\ buf' \in [Bufs -> Buf]
           /\ thr' \in [Threads -> Thread] /\ oops' \in SUBSET Bugs
<1>1. "BR_DEAD_REPLY" \in Codes
  BY DEF Codes
<1>2. txn \in [Txns -> Txn] /\ buf \in [Bufs -> Buf] /\ oops \in SUBSET Bugs
  BY DEF TypeOK
<1>3. CASE thr' = hs /\ oops' = oops \cup {"no buffer"} /\ UNCHANGED <<txn, buf>>
  BY <1>2, <1>3 DEF Bugs
<1>4. CASE SendFailedReply(txn, buf, hs, t, "BR_DEAD_REPLY")
  BY <1>1, <1>2, <1>4, SendFailedReplyType
<1>5. CASE /\ thr' = hs /\ oops' = oops
           /\ txn' = Freed(txn, {t}) /\ buf' = Detach(buf, txn, {t})
  BY <1>2, <1>5, FreedType
<1> QED
  BY <1>3, <1>4, <1>5 DEF Drop

\* TypeOK is inductive: every state of the driver model is well typed, for any
\* number of processes, threads, nodes, transactions and buffers.
THEOREM TypeCorrect == Spec => []TypeOK
<1> USE ProcOfAssumption, OwnerAssumption, BoundAssumption, CallsAssumption
<1>1. Init => TypeOK
  <2>1. <<>> \in Seq(Txns)
    OBVIOUS
  <2> QED
    BY <2>1, Cleared DEF Init, TypeOK
<1>2. TypeOK /\ [Next]_vars => TypeOK'
  <2> SUFFICES ASSUME TypeOK, [Next]_vars PROVE TypeOK'
    OBVIOUS
  <2> USE DEF TypeOK
  <2>1. ASSUME NEW h \in Threads, NEW code \in Codes, Refuse(h, code) PROVE TypeOK'
    <3>1. thr' \in [Threads -> Thread]
      BY ZenonT(120), <2>1 DEF Refuse, Thread
    <3>2. due' \in [Threads -> Int]
      BY <2>1 DEF Refuse, Returns
    <3> QED
      BY <2>1, <3>1, <3>2 DEF Refuse
  <2>2. ASSUME NEW h \in Threads, NEW n \in Nodes, NEW oneway \in BOOLEAN,
               CallRefused(h, n, oneway)
        PROVE TypeOK'
    BY <2>1, <2>2 DEF CallRefused, Codes
  <2>3. ASSUME NEW h \in Threads, NEW n \in Nodes, NEW oneway \in BOOLEAN,
               CallFails(h, n, oneway)
        PROVE TypeOK'
    BY <2>1, <2>3 DEF CallFails, FailureCodes, Codes
  <2>4. ASSUME NEW h \in Threads, NEW n \in Nodes, Call(h, n) PROVE TypeOK'
    <3>1. Owner[n] \in Procs
      OBVIOUS
    <3>2. Callee(h, Owner[n]) \in Threads \cup {NIL}
      BY DEF Callee, Callers
    <3>3. PICK t \in Txns, b \in Bufs :
            /\ txn' = [txn EXCEPT ![t] = [live |-> TRUE, from |-> h,
                           fromParent |-> thr[h].stack, toThread |-> Callee(h, Owner[n]),
                           toParent |-> NIL, oneway |-> FALSE, buffer |-> b]]
            /\ buf' = [buf EXCEPT ![b] = NewBuf(Owner[n], n, t, FALSE)]
            /\ LET hs == Enqueue([thr EXCEPT ![h].stack = t], h, Complete) IN
               IF Callee(h, Owner[n]) = NIL
               THEN thr' = hs /\ ptodo' = [ptodo EXCEPT ![Owner[n]] = Append(@, t)]
               ELSE thr' = Enqueue(hs, Callee(h, Owner[n]), t) /\ ptodo' = ptodo
      BY <2>4 DEF Call, FreeTxns, FreeBufs
    <3>4. txn' \in [Txns -> Txn]
      BY <3>2, <3>3 DEF Txn, Thread
    <3>5. buf' \in [Bufs -> Buf]
      BY <3>1, <3>3 DEF Buf, NewBuf
    <3>6. thr' \in [Threads -> Thread]
      <4> DEFINE h1 == [thr EXCEPT ![h].stack = t]
                 h2 == Enqueue(h1, h, Complete)
      <4>1. h1 \in [Threads -> Thread]
        BY ZenonT(60) DEF Thread
      <4>2. h2 \in [Threads -> Thread]
        BY <4>1, TodoType
      <4>3. CASE Callee(h, Owner[n]) = NIL
        BY <3>3, <4>2, <4>3
      <4>4. CASE Callee(h, Owner[n]) # NIL
        <5>1. thr' = Enqueue(h2, Callee(h, Owner[n]), t) /\ Callee(h, Owner[n]) \in Threads
          BY <3>2, <3>3, <4>4
        <5> HIDE DEF h2
        <5> QED
          BY <4>2, <5>1, TodoType
      <4> QED
        BY <4>3, <4>4
    <3>7. ptodo' \in [Procs -> Seq(Txns)]
      <4>1. Append(ptodo[Owner[n]], t) \in Seq(Txns)
        BY <3>1
      <4> QED
        BY <3>1, <3>3, <4>1
    <3>8. due' \in [Threads -> Int]
      BY <2>4 DEF Call, Returns
    <3> QED
      BY <2>4, <3>4, <3>5, <3>6, <3>7, <3>8 DEF Call
  <2>5. ASSUME NEW h \in Threads, NEW n \in Nodes, CallOneWay(h, n) PROVE TypeOK'
    <3>1. Owner[n] \in Procs
      OBVIOUS
    <3>2. PICK t \in Txns, b \in Bufs :
            /\ txn' = [txn EXCEPT ![t] = [NoTxn EXCEPT !.live = TRUE, !.oneway = TRUE, !.buffer = b]]
            /\ buf' = [buf EXCEPT ![b] = NewBuf(Owner[n], n, t, TRUE)]
            /\ IF node[n].async
               THEN /\ node' = [node EXCEPT ![n].todo = Append(@, t)]
                    /\ ptodo' = ptodo
               ELSE /\ node' = [node EXCEPT ![n].async = TRUE]
                    /\ ptodo' = [ptodo EXCEPT ![Owner[n]] = Append(@, t)]
      BY <2>5 DEF CallOneWay, FreeTxns, FreeBufs
    <3>3. txn' \in [Txns -> Txn]
      BY <3>2 DEF Txn, NoTxn
    <3>4. buf' \in [Bufs -> Buf]
      BY <3>1, <3>2 DEF Buf, NewBuf
    <3>5. node' \in [Nodes -> [async: BOOLEAN, todo: Seq(Txns)]]
      <4>1. node[n].todo \in Seq(Txns) /\ node[n] \in [async: BOOLEAN, todo: Seq(Txns)]
        OBVIOUS
      <4>2. Append(node[n].todo, t) \in Seq(Txns)
        BY <4>1
      <4>3. [node[n] EXCEPT !.todo = Append(@, t)] \in [async: BOOLEAN, todo: Seq(Txns)]
        BY <4>1, <4>2
      <4>4. [node[n] EXCEPT !.async = TRUE] \in [async: BOOLEAN, todo: Seq(Txns)]
        BY <4>1
      <4> QED
        BY <3>2, <4>3, <4>4
    <3>6. ptodo' \in [Procs -> Seq(Txns)]
      <4>1. Append(ptodo[Owner[n]], t) \in Seq(Txns)
        BY <3>1
      <4> QED
        BY <3>1, <3>2, <4>1
    <3>7. thr' \in [Threads -> Thread]
      BY <2>5, TodoType DEF CallOneWay
    <3>8. due' \in [Threads -> Int]
      BY <2>5 DEF CallOneWay, Returns
    <3> QED
      BY <2>5, <3>3, <3>4, <3>5, <3>6, <3>7, <3>8 DEF CallOneWay
  <2>6. ASSUME NEW h \in Threads, ReplyRefused(h) PROVE TypeOK'
    BY <2>1, <2>6 DEF ReplyRefused, Codes
  <2>7. ASSUME NEW h \in Threads, CanReply(h)
        PROVE  /\ thr[h].stack \in Txns
               /\ Caller(h) \in Threads \cup {NIL}
               /\ Replied(h) \in [Threads -> Thread]
               /\ [Replied(h) EXCEPT ![h].err = "BR_FAILED_REPLY"] \in [Threads -> Thread]
    <3>1. thr[h].stack \in Txns
      BY <2>7 DEF CanReply, Thread
    <3>2. txn[thr[h].stack] \in Txn
      BY <3>1
    <3>3. txn[thr[h].stack].toParent \in Txns \cup {NIL} /\ Caller(h) \in Threads \cup {NIL}
      BY <3>2 DEF Txn, Caller
    <3>4. thr[h] \in Thread
      OBVIOUS
    <3>5. [thr[h] EXCEPT !.stack = txn[thr[h].stack].toParent,
                         !.err = "BR_TRANSACTION_COMPLETE"] \in Thread
      BY <3>3, <3>4 DEF Thread, Codes
    <3>6. Replied(h) \in [Threads -> Thread]
      BY <3>5 DEF Replied
    <3>7. [Replied(h)[h] EXCEPT !.err = "BR_FAILED_REPLY"] \in Thread
      BY <3>6, ZenonT(60) DEF Thread, Codes
    <3> QED
      BY <3>1, <3>3, <3>6, <3>7
  <2>8. ASSUME NEW h \in Threads, ReplyToDead(h) PROVE TypeOK'
    <3>1. CanReply(h) /\ SendFailedReply(txn, buf, Replied(h), thr[h].stack, "BR_DEAD_REPLY")
      BY <2>8 DEF ReplyToDead
    <3>2. "BR_DEAD_REPLY" \in Codes
      BY DEF Codes
    <3>3. /\ txn' \in [Txns -> Txn] /\ buf' \in [Bufs -> Buf]
          /\ thr' \in [Threads -> Thread] /\ oops' \in SUBSET Bugs
      BY <2>7, <3>1, <3>2, SendFailedReplyType
    <3>4. due' \in [Threads -> Int]
      BY <2>8 DEF ReplyToDead, Returns
    <3> QED
      BY <2>8, <3>3, <3>4 DEF ReplyToDead
  <2>9. ASSUME NEW h \in Threads, ReplyFails(h) PROVE TypeOK'
    <3>1. CanReply(h)
      BY <2>9 DEF ReplyFails
    <3>2. /\ txn' \in [Txns -> Txn] /\ buf' \in [Bufs -> Buf]
          /\ thr' \in [Threads -> Thread] /\ oops' \in SUBSET Bugs
      <4>1. CASE thr[Caller(h)].stack # thr[h].stack
        BY <2>7, <2>9, <3>1, <4>1 DEF ReplyFails
      <4>2. CASE thr[Caller(h)].stack = thr[h].stack
        <5>1. PICK code \in FailureCodes(h, ProcOf[Caller(h)]) :
                SendFailedReply(txn, buf, Replied(h), thr[h].stack, code)
          BY <2>9, <4>2 DEF ReplyFails
        <5>2. code \in Codes
          BY <5>1 DEF FailureCodes, Codes
        <5> QED
          BY <2>7, <3>1, <5>1, <5>2, SendFailedReplyType
      <4> QED
        BY <4>1, <4>2
    <3>3. due' \in [Threads -> Int]
      BY <2>9 DEF ReplyFails, Returns
    <3> QED
      BY <2>9, <3>2, <3>3 DEF ReplyFails
  <2>10. ASSUME NEW h \in Threads, Reply(h) PROVE TypeOK'
    <3> DEFINE call == thr[h].stack
               caller == Caller(h)
    <3>1. CanReply(h) /\ caller # NIL /\ thr[caller].stack = call
      BY <2>10 DEF Reply
    <3>2. call \in Txns /\ caller \in Threads
      BY <2>7, <3>1
    <3>3. ProcOf[caller] \in Procs
      BY <3>2
    <3>4. PICK t \in Txns, b \in Bufs :
            /\ txn' = [Freed(txn, {call}) EXCEPT
                 ![t] = [NoTxn EXCEPT !.live = TRUE, !.toThread = caller, !.buffer = b]]
            /\ buf' = [Detach(buf, txn, {call}) EXCEPT
                 ![b] = NewBuf(ProcOf[caller], NIL, t, FALSE)]
            /\ thr' = Enqueue(Enqueue(Unwound(h, call, caller), caller, t), h, Complete)
      BY <2>10 DEF Reply, FreeTxns, FreeBufs
    <3>5. txn' \in [Txns -> Txn]
      <4>1. [NoTxn EXCEPT !.live = TRUE, !.toThread = caller, !.buffer = b] \in Txn
        BY <3>2 DEF NoTxn, Txn
      <4> QED
        BY <3>4, <4>1, FreedType
    <3>6. buf' \in [Bufs -> Buf]
      <4>1. NewBuf(ProcOf[caller], NIL, t, FALSE) \in Buf
        BY <3>3 DEF NewBuf, Buf
      <4> QED
        BY <3>4, <4>1, FreedType
    <3>7. thr' \in [Threads -> Thread]
      <4>1. txn[call] \in Txn
        BY <3>2
      <4>2. txn[call].toParent \in Txns \cup {NIL} /\ txn[call].fromParent \in Txns \cup {NIL}
        BY <4>1 DEF Txn
      <4> DEFINE h1 == [thr EXCEPT ![h].stack = txn[call].toParent]
      <4>3. h1 \in [Threads -> Thread]
        BY ZenonT(60), <4>2 DEF Thread
      <4>4. Unwound(h, call, caller) \in [Threads -> Thread]
        <5>1. [h1 EXCEPT ![caller].stack = txn[call].fromParent] \in [Threads -> Thread]
          <6> HIDE DEF h1
          <6> QED
            BY <3>2, <4>2, <4>3 DEF Thread
        <5> QED
          BY <5>1 DEF Unwound
      <4>5. Enqueue(Unwound(h, call, caller), caller, t) \in [Threads -> Thread]
        BY <3>2, <4>4, TodoType
      <4> QED
        BY <3>4, <4>5, TodoType
    <3>8. due' \in [Threads -> Int]
      BY <2>10 DEF Reply, Returns
    <3> QED
      BY <2>10, <3>5, <3>6, <3>7, <3>8 DEF Reply
  <2>11. ASSUME NEW h \in Threads, NEW b \in Bufs, FreeBuffer(h, b) PROVE TypeOK'
    <3> DEFINE n == buf[b].node
               t == buf[b].txn
               async == buf[b].async /\ n # NIL
               next == async /\ node[n].todo # <<>>
    <3>1. n \in Nodes \cup {NIL} /\ t \in Txns \cup {NIL}
      BY DEF Buf
    <3>2. txn' \in [Txns -> Txn]
      <4>1. t # NIL => txn[t] \in Txn
        BY <3>1
      <4>2. t # NIL => [txn[t] EXCEPT !.buffer = NIL] \in Txn
        BY <4>1 DEF Txn
      <4>3. txn' = IF t = NIL THEN txn
                   ELSE [txn EXCEPT ![t] = [txn[t] EXCEPT !.buffer = NIL]]
        BY <2>11 DEF FreeBuffer
      <4> HIDE DEF t
      <4> QED
        BY <3>1, <4>2, <4>3
    <3>3. buf' \in [Bufs -> Buf]
      BY <2>11, Cleared DEF FreeBuffer
    <3>4. n \in Nodes =>
            /\ [node[n] EXCEPT !.async = FALSE] \in [async: BOOLEAN, todo: Seq(Txns)]
            /\ node[n].todo # <<>> =>
                 /\ [node[n] EXCEPT !.todo = Tail(@)] \in [async: BOOLEAN, todo: Seq(Txns)]
                 /\ Head(node[n].todo) \in Txns \cup {Complete}
      <4>1. n \in Nodes => /\ node[n] \in [async: BOOLEAN, todo: Seq(Txns)]
                           /\ node[n].todo \in Seq(Txns)
        OBVIOUS
      <4>2. n \in Nodes /\ node[n].todo # <<>> =>
               Tail(node[n].todo) \in Seq(Txns) /\ Head(node[n].todo) \in Txns
        BY <4>1
      <4> QED
        BY <4>1, <4>2
    <3>5. node' \in [Nodes -> [async: BOOLEAN, todo: Seq(Txns)]]
      BY <2>11, <3>1, <3>4 DEF FreeBuffer
    <3>6. thr' \in [Threads -> Thread]
      BY <2>11, <3>1, <3>4, TodoType DEF FreeBuffer
    <3>7. oops' \in SUBSET Bugs
      BY <2>11 DEF FreeBuffer, Bugs
    <3> QED
      BY <2>11, <3>2, <3>3, <3>5, <3>6, <3>7 DEF FreeBuffer
  <2>12. ASSUME NEW h \in Threads, ReadError(h) PROVE TypeOK'
    <3>1. [thr[h] EXCEPT !.err = "BR_OK", !.err2 = "BR_OK", !.late = FALSE] \in Thread
      <4>1. thr[h] \in Thread
        BY DEF TypeOK
      <4>2. "BR_OK" \in Codes
        BY DEF Codes
      <4> QED
        BY ONLY <4>1, <4>2 DEF Thread
    <3>2. due' \in [Threads -> Int]
      BY <2>12 DEF ReadError, Returns
    <3> QED
      BY <2>12, <3>1, <3>2 DEF ReadError
  <2>13. ASSUME NEW h \in Threads, ReadComplete(h) PROVE TypeOK'
    <3>1. due' \in [Threads -> Int]
      BY <2>13 DEF ReadComplete, Returns
    <3>2. Dequeue(thr, h) \in [Threads -> Thread]
      BY <2>13, TodoType DEF ReadComplete, OwnWork
    <3>3. thr' \in [Threads -> Thread]
      <4> DEFINE more == Dequeue(thr, h)[h].late /\ Tail(thr[h].todo) # <<>>
      <4>1. thr' = [Dequeue(thr, h) EXCEPT ![h].late = more]
        BY <2>13, <3>2 DEF ReadComplete
      <4>2. [Dequeue(thr, h)[h] EXCEPT !.late = more] \in Thread
        BY <3>2, ZenonT(60) DEF Thread
      <4> QED
        BY <3>2, <4>1, <4>2
    <3> QED
      BY <2>13, <3>1, <3>3 DEF ReadComplete
  <2>14. ASSUME NEW h \in Threads, ReadTxn(h) PROVE TypeOK'
    <3> DEFINE t == NextTxn(h)
               b == txn[t].buffer
               call == buf[b].node # NIL /\ ~txn[t].oneway
    <3>2. ptodo[ProcOf[h]] \in Seq(Txns)
      OBVIOUS
    <3>3. t \in Txns
      BY <2>14, NextTxnType
    <3>4. ptodo' \in [Procs -> Seq(Txns)]
      <4>1. ptodo[ProcOf[h]] # <<>> => Tail(ptodo[ProcOf[h]]) \in Seq(Txns)
        BY <3>2
      <4>2. thr[h].todo = <<>> => ptodo[ProcOf[h]] # <<>>
        BY <2>14 DEF ReadTxn, OwnTxn, OwnWork, ProcTxn
      <4> QED
        BY <2>14, <4>1, <4>2 DEF ReadTxn
    <3>5. Dequeued(h) \in [Threads -> Thread]
      <4>1. CASE thr[h].todo # <<>>
        <5>1. Dequeue(thr, h) \in [Threads -> Thread]
          BY <4>1, TodoType
        <5>2. [Dequeue(thr, h)[h] EXCEPT !.late = FALSE] \in Thread
          BY <5>1 DEF Thread
        <5> QED
          BY <4>1, <5>1, <5>2 DEF Dequeued
      <4>2. CASE thr[h].todo = <<>>
        BY <4>2 DEF Dequeued
      <4> QED
        BY <4>1, <4>2
    <3>6. CASE b = NIL
      <4>1. oops' = oops \cup {"no buffer"} /\ thr' = Dequeued(h) /\ UNCHANGED <<txn, buf, due>>
        BY <2>14, <3>6 DEF ReadTxn
      <4> QED
        BY <2>14, <3>4, <3>5, <4>1 DEF ReadTxn, Bugs
    <3>7. CASE b # NIL
      <4>1. b \in Bufs
        <5>1. txn[t] \in Txn
          BY <3>3
        <5> QED
          BY <3>7, <5>1 DEF Txn
      <4>2. /\ buf' = [buf EXCEPT ![b] = [buf[b] EXCEPT !.userFree = TRUE,
                                        !.txn = IF call THEN buf[b].txn ELSE NIL]]
            /\ txn' = IF call
                      THEN [txn EXCEPT ![t] = [txn[t] EXCEPT !.toThread = h, !.toParent = thr[h].stack]]
                      ELSE Freed(txn, {t})
            /\ thr' = IF call THEN [Dequeued(h) EXCEPT ![h].stack = t] ELSE Dequeued(h)
            /\ Returns(h, IF buf[b].node = NIL THEN -1 ELSE 0)
            /\ oops' = oops
        BY ZenonT(60), <2>14, <3>7 DEF ReadTxn
      <4>3. buf' \in [Bufs -> Buf]
        <5>1. buf[b] \in Buf /\ (IF call THEN buf[b].txn ELSE NIL) \in Txns \cup {NIL}
          BY <4>1 DEF Buf
        <5>2. [buf[b] EXCEPT !.userFree = TRUE, !.txn = IF call THEN buf[b].txn ELSE NIL] \in Buf
          BY <5>1 DEF Buf
        <5> QED
          BY <4>1, <4>2, <5>2
      <4>4. txn' \in [Txns -> Txn]
        <5>1. txn[t] \in Txn /\ thr[h].stack \in Txns \cup {NIL}
          BY <3>3 DEF Thread
        <5>2. [txn[t] EXCEPT !.toThread = h, !.toParent = thr[h].stack] \in Txn
          BY <5>1 DEF Txn
        <5> QED
          BY <3>3, <4>2, <5>2, FreedType
      <4>5. thr' \in [Threads -> Thread]
        <5>1. [Dequeued(h)[h] EXCEPT !.stack = t] \in Thread
          BY <3>3, <3>5, ZenonT(60) DEF Thread
        <5> QED
          BY <3>5, <4>2, <5>1
      <4>6. due' \in [Threads -> Int]
        BY <4>2 DEF Returns
      <4> QED
        BY <2>14, <3>4, <4>2, <4>3, <4>4, <4>5, <4>6 DEF ReadTxn
    <3> QED
      BY <3>6, <3>7
  <2>15. ASSUME NEW h \in Threads, ThreadExit(h) PROVE TypeOK'
    BY <2>15, FreeStackType DEF ThreadExit, Unlocked, Lock
  <2>16. ASSUME NEW p \in Procs, Close(p) PROVE TypeOK'
    BY <2>16 DEF Close
  <2>17. ASSUME NEW p \in Procs, DeferredRelease(p) PROVE TypeOK'
    BY <2>17 DEF DeferredRelease, Lock
  <2>18. ASSUME NEW h \in Threads, ReleaseThread(h) PROVE TypeOK'
    BY <2>18, FreeStackType DEF ReleaseThread, Lock
  <2>19. ASSUME NEW h \in Threads, ReleaseThreadWork(h) PROVE TypeOK'
    <3>1. /\ Head(thr[h].todo) \in Txns \cup {Complete}
          /\ Dequeue(thr, h) \in [Threads -> Thread]
      BY <2>19, TodoType DEF ReleaseThreadWork
    <3>2. CASE Head(thr[h].todo) = Complete
      BY <2>19, <3>1, <3>2 DEF ReleaseThreadWork
    <3>3. CASE Head(thr[h].todo) # Complete
      <4>1. Drop(Dequeue(thr, h), Head(thr[h].todo)) /\ Head(thr[h].todo) \in Txns
        BY <2>19, <3>1, <3>3 DEF ReleaseThreadWork
      <4>2. orphaned' \in SUBSET Nodes
        BY <2>19, <3>3 DEF ReleaseThreadWork, Orphans
      <4> QED
        BY <2>19, <3>1, <4>1, <4>2, DropType DEF ReleaseThreadWork
    <3> QED
      BY <3>2, <3>3
  <2>20. ASSUME NEW h \in Threads, ThreadFreed(h) PROVE TypeOK'
    <3>1. [lock EXCEPT !.thread = NIL] \in Lock
      BY DEF Lock
    <3>2. due' \in [Threads -> Int]
      BY <2>20 DEF ThreadFreed
    <3> QED
      BY <2>20, <3>1, <3>2, Cleared DEF ThreadFreed
  <2>21. ASSUME NEW n \in Nodes, ReleaseNodeWork(n) PROVE TypeOK'
    <3>1. node[n].todo \in Seq(Txns) /\ node[n] \in [async: BOOLEAN, todo: Seq(Txns)]
      OBVIOUS
    <3>2. Head(node[n].todo) \in Txns /\ Tail(node[n].todo) \in Seq(Txns)
      BY <2>21, <3>1 DEF ReleaseNodeWork
    <3>3. [node[n] EXCEPT !.todo = Tail(@)] \in [async: BOOLEAN, todo: Seq(Txns)]
      BY <3>1, <3>2
    <3> QED
      BY <2>21, <3>2, <3>3, DropType DEF ReleaseNodeWork
  <2>22. ASSUME NEW p \in Procs, ReleaseProcWork(p) PROVE TypeOK'
    <3>1. ptodo[p] \in Seq(Txns)
      OBVIOUS
    <3>2. Head(ptodo[p]) \in Txns /\ Tail(ptodo[p]) \in Seq(Txns)
      BY <2>22, <3>1 DEF ReleaseProcWork
    <3> QED
      BY <2>22, <3>2, DropType DEF ReleaseProcWork
  <2>23. ASSUME NEW p \in Procs, ReleaseProc(p) PROVE TypeOK'
    <3>1. \A t \in Txns : [txn[t] EXCEPT !.buffer = NIL] \in Txn
      BY ZenonT(60) DEF Txn
    <3>2. txn' \in [Txns -> Txn]
      BY <2>23, <3>1 DEF ReleaseProc
    <3>3. buf' \in [Bufs -> Buf]
      BY <2>23, Cleared DEF ReleaseProc
    <3>4. node' \in [Nodes -> [async: BOOLEAN, todo: Seq(Txns)]]
      <4>1. <<>> \in Seq(Txns)
        OBVIOUS
      <4> QED
        BY <2>23, <4>1 DEF ReleaseProc
    <3>5. oops' \in SUBSET Bugs
      BY <2>23 DEF ReleaseProc, Bugs
    <3> QED
      BY <2>23, <3>2, <3>3, <3>4, <3>5, Cleared DEF ReleaseProc
  <2>24. CASE UNCHANGED vars
    BY <2>24 DEF vars
  <2> QED
    BY SMTT(60), <2>2, <2>3, <2>4, <2>5, <2>6, <2>8, <2>9, <2>10, <2>11, <2>12, <2>13, <2>14, <2>15,
       <2>16, <2>17, <2>18, <2>19, <2>20, <2>21, <2>22, <2>23, <2>24
       DEF Next, Write, Read, Worker
<1> QED
  BY <1>1, <1>2, PTL DEF Spec

-------------------------------------------------------------------------------
(* The pointers between transactions and buffers *)

LEMMA FreedAgrees ==
    ASSUME NEW tx \in [Txns -> Txn], NEW bs \in [Bufs -> Buf], NEW gone \in SUBSET Txns,
           PointersAgree(tx, bs)
    PROVE  PointersAgree(Freed(tx, gone), Detach(bs, tx, gone))
<1>1. ASSUME NEW t \in Txns, Freed(tx, gone)[t].buffer # NIL
      PROVE  /\ t \notin gone /\ Freed(tx, gone)[t] = tx[t] /\ tx[t].buffer \in Bufs
             /\ Detach(bs, tx, gone)[tx[t].buffer] = bs[tx[t].buffer]
  <2>1. t \notin gone /\ Freed(tx, gone)[t] = tx[t]
    BY <1>1 DEF Freed, NoTxn
  <2>2. tx[t].buffer \in Bufs
    <3>1. tx[t] \in Txn
      OBVIOUS
    <3> QED
      BY <1>1, <2>1, <3>1 DEF Txn
  <2>3. ~ \E x \in gone : tx[x].buffer = tx[t].buffer
    BY <1>1, <2>1, <2>2 DEF PointersAgree
  <2> QED
    BY <2>1, <2>2, <2>3 DEF Detach
<1>2. ASSUME NEW b \in Bufs, Detach(bs, tx, gone)[b].txn # NIL
      PROVE  /\ Detach(bs, tx, gone)[b] = bs[b] /\ bs[b].txn \in Txns \ gone
             /\ Freed(tx, gone)[bs[b].txn] = tx[bs[b].txn]
  <2>0. bs[b] \in Buf /\ [bs[b] EXCEPT !.txn = NIL].txn = NIL
    BY DEF Buf
  <2>1. ~ \E x \in gone : tx[x].buffer = b
    BY <1>2, <2>0 DEF Detach
  <2>2. Detach(bs, tx, gone)[b] = bs[b]
    BY <2>1 DEF Detach
  <2>3. bs[b].txn \in Txns /\ tx[bs[b].txn].buffer = b
    BY <1>2, <2>0, <2>2 DEF PointersAgree, Buf
  <2> QED
    BY <2>1, <2>2, <2>3 DEF Freed
<1> QED
  BY <1>1, <1>2 DEF PointersAgree

LEMMA SendFailedReplyAgrees ==
    ASSUME NEW tx \in [Txns -> Txn], NEW bs \in [Bufs -> Buf], NEW hs, NEW t, NEW code,
           PointersAgree(tx, bs), SendFailedReply(tx, bs, hs, t, code)
    PROVE  BufferPointersAgree'
<1>1. Popped(tx, hs, t) \in SUBSET Txns
  BY DEF Popped, Abandoned, Deliverable, Answerable
<1>2. PointersAgree(Freed(tx, Popped(tx, hs, t)), Detach(bs, tx, Popped(tx, hs, t)))
  BY <1>1, FreedAgrees
<1>3. /\ txn' = Freed(tx, Popped(tx, hs, t))
      /\ buf' = Detach(bs, tx, Popped(tx, hs, t))
  BY DEF SendFailedReply
<1> QED
  BY <1>2, <1>3 DEF BufferPointersAgree, PointersAgree

\* A new transaction in a new buffer.
LEMMA NewAgrees ==
    ASSUME NEW tx \in [Txns -> Txn], NEW bs \in [Bufs -> Buf], PointersAgree(tx, bs),
           NEW t \in Txns, ~tx[t].live, NEW b \in Bufs, ~bs[b].live,
           NEW r, NEW q, r.live, r.buffer = b, q.live, q.txn = t
    PROVE  PointersAgree([tx EXCEPT ![t] = r], [bs EXCEPT ![b] = q])
<1>1. NIL \notin Txns \cup Bufs
  BY NilAssumption
<1>2. ASSUME NEW x \in Txns, x # t, tx[x].buffer # NIL PROVE tx[x].buffer # b
  BY <1>2 DEF PointersAgree
<1>3. ASSUME NEW x \in Bufs, x # b, bs[x].txn # NIL PROVE bs[x].txn # t
  BY <1>3, <1>1 DEF PointersAgree
<1>4. \A x \in Txns : tx[x].buffer \in Bufs \cup {NIL}
  BY DEF Txn
<1>5. \A x \in Bufs : bs[x].txn \in Txns \cup {NIL}
  BY DEF Buf
<1> QED
  BY <1>1, <1>2, <1>3, <1>4, <1>5 DEF PointersAgree

LEMMA FreeStackAgrees ==
    ASSUME TypeOK, BufferPointersAgree, NEW h \in Threads, FreeStack(h)
    PROVE  BufferPointersAgree'
<1> DEFINE walked == OnStack(h)
           tx == [t \in Txns |->
                    IF t \notin walked THEN txn[t]
                    ELSE IF Incoming(h, t) THEN [txn[t] EXCEPT !.toThread = NIL, !.buffer = NIL]
                    ELSE [txn[t] EXCEPT !.from = NIL]]
           gone == {t \in walked : Incoming(h, t)}
           bs == Detach(buf, txn, gone)
           hs == [thr EXCEPT ![h].stack = NIL]
<1>1. gone \in SUBSET Txns
  BY DEF OnStack
<1>2. ASSUME NEW t \in Txns
      PROVE  /\ tx[t] \in Txn /\ tx[t].live = txn[t].live
             /\ tx[t].buffer = IF t \in gone THEN NIL ELSE txn[t].buffer
  <2>1. txn[t] \in Txn
    BY DEF TypeOK
  <2>2. LET r == [txn[t] EXCEPT !.toThread = NIL, !.buffer = NIL]
        IN  r \in Txn /\ r.live = txn[t].live /\ r.buffer = NIL
    BY <2>1 DEF Txn
  <2>3. LET r == [txn[t] EXCEPT !.from = NIL]
        IN  r \in Txn /\ r.live = txn[t].live /\ r.buffer = txn[t].buffer
    BY <2>1 DEF Txn
  <2> QED
    BY <2>1, <2>2, <2>3
<1>3. tx \in [Txns -> Txn] /\ bs \in [Bufs -> Buf]
  BY <1>2, FreedType DEF TypeOK
<1>4. PointersAgree(Freed(txn, gone), bs)
  BY <1>1, FreedAgrees DEF TypeOK, BufferPointersAgree
<1>5. PointersAgree(tx, bs)
  <2> DEFINE fx == Freed(txn, gone)
  <2> DEFINE Same(t) == /\ fx[t].buffer = tx[t].buffer
                        /\ tx[t].buffer # NIL /\ fx[t].live => tx[t].live
  <2>1. \A t \in Txns : Same(t)
    BY <1>2 DEF Freed, NoTxn
  <2>2. \A b \in Bufs : bs[b].txn \in Txns \cup {NIL}
    BY <1>3 DEF Buf
  <2>3. /\ \A t \in Txns : fx[t].buffer # NIL =>
              fx[t].live /\ bs[fx[t].buffer].live /\ bs[fx[t].buffer].txn = t
        /\ \A b \in Bufs : bs[b].txn # NIL => bs[b].live /\ fx[bs[b].txn].buffer = b
    BY <1>4 DEF PointersAgree
  <2> HIDE DEF tx, bs, gone, fx
  <2>4. \A t \in Txns : tx[t].buffer # NIL =>
             tx[t].live /\ bs[tx[t].buffer].live /\ bs[tx[t].buffer].txn = t
    <3> SUFFICES ASSUME NEW t \in Txns, tx[t].buffer # NIL
                 PROVE  tx[t].live /\ bs[tx[t].buffer].live /\ bs[tx[t].buffer].txn = t
      OBVIOUS
    <3>1. Same(t)
      BY <2>1
    <3> QED
      BY <2>3, <3>1
  <2>5. \A b \in Bufs : bs[b].txn # NIL => bs[b].live /\ tx[bs[b].txn].buffer = b
    <3> SUFFICES ASSUME NEW b \in Bufs, bs[b].txn # NIL
                 PROVE  bs[b].live /\ tx[bs[b].txn].buffer = b
      OBVIOUS
    <3>1. bs[b].live /\ fx[bs[b].txn].buffer = b /\ bs[b].txn \in Txns
      BY <2>2, <2>3
    <3> QED
      BY <2>1, <3>1
  <2> QED
    BY <2>4, <2>5 DEF PointersAgree
<1>6. CASE txn' = tx /\ buf' = bs
  BY <1>5, <1>6 DEF BufferPointersAgree, PointersAgree
<1>7. CASE SendFailedReply(tx, bs, hs, thr[h].stack, "BR_DEAD_REPLY")
  <2> HIDE DEF tx, bs, hs
  <2> QED
    BY <1>3, <1>5, <1>7, SendFailedReplyAgrees
<1>8. CASE UNCHANGED <<txn, buf, thr>>
  BY <1>8 DEF BufferPointersAgree, PointersAgree
<1> QED
  BY <1>6, <1>7, <1>8 DEF FreeStack

LEMMA DropAgrees ==
    ASSUME TypeOK, BufferPointersAgree, NEW hs, NEW t \in Txns, Drop(hs, t)
    PROVE  BufferPointersAgree'
<1>1. CASE UNCHANGED <<txn, buf>>
  BY <1>1 DEF BufferPointersAgree, PointersAgree
<1>2. CASE SendFailedReply(txn, buf, hs, t, "BR_DEAD_REPLY")
  BY <1>2, SendFailedReplyAgrees DEF TypeOK, BufferPointersAgree
<1>3. CASE txn' = Freed(txn, {t}) /\ buf' = Detach(buf, txn, {t})
  <2>1. PointersAgree(Freed(txn, {t}), Detach(buf, txn, {t}))
    BY FreedAgrees DEF TypeOK, BufferPointersAgree
  <2> QED
    BY <1>3, <2>1 DEF BufferPointersAgree, PointersAgree
<1> QED
  BY <1>1, <1>2, <1>3 DEF Drop

\* A transaction and its buffer never point to something freed, and always to
\* each other: it is inductive with the types, so it holds whatever the number
\* of threads, calls and buffers and in whichever order they die.
THEOREM PointersAgreeAlways == Spec => []BufferPointersAgree
<1> USE NilAssumption
<1>1. Init => BufferPointersAgree
  BY DEF Init, BufferPointersAgree, PointersAgree, NoTxn, NoBuf
<1>2. TypeOK /\ BufferPointersAgree /\ [Next]_vars => BufferPointersAgree'
  <2> SUFFICES ASSUME TypeOK, BufferPointersAgree, [Next]_vars PROVE BufferPointersAgree'
    OBVIOUS
  <2>1. txn \in [Txns -> Txn] /\ buf \in [Bufs -> Buf] /\ thr \in [Threads -> Thread]
    BY DEF TypeOK
  <2>2. ASSUME UNCHANGED <<txn, buf>> PROVE BufferPointersAgree'
    BY <2>2 DEF BufferPointersAgree, PointersAgree
  <2>3. ASSUME NEW tx, NEW bs, PointersAgree(tx, bs), txn' = tx, buf' = bs
        PROVE  BufferPointersAgree'
    BY <2>3 DEF BufferPointersAgree, PointersAgree
  <2>4. ASSUME NEW h \in Threads, NEW n \in Nodes, Call(h, n) PROVE BufferPointersAgree'
    <3>1. PICK t \in FreeTxns, b \in FreeBufs :
            /\ txn' = [txn EXCEPT ![t] = [live |-> TRUE, from |-> h,
                           fromParent |-> thr[h].stack, toThread |-> Callee(h, Owner[n]),
                           toParent |-> NIL, oneway |-> FALSE, buffer |-> b]]
            /\ buf' = [buf EXCEPT ![b] = NewBuf(Owner[n], n, t, FALSE)]
      BY <2>4 DEF Call
    <3>2. t \in Txns /\ ~txn[t].live /\ b \in Bufs /\ ~buf[b].live
      BY DEF FreeTxns, FreeBufs
    <3> DEFINE r == [live |-> TRUE, from |-> h,
                     fromParent |-> thr[h].stack, toThread |-> Callee(h, Owner[n]),
                     toParent |-> NIL, oneway |-> FALSE, buffer |-> b]
               q == NewBuf(Owner[n], n, t, FALSE)
    <3>3. r.live /\ r.buffer = b /\ q.live /\ q.txn = t
      BY DEF NewBuf
    <3> HIDE DEF r, q
    <3>4. PointersAgree([txn EXCEPT ![t] = r], [buf EXCEPT ![b] = q])
      BY <2>1, <3>2, <3>3, NewAgrees DEF BufferPointersAgree
    <3> QED
      BY <2>3, <3>1, <3>4 DEF r, q
  <2>5. ASSUME NEW h \in Threads, NEW n \in Nodes, CallOneWay(h, n) PROVE BufferPointersAgree'
    <3>1. PICK t \in FreeTxns, b \in FreeBufs :
            /\ txn' = [txn EXCEPT ![t] = [NoTxn EXCEPT !.live = TRUE, !.oneway = TRUE, !.buffer = b]]
            /\ buf' = [buf EXCEPT ![b] = NewBuf(Owner[n], n, t, TRUE)]
      BY <2>5 DEF CallOneWay
    <3>2. t \in Txns /\ ~txn[t].live /\ b \in Bufs /\ ~buf[b].live
      BY DEF FreeTxns, FreeBufs
    <3> DEFINE r == [NoTxn EXCEPT !.live = TRUE, !.oneway = TRUE, !.buffer = b]
               q == NewBuf(Owner[n], n, t, TRUE)
    <3>3. r.live /\ r.buffer = b /\ q.live /\ q.txn = t
      BY DEF NewBuf, NoTxn
    <3> HIDE DEF r, q
    <3>4. PointersAgree([txn EXCEPT ![t] = r], [buf EXCEPT ![b] = q])
      BY <2>1, <3>2, <3>3, NewAgrees DEF BufferPointersAgree
    <3> QED
      BY <2>3, <3>1, <3>4 DEF r, q
  <2>6. ASSUME NEW h \in Threads, Reply(h) PROVE BufferPointersAgree'
    <3> DEFINE call == thr[h].stack
               tx == Freed(txn, {call})
               bs == Detach(buf, txn, {call})
    <3>1. PICK t \in FreeTxns, b \in FreeBufs :
            /\ txn' = [tx EXCEPT
                  ![t] = [NoTxn EXCEPT !.live = TRUE, !.toThread = Caller(h), !.buffer = b]]
            /\ buf' = [bs EXCEPT ![b] = NewBuf(ProcOf[Caller(h)], NIL, t, FALSE)]
      BY <2>6 DEF Reply
    <3>2. call \in Txns
      BY <2>1, <2>6 DEF Reply, CanReply, Thread
    <3>3. PointersAgree(tx, bs) /\ tx \in [Txns -> Txn] /\ bs \in [Bufs -> Buf]
      BY <2>1, <3>2, FreedAgrees, FreedType DEF BufferPointersAgree
    <3>4. t \in Txns /\ ~tx[t].live /\ b \in Bufs /\ ~bs[b].live
      <4>1. ~txn[t].live /\ ~buf[b].live /\ t \in Txns /\ b \in Bufs /\ buf[b] \in Buf
        BY <2>1 DEF FreeTxns, FreeBufs
      <4>2. ~[buf[b] EXCEPT !.txn = NIL].live
        BY <4>1 DEF Buf
      <4> QED
        BY <4>1, <4>2 DEF Freed, Detach, NoTxn
    <3> DEFINE r == [NoTxn EXCEPT !.live = TRUE, !.toThread = Caller(h), !.buffer = b]
               q == NewBuf(ProcOf[Caller(h)], NIL, t, FALSE)
    <3>5. r.live /\ r.buffer = b /\ q.live /\ q.txn = t
      BY DEF NewBuf, NoTxn
    <3> HIDE DEF r, q, tx, bs
    <3>6. PointersAgree([tx EXCEPT ![t] = r], [bs EXCEPT ![b] = q])
      BY <3>3, <3>4, <3>5, NewAgrees
    <3> QED
      BY <2>3, <3>1, <3>6 DEF r, q
  <2>7. ASSUME NEW h \in Threads, ReplyToDead(h) \/ ReplyFails(h) PROVE BufferPointersAgree'
    <3>1. CASE UNCHANGED <<txn, buf>>
      BY <2>2, <3>1
    <3>2. CASE \E code : SendFailedReply(txn, buf, Replied(h), thr[h].stack, code)
      BY <2>1, <3>2, SendFailedReplyAgrees DEF BufferPointersAgree
    <3> QED
      BY <2>7, <3>1, <3>2 DEF ReplyToDead, ReplyFails
  <2>8. ASSUME NEW h \in Threads, NEW b \in Bufs, FreeBuffer(h, b) PROVE BufferPointersAgree'
    <3> DEFINE t == buf[b].txn
    <3>1. t \in Txns \cup {NIL}
      BY <2>1 DEF Buf
    <3>2. ASSUME NEW x \in Txns
          PROVE  txn'[x].live = txn[x].live /\ txn'[x].buffer = IF x = t THEN NIL ELSE txn[x].buffer
      <4>1. txn[x] \in Txn
        BY <2>1
      <4>2. txn'[x] = IF x = t THEN [txn[x] EXCEPT !.buffer = NIL] ELSE txn[x]
        BY <2>1, <2>8, <3>1 DEF FreeBuffer
      <4> QED
        BY <4>1, <4>2 DEF Txn
    <3>3. \A x \in Bufs : buf'[x] = IF x = b THEN NoBuf ELSE buf[x]
      BY <2>1, <2>8 DEF FreeBuffer
    <3>4. \A x \in Txns : txn[x].buffer \in Bufs \cup {NIL}
      BY <2>1 DEF Txn
    <3>5. \A x \in Bufs : buf[x].txn \in Txns \cup {NIL}
      BY <2>1 DEF Buf
    <3>6. NoBuf.txn = NIL
      BY DEF NoBuf
    <3> QED
      BY <3>1, <3>2, <3>3, <3>4, <3>5, <3>6 DEF BufferPointersAgree, PointersAgree
  <2>9. ASSUME NEW h \in Threads, ReadTxn(h) PROVE BufferPointersAgree'
    <3> DEFINE t == NextTxn(h)
               b == txn[t].buffer
               call == buf[b].node # NIL /\ ~txn[t].oneway
    <3>1. CASE b = NIL
      BY <2>2, <2>9, <3>1 DEF ReadTxn
    <3>2. CASE b # NIL
      <4>1. /\ buf' = [buf EXCEPT ![b] = [buf[b] EXCEPT !.userFree = TRUE,
                                        !.txn = IF call THEN buf[b].txn ELSE NIL]]
            /\ txn' = IF call
                      THEN [txn EXCEPT ![t] = [txn[t] EXCEPT !.toThread = h, !.toParent = thr[h].stack]]
                      ELSE Freed(txn, {t})
        BY <2>9, <3>2 DEF ReadTxn
      <4>2. ASSUME NEW x \in Bufs
            PROVE  /\ buf'[x].live = buf[x].live
                   /\ buf'[x].txn = IF x = b /\ ~call THEN NIL ELSE buf[x].txn
                   /\ buf[x].txn \in Txns \cup {NIL}
        <5>1. buf[x] \in Buf
          BY <2>1
        <5>2. buf'[x] = IF x = b THEN [buf[x] EXCEPT !.userFree = TRUE,
                                        !.txn = IF call THEN buf[x].txn ELSE NIL] ELSE buf[x]
          BY <2>1, <4>1
        <5> HIDE DEF call, b
        <5> QED
          BY <5>1, <5>2 DEF Buf
      <4>3. ASSUME NEW x \in Txns
            PROVE  /\ txn'[x].live = txn[x].live \/ (x = t /\ ~call)
                   /\ txn'[x].buffer = IF x = t /\ ~call THEN NIL ELSE txn[x].buffer
                   /\ txn[x].buffer \in Bufs \cup {NIL}
        <5>1. txn[x] \in Txn
          BY <2>1
        <5>2. CASE call
          <6>1. txn'[x] = IF x = t THEN [txn[x] EXCEPT !.toThread = h, !.toParent = thr[h].stack]
                          ELSE txn[x]
            BY <2>1, <4>1, <5>2
          <6> HIDE DEF call, t
          <6> QED
            BY <5>1, <5>2, <6>1 DEF Txn
        <5>3. CASE ~call
          BY <4>1, <5>1, <5>3 DEF Freed, NoTxn, Txn
        <5> QED
          BY <5>2, <5>3
      <4>4. PointersAgree(txn, buf)
        BY DEF BufferPointersAgree
      <4>5. b = txn[t].buffer
        OBVIOUS
      <4> HIDE DEF call, t, b
      <4>6. ASSUME NEW x \in Txns, txn'[x].buffer # NIL
            PROVE  txn'[x].live /\ buf'[txn'[x].buffer].live /\ buf'[txn'[x].buffer].txn = x
        <5>1. ~(x = t /\ ~call) /\ txn'[x].buffer = txn[x].buffer /\ txn[x].buffer \in Bufs
          BY <4>3, <4>6
        <5>2. txn[x].live /\ buf[txn[x].buffer].live /\ buf[txn[x].buffer].txn = x
          BY <4>4, <4>6, <5>1 DEF PointersAgree
        <5>3. ~(txn[x].buffer = b /\ ~call)
          <6>1. CASE b = txn[x].buffer /\ ~call
            <7>1. t \in Txns
              BY <2>9, NextTxnType DEF t
            <7>2. txn[t].buffer # NIL => buf[txn[t].buffer].txn = t
              BY <4>4, <7>1 DEF PointersAgree
            <7>3. x = t
              BY <3>2, <4>5, <5>2, <6>1, <7>2
            <7> QED
              BY <5>1, <6>1, <7>3
          <6> QED
            BY <6>1
        <5> QED
          BY <4>2, <4>3, <5>1, <5>2, <5>3
      <4>7. ASSUME NEW x \in Bufs, buf'[x].txn # NIL
            PROVE  buf'[x].live /\ txn'[buf'[x].txn].buffer = x
        <5>1. ~(x = b /\ ~call) /\ buf'[x].txn = buf[x].txn /\ buf[x].txn \in Txns
          BY <4>2, <4>7
        <5>2. buf[x].live /\ txn[buf[x].txn].buffer = x
          BY <4>4, <4>7, <5>1 DEF PointersAgree
        <5>3. ~(buf[x].txn = t /\ ~call)
          BY <4>5, <5>1, <5>2
        <5> QED
          BY <4>2, <4>3, <5>1, <5>2, <5>3
      <4> QED
        BY <4>6, <4>7 DEF BufferPointersAgree, PointersAgree
    <3> QED
      BY <3>1, <3>2
  <2>10. ASSUME NEW h \in Threads, ThreadExit(h) \/ ReleaseThread(h) PROVE BufferPointersAgree'
    BY <2>10, FreeStackAgrees DEF ThreadExit, ReleaseThread
  <2>11. ASSUME NEW h \in Threads, ReleaseThreadWork(h) PROVE BufferPointersAgree'
    <3>1. Head(thr[h].todo) \in Txns \cup {Complete}
      BY <2>1, <2>11, TodoType DEF ReleaseThreadWork
    <3>2. CASE Head(thr[h].todo) = Complete
      BY <2>2, <2>11, <3>2 DEF ReleaseThreadWork
    <3>3. CASE Head(thr[h].todo) # Complete
      BY <2>11, <3>1, <3>3, DropAgrees DEF ReleaseThreadWork
    <3> QED
      BY <3>2, <3>3
  <2>12. ASSUME NEW n \in Nodes, ReleaseNodeWork(n) PROVE BufferPointersAgree'
    <3>1. node[n].todo \in Seq(Txns) /\ node[n].todo # <<>>
      BY <2>12 DEF ReleaseNodeWork, TypeOK
    <3>2. Head(node[n].todo) \in Txns
      BY <3>1
    <3> QED
      BY <2>12, <3>2, DropAgrees DEF ReleaseNodeWork
  <2>13. ASSUME NEW p \in Procs, ReleaseProcWork(p) PROVE BufferPointersAgree'
    <3>1. ptodo[p] \in Seq(Txns) /\ ptodo[p] # <<>>
      BY <2>13 DEF ReleaseProcWork, TypeOK
    <3>2. Head(ptodo[p]) \in Txns
      BY <3>1
    <3> QED
      BY <2>13, <3>2, DropAgrees DEF ReleaseProcWork
  <2>14. ASSUME NEW p \in Procs, ReleaseProc(p) PROVE BufferPointersAgree'
    <3> DEFINE gone == {b \in Bufs : buf[b].live /\ buf[b].proc = p}
               left == {buf[b].txn : b \in gone} \ {NIL}
    <3>1. ASSUME NEW x \in Txns
          PROVE  /\ txn'[x].live = txn[x].live
                 /\ txn'[x].buffer = IF x \in left THEN NIL ELSE txn[x].buffer
                 /\ txn[x].buffer \in Bufs \cup {NIL}
      <4>1. txn[x] \in Txn
        BY <2>1
      <4>2. txn'[x] = IF x \in left THEN [txn[x] EXCEPT !.buffer = NIL] ELSE txn[x]
        BY <2>14 DEF ReleaseProc
      <4> HIDE DEF left
      <4> QED
        BY <4>1, <4>2 DEF Txn
    <3>2. ASSUME NEW x \in Bufs
          PROVE  /\ buf'[x] = IF x \in gone THEN NoBuf ELSE buf[x]
                 /\ buf[x].txn \in Txns \cup {NIL}
      BY <2>1, <2>14 DEF ReleaseProc, Buf
    <3>3. NoBuf.txn = NIL
      BY DEF NoBuf
    <3> QED
      BY <3>1, <3>2, <3>3 DEF BufferPointersAgree, PointersAgree
  <2>15. ASSUME \/ \E h \in Threads :
                     \/ \E n \in Nodes, oneway \in BOOLEAN :
                          CallRefused(h, n, oneway) \/ CallFails(h, n, oneway)
                     \/ ReplyRefused(h) \/ ReadError(h) \/ ReadComplete(h) \/ ThreadFreed(h)
                \/ \E p \in Procs : Close(p) \/ DeferredRelease(p)
                \/ UNCHANGED vars
         PROVE  BufferPointersAgree'
    <3>1. UNCHANGED <<txn, buf>>
      BY <2>15, ZenonT(60) DEF CallRefused, CallFails, ReplyRefused, Refuse, ReadError, ReadComplete,
                   ThreadFreed, Close, DeferredRelease, vars
    <3> QED
      BY <2>2, <3>1
  <2> QED
    BY <2>4, <2>5, <2>6, <2>7, <2>8, <2>9, <2>10, <2>11, <2>12, <2>13, <2>14, <2>15
       DEF Next, Write, Read, Worker
<1> QED
  BY <1>1, <1>2, TypeCorrect, PTL DEF Spec

-------------------------------------------------------------------------------
(* Induction on numbers, as a statement about sets *)

LEMMA NatInduct ==
    ASSUME NEW A, A \subseteq Nat, 0 \in A, \A n \in A : n + 1 \in A
    PROVE  A = Nat
<1>. SUFFICES ASSUME NEW m \in Nat, m \notin A PROVE FALSE
  OBVIOUS
<1>. DEFINE B == {y \in A : y < m}
            f == [y \in B |-> y + 1]
<1>1. 0 \in B
  <2>1. m # 0
    OBVIOUS
  <2>. QED
    BY <2>1
<1>2. \A y \in B : y + 1 \in B \ {0}
  <2>. SUFFICES ASSUME NEW y \in B PROVE y + 1 \in B \ {0}
    OBVIOUS
  <2>1. y \in Nat /\ y + 1 \in A /\ y < m
    OBVIOUS
  <2>2. y + 1 # m
    BY <2>1
  <2>. QED
    BY <2>1, <2>2
<1>3. IsFiniteSet(B)
  <2>1. \A y \in B : y \in Nat /\ y <= m
    OBVIOUS
  <2>. HIDE DEF B
  <2>2. B \in SUBSET Nat
    BY <2>1
  <2>. QED
    BY <2>1, <2>2, FS_BoundedSetOfNaturals
<1>4. /\ IsFiniteSet(B \ {0})
      /\ Cardinality(B \ {0}) = Cardinality(B) - 1
      /\ Cardinality(B) \in Nat
  BY <1>1, <1>3, FS_RemoveElement, FS_CardinalityType
<1>5. f \in [B -> B \ {0}]
  BY <1>2
<1>6. Cardinality(B \ {0}) < Cardinality(B)
  BY <1>4
<1>7. \E x, y \in B : x # y /\ f[x] = f[y]
  <2>. HIDE DEF B, f
  <2>. QED
    BY <1>3, <1>4, <1>5, <1>6, FS_PigeonHole
<1>8. \A x, y \in B : x \in Nat /\ y \in Nat /\ f[x] = x + 1 /\ f[y] = y + 1
  OBVIOUS
<1>. QED
  BY <1>7, <1>8

-------------------------------------------------------------------------------
(* A walk along pointers, NIL from where it ends *)

IsWalk(f, g, t) ==
    /\ f[0] = t
    /\ \A k \in 1..Depth : f[k] = IF f[k-1] = NIL THEN NIL ELSE g[f[k-1]]

Reached(f) == {x \in Txns : \E k \in 0..Depth : f[k] = x}

\* g leads from every member of D to a smaller part of it, or ends.
Descends(g, D, A) ==
    /\ D \subseteq Txns
    /\ \A x \in D : /\ g[x] \in D \cup {NIL} /\ x \in A[x]
                    /\ g[x] # NIL => A[g[x]] \subseteq A[x] \ {x}

LEMMA DepthIs == Depth \in Nat
BY FiniteAssumption, FS_CardinalityType DEF Depth

LEMMA WalkIn ==
    ASSUME NEW g, NEW D, NEW t \in D \cup {NIL}, NEW f, IsWalk(f, g, t),
           \A x \in D : g[x] \in D \cup {NIL}
    PROVE  \A k \in 0..Depth : f[k] \in D \cup {NIL}
<1>. DEFINE A == {k \in Nat : k <= Depth => f[k] \in D \cup {NIL}}
<1>1. 0 \in A
  BY DEF IsWalk
<1>2. ASSUME NEW k \in A PROVE k + 1 \in A
  <2>. SUFFICES ASSUME k + 1 <= Depth PROVE f[k+1] \in D \cup {NIL}
    OBVIOUS
  <2>1. k \in Nat /\ k + 1 \in 1..Depth /\ (k + 1) - 1 = k /\ f[k] \in D \cup {NIL}
    BY DepthIs
  <2>2. f[k+1] = IF f[k] = NIL THEN NIL ELSE g[f[k]]
    BY <2>1 DEF IsWalk
  <2>. QED
    BY <2>1, <2>2
<1>3. A = Nat
  <2>. HIDE DEF A
  <2>1. A \subseteq Nat
    BY DEF A
  <2>. QED
    BY <1>1, <1>2, <2>1, NatInduct
<1>. QED
  BY <1>3, DepthIs

\* The walk exists.
Walks(f, g, t) ==
    f = [k \in 0..Depth |-> IF k = 0 THEN t ELSE IF f[k-1] = NIL THEN NIL ELSE g[f[k-1]]]

LEMMA WalkExists == \A g, t : \E f : Walks(f, g, t)
<1>. SUFFICES ASSUME NEW g, NEW t
     PROVE  \E f : f = [k \in 0..Depth |-> IF k = 0 THEN t ELSE IF f[k-1] = NIL THEN NIL ELSE g[f[k-1]]]
  BY DEF Walks
<1>. DEFINE P(n, f) == f = [k \in 0..n |-> IF k = 0 THEN t ELSE IF f[k-1] = NIL THEN NIL ELSE g[f[k-1]]]
            A == {n \in Nat : \E f : P(n, f)}
<1>1. 0 \in A
  <2>. DEFINE f == [k \in 0..0 |-> t]
  <2>1. f = [k \in 0..0 |-> IF k = 0 THEN t ELSE IF f[k-1] = NIL THEN NIL ELSE g[f[k-1]]]
    OBVIOUS
  <2>. QED
    BY <2>1
<1>2. ASSUME NEW n \in A PROVE n + 1 \in A
  <2>1. n \in Nat /\ \E f : P(n, f)
    OBVIOUS
  <2>2. PICK f : P(n, f)
    BY <2>1
  <2>. DEFINE e == IF f[n] = NIL THEN NIL ELSE g[f[n]]
              h == [k \in 0..(n+1) |-> IF k = n + 1 THEN e ELSE f[k]]
  <2>3. \A k \in 0..(n+1) : h[k] = IF k = 0 THEN t ELSE IF h[k-1] = NIL THEN NIL ELSE g[h[k-1]]
    <3>. SUFFICES ASSUME NEW k \in 0..(n+1)
                  PROVE  h[k] = IF k = 0 THEN t ELSE IF h[k-1] = NIL THEN NIL ELSE g[h[k-1]]
      OBVIOUS
    <3>1. CASE k = n + 1
      <4>1. k # 0 /\ k - 1 = n /\ n \in 0..(n+1) /\ n # n + 1
        BY <2>1, <3>1
      <4>2. h[k] = e /\ h[k-1] = f[n]
        BY <3>1, <4>1
      <4>. QED
        BY <4>1, <4>2
    <3>2. CASE k # n + 1
      <4>1. k \in 0..n /\ (k # 0 => k - 1 \in 0..n)
        BY <2>1, <3>2
      <4>2. h[k] = f[k] /\ (k # 0 => h[k-1] = f[k-1])
        BY <2>1, <4>1
      <4>3. f[k] = IF k = 0 THEN t ELSE IF f[k-1] = NIL THEN NIL ELSE g[f[k-1]]
        BY <2>2, <4>1
      <4>. QED
        BY <4>1, <4>2, <4>3
    <3>. QED
      BY <3>1, <3>2
  <2>4. P(n + 1, h)
    <3>. DEFINE r == [k \in 0..(n+1) |-> IF k = 0 THEN t ELSE IF h[k-1] = NIL THEN NIL ELSE g[h[k-1]]]
    <3>1. \A k \in 0..(n+1) : h[k] = r[k]
      BY <2>3
    <3>2. h = r
      BY <3>1, Zenon
    <3>. QED
      BY <3>2, Zenon
  <2>5. n + 1 \in Nat
    BY <2>1
  <2>. HIDE DEF P, h
  <2>6. \E f2 : P(n + 1, f2)
    BY <2>4
  <2>. QED
    BY <2>5, <2>6
<1>3. A = Nat
  <2>. HIDE DEF A
  <2>1. A \subseteq Nat
    BY DEF A
  <2>. QED
    BY <1>1, <1>2, <2>1, NatInduct
<1>4. Depth \in A
  BY <1>3, DepthIs
<1>. QED
  BY <1>4

\* It never meets a member twice, so it ends before Depth is used up: what it
\* reaches is closed under g.
LEMMA WalkOrder ==
    ASSUME NEW g, NEW D, NEW A, Descends(g, D, A), NEW t \in D \cup {NIL},
           NEW f, IsWalk(f, g, t), NEW i \in 0..Depth
    PROVE  \A j \in 0..Depth : i < j /\ f[j] # NIL =>
               /\ f[i] \in D /\ f[j] \in D /\ f[j] \in A[f[i]] \ {f[i]}
               /\ A[f[j]] \subseteq A[f[i]] \ {f[i]}
<1>. DEFINE R(j) == f[j] # NIL => /\ f[i] # NIL /\ f[j] \in A[f[i]] \ {f[i]}
                                  /\ A[f[j]] \subseteq A[f[i]] \ {f[i]}
            B == {k \in Nat : i + 1 + k <= Depth => R(i + 1 + k)}
<1>1. \A k \in 0..Depth : f[k] \in D \cup {NIL}
  BY WalkIn DEF Descends
<1>2. \A k \in 0..Depth : k + 1 <= Depth => f[k+1] = IF f[k] = NIL THEN NIL ELSE g[f[k]]
  <2>. SUFFICES ASSUME NEW k \in 0..Depth, k + 1 <= Depth
                PROVE  f[k+1] = IF f[k] = NIL THEN NIL ELSE g[f[k]]
    OBVIOUS
  <2>1. k + 1 \in 1..Depth /\ (k + 1) - 1 = k
    BY DepthIs
  <2>. QED
    BY <2>1 DEF IsWalk
<1>3. 0 \in B
  <2>. SUFFICES ASSUME i + 1 <= Depth, f[i+1] # NIL PROVE R(i + 1)
    BY i \in Nat, i + 1 + 0 = i + 1
  <2>1. f[i] # NIL /\ f[i+1] = g[f[i]]
    BY <1>2
  <2>2. f[i] \in D /\ f[i+1] \in D /\ i + 1 \in 0..Depth
    BY <1>1, <2>1 DEF Descends
  <2>. QED
    BY <2>1, <2>2 DEF Descends
<1>4. ASSUME NEW k \in B PROVE k + 1 \in B
  <2>. DEFINE j == i + 1 + k
  <2>1. k \in Nat /\ j \in Nat /\ i + 1 + (k + 1) = j + 1
    OBVIOUS
  <2>. SUFFICES ASSUME j + 1 <= Depth, f[j+1] # NIL PROVE R(j + 1)
    BY <2>1
  <2>2. j \in 0..Depth /\ R(j)
    <3>1. j <= Depth /\ j \in 0..Depth
      BY <2>1, DepthIs
    <3>. HIDE DEF R
    <3>. QED
      BY <3>1
  <2>. HIDE DEF j
  <2>3. f[j] # NIL /\ f[j+1] = g[f[j]]
    BY <1>2, <2>2
  <2>4. f[j] \in D /\ f[j+1] \in D
    BY <1>1, <2>2, <2>3 DEF Descends
  <2>5. A[f[j+1]] \subseteq A[f[j]] /\ f[j+1] \in A[f[j+1]]
    BY <2>3, <2>4 DEF Descends
  <2>. QED
    BY <2>2, <2>3, <2>5
<1>5. B = Nat
  <2>. HIDE DEF B
  <2>1. B \subseteq Nat
    BY DEF B
  <2>. QED
    BY <1>3, <1>4, <2>1, NatInduct
<1>. SUFFICES ASSUME NEW j \in 0..Depth, i < j, f[j] # NIL
              PROVE  /\ f[i] \in D /\ f[j] \in D /\ f[j] \in A[f[i]] \ {f[i]}
                     /\ A[f[j]] \subseteq A[f[i]] \ {f[i]}
  OBVIOUS
<1>6. j - i - 1 \in Nat /\ i + 1 + (j - i - 1) = j /\ j <= Depth
  BY DepthIs
<1>7. R(j)
  <2>1. j - i - 1 \in B
    BY <1>5, <1>6
  <2>. HIDE DEF R
  <2>. QED
    BY <1>6, <2>1
<1>. QED
  BY <1>1, <1>7

LEMMA WalkReaches ==
    ASSUME NEW g, NEW D, NEW A, Descends(g, D, A), NEW t \in D \cup {NIL},
           NEW f, IsWalk(f, g, t)
    PROVE  /\ Reached(f) \subseteq D
           /\ t # NIL => t \in Reached(f)
           /\ \A x \in Reached(f) : g[x] # NIL => g[x] \in Reached(f)
<1>1. \A k \in 0..Depth : f[k] \in D \cup {NIL}
  BY WalkIn DEF Descends
<1>2. NIL \notin Txns /\ D \subseteq Txns /\ 0 \in 0..Depth /\ f[0] = t
  BY NilAssumption, DepthIs DEF Descends, IsWalk
<1>3. ASSUME NEW x \in Reached(f), g[x] # NIL PROVE g[x] \in Reached(f)
  <2>1. PICK k \in 0..Depth : f[k] = x
    BY DEF Reached
  <2>2. x \in D /\ x # NIL /\ g[x] \in Txns
    BY <1>1, <1>2, <1>3, <2>1 DEF Descends, Reached
  <2>3. CASE k < Depth
    <3>1. k + 1 \in 1..Depth /\ (k + 1) - 1 = k /\ k + 1 \in 0..Depth
      BY <2>3, DepthIs
    <3>2. f[k+1] = g[x]
      BY <2>1, <2>2, <3>1 DEF IsWalk
    <3>. QED
      BY <2>2, <3>1, <3>2 DEF Reached
  <2>4. CASE k = Depth
    <3>. DEFINE h == [i \in 0..Depth |-> f[i]]
    <3>1. \A i \in 0..Depth : f[i] \in D
      <4>1. \A i \in 0..Depth : i < k => f[i] \in D
        BY <2>1, <2>2, WalkOrder
      <4>. QED
        BY <2>1, <2>2, <2>4, <4>1, DepthIs
    <3>2. h \in [0..Depth -> Txns]
      BY <1>2, <3>1
    <3>3. IsFiniteSet(0..Depth) /\ Cardinality(0..Depth) = Depth + 1
      BY FS_Interval, DepthIs
    <3>4. IsFiniteSet(Txns) /\ Cardinality(Txns) < Cardinality(0..Depth)
      BY <3>3, FiniteAssumption, DepthIs DEF Depth
    <3>5. \E i, j \in 0..Depth : i # j /\ h[i] = h[j]
      <4>. HIDE DEF h
      <4>. QED
        BY <3>2, <3>3, <3>4, FS_PigeonHole
    <3>6. PICK i \in 0..Depth, j \in 0..Depth : i # j /\ f[i] = f[j]
      BY <3>5
    <3>7. \A l, m \in 0..Depth : l < m => f[m] # f[l]
      BY <1>2, <3>1, WalkOrder
    <3>8. i < j \/ j < i
      BY <3>6
    <3>. QED
      BY <3>6, <3>7, <3>8
  <2>. QED
    BY <2>3, <2>4, DepthIs
<1>. QED
  BY <1>1, <1>2, <1>3 DEF Reached

-------------------------------------------------------------------------------
(* The callers of a call: itself, its from_parent, and so on *)

UpClosed(tx, S) == \A x \in S \ {NIL} : tx[x].fromParent \in S
Anc(tx, t) ==
    {x \in Txns : \A S \in SUBSET (Txns \cup {NIL}) : t \in S /\ UpClosed(tx, S) => x \in S}

\* The calls in C form chains: every call has one caller and is the caller of
\* one call at most, and no chain closes.
Linked(C, tx) ==
    /\ C \subseteq Txns
    /\ \A t \in C : tx[t].fromParent \in C \cup {NIL}
    /\ \A t, u \in C : tx[t].fromParent # NIL /\ tx[t].fromParent = tx[u].fromParent => t = u
    /\ \A t \in C : t \notin Anc(tx, tx[t].fromParent)

Childless(C, tx, t) == \A c \in C : tx[c].fromParent # t

LEMMA ParentType ==
    ASSUME NEW tx \in [Txns -> Txn], NEW t \in Txns
    PROVE  tx[t].fromParent \in Txns \cup {NIL}
<1>1. tx[t] \in Txn
  OBVIOUS
<1>. QED
  BY <1>1 DEF Txn

LEMMA AncLeast ==
    ASSUME NEW tx, NEW t, NEW S, S \subseteq Txns \cup {NIL}, t \in S, UpClosed(tx, S)
    PROVE  Anc(tx, t) \subseteq S
BY DEF Anc

LEMMA AncNil ==
    ASSUME NEW tx
    PROVE  Anc(tx, NIL) = {}
<1>1. UpClosed(tx, {NIL})
  BY DEF UpClosed
<1>2. Anc(tx, NIL) \subseteq {NIL}
  BY <1>1, AncLeast
<1>. QED
  BY <1>2, NilAssumption DEF Anc

LEMMA AncUp ==
    ASSUME NEW tx \in [Txns -> Txn], NEW t \in Txns \cup {NIL}
    PROVE  /\ Anc(tx, t) \subseteq Txns
           /\ t # NIL => t \in Anc(tx, t)
           /\ \A x \in Anc(tx, t) : tx[x].fromParent \in Anc(tx, t) \cup {NIL}
           /\ UpClosed(tx, Anc(tx, t) \cup {NIL})
<1>1. Anc(tx, t) \subseteq Txns /\ (t # NIL => t \in Anc(tx, t))
  BY DEF Anc
<1>2. ASSUME NEW x \in Anc(tx, t), tx[x].fromParent # NIL
      PROVE  tx[x].fromParent \in Anc(tx, t)
  <2>1. x \in Txns /\ x # NIL /\ tx[x].fromParent \in Txns
    BY <1>1, <1>2, ParentType, NilAssumption
  <2>2. ASSUME NEW S \in SUBSET (Txns \cup {NIL}), t \in S, UpClosed(tx, S)
        PROVE  tx[x].fromParent \in S
    BY <2>1, <2>2 DEF Anc, UpClosed
  <2>. QED
    BY <2>1, <2>2 DEF Anc
<1>. QED
  BY <1>1, <1>2 DEF UpClosed

LEMMA AncTrans ==
    ASSUME NEW tx \in [Txns -> Txn], NEW t \in Txns \cup {NIL}, NEW x \in Anc(tx, t)
    PROVE  Anc(tx, x) \subseteq Anc(tx, t)
<1>1. Anc(tx, x) \subseteq Anc(tx, t) \cup {NIL}
  BY AncUp, AncLeast
<1>. QED
  BY <1>1, NilAssumption DEF Anc

LEMMA AncStep ==
    ASSUME NEW tx \in [Txns -> Txn], NEW t \in Txns
    PROVE  Anc(tx, t) = {t} \cup Anc(tx, tx[t].fromParent)
<1>. DEFINE p == tx[t].fromParent
            S == {t} \cup Anc(tx, p) \cup {NIL}
<1>1. p \in Txns \cup {NIL} /\ t # NIL
  BY ParentType, NilAssumption
<1>2. t \in Anc(tx, t) /\ p \in Anc(tx, t) \cup {NIL}
  BY <1>1, AncUp
<1>3. Anc(tx, p) \subseteq Anc(tx, t)
  BY <1>2, AncTrans, AncNil
<1>4. UpClosed(tx, S) /\ S \subseteq Txns \cup {NIL} /\ t \in S
  BY <1>1, AncUp DEF UpClosed
<1>. HIDE DEF S
<1>5. Anc(tx, t) \subseteq S
  BY <1>4, AncLeast
<1>. QED
  BY <1>2, <1>3, <1>5, NilAssumption DEF S, Anc

\* Every caller but the call itself is the caller of another one.
LEMMA AncBelow ==
    ASSUME NEW tx \in [Txns -> Txn], NEW t \in Txns, NEW x \in Anc(tx, t), x # t
    PROVE  \E c \in Anc(tx, t) : tx[c].fromParent = x
<1>. DEFINE S == {t, NIL} \cup {y \in Txns : \E c \in Anc(tx, t) : tx[c].fromParent = y}
<1>1. ASSUME NEW y \in S \ {NIL} PROVE y \in Anc(tx, t) /\ tx[y].fromParent \in S
  <2>0. t \in Anc(tx, t) /\ \A c \in Anc(tx, t) : tx[c].fromParent \in Anc(tx, t) \cup {NIL}
    BY AncUp, NilAssumption
  <2>1. y \in Anc(tx, t)
    BY <2>0
  <2>2. y \in Txns /\ tx[y].fromParent \in Txns \cup {NIL}
    BY <2>1, ParentType DEF Anc
  <2>. QED
    BY <2>1, <2>2
<1>2. UpClosed(tx, S) /\ S \subseteq Txns \cup {NIL} /\ t \in S
  BY <1>1 DEF UpClosed
<1>3. Anc(tx, t) \subseteq S
  <2>. HIDE DEF S
  <2>. QED
    BY <1>2, AncLeast
<1>. QED
  BY <1>3, NilAssumption DEF Anc

\* Only the from_parent of the callers matters.
LEMMA AncSame ==
    ASSUME NEW tx \in [Txns -> Txn], NEW ty \in [Txns -> Txn], NEW t \in Txns \cup {NIL},
           \A x \in Anc(tx, t) : ty[x].fromParent = tx[x].fromParent
    PROVE  Anc(ty, t) = Anc(tx, t)
<1>1. UpClosed(ty, Anc(tx, t) \cup {NIL})
  BY AncUp DEF UpClosed
<1>2. Anc(tx, t) \subseteq Txns /\ t \in Anc(tx, t) \cup {NIL}
  BY AncUp
<1>3. Anc(ty, t) \subseteq Anc(tx, t) \cup {NIL}
  BY <1>1, <1>2, AncLeast
<1>4. NIL \notin Anc(ty, t) /\ NIL \notin Anc(tx, t)
  BY NilAssumption DEF Anc
<1>5. UpClosed(tx, Anc(ty, t) \cup {NIL})
  BY <1>3, <1>4, AncUp DEF UpClosed
<1>6. Anc(ty, t) \subseteq Txns /\ t \in Anc(ty, t) \cup {NIL}
  BY AncUp
<1>7. Anc(tx, t) \subseteq Anc(ty, t) \cup {NIL}
  BY <1>5, <1>6, AncLeast
<1>. QED
  BY <1>3, <1>4, <1>7

LEMMA AncIn ==
    ASSUME NEW C, NEW tx, Linked(C, tx), NEW t \in C \cup {NIL}
    PROVE  Anc(tx, t) \subseteq C
<1>1. UpClosed(tx, C \cup {NIL}) /\ C \cup {NIL} \subseteq Txns \cup {NIL}
  BY DEF Linked, UpClosed
<1>2. Anc(tx, t) \subseteq C \cup {NIL}
  BY <1>1, AncLeast
<1>. QED
  BY <1>2, NilAssumption DEF Anc

LEMMA AncAntisym ==
    ASSUME NEW C, NEW tx \in [Txns -> Txn], Linked(C, tx), NEW t \in C, NEW x \in Anc(tx, t),
           t \in Anc(tx, x)
    PROVE  x = t
<1>. SUFFICES ASSUME x # t PROVE FALSE
  OBVIOUS
<1>1. t \in Txns /\ tx[t].fromParent \in Txns \cup {NIL} /\ t \notin Anc(tx, tx[t].fromParent)
  BY ParentType DEF Linked
<1>2. x \in Anc(tx, tx[t].fromParent)
  BY <1>1, AncStep
<1>. QED
  BY <1>1, <1>2, AncTrans

\* Chains do not branch: of two calls with a common caller, one is a caller of
\* the other.
LEMMA AncLinear ==
    ASSUME NEW C, NEW tx \in [Txns -> Txn], Linked(C, tx), NEW t \in C, NEW u \in C,
           NEW x \in Anc(tx, t), x \in Anc(tx, u)
    PROVE  t \in Anc(tx, u) \/ u \in Anc(tx, t)
<1>. DEFINE W == {z \in C : z \in Anc(tx, u) \/ u \in Anc(tx, z)}
            V == (C \ W) \cup {NIL}
<1>1. t \in Txns /\ u \in Txns /\ C \subseteq Txns /\ x \in C
  BY AncIn DEF Linked
<1>2. ASSUME NEW z \in C \ W, tx[z].fromParent # NIL PROVE tx[z].fromParent \in C \ W
  <2>. DEFINE p == tx[z].fromParent
  <2>1. p \in C /\ z \in Txns /\ p \in Txns
    BY <1>1, <1>2 DEF Linked
  <2>. SUFFICES ASSUME p \in W PROVE FALSE
    BY <2>1
  <2>2. p \in Anc(tx, z) /\ Anc(tx, p) \subseteq Anc(tx, z)
    <3>1. z \in Anc(tx, z)
      BY <2>1, AncUp, NilAssumption
    <3>2. p \in Anc(tx, z)
      BY <1>2, <2>1, <3>1, AncUp
    <3>. QED
      BY <2>1, <3>2, AncTrans
  <2>3. CASE p \in Anc(tx, u) /\ p # u
    <3>1. PICK c \in Anc(tx, u) : tx[c].fromParent = p
      BY <1>1, <2>3, AncBelow
    <3>2. c \in C
      BY <3>1, AncIn
    <3>3. c = z
      BY <1>2, <3>1, <3>2 DEF Linked
    <3>. QED
      BY <3>1, <3>3
  <2>4. CASE u \in Anc(tx, p)
    BY <2>2, <2>4
  <2>5. CASE p = u
    BY <2>2, <2>5
  <2>. QED
    BY <2>3, <2>4, <2>5
<1>3. x \in W
  BY <1>1
<1>. SUFFICES ASSUME t \notin W PROVE FALSE
  OBVIOUS
<1>4. UpClosed(tx, V) /\ V \subseteq Txns \cup {NIL} /\ t \in V
  BY <1>1, <1>2 DEF UpClosed, Linked
<1>5. Anc(tx, t) \subseteq V
  <2>. HIDE DEF V
  <2>. QED
    BY <1>4, AncLeast
<1>. QED
  BY <1>1, <1>3, <1>5, NilAssumption

LEMMA ChildlessTop ==
    ASSUME NEW C, NEW tx \in [Txns -> Txn], Linked(C, tx), NEW t \in C, NEW u \in C,
           Childless(C, tx, t), t \in Anc(tx, u)
    PROVE  t = u
<1>. SUFFICES ASSUME t # u PROVE FALSE
  OBVIOUS
<1>1. u \in Txns
  BY DEF Linked
<1>2. PICK c \in Anc(tx, u) : tx[c].fromParent = t
  BY <1>1, AncBelow
<1>. QED
  BY <1>2, AncIn DEF Childless

\* Two calls without callees of their own and with a common caller are one.
LEMMA ChildlessOne ==
    ASSUME NEW C, NEW tx \in [Txns -> Txn], Linked(C, tx), NEW t \in C, NEW u \in C,
           Childless(C, tx, t), Childless(C, tx, u), NEW x \in Anc(tx, t), x \in Anc(tx, u)
    PROVE  t = u
BY AncLinear, ChildlessTop

\* Two callers of one call are callers one of the other.
LEMMA AncTotal ==
    ASSUME NEW tx \in [Txns -> Txn], NEW t \in Txns \cup {NIL},
           NEW x \in Anc(tx, t), NEW y \in Anc(tx, t)
    PROVE  x \in Anc(tx, y) \/ y \in Anc(tx, x)
<1>. DEFINE S == {z \in Txns : y \in Anc(tx, z)} \cup Anc(tx, y) \cup {NIL}
<1>1. y \in Txns /\ x \in Txns /\ t # NIL
  BY AncUp, AncNil
<1>2. ASSUME NEW z \in S \ {NIL} PROVE tx[z].fromParent \in S
  <2>1. CASE z \in Anc(tx, y)
    BY <1>1, <2>1, AncUp
  <2>2. CASE z \in Txns /\ y \in Anc(tx, z) /\ z # y
    <3>1. y \in Anc(tx, tx[z].fromParent) /\ tx[z].fromParent \in Txns \cup {NIL}
      BY <2>2, AncStep, ParentType
    <3>. QED
      BY <3>1, AncNil
  <2>3. CASE z = y
    BY <1>1, <2>3, AncUp, NilAssumption
  <2>. QED
    BY <1>2, <2>1, <2>2, <2>3
<1>3. UpClosed(tx, S) /\ S \subseteq Txns \cup {NIL} /\ t \in S
  BY <1>1, <1>2, AncUp DEF UpClosed
<1>4. Anc(tx, t) \subseteq S
  <2>. HIDE DEF S
  <2>. QED
    BY <1>3, AncLeast
<1>. QED
  BY <1>1, <1>4, NilAssumption

\* A bounded set of numbers has a last one.
LEMMA LastOne ==
    ASSUME NEW N \in Nat, NEW S \in SUBSET (0..N), S # {}
    PROVE  \E m \in S : \A k \in S : k <= m
<1>. DEFINE B == {n \in Nat : (\E k \in S : k + n >= N) => \E m \in S : \A k \in S : k <= m}
<1>1. 0 \in B
  <2>. SUFFICES ASSUME NEW m \in S, m + 0 >= N PROVE \A k \in S : k <= m
    OBVIOUS
  <2>. QED
    OBVIOUS
<1>2. ASSUME NEW n \in B PROVE n + 1 \in B
  <2>. SUFFICES ASSUME NEW m \in S, m + (n + 1) >= N PROVE \E l \in S : \A k \in S : k <= l
    OBVIOUS
  <2>1. CASE \E k \in S : k + n >= N
    BY <2>1
  <2>2. CASE \A k \in S : ~(k + n >= N)
    <3>1. \A k \in S : k <= m
      BY <2>2
    <3>. QED
      BY <3>1
  <2>. QED
    BY <2>1, <2>2
<1>3. B = Nat
  <2>. HIDE DEF B
  <2>1. B \subseteq Nat
    BY DEF B
  <2>. QED
    BY <1>1, <1>2, <2>1, NatInduct
<1>4. N \in B
  BY <1>3
<1>5. \E k \in S : k + N >= N
  <2>1. PICK k \in S : TRUE
    OBVIOUS
  <2>2. k \in Nat
    OBVIOUS
  <2>. QED
    BY <2>1, <2>2
<1>. QED
  BY <1>4, <1>5

-------------------------------------------------------------------------------
(* What the code's walks reach *)

\* from_parent as a function.
Parents(tx) == [x \in Txns |-> tx[x].fromParent]

LEMMA UpIs ==
    ASSUME NEW tx \in [Txns -> Txn], NEW t \in Txns \cup {NIL}
    PROVE  IsWalk(Up(tx, t), Parents(tx), t)
<1>. DEFINE D == Txns
            g == Parents(tx)
<1>0. \A x \in D : g[x] = tx[x].fromParent /\ g[x] \in D \cup {NIL}
  BY ParentType DEF Parents
<1>0a. \E f : Walks(f, g, t)
  BY WalkExists
<1>0b. PICK f : Walks(f, g, t)
  BY <1>0a
<1>1. f = [k \in 0..Depth |-> IF k = 0 THEN t ELSE IF f[k-1] = NIL THEN NIL ELSE g[f[k-1]]]
  BY <1>0b DEF Walks
<1>2. IsWalk(f, g, t)
  <2>. HIDE DEF g
  <2>1. f[0] = t
    BY <1>1, DepthIs
  <2>2. ASSUME NEW k \in 1..Depth PROVE f[k] = IF f[k-1] = NIL THEN NIL ELSE g[f[k-1]]
    <3>1. k \in 0..Depth /\ k # 0
      OBVIOUS
    <3>. QED
      BY <1>1, <3>1
  <2>. QED
    BY <2>1, <2>2 DEF IsWalk
<1>3. \A k \in 0..Depth : f[k] \in D \cup {NIL}
  <2>. HIDE DEF g, D
  <2>1. t \in D \cup {NIL}
    BY DEF D
  <2>. QED
    BY <1>0, <1>2, <2>1, WalkIn
<1>. DEFINE Eq(up) == up = [k \in 0..Depth |-> IF k = 0 THEN t ELSE IF up[k-1] = NIL THEN NIL
                                               ELSE tx[up[k-1]].fromParent]
<1>4. Eq(f)
  <2>1. ASSUME NEW k \in 0..Depth
        PROVE  (IF k = 0 THEN t ELSE IF f[k-1] = NIL THEN NIL ELSE g[f[k-1]])
                 = IF k = 0 THEN t ELSE IF f[k-1] = NIL THEN NIL ELSE tx[f[k-1]].fromParent
    <3>1. CASE k = 0
      BY <3>1
    <3>2. CASE k # 0
      <4>1. k - 1 \in 0..Depth
        BY <3>2, DepthIs
      <4>2. f[k-1] # NIL => f[k-1] \in D
        BY <1>3, <4>1
      <4>. HIDE DEF g, D
      <4>. QED
        BY <1>0, <3>2, <4>2
    <3>. QED
      BY <3>1, <3>2
  <2>. HIDE DEF g
  <2>. QED
    BY <1>1, <2>1, Zenon
<1>5. Eq(Up(tx, t))
  BY <1>4, Zenon DEF Up
<1>. DEFINE up == Up(tx, t)
            A == {k \in Nat : k <= Depth => up[k] \in D \cup {NIL}}
<1>. HIDE DEF up
<1>6. up[0] = t
  BY <1>5, DepthIs DEF up
<1>7. ASSUME NEW k \in 1..Depth
      PROVE  up[k] = IF up[k-1] = NIL THEN NIL ELSE tx[up[k-1]].fromParent
  <2>1. k \in 0..Depth /\ k # 0
    OBVIOUS
  <2>. QED
    BY <1>5, <2>1 DEF up
<1>8. ASSUME NEW k \in A PROVE k + 1 \in A
  <2>. SUFFICES ASSUME k + 1 <= Depth PROVE up[k+1] \in D \cup {NIL}
    OBVIOUS
  <2>1. k \in Nat /\ k + 1 \in 1..Depth /\ (k + 1) - 1 = k /\ up[k] \in D \cup {NIL}
    BY DepthIs
  <2>2. up[k+1] = IF up[k] = NIL THEN NIL ELSE tx[up[k]].fromParent
    BY <1>7, <2>1
  <2>. QED
    BY <2>1, <2>2, ParentType
<1>9. A = Nat
  <2>1. A \subseteq Nat /\ 0 \in A
    BY <1>6
  <2>. HIDE DEF A
  <2>. QED
    BY <1>8, <2>1, NatInduct
<1>10. ASSUME NEW k \in 1..Depth PROVE up[k] = IF up[k-1] = NIL THEN NIL ELSE g[up[k-1]]
  <2>1. k - 1 \in A /\ k - 1 <= Depth
    BY <1>9, DepthIs
  <2>2. up[k-1] # NIL => up[k-1] \in D
    BY <2>1
  <2>. HIDE DEF g, D
  <2>. QED
    BY <1>0, <1>7, <2>2
<1>. QED
  BY <1>6, <1>10 DEF IsWalk, up

\* The walk up a chain: it reaches the callers, each before its own callers.
LEMMA UpSteps ==
    ASSUME NEW C, NEW tx \in [Txns -> Txn], Linked(C, tx), NEW t \in C \cup {NIL},
           NEW up, up = Up(tx, t)
    PROVE  /\ \A k \in 0..Depth : up[k] \in Anc(tx, t) \cup {NIL}
           /\ \A x \in Anc(tx, t) : \E k \in 0..Depth : up[k] = x
           /\ \A i, k \in 0..Depth : i < k /\ up[k] # NIL =>
                up[i] # NIL /\ up[k] \in Anc(tx, up[i]) /\ up[i] \notin Anc(tx, up[k])
<1>. DEFINE g == Parents(tx)
            A == [x \in Txns |-> Anc(tx, x)]
<1>0. t \in Txns \cup {NIL} /\ C \subseteq Txns
  BY DEF Linked
<1>1. IsWalk(up, g, t)
  BY <1>0, UpIs
<1>2. ASSUME NEW D \in SUBSET C, \A x \in D : tx[x].fromParent \in D \cup {NIL}
      PROVE  Descends(g, D, A)
  <2>1. ASSUME NEW x \in D
        PROVE  /\ g[x] = tx[x].fromParent /\ A[x] = Anc(tx, x) /\ x \in A[x] /\ x \in C
               /\ g[x] # NIL => g[x] \in Txns /\ A[g[x]] = Anc(tx, g[x]) /\ Anc(tx, g[x]) \subseteq A[x] \ {x}
    <3>1. x \in Txns /\ x \in C /\ tx[x].fromParent \in Txns \cup {NIL}
      BY <1>0, <1>2, ParentType
    <3>2. Anc(tx, x) = {x} \cup Anc(tx, tx[x].fromParent)
      BY <3>1, AncStep
    <3>3. x \notin Anc(tx, tx[x].fromParent)
      BY <3>1 DEF Linked
    <3>. QED
      BY <3>1, <3>2, <3>3 DEF Parents
  <2>2. D \subseteq Txns
    BY <1>0
  <2>. HIDE DEF g, A
  <2>. QED
    BY <1>2, <2>1, <2>2 DEF Descends
<1>3. Descends(g, C, A)
  BY <1>2 DEF Linked
<1>4. Anc(tx, t) \subseteq C /\ Descends(g, Anc(tx, t), A)
  <2>1. Anc(tx, t) \subseteq C
    BY AncIn
  <2>2. \A x \in Anc(tx, t) : tx[x].fromParent \in Anc(tx, t) \cup {NIL}
    BY <1>0, AncUp
  <2>. HIDE DEF g, A
  <2>. QED
    BY <1>2, <2>1, <2>2
<1>5. t \in Anc(tx, t) \cup {NIL}
  BY <1>0, AncUp
<1>6. \A k \in 0..Depth : up[k] \in Anc(tx, t) \cup {NIL}
  <2>. HIDE DEF g, A
  <2>. QED
    BY <1>1, <1>4, <1>5, WalkIn, ZenonT(60) DEF Descends
<1>7. /\ t # NIL => t \in Reached(up)
      /\ \A x \in Reached(up) : g[x] # NIL => g[x] \in Reached(up)
  <2>. HIDE DEF g, A
  <2>. QED
    BY <1>1, <1>3, WalkReaches
<1>8. Anc(tx, t) \subseteq Reached(up)
  <2>. DEFINE S == Reached(up) \cup {NIL}
  <2>1. S \subseteq Txns \cup {NIL} /\ t \in S
    BY <1>7 DEF Reached
  <2>2. UpClosed(tx, S)
    <3>. SUFFICES ASSUME NEW x \in S \ {NIL} PROVE tx[x].fromParent \in S
      BY DEF UpClosed
    <3>1. x \in Txns /\ g[x] = tx[x].fromParent
      BY DEF Reached, Parents
    <3>. QED
      BY <1>7, <3>1
  <2>. HIDE DEF S
  <2>3. Anc(tx, t) \subseteq S
    BY <2>1, <2>2, AncLeast
  <2>. QED
    BY <2>3, NilAssumption DEF S, Anc
<1>9. ASSUME NEW i \in 0..Depth, NEW k \in 0..Depth, i < k, up[k] # NIL
      PROVE  up[i] # NIL /\ up[k] \in Anc(tx, up[i]) /\ up[i] \notin Anc(tx, up[k])
  <2>1. up[i] \in C /\ up[k] \in C /\ up[k] \in A[up[i]] \ {up[i]} /\ A[up[k]] \subseteq A[up[i]] \ {up[i]}
    <3>. HIDE DEF g, A
    <3>. QED
      BY <1>1, <1>3, <1>9, WalkOrder
  <2>2. up[i] \in Txns /\ up[k] \in Txns
    BY <1>0, <2>1
  <2>. QED
    BY <2>1, <2>2, NilAssumption
<1>. QED
  BY <1>6, <1>8, <1>9 DEF Reached

LEMMA ChainIs ==
    ASSUME NEW C, NEW tx \in [Txns -> Txn], Linked(C, tx), NEW t \in C \cup {NIL}
    PROVE  Chain(tx, t) = Anc(tx, t)
<1>. DEFINE up == Up(tx, t)
<1>1. /\ \A k \in 0..Depth : up[k] \in Anc(tx, t) \cup {NIL}
      /\ \A x \in Anc(tx, t) : \E k \in 0..Depth : up[k] = x
  BY UpSteps
<1>2. Chain(tx, t) = {x \in Txns : \E k \in 0..Depth : up[k] = x}
  BY DEF Chain
<1>. HIDE DEF up
<1>. QED
  BY <1>1, <1>2, NilAssumption DEF Anc

\* The part of a chain that a failed reply walks over.
Aband(tx, t) == {x \in Anc(tx, t) : \A z \in Anc(tx, t) : x \in Anc(tx, z) => tx[z].from = NIL}
Answ(tx, t) == {x \in Anc(tx, t) : /\ tx[x].from # NIL
                                   /\ \A z \in Anc(tx, t) \ {x} : x \in Anc(tx, z) => tx[z].from = NIL}

LEMMA AbandonedIs ==
    ASSUME NEW C, NEW tx \in [Txns -> Txn], Linked(C, tx), NEW t \in C \cup {NIL}
    PROVE  Abandoned(tx, t) = Aband(tx, t) /\ Answerable(tx, t) = Answ(tx, t)
<1>. DEFINE up == Up(tx, t)
<1>1. /\ \A k \in 0..Depth : up[k] \in Anc(tx, t) \cup {NIL}
      /\ \A x \in Anc(tx, t) : \E k \in 0..Depth : up[k] = x
      /\ \A i, k \in 0..Depth : i < k /\ up[k] # NIL =>
           up[i] # NIL /\ up[k] \in Anc(tx, up[i]) /\ up[i] \notin Anc(tx, up[k])
  BY UpSteps
<1>2. /\ Abandoned(tx, t) = {x \in Txns : \E k \in 0..Depth : up[k] = x
                                            /\ \A i \in 0..k : tx[up[i]].from = NIL}
      /\ Answerable(tx, t) = {x \in Txns : \E k \in 0..Depth : up[k] = x /\ tx[x].from # NIL
                                            /\ \A i \in 0..(k-1) : tx[up[i]].from = NIL}
  BY DEF Abandoned, Answerable
<1>. HIDE DEF up
<1>3. Anc(tx, t) \subseteq Txns /\ NIL \notin Txns
  BY NilAssumption DEF Anc
<1>4. \A x \in Txns : x \in Anc(tx, x)
  BY AncUp, NilAssumption
<1>5. ASSUME NEW k \in 0..Depth, up[k] # NIL
      PROVE  /\ up[k] \in Anc(tx, t)
             /\ \A i \in 0..k : up[i] \in Anc(tx, t) /\ up[k] \in Anc(tx, up[i])
             /\ \A i \in 0..(k-1) : up[i] # up[k]
             /\ \A z \in Anc(tx, t) : up[k] \in Anc(tx, z) => \E i \in 0..k : up[i] = z
  <2>1. up[k] \in Anc(tx, t) /\ up[k] \in Txns
    BY <1>1, <1>3, <1>5
  <2>2. ASSUME NEW i \in 0..k PROVE up[i] \in Anc(tx, t) /\ up[k] \in Anc(tx, up[i])
    <3>1. i \in 0..Depth /\ (i < k \/ i = k)
      BY DepthIs
    <3>2. CASE i < k
      BY <1>1, <1>5, <3>1, <3>2
    <3>. QED
      BY <1>4, <2>1, <3>1, <3>2
  <2>3. ASSUME NEW i \in 0..(k-1) PROVE up[i] # up[k]
    <3>1. i \in 0..Depth /\ i < k
      BY DepthIs
    <3>2. up[i] \notin Anc(tx, up[k])
      BY <1>1, <1>5, <3>1
    <3>. QED
      BY <1>4, <2>1, <3>2
  <2>4. ASSUME NEW z \in Anc(tx, t), up[k] \in Anc(tx, z) PROVE \E i \in 0..k : up[i] = z
    <3>1. PICK i \in 0..Depth : up[i] = z
      BY <1>1
    <3>2. ~(k < i)
      BY <1>1, <1>3, <2>4, <3>1
    <3>. QED
      BY <3>1, <3>2, DepthIs
  <2>. QED
    BY <2>1, <2>2, <2>3, <2>4
<1>6. \A x \in Txns, k \in 0..Depth : up[k] = x =>
        /\ x \in Anc(tx, t)
        /\ (\A i \in 0..k : tx[up[i]].from = NIL)
             <=> \A z \in Anc(tx, t) : x \in Anc(tx, z) => tx[z].from = NIL
        /\ (\A i \in 0..(k-1) : tx[up[i]].from = NIL)
             <=> \A z \in Anc(tx, t) \ {x} : x \in Anc(tx, z) => tx[z].from = NIL
  <2>. SUFFICES ASSUME NEW k \in 0..Depth, up[k] \in Txns, NEW x, x = up[k]
       PROVE  /\ x \in Anc(tx, t)
              /\ (\A i \in 0..k : tx[up[i]].from = NIL)
                   <=> \A z \in Anc(tx, t) : x \in Anc(tx, z) => tx[z].from = NIL
              /\ (\A i \in 0..(k-1) : tx[up[i]].from = NIL)
                   <=> \A z \in Anc(tx, t) \ {x} : x \in Anc(tx, z) => tx[z].from = NIL
    OBVIOUS
  <2>0. up[k] # NIL /\ \A i \in 0..(k-1) : i \in 0..k
    BY <1>3
  <2>1. /\ up[k] \in Anc(tx, t)
        /\ \A i \in 0..k : up[i] \in Anc(tx, t) /\ up[k] \in Anc(tx, up[i])
        /\ \A i \in 0..(k-1) : up[i] # up[k]
        /\ \A z \in Anc(tx, t) : up[k] \in Anc(tx, z) => \E i \in 0..k : up[i] = z
    BY <1>5, <2>0
  <2>2. \A i \in 0..k : up[i] # x => i \in 0..(k-1)
    OBVIOUS
  <2>. QED
    BY <2>0, <2>1, <2>2
<1>. QED
  BY <1>1, <1>2, <1>3, <1>6 DEF Aband, Answ

-------------------------------------------------------------------------------
(* The shape of the stacks.  C holds the synchronous calls, Q those no thread *)
(* serves: queued, or taken off a stack or a list and about to fail.          *)

\* The calls a thread takes part in: it made them, or serves them.
Mem(C, Q, tx, h) ==
    {t \in C : tx[t].from = h \/ (tx[t].toThread = h /\ t \notin Q)}

\* A stack begins with a call of its thread, and all the others are further up
\* that chain.
Topped(C, Q, tx, st) ==
    \A h \in Threads : /\ st[h] # NIL => st[h] \in Mem(C, Q, tx, h)
                       /\ Mem(C, Q, tx, h) \subseteq Anc(tx, st[h])

\* A call was made by the thread that serves its from_parent, while it did.
Nested(C, Q, tx) ==
    \A t \in C : tx[t].fromParent # NIL =>
        tx[t].fromParent \notin Q /\ tx[tx[t].fromParent].toThread = tx[t].from

\* to_parent: the call the serving thread waited for when it was called back.
Below(C, Q, tx) ==
    \A t \in C : tx[t].toParent # NIL =>
        /\ tx[t].toParent \in Anc(tx, tx[t].fromParent)
        /\ t \notin Q => tx[tx[t].toParent].from = tx[t].toThread

\* No call of the serving thread is left out between a call and its to_parent.
Between(C, Q, tx) ==
    \A t \in C \ Q : tx[t].toThread # NIL =>
        Mem(C, Q, tx, tx[t].toThread) \cap Anc(tx, tx[t].fromParent) \subseteq Anc(tx, tx[t].toParent)

Elsewhere(C, tx) == \A t \in C : tx[t].from # NIL => tx[t].from # tx[t].toThread

Shape(C, Q, tx, st) ==
    /\ Linked(C, tx) /\ Q \subseteq C
    /\ Topped(C, Q, tx, st) /\ Nested(C, Q, tx)
    /\ Below(C, Q, tx) /\ Between(C, Q, tx) /\ Elsewhere(C, tx)

\* A call whose server has gone has a call above it that is still to fail.
Served(C, Q, tx) == \A t \in C \ Q : tx[t].toThread = NIL => ~Childless(C, tx, t)

\* A call queued for a certain thread: that thread waits up the same chain.
Awaited(W, tx, st, h) ==
    \A t \in W : tx[t].toThread = h =>
        st[h] # NIL /\ tx[st[h]].from = h /\ st[h] \in Anc(tx, tx[t].fromParent)

LEMMA ShapeCalls ==
    ASSUME NEW C, NEW Q, NEW tx, NEW st, Shape(C, Q, tx, st)
    PROVE  /\ C \subseteq Txns /\ Q \subseteq C /\ NIL \notin C /\ NIL \notin Txns
           /\ \A t \in C : tx[t].fromParent \in C \cup {NIL} /\ tx[t].toParent \in C \cup {NIL}
           /\ Linked(C, tx)
<1>1. C \subseteq Txns /\ Q \subseteq C /\ \A t \in C : tx[t].fromParent \in C \cup {NIL}
  BY DEF Shape, Linked
<1>2. \A t \in C : Anc(tx, tx[t].fromParent) \subseteq C
  BY <1>1, AncIn DEF Shape
<1>3. \A t \in C : tx[t].toParent \in C \cup {NIL}
  BY <1>2 DEF Shape, Below
<1>. QED
  BY <1>1, <1>3, NilAssumption DEF Shape

LEMMA ShapeTop ==
    ASSUME NEW C, NEW Q, NEW tx, NEW st, Shape(C, Q, tx, st), NEW h \in Threads
    PROVE  /\ C \subseteq Txns /\ Q \subseteq C /\ NIL \notin C
           /\ st[h] \in C \cup {NIL}
           /\ \A t \in C : tx[t].fromParent \in C \cup {NIL} /\ tx[t].toParent \in C \cup {NIL}
           /\ Mem(C, Q, tx, h) \subseteq C
<1>4. Mem(C, Q, tx, h) \subseteq C
  BY DEF Mem
<1>5. st[h] \in C \cup {NIL}
  BY <1>4 DEF Shape, Topped
<1>. QED
  BY <1>4, <1>5, ShapeCalls

\* Whom a call that is not the last of its chain was made for.
LEMMA ServedBy ==
    ASSUME NEW C, NEW Q, NEW tx \in [Txns -> Txn], NEW st, Shape(C, Q, tx, st),
           NEW t \in C, NEW x \in Anc(tx, t), x # t
    PROVE  \E c \in Anc(tx, t) : /\ c \in C /\ tx[c].fromParent = x /\ x \in C /\ x \notin Q
                                 /\ tx[x].toThread = tx[c].from
                                 /\ x \in Anc(tx, c) /\ x # c /\ c \notin Anc(tx, x)
<1>1. t \in Txns /\ Linked(C, tx) /\ C \subseteq Txns /\ Anc(tx, t) \subseteq C
  BY AncIn DEF Shape, Linked
<1>2. PICK c \in Anc(tx, t) : tx[c].fromParent = x
  BY <1>1, AncBelow
<1>3. c \in C /\ x \in C /\ x # NIL
  BY <1>1, NilAssumption
<1>4. x \notin Q /\ tx[x].toThread = tx[c].from
  BY <1>2, <1>3 DEF Shape, Nested
<1>5. c \notin Anc(tx, x)
  BY <1>1, <1>2, <1>3 DEF Linked
<1>6. x \in Anc(tx, x) /\ Anc(tx, c) = {c} \cup Anc(tx, x)
  BY <1>1, <1>2, <1>3, AncUp, AncStep
<1>. QED
  BY <1>2, <1>3, <1>4, <1>5, <1>6

\* No call is made for a call that is queued, nor for the one a thread serves
\* with nothing above it.
LEMMA QueuedChildless ==
    ASSUME NEW C, NEW Q, NEW tx, NEW st, Shape(C, Q, tx, st), NEW t \in Q
    PROVE  Childless(C, tx, t)
BY NilAssumption DEF Shape, Nested, Childless, Linked

LEMMA TopChildless ==
    ASSUME NEW C, NEW Q, NEW tx \in [Txns -> Txn], NEW st, Shape(C, Q, tx, st),
           NEW h \in Threads, st[h] # NIL, tx[st[h]].toThread = h
    PROVE  /\ Childless(C, tx, st[h])
           /\ st[h] \in C \ Q /\ tx[st[h]].from # h
<1>. DEFINE t == st[h]
<1>1. t \in C /\ t \in Mem(C, Q, tx, h) /\ C \subseteq Txns
  BY ShapeTop DEF Shape, Topped
<1>2. tx[t].from # h /\ t \notin Q
  BY <1>1, NilAssumption DEF Shape, Elsewhere, Mem
<1>3. ASSUME NEW c \in C, tx[c].fromParent = t PROVE FALSE
  <2>1. t # NIL /\ tx[c].from = h
    BY <1>1, <1>3, NilAssumption DEF Shape, Nested
  <2>2. c \in Anc(tx, t)
    BY <2>1 DEF Shape, Topped, Mem
  <2>. QED
    BY <1>3, <2>2 DEF Shape, Linked
<1>. QED
  BY <1>1, <1>2, <1>3 DEF Childless

\* The walk over a stack meets the thread's calls, all of them and no others.
LEMMA OnStackIs ==
    ASSUME TypeOK, NEW C, NEW Q, NEW st, Shape(C, Q, txn, st), NEW h \in Threads,
           st[h] = thr[h].stack
    PROVE  OnStack(h) = Mem(C, Q, txn, h)
<1>. DEFINE M == Mem(C, Q, txn, h)
            nxt == [x \in Txns |-> IF txn[x].toThread = h THEN txn[x].toParent ELSE txn[x].fromParent]
            A == [x \in Txns |-> Anc(txn, x)]
            s == thr[h].stack
            Eq(d) == d = [k \in 0..Depth |-> IF k = 0 THEN thr[h].stack ELSE IF d[k-1] = NIL THEN NIL
                              ELSE IF txn[d[k-1]].toThread = h THEN txn[d[k-1]].toParent
                              ELSE txn[d[k-1]].fromParent]
<1>1. txn \in [Txns -> Txn] /\ Linked(C, txn) /\ C \subseteq Txns /\ NIL \notin Txns
  BY NilAssumption DEF TypeOK, Shape, Linked
<1>2. s \in M \cup {NIL} /\ M \subseteq Anc(txn, s) /\ M \subseteq C
  BY DEF Shape, Topped, Mem
<1>3. ASSUME NEW x \in M
      PROVE  /\ nxt[x] \in M \cup {NIL}
             /\ nxt[x] # NIL => Anc(txn, nxt[x]) \subseteq Anc(txn, x) \ {x}
             /\ M \cap Anc(txn, x) \subseteq {x} \cup Anc(txn, nxt[x])
  <2>0. x \in C /\ x \in Txns /\ x # NIL
    BY <1>1 DEF Mem
  <2>1. Anc(txn, x) = {x} \cup Anc(txn, txn[x].fromParent)
    BY <1>1, <2>0, AncStep
  <2>2. x \notin Anc(txn, txn[x].fromParent)
    BY <1>1, <2>0 DEF Linked
  <2>3. CASE txn[x].toThread = h
    <3>1. nxt[x] = txn[x].toParent /\ x \notin Q
      BY <2>0, <2>3, NilAssumption DEF Shape, Elsewhere, Mem
    <3>2. M \cap Anc(txn, txn[x].fromParent) \subseteq Anc(txn, txn[x].toParent)
      BY <2>0, <2>3, <3>1, NilAssumption DEF Shape, Between
    <3>3. ASSUME txn[x].toParent # NIL
          PROVE  /\ txn[x].toParent \in Anc(txn, txn[x].fromParent)
                 /\ txn[x].toParent \in M
      <4>1. /\ txn[x].toParent \in Anc(txn, txn[x].fromParent)
            /\ txn[txn[x].toParent].from = h
        BY <2>0, <2>3, <3>1, <3>3 DEF Shape, Below
      <4>2. txn[x].toParent \in C
        BY <2>0, ShapeTop, <3>3
      <4>. QED
        BY <4>1, <4>2 DEF Mem
    <3>4. txn[x].toParent # NIL => Anc(txn, txn[x].toParent) \subseteq Anc(txn, txn[x].fromParent)
      <4>1. txn[x].fromParent \in Txns \cup {NIL}
        BY <1>1, <2>0, ParentType
      <4>. QED
        BY <1>1, <3>3, <4>1, AncTrans
    <3>. HIDE DEF nxt
    <3>. QED
      BY <2>1, <2>2, <3>1, <3>2, <3>3, <3>4
  <2>4. CASE txn[x].toThread # h
    <3>1. nxt[x] = txn[x].fromParent /\ txn[x].from = h
      BY <2>0, <2>4 DEF Mem
    <3>2. txn[x].fromParent # NIL => txn[x].fromParent \in M
      BY <1>1, <2>0, <3>1 DEF Shape, Nested, Linked, Mem
    <3>. HIDE DEF nxt
    <3>. QED
      BY <2>1, <2>2, <3>1, <3>2
  <2>. QED
    BY <2>3, <2>4
<1>4. Descends(nxt, M, A)
  <2>1. \A x \in M : x \in Txns /\ x \in Anc(txn, x) /\ A[x] = Anc(txn, x)
    BY <1>1, <1>2, AncUp
  <2>2. M \subseteq Txns
    BY <2>1
  <2>. HIDE DEF nxt, M, A
  <2>. QED
    BY <1>1, <1>3, <2>1, <2>2 DEF Descends
<1>5. PICK f : Walks(f, nxt, s)
  <2>1. \E f : Walks(f, nxt, s)
    BY WalkExists
  <2>. QED
    BY <2>1
<1>. HIDE DEF s
<1>6. IsWalk(f, nxt, s)
  <2>. HIDE DEF nxt
  <2>1. f[0] = s
    BY <1>5, DepthIs DEF Walks
  <2>2. ASSUME NEW k \in 1..Depth PROVE f[k] = IF f[k-1] = NIL THEN NIL ELSE nxt[f[k-1]]
    <3>1. k \in 0..Depth /\ k # 0
      OBVIOUS
    <3>. QED
      BY <1>5, <3>1 DEF Walks
  <2>. QED
    BY <2>1, <2>2 DEF IsWalk
<1>7. \A k \in 0..Depth : f[k] \in M \cup {NIL}
  <2>. HIDE DEF nxt, M
  <2>. QED
    BY <1>2, <1>3, <1>6, WalkIn
<1>8. Eq(f)
  <2>1. ASSUME NEW k \in 0..Depth
        PROVE  (IF k = 0 THEN s ELSE IF f[k-1] = NIL THEN NIL ELSE nxt[f[k-1]])
                 = IF k = 0 THEN thr[h].stack ELSE IF f[k-1] = NIL THEN NIL
                   ELSE IF txn[f[k-1]].toThread = h THEN txn[f[k-1]].toParent
                   ELSE txn[f[k-1]].fromParent
    <3>1. CASE k = 0
      BY <3>1 DEF s
    <3>2. CASE k # 0
      <4>1. k - 1 \in 0..Depth
        BY <3>2, DepthIs
      <4>2. f[k-1] # NIL => f[k-1] \in Txns
        BY <1>1, <1>2, <1>7, <4>1
      <4>3. f[k-1] # NIL => nxt[f[k-1]] = IF txn[f[k-1]].toThread = h THEN txn[f[k-1]].toParent
                                         ELSE txn[f[k-1]].fromParent
        BY <4>2
      <4>. HIDE DEF nxt
      <4>. QED
        BY <3>2, <4>3
    <3>. QED
      BY <3>1, <3>2
  <2>2. f = [k \in 0..Depth |-> IF k = 0 THEN s ELSE IF f[k-1] = NIL THEN NIL ELSE nxt[f[k-1]]]
    BY <1>5 DEF Walks
  <2>. HIDE DEF nxt
  <2>. QED
    BY <2>1, <2>2, Zenon
<1>. DEFINE dn == CHOOSE d : Eq(d)
<1>9. Eq(dn)
  BY <1>8, Zenon
<1>10. OnStack(h) = {x \in Txns : \E k \in 0..Depth : dn[k] = x}
  BY Zenon DEF OnStack
<1>. HIDE DEF dn
<1>11. IsWalk(dn, nxt, s)
  <2>. DEFINE B == {k \in Nat : k <= Depth => dn[k] \in M \cup {NIL}}
  <2>0. dn[0] = s
    BY <1>9, DepthIs DEF s
  <2>1. ASSUME NEW k \in 1..Depth, dn[k-1] \in M \cup {NIL}
        PROVE  dn[k] = IF dn[k-1] = NIL THEN NIL ELSE nxt[dn[k-1]]
    <3>1. k \in 0..Depth /\ k # 0
      OBVIOUS
    <3>2. dn[k] = IF dn[k-1] = NIL THEN NIL
                  ELSE IF txn[dn[k-1]].toThread = h THEN txn[dn[k-1]].toParent
                  ELSE txn[dn[k-1]].fromParent
      BY <1>9, <3>1
    <3>3. dn[k-1] # NIL => dn[k-1] \in Txns
      BY <1>1, <1>2, <2>1
    <3>. QED
      BY <3>2, <3>3
  <2>2. ASSUME NEW k \in B PROVE k + 1 \in B
    <3>. SUFFICES ASSUME k + 1 <= Depth PROVE dn[k+1] \in M \cup {NIL}
      OBVIOUS
    <3>1. k \in Nat /\ k + 1 \in 1..Depth /\ (k + 1) - 1 = k /\ dn[k] \in M \cup {NIL}
      BY DepthIs
    <3>. HIDE DEF nxt, M
    <3>2. dn[k+1] = IF dn[k] = NIL THEN NIL ELSE nxt[dn[k]]
      BY <2>1, <3>1
    <3>. QED
      BY <1>3, <3>1, <3>2
  <2>3. B = Nat
    <3>1. B \subseteq Nat /\ 0 \in B
      BY <1>2, <2>0
    <3>. HIDE DEF B
    <3>. QED
      BY <2>2, <3>1, NatInduct
  <2>4. ASSUME NEW k \in 1..Depth PROVE dn[k] = IF dn[k-1] = NIL THEN NIL ELSE nxt[dn[k-1]]
    <3>1. k - 1 \in B /\ k - 1 <= Depth
      BY <2>3, DepthIs
    <3>2. dn[k-1] \in M \cup {NIL}
      BY <3>1
    <3>. HIDE DEF nxt, M
    <3>. QED
      BY <2>1, <3>2
  <2>. HIDE DEF nxt
  <2>. QED
    BY <2>0, <2>4 DEF IsWalk
<1>12. /\ Reached(dn) \subseteq M /\ (s # NIL => s \in Reached(dn))
       /\ \A x \in Reached(dn) : nxt[x] # NIL => nxt[x] \in Reached(dn)
  <2>. HIDE DEF nxt, M, A
  <2>. QED
    BY <1>2, <1>4, <1>11, WalkReaches
<1>13. ASSUME NEW x \in M, x \notin Reached(dn) PROVE FALSE
  <2>. DEFINE S == {k \in 0..Depth : dn[k] # NIL /\ x \in Anc(txn, dn[k])}
  <2>1. 0 \in S
    <3>1. dn[0] = s /\ 0 \in 0..Depth
      BY <1>11, DepthIs DEF IsWalk
    <3>2. s # NIL
      BY <1>2, <1>13, AncNil DEF s
    <3>. QED
      BY <1>2, <3>1, <3>2 DEF s
  <2>2. PICK m \in S : \A k \in S : k <= m
    <3>1. S \in SUBSET (0..Depth) /\ S # {}
      BY <2>1
    <3>. HIDE DEF S
    <3>. QED
      BY <3>1, DepthIs, LastOne
  <2>. DEFINE y == dn[m]
  <2>3. y \in Reached(dn) /\ y \in M /\ y # x /\ x \in Anc(txn, y)
    <3>1. dn[m] \in Txns
      <4>1. \A k \in 0..Depth : dn[k] \in M \cup {NIL}
        <5>. HIDE DEF nxt, M
        <5>. QED
          BY <1>2, <1>3, <1>11, WalkIn
      <4>. QED
        BY <1>1, <1>2, <4>1
    <3>2. y \in Reached(dn)
      BY <3>1 DEF Reached
    <3>. QED
      BY <1>12, <1>13, <3>2
  <2>4. x \in Anc(txn, nxt[y])
    <3>. HIDE DEF nxt, M, y
    <3>. QED
      BY <1>3, <1>13, <2>3
  <2>5. nxt[y] # NIL
    <3>. HIDE DEF nxt, y
    <3>. QED
      BY <2>4, AncNil
  <2>6. nxt[y] \in Reached(dn)
    BY <1>12, <2>3, <2>5
  <2>7. PICK k \in 0..Depth : dn[k] = nxt[y]
    <3>. HIDE DEF nxt, y
    <3>. QED
      BY <2>6 DEF Reached
  <2>8. k \in S
    <3>. HIDE DEF nxt, y
    <3>. QED
      BY <2>4, <2>5, <2>7
  <2>9. CASE k = m
    <3>1. nxt[y] = y /\ y \in Anc(txn, y) /\ Anc(txn, nxt[y]) \subseteq Anc(txn, y) \ {y}
      <4>1. y \in Txns
        BY <1>1, <1>2, <2>3
      <4>2. y \in Anc(txn, y)
        BY <1>1, <4>1, AncUp
      <4>3. nxt[y] = y
        <5>. HIDE DEF nxt
        <5>. QED
          BY <2>7, <2>9
      <4>. HIDE DEF nxt, M, y
      <4>. QED
        BY <1>3, <2>3, <2>5, <4>2, <4>3
    <3>. QED
      BY <3>1
  <2>10. CASE k < m
    <3>1. dn[m] \in A[dn[k]] \ {dn[k]}
      <4>1. dn[m] # NIL
        OBVIOUS
      <4>. HIDE DEF nxt, M, A, y
      <4>. QED
        BY <1>2, <1>4, <1>11, <2>10, <4>1, WalkOrder
    <3>2. nxt[y] \in Txns
      BY <2>6 DEF Reached
    <3>3. y \in Anc(txn, nxt[y])
      <4>. HIDE DEF nxt
      <4>. QED
        BY <2>7, <3>1, <3>2
    <3>. HIDE DEF nxt, M, y
    <3>. QED
      BY <1>3, <2>3, <2>5, <3>3
  <2>. QED
    BY <2>2, <2>8, <2>9, <2>10
<1>14. Reached(dn) = M
  BY <1>12, <1>13
<1>. QED
  BY <1>10, <1>14 DEF Reached

LEMMA AncKept ==
    ASSUME NEW C, NEW tx \in [Txns -> Txn], NEW ty \in [Txns -> Txn], Linked(C, tx),
           \A x \in C : ty[x].fromParent = tx[x].fromParent, NEW t \in C \cup {NIL}
    PROVE  Anc(ty, t) = Anc(tx, t)
<1>1. Anc(tx, t) \subseteq C /\ t \in Txns \cup {NIL}
  BY AncIn DEF Linked
<1>. QED
  BY <1>1, AncSame

\* A call t is pushed on the stack of thread h.
Pushed(C, Q, tx, st, h, t, ty, su) ==
    /\ Shape(C \cup {t}, Q \cup {t}, ty, su)
    /\ \A x \in C \cup {NIL} : Anc(ty, x) = Anc(tx, x)
    /\ Anc(ty, t) = {t} \cup Anc(tx, st[h])

\* Its caller has an empty stack, or serves the call on top.
LEMMA PushShape ==
    ASSUME NEW C, NEW Q, NEW tx \in [Txns -> Txn], NEW st, Shape(C, Q, tx, st),
           NEW h \in Threads, st[h] # NIL => tx[st[h]].toThread = h, NEW t \in Txns \ C,
           NEW ty \in [Txns -> Txn], \A x \in C : ty[x] = tx[x],
           ty[t].from = h, ty[t].fromParent = st[h], ty[t].toThread # h, ty[t].toParent = NIL,
           NEW su, \A g \in Threads : su[g] = IF g = h THEN t ELSE st[g]
    PROVE  Pushed(C, Q, tx, st, h, t, ty, su)
<1>. DEFINE s == st[h]
<1>1. /\ C \subseteq Txns /\ Q \subseteq C /\ NIL \notin C /\ s \in C \cup {NIL}
      /\ \A x \in C : tx[x].fromParent \in C \cup {NIL} /\ tx[x].toParent \in C \cup {NIL}
      /\ t # NIL /\ h # NIL
  BY ShapeTop, NilAssumption
<1>2. Linked(C, tx) /\ Nested(C, Q, tx) /\ Topped(C, Q, tx, st)
  BY DEF Shape
<1>3. \A x \in C \cup {NIL} : Anc(ty, x) = Anc(tx, x) /\ Anc(ty, x) \subseteq C
  <2>1. \A x \in C : ty[x].fromParent = tx[x].fromParent
    OBVIOUS
  <2>. QED
    BY <1>2, <2>1, AncKept, AncIn
<1>4. Anc(ty, t) = {t} \cup Anc(tx, s)
  BY <1>1, <1>3, AncStep
<1>5. s # NIL => /\ Childless(C, tx, s) /\ s \notin Q /\ s \in C /\ tx[s].toThread = h
  BY TopChildless
<1>6. Linked(C \cup {t}, ty)
  <2>1. \A x \in C \cup {t} : ty[x].fromParent \in C \cup {NIL}
    BY <1>1
  <2>2. \A x, y \in C \cup {t} : ty[x].fromParent # NIL /\ ty[x].fromParent = ty[y].fromParent => x = y
    BY <1>1, <1>2, <1>5 DEF Linked, Childless
  <2>3. \A x \in C \cup {t} : x \notin Anc(ty, ty[x].fromParent)
    BY <1>1, <1>2, <1>3, <2>1 DEF Linked
  <2>. QED
    BY <1>1, <2>1, <2>2, <2>3 DEF Linked
<1>7. /\ Mem(C \cup {t}, Q \cup {t}, ty, h) = Mem(C, Q, tx, h) \cup {t}
      /\ \A g \in Threads : g # h => Mem(C \cup {t}, Q \cup {t}, ty, g) = Mem(C, Q, tx, g)
      /\ \A g \in Threads : Mem(C, Q, tx, g) \subseteq C
  BY DEF Mem
<1>8. Topped(C \cup {t}, Q \cup {t}, ty, su)
  <2>. SUFFICES ASSUME NEW g \in Threads
                PROVE  /\ su[g] # NIL => su[g] \in Mem(C \cup {t}, Q \cup {t}, ty, g)
                       /\ Mem(C \cup {t}, Q \cup {t}, ty, g) \subseteq Anc(ty, su[g])
    BY DEF Topped
  <2>1. /\ st[g] # NIL => st[g] \in Mem(C, Q, tx, g)
        /\ Mem(C, Q, tx, g) \subseteq Anc(tx, st[g])
    BY <1>2 DEF Topped
  <2>2. CASE g = h
    BY <1>4, <1>7, <2>1, <2>2
  <2>3. CASE g # h
    <3>1. st[g] \in C \cup {NIL}
      BY ShapeTop
    <3>2. Anc(ty, st[g]) = Anc(tx, st[g])
      BY <1>3, <3>1
    <3>. QED
      BY <1>7, <2>1, <2>3, <3>2
  <2>. QED
    BY <2>2, <2>3
<1>9. Nested(C \cup {t}, Q \cup {t}, ty)
  BY <1>1, <1>2, <1>5 DEF Nested
<1>10. Below(C \cup {t}, Q \cup {t}, ty)
  BY <1>1, <1>3 DEF Below, Shape
<1>11. Between(C \cup {t}, Q \cup {t}, ty)
  <2>. SUFFICES ASSUME NEW x \in C \ Q, tx[x].toThread # NIL
       PROVE  Mem(C \cup {t}, Q \cup {t}, ty, tx[x].toThread) \cap Anc(ty, tx[x].fromParent)
                 \subseteq Anc(ty, tx[x].toParent)
    BY DEF Between
  <2>1. tx[x].toThread \in Threads
    <3>1. tx[x] \in Txn
      BY <1>1
    <3>. QED
      BY <3>1 DEF Txn
  <2>2. Mem(C, Q, tx, tx[x].toThread) \cap Anc(tx, tx[x].fromParent) \subseteq Anc(tx, tx[x].toParent)
    BY DEF Shape, Between
  <2>3. /\ Anc(ty, tx[x].fromParent) = Anc(tx, tx[x].fromParent)
        /\ Anc(ty, tx[x].toParent) = Anc(tx, tx[x].toParent)
        /\ t \notin Anc(tx, tx[x].fromParent)
    BY <1>1, <1>3
  <2>. QED
    BY <1>7, <2>1, <2>2, <2>3, ZenonT(60)
<1>12. Elsewhere(C \cup {t}, ty)
  BY DEF Elsewhere, Shape
<1>. QED
  BY <1>1, <1>3, <1>4, <1>6, <1>8, <1>9, <1>10, <1>11, <1>12 DEF Pushed, Shape

\* A queued call is read: by a thread with an empty stack, or by one that waits
\* up the call's chain.
LEMMA ReadShape ==
    ASSUME NEW C, NEW Q, NEW tx \in [Txns -> Txn], NEW st, Shape(C, Q, tx, st),
           NEW h \in Threads, NEW t \in Q, tx[t].from # h,
           st[h] # NIL => st[h] \in Anc(tx, tx[t].fromParent) /\ tx[st[h]].from = h,
           NEW ty \in [Txns -> Txn], \A x \in C \ {t} : ty[x] = tx[x],
           ty[t].from = tx[t].from, ty[t].fromParent = tx[t].fromParent,
           ty[t].toThread = h, ty[t].toParent = st[h],
           NEW su, \A g \in Threads : su[g] = IF g = h THEN t ELSE st[g]
    PROVE  /\ Shape(C, Q \ {t}, ty, su)
           /\ \A x \in C \cup {NIL} : Anc(ty, x) = Anc(tx, x)
<1>. DEFINE s == st[h]
<1>1. /\ C \subseteq Txns /\ Q \subseteq C /\ NIL \notin C /\ s \in C \cup {NIL} /\ t \in C
      /\ \A x \in C : tx[x].fromParent \in C \cup {NIL} /\ tx[x].toParent \in C \cup {NIL}
      /\ t # NIL /\ h # NIL
  BY ShapeTop, NilAssumption
<1>2. Linked(C, tx) /\ Nested(C, Q, tx) /\ Topped(C, Q, tx, st) /\ Childless(C, tx, t)
  BY QueuedChildless DEF Shape
<1>3. \A x \in C \cup {NIL} : Anc(ty, x) = Anc(tx, x) /\ Anc(ty, x) \subseteq C
  <2>1. \A x \in C : ty[x].fromParent = tx[x].fromParent
    OBVIOUS
  <2>. QED
    BY <1>2, <2>1, AncKept, AncIn
<1>4. Anc(tx, t) = {t} \cup Anc(tx, tx[t].fromParent) /\ t \notin Anc(tx, tx[t].fromParent)
  BY <1>1, <1>2, AncStep DEF Linked
<1>5. Anc(tx, s) \subseteq Anc(tx, tx[t].fromParent)
  <2>1. tx[t].fromParent \in Txns \cup {NIL}
    BY <1>1
  <2>. QED
    BY <2>1, AncNil, AncTrans
<1>6. Linked(C, ty)
  BY <1>1, <1>2, <1>3 DEF Linked
<1>7a. \A g \in Threads, x \in C :
         x \in Mem(C, Q \ {t}, ty, g) <=> x \in Mem(C, Q, tx, g) \/ (x = t /\ g = h)
  <2>. SUFFICES ASSUME NEW g \in Threads, NEW x \in C
                PROVE  x \in Mem(C, Q \ {t}, ty, g) <=> x \in Mem(C, Q, tx, g) \/ (x = t /\ g = h)
    OBVIOUS
  <2>1. CASE x = t
    BY <1>1, <2>1 DEF Mem
  <2>2. CASE x # t
    BY <2>2 DEF Mem
  <2>. QED
    BY <2>1, <2>2
<1>7b. \A g \in Threads : Mem(C, Q, tx, g) \subseteq C /\ Mem(C, Q \ {t}, ty, g) \subseteq C
  BY DEF Mem
<1>7. /\ Mem(C, Q \ {t}, ty, h) = Mem(C, Q, tx, h) \cup {t}
      /\ \A g \in Threads : g # h => Mem(C, Q \ {t}, ty, g) = Mem(C, Q, tx, g)
  <2>1. Mem(C, Q \ {t}, ty, h) = Mem(C, Q, tx, h) \cup {t}
    BY <1>1, <1>7a, <1>7b, ZenonT(60)
  <2>2. ASSUME NEW g \in Threads, g # h PROVE Mem(C, Q \ {t}, ty, g) = Mem(C, Q, tx, g)
    BY <1>7a, <1>7b, <2>2
  <2>. QED
    BY <2>1, <2>2
<1>8. Topped(C, Q \ {t}, ty, su)
  <2>. SUFFICES ASSUME NEW g \in Threads
                PROVE  /\ su[g] # NIL => su[g] \in Mem(C, Q \ {t}, ty, g)
                       /\ Mem(C, Q \ {t}, ty, g) \subseteq Anc(ty, su[g])
    BY DEF Topped
  <2>1. CASE g = h
    <3>1. su[g] = t /\ Anc(ty, t) = Anc(tx, t)
      BY <1>1, <1>3, <2>1
    <3>2. Mem(C, Q, tx, h) \subseteq Anc(tx, s)
      BY <1>2 DEF Topped
    <3>. QED
      BY <1>4, <1>5, <1>7, <2>1, <3>1, <3>2
  <2>2. CASE g # h
    <3>1. st[g] \in C \cup {NIL}
      BY ShapeTop
    <3>. QED
      BY <1>2, <1>3, <1>7, <2>2, <3>1 DEF Topped
  <2>. QED
    BY <2>1, <2>2
<1>9. Nested(C, Q \ {t}, ty)
  BY <1>1, <1>2 DEF Nested, Childless
<1>10. Below(C, Q \ {t}, ty)
  <2>. SUFFICES ASSUME NEW x \in C, ty[x].toParent # NIL
       PROVE  /\ ty[x].toParent \in Anc(ty, ty[x].fromParent)
              /\ x \notin Q \ {t} => ty[ty[x].toParent].from = ty[x].toThread
    BY DEF Below
  <2>1. CASE x = t
    BY <1>1, <1>3, <2>1
  <2>2. CASE x # t
    <3>1. /\ tx[x].toParent \in Anc(tx, tx[x].fromParent)
          /\ x \notin Q => tx[tx[x].toParent].from = tx[x].toThread
      BY <2>2 DEF Shape, Below
    <3>. QED
      BY <1>1, <1>3, <2>2, <3>1
  <2>. QED
    BY <2>1, <2>2
<1>11. Between(C, Q \ {t}, ty)
  <2>. SUFFICES ASSUME NEW x \in C \ (Q \ {t}), ty[x].toThread # NIL
       PROVE  Mem(C, Q \ {t}, ty, ty[x].toThread) \cap Anc(ty, ty[x].fromParent)
                 \subseteq Anc(ty, ty[x].toParent)
    BY DEF Between
  <2>1. ty[x].toThread \in Threads
    <3>1. ty[x] \in Txn
      BY <1>1
    <3>. QED
      BY <3>1 DEF Txn
  <2>2. CASE x = t
    <3>1. /\ ty[x].toThread = h /\ ty[x].toParent = s /\ Anc(ty, s) = Anc(tx, s)
          /\ Anc(ty, ty[x].fromParent) = Anc(tx, tx[t].fromParent)
      BY <1>1, <1>3, <2>2
    <3>2. Mem(C, Q, tx, h) \subseteq Anc(tx, s)
      BY <1>2 DEF Topped
    <3>. QED
      BY <1>4, <1>7, <3>1, <3>2
  <2>3. CASE x # t
    <3>1. Mem(C, Q, tx, tx[x].toThread) \cap Anc(tx, tx[x].fromParent) \subseteq Anc(tx, tx[x].toParent)
      BY <2>3 DEF Shape, Between
    <3>2. t \notin Anc(tx, tx[x].fromParent)
      <4>1. CASE tx[x].fromParent = NIL
        BY <4>1, AncNil
      <4>2. CASE tx[x].fromParent # NIL
        BY <1>1, <1>2, <4>2, ChildlessTop DEF Childless
      <4>. QED
        BY <4>1, <4>2
    <3>3. /\ ty[x] = tx[x] /\ Anc(ty, tx[x].fromParent) = Anc(tx, tx[x].fromParent)
          /\ Anc(ty, tx[x].toParent) = Anc(tx, tx[x].toParent)
      BY <1>1, <1>3, <2>3
    <3>. QED
      BY <1>7, <2>1, <3>1, <3>2, <3>3
  <2>. QED
    BY <2>2, <2>3
<1>12. Elsewhere(C, ty)
  BY <1>1 DEF Elsewhere, Shape
<1>. QED
  BY <1>1, <1>3, <1>6, <1>8, <1>9, <1>10, <1>11, <1>12 DEF Shape

\* The call a thread serves is taken off its stack, in order to be answered.
LEMMA TakeShape ==
    ASSUME NEW C, NEW Q, NEW tx \in [Txns -> Txn], NEW st, Shape(C, Q, tx, st),
           NEW h \in Threads, st[h] # NIL, tx[st[h]].toThread = h,
           NEW su, \A g \in Threads : su[g] = IF g = h THEN tx[st[h]].toParent ELSE st[g]
    PROVE  Shape(C, Q \cup {st[h]}, tx, su)
<1>. DEFINE t == st[h]
            R == Q \cup {t}
<1>1. /\ C \subseteq Txns /\ Q \subseteq C /\ NIL \notin C /\ t \in C \ Q
      /\ \A x \in C : tx[x].fromParent \in C \cup {NIL} /\ tx[x].toParent \in C \cup {NIL}
      /\ t # NIL /\ h # NIL /\ tx[t].from # h /\ Childless(C, tx, t)
  <2>1. h # NIL
    BY NilAssumption
  <2>2. t \in C \ Q /\ tx[t].from # h /\ Childless(C, tx, t)
    BY TopChildless
  <2>. QED
    BY ShapeTop, <2>1, <2>2
<1>2. Linked(C, tx) /\ Nested(C, Q, tx) /\ Topped(C, Q, tx, st)
  BY DEF Shape
<1>3. Anc(tx, t) = {t} \cup Anc(tx, tx[t].fromParent) /\ t \notin Anc(tx, tx[t].fromParent)
  BY <1>1, <1>2, AncStep DEF Linked
<1>4. \A g \in Threads : Mem(C, R, tx, g) = Mem(C, Q, tx, g) \ {x \in {t} : g = h}
  BY <1>1 DEF Mem
<1>5. Topped(C, R, tx, su)
  <2>. SUFFICES ASSUME NEW g \in Threads
                PROVE  /\ su[g] # NIL => su[g] \in Mem(C, R, tx, g)
                       /\ Mem(C, R, tx, g) \subseteq Anc(tx, su[g])
    BY DEF Topped
  <2>1. CASE g = h
    <3>1. su[g] = tx[t].toParent
      BY <2>1
    <3>2. su[g] # NIL => su[g] \in Anc(tx, tx[t].fromParent) /\ tx[su[g]].from = h
      BY <1>1, <3>1 DEF Shape, Below
    <3>3. Mem(C, Q, tx, h) \cap Anc(tx, tx[t].fromParent) \subseteq Anc(tx, tx[t].toParent)
      BY <1>1 DEF Shape, Between
    <3>4. Mem(C, Q, tx, h) \subseteq Anc(tx, t)
      BY <1>2 DEF Topped
    <3>5. su[g] # NIL => su[g] \in Mem(C, R, tx, g)
      BY <1>1, <1>3, <2>1, <3>1, <3>2 DEF Mem
    <3>. QED
      BY <1>3, <1>4, <2>1, <3>1, <3>3, <3>4, <3>5
  <2>2. CASE g # h
    BY <1>2, <1>4, <2>2 DEF Topped
  <2>. QED
    BY <2>1, <2>2
<1>6. Nested(C, R, tx)
  BY <1>1, <1>2 DEF Nested, Childless
<1>7. Below(C, R, tx) /\ Elsewhere(C, tx)
  BY DEF Shape, Below
<1>8. Between(C, R, tx)
  <2>. SUFFICES ASSUME NEW x \in C \ R, tx[x].toThread # NIL
       PROVE  Mem(C, R, tx, tx[x].toThread) \cap Anc(tx, tx[x].fromParent) \subseteq Anc(tx, tx[x].toParent)
    BY DEF Between
  <2>1. Mem(C, Q, tx, tx[x].toThread) \cap Anc(tx, tx[x].fromParent) \subseteq Anc(tx, tx[x].toParent)
    BY DEF Shape, Between
  <2>2. Mem(C, R, tx, tx[x].toThread) \subseteq Mem(C, Q, tx, tx[x].toThread)
    BY DEF Mem
  <2>. QED
    BY <2>1, <2>2
<1>. QED
  BY <1>1, <1>2, <1>5, <1>6, <1>7, <1>8 DEF Shape

-------------------------------------------------------------------------------
(* A call fails, and with it the calls above it whose callers have gone *)

\* The calls that binder_send_failed_reply pops.
Failing(tx, t) == Aband(tx, t) \cup Answ(tx, t)

\* They begin the chain; all but the last have lost caller and server.
Begins(C, Q, tx, l, P) ==
    /\ l \in P /\ P \subseteq C /\ P \cap Q = {l}
    /\ \A c \in C : tx[c].fromParent \in P => c \in P
    /\ \A x \in P \ {l} : tx[x].toThread = NIL
    /\ \A x \in P : tx[x].from # NIL =>
         /\ x \in Answ(tx, l) /\ tx[x].from \in Threads
         /\ tx[x].fromParent \notin P
    /\ \A x \in P : tx[x].from = NIL => tx[x].fromParent \in P \cup {NIL}
    /\ \A x, y \in Answ(tx, l) : x = y

LEMMA FailingIs ==
    ASSUME NEW C, NEW Q, NEW tx \in [Txns -> Txn], NEW st, Shape(C, Q, tx, st), NEW l \in Q
    PROVE  Begins(C, Q, tx, l, Failing(tx, l))
<1>. DEFINE P == Failing(tx, l)
<1>1. /\ Linked(C, tx) /\ Childless(C, tx, l) /\ l \in C /\ l \in Txns /\ C \subseteq Txns
      /\ NIL \notin Txns /\ \A x \in C : tx[x].fromParent \in C \cup {NIL}
  BY ShapeCalls, QueuedChildless
<1>2. l \in Anc(tx, l) /\ Anc(tx, l) \subseteq C
  BY <1>1, AncUp, AncIn
<1>3. \A z \in Anc(tx, l) : l \in Anc(tx, z) => z = l
  BY <1>1, <1>2, AncAntisym
<1>4. l \in P
  BY <1>2, <1>3 DEF Failing, Aband, Answ
<1>5. P \subseteq Anc(tx, l) /\ P \subseteq C
  BY <1>2 DEF Failing, Aband, Answ
<1>6. ASSUME NEW x \in P, x # l
      PROVE  \E c \in P : /\ tx[c].fromParent = x /\ tx[c].from = NIL /\ tx[x].toThread = NIL
                          /\ x \notin Q /\ c \in C
  <2>1. PICK c \in Anc(tx, l) : /\ c \in C /\ tx[c].fromParent = x /\ x \in C /\ x \notin Q
                                 /\ tx[x].toThread = tx[c].from
                                 /\ x \in Anc(tx, c) /\ x # c /\ c \notin Anc(tx, x)
    BY <1>1, <1>5, <1>6, ServedBy
  <2>2. \A z \in Anc(tx, l) : c \in Anc(tx, z) => x \in Anc(tx, z) /\ z # x
    BY <1>1, <1>2, <2>1, AncTrans
  <2>3. \A z \in Anc(tx, l) \ {x} : x \in Anc(tx, z) => tx[z].from = NIL
    BY DEF Failing, Aband, Answ
  <2>4. c \in Aband(tx, l) /\ tx[c].from = NIL
    BY <2>1, <2>2, <2>3 DEF Aband
  <2>. QED
    BY <2>1, <2>4 DEF Failing
<1>7. \A c \in C : tx[c].fromParent \in P => c \in P
  <2>. SUFFICES ASSUME NEW c \in C, tx[c].fromParent \in P PROVE c \in P
    OBVIOUS
  <2>1. tx[c].fromParent # l /\ tx[c].fromParent # NIL
    BY <1>1, <1>5 DEF Childless
  <2>2. PICK d \in P : tx[d].fromParent = tx[c].fromParent /\ d \in C
    BY <1>6, <2>1
  <2>3. c = d
    BY <1>1, <2>1, <2>2 DEF Linked
  <2>. QED
    BY <2>2, <2>3
<1>8. ASSUME NEW x \in P, tx[x].from # NIL
      PROVE  x \in Answ(tx, l) /\ tx[x].from \in Threads /\ tx[x].fromParent \notin P
  <2>1. x \in Txns /\ x \in Anc(tx, x) /\ x \in Anc(tx, l)
    BY <1>1, <1>5, AncUp
  <2>2. x \in Answ(tx, l)
    BY <1>8, <2>1 DEF Failing, Aband
  <2>3. tx[x].from \in Threads
    <3>1. tx[x] \in Txn
      BY <2>1
    <3>. QED
      BY <1>8, <3>1 DEF Txn
  <2>4. ASSUME tx[x].fromParent \in P PROVE FALSE
    <3>1. tx[x].fromParent \in Anc(tx, l) /\ tx[x].fromParent \in Txns
      BY <1>1, <1>5, <2>4
    <3>2. x \notin Anc(tx, tx[x].fromParent)
      BY <1>1, <1>5 DEF Linked
    <3>3. Anc(tx, x) = {x} \cup Anc(tx, tx[x].fromParent) /\ tx[x].fromParent \in Anc(tx, tx[x].fromParent)
      BY <1>1, <2>1, <3>1, AncStep, AncUp
    <3>. QED
      BY <1>8, <2>1, <2>4, <3>1, <3>2, <3>3 DEF Failing, Aband, Answ
  <2>. QED
    BY <2>2, <2>3, <2>4
<1>9. ASSUME NEW x \in P, tx[x].from = NIL, tx[x].fromParent # NIL
      PROVE  tx[x].fromParent \in P
  <2>. DEFINE p == tx[x].fromParent
  <2>0. x \in C /\ x \in Anc(tx, l) /\ x \in Aband(tx, l)
    BY <1>5, <1>9 DEF Failing, Answ
  <2>1. x \in Aband(tx, l) /\ p \in Anc(tx, l) /\ x \in C /\ p \in C
    BY <1>1, <1>9, <2>0, AncUp
  <2>2. ASSUME NEW z \in Anc(tx, l), z # p, p \in Anc(tx, z) PROVE tx[z].from = NIL
    <3>0. z \in C
      BY <1>2
    <3>1. PICK c \in Anc(tx, z) : c \in C /\ tx[c].fromParent = p
      BY <1>1, <2>2, <3>0, ServedBy
    <3>2. c = x
      BY <1>1, <1>9, <2>1, <3>1 DEF Linked
    <3>. QED
      BY <2>1, <3>1, <3>2 DEF Aband
  <2>. QED
    BY <2>1, <2>2 DEF Failing, Aband, Answ
<1>10. ASSUME NEW x \in Answ(tx, l), NEW y \in Answ(tx, l) PROVE x = y
  <2>1. x \in Anc(tx, l) /\ y \in Anc(tx, l)
    BY DEF Answ
  <2>2. x \in Anc(tx, y) \/ y \in Anc(tx, x)
    BY <1>1, <2>1, AncTotal
  <2>. QED
    BY <2>1, <2>2 DEF Answ
<1>11. P \cap Q = {l}
  BY <1>4, <1>6
<1>. QED
  BY <1>4, <1>5, <1>6, <1>7, <1>8, <1>9, <1>10, <1>11 DEF Begins

\* The caller that is told of the failure waits for exactly this call.
LEMMA AnswerableTop ==
    ASSUME NEW C, NEW Q, NEW tx \in [Txns -> Txn], NEW st, Shape(C, Q, tx, st), NEW l \in Q,
           NEW x \in Answ(tx, l)
    PROVE  st[tx[x].from] = x
<1>. DEFINE f == tx[x].from
            s == st[f]
<1>1. /\ Linked(C, tx) /\ Childless(C, tx, l) /\ l \in C /\ C \subseteq Txns /\ NIL \notin Txns
  BY ShapeCalls, QueuedChildless
<1>2. /\ x \in C /\ f \in Threads /\ x \in Anc(tx, l) /\ f # NIL
      /\ \A z \in Anc(tx, l) \ {x} : x \in Anc(tx, z) => tx[z].from = NIL
  <2>1. /\ x \in Anc(tx, l) /\ f # NIL /\ x \in Failing(tx, l)
        /\ \A z \in Anc(tx, l) \ {x} : x \in Anc(tx, z) => tx[z].from = NIL
    BY DEF Failing, Answ
  <2>2. Begins(C, Q, tx, l, Failing(tx, l))
    BY FailingIs
  <2>3. x \in C /\ f \in Threads
    BY <2>1, <2>2 DEF Begins
  <2>. QED
    BY <2>1, <2>3
<1>3. x \in Anc(tx, s) /\ s # NIL /\ s \in Mem(C, Q, tx, f)
  <2>1. x \in Mem(C, Q, tx, f)
    BY <1>2 DEF Mem
  <2>2. x \in Anc(tx, s)
    BY <1>2, <2>1 DEF Shape, Topped
  <2>3. s # NIL
    BY <2>2, AncNil
  <2>. QED
    BY <1>2, <2>2, <2>3 DEF Shape, Topped
<1>. SUFFICES ASSUME s # x PROVE FALSE
  OBVIOUS
<1>4. s \in C
  BY <1>3 DEF Mem
<1>5. s \in Anc(tx, l)
  <2>1. s \in Anc(tx, l) \/ l \in Anc(tx, s)
    BY <1>1, <1>2, <1>3, <1>4, AncLinear
  <2>2. l \in Anc(tx, s) => s = l
    BY <1>1, <1>4, ChildlessTop
  <2>3. l \in Anc(tx, l)
    BY <1>1, AncUp
  <2>. QED
    BY <2>1, <2>2, <2>3
<1>6. tx[s].from = NIL
  BY <1>2, <1>3, <1>5
<1>7. tx[s].toThread = f /\ s \notin Q
  BY <1>2, <1>3, <1>6 DEF Mem
<1>8. PICK c \in Anc(tx, l) : /\ c \in C /\ tx[c].fromParent = s /\ tx[s].toThread = tx[c].from
                              /\ s \in Anc(tx, c)
  BY <1>1, <1>5, <1>7, ServedBy
<1>9. x \in Anc(tx, c) /\ c # x
  <2>1. x \in Anc(tx, c)
    BY <1>1, <1>3, <1>8, AncTrans
  <2>2. c = x => x \in Anc(tx, s) /\ s \in Anc(tx, x)
    BY <1>3, <1>8
  <2>. QED
    BY <1>1, <1>2, <1>4, <2>1, <2>2, AncAntisym
<1>. QED
  BY <1>2, <1>7, <1>8, <1>9

\* The stacks after the failure of call l: its caller's, or that of the first
\* caller up the chain that is still there, is popped.
ToldStacks(tx, l, st, su) ==
    \A g \in Threads :
        IF \E x \in Answ(tx, l) : tx[x].from = g
        THEN \E x \in Answ(tx, l) : tx[x].from = g /\ su[g] = tx[x].fromParent
        ELSE su[g] = st[g]

Failed(C, Q, tx, st, l, P, ty, su) ==
    /\ Shape(C \ P, Q \ {l}, ty, su)
    /\ \A x \in (C \ P) \cup {NIL} : Anc(ty, x) = Anc(tx, x) /\ Anc(tx, x) \subseteq C \ P
    /\ \A g \in Threads : su[g] # st[g] => st[g] \in Answ(tx, l)
    /\ Served(C, Q, tx) => Served(C \ P, Q \ {l}, ty)

LEMMA FailShape ==
    ASSUME NEW C, NEW Q, NEW tx \in [Txns -> Txn], NEW st, Shape(C, Q, tx, st), NEW l \in Q,
           NEW P, P = Failing(tx, l),
           NEW ty \in [Txns -> Txn], \A x \in C \ P : ty[x] = tx[x],
           NEW su, ToldStacks(tx, l, st, su)
    PROVE  Failed(C, Q, tx, st, l, P, ty, su)
<1>. USE DEF ToldStacks
<1>. DEFINE B == C \ P
            R == Q \ {l}
<1>1. /\ C \subseteq Txns /\ Q \subseteq C /\ NIL \notin C /\ l \in C /\ Linked(C, tx)
      /\ \A x \in C : tx[x].fromParent \in C \cup {NIL} /\ tx[x].toParent \in C \cup {NIL}
  BY ShapeCalls
<1>2. /\ l \in P /\ P \subseteq C /\ P \cap Q = {l}
      /\ \A c \in C : tx[c].fromParent \in P => c \in P
      /\ \A x \in P \ {l} : tx[x].toThread = NIL
      /\ \A x \in P : tx[x].from # NIL =>
                x \in Answ(tx, l) /\ tx[x].from \in Threads /\ tx[x].fromParent \notin P
      /\ \A x \in P : tx[x].from = NIL => tx[x].fromParent \in P \cup {NIL}
      /\ \A x, y \in Answ(tx, l) : x = y
  <2>1. Begins(C, Q, tx, l, P)
    BY FailingIs
  <2>. QED
    BY <2>1 DEF Begins
<1>3. Answ(tx, l) \subseteq P
  BY DEF Failing
<1>4. B \subseteq Txns /\ R \subseteq B /\ NIL \notin B
      /\ \A x \in B : ty[x] = tx[x] /\ tx[x].fromParent \in B \cup {NIL}
  BY <1>1, <1>2
<1>5. \A x \in B \cup {NIL} : Anc(tx, x) \subseteq B
  <2>1. UpClosed(tx, B \cup {NIL})
    BY <1>4 DEF UpClosed
  <2>. SUFFICES ASSUME NEW x \in B \cup {NIL} PROVE Anc(tx, x) \subseteq B
    OBVIOUS
  <2>2. Anc(tx, x) \subseteq B \cup {NIL}
    <3>. HIDE DEF B
    <3>. QED
      BY <1>4, <2>1, AncLeast
  <2>. QED
    BY <2>2, NilAssumption DEF Anc
<1>6. \A x \in B \cup {NIL} : Anc(ty, x) = Anc(tx, x)
  <2>. SUFFICES ASSUME NEW x \in B \cup {NIL} PROVE Anc(ty, x) = Anc(tx, x)
    OBVIOUS
  <2>1. \A y \in Anc(tx, x) : ty[y].fromParent = tx[y].fromParent
    BY <1>4, <1>5
  <2>2. x \in Txns \cup {NIL}
    BY <1>4
  <2>. QED
    BY <2>1, <2>2, AncSame
<1>7. \A g \in Threads : Mem(B, R, ty, g) = Mem(C, Q, tx, g) \ P
  <2>. SUFFICES ASSUME NEW g \in Threads PROVE Mem(B, R, ty, g) = Mem(C, Q, tx, g) \ P
    OBVIOUS
  <2>1. \A x \in B : x \notin R <=> x \notin Q
    BY <1>2
  <2>. HIDE DEF R
  <2>. QED
    BY <1>4, <2>1 DEF Mem
<1>8. ASSUME NEW g \in Threads, NEW x \in Answ(tx, l), tx[x].from = g
      PROVE  /\ su[g] = tx[x].fromParent /\ st[g] = x
             /\ Mem(C, Q, tx, g) \ P \subseteq Anc(tx, tx[x].fromParent)
             /\ x \in C /\ x \in P
  <2>1. su[g] = tx[x].fromParent
    BY <1>2, <1>8
  <2>2. st[g] = x
    BY <1>8, AnswerableTop
  <2>3. x \in P /\ x \in C
    BY <1>2, <1>3
  <2>4. Mem(C, Q, tx, g) \subseteq Anc(tx, x)
    BY <2>2 DEF Shape, Topped
  <2>5. Anc(tx, x) = {x} \cup Anc(tx, tx[x].fromParent)
    BY <1>1, <2>3, AncStep
  <2>. QED
    BY <2>1, <2>2, <2>3, <2>4, <2>5
<1>9. Topped(B, R, ty, su)
  <2>. SUFFICES ASSUME NEW g \in Threads
                PROVE  /\ su[g] # NIL => su[g] \in Mem(B, R, ty, g)
                       /\ Mem(B, R, ty, g) \subseteq Anc(ty, su[g])
    BY DEF Topped
  <2>1. CASE \E x \in Answ(tx, l) : tx[x].from = g
    <3>1. PICK x \in Answ(tx, l) : tx[x].from = g
      BY <2>1
    <3>2. /\ su[g] = tx[x].fromParent /\ x \in C /\ x \in P /\ g # NIL
          /\ Mem(C, Q, tx, g) \ P \subseteq Anc(tx, tx[x].fromParent)
      BY <1>8, <3>1, NilAssumption
    <3>3. su[g] \in B \cup {NIL}
      BY <1>1, <1>2, <3>1, <3>2
    <3>4. su[g] # NIL => su[g] \notin Q /\ tx[su[g]].toThread = g
      BY <3>1, <3>2 DEF Shape, Nested
    <3>. QED
      BY <1>4, <1>6, <1>7, <3>2, <3>3, <3>4 DEF Mem
  <2>2. CASE ~ \E x \in Answ(tx, l) : tx[x].from = g
    <3>1. su[g] = st[g] /\ (st[g] # NIL => st[g] \in Mem(C, Q, tx, g))
          /\ Mem(C, Q, tx, g) \subseteq Anc(tx, st[g])
      BY <2>2 DEF Shape, Topped
    <3>2. Mem(C, Q, tx, g) \cap P = {}
      <4>. SUFFICES ASSUME NEW x \in Mem(C, Q, tx, g), x \in P PROVE FALSE
        OBVIOUS
      <4>1. g # NIL /\ (tx[x].from = g \/ (tx[x].toThread = g /\ x \notin Q))
        BY NilAssumption DEF Mem
      <4>. QED
        BY <1>2, <2>2, <4>1
    <3>3. su[g] \in B \cup {NIL}
      BY <3>1, <3>2 DEF Mem
    <3>. QED
      BY <1>6, <1>7, <3>1, <3>2, <3>3
  <2>. QED
    BY <2>1, <2>2
<1>10. Linked(B, ty)
  BY <1>4, <1>6, <1>1 DEF Linked
<1>11. Nested(B, R, ty)
  BY <1>2, <1>4 DEF Shape, Nested
<1>12. \A x \in B : tx[x].toParent \in B \cup {NIL}
  <2>. SUFFICES ASSUME NEW x \in B, tx[x].toParent # NIL PROVE tx[x].toParent \in B
    OBVIOUS
  <2>1. tx[x].toParent \in Anc(tx, tx[x].fromParent)
    BY <1>1 DEF Shape, Below
  <2>. QED
    BY <1>4, <1>5, <2>1
<1>13. Below(B, R, ty)
  <2>. SUFFICES ASSUME NEW x \in B, tx[x].toParent # NIL
       PROVE  /\ tx[x].toParent \in Anc(ty, tx[x].fromParent)
              /\ x \notin R => ty[tx[x].toParent].from = tx[x].toThread
    BY <1>4 DEF Below
  <2>1. /\ tx[x].toParent \in Anc(tx, tx[x].fromParent)
        /\ x \notin Q => tx[tx[x].toParent].from = tx[x].toThread
    BY <1>1 DEF Shape, Below
  <2>2. x \notin R => x \notin Q
    BY <1>2
  <2>. HIDE DEF R
  <2>. QED
    BY <1>4, <1>6, <1>12, <2>1, <2>2
<1>14. Between(B, R, ty)
  <2>. SUFFICES ASSUME NEW x \in B \ R, tx[x].toThread # NIL
       PROVE  Mem(B, R, ty, tx[x].toThread) \cap Anc(ty, tx[x].fromParent) \subseteq Anc(ty, tx[x].toParent)
    BY <1>4 DEF Between
  <2>1. tx[x].toThread \in Threads
    <3>1. tx[x] \in Txn
      BY <1>4
    <3>. QED
      BY <3>1 DEF Txn
  <2>2. x \in C \ Q
    BY <1>2
  <2>3. Mem(C, Q, tx, tx[x].toThread) \cap Anc(tx, tx[x].fromParent) \subseteq Anc(tx, tx[x].toParent)
    BY <2>2 DEF Shape, Between
  <2>. QED
    BY <1>4, <1>6, <1>7, <1>12, <2>1, <2>3, ZenonT(60)
<1>15. Elsewhere(B, ty)
  BY <1>4 DEF Shape, Elsewhere
<1>16. ASSUME NEW g \in Threads, su[g] # st[g] PROVE st[g] \in Answ(tx, l)
  <2>1. PICK x \in Answ(tx, l) : tx[x].from = g
    BY <1>16
  <2>. QED
    BY <1>8, <2>1
<1>17. ASSUME Served(C, Q, tx) PROVE Served(B, R, ty)
  <2>. SUFFICES ASSUME NEW t \in B \ R, tx[t].toThread = NIL PROVE ~Childless(B, ty, t)
    BY <1>4 DEF Served
  <2>1. t \in C \ Q
    BY <1>2
  <2>2. PICK c \in C : tx[c].fromParent = t
    BY <1>17, <2>1 DEF Served, Childless
  <2>3. tx[c].from = NIL
    BY <1>4, <2>2 DEF Shape, Nested
  <2>4. c \in B
    BY <1>2, <1>4, <2>2, <2>3
  <2>. QED
    BY <1>4, <2>2, <2>4 DEF Childless
<1>18. Shape(B, R, ty, su)
  BY <1>4, <1>9, <1>10, <1>11, <1>13, <1>14, <1>15 DEF Shape
<1>. QED
  BY <1>5, <1>6, <1>16, <1>17, <1>18 DEF Failed

-------------------------------------------------------------------------------
(* A thread goes: its calls lose their caller or their server *)

\* The calls of thread h lose it, and its stack is empty.
Leaves(C, Q, tx, h, ty) ==
    \A x \in C : /\ ty[x].fromParent = tx[x].fromParent /\ ty[x].toParent = tx[x].toParent
                 /\ ty[x].from = IF x \in Mem(C, Q, tx, h) /\ tx[x].toThread # h
                                 THEN NIL ELSE tx[x].from
                 /\ ty[x].toThread = IF x \in Mem(C, Q, tx, h) /\ tx[x].toThread = h
                                     THEN NIL ELSE tx[x].toThread

Left(C, Q, tx, st, h, ty, R, su) ==
    /\ Shape(C, R, ty, su)
    /\ \A x \in C \cup {NIL} : Anc(ty, x) = Anc(tx, x)
    /\ Served(C, Q, tx) => Served(C, R, ty)
    /\ Mem(C, R, ty, h) = {}
    /\ \A g \in Threads \ {h} : Mem(C, R, ty, g) = Mem(C, Q, tx, g)

LEMMA LeaveShape ==
    ASSUME NEW C, NEW Q, NEW tx \in [Txns -> Txn], NEW st, Shape(C, Q, tx, st),
           NEW h \in Threads, NEW ty \in [Txns -> Txn], Leaves(C, Q, tx, h, ty),
           NEW R, R = IF st[h] # NIL /\ tx[st[h]].toThread = h THEN Q \cup {st[h]} ELSE Q,
           NEW su, \A g \in Threads : su[g] = IF g = h THEN NIL ELSE st[g]
    PROVE  Left(C, Q, tx, st, h, ty, R, su)
<1>. USE DEF Leaves
<1>. DEFINE M == Mem(C, Q, tx, h)
            s == st[h]
<1>1. /\ C \subseteq Txns /\ Q \subseteq C /\ NIL \notin C /\ NIL \notin Txns /\ Linked(C, tx)
      /\ \A x \in C : tx[x].fromParent \in C \cup {NIL} /\ tx[x].toParent \in C \cup {NIL}
      /\ h # NIL /\ M \subseteq C /\ s \in C \cup {NIL}
  BY ShapeCalls, ShapeTop, NilAssumption
<1>2. \A x \in C \cup {NIL} : Anc(ty, x) = Anc(tx, x)
  <2>1. \A x \in C : ty[x].fromParent = tx[x].fromParent
    OBVIOUS
  <2>. QED
    BY <1>1, <2>1, AncKept
<1>3. s # NIL /\ tx[s].toThread = h => Childless(C, tx, s) /\ s \in C \ Q /\ tx[s].from # h /\ s \in M
  BY TopChildless DEF Shape, Topped
<1>4. Q \subseteq R /\ R \subseteq C /\ R \subseteq Q \cup {s}
      /\ \A x \in R : x \notin Q => x = s /\ s # NIL /\ tx[s].toThread = h /\ s \in M
  BY <1>1, <1>3
<1>5. \A x \in C : tx[x].fromParent \notin R
  <2>. SUFFICES ASSUME NEW x \in C, tx[x].fromParent \in R PROVE FALSE
    OBVIOUS
  <2>1. tx[x].fromParent # NIL
    BY <1>1, <1>4
  <2>2. tx[x].fromParent \notin Q
    BY <2>1 DEF Shape, Nested
  <2>. QED
    BY <1>3, <1>4, <2>2 DEF Childless
<1>6. \A x \in C : /\ x \in M /\ tx[x].toThread = h => x \notin Q /\ tx[x].from # h
                   /\ x \in M /\ tx[x].toThread # h => tx[x].from = h
                   /\ x \notin M => tx[x].from # h
                   /\ x \notin M /\ x \notin Q => tx[x].toThread # h
  BY <1>1 DEF Mem, Shape, Elsewhere
\* What each call keeps, thread by thread.
<1>7. \A x \in C : /\ ty[x].from = IF tx[x].from = h THEN NIL ELSE tx[x].from
                   /\ x \notin Q => ty[x].toThread = IF tx[x].toThread = h THEN NIL ELSE tx[x].toThread
                   /\ x \in Q => ty[x].toThread = tx[x].toThread
  BY <1>6
<1>8. Mem(C, R, ty, h) = {}
  BY <1>1, <1>4, <1>7 DEF Mem
<1>9. ASSUME NEW g \in Threads \ {h} PROVE Mem(C, R, ty, g) = Mem(C, Q, tx, g)
  <2>0. g # NIL /\ g # h
    BY NilAssumption
  <2>1. ASSUME NEW x \in C
        PROVE  (ty[x].from = g \/ (ty[x].toThread = g /\ x \notin R))
                 <=> (tx[x].from = g \/ (tx[x].toThread = g /\ x \notin Q))
    <3>1. ty[x].from = g <=> tx[x].from = g
      BY <1>7, <2>0
    <3>2. ty[x].toThread = g /\ x \notin R <=> tx[x].toThread = g /\ x \notin Q
      BY <1>4, <1>7, <2>0
    <3>. QED
      BY <3>1, <3>2
  <2>. QED
    BY <2>1 DEF Mem
<1>10. Linked(C, ty)
  BY <1>1, <1>2 DEF Linked
<1>11. Topped(C, R, ty, su)
  <2>. SUFFICES ASSUME NEW g \in Threads
                PROVE  /\ su[g] # NIL => su[g] \in Mem(C, R, ty, g)
                       /\ Mem(C, R, ty, g) \subseteq Anc(ty, su[g])
    BY DEF Topped
  <2>1. CASE g = h
    BY <1>8, <2>1
  <2>2. CASE g # h
    <3>1. st[g] \in C \cup {NIL} /\ (st[g] # NIL => st[g] \in Mem(C, Q, tx, g))
          /\ Mem(C, Q, tx, g) \subseteq Anc(tx, st[g])
      BY ShapeTop DEF Shape, Topped
    <3>. QED
      BY <1>2, <1>9, <2>2, <3>1
  <2>. QED
    BY <2>1, <2>2
<1>12. Nested(C, R, ty)
  <2>. SUFFICES ASSUME NEW x \in C, tx[x].fromParent # NIL
       PROVE  tx[x].fromParent \notin R /\ ty[tx[x].fromParent].toThread = ty[x].from
    BY DEF Nested
  <2>1. tx[x].fromParent \in C \ Q /\ tx[tx[x].fromParent].toThread = tx[x].from
    BY <1>1 DEF Shape, Nested
  <2>. QED
    BY <1>5, <1>7, <2>1
<1>13. Below(C, R, ty)
  <2>. SUFFICES ASSUME NEW x \in C, tx[x].toParent # NIL
       PROVE  /\ tx[x].toParent \in Anc(ty, tx[x].fromParent)
              /\ x \notin R => ty[tx[x].toParent].from = ty[x].toThread
    BY DEF Below
  <2>1. /\ tx[x].toParent \in Anc(tx, tx[x].fromParent) /\ tx[x].toParent \in C
        /\ x \notin Q => tx[tx[x].toParent].from = tx[x].toThread
    BY <1>1 DEF Shape, Below
  <2>. QED
    BY <1>1, <1>2, <1>4, <1>7, <2>1
<1>14. Between(C, R, ty)
  <2>. SUFFICES ASSUME NEW x \in C \ R, ty[x].toThread # NIL
       PROVE  Mem(C, R, ty, ty[x].toThread) \cap Anc(ty, tx[x].fromParent) \subseteq Anc(ty, tx[x].toParent)
    BY DEF Between
  <2>1. x \in C \ Q /\ ty[x].toThread = tx[x].toThread /\ tx[x].toThread # h
    BY <1>4, <1>7
  <2>2. tx[x].toThread \in Threads \ {h}
    <3>1. tx[x] \in Txn
      BY <1>1
    <3>. QED
      BY <2>1, <3>1 DEF Txn
  <2>3. Mem(C, Q, tx, tx[x].toThread) \cap Anc(tx, tx[x].fromParent) \subseteq Anc(tx, tx[x].toParent)
    BY <2>1, <2>2, NilAssumption DEF Shape, Between
  <2>4. /\ Anc(ty, tx[x].fromParent) = Anc(tx, tx[x].fromParent)
        /\ Anc(ty, tx[x].toParent) = Anc(tx, tx[x].toParent)
    BY <1>1, <1>2, <2>1
  <2>. QED
    BY <1>9, <2>1, <2>2, <2>3, <2>4
<1>15. Elsewhere(C, ty)
  <2>. SUFFICES ASSUME NEW x \in C, ty[x].from # NIL PROVE ty[x].from # ty[x].toThread
    BY DEF Elsewhere
  <2>1. ty[x].from = tx[x].from /\ ty[x].toThread \in {NIL, tx[x].toThread}
    OBVIOUS
  <2>. QED
    BY <2>1 DEF Shape, Elsewhere
<1>16. ASSUME Served(C, Q, tx) PROVE Served(C, R, ty)
  <2>. SUFFICES ASSUME NEW t \in C \ R, ty[t].toThread = NIL PROVE \E c \in C : tx[c].fromParent = t
    BY DEF Served, Childless
  <2>1. CASE tx[t].toThread = NIL
    BY <1>4, <1>16, <2>1 DEF Served, Childless
  <2>2. CASE tx[t].toThread # NIL
    <3>1. t \in M /\ t # s /\ tx[t].toThread = h
      BY <1>1, <2>2
    <3>2. t \in Anc(tx, s)
      BY <3>1 DEF Shape, Topped
    <3>3. s \in C
      BY <1>1, <3>2, AncNil
    <3>4. PICK c \in Anc(tx, s) : c \in C /\ tx[c].fromParent = t
      BY <3>1, <3>2, <3>3, ServedBy
    <3>. QED
      BY <3>4
  <2>. QED
    BY <2>1, <2>2
<1>17. Shape(C, R, ty, su)
  BY <1>1, <1>4, <1>10, <1>11, <1>12, <1>13, <1>14, <1>15 DEF Shape
<1>. QED
  BY <1>2, <1>8, <1>9, <1>16, <1>17 DEF Left

-------------------------------------------------------------------------------
(* One thread per process in a chain *)

\* A thread that serves a call of a chain and a thread that made one are the
\* same, when they belong to the same process.
Single(C, tx) ==
    \A x, y \in C :
        /\ x \in Anc(tx, y) \/ y \in Anc(tx, x)
        /\ tx[x].toThread # NIL /\ tx[y].from # NIL
        /\ ProcOf[tx[x].toThread] = ProcOf[tx[y].from]
        => tx[x].toThread = tx[y].from

\* A call that any thread of its target process may read: no thread of that
\* process waits up its chain.
Pooled(W, tx, pr) ==
    \A t \in W : tx[t].toThread = NIL =>
        \A y \in Anc(tx, t) : tx[y].from # NIL => ProcOf[tx[y].from] # pr[t]

\* The threads of process p that wait up the chain of call s.
Waiters(tx, s, p) == {g \in Threads : ProcOf[g] = p /\ \E y \in Anc(tx, s) : tx[y].from = g}

LEMMA OneWaiter ==
    ASSUME NEW C, NEW Q, NEW tx \in [Txns -> Txn], NEW st, Shape(C, Q, tx, st), Single(C, tx),
           NEW s \in C \cup {NIL}, NEW p, NEW f \in Waiters(tx, s, p), NEW g \in Waiters(tx, s, p)
    PROVE  f = g
<1>1. /\ C \subseteq Txns /\ NIL \notin C /\ Linked(C, tx) /\ Anc(tx, s) \subseteq C
      /\ \A x \in C : tx[x].fromParent \in C \cup {NIL}
      /\ s \in Txns \cup {NIL} /\ NIL \notin Threads
  BY ShapeCalls, AncIn, NilAssumption
<1>2. PICK y \in Anc(tx, s), z \in Anc(tx, s) : tx[y].from = f /\ tx[z].from = g
  BY DEF Waiters
<1>3. ProcOf[f] = p /\ ProcOf[g] = p /\ f \in Threads /\ g \in Threads
  BY DEF Waiters
<1>4. ASSUME NEW a \in C, NEW b \in C, a \in Anc(tx, b), a # b,
             tx[a].from \in Threads, tx[b].from \in Threads,
             ProcOf[tx[a].from] = ProcOf[tx[b].from]
      PROVE  tx[a].from = tx[b].from
  <2>1. Anc(tx, b) = {b} \cup Anc(tx, tx[b].fromParent)
    BY <1>1, AncStep
  <2>2. tx[b].fromParent # NIL /\ tx[b].fromParent \in C
    BY <1>1, <1>4, <2>1, AncNil
  <2>3. tx[tx[b].fromParent].toThread = tx[b].from
    BY <2>2 DEF Shape, Nested
  <2>. QED
    BY <1>1, <1>4, <2>1, <2>2, <2>3 DEF Single
<1>5. y \in Anc(tx, z) \/ z \in Anc(tx, y)
  BY <1>1, AncTotal
<1>6. y \in C /\ z \in C
  BY <1>1
<1>7. CASE y = z
  BY <1>2, <1>7
<1>8. CASE y # z
  BY <1>2, <1>3, <1>4, <1>5, <1>6, <1>8
<1>. QED
  BY <1>7, <1>8

\* Where a nested call goes: to the thread of that process that waits up the
\* chain, if there is one.
LEMMA CalleeIs ==
    ASSUME TypeOK, NEW C, NEW Q, NEW st, Shape(C, Q, txn, st), Single(C, txn),
           NEW h \in Threads, st[h] = thr[h].stack, NEW p
    PROVE  /\ Callee(h, p) = NIL => Waiters(txn, st[h], p) = {}
           /\ Callee(h, p) # NIL => Waiters(txn, st[h], p) = {Callee(h, p)}
<1>. DEFINE s == thr[h].stack
            up == Up(txn, s)
            W == Waiters(txn, s, p)
<1>0. txn \in [Txns -> Txn] /\ Linked(C, txn) /\ s \in C \cup {NIL} /\ NIL \notin Txns /\ NIL \notin Threads
  BY ShapeCalls, ShapeTop, NilAssumption DEF TypeOK
<1>1. /\ \A k \in 0..Depth : up[k] \in Anc(txn, s) \cup {NIL}
      /\ \A x \in Anc(txn, s) : \E k \in 0..Depth : up[k] = x
  BY <1>0, UpSteps
<1>2. Callers(h, p) = {x \in Threads : /\ ProcOf[x] = p
                     /\ \E k \in 0..Depth :
                          /\ up[k] # NIL
                          /\ txn[up[k]].from = x
                          /\ \A i \in (k+1)..Depth :
                               up[i] # NIL /\ txn[up[i]].from # NIL
                                   => ProcOf[txn[up[i]].from] # p}
  BY DEF Callers
<1>. HIDE DEF up
<1>3. Callers(h, p) \subseteq W
  BY <1>1, <1>2 DEF Waiters
<1>4. ASSUME W # {} PROVE Callers(h, p) # {}
  <2>. DEFINE S == {k \in 0..Depth : up[k] # NIL /\ txn[up[k]].from \in Threads
                                     /\ ProcOf[txn[up[k]].from] = p}
  <2>1. S # {}
    <3>1. PICK g \in Threads, y \in Anc(txn, s) : ProcOf[g] = p /\ txn[y].from = g
      BY <1>4 DEF Waiters
    <3>2. PICK k \in 0..Depth : up[k] = y
      BY <1>1
    <3>3. y # NIL
      BY <1>0 DEF Anc
    <3>. QED
      BY <3>1, <3>2, <3>3
  <2>2. PICK m \in S : \A k \in S : k <= m
    <3>1. S \in SUBSET (0..Depth)
      OBVIOUS
    <3>. HIDE DEF S
    <3>. QED
      BY <2>1, <3>1, DepthIs, LastOne
  <2>3. ASSUME NEW i \in (m+1)..Depth, up[i] # NIL, txn[up[i]].from # NIL
        PROVE  ProcOf[txn[up[i]].from] # p
    <3>1. i \in 0..Depth /\ ~(i <= m)
      BY DepthIs
    <3>2. up[i] \in Txns
      BY <1>1, <2>3, <3>1 DEF Anc
    <3>3. txn[up[i]] \in Txn
      BY <1>0, <3>2
    <3>4. txn[up[i]].from \in Threads
      BY <2>3, <3>3 DEF Txn
    <3>. QED
      BY <2>2, <2>3, <3>1, <3>4
  <2>4. txn[up[m]].from \in Callers(h, p)
    BY <1>2, <2>3
  <2>. QED
    BY <2>4
<1>5. \A f, g \in W : f = g
  BY <1>0, OneWaiter
<1>. HIDE DEF W
<1>6. W \subseteq Threads
  BY DEF W, Waiters
<1>7. CASE W = {}
  <2>1. Callers(h, p) = {}
    BY <1>3, <1>7
  <2>2. Callee(h, p) = NIL
    BY <2>1 DEF Callee
  <2>. QED
    BY <1>7, <2>2 DEF W
<1>8. CASE W # {}
  <2>1. Callers(h, p) # {}
    BY <1>4, <1>8
  <2>2. Callee(h, p) \in Callers(h, p)
    BY <2>1 DEF Callee
  <2>3. Callee(h, p) \in W /\ Callee(h, p) # NIL
    BY <1>0, <1>3, <1>6, <2>2
  <2>4. W = {Callee(h, p)}
    BY <1>5, <2>3
  <2>. QED
    BY <2>3, <2>4 DEF W
<1>. QED
  BY <1>7, <1>8

\* That thread waits for this very chain: it is where its stack begins.
LEMMA WaiterTop ==
    ASSUME NEW C, NEW Q, NEW tx \in [Txns -> Txn], NEW st, Shape(C, Q, tx, st),
           NEW h \in Threads, st[h] # NIL => tx[st[h]].toThread = h,
           NEW g \in Threads \ {h}, NEW y \in Anc(tx, st[h]), tx[y].from = g
    PROVE  st[g] # NIL /\ tx[st[g]].from = g /\ st[g] \in Anc(tx, st[h])
<1>. DEFINE s == st[h]
            z == st[g]
<1>1. /\ C \subseteq Txns /\ NIL \notin C /\ Linked(C, tx) /\ s \in C \cup {NIL} /\ z \in C \cup {NIL}
      /\ Anc(tx, s) \subseteq C
  BY ShapeCalls, ShapeTop, AncIn
<1>2. s # NIL /\ s \in C /\ Childless(C, tx, s) /\ tx[s].toThread = h
  BY <1>1, AncNil, TopChildless, ZenonT(60)
<1>3. y \in Mem(C, Q, tx, g) /\ y \in Anc(tx, z) /\ z # NIL /\ z \in Mem(C, Q, tx, g)
  <2>1. y \in Mem(C, Q, tx, g)
    BY <1>1 DEF Mem
  <2>2. y \in Anc(tx, z)
    BY <2>1 DEF Shape, Topped
  <2>3. z # NIL
    BY <2>2, AncNil
  <2>. QED
    BY <2>1, <2>2, <2>3 DEF Shape, Topped
<1>4. z \in Anc(tx, s)
  <2>1. s \in Anc(tx, z) \/ z \in Anc(tx, s)
    BY <1>1, <1>2, <1>3, AncLinear
  <2>2. s \in Anc(tx, z) => s = z
    BY <1>1, <1>2, <1>3, ChildlessTop
  <2>3. s \in Anc(tx, s)
    BY <1>1, <1>2, AncUp
  <2>. QED
    BY <2>1, <2>2, <2>3
<1>5. tx[z].from = g
  <2>. SUFFICES ASSUME tx[z].from # g PROVE FALSE
    OBVIOUS
  <2>1. tx[z].toThread = g
    BY <1>3 DEF Mem
  <2>2. z # s
    BY <1>2, <2>1
  <2>3. PICK c \in Anc(tx, s) : c \in C /\ tx[z].toThread = tx[c].from /\ c \notin Anc(tx, z)
    BY <1>2, <1>4, <2>2, ServedBy
  <2>4. c \in Mem(C, Q, tx, g)
    BY <2>1, <2>3 DEF Mem
  <2>. QED
    BY <2>3, <2>4 DEF Shape, Topped
<1>. QED
  BY <1>3, <1>4, <1>5

LEMMA PushSingle ==
    ASSUME NEW C, NEW Q, NEW tx \in [Txns -> Txn], NEW st, Shape(C, Q, tx, st), Single(C, tx),
           NEW h \in Threads, st[h] # NIL => tx[st[h]].toThread = h, NEW t \in Txns \ C,
           NEW ty \in [Txns -> Txn], \A x \in C : ty[x] = tx[x], ty[t].from = h,
           \A x \in C \cup {NIL} : Anc(ty, x) = Anc(tx, x),
           Anc(ty, t) = {t} \cup Anc(tx, st[h]),
           NEW k, k = ty[t].toThread,
           k # NIL => ProcOf[k] # ProcOf[h] /\ Waiters(tx, st[h], ProcOf[k]) = {k}
    PROVE  Single(C \cup {t}, ty)
<1>. DEFINE s == st[h]
<1>1. /\ C \subseteq Txns /\ NIL \notin C /\ Linked(C, tx) /\ s \in C \cup {NIL}
      /\ \A x \in C \cup {NIL} : Anc(tx, x) \subseteq C
      /\ NIL \notin Threads
  BY ShapeCalls, ShapeTop, AncIn, NilAssumption
<1>2. ASSUME NEW x \in Anc(tx, s), tx[x].toThread # NIL, ProcOf[tx[x].toThread] = ProcOf[h]
      PROVE  tx[x].toThread = h
  <2>1. s \in C /\ x \in C /\ tx[s].toThread = h
    BY <1>1, AncNil
  <2>2. CASE x = s
    BY <2>1, <2>2
  <2>3. CASE x # s
    <3>1. PICK c \in Anc(tx, s) : c \in C /\ tx[x].toThread = tx[c].from
      BY <2>1, <2>3, ServedBy
    <3>. QED
      BY <1>1, <1>2, <2>1, <3>1 DEF Single
  <2>. QED
    BY <2>2, <2>3
<1>3. ASSUME NEW y \in Anc(tx, s), tx[y].from # NIL, k # NIL, ProcOf[k] = ProcOf[tx[y].from]
      PROVE  k = tx[y].from
  <2>1. y \in Txns
    BY DEF Anc
  <2>2. tx[y] \in Txn
    BY <2>1
  <2>3. tx[y].from \in Threads
    BY <1>3, <2>2 DEF Txn
  <2>4. tx[y].from \in Waiters(tx, s, ProcOf[k])
    BY <1>3, <2>3 DEF Waiters
  <2>. QED
    BY <1>3, <2>4
<1>. SUFFICES ASSUME NEW x \in C \cup {t}, NEW y \in C \cup {t},
                     x \in Anc(ty, y) \/ y \in Anc(ty, x),
                     ty[x].toThread # NIL, ty[y].from # NIL,
                     ProcOf[ty[x].toThread] = ProcOf[ty[y].from]
              PROVE  ty[x].toThread = ty[y].from
  BY DEF Single
<1>4. CASE x \in C /\ y \in C
  BY <1>4 DEF Single
<1>5. CASE x = t /\ y = t
  BY <1>5
<1>6. CASE x = t /\ y \in C
  <2>1. y \in Anc(tx, s)
    BY <1>1, <1>6
  <2>. QED
    BY <1>3, <1>6, <2>1
<1>7. CASE x \in C /\ y = t
  <2>1. x \in Anc(tx, s)
    BY <1>1, <1>7
  <2>. QED
    BY <1>2, <1>7, <2>1
<1>. QED
  BY <1>4, <1>5, <1>6, <1>7

LEMMA ReadSingle ==
    ASSUME NEW C, NEW Q, NEW tx \in [Txns -> Txn], NEW st, Shape(C, Q, tx, st), Single(C, tx),
           NEW h \in Threads, NEW t \in Q,
           \/ tx[t].toThread = h
           \/ \A y \in Anc(tx, t) : tx[y].from # NIL => ProcOf[tx[y].from] # ProcOf[h],
           NEW ty, \A x \in C \ {t} : ty[x] = tx[x], ty[t].from = tx[t].from, ty[t].toThread = h,
           \A x \in C : Anc(ty, x) = Anc(tx, x)
    PROVE  Single(C, ty)
<1>1. /\ C \subseteq Txns /\ Linked(C, tx) /\ t \in C /\ Childless(C, tx, t) /\ NIL \notin Threads
      /\ t \in Anc(tx, t)
  <2>1. /\ C \subseteq Txns /\ Linked(C, tx) /\ t \in C /\ t \in Txns /\ t # NIL
    BY ShapeCalls
  <2>2. t \in Anc(tx, t)
    BY <2>1, AncUp
  <2>. QED
    BY <2>1, <2>2, QueuedChildless, NilAssumption
<1>. SUFFICES ASSUME NEW x \in C, NEW y \in C, x \in Anc(ty, y) \/ y \in Anc(ty, x),
                     ty[x].toThread # NIL, ty[y].from # NIL,
                     ProcOf[ty[x].toThread] = ProcOf[ty[y].from]
              PROVE  ty[x].toThread = ty[y].from
  BY DEF Single
<1>2. ty[y].from = tx[y].from /\ (x # t => ty[x].toThread = tx[x].toThread)
  OBVIOUS
<1>3. CASE x = t /\ tx[t].toThread # h
  <2>1. t \in Anc(tx, y) => y = t
    BY <1>1, ChildlessTop
  <2>2. y \in Anc(tx, t)
    BY <1>1, <1>3, <2>1
  <2>. QED
    BY <1>2, <1>3, <2>2
<1>4. CASE x # t \/ tx[t].toThread = h
  BY <1>2, <1>4 DEF Single
<1>. QED
  BY <1>3, <1>4

LEMMA LessSingle ==
    ASSUME NEW C, NEW tx, Single(C, tx), NEW B \in SUBSET C, NEW ty,
           \A x \in B : /\ ty[x].from \in {NIL, tx[x].from} /\ ty[x].toThread \in {NIL, tx[x].toThread}
                        /\ Anc(ty, x) = Anc(tx, x)
    PROVE  Single(B, ty)
<1>. SUFFICES ASSUME NEW x \in B, NEW y \in B, x \in Anc(ty, y) \/ y \in Anc(ty, x),
                     ty[x].toThread # NIL, ty[y].from # NIL,
                     ProcOf[ty[x].toThread] = ProcOf[ty[y].from]
              PROVE  ty[x].toThread = ty[y].from
  BY DEF Single
<1>1. ty[x].toThread = tx[x].toThread /\ ty[y].from = tx[y].from
  OBVIOUS
<1>. QED
  BY <1>1 DEF Single

\* Up every call there is one that has called no further.
LEMMA LeafBelow ==
    ASSUME NEW C, NEW tx \in [Txns -> Txn], Linked(C, tx), NEW t \in C
    PROVE  \E l \in C : Childless(C, tx, l) /\ t \in Anc(tx, l)
<1>. DEFINE S == {n \in 0..Depth : \E x \in C : t \in Anc(tx, x) /\ Cardinality(Anc(tx, x)) = n}
<1>0. C \subseteq Txns /\ t \in Txns /\ t # NIL
  BY NilAssumption DEF Linked
<1>1. C \subseteq Txns /\ t \in Anc(tx, t)
  BY <1>0, AncUp
<1>2. ASSUME NEW x \in C
      PROVE  IsFiniteSet(Anc(tx, x)) /\ Cardinality(Anc(tx, x)) \in 0..Depth
  <2>1. Anc(tx, x) \in SUBSET Txns
    BY DEF Anc
  <2>2. IsFiniteSet(Anc(tx, x)) /\ Cardinality(Anc(tx, x)) <= Cardinality(Txns)
    BY <2>1, FiniteAssumption, FS_Subset
  <2>3. Cardinality(Anc(tx, x)) \in Nat
    BY <2>2, FS_CardinalityType
  <2>. QED
    BY <2>2, <2>3, DepthIs DEF Depth
<1>3. S # {} /\ S \in SUBSET (0..Depth)
  BY <1>1, <1>2
<1>4. PICK m \in S : \A k \in S : k <= m
  <2>. HIDE DEF S
  <2>. QED
    BY <1>3, DepthIs, LastOne
<1>5. PICK l \in C : t \in Anc(tx, l) /\ Cardinality(Anc(tx, l)) = m
  OBVIOUS
<1>6. ASSUME NEW c \in C, tx[c].fromParent = l PROVE FALSE
  <2>1. Anc(tx, c) = Anc(tx, l) \cup {c} /\ c \notin Anc(tx, l)
    BY <1>1, <1>6, AncStep DEF Linked
  <2>2. Cardinality(Anc(tx, c)) = m + 1
    BY <1>2, <1>5, <2>1, FS_AddElement, ZenonT(60)
  <2>3. m + 1 \in S
    BY <1>2, <1>5, <2>1, <2>2
  <2>4. m \in Nat /\ m + 1 <= m
    BY <1>4, <2>3
  <2>. QED
    BY <2>4
<1>. QED
  BY <1>5, <1>6 DEF Childless

===============================================================================
