-------------------------- MODULE BinderTransactions --------------------------
(***************************************************************************)
(* The transaction core of the Binder driver, src/DRV_Binder/binder.c:     *)
(* synchronous calls and replies with their call stacks, one-way calls     *)
(* serialised per node, transaction buffers, the error codes a thread      *)
(* reads back, thread exit and the deferred release of a closed process.   *)
(*                                                                         *)
(* Every action runs under binder_main_lock, as the ioctl and the deferred *)
(* worker do.  The loops of binder_free_thread and binder_deferred_release *)
(* run work item by work item; "lock" names the thread and process being   *)
(* freed, and no other action is enabled until the loop is over.           *)
(***************************************************************************)
EXTENDS Integers, Sequences, FiniteSets

CONSTANTS
    Procs,          \* processes with /dev/binder open (struct binder_proc)
    Threads,        \* their threads (struct binder_thread)
    Nodes,          \* the binder objects that calls are addressed to
    Txns,           \* identities of struct binder_transaction
    Bufs,           \* identities of struct binder_buffer
    ProcOf,         \* the process of a thread
    Owner,          \* the process a node lives in (node->proc)
    NIL,            \* the NULL pointer
    Complete,       \* a BINDER_WORK_TRANSACTION_COMPLETE item
    MaxTodo,        \* bound: a thread with this many queued items writes no more
    Calls,          \* which thread makes synchronous calls to which node
    OneWay,         \* which thread makes one-way calls to which node
    Servers,        \* the threads that make synchronous calls only while they serve one
    Faulty,         \* bound: the threads whose writes may fail for reasons of their own
    Quitters,       \* bound: the threads and processes that may exit
    CookieMismatch  \* may a sender pass an object whose cookie is not the node's?

ASSUME ProcOfAssumption == ProcOf \in [Threads -> Procs]
ASSUME OwnerAssumption == Owner \in [Nodes -> Procs]
ASSUME NilAssumption == NIL \notin Threads \cup Procs \cup Nodes \cup Txns \cup Bufs
ASSUME CompleteAssumption == Complete \notin Txns
ASSUME BoundAssumption == MaxTodo \in Nat /\ CookieMismatch \in BOOLEAN
\* A process reaches its own objects directly, not through the driver.
ASSUME CallsAssumption ==
    /\ Calls \subseteq Threads \X Nodes /\ OneWay \subseteq Threads \X Nodes
    /\ \A c \in Calls \cup OneWay : Owner[c[2]] # ProcOf[c[1]]
ASSUME FiniteAssumption == IsFiniteSet(Txns) /\ IsFiniteSet(Threads)

VARIABLES
    proc,      \* "open", "closed" (release deferred) or "dead"
    thr,       \* per thread: transaction_stack, todo, return_error, return_error2;
               \* late: the error came while the thread was inside a read
    ptodo,     \* per process: proc->todo
    node,      \* per node: has_async_transaction and async_todo
    txn,       \* the transactions
    buf,       \* the buffers
    lock,      \* the free or release loop that holds binder_main_lock
    due,       \* history: returns the driver owes each thread
    orphaned,  \* history: nodes whose one-way call in delivery was released
    oops       \* history: BUG(), BUG_ON() and "cannot happen" branches taken

vars == <<proc, thr, ptodo, node, txn, buf, lock, due, orphaned, oops>>

-------------------------------------------------------------------------------
(* Shape of the state *)

Codes == {"BR_OK", "BR_TRANSACTION_COMPLETE", "BR_DEAD_REPLY", "BR_FAILED_REPLY"}

Txn == [live: BOOLEAN, from: Threads \cup {NIL}, fromParent: Txns \cup {NIL},
        toThread: Threads \cup {NIL}, toParent: Txns \cup {NIL},
        oneway: BOOLEAN, buffer: Bufs \cup {NIL}]

Buf == [live: BOOLEAN, proc: Procs \cup {NIL}, node: Nodes \cup {NIL},
        txn: Txns \cup {NIL}, async: BOOLEAN, userFree: BOOLEAN]

Thread == [stack: Txns \cup {NIL}, todo: Seq(Txns \cup {Complete}),
           err: Codes, err2: Codes, late: BOOLEAN]

NoTxn == [live |-> FALSE, from |-> NIL, fromParent |-> NIL, toThread |-> NIL,
          toParent |-> NIL, oneway |-> FALSE, buffer |-> NIL]
NoBuf == [live |-> FALSE, proc |-> NIL, node |-> NIL, txn |-> NIL,
          async |-> FALSE, userFree |-> FALSE]
NewThread == [stack |-> NIL, todo |-> <<>>, err |-> "BR_OK", err2 |-> "BR_OK",
              late |-> FALSE]

\* The lock is free, or a thread is being freed (for BINDER_THREAD_EXIT when
\* proc is NIL), or a process is being released with "left" threads to go.
Lock == [held: BOOLEAN, proc: Procs \cup {NIL}, thread: Threads \cup {NIL},
         left: SUBSET Threads]
Unlocked == [held |-> FALSE, proc |-> NIL, thread |-> NIL, left |-> {}]

Bugs == {"pop", "stack walk", "async flag", "no buffer", "reply dropped", "outlives release"}

TypeOK ==
    /\ proc \in [Procs -> {"open", "closed", "dead"}]
    /\ thr \in [Threads -> Thread]
    /\ ptodo \in [Procs -> Seq(Txns)]
    /\ node \in [Nodes -> [async: BOOLEAN, todo: Seq(Txns)]]
    /\ txn \in [Txns -> Txn]
    /\ buf \in [Bufs -> Buf]
    /\ lock \in Lock
    /\ due \in [Threads -> Int]
    /\ orphaned \in SUBSET Nodes
    /\ oops \in SUBSET Bugs

Init ==
    /\ proc = [p \in Procs |-> "open"]
    /\ thr = [h \in Threads |-> NewThread]
    /\ ptodo = [p \in Procs |-> <<>>]
    /\ node = [n \in Nodes |-> [async |-> FALSE, todo |-> <<>>]]
    /\ txn = [t \in Txns |-> NoTxn]
    /\ buf = [b \in Bufs |-> NoBuf]
    /\ lock = Unlocked
    /\ due = [h \in Threads |-> 0]
    /\ orphaned = {}
    /\ oops = {}

-------------------------------------------------------------------------------
(* Call chains and call stacks *)

Depth == Cardinality(Txns)

\* t, its from_parent, the from_parent of that, ... (NIL past the root).
Up(tx, t) ==
    LET up[k \in 0..Depth] == IF k = 0 THEN t
                              ELSE IF up[k-1] = NIL THEN NIL
                              ELSE tx[up[k-1]].fromParent
    IN up

\* The transactions of a chain.
Chain(tx, t) == LET up == Up(tx, t) IN {x \in Txns : \E k \in 0..Depth : up[k] = x}

\* What binder_send_failed_reply walks over: the chain as far as its senders
\* are gone, and the transaction (if any) whose sender is still there.
Abandoned(tx, t) ==
    LET up == Up(tx, t) IN
    {x \in Txns : \E k \in 0..Depth : /\ up[k] = x
                                      /\ \A i \in 0..k : tx[up[i]].from = NIL}
Answerable(tx, t) ==
    LET up == Up(tx, t) IN
    {x \in Txns : \E k \in 0..Depth : /\ up[k] = x
                                      /\ tx[x].from # NIL
                                      /\ \A i \in 0..(k-1) : tx[up[i]].from = NIL}

\* The transactions on a thread's stack, incoming and outgoing.
OnStack(h) ==
    LET down[k \in 0..Depth] == IF k = 0 THEN thr[h].stack
                                ELSE IF down[k-1] = NIL THEN NIL
                                ELSE IF txn[down[k-1]].toThread = h
                                     THEN txn[down[k-1]].toParent
                                     ELSE txn[down[k-1]].fromParent
    IN {x \in Txns : \E k \in 0..Depth : down[k] = x}

\* Faulty variants of Callee, below: nested calls always go to the pool; a
\* call goes to some thread of the process, whatever that thread waits for.
PoolCallee(h, p) == NIL
AnyCallee(h, p) == CHOOSE x \in Threads : ProcOf[x] = p

\* Where a nested call to process p goes: the thread of p nearest the root of
\* the caller's chain, which waits for this very call; none sends it to proc->todo.
Callers(h, p) ==
    LET up == Up(txn, thr[h].stack) IN
    {x \in Threads : /\ ProcOf[x] = p
                     /\ \E k \in 0..Depth :
                          /\ up[k] # NIL
                          /\ txn[up[k]].from = x
                          /\ \A i \in (k+1)..Depth :
                               up[i] # NIL /\ txn[up[i]].from # NIL
                                   => ProcOf[txn[up[i]].from] # p}
Callee(h, p) == IF Callers(h, p) = {} THEN NIL ELSE CHOOSE x \in Callers(h, p) : TRUE

\* Faulty variant of Detach: the buffers keep pointing to the transactions.
Undetached(bs, tx, gone) == bs

\* binder_pop_transaction as seen by the buffers of the popped transactions:
\* t->buffer->transaction = NULL.
Detach(bs, tx, gone) ==
    [b \in Bufs |-> IF \E x \in gone : tx[x].buffer = b
                    THEN [bs[b] EXCEPT !.txn = NIL] ELSE bs[b]]
Freed(tx, gone) == [t \in Txns |-> IF t \in gone THEN NoTxn ELSE tx[t]]

\* Faulty variants of Moved, below: return_error2 is not used; an unread error
\* is overwritten.
Unmoved(hs, f) == hs[f]
Overwritten(hs, f) == [hs[f] EXCEPT !.err = "BR_OK"]

\* binder_send_failed_reply(t, code), from a state with transactions tx,
\* buffers bs and threads hs.  An error the thread has not read yet moves to
\* return_error2; when both are taken the reply is dropped.  The thread may be
\* inside binder_thread_read then, past the point where that looks for errors
\* and without the lock: the error is late.
Moved(hs, f) ==
    IF hs[f].err # "BR_OK" /\ hs[f].err2 = "BR_OK"
    THEN [hs[f] EXCEPT !.err2 = hs[f].err, !.err = "BR_OK"]
    ELSE hs[f]
Deliverable(tx, hs, t) ==
    {x \in Answerable(tx, t) : Moved(hs, tx[x].from).err = "BR_OK"}
Popped(tx, hs, t) == Abandoned(tx, t) \cup Deliverable(tx, hs, t)

SendFailedReply(tx, bs, hs, t, code) ==
    /\ txn' = Freed(tx, Popped(tx, hs, t))
    /\ buf' = Detach(bs, tx, Popped(tx, hs, t))
    /\ \E late \in BOOLEAN :
         thr' = [h \in Threads |->
                   IF \E x \in Deliverable(tx, hs, t) : tx[x].from = h
                   THEN LET x == CHOOSE y \in Deliverable(tx, hs, t) : tx[y].from = h
                        IN [Moved(hs, h) EXCEPT !.stack = tx[x].fromParent, !.err = code,
                                                !.late = late /\ hs[h].err = "BR_OK"]
                   ELSE hs[h]]
    /\ oops' = oops
         \cup {"reply dropped" : x \in Answerable(tx, t) \ Deliverable(tx, hs, t)}
         \cup {"pop" : x \in {y \in Deliverable(tx, hs, t) : hs[tx[y].from].stack # y}}

-------------------------------------------------------------------------------
(* BINDER_WRITE_READ, write half: binder_thread_write stops at an error code *)

Running(h) == proc[ProcOf[h]] = "open" /\ ~lock.held
CanWrite(h) == Running(h) /\ thr[h].err = "BR_OK" /\ Len(thr[h].todo) < MaxTodo

\* list_add_tail to, and list_del from, the todo list of a thread.
Enqueue(hs, h, w) == [hs EXCEPT ![h].todo = Append(@, w)]
Dequeue(hs, h) == [hs EXCEPT ![h].todo = Tail(@)]

FreeTxns == {t \in Txns : ~txn[t].live}
FreeBufs == {b \in Bufs : ~buf[b].live}
Memory == FreeTxns # {} /\ FreeBufs # {}
Returns(h, k) == due' = [due EXCEPT ![h] = @ + k]

\* A write that fails before any transaction exists.
Refuse(h, code) ==
    /\ thr' = [thr EXCEPT ![h].err = code]
    /\ Returns(h, 1)
    /\ UNCHANGED <<proc, ptodo, node, txn, buf, lock, orphaned, oops>>

\* A thread that waits for a reply may make no new call.
BadCallStack(h) == thr[h].stack # NIL /\ txn[thr[h].stack].toThread # h

MayCall(h, n, oneway) ==
    IF oneway THEN <<h, n>> \in OneWay
    ELSE <<h, n>> \in Calls /\ (h \in Servers => thr[h].stack # NIL)

CallRefused(h, n, oneway) ==
    /\ CanWrite(h) /\ MayCall(h, n, oneway)
    /\ \/ proc[Owner[n]] = "dead" /\ Refuse(h, "BR_DEAD_REPLY")
       \/ /\ h \in Faulty /\ proc[Owner[n]] # "dead" /\ ~oneway /\ BadCallStack(h)
          /\ Refuse(h, "BR_FAILED_REPLY")

\* What a transaction from h to process p may fail with: a process with its
\* file closed has no proc->vma and binder_alloc_buf fails, as it does when
\* memory runs out; a copy or an object fails; or a cookie mismatch, found once the buffer is allocated,
\* jumps to the common exit without setting return_error.
FailureCodes(h, p) ==
    IF proc[p] # "open" \/ ~Memory THEN {"BR_FAILED_REPLY"}
    ELSE IF h \notin Faulty THEN {}
    ELSE {"BR_FAILED_REPLY"} \cup (IF CookieMismatch THEN {"BR_OK"} ELSE {})

CallFails(h, n, oneway) ==
    /\ CanWrite(h) /\ MayCall(h, n, oneway) /\ proc[Owner[n]] # "dead"
    /\ oneway \/ ~BadCallStack(h)
    /\ \E code \in FailureCodes(h, Owner[n]) : Refuse(h, code)

\* Faulty variants of NewBuf: allow_user_free is set too early; async_transaction
\* is not set; process and node are swapped.
NewBufFree(p, n, t, async) ==
    [live |-> TRUE, proc |-> p, node |-> n, txn |-> t, async |-> async, userFree |-> TRUE]
NewBufSync(p, n, t, async) ==
    [live |-> TRUE, proc |-> p, node |-> n, txn |-> t, async |-> FALSE, userFree |-> FALSE]
NewBufSwapped(p, n, t, async) ==
    [live |-> TRUE, proc |-> n, node |-> p, txn |-> t, async |-> async, userFree |-> FALSE]

NewBuf(p, n, t, async) ==
    [live |-> TRUE, proc |-> p, node |-> n, txn |-> t, async |-> async, userFree |-> FALSE]

\* BC_TRANSACTION of a synchronous call.
Call(h, n) ==
    LET p == Owner[n]
        callee == Callee(h, p) IN
    /\ CanWrite(h) /\ MayCall(h, n, FALSE) /\ proc[p] = "open" /\ ~BadCallStack(h)
    /\ \E t \in FreeTxns, b \in FreeBufs :
         /\ txn' = [txn EXCEPT ![t] = [live |-> TRUE, from |-> h,
                        fromParent |-> thr[h].stack, toThread |-> callee,
                        toParent |-> NIL, oneway |-> FALSE, buffer |-> b]]
         /\ buf' = [buf EXCEPT ![b] = NewBuf(p, n, t, FALSE)]
         /\ LET hs == Enqueue([thr EXCEPT ![h].stack = t], h, Complete) IN
            IF callee = NIL
            THEN thr' = hs /\ ptodo' = [ptodo EXCEPT ![p] = Append(@, t)]
            ELSE thr' = Enqueue(hs, callee, t) /\ ptodo' = ptodo
    /\ Returns(h, 2)
    /\ UNCHANGED <<proc, node, lock, orphaned, oops>>

\* BC_TRANSACTION with TF_ONE_WAY: behind another one-way call to the node it
\* waits in node->async_todo.
CallOneWay(h, n) ==
    LET p == Owner[n] IN
    /\ CanWrite(h) /\ MayCall(h, n, TRUE) /\ proc[p] = "open"
    /\ \E t \in FreeTxns, b \in FreeBufs :
         /\ txn' = [txn EXCEPT ![t] = [NoTxn EXCEPT !.live = TRUE, !.oneway = TRUE, !.buffer = b]]
         /\ buf' = [buf EXCEPT ![b] = NewBuf(p, n, t, TRUE)]
         /\ IF node[n].async
            THEN /\ node' = [node EXCEPT ![n].todo = Append(@, t)]
                 /\ ptodo' = ptodo
            ELSE /\ node' = [node EXCEPT ![n].async = TRUE]
                 /\ ptodo' = [ptodo EXCEPT ![p] = Append(@, t)]
    /\ thr' = Enqueue(thr, h, Complete)
    /\ Returns(h, 1)
    /\ UNCHANGED <<proc, lock, orphaned, oops>>

\* BC_REPLY with nothing to reply to, or on top of an unanswered call.
ReplyRefused(h) ==
    /\ CanWrite(h) /\ h \in Faulty
    /\ thr[h].stack = NIL \/ BadCallStack(h)
    /\ Refuse(h, "BR_FAILED_REPLY")

\* The replying thread has popped its stack, and reads BR_TRANSACTION_COMPLETE
\* whatever becomes of the reply.
Replied(h) ==
    [thr EXCEPT ![h].stack = txn[thr[h].stack].toParent, ![h].err = "BR_TRANSACTION_COMPLETE"]
CanReply(h) == CanWrite(h) /\ thr[h].stack # NIL /\ ~BadCallStack(h)
Caller(h) == txn[thr[h].stack].from

\* BC_REPLY whose caller has gone: the failure travels up the chain.
ReplyToDead(h) ==
    /\ CanReply(h) /\ Caller(h) = NIL
    /\ SendFailedReply(txn, buf, Replied(h), thr[h].stack, "BR_DEAD_REPLY")
    /\ Returns(h, 1)
    /\ UNCHANGED <<proc, ptodo, node, lock, orphaned>>

\* BC_REPLY that fails after the caller is found: the caller does not wait for
\* this reply (then the stack is popped and no one is told), or see CallFails.
ReplyFails(h) ==
    /\ CanReply(h) /\ Caller(h) # NIL
    /\ IF thr[Caller(h)].stack # thr[h].stack
       THEN /\ thr' = [Replied(h) EXCEPT ![h].err = "BR_FAILED_REPLY"]
            /\ UNCHANGED <<txn, buf, oops>>
       ELSE \E code \in FailureCodes(h, ProcOf[Caller(h)]) :
              SendFailedReply(txn, buf, Replied(h), thr[h].stack, code)
    /\ Returns(h, 1)
    /\ UNCHANGED <<proc, ptodo, node, lock, orphaned>>

\* Faulty variant of Unwound: the caller's stack is not popped.
UnwoundServer(h, call, caller) == [thr EXCEPT ![h].stack = txn[call].toParent]

Unwound(h, call, caller) ==
    [[thr EXCEPT ![h].stack = txn[call].toParent] EXCEPT ![caller].stack = txn[call].fromParent]

\* BC_REPLY: the call is popped from both stacks and the reply queued to the caller.
Reply(h) ==
    LET call == thr[h].stack
        caller == Caller(h) IN
    /\ CanReply(h) /\ caller # NIL /\ thr[caller].stack = call
    /\ proc[ProcOf[caller]] = "open"
    /\ \E t \in FreeTxns, b \in FreeBufs :
         /\ txn' = [Freed(txn, {call}) EXCEPT
                      ![t] = [NoTxn EXCEPT !.live = TRUE, !.toThread = caller, !.buffer = b]]
         /\ buf' = [Detach(buf, txn, {call}) EXCEPT ![b] = NewBuf(ProcOf[caller], NIL, t, FALSE)]
         /\ thr' = Enqueue(Enqueue(Unwound(h, call, caller), caller, t), h, Complete)
    /\ Returns(h, 1)
    /\ UNCHANGED <<proc, ptodo, node, lock, orphaned, oops>>

\* BC_FREE_BUFFER: freeing a one-way call's buffer puts the node's next one-way
\* call on the todo list of the freeing thread.
FreeBuffer(h, b) ==
    LET n == buf[b].node
        t == buf[b].txn
        async == buf[b].async /\ n # NIL
        next == async /\ node[n].todo # <<>> IN
    /\ CanWrite(h)
    /\ buf[b].live /\ buf[b].proc = ProcOf[h] /\ buf[b].userFree
    /\ txn' = IF t = NIL THEN txn ELSE [txn EXCEPT ![t].buffer = NIL]
    /\ buf' = [buf EXCEPT ![b] = NoBuf]
    /\ node' = IF next THEN [node EXCEPT ![n].todo = Tail(@)]
               ELSE IF async THEN [node EXCEPT ![n].async = FALSE] ELSE node
    /\ thr' = IF next THEN Enqueue(thr, h, Head(node[n].todo)) ELSE thr
    /\ oops' = oops \cup (IF async /\ ~node[n].async THEN {"async flag"} ELSE {})
    /\ UNCHANGED <<proc, ptodo, lock, due, orphaned>>

-------------------------------------------------------------------------------
(* BINDER_WRITE_READ, read half: binder_thread_read.  A read returns at the  *)
(* latest after the first transaction, earlier when its buffer is full; one  *)
(* item a step is every such read.                                           *)

\* Error codes first, return_error2 before return_error -- but a late error
\* only when the read it came in found no work of the thread.
ErrorFirst(h) == thr[h].err # "BR_OK" /\ (thr[h].late => thr[h].todo = <<>>)
WorkFirst(h) == thr[h].err = "BR_OK" \/ thr[h].late

ReadError(h) ==
    /\ Running(h) /\ ErrorFirst(h)
    /\ thr' = [thr EXCEPT ![h].err = "BR_OK", ![h].err2 = "BR_OK", ![h].late = FALSE]
    /\ Returns(h, IF thr[h].err2 = "BR_OK" THEN -1 ELSE -2)
    /\ UNCHANGED <<proc, ptodo, node, txn, buf, lock, orphaned, oops>>

\* The thread's own work first; work of the process only for a thread with no
\* call on its stack and nothing of its own to do.
OwnWork(h) == WorkFirst(h) /\ thr[h].todo # <<>>
OwnTxn(h) == OwnWork(h) /\ Head(thr[h].todo) # Complete
ProcTxn(h) == /\ thr[h].err = "BR_OK" /\ thr[h].todo = <<>> /\ thr[h].stack = NIL
              /\ ptodo[ProcOf[h]] # <<>>
NextTxn(h) == IF thr[h].todo # <<>> THEN Head(thr[h].todo) ELSE Head(ptodo[ProcOf[h]])

\* A read goes on after BR_TRANSACTION_COMPLETE while the thread has work, and
\* ends with a transaction.
ReadComplete(h) ==
    /\ Running(h) /\ OwnWork(h) /\ ~OwnTxn(h)
    /\ thr' = [Dequeue(thr, h) EXCEPT ![h].late = @ /\ Tail(thr[h].todo) # <<>>]
    /\ Returns(h, -1)
    /\ UNCHANGED <<proc, ptodo, node, txn, buf, lock, orphaned, oops>>

Dequeued(h) ==
    IF thr[h].todo # <<>> THEN [Dequeue(thr, h) EXCEPT ![h].late = FALSE] ELSE thr

\* BR_TRANSACTION or BR_REPLY.  A synchronous call stays, on the reader's
\* stack; a one-way call or a reply is finished with.
ReadTxn(h) ==
    LET t == NextTxn(h)
        b == txn[t].buffer
        call == buf[b].node # NIL /\ ~txn[t].oneway IN
    /\ Running(h) /\ (OwnTxn(h) \/ ProcTxn(h))
    /\ ptodo' = IF thr[h].todo # <<>> THEN ptodo
                ELSE [ptodo EXCEPT ![ProcOf[h]] = Tail(@)]
    /\ IF b = NIL
       THEN /\ oops' = oops \cup {"no buffer"}
            /\ thr' = Dequeued(h)
            /\ UNCHANGED <<txn, buf, due>>
       ELSE /\ buf' = [buf EXCEPT ![b].userFree = TRUE, ![b].txn = IF call THEN @ ELSE NIL]
            /\ txn' = IF call
                      THEN [txn EXCEPT ![t].toThread = h, ![t].toParent = thr[h].stack]
                      ELSE Freed(txn, {t})
            /\ thr' = IF call THEN [Dequeued(h) EXCEPT ![h].stack = t] ELSE Dequeued(h)
            /\ Returns(h, IF buf[b].node = NIL THEN -1 ELSE 0)
            /\ oops' = oops
    /\ UNCHANGED <<proc, node, lock, orphaned>>

-------------------------------------------------------------------------------
(* binder_free_thread, binder_release_work, binder_deferred_release *)

Incoming(h, t) == txn[t].toThread = h

\* The walk over the stack of thread h: incoming calls lose their target and
\* buffer, outgoing calls their sender.  The call being served, when it is on
\* top, is answered with BR_DEAD_REPLY; otherwise that answer is left to the
\* outgoing call above it.
FreeStack(h) ==
    LET walked == OnStack(h)
        tx == [t \in Txns |->
                 IF t \notin walked THEN txn[t]
                 ELSE IF Incoming(h, t) THEN [txn[t] EXCEPT !.toThread = NIL, !.buffer = NIL]
                 ELSE [txn[t] EXCEPT !.from = NIL]]
        bs == Detach(buf, txn, {t \in walked : Incoming(h, t)})
        hs == [thr EXCEPT ![h].stack = NIL]
        top == thr[h].stack
        strays == {t \in walked : ~Incoming(h, t) /\ txn[t].from # h} IN
    IF strays # {}
    THEN /\ oops' = oops \cup {"stack walk"}
         /\ UNCHANGED <<txn, buf, thr>>
    ELSE IF top # NIL /\ Incoming(h, top)
    THEN SendFailedReply(tx, bs, hs, top, "BR_DEAD_REPLY")
    ELSE txn' = tx /\ buf' = bs /\ thr' = hs /\ oops' = oops

\* BINDER_THREAD_EXIT.
ThreadExit(h) ==
    /\ Running(h) /\ h \in Quitters
    /\ lock' = [Unlocked EXCEPT !.held = TRUE, !.thread = h]
    /\ FreeStack(h)
    /\ UNCHANGED <<proc, ptodo, node, due, orphaned>>

\* The file is closed: binder_release defers the rest to the workqueue.
Close(p) ==
    /\ proc[p] = "open" /\ ~lock.held /\ p \in Quitters
    /\ proc' = [proc EXCEPT ![p] = "closed"]
    /\ UNCHANGED <<thr, ptodo, node, txn, buf, lock, due, orphaned, oops>>

DeferredRelease(p) ==
    /\ proc[p] = "closed" /\ ~lock.held
    /\ lock' = [held |-> TRUE, proc |-> p, thread |-> NIL,
                left |-> {h \in Threads : ProcOf[h] = p}]
    /\ UNCHANGED <<proc, thr, ptodo, node, txn, buf, due, orphaned, oops>>

ReleaseThread(h) ==
    /\ lock.thread = NIL /\ h \in lock.left
    /\ lock' = [lock EXCEPT !.thread = h, !.left = @ \ {h}]
    /\ FreeStack(h)
    /\ UNCHANGED <<proc, ptodo, node, due, orphaned>>

\* Faulty variant of Drop: a synchronous call is dropped like any other work.
DropQuietly(hs, t) ==
    thr' = hs /\ oops' = oops /\ txn' = Freed(txn, {t}) /\ buf' = Detach(buf, txn, {t})

\* binder_release_work on one transaction taken off a list, with the lists
\* left in hs: a synchronous call fails, anything else is dropped.
Drop(hs, t) ==
    LET b == txn[t].buffer IN
    IF b = NIL
    THEN thr' = hs /\ oops' = oops \cup {"no buffer"} /\ UNCHANGED <<txn, buf>>
    ELSE IF buf[b].node # NIL /\ ~txn[t].oneway
    THEN SendFailedReply(txn, buf, hs, t, "BR_DEAD_REPLY")
    ELSE thr' = hs /\ oops' = oops /\ txn' = Freed(txn, {t}) /\ buf' = Detach(buf, txn, {t})

\* The node whose one-way call in delivery t is, in a process that goes on.
Orphans(t) ==
    {n \in Nodes : lock.proc = NIL /\ txn[t].oneway /\ buf[txn[t].buffer].node = n}

ReleaseThreadWork(h) ==
    LET w == Head(thr[h].todo)
        hs == Dequeue(thr, h) IN
    /\ lock.thread = h /\ thr[h].todo # <<>>
    /\ IF w = Complete
       THEN thr' = hs /\ UNCHANGED <<txn, buf, orphaned, oops>>
       ELSE Drop(hs, w) /\ orphaned' = orphaned \cup Orphans(w)
    /\ UNCHANGED <<proc, ptodo, node, lock, due>>

\* kfree(thread).  The thread's next ioctl makes a new one.
ThreadFreed(h) ==
    /\ lock.thread = h /\ thr[h].todo = <<>>
    /\ thr' = [thr EXCEPT ![h] = NewThread]
    /\ due' = [due EXCEPT ![h] = 0]
    /\ lock' = IF lock.proc = NIL THEN Unlocked ELSE [lock EXCEPT !.thread = NIL]
    /\ UNCHANGED <<proc, ptodo, node, txn, buf, orphaned, oops>>

Releasing(p) == lock.held /\ lock.proc = p /\ lock.thread = NIL /\ lock.left = {}

ReleaseNodeWork(n) ==
    /\ Releasing(Owner[n]) /\ node[n].todo # <<>>
    /\ node' = [node EXCEPT ![n].todo = Tail(@)]
    /\ Drop(thr, Head(node[n].todo))
    /\ UNCHANGED <<proc, ptodo, lock, due, orphaned>>

ReleaseProcWork(p) ==
    /\ Releasing(p) /\ ptodo[p] # <<>>
    /\ \A n \in Nodes : Owner[n] = p => node[n].todo = <<>>
    /\ ptodo' = [ptodo EXCEPT ![p] = Tail(@)]
    /\ Drop(thr, Head(ptodo[p]))
    /\ UNCHANGED <<proc, node, lock, due, orphaned>>

\* The buffers go; a transaction that still has one is left without it.
ReleaseProc(p) ==
    LET gone == {b \in Bufs : buf[b].live /\ buf[b].proc = p}
        left == {buf[b].txn : b \in gone} \ {NIL} IN
    /\ Releasing(p) /\ ptodo[p] = <<>>
    /\ \A n \in Nodes : Owner[n] = p => node[n].todo = <<>>
    /\ txn' = [t \in Txns |-> IF t \in left THEN [txn[t] EXCEPT !.buffer = NIL] ELSE txn[t]]
    /\ buf' = [b \in Bufs |-> IF b \in gone THEN NoBuf ELSE buf[b]]
    /\ node' = [n \in Nodes |-> IF Owner[n] = p THEN [async |-> FALSE, todo |-> <<>>] ELSE node[n]]
    /\ orphaned' = {n \in orphaned : Owner[n] # p}
    /\ oops' = oops \cup (IF left # {} THEN {"outlives release"} ELSE {})
    /\ proc' = [proc EXCEPT ![p] = "dead"]
    /\ lock' = Unlocked
    /\ UNCHANGED <<thr, ptodo, due>>

-------------------------------------------------------------------------------
Write(h) ==
    \/ \E n \in Nodes, oneway \in BOOLEAN : CallRefused(h, n, oneway) \/ CallFails(h, n, oneway)
    \/ \E n \in Nodes : Call(h, n) \/ CallOneWay(h, n)
    \/ ReplyRefused(h) \/ ReplyToDead(h) \/ ReplyFails(h) \/ Reply(h)
    \/ \E b \in Bufs : FreeBuffer(h, b)

Read(h) == ReadError(h) \/ ReadComplete(h) \/ ReadTxn(h)

\* The loops that hold the lock.
Worker ==
    \/ \E h \in Threads : ReleaseThread(h) \/ ReleaseThreadWork(h) \/ ThreadFreed(h)
    \/ \E n \in Nodes : ReleaseNodeWork(n)
    \/ \E p \in Procs : ReleaseProcWork(p) \/ ReleaseProc(p)

Next ==
    \/ \E h \in Threads : Write(h) \/ Read(h) \/ ThreadExit(h)
    \/ \E p \in Procs : Close(p) \/ DeferredRelease(p)
    \/ Worker

Spec == Init /\ [][Next]_vars

\* A thread goes on reading, a service answers every call in the end however
\* many calls it makes itself meanwhile, and the kernel's work gets done.  The
\* fairness is strong because each of them may find binder_main_lock taken
\* again and again, and gets its turn (it is an rt_mutex with a wait queue).
Answer(h) == Reply(h) \/ ReplyToDead(h) \/ ReplyFails(h)
Fairness ==
    /\ \A h \in Threads : SF_vars(Read(h)) /\ SF_vars(Answer(h))
    /\ \A p \in Procs : SF_vars(DeferredRelease(p))
    /\ WF_vars(Worker)
FairSpec == Spec /\ Fairness

-------------------------------------------------------------------------------
(* Properties *)

\* No BUG() or BUG_ON() of the transaction code fires (binder_pop_transaction,
\* BC_FREE_BUFFER, binder_thread_read, binder_free_thread), no failed reply is
\* dropped because both error codes of the caller are taken, and no transaction
\* is left when a released process frees its buffers.
NoBug == oops = {}

Queued(t) == \/ \E h \in Threads : \E i \in DOMAIN thr[h].todo : thr[h].todo[i] = t
             \/ \E p \in Procs : \E i \in DOMAIN ptodo[p] : ptodo[p][i] = t
             \/ \E n \in Nodes : \E i \in DOMAIN node[n].todo : node[n].todo[i] = t

\* Nothing points to a freed transaction: neither a stack, nor a work list, nor
\* a buffer, nor the parent pointers of a live transaction; and no transaction
\* outlives all of its holders.
NoDanglingTransaction ==
    /\ \A h \in Threads : thr[h].stack # NIL => txn[thr[h].stack].live
    /\ \A b \in Bufs : buf[b].txn # NIL => txn[buf[b].txn].live
    /\ \A t \in Txns :
         /\ Queued(t) => txn[t].live
         /\ txn[t].fromParent # NIL => txn[txn[t].fromParent].live
         /\ txn[t].toParent # NIL => txn[txn[t].toParent].live
         /\ txn[t].live =>
              \/ Queued(t)
              \/ \E h \in Threads : \E x \in Chain(txn, thr[h].stack) : x = t
              \/ \E x \in Txns : Queued(x) /\ t \in Chain(txn, x)

\* A queued transaction owns its buffer: in the right process, pointing back,
\* and out of the reach of BC_FREE_BUFFER.
QueuedBufferHeld ==
    \A t \in Txns : Queued(t) =>
        LET b == txn[t].buffer IN
        /\ b # NIL /\ buf[b].live /\ buf[b].txn = t /\ ~buf[b].userFree
        /\ \A h \in Threads : (\E i \in DOMAIN thr[h].todo : thr[h].todo[i] = t)
                                => buf[b].proc = ProcOf[h]

\* t->buffer and buffer->transaction are each other's inverse, so that neither
\* outlives what it points to: BC_FREE_BUFFER, a reply, a failed reply and the
\* exit of the serving thread may each be the first to cut the tie.
PointersAgree(tx, bs) ==
    /\ \A t \in Txns : tx[t].buffer # NIL =>
         tx[t].live /\ bs[tx[t].buffer].live /\ bs[tx[t].buffer].txn = t
    /\ \A b \in Bufs : bs[b].txn # NIL => bs[b].live /\ tx[bs[b].txn].buffer = b
BufferPointersAgree == PointersAgree(txn, buf)

\* The thread that serves a call and the thread that made it agree: when the
\* call is on top of the server's stack and its caller is alive, it is on top
\* of the caller's stack too, so "bad target transaction stack" cannot happen.
ReplyTargetWaits ==
    \A h \in Threads :
        LET t == thr[h].stack IN
        (t # NIL /\ Incoming(h, t) /\ txn[t].from # NIL) => thr[txn[t].from].stack = t

\* A chain of nested calls runs in at most one thread of each process: a call
\* back into a process that waits further up the chain goes to the very thread
\* that waits, never to a second one of its pool.
OneThreadPerProcess ==
    \A h \in Threads : \A x, y \in Chain(txn, thr[h].stack) :
        /\ txn[x].toThread # NIL /\ txn[y].from # NIL
        /\ ProcOf[txn[x].toThread] = ProcOf[txn[y].from]
        => txn[x].toThread = txn[y].from

\* A thread is owed exactly what is still to be read by it: one return for
\* every BC_TRANSACTION and BC_REPLY it wrote (BR_TRANSACTION_COMPLETE or an
\* error), and one more (BR_REPLY, BR_DEAD_REPLY or BR_FAILED_REPLY) for every
\* synchronous call that was accepted.  None is lost, none comes twice.
One(b) == IF b THEN 1 ELSE 0
EveryCommandAnswered ==
    \A h \in Threads : lock.thread # h =>
        due[h] =
            Cardinality({i \in DOMAIN thr[h].todo :
                LET w == thr[h].todo[i] IN
                w = Complete \/ buf[txn[w].buffer].node = NIL})
            + Cardinality({t \in OnStack(h) : txn[t].from = h})
            + One(thr[h].err # "BR_OK") + One(thr[h].err2 # "BR_OK")

\* Of the one-way calls to a node at most one is queued for a thread or held by
\* user space; the others wait in async_todo, and they wait only while there
\* is such a one -- unless a thread exited with it unread (BINDER_THREAD_EXIT
\* after BC_FREE_BUFFER), which strands the node's queue.
InDelivery(n) ==
    {b \in Bufs : /\ buf[b].live /\ buf[b].async /\ buf[b].node = n
                  /\ \A i \in DOMAIN node[n].todo : txn[node[n].todo[i]].buffer # b
                  /\ buf[b].userFree \/ buf[b].txn # NIL}
AsyncSerialised ==
    \A n \in Nodes : ~lock.held =>
        /\ Cardinality(InDelivery(n)) <= 1
        /\ node[n].async <=> InDelivery(n) # {} \/ n \in orphaned
        /\ node[n].todo # <<>> => node[n].async

\* "Write failed, return error code in read buf" (struct binder_thread): a
\* command that creates no transaction and delivers no reply leaves an error
\* code for its writer.
FailedWriteReported ==
    [][\A h \in Threads : due'[h] > due[h] =>
         \/ thr'[h].err # "BR_OK"
         \/ thr'[h].todo = Append(thr[h].todo, Complete)]_vars

\* A synchronous call does not hang: it leaves the caller's stack in the end,
\* with a reply or an error, whoever dies meanwhile -- as long as no two chains
\* wait for each other's threads (calls start in threads that serve no one).
Waits(h, t) == thr[h].stack = t /\ txn[t].from = h
CallReturns ==
    \A h \in Threads, t \in Txns :
        Waits(h, t) ~> thr[h].stack # t
===============================================================================
