----------------------------- MODULE BinderLooper ------------------------------
(***************************************************************************)
(* The threads of one process that serve Binder calls: how a thread waits  *)
(* in the driver (binder_thread_read), who is woken for work on the list   *)
(* of the process, when the driver asks for one more thread                *)
(* (BR_SPAWN_LOOPER), and the loops of libbinder in user space             *)
(* (src/APP_Binder_C_App/binder.c) that register and read.                 *)
(*                                                                         *)
(* binder_main_lock is dropped while a thread waits.  A read is therefore  *)
(* three steps: up to the unlock, the test of the wait condition without   *)
(* the lock, and the rest once the lock is held again.  The kernel's wait  *)
(* queues are modelled by what they guarantee: a sleeper that is woken     *)
(* tests its condition again, and a wake-up of proc->wait takes one        *)
(* exclusive sleeper off the queue.                                        *)
(***************************************************************************)
EXTENDS Integers, Sequences, FiniteSets

CONSTANTS
    Threads,    \* the threads the process may have
    Main,       \* the one that calls binder_loop
    Calls,      \* transactions of other processes
    NIL,        \* no transaction
    Stuck,      \* the calls whose handlers never return
    MaxThreads, \* bound: the values of BINDER_SET_MAX_THREADS
    Mortal,     \* the threads that may meet a signal or exit
    MaxFlush,   \* bound: how often the file is flushed
    MaxNested   \* bound: calls of the handlers to other processes

ASSUME LooperMain == Main \in Threads \ Mortal
ASSUME LooperFinite == IsFiniteSet(Threads)
ASSUME LooperSubsets == Stuck \subseteq Calls /\ Mortal \subseteq Threads
ASSUME LooperNil == NIL \notin Calls
ASSUME LooperBounds == MaxThreads \subseteq Nat /\ MaxFlush \in Nat /\ MaxNested \in Nat

VARIABLES
    pc,         \* where each thread is
    looper,     \* binder_thread.looper
    forProc,    \* wait_for_proc_work of the read that a thread is in
    failed,     \* the wait of that read was interrupted
    serving,    \* the call that a thread serves
    outgoing,   \* a thread waits for the answer to a call of its own
    own,        \* binder_thread.todo: what waits for the thread itself
    todo,       \* binder_proc.todo
    maxThreads, \* binder_proc.max_threads
    requested,  \* binder_proc.requested_threads
    started,    \* binder_proc.requested_threads_started
    ready,      \* binder_proc.ready_threads
    frame,      \* the thread whose binder_parse holds the arguments of a new one
    mute,       \* the threads that were started without a handler
    top,        \* history: the largest max_threads there was
    flushes, nested     \* the bounded actions so far

counters == <<maxThreads, requested, started, ready>>
vars == <<pc, looper, forProc, failed, serving, outgoing, own, todo, counters,
          frame, mute, top, flushes, nested>>

-------------------------------------------------------------------------------
(* Shape of the state *)

\* unborn, new: before and after pthread_create; user: between two calls of the
\* driver; spawn, spawnNull: at BR_SPAWN_LOOPER in the binder_parse of a loop,
\* and in that of binder_call, which has no handler to pass on; test, sleep,
\* woken, relock: inside binder_thread_read; gone: the thread's loop has ended.
Spawning == {"spawn", "spawnNull"}
Reading == {"test", "sleep", "woken", "relock"}
Places == {"unborn", "new", "user", "gone"} \cup Spawning \cup Reading
Flags == {"REGISTERED", "ENTERED", "INVALID", "WAITING", "NEED_RETURN"}

TypeOK ==
    /\ pc \in [Threads -> Places]
    /\ looper \in [Threads -> SUBSET Flags]
    /\ forProc \in [Threads -> BOOLEAN]
    /\ failed \in [Threads -> BOOLEAN]
    /\ serving \in [Threads -> Calls \cup {NIL}]
    /\ outgoing \in [Threads -> BOOLEAN]
    /\ own \in [Threads -> SUBSET {"COMPLETE", "REPLY"}]
    /\ todo \in Seq(Calls)
    /\ maxThreads \in Nat /\ requested \in Nat /\ started \in Nat /\ ready \in Nat
    /\ frame \in [Threads -> Threads \cup {NIL}]
    /\ mute \in SUBSET Threads
    /\ top \in Nat /\ flushes \in Nat /\ nested \in Nat

Init ==
    /\ pc = [t \in Threads |-> IF t = Main THEN "new" ELSE "unborn"]
    /\ looper = [t \in Threads |-> {}]
    /\ forProc = [t \in Threads |-> FALSE]
    /\ failed = [t \in Threads |-> FALSE]
    /\ serving = [t \in Threads |-> NIL]
    /\ outgoing = [t \in Threads |-> FALSE]
    /\ own = [t \in Threads |-> {}]
    /\ todo = <<>>
    /\ maxThreads = 0 /\ requested = 0 /\ started = 0 /\ ready = 0
    /\ frame = [t \in Threads |-> NIL]
    /\ mute = {}
    /\ top = 0 /\ flushes = 0 /\ nested = 0

-------------------------------------------------------------------------------
(* Waiting and waking *)

IsLooper(t) == looper[t] \cap {"REGISTERED", "ENTERED"} # {}
StackEmpty(t) == serving[t] = NIL /\ ~outgoing[t]
ForProcWork(t) == StackEmpty(t) /\ own[t] = {}
HasProcWork(t) == todo # <<>> \/ "NEED_RETURN" \in looper[t]
HasThreadWork(t) == own[t] # {} \/ "NEED_RETURN" \in looper[t]
Condition(t) == IF forProc[t] THEN HasProcWork(t) ELSE HasThreadWork(t)

\* The exclusive sleepers on proc->wait.
Sleepers(p) == {t \in Threads: p[t] = "sleep" /\ forProc[t]}
\* Mutant: only the first work on an empty list wakes a thread.
WakeFirst(p) == IF Sleepers(p) = {} \/ todo # <<>> THEN {p}
                ELSE {[p EXCEPT ![t] = "woken"]: t \in Sleepers(p)}
\* wake_up_interruptible(&proc->wait), from the places p: the outcomes.
WakeOne(p) == IF Sleepers(p) = {} THEN {p}
              ELSE {[p EXCEPT ![t] = "woken"]: t \in Sleepers(p)}
\* wake_up_interruptible(&thread->wait)
WakeOwn(p, t) == IF p[t] = "sleep" /\ ~forProc[t] THEN [p EXCEPT ![t] = "woken"] ELSE p

\* On to the wait, with wait_for_proc_work w and rd threads ready so far.
Wait(t, w, rd) ==
    /\ forProc' = [forProc EXCEPT ![t] = w]
    /\ looper' = [looper EXCEPT ![t] = @ \cup {"WAITING"}]
    /\ ready' = rd + (IF w THEN 1 ELSE 0)
    /\ pc' = [pc EXCEPT ![t] = "test"]

\* BINDER_WRITE_READ with nothing to write.  A loop that reads again has left
\* the binder_parse of its last read, and the local variables in it; a loop
\* without a handler reads on while the call it was given waits for a reply.
StartRead(t) ==
    /\ pc[t] = "user"
    /\ serving[t] # NIL => outgoing[t] \/ t \in mute
    /\ Wait(t, ForProcWork(t), ready)
    /\ frame' = [u \in Threads |-> IF frame[u] = t /\ ~outgoing[t] THEN NIL ELSE frame[u]]
    /\ UNCHANGED <<failed, serving, outgoing, own, todo, maxThreads, requested, started,
                   mute, top, flushes, nested>>

\* wait_event_interruptible(_exclusive): the condition is tested, without the
\* lock, after the thread is on the queue.
Test(t) ==
    /\ pc[t] \in {"test", "woken"}
    /\ pc' = [pc EXCEPT ![t] = IF Condition(t) THEN "relock" ELSE "sleep"]
    /\ UNCHANGED <<looper, forProc, failed, serving, outgoing, own, todo, counters,
                   frame, mute, top, flushes, nested>>

\* A signal ends the wait of an idle thread; a wake-up that came with it is
\* passed on.
Signal(t) ==
    /\ t \in Mortal /\ forProc[t]
    /\ pc[t] \in {"test", "sleep", "woken"} /\ ~Condition(t)
    /\ pc' \in LET p == [pc EXCEPT ![t] = "relock"]
               IN  IF pc[t] = "woken" THEN WakeOne(p) ELSE {p}
    /\ failed' = [failed EXCEPT ![t] = TRUE]
    /\ UNCHANGED <<looper, forProc, serving, outgoing, own, todo, counters,
                   frame, mute, top, flushes, nested>>

-------------------------------------------------------------------------------
(* The end of a read, with the lock *)

\* What the loop of binder_thread_read finds for a thread that has waited.
Finds(t) == CASE own[t] # {} -> "own"
              [] own[t] = {} /\ todo # <<>> /\ forProc[t] -> "proc"
              [] OTHER -> "nothing"

\* Mutant: a thread that is on its way is not counted.
WantsThreadAgain(t, rd) == rd = 0 /\ started < maxThreads /\ IsLooper(t)
\* Mutant: only threads that have registered ask for another one.
WantsThreadRegistered(t, rd) ==
    requested + rd = 0 /\ started < maxThreads /\ "REGISTERED" \in looper[t]
\* The driver asks for a thread when none waits and none is on its way.
WantsThread(t, rd) ==
    /\ requested + rd = 0
    /\ started < maxThreads
    /\ IsLooper(t)

\* Mutant: the flag of the read is computed again, from the call stack.
NotReadyNow(t) == IF StackEmpty(t) THEN ready - 1 ELSE ready
\* ready_threads without t.
NotReady(t) == IF forProc[t] THEN ready - 1 ELSE ready

\* From here to the end of binder_ioctl: p is where the thread goes, rest what
\* is left on the list of the process.
Leave(t, p, rest) ==
    /\ pc' \in IF rest = <<>> THEN {[pc EXCEPT ![t] = p]} ELSE WakeOne([pc EXCEPT ![t] = p])
    /\ looper' = [looper EXCEPT ![t] = @ \ {"WAITING", "NEED_RETURN"}]
    /\ todo' = rest
    /\ ready' = NotReady(t)

\* The read ends: with what was the thread's own, with a call, or with nothing
\* (NEED_RETURN).
FinishRead(t) ==
    LET found == Finds(t)
        rest == IF found = "proc" THEN Tail(todo) ELSE todo
        wants == WantsThread(t, NotReady(t))
        spawn == IF outgoing[t] THEN "spawnNull" ELSE "spawn"
    IN  /\ pc[t] = "relock" /\ ~failed[t]
        /\ found = "nothing" => "NEED_RETURN" \in looper[t]
        /\ own' = [own EXCEPT ![t] = {}]
        /\ outgoing' = [outgoing EXCEPT ![t] = @ /\ "REPLY" \notin own[t]]
        /\ serving' = IF found = "proc" THEN [serving EXCEPT ![t] = Head(todo)] ELSE serving
        /\ requested' = IF wants THEN requested + 1 ELSE requested
        /\ Leave(t, IF wants THEN spawn ELSE "user", rest)
        /\ UNCHANGED <<forProc, failed, maxThreads, started, frame, mute, top, flushes, nested>>

\* Somebody else took the work: goto retry.
Retry(t) ==
    /\ pc[t] = "relock" /\ ~failed[t]
    /\ Finds(t) = "nothing" /\ "NEED_RETURN" \notin looper[t]
    /\ Wait(t, ForProcWork(t), NotReady(t))
    /\ UNCHANGED <<failed, serving, outgoing, own, todo, maxThreads, requested, started,
                   frame, mute, top, flushes, nested>>

\* An interrupted read: the loops of libbinder end.
FailRead(t) ==
    /\ pc[t] = "relock" /\ failed[t]
    /\ Leave(t, "gone", todo)
    /\ UNCHANGED <<forProc, failed, serving, outgoing, own, maxThreads, requested, started,
                   frame, mute, top, flushes, nested>>

-------------------------------------------------------------------------------
(* Commands and user space *)

\* BINDER_SET_MAX_THREADS
SetMaxThreads(k) ==
    /\ k # maxThreads /\ pc[Main] \in {"new", "user"}
    /\ maxThreads' = k
    /\ top' = IF k > top THEN k ELSE top
    /\ looper' = [looper EXCEPT ![Main] = @ \ {"NEED_RETURN"}]
    /\ UNCHANGED <<pc, forProc, failed, serving, outgoing, own, todo, requested,
                   started, ready, frame, mute, flushes, nested>>

\* binder_loop: BC_ENTER_LOOPER, after binder_set_maxthreads.
EnterLooper ==
    /\ pc[Main] = "new" /\ maxThreads # 0
    /\ pc' = [pc EXCEPT ![Main] = "user"]
    /\ looper' = [looper EXCEPT ![Main] = @ \cup {"ENTERED"}
                                            \cup (IF "REGISTERED" \in @ THEN {"INVALID"} ELSE {})]
    /\ UNCHANGED <<forProc, failed, serving, outgoing, own, todo, counters,
                   frame, mute, top, flushes, nested>>

\* binder_parse at BR_SPAWN_LOOPER: pthread_create, if there can be one more;
\* its result is not looked at.
SpawnThread(t) ==
    /\ pc[t] \in Spawning
    /\ IF \E u \in Threads: pc[u] = "unborn"
       THEN \E u \in Threads:
                /\ pc[u] = "unborn"
                /\ pc' = [pc EXCEPT ![t] = "user", ![u] = "new"]
                /\ frame' = [frame EXCEPT ![u] = IF pc[t] = "spawn" THEN t ELSE NIL]
       ELSE pc' = [pc EXCEPT ![t] = "user"] /\ UNCHANGED frame
    /\ UNCHANGED <<looper, forProc, failed, serving, outgoing, own, todo, counters,
                   mute, top, flushes, nested>>

\* binder_thread_routine: what it reads through the address of a local variable
\* (292) is what was there if that binder_parse still runs, or any function.
\* binder_thread_loop: BC_REGISTER_LOOPER.  The write makes the thread known to
\* the driver and clears the NEED_RETURN it starts with.
Registered(t) == requested > 0 /\ "ENTERED" \notin looper[t]
RegisterLooper(t) ==
    /\ t # Main /\ pc[t] = "new"
    /\ pc' = [pc EXCEPT ![t] = "user"]
    /\ IF Registered(t)
       THEN requested' = requested - 1 /\ started' = started + 1
       ELSE UNCHANGED <<requested, started>>
    /\ looper' = [looper EXCEPT ![t] = @ \cup {"REGISTERED"}
                                         \cup (IF Registered(t) THEN {} ELSE {"INVALID"})]
    /\ mute' \in IF frame[t] = NIL THEN {mute, mute \cup {t}} ELSE {mute}
    /\ UNCHANGED <<forProc, failed, serving, outgoing, own, todo, maxThreads, ready,
                   frame, top, flushes, nested>>

\* The handler of a call is done: binder_send_reply, a write.  The driver queues
\* BR_TRANSACTION_COMPLETE for the thread, whose next read will not wait for
\* work of the process.
SendReply(t) ==
    /\ pc[t] = "user" /\ t \notin mute
    /\ serving[t] \notin Stuck \cup {NIL} /\ ~outgoing[t]
    /\ serving' = [serving EXCEPT ![t] = NIL]
    /\ own' = [own EXCEPT ![t] = @ \cup {"COMPLETE"}]
    /\ looper' = [looper EXCEPT ![t] = @ \ {"NEED_RETURN"}]
    /\ UNCHANGED <<pc, forProc, failed, outgoing, todo, counters,
                   frame, mute, top, flushes, nested>>

\* The handler makes a call of its own: binder_call writes and reads at once.
CallOut(t) ==
    /\ pc[t] = "user" /\ t \notin mute
    /\ serving[t] # NIL /\ ~outgoing[t]
    /\ nested < MaxNested /\ nested' = nested + 1
    /\ outgoing' = [outgoing EXCEPT ![t] = TRUE]
    /\ own' = [own EXCEPT ![t] = @ \cup {"COMPLETE"}]
    /\ Wait(t, FALSE, ready)
    /\ UNCHANGED <<failed, serving, todo, maxThreads, requested, started,
                   frame, mute, top, flushes>>

\* BINDER_THREAD_EXIT
ThreadExit(t) ==
    /\ t \in Mortal /\ pc[t] = "user"
    /\ pc' = [pc EXCEPT ![t] = "gone"]
    /\ looper' = [looper EXCEPT ![t] = {}]
    /\ serving' = [serving EXCEPT ![t] = NIL]
    /\ outgoing' = [outgoing EXCEPT ![t] = FALSE]
    /\ own' = [own EXCEPT ![t] = {}]
    /\ UNCHANGED <<forProc, failed, todo, counters, frame, mute, top, flushes, nested>>

-------------------------------------------------------------------------------
(* Other processes, and close *)

Idle(c) == (\A i \in DOMAIN todo: todo[i] # c) /\ \A t \in Threads: serving[t] # c

\* binder_transaction puts a call on proc->todo and wakes proc->wait.
Arrive(c) ==
    /\ Idle(c)
    /\ todo' = Append(todo, c)
    /\ pc' \in WakeOne(pc)
    /\ UNCHANGED <<looper, forProc, failed, serving, outgoing, own, counters,
                   frame, mute, top, flushes, nested>>

\* binder_transaction puts an answer on the list of the thread that waits.
Answer(t) ==
    /\ outgoing[t] /\ "REPLY" \notin own[t]
    /\ own' = [own EXCEPT ![t] = @ \cup {"REPLY"}]
    /\ pc' = WakeOwn(pc, t)
    /\ UNCHANGED <<looper, forProc, failed, serving, outgoing, todo, counters,
                   frame, mute, top, flushes, nested>>

\* binder_deferred_flush: every thread the driver knows has to return.
Known(t) == pc[t] \notin {"unborn", "new", "gone"}
Flush ==
    /\ flushes < MaxFlush /\ flushes' = flushes + 1
    /\ looper' = [t \in Threads |-> IF Known(t) THEN looper[t] \cup {"NEED_RETURN"} ELSE looper[t]]
    /\ pc' = [t \in Threads |-> IF pc[t] = "sleep" THEN "woken" ELSE pc[t]]
    /\ UNCHANGED <<forProc, failed, serving, outgoing, own, todo, counters, frame, mute, top, nested>>

-------------------------------------------------------------------------------
(* The specification *)

\* What a thread that runs does next, and whatever it does next.
Runs(t) ==
    \/ StartRead(t) \/ Test(t) \/ FinishRead(t) \/ Retry(t) \/ FailRead(t)
    \/ SpawnThread(t) \/ RegisterLooper(t) \/ SendReply(t)
    \/ t = Main /\ EnterLooper

Next ==
    \/ \E t \in Threads: Runs(t) \/ Signal(t) \/ CallOut(t) \/ ThreadExit(t) \/ Answer(t)
    \/ \E k \in MaxThreads: SetMaxThreads(k)
    \/ \E c \in Calls: Arrive(c)
    \/ Flush

Spec == Init /\ [][Next]_vars

\* Threads get to run, and other processes answer.
FairSpec == Spec /\ \A t \in Threads: WF_vars(Runs(t)) /\ WF_vars(Answer(t))

-------------------------------------------------------------------------------
(* Properties *)

\* ready_threads counts by wait_for_proc_work as it was before the lock was
\* dropped (2337): it is the number of threads in a read that waits for work of
\* the process, also when waits fail, retry or are overtaken by other threads.
InRead(t) == pc[t] \in Reading
ReadyExact == ready = Cardinality({t \in Threads: InRead(t) /\ forProc[t]})

\* No wake-up is lost (2846): while work is on the list of the process and a
\* thread sleeps for it, some thread that waits for such work is awake; it takes
\* the work, or wakes the next one when it leaves.
Awake(t) == pc[t] \in {"test", "woken", "relock"} /\ forProc[t]
NoLostWakeup == todo # <<>> /\ Sleepers(pc) # {} => \E t \in Threads: Awake(t)

\* The driver asks for one thread at a time, and for no more than the largest
\* limit it was ever given (2625); started threads are never subtracted.
SpawnBound == requested <= 1 /\ requested + started <= top

\* A call on the list of the process is taken in the end, also when other
\* handlers never return, as long as they are fewer than the threads allowed,
\* none of the process's threads has gone, and none was started without a
\* handler.
Crippled(t) == pc[t] = "gone" \/ t \in mute
Served ==
    \A c \in Calls:
        maxThreads # 0 /\ (\E i \in DOMAIN todo: todo[i] = c)
            ~> (\A i \in DOMAIN todo: todo[i] # c) \/ \E t \in Threads: Crippled(t)
===============================================================================
