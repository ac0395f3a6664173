------------------------------ MODULE BinderDeath ------------------------------
(***************************************************************************)
(* Death notifications of the Binder driver, src/DRV_Binder/binder.c, as   *)
(* one process sees them: it holds references to nodes of other processes, *)
(* asks to be told when they die (BC_REQUEST_DEATH_NOTIFICATION), takes    *)
(* that back (BC_CLEAR_DEATH_NOTIFICATION), and acknowledges what it has   *)
(* been told (BC_DEAD_BINDER_DONE).                                        *)
(*                                                                         *)
(* A struct binder_ref_death travels: it hangs off its reference, is       *)
(* queued on a todo list of the process or of a thread, waits in           *)
(* delivered_death for the acknowledgement, and may lose its reference on  *)
(* the way.  The transactions that bring references share the todo list of *)
(* the process with it.  Every action runs under binder_main_lock; a read  *)
(* that takes several items is as many steps.  Each node lives in a        *)
(* process of its own.                                                     *)
(***************************************************************************)
EXTENDS Integers, FiniteSets, SequencesExt

CONSTANTS
    Proc,       \* the process
    Threads,    \* its threads
    Nodes,      \* nodes of other processes
    Cookies,    \* what user space names a notification by
    Deaths,     \* identities of struct binder_ref_death
    Msgs,       \* transactions to the process, with their buffers
    NIL,        \* the NULL pointer
    MaxCount,   \* bound: counts of the process on one reference
    Quitters    \* bound: the threads that may exit, and Proc if it may

ASSUME DeathThreads == Proc \notin Threads
ASSUME DeathItems == Deaths \cap Msgs = {} /\ IsFiniteSet(Nodes) /\ IsFiniteSet(Msgs)
ASSUME DeathNil == NIL \notin Deaths \cup Msgs \cup Nodes \cup Threads \cup Nat \cup {Proc}

VARIABLES
    open,       \* the process has not been released
    alive,      \* the nodes whose process has not been released
    ref,        \* struct binder_ref of the process, per node
    death,      \* struct binder_ref_death
    msg,        \* the transactions to the process
    todo,       \* binder_thread.todo and binder_proc.todo
    delivered,  \* binder_proc.delivered_death
    looper,     \* the threads that are REGISTERED or ENTERED
    bug         \* a BUG or BUG_ON was met

vars == <<open, alive, ref, death, msg, todo, delivered, looper, bug>>

-------------------------------------------------------------------------------
(* Shape of the state *)

Lists == Threads \cup {Proc}
Handles == 1..Cardinality(Nodes)

\* count: all the counts on the reference, strong and weak, by commands and
\* buffers (BinderRefs keeps them apart).
Ref == [desc: Handles \cup {NIL}, count: Nat, death: Deaths \cup {NIL}]
\* type: of the work item; "armed" before the item was ever queued.
\* told, done, lost: history; BR_DEAD_BINDER was read, BC_DEAD_BINDER_DONE
\* found it, a thread that exited took the item off its list.
Death == [type: {"free", "armed", "dead", "deadclear", "clear"},
          cookie: Cookies \cup {NIL}, told: BOOLEAN, done: BOOLEAN, lost: BOOLEAN]
\* by: the thread that serves it.
Msg == [st: {"free", "queued", "held"}, node: Nodes \cup {NIL}, by: Threads \cup {NIL}]

NoRef == [desc |-> NIL, count |-> 0, death |-> NIL]
NoDeath == [type |-> "free", cookie |-> NIL, told |-> FALSE, done |-> FALSE, lost |-> FALSE]
NewDeath(c) == [NoDeath EXCEPT !.type = "armed", !.cookie = c]
NoMsg == [st |-> "free", node |-> NIL, by |-> NIL]

TypeOK ==
    /\ open \in BOOLEAN
    /\ alive \in SUBSET Nodes
    /\ ref \in [Nodes -> Ref]
    /\ death \in [Deaths -> Death]
    /\ msg \in [Msgs -> Msg]
    /\ todo \in [Lists -> Seq(Deaths \cup Msgs)]
    /\ delivered \in Seq(Deaths)
    /\ looper \in SUBSET Threads
    /\ bug \in BOOLEAN

Init ==
    /\ open = TRUE
    /\ alive = Nodes
    /\ ref = [n \in Nodes |-> NoRef]
    /\ death = [d \in Deaths |-> NoDeath]
    /\ msg = [m \in Msgs |-> NoMsg]
    /\ todo = [l \in Lists |-> <<>>]
    /\ delivered = <<>>
    /\ looper = {}
    /\ bug = FALSE

-------------------------------------------------------------------------------
(* Lists and references *)

\* list_del: the entry goes, wherever it is.
Without(s, d) ==
    IF d \in Range(s) THEN RemoveAt(s, CHOOSE i \in DOMAIN s: s[i] = d) ELSE s
\* !list_empty(&death->work.entry)
Queued(d) == d \in Range(delivered) \/ \E l \in Lists: d \in Range(todo[l])

\* Where a command of thread t queues: on its own list if it is a looper.
ListFor(t) == IF t \in looper THEN t ELSE Proc

Named(h) == {n \in Nodes: ref[n].desc = h}

\* The lowest free handle; 0 is the context manager's.
NewDesc == CHOOSE h \in Handles: /\ Named(h) = {}
                                 /\ \A k \in Handles: Named(k) = {} => h <= k

\* binder_get_ref_for_node, and a count for the buffer.
Counted(n) ==
    IF ref[n].desc = NIL THEN [ref EXCEPT ![n] = [NoRef EXCEPT !.desc = NewDesc, !.count = 1]]
                         ELSE [ref EXCEPT ![n].count = @ + 1]

\* Mutant: the notification stays queued when its reference goes.
UncountQueued(n) ==
    LET d == ref[n].death
        last == ref[n].count = 1
    IN  /\ ref' = IF last THEN [ref EXCEPT ![n] = NoRef] ELSE [ref EXCEPT ![n].count = @ - 1]
        /\ death' = IF last /\ d # NIL THEN [death EXCEPT ![d] = NoDeath] ELSE death
        /\ UNCHANGED <<todo, delivered>>

\* binder_dec_ref; binder_delete_ref frees the notification with the reference,
\* wherever it is queued.
Uncount(n) ==
    LET d == ref[n].death
        last == ref[n].count = 1
    IN  /\ ref' = IF last THEN [ref EXCEPT ![n] = NoRef] ELSE [ref EXCEPT ![n].count = @ - 1]
        /\ IF last /\ d # NIL
           THEN /\ death' = [death EXCEPT ![d] = NoDeath]
                /\ todo' = [l \in Lists |-> Without(todo[l], d)]
                /\ delivered' = Without(delivered, d)
           ELSE UNCHANGED <<death, todo, delivered>>

-------------------------------------------------------------------------------
(* Transactions to the process, and counts of user space *)

\* Another process sends a transaction, with a reference to n unless n is NIL.
Send(m, n) ==
    /\ open /\ msg[m].st = "free"
    /\ n # NIL => ref[n].count < MaxCount
    /\ msg' = [msg EXCEPT ![m] = [st |-> "queued", node |-> n, by |-> NIL]]
    /\ todo' = [todo EXCEPT ![Proc] = Append(@, m)]
    /\ ref' = IF n = NIL THEN ref ELSE Counted(n)
    /\ UNCHANGED <<open, alive, death, delivered, looper, bug>>

\* BC_FREE_BUFFER and BC_REPLY in one write, as binder_send_reply does.
Reply(t, m) ==
    /\ open /\ msg[m].st = "held" /\ msg[m].by = t
    /\ msg' = [msg EXCEPT ![m] = NoMsg]
    /\ IF msg[m].node = NIL THEN UNCHANGED <<ref, death, todo, delivered>>
                            ELSE Uncount(msg[m].node)
    /\ UNCHANGED <<open, alive, looper, bug>>

\* BC_ACQUIRE, BC_INCREFS.
Acquire(h) ==
    \E n \in Named(h):
        /\ open /\ ref[n].count < MaxCount
        /\ ref' = [ref EXCEPT ![n].count = @ + 1]
        /\ UNCHANGED <<open, alive, death, msg, todo, delivered, looper, bug>>

\* BC_RELEASE, BC_DECREFS.
Release(h) ==
    \E n \in Named(h):
        /\ open
        /\ Uncount(n)
        /\ UNCHANGED <<open, alive, msg, looper, bug>>

EnterLooper(t) ==
    /\ open /\ t \notin looper
    /\ looper' = looper \cup {t}
    /\ UNCHANGED <<open, alive, ref, death, msg, todo, delivered, bug>>

-------------------------------------------------------------------------------
(* Requesting, clearing and acknowledging *)

\* kzalloc: which of the unused identities does not matter.
Unused == LET free == {d \in Deaths: death[d].type = "free"}
          IN  IF free = {} THEN {} ELSE {CHOOSE d \in free: TRUE}

\* Mutant: a node that is dead already is not reported.
RequestLate(t, h, c) ==
    \E n \in Named(h), d \in Unused:
        /\ open /\ ref[n].death = NIL
        /\ ref' = [ref EXCEPT ![n].death = d]
        /\ death' = [death EXCEPT ![d] = NewDeath(c)]
        /\ UNCHANGED <<open, alive, msg, todo, delivered, looper, bug>>

\* A node that is dead already is reported at once.
Request(t, h, c) ==
    \E n \in Named(h), d \in Unused:
        /\ open /\ ref[n].death = NIL
        /\ ref' = [ref EXCEPT ![n].death = d]
        /\ IF n \in alive
           THEN /\ death' = [death EXCEPT ![d] = NewDeath(c)]
                /\ UNCHANGED todo
           ELSE /\ death' = [death EXCEPT ![d] = [NewDeath(c) EXCEPT !.type = "dead"]]
                /\ todo' = [todo EXCEPT ![ListFor(t)] = Append(@, d)]
        /\ UNCHANGED <<open, alive, msg, delivered, looper, bug>>

\* A notification on its way, or not acknowledged yet, is cleared after that.
ClearQueued(d) ==
    /\ bug' = (bug \/ death[d].type # "dead")
    /\ death' = [death EXCEPT ![d].type = "deadclear"]
    /\ UNCHANGED todo

ClearIdle(t, d) ==
    /\ death' = [death EXCEPT ![d].type = "clear"]
    /\ todo' = [todo EXCEPT ![ListFor(t)] = Append(@, d)]
    /\ UNCHANGED bug

\* Mutant: a notification is cleared at once, wherever it is.
ClearedAtOnce(t, d) == ClearIdle(t, d)

Cleared(t, d) == IF Queued(d) THEN ClearQueued(d) ELSE ClearIdle(t, d)

\* Mutant: the reference keeps the notification that is cleared.
ClearKeeping(t, h, c) ==
    \E n \in Named(h):
        LET d == ref[n].death IN
        /\ open /\ d # NIL /\ death[d].cookie = c
        /\ Cleared(t, d)
        /\ UNCHANGED <<open, alive, ref, msg, delivered, looper>>

Clear(t, h, c) ==
    \E n \in Named(h):
        LET d == ref[n].death IN
        /\ open /\ d # NIL /\ death[d].cookie = c
        /\ ref' = [ref EXCEPT ![n].death = NIL]
        /\ Cleared(t, d)
        /\ UNCHANGED <<open, alive, msg, delivered, looper>>

\* Mutant: the acknowledgement forgets the clear that waited for it.
DoneForgetting(t, c) ==
    \E i \in DOMAIN delivered:
        LET d == delivered[i] IN
        /\ open /\ death[d].cookie = c
        /\ \A j \in 1..i-1: death[delivered[j]].cookie # c
        /\ delivered' = Without(delivered, d)
        /\ death' = [death EXCEPT ![d].done = TRUE]
        /\ UNCHANGED <<open, alive, ref, msg, todo, looper, bug>>

\* The first delivered notification with the cookie: the newest.
Done(t, c) ==
    \E i \in DOMAIN delivered:
        LET d == delivered[i] IN
        /\ open /\ death[d].cookie = c
        /\ \A j \in 1..i-1: death[delivered[j]].cookie # c
        /\ delivered' = Without(delivered, d)
        /\ IF death[d].type = "deadclear"
           THEN /\ death' = [death EXCEPT ![d].type = "clear", ![d].done = TRUE]
                /\ todo' = [todo EXCEPT ![ListFor(t)] = Append(@, d)]
           ELSE /\ death' = [death EXCEPT ![d].done = TRUE]
                /\ UNCHANGED todo
        /\ UNCHANGED <<open, alive, ref, msg, looper, bug>>

-------------------------------------------------------------------------------
(* Reading *)

Serving(t) == \E m \in Msgs: msg[m].st = "held" /\ msg[m].by = t

\* The list whose first item thread t takes: its own, or the process's if it
\* serves no call.
Source(t) == IF todo[t] = <<>> /\ ~Serving(t) THEN Proc ELSE t

Next1(t) == IF todo[Source(t)] = <<>> THEN NIL ELSE Head(todo[Source(t)])
Taken(t) == [todo EXCEPT ![Source(t)] = Tail(@)]

ReadMsg(t) ==
    /\ open /\ Next1(t) \in Msgs
    /\ msg' = [msg EXCEPT ![Next1(t)].st = "held", ![Next1(t)].by = t]
    /\ todo' = Taken(t)
    /\ UNCHANGED <<open, alive, ref, death, delivered, looper, bug>>

\* BR_DEAD_BINDER
ReadDead(t) ==
    LET d == Next1(t) IN
    /\ open /\ d \in Deaths
    /\ death[d].type \in {"dead", "deadclear"}
    /\ death' = [death EXCEPT ![d].told = TRUE]
    /\ todo' = Taken(t)
    /\ delivered' = <<d>> \o delivered
    /\ UNCHANGED <<open, alive, ref, msg, looper, bug>>

\* BR_CLEAR_DEATH_NOTIFICATION_DONE
ReadCleared(t) ==
    LET d == Next1(t) IN
    /\ open /\ d \in Deaths
    /\ death[d].type = "clear"
    /\ death' = [death EXCEPT ![d] = NoDeath]
    /\ todo' = Taken(t)
    /\ UNCHANGED <<open, alive, ref, msg, delivered, looper, bug>>

-------------------------------------------------------------------------------
(* The ends of a node, of a thread and of the process *)

\* The process of n is released: binder_deferred_release, for its node.
Dies(n) ==
    LET d == ref[n].death IN
    /\ n \in alive
    /\ alive' = alive \ {n}
    /\ IF d = NIL THEN UNCHANGED <<death, todo, bug>>
       ELSE IF Queued(d) THEN bug' = TRUE /\ UNCHANGED <<death, todo>>
       ELSE /\ death' = [death EXCEPT ![d].type = "dead"]
            /\ todo' = [todo EXCEPT ![Proc] = Append(@, d)]
            /\ UNCHANGED bug
    /\ UNCHANGED <<open, ref, msg, delivered, looper>>

\* binder_release_work: the items of a list that it frees.
Freed(s) == {d \in Deaths \cap Range(s): death[d].type \in {"deadclear", "clear"}}

\* BINDER_THREAD_EXIT; a notification that only waits to be read stays with its
\* reference, off every list.
ThreadExit(t) ==
    /\ open /\ t \in Quitters
    /\ death' = [d \in Deaths |->
                     IF d \in Freed(todo[t]) THEN NoDeath
                     ELSE [death[d] EXCEPT !.lost = @ \/ d \in Range(todo[t])]]
    /\ todo' = [todo EXCEPT ![t] = <<>>]
    /\ msg' = [m \in Msgs |-> IF msg[m].by = t THEN [msg[m] EXCEPT !.by = NIL] ELSE msg[m]]
    /\ looper' = looper \ {t}
    /\ UNCHANGED <<open, alive, ref, delivered, bug>>

\* The process is released: its threads, its references with their
\* notifications, then what is left on its lists.
OwnedBy(n) == {ref[n].death} \ {NIL}
Close ==
    /\ open /\ Proc \in Quitters
    /\ open' = FALSE
    /\ death' = [d \in Deaths |->
                     IF \/ \E n \in Nodes: d \in OwnedBy(n)
                        \/ \E l \in Lists: d \in Freed(todo[l])
                        \/ d \in Freed(delivered)
                     THEN NoDeath ELSE death[d]]
    /\ ref' = [n \in Nodes |-> NoRef]
    /\ msg' = [m \in Msgs |-> NoMsg]
    /\ todo' = [l \in Lists |-> <<>>]
    /\ delivered' = <<>>
    /\ looper' = {}
    /\ UNCHANGED <<alive, bug>>

-------------------------------------------------------------------------------
(* The specification *)

Read(t) == ReadMsg(t) \/ ReadDead(t) \/ ReadCleared(t)

Command(t) ==
    \/ EnterLooper(t)
    \/ \E m \in Msgs: Reply(t, m)
    \/ \E h \in Handles, c \in Cookies: Request(t, h, c) \/ Clear(t, h, c)
    \/ \E c \in Cookies: Done(t, c)

\* User space gives back the counts that it took, not those of its buffers.
Took(h) == \E n \in Named(h): ref[n].count > Cardinality({m \in Msgs: msg[m].node = n})

Next ==
    \/ \E m \in Msgs, n \in Nodes \cup {NIL}: Send(m, n)
    \/ \E h \in Handles: Acquire(h) \/ (Took(h) /\ Release(h))
    \/ \E t \in Threads: Read(t) \/ Command(t) \/ ThreadExit(t)
    \/ \E n \in Nodes: Dies(n)
    \/ Close

Spec == Init /\ [][Next]_vars

\* The threads that loop read on and answer their calls; a service's threads
\* become loopers; what is reported is acknowledged in the end.
Servers == Threads \ Quitters
Fairness ==
    /\ \A t \in Threads:
           /\ WF_vars(t \in looper /\ Read(t))
           /\ WF_vars(\E m \in Msgs: Reply(t, m))
    /\ \A t \in Servers: WF_vars(EnterLooper(t))
    /\ \A c \in Cookies: WF_vars(\E t \in Servers: Done(t, c))

-------------------------------------------------------------------------------
(* Properties *)

Owned(d) == \E n \in Nodes: ref[n].death = d

\* Memory of notifications, kfree at 1251, 2530 and 2679: one that is freed is
\* on no list and hangs off no reference; one that is not can still be reached;
\* none is on two lists or twice on one, and none of two references shares it.
OneOwner ==
    /\ \A d \in Deaths: death[d].type # "free" <=> Owned(d) \/ Queued(d)
    /\ \A n, o \in Nodes: ref[n].death = ref[o].death /\ ref[n].death # NIL => n = o
    /\ \A l, k \in Lists: l # k => Range(todo[l]) \cap Range(todo[k]) = {}
    /\ \A l \in Lists: /\ Range(todo[l]) \cap Range(delivered) = {}
                       /\ IsInjective(todo[l])
    /\ IsInjective(delivered)

\* The kernel stops at none of its assertions: no node dies while its
\* notification is queued (3181), and none that is queued is cleared twice or
\* under another type (2240).
NoBug == ~bug

\* User space frees what the cookie points to at
\* BR_CLEAR_DEATH_NOTIFICATION_DONE: a notification that was reported is on its
\* way to that answer only when its report has been acknowledged, and one that
\* was not reported cannot be any more.
ClearAfterDone ==
    \A d \in Deaths:
        /\ death[d].type = "clear" /\ death[d].told => death[d].done
        /\ death[d].type = "clear" => ~Owned(d) /\ d \notin Range(delivered)

\* Who asked hears: a reference to a dead node whose notification has not been
\* reported has it reported, unless it is cleared or dropped first, or its item
\* was on the list of a thread that exited (2682).
Waiting(d) == \E n \in Nodes \ alive: ref[n].death = d /\ ~death[d].told
Heard == \A d \in Deaths: Waiting(d) ~> ~Waiting(d) \/ death[d].lost

\* Every notification that was cleared is answered or goes with its thread,
\* whatever had become of it when it was cleared.
Clearing(d) == death[d].type \in {"deadclear", "clear"}
ClearEnds == \A d \in Deaths: Clearing(d) ~> death[d].type = "free"

===============================================================================
