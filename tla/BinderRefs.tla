------------------------------- MODULE BinderRefs -------------------------------
(***************************************************************************)
(* Nodes, references and their counts in the Binder driver,                *)
(* src/DRV_Binder/binder.c: what the objects carried by a transaction, the *)
(* buffer they lie in, the commands of user space and the end of a process *)
(* add to and take from the counts, and how the process a node lives in is *)
(* told (BR_INCREFS, BR_ACQUIRE, BR_RELEASE, BR_DECREFS).                  *)
(*                                                                         *)
(* Which transactions there are is the business of BinderTransactions;     *)
(* here any process may send to any other.  The loops over the objects of  *)
(* a transaction run object by object; "busy" names the buffer they are    *)
(* at, and while one runs it holds binder_main_lock.                       *)
(***************************************************************************)
EXTENDS Integers, Sequences, FiniteSets

CONSTANTS
    Procs,      \* processes with /dev/binder open
    Threads,    \* their threads
    Nodes,      \* the objects user space may make nodes for (proc and ptr)
    Bufs,       \* identities of struct binder_buffer
    ProcOf,     \* the process of a thread
    Owner,      \* the process an object lives in
    Managers,   \* the nodes made by BINDER_SET_CONTEXT_MGR (ptr NULL)
    NIL,        \* the NULL pointer
    Careful,    \* processes that release and pass on only what they hold
    MaxObjs,    \* bound: objects in one transaction
    MaxCount,   \* bound: increments of one kind by a process on one handle, and
                \* the count above which a reference is not incremented so
    Routes,     \* bound: which process sends to which
    Counters,   \* bound: the processes that issue counting commands
    Quitters    \* bound: the processes and threads that may exit

ASSUME RefsProcOf == ProcOf \in [Threads -> Procs]
ASSUME RefsOwner == Owner \in [Nodes -> Procs]
ASSUME RefsNil == NIL \notin Threads \cup Procs \cup Nodes \cup Bufs \cup Nat
ASSUME RefsThreads == Threads \cap Procs = {}
ASSUME RefsSubsets == Managers \subseteq Nodes /\ Careful \subseteq Procs
\* A process reaches its own objects directly, not through the driver.
ASSUME RefsRoutes == Routes \subseteq {r \in Procs \X Procs : r[1] # r[2]}
ASSUME RefsBounds == MaxObjs \in Nat /\ MaxCount \in Nat
ASSUME RefsFinite == IsFiniteSet(Procs) /\ IsFiniteSet(Nodes) /\ IsFiniteSet(Bufs)

VARIABLES
    alive,      \* the processes that have not been released
    node,       \* struct binder_node
    ref,        \* struct binder_ref, per process and node
    buf,        \* struct binder_buffer
    mgr,        \* binder_context_mgr_node
    busy,       \* the buffer being filled or released, and the thread
    user,       \* the increments each process has done per handle, and not undone
    lost,       \* history: nodes whose queued work went with a thread
    unsure      \* history: processes with an increment that failed, or went to
                \* another handle, unnoticed

vars == <<alive, node, ref, buf, mgr, busy, user, lost, unsure>>

-------------------------------------------------------------------------------
(* Shape of the state *)

Handles == 0..Cardinality(Nodes)

\* iS, lS, lW: internal_strong_refs, local_strong_refs, local_weak_refs;
\* hS, hW: has_..._ref; pS, pW: pending_..._ref;
\* work: the todo list (of a thread or a process) that node->work is on.
Node == [st: {"none", "live", "dead"}, iS: Nat, lS: Nat, lW: Nat,
         hS: BOOLEAN, pS: BOOLEAN, hW: BOOLEAN, pW: BOOLEAN,
         work: Threads \cup Procs \cup {NIL}]
Ref == [desc: Handles \cup {NIL}, s: Nat, w: Nat]
Obj == [type: {"binder", "handle"}, strong: BOOLEAN, node: Nodes, desc: Handles \cup {NIL}]
\* next: the first object that buffer_release has not reached.
Buf == [st: {"free", "filling", "held", "releasing"}, proc: Procs \cup {NIL},
        target: Nodes \cup {NIL}, objs: Seq(Obj), next: Nat]

NoNode == [st |-> "none", iS |-> 0, lS |-> 0, lW |-> 0, hS |-> FALSE, pS |-> FALSE,
           hW |-> FALSE, pW |-> FALSE, work |-> NIL]
NewNode == [NoNode EXCEPT !.st = "live"]
NoRef == [desc |-> NIL, s |-> 0, w |-> 0]
NoBuf == [st |-> "free", proc |-> NIL, target |-> NIL, objs |-> <<>>, next |-> 1]
Idle == [buf |-> NIL, thread |-> NIL]

TypeOK ==
    /\ alive \in SUBSET Procs
    /\ node \in [Nodes -> Node]
    /\ ref \in [Procs -> [Nodes -> Ref]]
    /\ buf \in [Bufs -> Buf]
    /\ mgr \in Nodes \cup {NIL}
    /\ busy \in [buf: Bufs \cup {NIL}, thread: Threads \cup {NIL}]
    /\ user \in [Procs -> [Handles -> [s: Nat, w: Nat]]]
    /\ lost \in SUBSET Nodes
    /\ unsure \in SUBSET Procs

Init ==
    /\ alive = Procs
    /\ node = [n \in Nodes |-> NoNode]
    /\ ref = [p \in Procs |-> [n \in Nodes |-> NoRef]]
    /\ buf = [b \in Bufs |-> NoBuf]
    /\ mgr = NIL
    /\ busy = Idle
    /\ user = [p \in Procs |-> [d \in Handles |-> [s |-> 0, w |-> 0]]]
    /\ lost = {}
    /\ unsure = {}

-------------------------------------------------------------------------------
(* binder_inc_node, binder_dec_node *)

\* node->refs: the processes with a reference to n.
Holders(n) == {p \in Procs : ref[p][n].desc # NIL}

\* An increment without a list to put the node's work on is refused where the
\* owner would have to be told.
StrongRefused(n, nd, list) == list = NIL /\ nd.iS = 0 /\ ~(n = mgr /\ nd.hS)
WeakRefused(nd, list) == list = NIL /\ ~nd.hW /\ nd.work = NIL

\* Of an internal increment; the work moves to the incrementing thread's list
\* until the owner has been told.
IncStrong(nd, list) ==
    [nd EXCEPT !.iS = @ + 1, !.work = IF ~nd.hS /\ list # NIL THEN list ELSE @]
IncWeak(nd, list) ==
    [nd EXCEPT !.work = IF ~nd.hW /\ @ = NIL THEN list ELSE @]
\* Of a local one, where the list is always NULL: the count goes up whether or
\* not the owner knows the node.
IncLocal(nd, strong) ==
    IF strong THEN [nd EXCEPT !.lS = @ + 1] ELSE [nd EXCEPT !.lW = @ + 1]

\* Faulty variants of Settled, below: the owner is not told; the node is freed
\* under its references.
SettledSilently(n, nd, alone) ==
    IF nd.st = "live" /\ (nd.hS \/ nd.hW) THEN nd
    ELSE IF alone /\ nd.lS = 0 /\ nd.lW = 0 THEN NoNode ELSE nd
SettledEarly(n, nd, alone) ==
    IF nd.st = "live" /\ (nd.hS \/ nd.hW)
    THEN [nd EXCEPT !.work = IF @ = NIL THEN Owner[n] ELSE @]
    ELSE IF nd.lS = 0 /\ nd.lW = 0 THEN NoNode ELSE nd

\* The last count of a kind is gone: the owner has to be told, or the node is
\* freed when no reference is left ("alone") either.
Settled(n, nd, alone) ==
    IF nd.st = "live" /\ (nd.hS \/ nd.hW)
    THEN [nd EXCEPT !.work = IF @ = NIL THEN Owner[n] ELSE @]
    ELSE IF alone /\ nd.lS = 0 /\ nd.lW = 0 THEN NoNode ELSE nd

DecStrong(n, nd) ==     \* internal; the reference is still in node->refs
    LET d == [nd EXCEPT !.iS = @ - 1] IN
    IF d.iS # 0 \/ d.lS # 0 THEN d ELSE Settled(n, d, FALSE)
DecWeak(n, nd, alone) ==    \* internal; the reference has left node->refs
    IF nd.lW # 0 \/ ~alone THEN nd ELSE Settled(n, nd, alone)
DecLocal(n, nd, strong, alone) ==
    LET d == IF strong THEN [nd EXCEPT !.lS = @ - 1] ELSE [nd EXCEPT !.lW = @ - 1] IN
    IF (IF strong THEN d.iS # 0 \/ d.lS # 0 ELSE d.lW # 0 \/ ~alone)
    THEN d ELSE Settled(n, d, alone)

-------------------------------------------------------------------------------
(* binder_get_ref, binder_get_ref_for_node, binder_inc_ref, binder_dec_ref *)

Named(p, d) == {n \in Nodes : ref[p][n].desc = d}

\* The lowest free handle, from 0 for the context manager and from 1 for others.
NewDesc(p, n) ==
    LET free == {d \in Handles : Named(p, d) = {} /\ (d = 0 => n = mgr)} IN
    CHOOSE d \in free : \A e \in free : d <= e
RefFor(p, n) ==
    IF p \in Holders(n) THEN ref[p][n] ELSE [NoRef EXCEPT !.desc = NewDesc(p, n)]

IncRefused(p, n, nd, strong, list) ==
    IF strong THEN ref[p][n].s = 0 /\ StrongRefused(n, nd, list)
    ELSE ref[p][n].w = 0 /\ WeakRefused(nd, list)

\* binder_inc_ref on the reference of p to n, made if need be; nd is the node
\* before.  The callers do not look at the result.
IncRef(p, n, nd, strong, list) ==
    LET r == RefFor(p, n)
        fails == IncRefused(p, n, nd, strong, list) IN
    /\ ref' = [ref EXCEPT ![p][n] =
                 IF fails THEN r
                 ELSE IF strong THEN [r EXCEPT !.s = @ + 1] ELSE [r EXCEPT !.w = @ + 1]]
    /\ node' = [node EXCEPT ![n] =
                  IF fails THEN nd
                  ELSE IF strong THEN (IF r.s = 0 THEN IncStrong(nd, list) ELSE nd)
                  ELSE (IF r.w = 0 THEN IncWeak(nd, list) ELSE nd)]

NotSure(p, wrong) == unsure' = IF wrong THEN unsure \cup {p} ELSE unsure

\* Faulty variants of DecRef, below: the node is not told of the last strong
\* count; the reference goes with its last strong count; a count of zero is
\* decremented.
DecRefKeeping(p, n, strong) ==
    LET r == ref[p][n]
        low == IF strong THEN r.s = 0 ELSE r.w = 0
        less == IF strong THEN [r EXCEPT !.s = @ - 1] ELSE [r EXCEPT !.w = @ - 1]
        gone == less.s = 0 /\ less.w = 0 IN
    IF low THEN UNCHANGED <<ref, node>>
    ELSE /\ ref' = [ref EXCEPT ![p][n] = IF gone THEN NoRef ELSE less]
         /\ node' = [node EXCEPT ![n] = IF gone THEN DecWeak(n, @, Holders(n) = {p}) ELSE @]
DecRefEarly(p, n, strong) ==
    LET r == ref[p][n]
        low == IF strong THEN r.s = 0 ELSE r.w = 0
        less == IF strong THEN [r EXCEPT !.s = @ - 1] ELSE [r EXCEPT !.w = @ - 1]
        nd == IF strong /\ less.s = 0 THEN DecStrong(n, node[n]) ELSE node[n]
        gone == less.s = 0 IN
    IF low THEN UNCHANGED <<ref, node>>
    ELSE /\ ref' = [ref EXCEPT ![p][n] = IF gone THEN NoRef ELSE less]
         /\ node' = [node EXCEPT ![n] = IF gone THEN DecWeak(n, nd, Holders(n) = {p}) ELSE nd]
DecRefUnchecked(p, n, strong) ==
    LET r == ref[p][n]
        less == IF strong THEN [r EXCEPT !.s = @ - 1] ELSE [r EXCEPT !.w = @ - 1]
        nd == IF strong /\ less.s = 0 THEN DecStrong(n, node[n]) ELSE node[n]
        gone == less.s = 0 /\ less.w = 0 IN
    /\ ref' = [ref EXCEPT ![p][n] = IF gone THEN NoRef ELSE less]
    /\ node' = [node EXCEPT ![n] = IF gone THEN DecWeak(n, nd, Holders(n) = {p}) ELSE nd]

\* binder_dec_ref, with binder_delete_ref when both counts are zero.
DecRef(p, n, strong) ==
    LET r == ref[p][n]
        low == IF strong THEN r.s = 0 ELSE r.w = 0
        less == IF strong THEN [r EXCEPT !.s = @ - 1] ELSE [r EXCEPT !.w = @ - 1]
        nd == IF strong /\ less.s = 0 THEN DecStrong(n, node[n]) ELSE node[n]
        gone == less.s = 0 /\ less.w = 0 IN
    IF low THEN UNCHANGED <<ref, node>>
    ELSE /\ ref' = [ref EXCEPT ![p][n] = IF gone THEN NoRef ELSE less]
         /\ node' = [node EXCEPT ![n] = IF gone THEN DecWeak(n, nd, Holders(n) = {p}) ELSE nd]

Free == busy.buf = NIL

-------------------------------------------------------------------------------
(* The counting commands of user space *)

\* BC_INCREFS and BC_ACQUIRE of handle 0 make the reference to the context
\* manager, whatever handle that gets.
Counted(p, d) == IF d = 0 /\ mgr # NIL THEN {mgr} ELSE Named(p, d)
May(p, n, d, strong) ==
    p \in Careful => (d = 0 /\ n = mgr) \/ (strong => ref[p][n].s > 0)

Inc(p, d, strong) ==
    /\ Free /\ p \in alive /\ p \in Counters
    /\ (IF strong THEN user[p][d].s ELSE user[p][d].w) < MaxCount
    /\ \E n \in Counted(p, d) :
         /\ May(p, n, d, strong)
         /\ (IF strong THEN ref[p][n].s ELSE ref[p][n].w) <= MaxCount
         /\ IncRef(p, n, node[n], strong, NIL)
         /\ NotSure(p, IncRefused(p, n, node[n], strong, NIL) \/ RefFor(p, n).desc # d)
    /\ user' = IF strong THEN [user EXCEPT ![p][d].s = @ + 1] ELSE [user EXCEPT ![p][d].w = @ + 1]
    /\ UNCHANGED <<alive, buf, mgr, busy, lost>>

\* BC_RELEASE and BC_DECREFS.
Dec(p, d, strong) ==
    LET holds == (IF strong THEN user[p][d].s ELSE user[p][d].w) > 0 IN
    /\ Free /\ p \in alive /\ p \in Counters
    /\ p \in Careful => holds
    /\ \E n \in Named(p, d) : DecRef(p, n, strong)
    /\ user' = IF ~holds THEN user
               ELSE IF strong THEN [user EXCEPT ![p][d].s = @ - 1]
               ELSE [user EXCEPT ![p][d].w = @ - 1]
    /\ UNCHANGED <<alive, buf, mgr, busy, lost, unsure>>

\* BC_ACQUIRE_DONE and BC_INCREFS_DONE.
Done(n, strong) ==
    LET nd == node[n] IN
    /\ Free /\ nd.st = "live"
    /\ IF strong THEN nd.pS ELSE nd.pW
    /\ node' = [node EXCEPT ![n] =
         DecLocal(n, IF strong THEN [nd EXCEPT !.pS = FALSE] ELSE [nd EXCEPT !.pW = FALSE],
                  strong, Holders(n) = {})]
    /\ UNCHANGED <<alive, ref, buf, mgr, busy, user, lost, unsure>>

\* BINDER_SET_CONTEXT_MGR: the manager's node is told nothing and never freed
\* before its process is.
SetContextMgr(n) ==
    /\ Free /\ n \in Managers /\ Owner[n] \in alive
    /\ mgr = NIL /\ node[n].st = "none"
    /\ mgr' = n
    /\ node' = [node EXCEPT ![n] = [NewNode EXCEPT !.lS = 1, !.lW = 1, !.hS = TRUE, !.hW = TRUE]]
    /\ UNCHANGED <<alive, ref, buf, busy, user, lost, unsure>>

-------------------------------------------------------------------------------
(* The objects of a transaction: binder_transaction *)

Sending(h) == busy.thread = h /\ busy.buf # NIL /\ buf[busy.buf].st = "filling"
Target(h) == buf[busy.buf].proc

\* The buffer is there and the target node counted.
SendStart(h, q, n, b) ==
    LET p == ProcOf[h] IN
    /\ Free /\ <<p, q>> \in Routes /\ {p, q} \subseteq alive /\ buf[b].st = "free"
    /\ n # NIL => /\ node[n].st = "live" /\ Owner[n] = q
                  /\ n = mgr \/ ref[p][n].desc \notin {NIL, 0}
    /\ node' = IF n = NIL THEN node ELSE [node EXCEPT ![n] = IncLocal(@, TRUE)]
    /\ buf' = [buf EXCEPT ![b] = [NoBuf EXCEPT !.st = "filling", !.proc = q, !.target = n]]
    /\ busy' = [buf |-> b, thread |-> h]
    /\ UNCHANGED <<alive, ref, mgr, user, lost, unsure>>

Carry(o) == buf' = [buf EXCEPT ![busy.buf].objs = Append(@, o)]
MoreObjs(h) == Sending(h) /\ Len(buf[busy.buf].objs) < MaxObjs

\* BINDER_TYPE_BINDER and _WEAK_BINDER: becomes a handle of the target.
SendBinder(h, n, strong) ==
    LET q == Target(h)
        nd == IF node[n].st = "none" THEN NewNode ELSE node[n] IN
    /\ MoreObjs(h) /\ Owner[n] = ProcOf[h] /\ n \notin Managers
    /\ IncRef(q, n, nd, strong, h) /\ unsure' = unsure
    /\ Carry([type |-> "handle", strong |-> strong, node |-> n, desc |-> RefFor(q, n).desc])
    /\ UNCHANGED <<alive, mgr, busy, user, lost>>

\* BINDER_TYPE_HANDLE and _WEAK_HANDLE: an object of the target gets home,
\* another becomes a handle of the target.
MayPass(h, n, strong) == ProcOf[h] \in Careful => (strong => ref[ProcOf[h]][n].s > 0)
SendHandle(h, n, strong) ==
    LET q == Target(h)
        home == node[n].st = "live" /\ Owner[n] = q IN
    /\ MoreObjs(h) /\ ProcOf[h] \in Holders(n) /\ MayPass(h, n, strong)
    /\ IF home
       THEN /\ node' = [node EXCEPT ![n] = IncLocal(@, strong)]
            /\ Carry([type |-> "binder", strong |-> strong, node |-> n, desc |-> NIL])
            /\ UNCHANGED <<ref, unsure>>
       ELSE /\ IncRef(q, n, node[n], strong, NIL)
            /\ NotSure(q, IncRefused(q, n, node[n], strong, NIL))
            /\ Carry([type |-> "handle", strong |-> strong, node |-> n,
                      desc |-> RefFor(q, n).desc])
    /\ UNCHANGED <<alive, mgr, busy, user, lost>>

SendDone(h) ==
    /\ Sending(h)
    /\ buf' = [buf EXCEPT ![busy.buf].st = "held"]
    /\ busy' = Idle
    /\ UNCHANGED <<alive, node, ref, mgr, user, lost, unsure>>

-------------------------------------------------------------------------------
(* binder_transaction_buffer_release and binder_free_buf *)

\* The target node first.
ReleaseStart(b, ns) ==
    LET n == buf[b].target IN
    /\ node' = IF n = NIL THEN ns
               ELSE [ns EXCEPT ![n] = DecLocal(n, @, TRUE, Holders(n) = {})]
    /\ buf' = [buf EXCEPT ![b].st = "releasing", ![b].target = NIL]

\* A bad object, or a failure to make a node's reference after the node is made.
SendFails(h) ==
    /\ Sending(h)
    /\ \/ ReleaseStart(busy.buf, node)
       \/ \E n \in Nodes \ Managers :
            /\ Owner[n] = ProcOf[h] /\ node[n].st = "none"
            /\ ReleaseStart(busy.buf, [node EXCEPT ![n] = NewNode])
    /\ UNCHANGED <<alive, ref, mgr, busy, user, lost, unsure>>

\* BC_FREE_BUFFER.
FreeBuffer(h, b) ==
    /\ Free /\ ProcOf[h] \in alive
    /\ buf[b].st = "held" /\ buf[b].proc = ProcOf[h]
    /\ ReleaseStart(b, node)
    /\ busy' = [buf |-> b, thread |-> h]
    /\ UNCHANGED <<alive, ref, mgr, user, lost, unsure>>

Releasing == busy.buf # NIL /\ buf[busy.buf].st = "releasing"

\* A handle is looked up by its number again, an object by its ptr.
ReleaseObject ==
    LET b == buf[busy.buf]
        o == b.objs[b.next]
        q == b.proc IN
    /\ Releasing /\ b.next <= Len(b.objs)
    /\ buf' = [buf EXCEPT ![busy.buf].next = @ + 1]
    /\ IF o.type = "handle"
       THEN IF Named(q, o.desc) = {} THEN UNCHANGED <<node, ref>>
            ELSE \E n \in Named(q, o.desc) : DecRef(q, n, o.strong)
       ELSE /\ node' = IF node[o.node].st = "none" THEN node
                       ELSE [node EXCEPT ![o.node] =
                               DecLocal(o.node, @, o.strong, Holders(o.node) = {})]
            /\ ref' = ref
    /\ UNCHANGED <<alive, mgr, busy, user, lost, unsure>>

ReleaseDone ==
    /\ Releasing /\ buf[busy.buf].next > Len(buf[busy.buf].objs)
    /\ buf' = [buf EXCEPT ![busy.buf] = NoBuf]
    /\ busy' = Idle
    /\ UNCHANGED <<alive, node, ref, mgr, user, lost, unsure>>

-------------------------------------------------------------------------------
(* BINDER_WORK_NODE in binder_thread_read: one pass over the work item *)

Strong(nd) == nd.iS # 0 \/ nd.lS # 0
Weak(n, nd) == Holders(n) # {} \/ nd.lW # 0 \/ Strong(nd)

\* Faulty variant of Told: a BR_INCREFS not acknowledged does not count.
ToldUncounted(n, nd) ==
    IF Weak(n, nd) /\ ~nd.hW
    THEN [nd EXCEPT !.hW = TRUE, !.pW = TRUE]
    ELSE IF Strong(nd) /\ ~nd.hS
    THEN [nd EXCEPT !.hS = TRUE, !.pS = TRUE, !.lS = @ + 1]
    ELSE IF ~Strong(nd) /\ nd.hS
    THEN [nd EXCEPT !.hS = FALSE]
    ELSE IF ~Weak(n, nd) /\ nd.hW
    THEN [nd EXCEPT !.hW = FALSE]
    ELSE IF Weak(n, nd) THEN [nd EXCEPT !.work = NIL] ELSE NoNode

Told(n, nd) ==
    IF Weak(n, nd) /\ ~nd.hW                                \* BR_INCREFS
    THEN [nd EXCEPT !.hW = TRUE, !.pW = TRUE, !.lW = @ + 1]
    ELSE IF Strong(nd) /\ ~nd.hS                            \* BR_ACQUIRE
    THEN [nd EXCEPT !.hS = TRUE, !.pS = TRUE, !.lS = @ + 1]
    ELSE IF ~Strong(nd) /\ nd.hS                            \* BR_RELEASE
    THEN [nd EXCEPT !.hS = FALSE]
    ELSE IF ~Weak(n, nd) /\ nd.hW                           \* BR_DECREFS
    THEN [nd EXCEPT !.hW = FALSE]
    ELSE IF Weak(n, nd) THEN [nd EXCEPT !.work = NIL] ELSE NoNode

ReadNode(h, n) ==
    /\ Free /\ ProcOf[h] \in alive /\ node[n].work \in {h, ProcOf[h]}
    /\ node' = [node EXCEPT ![n] = Told(n, @)]
    /\ UNCHANGED <<alive, ref, buf, mgr, busy, user, lost, unsure>>

-------------------------------------------------------------------------------
(* BINDER_THREAD_EXIT and binder_deferred_release *)

\* binder_release_work takes the nodes off the thread's list and says so in
\* the log ("unexpected work type, not freed").
ThreadExit(h) ==
    LET mine == {n \in Nodes : node[n].work = h} IN
    /\ Free /\ ProcOf[h] \in alive /\ h \in Quitters /\ mine # {}
    /\ node' = [n \in Nodes |-> IF n \in mine THEN [node[n] EXCEPT !.work = NIL] ELSE node[n]]
    /\ lost' = lost \cup mine
    /\ UNCHANGED <<alive, ref, buf, mgr, busy, user, unsure>>

\* The nodes of p are freed, or live on as dead nodes of those that refer to
\* them; then its references go, then its buffers (without their objects).
Orphan(n) ==
    IF Holders(n) = {} THEN NoNode
    ELSE [node[n] EXCEPT !.st = "dead", !.lS = 0, !.lW = 0, !.work = NIL]
Deleted(n, nd, r, alone) ==
    DecWeak(n, IF r.s # 0 THEN DecStrong(n, nd) ELSE nd, alone)
Release(p) ==
    LET mine(n) == IF Owner[n] = p /\ node[n].st = "live" THEN Orphan(n) ELSE node[n] IN
    /\ Free /\ p \in alive /\ p \in Quitters
    /\ alive' = alive \ {p}
    /\ mgr' = IF mgr # NIL /\ Owner[mgr] = p THEN NIL ELSE mgr
    /\ node' = [n \in Nodes |->
                  IF p \in Holders(n) THEN Deleted(n, mine(n), ref[p][n], Holders(n) = {p})
                  ELSE mine(n)]
    /\ ref' = [ref EXCEPT ![p] = [n \in Nodes |-> NoRef]]
    /\ buf' = [b \in Bufs |-> IF buf[b].proc = p THEN NoBuf ELSE buf[b]]
    /\ user' = [user EXCEPT ![p] = [d \in Handles |-> [s |-> 0, w |-> 0]]]
    /\ UNCHANGED <<busy, lost, unsure>>

-------------------------------------------------------------------------------
Count(p) == \E d \in Handles, strong \in BOOLEAN : Inc(p, d, strong) \/ Dec(p, d, strong)
Send(h) ==
    \/ \E q \in Procs, n \in Nodes \cup {NIL}, b \in Bufs : SendStart(h, q, n, b)
    \/ \E n \in Nodes, strong \in BOOLEAN : SendBinder(h, n, strong) \/ SendHandle(h, n, strong)
    \/ SendDone(h) \/ SendFails(h)

Next ==
    \/ \E p \in Procs : Count(p) \/ Release(p)
    \/ \E n \in Nodes, strong \in BOOLEAN : Done(n, strong)
    \/ \E n \in Nodes : SetContextMgr(n)
    \/ \E h \in Threads : Send(h) \/ ThreadExit(h)
    \/ \E h \in Threads, b \in Bufs : FreeBuffer(h, b)
    \/ \E h \in Threads, n \in Nodes : ReadNode(h, n)
    \/ ReleaseObject \/ ReleaseDone

Spec == Init /\ [][Next]_vars

-------------------------------------------------------------------------------
(* Properties *)

One(b) == IF b THEN 1 ELSE 0

\* The objects in buffers that count: <<b, i>> for the i-th object of buffer b.
Carried == {x \in Bufs \X (1..MaxObjs) : x[2] \in buf[x[1]].next..Len(buf[x[1]].objs)}
ObjAt(x) == buf[x[1]].objs[x[2]]
Locals(n, strong) ==
    {x \in Carried : ObjAt(x).type = "binder" /\ ObjAt(x).node = n /\ ObjAt(x).strong = strong}
Targeted(n) == {b \in Bufs : buf[b].target = n}

\* The counts of a node are what refers to it: one internal strong count for
\* each reference with a strong count; one local strong count for each buffer
\* of a call to it, each strong object in a buffer of its process, and a
\* BR_ACQUIRE not acknowledged; local weak counts for weak objects and a
\* BR_INCREFS not acknowledged; one of each for the context manager.
CountsExact ==
    \A n \in Nodes :
        LET nd == node[n] IN
        /\ nd.iS = Cardinality({p \in Holders(n) : ref[p][n].s > 0})
        /\ nd.st = "live" =>
             /\ nd.lS = Cardinality(Targeted(n)) + Cardinality(Locals(n, TRUE))
                          + One(nd.pS) + One(n \in Managers)
             /\ nd.lW = Cardinality(Locals(n, FALSE)) + One(nd.pW) + One(n \in Managers)
        /\ nd.st = "dead" => nd.lS = 0 /\ nd.lW = 0

\* Nothing refers to a freed node, and a dead one lives as long as it is
\* referred to.
NoDanglingNode ==
    /\ \A n \in Nodes :
         /\ Holders(n) # {} => node[n].st # "none"
         /\ node[n].st = "dead" => Holders(n) # {} /\ Owner[n] \notin alive
         /\ Targeted(n) # {} => node[n].st = "live"
         /\ node[n].work # NIL => node[n].st = "live" /\ Owner[n] \in alive
    /\ \A x \in Carried : ObjAt(x).type = "binder" => node[ObjAt(x).node].st = "live"

\* The process a node lives in knows what it may not drop: while the counts
\* and what it was told disagree, the work to tell it is queued -- unless a
\* thread exited with that work.  (Strong counts from buffers of the process
\* itself are not told.)
OwnerTold ==
    \A n \in Nodes \ lost :
        LET nd == node[n] IN
        (nd.st = "live" /\ nd.work = NIL) =>
            /\ nd.iS > 0 => nd.hS
            /\ Holders(n) # {} => nd.hW
            /\ nd.hS => Strong(nd)
            /\ nd.hW => Weak(n, nd)

\* BR_RELEASE and BR_DECREFS come after the BC_..._DONE of what they take back,
\* and a strong claim of the process lies within a weak one.
ClaimsNested ==
    \A n \in Nodes : node[n].st = "live" =>
        /\ node[n].pS => node[n].hS
        /\ node[n].pW => node[n].hW
        /\ node[n].hS => node[n].hW

\* A handle means one thing: what the reference counts is the holder's own
\* increments and the objects in its buffers, and these name the node that was
\* sent, as long as everyone lets go only of what he holds.
InBuffers(p, n, strong) ==
    {x \in Carried : /\ buf[x[1]].proc = p /\ ObjAt(x).type = "handle"
                     /\ ObjAt(x).node = n /\ ObjAt(x).strong = strong}
HandlesExact ==
    \A p \in Procs, n \in Nodes :
        LET r == ref[p][n] IN
        p \notin unsure =>
            /\ r.desc = NIL => InBuffers(p, n, TRUE) = {} /\ InBuffers(p, n, FALSE) = {}
            /\ r.desc # NIL =>
                 /\ r.s = user[p][r.desc].s + Cardinality(InBuffers(p, n, TRUE))
                 /\ r.w = user[p][r.desc].w + Cardinality(InBuffers(p, n, FALSE))
                 /\ \A x \in InBuffers(p, n, TRUE) \cup InBuffers(p, n, FALSE) :
                      ObjAt(x).desc = r.desc
                 /\ \A m \in Nodes \ {n} : ref[p][m].desc # r.desc
                 /\ r.s + r.w > 0
================================================================================
