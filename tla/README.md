# Formal models of Android_Studay

TLA+ models of the core of this repository: the Binder driver
(`src/DRV_Binder/binder.c`), the C programs that use it
(`src/APP_Binder_C_App`), and the LED class with the lights HAL above it.
TLC checks the models on small instances; TLAPS proves the main results for all
values of the constants.

## 1. Inventory

### The system's parts

| part | sources | state it keeps | operations |
|---|---|---|---|
| Binder: transactions | `DRV_Binder/binder.c` 1313-1901, 2049-2101, 2539-2619, 2642-2765 | per thread `transaction_stack`, `todo`, `return_error`, `return_error2`; per process `todo`; per node `has_async_transaction`, `async_todo`; transactions with `from`, `from_parent`, `to_thread`, `to_parent`; buffers with `transaction`, `target_node`, `async_transaction`, `allow_user_free` | BC_TRANSACTION (with and without TF_ONE_WAY), BC_REPLY, BC_FREE_BUFFER, reading BR_*, BINDER_THREAD_EXIT, release |
| Binder: nodes and references | 1008-1311, 1385-1458, 1680-1834, 1924-2041, 2438-2499 | per node internal, local strong and weak counts, the `has_`/`pending_` bits of what user space was told, the work item; per reference strong and weak counts and a descriptor | counts taken and dropped by commands, by objects in transactions, by buffers; BR_INCREFS, BR_ACQUIRE, BR_RELEASE, BR_DECREFS and their `_DONE` commands |
| Binder: buffers | 595-1006, 2941-3053 | address-ordered list, free tree, allocated tree, mapped pages, `free_async_space` | allocate (best fit, split), free (join with neighbours), lookup, mmap, vma_close |
| Binder: death notifications | 2145-2280, 2500-2536, 3165-3195 | `ref->death`, its work type, `proc->delivered_death` | request, clear, delivery, acknowledgement, death of the node's process |
| Binder: loopers | 2103-2143, 2315-2437, 2625-2640, 2767-2860, 3089-3115 | `looper` flags, `ready_threads`, `requested_threads`, `requested_threads_started`, wait queues | enter, register, exit, wait, wake, poll, flush, BR_SPAWN_LOOPER |
| Binder: life cycle | 2870-2899, 2941-3124, 3126-3314 | `proc->deferred_work`, the deferred list, `binder_context_mgr_node` | open, mmap, flush, release, deferred worker, BINDER_SET_CONTEXT_MGR |
| libbinder (C) | `APP_Binder_C_App/binder.c` | `bs->fd`, thread budget, reply and message cursors | `binder_call`, `binder_parse`, `binder_loop`, `bio_*` |
| service manager | `APP_Binder_C_App/service_manager.c` | `svclist`: name, handle, death callback | add, find, list, `svcinfo_death` |
| C test client, server | `test_client.c`, `test_server.c` | none across calls but counters | calls through libbinder |
| C++ and Java binder services, AIDL demo | `APP_Binder_CPP_App`, `APP_Binder_JAVA_App`, `AIDL_Demo` | a counter per service | proxies and stubs over the platform's libbinder |
| LED class, timer trigger, board driver | `DRV_LEDS/*.c` | brightness, `blink_delay_on/off`, timer, trigger, suspend flag | sysfs stores, timer expiry, suspend and resume, activate and deactivate |
| Lights HAL | `SYS_Lights/lights.c` | battery and notification light states, one lock | `set_light_*` |
| touch panel | `DRV_MultiTouchPanel/mtp_input.c` | the decoded event, the work item | interrupt, work, remove |
| apps | `APP_LightDemo`, `APP_Addons_Message`, `APP_InputStage`, `APP_Views_TopView` | flags and posted runnables | clicks, delayed runnables |
| stock, scanner and sample apps, demos, build files | `Mystock-master`, `PriceCode`, `MyApplication`, ... | | outside the core |

### How they interact

A client thread writes BC_* commands with `ioctl(BINDER_WRITE_READ)` and reads
BR_* codes with the same call. Every ioctl, and the kernel worker that runs deferred
releases, holds `binder_main_lock`; `binder_thread_read` drops it to sleep. A
transaction links two threads (through their stacks), a buffer in the
target's mapping, the node it is addressed to and the counts of every object
it carries. libbinder runs the read loop and calls a handler for each
BR_TRANSACTION; the service manager is such a handler, and asks for a death
notification for each service it registers. The lights HAL writes the sysfs files of the LED
class; the LED class runs a kernel timer against those writes.

### Hard behaviour, and what correctness means

* **Nested calls and failure** (transactions): calls nest through several
  processes and come back into threads that wait; any thread or process may die at
  any point. The two stacks of a call must agree, no `BUG()` may fire, each
  command is answered exactly once and each call returns.
* **One-way calls**: one per node in delivery, the rest in order behind it,
  across frees by any thread of the process and across thread exit.
* **Counts** (references): a node must outlive every reference, buffer and user
  space claim; `BR_ACQUIRE`/`BR_RELEASE` must alternate though computed lazily.
* **Memory** (buffers): blocks tile the mapping, pages in use are mapped,
  asynchronous space is given back.
* **Death**: at most one BR_DEAD_BINDER per request and one CLEAR_..._DONE per
  clear, under any race.
* **Loopers**: no lost wake-up; at most one BR_SPAWN_LOOPER outstanding.
* **Service manager**: a name maps to a live handle or to nothing.
* **LEDs**: after a store of 0 the LED stays dark; blinking goes on after
  resume; the three colour channels show what the lock holder last set.

`PROJECT.json` lists each hazard at its line.

## 2. Plan

Each module is about one part, in the order of what depends on what:

| module | stands on / implements | runs | proofs |
|---|---|---|---|
| `BinderTransactions` | | `txn_*` | types, pointer agreement, and every safety invariant of the runs, if cookies match |
| `BinderRefs` | the counts behind transactions | `refs_*` | types, counts exact, no dangling node, nested claims, owner told, handles exact |
| `BinderBuffers` | implements `BufferPool`; the allocator behind transactions | `buffers` | types, tiling, fresh tree, no overlap, pages exact, asynchronous space, no `BUG()`, implements `BufferPool` |
| `BinderLooper` | the waiting half of reads, with libbinder's loops | `looper` | ready threads, spawn limit, no lost wake-up |
| `BinderDeath` | references of one process, as far as notifications need them | `death` | types, one owner, no `BUG()`, order of answers |
| `ServiceManager` | extends `BinderDeath`, its driver, and implements it; implements `Registry` | `services` | a process of `BinderDeath`, counts held, caught up with deaths, implements `Registry` |
| `LedClass`, `Lights` | the HAL and another writer over one LED | `lights` | types, quiet without a trigger, blinking unless lost, what was set is shown |

`BinderTransactions`, `BinderRefs` and `BinderBuffers` each leave the state of the
others out; `BinderDeath` keeps of references one count each, which is all that the
life of a notification depends on.

What remains worth doing: an abstract remote call that `BinderTransactions` implements.
Every safety property that holds in the runs is a theorem (section 11).

A module with theorems, and every module it uses, declares no RECURSIVE operator.

## 3. `BinderTransactions`: the transaction core

### State

| variable | code |
|---|---|
| `proc` | the file is open; closed, with `BINDER_DEFERRED_RELEASE` pending; or released |
| `thr` | `struct binder_thread`: `transaction_stack`, `todo`, `return_error`, `return_error2`; `late` records that the error came while the thread was inside `binder_thread_read` with the lock dropped |
| `ptodo`, `node` | `proc->todo`; `node->has_async_transaction` and `node->async_todo` |
| `txn`, `buf` | `struct binder_transaction` and `struct binder_buffer`; a freed one is `NoTxn`, `NoBuf` |
| `lock` | the loop of `binder_free_thread` or `binder_deferred_release` that is under way; nothing else moves until it ends |
| `due`, `orphaned`, `oops` | history only: codes owed to a thread, nodes whose call in delivery was dropped, `BUG()`s and impossible branches |

### Actions

| action | code |
|---|---|
| `Call`, `CallOneWay`, `CallRefused`, `CallFails` | `binder_transaction` for BC_TRANSACTION: success, dead target or bad stack, failures after the target is known |
| `Reply`, `ReplyRefused`, `ReplyToDead`, `ReplyFails` | `binder_transaction` for BC_REPLY |
| `FreeBuffer` | BC_FREE_BUFFER |
| `ReadError`, `ReadComplete`, `ReadTxn` | one item of `binder_thread_read` |
| `ThreadExit` | BINDER_THREAD_EXIT, the walk over the stack |
| `Close`, `DeferredRelease` | `binder_release`, the worker's start |
| `ReleaseThread`, `ReleaseThreadWork`, `ThreadFreed`, `ReleaseNodeWork`, `ReleaseProcWork`, `ReleaseProc` | the loops of `binder_deferred_release`, item by item, under the lock |

`SendFailedReply`, with its walk up `from_parent`, is shared by replies to the dead,
failed replies, the free of a thread and the release of undelivered work,
as in the code.

### Decisions

* A read takes one item a step. The code may take several, but a small
  read buffer makes it stop after any of them, so these are all its behaviours.
  Read buffers hold at least BR_NOOP and two error codes.
* `binder_thread_read` looks for errors before it drops the lock and not after
  it has it back. A failed reply may arrive in between; `SendFailedReply` chooses
  (`late`) whether the thread was there.
* A closed process has no `proc->vma`, so that allocation in it fails with
  BR_FAILED_REPLY until the worker has released it, and BR_DEAD_REPLY after.
* A process does not call its own nodes (`CallsAssumption`): binder hands a
  process its own objects as pointers, not handles.
* A thread that exits may come back: its next ioctl makes a new `binder_thread`.
* `Faulty` threads may fail a write for reasons the model leaves open (a bad
  copy, a bad object); `CookieMismatch` adds the failure that reports nothing.
* What a transaction carries is left to `BinderRefs`; the target is a node.
* The `pa, a1, na, ...` of `MC_Txn` are model values; symmetry is over
  `Txns` and `Bufs`, which no property singles out, and in safety runs only.

### Bounds

`Txns`, `Bufs`: how many exist at once; running out is the
memory failure of the code, so the bound loses no behaviour below it. `MaxTodo`: a
thread writes no more while that many items wait for it. `Faulty`, `Quitters`:
who may fail, who may exit. `Servers` (liveness): who makes calls only while serving.
`Calls`, `OneWay`: who calls whom.

## 4. `BinderRefs`: nodes, references, counts

Which calls exist is the business of `BinderTransactions`; here any process
sends to any it has a route to, and what matters is what the objects, buffers and
commands count.

| variable | code |
|---|---|
| `node` | `struct binder_node`: `internal_strong_refs`, `local_strong_refs`, `local_weak_refs`, `has_*`, `pending_*`; `work` is the list its work item is on; a dead node has no process |
| `ref` | `struct binder_ref` of a process to a node: `desc`, `strong`, `weak` |
| `buf` | `struct binder_buffer` with its objects; `next` is how far its release has got |
| `mgr` | `binder_context_mgr_node` |
| `busy` | the loop over objects that is under way; it holds the lock, so nothing else moves |
| `user`, `lost`, `unsure` | history: the counts user space has asked for, nodes whose work a thread took with it, processes with a count that was refused |

| action | code |
|---|---|
| `Inc`, `Dec` | BC_INCREFS, BC_ACQUIRE; BC_RELEASE, BC_DECREFS |
| `Done` | BC_INCREFS_DONE, BC_ACQUIRE_DONE |
| `SetContextMgr` | BINDER_SET_CONTEXT_MGR |
| `SendStart`, `SendBinder`, `SendHandle`, `SendDone`, `SendFails` | `binder_transaction`: target counted, object by object, success, or failure at any of them |
| `FreeBuffer`, `ReleaseObject`, `ReleaseDone` | `binder_transaction_buffer_release` |
| `ReadNode` | BINDER_WORK_NODE in `binder_thread_read`, a pass of its loop |
| `ThreadExit`, `Release` | `binder_release_work`, `binder_deferred_release` |

Decisions: results of `binder_inc_ref` that the code ignores are ignored (`unsure`
notes them). A handle in a buffer is looked up by its number again on release, as
in the code. `Careful` processes release and pass on only what they hold, the rule
of the protocol; the others do as they please, and `refs_manager` shows that the
driver's own counts survive it. A process does not send to itself (`RefsRoutes`).
File descriptors carry no count. A read reports one change of the node a
pass; the code may report several in a row, and each pass decides anew.
Bounds: `MaxObjs`, `MaxCount`, `Routes`, `Counters`, `Quitters` as commented in the
module.

`OwnerTold` is about counts of references. A local strong count
taken for a buffer (`binder_inc_node(target_node, 1, 0, NULL)`) does not queue the node's work, so
that a process may serve a call to a node before it is told of that count; it has
been told of the sender's reference, which the property demands.

## 5. `BinderBuffers`: the allocator

Addresses count words from `proc->buffer`. `heads` is `proc->buffers`, each
buffer named by where its header lies, so that the list's order and
`binder_buffer_size` are those of the numbers; `key` is the size a buffer had when it
was put into the tree `proc->free_buffers`; `pages` are the entries of
`proc->pages` that are set; `oops` notes a `BUG_ON` or a page freed that is not there.
`Map`, `VmaClose`, `Alloc`, `AllocNoPage`, `FreeBuf` and `Release` are `binder_mmap`,
`binder_vma_close`, `binder_alloc_buf` with success and with a page missing,
`binder_free_buf` with `binder_delete_free_buffer`, and the end of
`binder_deferred_release`. Between equally large free buffers the tree's shape decides,
which the model leaves open. Who frees which buffer when is left open too: any
allocated buffer may go. A failed `binder_mmap` leaves nothing behind and is left out, as
is the arithmetic of `size_t`.

`BufferPool` is the promise: regions that do not overlap, and one-way calls take
half of the mapping at most. `BinderBuffers` implements it (`PoolSpec`), where
a region is a header and the data of the transaction behind it.

Bounds: three pages of five words, a header of two (it can lie across a page
boundary, and so can data), sizes from nothing to nearly two pages. Every
way a header's ends and its neighbours' can share pages occurs.

## 6. `BinderLooper`: waiting, waking, new threads

One process, its threads, and the loops of libbinder that they run
(`binder_loop`, `binder_thread_loop`, `binder_call`).

| variable | code |
|---|---|
| `pc` | where a thread is: before or after `pthread_create`, between two ioctls, at BR_SPAWN_LOOPER in `binder_parse`, or inside `binder_thread_read` (testing the wait condition, asleep, woken, waiting for the lock) |
| `looper`, `forProc`, `failed` | `thread->looper`, the local `wait_for_proc_work` of the read a thread is in, a wait that returned an error |
| `serving`, `outgoing`, `own` | the call a thread serves, its own call that is out, its `todo` and `return_error` |
| `todo`, `maxThreads`, `requested`, `started`, `ready` | the fields of `binder_proc` |
| `frame`, `mute` | whose stack the address passed to a new thread points into; threads whose handler was lost that way |

A read is three steps because the lock is dropped in between (2337-2437): `StartRead`
(up to the unlock), `Test` (the condition, without the lock), and one of
`FinishRead`, `Retry`, `FailRead` (with the lock again). wait queues are the
kernel's: a task puts itself on the queue before it tests, an exclusive wake-up
wakes one, and a sleeper that a signal ends passes on the wake-up it has consumed.
`Signal`, `ThreadExit`, `Flush`, `SetMaxThreads`, `CallOut`, `Answer` and `Arrive`
are what else happens to the fields.

What libbinder does with BR_SPAWN_LOOPER is in the model as it is: the address of a
local variable of `binder_parse` goes to the new thread (binder.c:292), which may read
it when that function has returned, so that the thread may have no handler (`mute`);
a BR_SPAWN_LOOPER inside `binder_call` passes no handler at all (434); the result of
`pthread_create` is ignored, and the driver then waits for a registration that does
not come. `Served` makes no claim in these cases, nor when a thread has gone, since the
driver never subtracts from `requested_threads_started` (2625).

## 7. `BinderDeath`: death notifications

One process that holds references and asks about their nodes.

| variable | code |
|---|---|
| `alive` | nodes whose process has not been released |
| `ref` | `struct binder_ref`: `desc`, all its counts as one, `death` |
| `death` | `struct binder_ref_death`: the type of its work item and its cookie; `told`, `done`, `lost` are history |
| `msg` | transactions to the process; they share its list and count references |
| `todo`, `delivered` | `todo` of the threads and the process; `delivered_death` |

| action | code |
|---|---|
| `Request`, `Clear`, `Done` | BC_REQUEST_DEATH_NOTIFICATION, BC_CLEAR_DEATH_NOTIFICATION, BC_DEAD_BINDER_DONE |
| `Send`, `Reply`, `Acquire`, `Release` | counts come and go with buffers and commands; `binder_delete_ref` takes the notification along wherever it is queued |
| `ReadMsg`, `ReadDead`, `ReadCleared` | one item of `binder_thread_read` |
| `Dies` | `binder_deferred_release` of a node's process |
| `ThreadExit`, `Close` | `binder_release_work` on the thread's list; the release of the process |

The code as modelled: a notification changes type in place when it is cleared on its way
(2240); `delivered_death` is searched from the newest (2253); a thread that exits
frees cleared notifications on its list but takes plain ones off without freeing
or reporting them (2682), which `lost` marks. A process releases only counts that
it holds (`Took`): one that drops a reference with a call in hand is `BinderRefs`' matter.
A `kzalloc` that fails is left out: the reader gets BR_ERROR and nothing else changes.

## 8. `ServiceManager` and `Registry`

`ServiceManager` extends `BinderDeath`, which is its driver with one thread that never
exits, and models `svcmgr_handler` command by command: each `binder_acquire`, `binder_release`
and `binder_link_to_death` is an ioctl of its own, and services die or are sent
between any two (`at` is the next one). `svc` is `svclist`: an entry, once made, stays and
its handle becomes 0. Listing, permissions and names change no state and are left
out. What the driver's own specification lets any process do and the manager does
not (other commands, other orders) does not occur here; that every step of the manager
is a step of `BinderDeath` is a theorem.

`Registry` is the promise: under a name stands what was published last, until it dies. The
mapping is `entry[x]` = the node that `svc[x]`, a handle, names in the driver, so that the
refinement would catch a handle that was released and given to another service.
What the promise does not give follows the code: publishing a service under two
names, or again after its death was reported, has the second link refused (the
driver keeps one notification per reference, binder.c:2179), a result that
`do_add_service` does not look at (service_manager.c:208); and overriding a service
keeps its notification armed if something else holds the reference (184). That may be
another name's entry; or another transaction that publishes the same service,
of which there is at most one for a service that its own process publishes, one call
at a time, as `svcmgr_publish` of the test server does (`Careful`). `Plain` is who is
careful and goes by one name; `Registry`, `CaughtUp` and `Expires` promise the rest
of the services less. A service that is not careful is enough to break the promise: the
death message of one that was published twice, and overridden in between,
empties the entry of who overrode it.

## 9. `LedClass` and `Lights`

`LedClass` models one LED: `led-class.c`, `ledtrig-timer.c`, the board driver
`leds_4412.c`. Nothing but the trigger has a lock, so every task is a list of steps,
each of which touches the shared fields once, and the steps of tasks interleave; the
blink timer is a task too, and `del_timer_sync` waits for it. `led_trigger_set` and
`led_set_brightness` are the kernel's (not in `src/`) and modelled from how they are
used. `Lights` adds the HAL (`set_light_*` under `g_lock`, one write after another) and a
shell that writes the same files, which have mode 0666, and suspend and resume.

What the code does, and the properties except: `led_blink_set` stops the timer, and
`led_set_software_blink` returns early when the delays are what they were
(led-class.c:133-137), so that storing a delay that is there already stops the blinking
(`lost` in `BlinksUnlessLost`): a HAL that asks for the 500 ms which the activation of the
trigger has just set gets none. The default "blink with 1 Hz as default if nothing
specified" (led-class.c:276) is stored through the pointers that it is then compared with.
`brightness_set_4412` assigns `led_classdev.brightness` (leds_4412.c:44), so that
`led_classdev_resume` restores the 0 of the suspend (led-class.c:162-177);
`ShownWhenSet` counts a suspend as a write by somebody else.
A store that comes while `timer_trig_activate` is at work may leave the
timer off.

## 10. Runs

| run | instance | shows |
|---|---|---|
| `txn_death` | two processes, a pool of two in one, three transactions, failing writes, a thread that exits, a process that closes at any point | types; no `BUG()`, no dangling transaction; each command answered once, across failures and releases; a chain of calls runs in one thread per process (three nested calls fit) |
| `txn_chain` | ring of three processes, of which the second and third may close; four transactions | the failure travels past dead threads; the target of a reply always waits for it |
| `txn_async` | one-way and synchronous traffic, a thread and its process may exit | buffers of queued calls stay, one one-way call per node in delivery, transaction and buffer point at each other |
| `txn_live` | a client and a server with one thread each, the server may die; fairness | every call comes back |
| `txn_cookie` | cookie mismatches, expected violation | a failed write reports nothing: see below |
| `refs_owner` | an owner, a client and a third process; an object goes there and back, strong and weak; threads and processes exit | handles keep their meaning, the owner is told |
| `refs_manager` | two context managers one after the other, careless processes | counts stay exact and positive, nothing refers to a freed node, a strong claim lies within a weak one |
| `buffers` | one mapping of three small pages | the allocator implements `BufferPool`; pages, tree order and asynchronous space exact |
| `looper` | three threads, one of which may meet signals or exit; two calls, one of which never returns; a flush, a nested call, a limit of two | the number of ready threads exact, no lost wake-up, one new thread at a time, calls served |
| `death` | two threads, one of which may exit, a node, two notifications, one transaction that carries a count, the process may close; three requests | memory with one owner, no `BUG()`, the answer to a clear comes last; who asked hears, and every clear is answered |
| `services` | two services, two names, one service under both; two transactions at a time | the manager implements `Registry`, its counts agree with the driver's, entries of dead services go |
| `lights` | the HAL with five states of one LED, a shell, the timer, one meddling store or suspend | quiet without a trigger, what was set is shown, blinking unless lost, every store ends |

The bounds, beyond those of sections 3 to 5: a notification is in one of five states
and at most one hangs off a reference, so a second identity is what it takes to ask
again while the old one is still queued, and three requests bring back the first identity;
several nodes and cookies are covered by the theorems. Three threads
are the fewest with one idle, one stuck and one to be asked for. Two services and two
names are the fewest where handles are reused under another name. One act of
meddling meets every step of the HAL's stores.

Deadlock is not checked in these runs: a system where all has exited or all wait for
calls that no one makes may stop.

### Fairness

`txn_live`: two threads that call each other's process at the same moment, each
process having no other thread, wait for each other for ever: work queued for
a process is for threads with an empty stack. That is a property of binder
programs, not of the driver, so that `txn_live` lets a server make calls only while
it serves one (`Servers`). Fairness is strong for reads, answers and the
start of a release: each may find the lock taken again and again but the rt_mutex
behind `binder_main_lock` queues its waiters; the loops under the lock are weakly fair.
That a service answers what it was handed is the contract of `binder_loop`.

`looper`: weak fairness of each thread's own next step (`Runs`) and of answers by other
processes. Signals, exits, flushes and arrivals are not fair; handlers in `Stuck`
never return.

`death`: loopers read, calls are answered, threads that stay enter the loop and
acknowledge what was reported to them, as `binder_loop` does. Threads that may exit
need do none of it. The bound on requests is part of the run's specification: a
process that asks for ever about a dead node has the answer put on its thread's own
list, which is read before that of the process.

`services`: the manager's one thread gets to run.

`lights`: writers strongly fair (the lock of the trigger, and `del_timer_sync`
between two firings of the timer, come free again and again), the timer and the
power task weakly. Nobody has to start a store.

### Finding

`binder_transaction` compares the cookie of a flattened object with the node's
(binder.c:1710). On a mismatch it jumps to the error exit without setting
`return_error`, which is still BR_OK: the sender gets neither an error code nor
BR_TRANSACTION_COMPLETE, against the comment of `return_error`, "Write failed,
return error code in read buf" (binder.c:400), and a reply that fails this way leaves its
caller with no code to read.

### An exception, stated in the property

BC_FREE_BUFFER moves the node's next one-way call to the freeing thread's own list
(binder.c:2085). If that thread exits before it reads it, `binder_release_work`
drops the call and `has_async_transaction` stays set: later one-way calls to that node queue
for ever. `AsyncSerialised` says so with `orphaned`.

## 11. Proofs

`BinderTransactionsProofs` proves, for any processes, threads, nodes and pools:

* `TypeCorrect`: `Spec => []TypeOK`. `TypeOK` is inductive; the lemmas type
  the shared operators (`SendFailedReply`, `FreeStack`, `Drop`, the lists).
* `PointersAgreeAlways`: `Spec => []BufferPointersAgree`, from `TypeOK` and
  itself. The argument is about the two operators that cut ties: `Freed` and
  `Detach` applied to the same set of transactions keep agreement
  (`FreedAgrees`), which covers replies, failed replies, reads and releases;
  allocation ties a free transaction to a free buffer (`NewAgrees`); a thread that exits
  clears both directions for the calls it serves (`FreeStackAgrees`).

`BinderCallsProofs`, on top of it,
proves the rest of what the `txn_*` runs check, for any processes, threads,
nodes, transactions and buffers, and without any bound on calls, replies and exits:
`QueuedBufferAlways`, `ReplyTargetAlways`, `OneThreadAlways`, `NoDanglingAlways`,
`AsyncAlways`, `NoBugAlways` and `EveryAnsweredAlways`.

* The second half of `BinderTransactionsProofs` is about walks. The code follows
  `from_parent` and `to_parent`; the module says so with recursive functions on lengths. `ChainIs` replaces the chain
  from a transaction by the smallest set closed under `from_parent`, and the lemmas
  after it say what a new call, a pop, a failed reply and a thread's exit do to it. A
  statement about all lengths is proved as one about the set of lengths it holds for
  (`NatInduct`, from the pigeonhole principle), since the library's induction takes an
  operator.
* `CallsInv` (`CallsInvAlways`) is the inductive invariant. `Flow` speaks of lists and stacks
  as sets: a live transaction has one place, in one list, in a stack, or in the chain of a
  queued one; a stack is a chain of calls, each made or served by its thread, in which the
  one below was there first; both ends of a call agree on it, and a chain is in one thread
  of each process. `ErrOK` says that both codes of a thread are taken only while it waits for no reply; `LockOK` and
  `BufsOK` what is left while a thread or a process is torn down item by item. The
  properties about stacks need all of it together: that a reply finds its caller on top
  rests on the order of both stacks, which rests on one thread a process, which
  rests on where the look up the chain in `binder_transaction` stops.
* `AsyncInv` (`AsyncInvAlways`) is about one node's one-way calls, between the items of
  a teardown as well: the flag, the queue and the buffer in play.
* `OwedInv` (`OwedInvAlways`) counts what a thread still has to hear, item by item:
  `EveryCommandAnswered` as it stands while no thread is being freed.

These theorems assume `~CookieMismatch`: no sender passes an object whose cookie
is not its node's. The assumption is not for convenience. With such objects a reply
fails with no code for anyone (section 10), so that its caller stays below calls that
are answered out of turn, and TLC refutes `NoBug`, `NoDanglingTransaction` and
`EveryCommandAnswered` in the instance of `txn_cookie` within eight steps.
`TypeCorrect` and `PointersAgreeAlways` hold without it.

`BinderBuffersProofs` proves, for any page size, mapping, header and sizes:

* `JoinedAlways`, `TreeFreshAlways`: `Spec => []Joined`, `Spec => []TreeFresh`.
* `RegionsDisjoint`: `Spec => []Pool!NoOverlap`, no region handed out overlaps
  another.

All three come from one inductive invariant, `Tiled`: headers lie apart and
what was asked for fits before the next header (`Apart`, `Fits`), and the two properties
themselves. Neither stands alone: the freed buffer's neighbours keep their sizes
only because no third free buffer touches them (`Joined`), and the search finds free
buffers only because the tree holds exactly those (`TreeFresh`). `NextSplit`, `NextKept` and
`NextLater` say what adding or removing a header does to the neighbours of the others.

`AsyncSpaceAlways` (`AsyncSpaceExact`) needs a sum over buffers, which the community
modules define by recursion over the set. The proofs avoid induction on it: a sum of
sizes is the cardinality of a set of cells, one per word (`Cells`), and `MapThenSumSet`
is shown to be that cardinality by a smallest counterexample, from which one element
can be taken away. The invariant `Measured` is `Tiled`, the types and this equation;
`BuffersTypeOK` follows, since half of the mapping bounds the sum. With both,
`BuffersImplementPool` proves `Spec => PoolSpec`: an allocation takes a region that
overlaps no other and leaves the asynchronous space in bounds, a free gives back
just what was taken, and every other step stutters.

It also proves `PagesExactAlways` and `BufferBugsNever` (`NoBug`). `ExactIs`
turns the sets of words of `PagesExact` into one statement per page: `Used(p)`, a
header or data in use meets the page. The invariant `Paged` is `Tiled`, `Snug`, that the
mapped pages are the used ones, and that no assertion has fired. `Snug` says that what
lies behind the data of a buffer in use is too small to be split off; without it a
buffer could span pages that it does not touch, and freeing it would free a page that
was never mapped. This is where `BufHeader` is needed: a header and the smallest
remainder take less than a page.

`BinderRefsProofs` proves, for any processes, threads, objects, buffers, routes and
bounds: `RefsTypeOK`, `CountsAlwaysExact`, `NoDanglingNodeEver`, `ClaimsAlwaysNested`.
`Sound` relates one node to the sets of what refers to it (processes with a
reference, target buffers, local objects), and has one lemma per count
operation of the code (`binder_inc_node`, `binder_dec_node`, ...). `Held` is `Sound` for
every node, the types, and `Fits`: the process of a held buffer is alive, and what the
buffer addresses and carries lives there. `Fits` is what makes a
released object find its node, and a loop that was begun find its process.

`OwnerAlwaysTold` stands on top of it. Its invariant `Known` says
that an absent reference counts nothing (`Clean`) and, per node, that claims and counts
agree or work is queued (`Aware`). The context manager's node is the case apart:
user space may take the first reference to it by BC_ACQUIRE of handle 0, which has no
list to queue work on, and it is well only because the count of one that the
node is made with is never given back.

`HandlesAlwaysExact` is about what user space holds. `Exactly` says, for each careful
process and whatever the others do: a reference counts what the process has taken by
commands and what the objects handed to it carry, for each kind of count; no handle
means two nodes; what is not used counts nothing. Each delivered object is matched with
the buffer that carries it, so that giving back a buffer takes away just its own
counts. `HandlesExact` as the runs state it speaks of all processes, under the condition
that each lets go only of what he holds; the theorem has that condition as its
hypothesis, `Careful = Procs`, which is how run `refs_owner` is set up.

`BinderLooperProofs` proves, for any threads, calls, limits and any number of flushes
and signals: `TypeAlways`, `ReadyExactAlways`, `NoLostWakeupAlways` and
`SpawnBoundAlways`. The inductive invariant adds to these that the limit is never above
the largest one there was. `ReadyExact` is inductive because a thread subtracts by the flag
it added by, whatever has happened to its stack in between. `NoLostWakeup` needs
one lemma per way to leave a read (`LeaveCounts`): who leaves with work on the list
wakes the next; and one for what happens outside of reads (`Outside`).

`BinderDeathProofs` proves, for any threads, nodes, cookies, notifications and
transactions: `TypeAlways`, `OneOwnerAlways`, `NoBugAlways`, `ClearAfterDoneAlways`.
None of the three is inductive. The invariant says where a notification is by its
type (`Fate`): "armed" and "dead" hang off a reference, "deadclear" and "clear" are
queued, "clear" is not in `delivered_death`, and what was reported is there or
has been acknowledged; that of a living node is "armed" (`Living`), so that
a death finds it unqueued; no two lists share an item (`Separate`). That a count
is left while a transaction carries the reference (`Counts`) keeps a
reference alive until its buffer is freed, and with it the types. `NewDescIs` shows by
the pigeonhole principle that a free handle exists. Lemmas about lists (`QueueIs`, `TakeIs`,
`RemoveIs`, `DeleteIs`, `EmptyIs`) say what each of the code's list
operations does to the sets of items.

`ServiceManagerProofs` proves, for any services, names, transactions and counts:
`CountsHeldAlways`, `CaughtUpAlways`, `ManagerIsProcess` (`ManagerSpec => Spec`, with the
`Spec` of `BinderDeath`, so that its theorems hold of the manager) and
`ManagerKeepsRegistry` (`ManagerSpec => RegistrySpec`). All come from `MInv`
(`MInvAlways`), the invariant of the driver and, for the two together:

* `Served`: which call is held, and that it carries the service whose handle is in
  the entry between the moment the entry is written and the reply. So
  overriding an entry never frees the reference whose handle goes into it.
* `Kept`: every handle of an entry names a reference, which has a count for each of its
  entries (`Holders`) and each transaction that carries it, but the one that `AcquireNew`
  is about to take (`Pending`). This is what `ManagerIsProcess` needs: a release gives back
  a count that the manager took. A handle in use is thus never given to another service
  (`HandleKept`), which makes the mapping to `Registry` stand still in the steps that
  leave `svc` alone.
* `Heeded` says of a plain service what the order of its messages gives: it has one
  transaction at most; that one stands before the notification of its death in the
  list of the process (`Ahead`, since the sender has to be alive to send it); the entry has a
  notification unless it is about to get one; and that of a dead service is still to be
  read, or has just been. When the death is read no transaction of the service is left, so
  that its reference has one count, the entry's (`Doomed`): the handler empties the
  right entry and the reference goes with its notification. `Cause` carries this from
  the read to `svcinfo_death`.

The first attempt at this proof had a stronger `Registry`, which expected of every service
under one name what only careful ones get. `Cause` could not be proved for a service with two
transactions, and TLC found the run of section 8 once `Careful` was empty.

`LightsProofs` proves, for any levels, delays and states of the lights and any number of
writes by others: `LightsTypeOK`, `QuietAlways`, `BlinksAlways` and `ShownAlways`. A task is a
list of steps, so that the invariants speak of every remainder of every list.

* `TriggerInv` (`TriggerInvAlways`) is about all writers. But for the steps that a list may
  have anywhere (`Free`: driving the LED), steps come in the order of their ranks
  (`Ordered`), and `Shapes` names the sets of them that can be left; a tail of a shape is a
  shape (`ShapeTails`), and what an action puts in front or behind makes one
  (`ThenWriter`, `TriggerProgram`, `DelayProgram`). `Holder` is the writer that
  has the lock; where it is says whether the files of the trigger and its data are there
  (`WriterOK`). `QuietWithoutTrigger` is not inductive: a store of a delay that began
  under the old trigger must be over before the trigger is "none". It is, since removing
  the files waits for it (`Blinking` implies the timer trigger) and the timer has been
  stopped by `del_timer_sync` in between (`Detached`).
* `ShownInv` (`ShownInvAlways`) follows one call of the HAL while nobody else writes
  (`HalAlone`): `SuffixInv` says which files are still to be written; `ChosenInv` that the
  trigger is the wanted one or about to be; `BlinkInv` that the delays are what the files
  written so far come to (`Goal`, `Asks`), the default ones where the HAL asks for none, that
  what is assigned last is what led_blink_set chose (`Agrees`), and that the timer goes on
  (`Ticks`); `SteadyInv` that a steady light is on its way to the GPIO. Neither property is inductive: at
  the end of a call nothing is left of what the steps were. `SteadyInv` also needs
  that suspend counts as a write by somebody else (section 9), or resume would
  show the 0 of the driver.
* Steps of the timer and the power task come between those of the HAL;
  `OtherLeaves` and `FireShown` say what they leave alone. Under a steady light the HAL has no
  steps left that set delays, and the trigger is "none" or about to be
  (`SteadyDoesNotBlink`); with "none" no timer can fire (`TriggerInv`).

All assume the named ASSUMEs of their modules: the shape of the constants, NIL and
`Complete` outside the sets they mark, no self-calls, finite sets of processes,
nodes, buffers, transactions and threads. TLC evaluates them in every run.

Only model-checked: `FailedWriteReported`, which is violated, and everything about
liveness (`CallReturns`, `Heard`, `ClearEnds`, `Expires`, `Served`, `StoresEnd`): the prover handles
neither ENABLED nor fairness.
No run lists the `TypeOK` of `Lights`, which documents its state.

## 12. Not modelled

Within the parts that are modelled:

* Binder driver: file descriptors in transactions and `proc->files`, which carry no
  count and are the kernel's; `binder_poll` and O_NONBLOCK, which nothing in the
  repository uses; a `kzalloc` that fails for a notification; BR_ERROR for
  protocol errors in user space; priorities; `binder_stop_on_user_error`, which
  is off; the refcounts of pages and of `vm_area_struct`.
* libbinder: the `bio_` functions, which format messages; `binder_open`.
* Service manager: permissions and the listing, which change nothing.
* LED class: `led_classdev_unregister`, when the module is unloaded. It drops
  `trigger_lock` before it removes the device (led-class.c:252-258), so that a store of a
  trigger between the two could attach one to a LED that goes away.
* Lights HAL: the backlight, which is one write, and the other two LEDs, which are
  written in the same way, one after the other.

Not at all: debugfs and statistics (printing); the light demo app (one posted runnable
that acts by the flag it finds); the touch panel driver (a work function reads a report
and passes it on) and `InputEmulator.c` (registers a device, no handler); the AIDL, C++ and Java
services (stubs over a library that is not in the repository); the demonstrations of
inotify, epoll and socketpair; surface test, key configuration, and the stock, scanner
and sample apps, which have no part in the system's core.
