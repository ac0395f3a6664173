---------------------------- MODULE ServiceManager ----------------------------
(***************************************************************************)
(* The service manager, src/APP_Binder_C_App/service_manager.c, with the   *)
(* driver under it (BinderDeath) and the calls of libbinder, binder.c, in  *)
(* between.  It has one thread.  Each command goes to the driver in a      *)
(* write of its own, so that clients may send and services may die between *)
(* any two of them: "at" is the next one.  A notification is named by the  *)
(* entry of svclist it was asked for, here by the service's name.          *)
(***************************************************************************)
EXTENDS BinderDeath

CONSTANTS
    Manager,            \* the thread of the service manager, which is Proc
    NamesOf,            \* which service may be published under which names
    Careful             \* services published only by their own process, in one
                        \* call at a time (svcmgr_publish of test_server.c)

\* The names that services are published under.
Names == Cookies

ASSUME ManagerThread == Threads = {Manager} /\ Quitters = {}
ASSUME ManagerNamesOf == NamesOf \in [Nodes -> SUBSET Names] /\ Careful \subseteq Nodes
ASSUME ManagerNil == NIL \notin Names
\* There is memory for the notification of each reference, and the bound on
\* counts is never met.
ASSUME ManagerRoom ==
    /\ IsFiniteSet(Names) /\ IsFiniteSet(Deaths)
    /\ Cardinality(Deaths) >= Cardinality(Nodes)
    /\ MaxCount > Cardinality(Names) + Cardinality(Msgs)

VARIABLES
    svc,        \* svcinfo.handle, 0 if there is none
    call,       \* the name each transaction is about
    at,         \* what the thread does next
    job         \* the call it serves, or the entry whose service died

manager == <<svc, call, at, job>>
allVars == <<vars, manager>>

ManagerInit ==
    /\ Init
    /\ svc = [x \in Names |-> 0]
    /\ call = [m \in Msgs |-> NIL]
    /\ at = "start"
    /\ job = NIL

-------------------------------------------------------------------------------
(* Clients *)

\* SVC_MGR_ADD_SERVICE, from another process that has the service unless the
\* service is careful.
SendAdd(m, x, n) ==
    /\ x \in NamesOf[n]
    /\ n \in Careful => n \in alive /\ \A k \in Msgs: msg[k].node # n
    /\ Send(m, n)
    /\ call' = [call EXCEPT ![m] = x]
    /\ UNCHANGED <<svc, at, job>>

\* SVC_MGR_CHECK_SERVICE, or an ADD without an object: it brings no reference.
SendCheck(m, x) ==
    /\ Send(m, NIL)
    /\ call' = [call EXCEPT ![m] = x]
    /\ UNCHANGED <<svc, at, job>>

-------------------------------------------------------------------------------
(* The loop and the handlers *)

\* The driver refuses a command for a handle that names nothing (user error).
Told(h, A) == IF Named(h) = {} THEN UNCHANGED vars ELSE A

\* main, binder_loop
EnterLoop ==
    /\ at = "start" /\ at' = "loop"
    /\ EnterLooper(Manager)
    /\ UNCHANGED <<svc, call, job>>

\* What do_add_service has to do for entry x before it puts a handle there.
First(x) == IF svc[x] # 0 THEN "override" ELSE "acquire"

\* BR_TRANSACTION: svcmgr_handler, up to its first command.
Serve ==
    LET m == Next1(Manager)
        n == msg[m].node
    IN  /\ at = "loop" /\ ReadMsg(Manager)
        /\ job' = m
        /\ at' = IF n = NIL THEN "reply" ELSE First(call[m])
        /\ svc' = IF at' = "acquire" THEN [svc EXCEPT ![call[m]] = ref[n].desc] ELSE svc
        /\ UNCHANGED call

\* Mutant: the entry keeps the handle that it releases.
OverrideKeeping ==
    LET x == call[job] IN
    /\ at = "override" /\ at' = "acquire"
    /\ Told(svc[x], Release(svc[x]))
    /\ UNCHANGED <<svc, call, job>>

\* do_add_service, svcinfo_death: the entry has a handle.
Override ==
    LET x == call[job] IN
    /\ at = "override" /\ at' = "acquire"
    /\ Told(svc[x], Release(svc[x]))
    /\ svc' = [svc EXCEPT ![x] = ref[msg[job].node].desc]
    /\ UNCHANGED <<call, job>>

\* Mutant: the entry takes no count of its own.
AcquireNone ==
    /\ at = "acquire" /\ at' = "link"
    /\ UNCHANGED <<vars, svc, call, job>>

AcquireNew ==
    LET h == svc[call[job]] IN
    /\ at = "acquire" /\ at' = "link"
    /\ Told(h, Acquire(h))
    /\ UNCHANGED <<svc, call, job>>

\* binder_link_to_death; refused if the reference has a notification.
Link ==
    LET h == svc[call[job]] IN
    /\ at = "link" /\ at' = "reply"
    /\ IF \A n \in Named(h): ref[n].death # NIL
       THEN UNCHANGED vars
       ELSE Request(Manager, h, call[job])
    /\ UNCHANGED <<svc, call, job>>

\* binder_send_reply
SendReply ==
    /\ at = "reply" /\ at' = "loop"
    /\ Reply(Manager, job)
    /\ call' = [call EXCEPT ![job] = NIL]
    /\ job' = NIL
    /\ UNCHANGED svc

\* BR_DEAD_BINDER
HearDeath ==
    /\ at = "loop" /\ at' = "died"
    /\ ReadDead(Manager)
    /\ job' = death[Next1(Manager)].cookie
    /\ UNCHANGED <<svc, call>>

\* Mutant: the death is only logged.
SvcinfoLogs ==
    /\ at = "died" /\ at' = "loop"
    /\ job' = NIL
    /\ UNCHANGED <<vars, svc, call>>

\* svcinfo_death for the entry in the cookie.
SvcinfoDeath ==
    /\ at = "died" /\ at' = "loop"
    /\ IF svc[job] = 0 THEN UNCHANGED vars ELSE Told(svc[job], Release(svc[job]))
    /\ svc' = [svc EXCEPT ![job] = 0]
    /\ job' = NIL
    /\ UNCHANGED call

ServiceDies(n) == Dies(n) /\ UNCHANGED manager

Loop ==
    \/ EnterLoop \/ Serve \/ Override \/ AcquireNew \/ Link \/ SendReply
    \/ HearDeath \/ SvcinfoDeath

ManagerNext ==
    \/ Loop
    \/ \E m \in Msgs, x \in Names: SendCheck(m, x) \/ \E n \in Nodes: SendAdd(m, x, n)
    \/ \E n \in Nodes: ServiceDies(n)

\* The thread of the manager always gets to run.
ManagerSpec == ManagerInit /\ [][ManagerNext]_allVars /\ WF_allVars(Loop)

-------------------------------------------------------------------------------
(* Properties *)

NodeOf(h) == IF \E n \in Nodes: ref[n].desc = h
             THEN CHOOSE n \in Nodes: ref[n].desc = h ELSE NIL
Entry(x) == IF svc[x] = 0 THEN NIL ELSE NodeOf(svc[x])

\* A service that its own process publishes, under one name.
Plain == {n \in Careful: \A x, y \in NamesOf[n]: x = y}

R == INSTANCE Registry WITH entry <- [x \in Names |-> Entry(x)]

\* The service manager keeps the promise of Registry: what is found under a
\* name is what was published there last, however handles are released and
\* numbered again, and a name is emptied only by a death that concerns it.
RegistrySpec == R!Spec

\* svclist and the driver agree: of the counts on each reference one is held
\* for every entry with its handle and one for every transaction that carries
\* it, so that no handle of an entry is given to another service.
CountsHeld ==
    \A n \in Nodes:
        LET entries == {x \in Names: svc[x] # 0 /\ Entry(x) = n}
            carriers == {m \in Msgs: msg[m].node = n}
            unacquired == IF at = "acquire" /\ Entry(call[job]) = n THEN 1 ELSE 0
        IN  ref[n].count = Cardinality(entries) + Cardinality(carriers) - unacquired

\* When the manager has read all there is, no entry names a dead service.
\* Others than plain services may stay: the driver keeps one notification per
\* reference, and a link is refused (208) while another name's hangs there, or
\* one that has been reported already.
CaughtUp ==
    at = "loop" /\ (\A l \in Lists: todo[l] = <<>>) =>
        \A x \in Names: Entry(x) \in Plain => Entry(x) \in alive

\* The entry of a plain service that has died is emptied or overridden in the
\* end, whatever else is asked of the manager.
Expires ==
    \A x \in Names, n \in Plain: (Entry(x) = n /\ n \notin alive) ~> (Entry(x) # n)
===============================================================================
