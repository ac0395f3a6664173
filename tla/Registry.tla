------------------------------- MODULE Registry -------------------------------
(***************************************************************************)
(* What the service manager promises: under a name stands the service that *)
(* was last published under it, until that service has died.  The promise  *)
(* is weaker for services that are not plain, those that are published     *)
(* under several names or by others than their own process: the death of   *)
(* one may take away what else stands under a name of its own.             *)
(***************************************************************************)
CONSTANTS
    Names,      \* service names
    Nodes,      \* the services
    NamesOf,    \* the names a service may be published under
    Plain,      \* the plain services
    NIL         \* no service, none of Nodes

VARIABLES
    entry,      \* the service under each name
    alive       \* the services that have not died

vars == <<entry, alive>>

Init ==
    /\ entry = [x \in Names |-> NIL]
    /\ alive = Nodes

Publish(x, n) ==
    /\ x \in NamesOf[n]
    /\ entry' = [entry EXCEPT ![x] = n]
    /\ UNCHANGED alive

\* A service that is dead, and stands under x or once did, was the cause.
Expire(x) ==
    /\ \E n \in Nodes \ alive: x \in NamesOf[n] /\ (n = entry[x] \/ n \notin Plain)
    /\ entry' = [entry EXCEPT ![x] = NIL]
    /\ UNCHANGED alive

Die(n) ==
    /\ n \in alive
    /\ alive' = alive \ {n}
    /\ UNCHANGED entry

Next ==
    \/ \E x \in Names, n \in Nodes: Publish(x, n)
    \/ \E x \in Names: Expire(x)
    \/ \E n \in Nodes: Die(n)

Spec == Init /\ [][Next]_vars
===============================================================================
