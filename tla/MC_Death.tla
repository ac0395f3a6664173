------------------------------- MODULE MC_Death -------------------------------
(***************************************************************************)
(* A small instance of BinderDeath: a node, a thread that serves and one   *)
(* that may exit, and a bound on how often notifications are asked         *)
(* for (a process that asks for ever about a dead node reads the answers   *)
(* from its thread's list and never gets to the process's).                *)
(***************************************************************************)
EXTENDS BinderDeath, TLC

CONSTANT MaxAsks    \* bound: requests in a run

VARIABLE asks

Asked == \E d \in Deaths: death[d].type = "free" /\ death'[d].type # "free"

MCInit == Init /\ asks = 0
MCNext == /\ Next
          /\ asks' = IF Asked THEN asks + 1 ELSE asks
          /\ asks' <= MaxAsks
MCSpec == MCInit /\ [][MCNext]_<<vars, asks>> /\ Fairness
===============================================================================
