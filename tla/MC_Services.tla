----------------------------- MODULE MC_Services ------------------------------
(***************************************************************************)
(* A small instance of ServiceManager: two services that take each other's *)
(* place under one name, and one that is published under two.              *)
(***************************************************************************)
EXTENDS ServiceManager, TLC

CONSTANTS s1, s2, web, mail

PublishedAs == (s1 :> {web}) @@ (s2 :> {web, mail})
===============================================================================
