------------------------------- MODULE MC_Looper ------------------------------
(***************************************************************************)
(* A small instance of BinderLooper: the main thread and two more, two     *)
(* calls of which one never returns.                                       *)
(***************************************************************************)
EXTENDS BinderLooper, TLC
===============================================================================
