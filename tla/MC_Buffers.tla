------------------------------- MODULE MC_Buffers -------------------------------
(***************************************************************************)
(* A mapping of a few small pages.                                         *)
(***************************************************************************)
EXTENDS BinderBuffers
================================================================================
