-------------------------------- MODULE MC_Refs --------------------------------
(***************************************************************************)
(* Small instances of BinderRefs.                                          *)
(***************************************************************************)
EXTENDS BinderRefs, TLC

CONSTANTS pa, pb, pc, a1, a2, b1, c1, na, nm, nx

TheProcOf == [h \in Threads |-> IF h \in {a1, a2} THEN pa ELSE IF h = b1 THEN pb ELSE pc]
TheOwner == [n \in Nodes |-> IF n = na THEN pa ELSE IF n = nm THEN pc ELSE pb]
\* The owner hands its object to a client, which passes it on and back.
TheRoutes == {<<pa, pb>>, <<pb, pc>>, <<pb, pa>>}
\* A client of the context manager, in either of two processes.
ManagerRoutes == {<<pa, pc>>, <<pc, pa>>, <<pa, pb>>}
Ids == Permutations(Bufs)
================================================================================
