-------------------------------- MODULE MC_Txn --------------------------------
(***************************************************************************)
(* Small instances of BinderTransactions: two or three processes, one node *)
(* each, a thread pool of two threads in one of them.                      *)
(***************************************************************************)
EXTENDS BinderTransactions, TLC

CONSTANTS pa, pb, pc, a1, b1, b2, c1, na, nb, nc

TwoProcOf == (a1 :> pa) @@ (b1 :> pb) @@ (b2 :> pb)
TwoOwner == (na :> pa) @@ (nb :> pb)

TwoCalls == {<<a1, nb>>, <<b1, na>>, <<b2, na>>}
OneCall == {<<b1, na>>}
TwoOneWay == {<<a1, nb>>}

LiveProcOf == (a1 :> pa) @@ (b1 :> pb)
LiveOwner == TwoOwner
LiveCalls == {<<a1, nb>>, <<b1, na>>}

ThreeProcOf == (a1 :> pa) @@ (b1 :> pb) @@ (c1 :> pc)
ThreeOwner == (na :> pa) @@ (nb :> pb) @@ (nc :> pc)
\* A ring of calls: a process is called back by one it did not call itself.
ThreeCalls == {<<a1, nb>>, <<b1, nc>>, <<c1, na>>}
Nobody == {}

\* Transactions and buffers are interchangeable identities.
Ids == Permutations(Txns) \cup Permutations(Bufs)
===============================================================================
