------------------------------- MODULE BufferPool -------------------------------
(***************************************************************************)
(* What the buffer allocator of the Binder driver promises (binder_alloc_  *)
(* buf and binder_free_buf of src/DRV_Binder/binder.c): it hands out       *)
(* regions of a process's mapping, each a header and the data behind it,   *)
(* that do not overlap, and one-way calls never take more than half of the *)
(* mapping.  BinderBuffers implements it.                                  *)
(***************************************************************************)
EXTENDS Integers, FiniteSets, FiniteSetsExt

CONSTANTS
    Size,       \* of the mapping
    Header      \* sizeof(struct binder_buffer)

VARIABLE held   \* the regions in use

Region == [from: 0..Size, to: 0..Size, async: BOOLEAN]

Overlap(r, s) == r.from < s.to /\ s.from < r.to
Length(r) == r.to - r.from
AsyncUse(rs) == MapThenSumSet(Length, {r \in rs : r.async})

Init == held = {}

Take(r) ==
    /\ r.to - r.from >= Header
    /\ \A s \in held : ~Overlap(r, s)
    /\ r.async => AsyncUse(held \cup {r}) <= Size \div 2
    /\ held' = held \cup {r}
Give(r) == held' = held \ {r}

Next == (\E r \in Region : Take(r)) \/ (\E r \in held : Give(r))
Spec == Init /\ [][Next]_held

\* The data a sender writes for one call is never that of another, nor the
\* allocator's own header.
NoOverlap == \A r, s \in held : r # s => ~Overlap(r, s)
================================================================================
