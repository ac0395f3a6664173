------------------------------ MODULE BinderBuffers ------------------------------
(***************************************************************************)
(* The buffer allocator of one process in the Binder driver,               *)
(* src/DRV_Binder/binder.c: best fit with splitting, joining of free       *)
(* neighbours, pages mapped and unmapped as buffers come and go, and the   *)
(* space set aside for one-way calls.                                      *)
(*                                                                         *)
(* Addresses count words from proc->buffer, and a buffer is named by the   *)
(* address of its header; its data follow the header and reach to the next *)
(* header, as binder_buffer_size computes.                                 *)
(***************************************************************************)
EXTENDS Integers, FiniteSets, FiniteSetsExt

CONSTANTS
    PageSize,   \* words in a page
    Pages,      \* number of pages of the mapping
    Header,     \* words in a struct binder_buffer
    Slack,      \* the words a split must leave room for more than (4 bytes)
    Sizes,      \* bound: the sizes of transactions (data and offsets)
    NIL         \* no vma, or not in the tree of free buffers

ASSUME BufSizes == /\ PageSize \in Nat \ {0} /\ Pages \in Nat \ {0}
                   /\ Header \in Nat \ {0} /\ Slack \in Nat \ {0}
                   /\ Sizes \subseteq Nat
\* A header and the remainder too small to split off fit in a page, with room.
ASSUME BufHeader == Header + Slack < PageSize
ASSUME BufNil == NIL \notin Int /\ NIL \notin {"mapped", "closed"}

Size == PageSize * Pages
Addr == 0..(Size - 1)
Page == 0..(Pages - 1)

VARIABLES
    vma,        \* proc->vma: NIL before mmap, "mapped", "closed" after vma_close
    heads,      \* proc->buffers: the buffers there are
    free,       \* those with buffer->free
    key,        \* proc->free_buffers: the size each was filed under, or NIL
    size,       \* data_size and offsets_size of the allocated ones
    async,      \* the allocated ones with async_transaction
    space,      \* proc->free_async_space
    pages,      \* proc->pages: those that are there
    oops        \* history: BUG_ON()s, and pages freed that are not there

vars == <<vma, heads, free, key, size, async, space, pages, oops>>

Bugs == {"page in use", "page not there", "size"}

TypeOK ==
    /\ vma \in {NIL, "mapped", "closed"}
    /\ heads \subseteq Addr /\ free \subseteq heads
    /\ key \in [Addr -> Nat \cup {NIL}]
    /\ size \in [Addr -> Nat]
    /\ async \subseteq heads \ free
    /\ space \in 0..(Size \div 2)
    /\ pages \subseteq Page
    /\ oops \subseteq Bugs

Init ==
    /\ vma = NIL
    /\ heads = {} /\ free = {} /\ async = {} /\ pages = {} /\ oops = {}
    /\ key = [a \in Addr |-> NIL]
    /\ size = [a \in Addr |-> 0]
    /\ space = 0

-------------------------------------------------------------------------------
(* Buffers and their neighbours *)

NextHead(hs, a) == Min({b \in hs : b > a} \cup {Size})
PrevHead(hs, a) == Max({b \in hs : b < a})
\* binder_buffer_size
BufferSize(hs, a) == NextHead(hs, a) - (a + Header)
Allocated == heads \ free

PageUp(x) == ((x + PageSize - 1) \div PageSize) * PageSize
PageDown(x) == (x \div PageSize) * PageSize
\* The pages from start to end, both multiples of the page size.
PageRange(start, end) == {p \in Page : start <= p * PageSize /\ p * PageSize < end}
StartPage(a) == a \div PageSize
EndPage(a) == (a + Header - 1) \div PageSize

\* binder_insert_free_buffer: filed under the size it has at that moment.
Filed(hs, k, a) == [k EXCEPT ![a] = BufferSize(hs, a)]

-------------------------------------------------------------------------------
(* binder_mmap, binder_vma_close, binder_alloc_buf *)

Map ==
    /\ vma = NIL
    /\ vma' = "mapped"
    /\ heads' = {0} /\ free' = {0}
    /\ key' = Filed({0}, key, 0)
    /\ pages' = {0}
    /\ space' = Size \div 2
    /\ UNCHANGED <<size, async, oops>>

VmaClose ==
    /\ vma = "mapped" /\ vma' = "closed"
    /\ UNCHANGED <<heads, free, key, size, async, space, pages, oops>>

\* Among equally good buffers the shape of the tree decides.
Fitting(n) == {a \in Addr : key[a] # NIL /\ BufferSize(heads, a) >= n}
BestFits(n) == {a \in Fitting(n) : \A b \in Fitting(n) : BufferSize(heads, a) <= BufferSize(heads, b)}

\* Faulty variant of HasSpace: the header is not counted.
HasSpaceForData(n, oneway) == oneway => space >= n
HasSpace(n, oneway) == oneway => space >= n + Header

\* Faulty variant of Cut: no room is kept for the header of the rest.
CutShort(n, full) == IF n = full THEN n ELSE n + Header

\* How much of a buffer of size full an allocation of n words prepares: all, when
\* the rest would be too small, or the data and the header of the rest.
Cut(n, full) == IF n = full \/ n + Header + Slack >= full THEN n ELSE n + Header

\* The pages an allocation of n words at a maps.
Mapped(n, a) ==
    LET data == a + Header
        full == BufferSize(heads, a)
        last == PageDown(data + full)
        wanted == PageUp(data + Cut(n, full)) IN
    PageRange(PageUp(data), IF wanted > last THEN last ELSE wanted)

InUse(ps) == IF ps \cap pages # {} THEN {"page in use"} ELSE {}

Alloc(n, oneway) ==
    /\ vma = "mapped" /\ HasSpace(n, oneway)
    /\ \E a \in BestFits(n) :
         LET rest == IF Cut(n, BufferSize(heads, a)) = n THEN {} ELSE {a + Header + n}
             hs == heads \cup rest IN
         /\ pages' = pages \cup Mapped(n, a)
         /\ oops' = oops \cup InUse(Mapped(n, a))
         /\ heads' = hs
         /\ free' = (free \ {a}) \cup rest
         /\ key' = [b \in Addr |-> IF b = a THEN NIL
                                   ELSE IF b \in rest THEN BufferSize(hs, b) ELSE key[b]]
         /\ size' = [size EXCEPT ![a] = n]
         /\ async' = IF oneway THEN async \cup {a} ELSE async
         /\ space' = IF oneway THEN space - (n + Header) ELSE space
    /\ UNCHANGED vma

\* Faulty variant of Undone: the pages before the one that failed are kept.
UndoneKeeping(got) == pages \cup got
\* binder_update_page_range gives back the pages it got before one that failed.
Undone(got) == (pages \cup got) \ got

\* There is no page p, or it cannot be mapped, or, for the first, the vma was closed
\* since binder_alloc_buf looked: binder_vma_close runs under mmap_sem alone.
AllocNoPage(n, oneway) ==
    /\ vma = "mapped" /\ HasSpace(n, oneway)
    /\ \E a \in BestFits(n) : \E p \in Mapped(n, a) :
         LET got == {q \in Mapped(n, a) : q < p} IN
         /\ pages' = Undone(got)
         /\ oops' = oops \cup InUse(got \cup {p})
    /\ UNCHANGED <<vma, heads, free, key, size, async, space>>

-------------------------------------------------------------------------------
(* binder_delete_free_buffer, binder_free_buf *)

\* Faulty variant of HeaderPages: the neighbour behind is not looked at.
HeaderPagesAlone(hs, a) ==
    LET prev == PrevHead(hs, a)
        freeStart == EndPage(prev) # StartPage(a)
        freeEnd == EndPage(prev) # EndPage(a) IN
    (IF freeStart THEN {StartPage(a)} ELSE {}) \cup (IF freeEnd THEN {EndPage(a)} ELSE {})

\* The pages that only the header of a has been using.
HeaderPages(hs, a) ==
    LET prev == PrevHead(hs, a)
        next == NextHead(hs, a)
        onEnd == next # Size /\ StartPage(next) = EndPage(a)
        freeStart == EndPage(prev) # StartPage(a) /\ ~(onEnd /\ StartPage(next) = StartPage(a))
        freeEnd == ~(EndPage(prev) = StartPage(a) /\ EndPage(prev) = EndPage(a)) /\ ~onEnd IN
    (IF freeStart THEN {StartPage(a)} ELSE {}) \cup (IF freeEnd THEN {EndPage(a)} ELSE {})

JoinsNext(a) == NextHead(heads, a) \in free
\* Faulty variant of JoinsPrev: a buffer is joined on one side only.
JoinsPrevElse(a) ==
    /\ ~JoinsNext(a)
    /\ \E b \in heads : b < a /\ PrevHead(heads, a) \in free
JoinsPrev(a) == \E b \in heads : b < a /\ PrevHead(heads, a) \in free

\* Faulty variant of KeysAfter: the buffer in front stays filed where it was.
KeysAfterStale(hs, into, gone) ==
    [b \in Addr |-> IF b \in gone THEN NIL
                    ELSE IF b = into /\ key[b] = NIL THEN BufferSize(hs, into) ELSE key[b]]
\* The buffers gone leave the tree and the one they were joined into is filed anew.
KeysAfter(hs, into, gone) ==
    [b \in Addr |-> IF b \in gone THEN NIL
                    ELSE IF b = into THEN BufferSize(hs, into) ELSE key[b]]

\* Faulty variant of SpaceAfter: without the header.
SpaceAfterData(a) == IF a \in async THEN space + size[a] ELSE space
SpaceAfter(a) == IF a \in async THEN space + size[a] + Header ELSE space

FreeBuf(a) ==
    LET full == BufferSize(heads, a)
        data == PageRange(PageUp(a + Header), PageDown(a + Header + full))
        next == IF JoinsNext(a) THEN {NextHead(heads, a)} ELSE {}
        own == IF JoinsPrev(a) THEN {a} ELSE {}
        into == IF JoinsPrev(a) THEN PrevHead(heads, a) ELSE a
        left == heads \ (next \cup own)
        nextPages == UNION {HeaderPages(heads, b) : b \in next}
        ownPages == UNION {HeaderPages(heads \ next, b) : b \in own} IN
    /\ a \in Allocated
    /\ heads' = left
    /\ free' = (free \cup {a}) \cap left
    /\ key' = KeysAfter(left, into, next \cup own)
    /\ pages' = pages \ (data \cup nextPages \cup ownPages)
    /\ oops' = oops
         \cup (IF size[a] > full THEN {"size"} ELSE {})
         \cup (IF \/ ~(data \subseteq pages) \/ ~(nextPages \subseteq pages \ data)
                  \/ ~(ownPages \subseteq pages \ (data \cup nextPages))
               THEN {"page not there"} ELSE {})
    /\ size' = [size EXCEPT ![a] = 0]
    /\ async' = async \ {a}
    /\ space' = SpaceAfter(a)
    /\ UNCHANGED vma

\* The end of binder_deferred_release, after it has freed the buffers.
Release ==
    /\ vma = "closed" /\ Allocated = {} /\ heads # {}
    /\ heads' = {} /\ free' = {} /\ pages' = {}
    /\ key' = [a \in Addr |-> NIL]
    /\ UNCHANGED <<vma, size, async, space, oops>>

Next ==
    \/ Map \/ VmaClose \/ Release
    \/ \E n \in Sizes, oneway \in BOOLEAN : Alloc(n, oneway) \/ AllocNoPage(n, oneway)
    \/ \E a \in Addr : FreeBuf(a)

Spec == Init /\ [][Next]_vars

-------------------------------------------------------------------------------
(* Properties *)

\* No page is mapped twice or freed while not there (BUG_ON(*page), __free_page
\* of NULL), and no buffer is smaller than what is in it.
NoBug == oops = {}

\* The pages that are there are those that hold a header or data in use: no
\* access to a buffer faults, and no page is kept for nothing.
Words(from, to) == {p \in Page : p * PageSize < to /\ from < (p + 1) * PageSize}
PagesExact ==
    pages = (UNION {Words(a, a + Header) : a \in heads})
              \cup (UNION {Words(a + Header, a + Header + size[a]) : a \in Allocated})

\* The tree of free buffers is searched by sizes computed anew; they are still
\* those the buffers were filed under, so that the search finds a best fit.
TreeFresh ==
    \A a \in Addr : key[a] = IF a \in free THEN BufferSize(heads, a) ELSE NIL

\* Free neighbours are always joined: space runs out only when no gap between
\* buffers in use is large enough.
Joined == \A a \in free : NextHead(heads, a) \notin free

\* The space for one-way calls comes back in full.
AsyncSpaceExact ==
    vma # NIL => space = Size \div 2 - MapThenSumSet(LAMBDA a : size[a] + Header, async)

\* The allocator hands out what BufferPool allows.
Held == {[from |-> a, to |-> a + Header + size[a], async |-> a \in async] : a \in Allocated}
Pool == INSTANCE BufferPool WITH held <- Held
PoolSpec == Pool!Spec
================================================================================
