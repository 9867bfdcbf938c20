-------------------------------- MODULE Heap --------------------------------
(***************************************************************************)
(* The user heap (lab6/jos/lib/malloc.c).                                  *)
(*                                                                         *)
(* Pages between mbegin and mend are mapped when they are needed.  Blocks  *)
(* smaller than a page are cut one after the other from the page mptr is   *)
(* in; the last word of that page counts the blocks in it and mptr itself. *)
(* A larger block takes a run of pages; all but the last are marked        *)
(* PTE_CONTINUED, and the last has the count.                              *)
(*                                                                         *)
(* Addresses are bytes, computed modulo the size of the address space; the *)
(* kernel is a set of mapped pages and a number of free physical pages.    *)
(***************************************************************************)
EXTENDS Integers, FiniteSets, FiniteSetsExt

CONSTANTS
    PGSIZE,      \* bytes of a page
    NPages,      \* pages of the address space
    MBegin,      \* mbegin / PGSIZE
    MEnd,        \* mend / PGSIZE
    Text,        \* pages mapped outside of the heap
    MaxMalloc,   \* MAXMALLOC
    PhysPages,   \* bound: physical pages
    Sizes,       \* bound: sizes asked for
    MaxLive      \* bound: blocks in use

ASSUME HeapAssumption ==
    /\ PGSIZE \in Nat /\ PGSIZE > 4 /\ PGSIZE % 4 = 0
    /\ MBegin \in Nat /\ MEnd \in Nat /\ NPages \in Nat
    /\ 0 < MBegin /\ MBegin < MEnd /\ MEnd < NPages
    /\ Text \subseteq 0 .. NPages - 1
    /\ Text \cap (MBegin .. MEnd - 1) = {}
    /\ Text \cap (0 .. MBegin - 1) # {}    \* the program lies below its heap
    /\ MaxMalloc \in Nat /\ PhysPages \in Nat /\ MaxLive \in Nat
    /\ (MEnd - 1) * PGSIZE + MaxMalloc + 3 < NPages * PGSIZE
    /\ Sizes \subseteq 0 .. NPages * PGSIZE - 1

VARIABLES
    mptr,        \* the next address to be given out
    pt,          \* the page table: "none", "page" or "cont" (PTE_CONTINUED)
    ref,         \* the last word of a page
    live,        \* the blocks in use: address, length, number
    parted,      \* pages with a count that mptr left without a free()
    alive        \* no assertion failed

heapVars == <<mptr, pt, ref, live, parted, alive>>

Page == 0 .. NPages - 1
Size == NPages * PGSIZE
PageOf(a) == a \div PGSIZE

\* ROUNDUP(n, 4) on 32 bits.
RoundUp4(n) == LET m == (n + 3) % Size IN m - (m % 4)

\* The pages a run at page p takes for n bytes and the count.
RunLength(n) == (n + 4 + PGSIZE - 1) \div PGSIZE
Run(p, n) == p .. p + RunLength(n) - 1

Mapped(t) == {p \in Page : t[p] # "none"}

\* The physical pages that are left.
Room(t) == PhysPages - Cardinality(Mapped(t) \ Text)

-----------------------------------------------------------------------------
(* free().                                                                 *)

\* The page with the count for an address in page p: past the PTE_CONTINUED
\* pages.  All pages before it are unmapped on the way.
CountPage(p) == Min({q \in p .. NPages - 1 : pt[q] # "cont"})

\* Mutant: a count of zero is noticed one free() later.
DropLate(p) ==
    LET c == CountPage(p)
        gone == {q \in p .. c : q < c \/ ref[c] = 0}
    IN  [pt |-> [q \in Page |-> IF q \in gone THEN "none" ELSE pt[q]],
         ref |-> [ref EXCEPT ![c] = @ - 1]]

\* What free() of an address in page p makes of the page table and the counts.
Drop(p) ==
    LET c == CountPage(p)
        gone == {q \in p .. c : q < c \/ ref[c] = 1}
    IN  [pt |-> [q \in Page |-> IF q \in gone THEN "none" ELSE pt[q]],
         ref |-> [ref EXCEPT ![c] = @ - 1]]

free(b) ==
    /\ alive /\ b \in live
    /\ live' = live \ {b}
    /\ \/ /\ b.v = 0
          /\ UNCHANGED <<pt, ref, parted, alive>>
       \/ /\ b.v # 0 /\ PageOf(b.v) \notin MBegin .. MEnd - 1
          /\ alive' = FALSE
          /\ UNCHANGED <<pt, ref, parted>>
       \/ /\ PageOf(b.v) \in MBegin .. MEnd - 1
          /\ pt' = Drop(PageOf(b.v)).pt
          /\ ref' = Drop(PageOf(b.v)).ref
          /\ parted' = parted \cap Mapped(pt')
          /\ UNCHANGED alive
    /\ UNCHANGED mptr

-----------------------------------------------------------------------------
(* malloc().                                                               *)

\* isfree() computes the end of the run on 32 bits: when it wraps, the loop
\* looks at no page.
Wraps(p, n) == p * PGSIZE + n + 4 >= Size
isfree(t, p, n) ==
    Wraps(p, n) \/ \A q \in Run(p, n) : q < MEnd /\ t[q] = "none"

NoSpace == -1

\* The pages from p0 to the first one before mend, by their distance from p0:
\* past the end of the address space if p0 is not below mend.
FirstPass(t, p0, n) ==
    {k \in 0 .. (MEnd - 1 - p0) % NPages : isfree(t, (p0 + k) % NPages, n)}
SecondPass(t, n) == {p \in MBegin .. MEnd - 1 : isfree(t, p, n)}

\* Mutant: the scan gives up when it first comes to mend.
ScanOnce(t, p0, n) ==
    IF FirstPass(t, p0, n) # {} THEN (p0 + Min(FirstPass(t, p0, n))) % NPages
    ELSE NoSpace

\* The search for n bytes: page after page from p0 on until mend is met, then
\* once from mbegin to mend.
Scan(t, p0, n) ==
    IF FirstPass(t, p0, n) # {} THEN (p0 + Min(FirstPass(t, p0, n))) % NPages
    ELSE IF SecondPass(t, n) # {} THEN Min(SecondPass(t, n))
    ELSE NoSpace

\* mptr when malloc() begins.
Start == IF mptr = 0 THEN MBegin * PGSIZE ELSE mptr

\* There is a page that is partly used, and n more bytes and the count fit.
Partial == Start % PGSIZE # 0
\* Mutant: the count is forgotten.
FitsTight(n) == Partial /\ PageOf(Start) = PageOf(Start + n - 1)
Fits(n) == Partial /\ PageOf(Start) = PageOf(Start + n + 3)

\* Blocks of no bytes can have the same address.
Numbered(v, n) ==
    [v |-> v, n |-> n, no |-> Min((0 .. MaxLive) \ {b.no : b \in {c \in live : c.v = v}})]

\* The block is cut from the page that is in use.
MallocFits(n) ==
    /\ n < MaxMalloc /\ Fits(n)
    /\ ref' = [ref EXCEPT ![PageOf(Start)] = @ + 1]
    /\ live' = live \cup {Numbered(Start, n)}
    /\ mptr' = Start + n
    /\ UNCHANGED <<pt, parted, alive>>

\* Where the search begins, and the page table and the counts then: a page
\* that was in use is left, its reference dropped.
Left == IF Partial THEN Drop(PageOf(Start)) ELSE [pt |-> pt, ref |-> ref]
ScanFrom == IF Partial THEN (PageOf(Start) + 1) % NPages ELSE PageOf(Start)

\* That free() is called with an address outside the heap.
MallocAsserts(n) ==
    /\ n < MaxMalloc /\ ~Fits(n) /\ Partial
    /\ PageOf(Start) \notin MBegin .. MEnd - 1
    /\ alive' = FALSE
    /\ UNCHANGED <<mptr, pt, ref, live, parted>>

\* The search finds p.  If the physical pages do not suffice, those that were
\* mapped are unmapped.  From mend on only a run that wraps is found, and there
\* sys_page_alloc() fails, since that is above UTOP.
MallocRun(n) ==
    /\ n < MaxMalloc /\ ~Fits(n)
    /\ Partial => PageOf(Start) \in MBegin .. MEnd - 1
    /\ LET p == Scan(Left.pt, ScanFrom, n)
           last == p + RunLength(n) - 1
           maps == p < MEnd /\ RunLength(n) <= Room(Left.pt)
       IN  \/ /\ p = NoSpace
              /\ mptr' = MBegin * PGSIZE
              /\ pt' = Left.pt /\ ref' = Left.ref
              /\ parted' = parted \cap Mapped(pt')
              /\ UNCHANGED live
           \/ /\ p # NoSpace /\ ~maps
              /\ mptr' = p * PGSIZE
              /\ pt' = Left.pt /\ ref' = Left.ref
              /\ parted' = parted \cap Mapped(pt')
              /\ UNCHANGED live
           \/ /\ p # NoSpace /\ maps
              /\ pt' = [q \in Page |-> CASE q \in p .. last - 1 -> "cont"
                                         [] q = last -> "page"
                                         [] OTHER -> Left.pt[q]]
              /\ ref' = [Left.ref EXCEPT ![last] = 2]
              /\ live' = live \cup {Numbered(p * PGSIZE, n)}
              /\ mptr' = p * PGSIZE + n
              /\ parted' = (parted \cap Mapped(Left.pt))
                              \cup IF mptr' % PGSIZE = 0 THEN {last} ELSE {}
    /\ UNCHANGED alive

\* n >= MAXMALLOC: NULL, and mptr was set.
MallocTooLarge(n) ==
    /\ n >= MaxMalloc
    /\ mptr' = Start
    /\ UNCHANGED <<pt, ref, live, parted, alive>>

malloc(size) ==
    LET n == RoundUp4(size) IN
    /\ alive /\ Cardinality(live) < MaxLive
    /\ MallocTooLarge(n) \/ MallocFits(n) \/ MallocAsserts(n) \/ MallocRun(n)

-----------------------------------------------------------------------------

HeapInit ==
    /\ mptr = 0
    /\ pt = [p \in Page |-> IF p \in Text THEN "page" ELSE "none"]
    /\ ref = [p \in Page |-> 0]
    /\ live = {} /\ parted = {}
    /\ alive = TRUE

HeapNext ==
    \/ \E n \in Sizes : malloc(n)
    \/ \E b \in live : free(b)

HeapSpec == HeapInit /\ [][HeapNext]_heapVars

-----------------------------------------------------------------------------
(* Properties.                                                             *)

HeapTypeOK ==
    /\ mptr \in 0 .. Size - 1
    /\ pt \in [Page -> {"none", "page", "cont"}]
    /\ ref \in [Page -> Nat]
    /\ \A b \in live : b.v \in 0 .. Size - 1 /\ b.n \in Nat
    /\ parted \subseteq Page
    /\ alive \in BOOLEAN

\* The bytes of a block, and of the counts.
Bytes(b) == b.v .. b.v + b.n - 1
CountBytes == UNION {(p + 1) * PGSIZE - 4 .. (p + 1) * PGSIZE - 1 :
                        p \in {q \in Mapped(pt) \ Text : pt[q] = "page"}}

\* Blocks in use do not overlap, their pages are mapped, and no count lies in
\* one of them.
BlocksSound ==
    \A b \in live :
        /\ \A a \in Bytes(b) : PageOf(a) \in Mapped(pt) \ Text /\ a \notin CountBytes
        /\ \A c \in live \ {b} : Bytes(b) \cap Bytes(c) = {}

\* The blocks that free() will take from the count of page p.
Counted(p) == {b \in live : b.v # 0 /\ CountPage(PageOf(b.v)) = p}

\* A page is mapped as long as there is a block or mptr in it: counts are exact,
\* and a run that is not in use any more is gone.  A page that mptr left
\* without free() because it was at the page's first byte stays for ever.
CountsExact ==
    alive => \A p \in MBegin .. MEnd - 1 :
        pt[p] = "page" =>
            /\ ref[p] = Cardinality(Counted(p))
                          + (IF mptr % PGSIZE # 0 /\ PageOf(mptr) = p THEN 1 ELSE 0)
                          + (IF p \in parted THEN 1 ELSE 0)
            /\ ref[p] > 0

\* The pages of a run are there until its block is freed, and no longer.
RunsExact ==
    alive => \A p \in MBegin .. MEnd - 1 :
        pt[p] = "cont" => \E b \in live : PageOf(b.v) <= p /\ p < CountPage(PageOf(b.v))

\* Both: a page of the heap is mapped exactly as long as something needs it, by
\* count or as part of a run.
PagesExact == CountsExact /\ RunsExact

\* malloc() of less than MAXMALLOC returns NULL; nowhere below mend there is a
\* free run for it; the physical pages do not suffice for it.
Fails(size) == malloc(size) /\ live' = live /\ alive' /\ RoundUp4(size) < MaxMalloc
NoRun(size) == \A p \in MBegin .. MEnd - 1 : ~isfree(pt', p, RoundUp4(size))
NoPages(size) == Room(pt') < RunLength(RoundUp4(size))

\* A search that begins below mend sees the whole heap, also what lies below
\* the page it begins at and the page that malloc() has just left: it fails only
\* for want of a run of free pages or of physical pages.  Nothing is said of a
\* search that begins at mend or past it, which FailsAsCommented includes.
SearchSeesHeap ==
    [][ScanFrom < MEnd => \A size \in Sizes : Fails(size) => NoRun(size) \/ NoPages(size)]_heapVars

\* "out of address space", "out of physical memory": the comments at the two
\* places where malloc() returns 0, of every search.  It does not hold: once
\* mptr is at mend, the search comes to the end of the address space, where
\* isfree() wraps, and malloc() fails with room in the heap.
FailsAsCommented ==
    [][\A size \in Sizes : Fails(size) => NoRun(size) \/ NoPages(size)]_heapVars

\* "The address space from mbegin to mend is scanned in order": what malloc()
\* gives out lies there.
BlocksInHeap == \A b \in live : PageOf(b.v) \in MBegin .. MEnd - 1
=============================================================================
