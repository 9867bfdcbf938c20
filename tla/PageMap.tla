------------------------------- MODULE PageMap ------------------------------
(***************************************************************************)
(* Physical pages and page tables (lab6/jos/kern/pmap.c), driven by the    *)
(* page system calls, IPC page transfer, environment creation and release. *)
(* Every operation runs to its end under the big kernel lock.              *)
(*                                                                         *)
(* A reference to a physical page sits in a slot: the env_pgdir field of   *)
(* an environment, an entry of its page directory, or an entry of one of   *)
(* its page tables.  at[s] is the page slot s refers to.                   *)
(***************************************************************************)
EXTENDS Integers, FiniteSets

CONSTANTS
    Envs,      \* slots of envs[]
    NVA,       \* user virtual pages, numbered 0 .. NVA - 1
    NPT,       \* virtual pages covered by one page table
    Pages,     \* physical pages
    KernPage,  \* the physical page of envs[], mapped read-only at UENVS
    NoPage     \* no page: a null entry or a NULL struct PageInfo *

ASSUME PageMapAssumption ==
    /\ NVA \in Nat \ {0}
    /\ NPT \in Nat \ {0}
    /\ KernPage \in Pages
    /\ NoPage \notin Pages
    /\ IsFiniteSet(Pages)
    /\ IsFiniteSet(Envs)
    /\ KernPage \notin Envs

VARIABLES
    at,         \* at[s]: the page that reference slot s holds
    pp_ref,     \* pages[i].pp_ref
    free,       \* the pages on page_free_list
    written,    \* pages whose contents are not all zeros
    leaked,     \* pages that no list and no reference holds any more
    panicked    \* the kernel stopped in panic()

vars == <<at, pp_ref, free, written, leaked, panicked>>

VAs == 0 .. NVA - 1
Tables == 0 .. (NVA - 1) \div NPT
PDX(va) == va \div NPT

Dir(e) == <<e, "dir", 0>>
Table(e, va) == <<e, "table", PDX(va)>>
Entry(e, va) == <<e, "entry", va>>
UENVS == <<KernPage, "kern", 0>>   \* entry for UTOP, shared by all pgdirs

Slots ==
    {UENVS}
        \cup (Envs \X {"dir"} \X {0})
        \cup (Envs \X {"table"} \X Tables)
        \cup (Envs \X {"entry"} \X VAs)

SlotsOf(e) == {s \in Slots : s[1] = e}
References(p) == {s \in Slots : at[s] = p}

Live(e) == at[Dir(e)] # NoPage

-----------------------------------------------------------------------------
(* page_alloc(), page_decref() and page_remove() on the state a (slots), r *)
(* (reference counts) and f (free pages).                                  *)

Incref(r, p) == [r EXCEPT ![p] = @ + 1]
Decref(r, p) == [r EXCEPT ![p] = @ - 1]

FreeAtOnce(r, f, p) == f \cup {p}

FreeIfUnused(r, f, p) == IF r[p] = 0 THEN f \cup {p} ELSE f

\* page_remove() of the page in slot s.
Remove(a, r, f, s) ==
    IF a[s] = NoPage
    THEN at' = a /\ pp_ref' = r /\ free' = f
    ELSE /\ at' = [a EXCEPT ![s] = NoPage]
         /\ pp_ref' = Decref(r, a[s])
         /\ free' = FreeIfUnused(Decref(r, a[s]), f, a[s])

PutForgetOld(a, r, f, s, p) ==
    at' = [a EXCEPT ![s] = p] /\ pp_ref' = Incref(r, p) /\ free' = f

\* The end of page_insert().  The count of p is raised before the old page
\* goes, so that inserting the page that is already there does not free it.
Put(a, r, f, s, p) ==
    LET up == Incref(r, p)
        old == a[s]
    IN  /\ at' = [a EXCEPT ![s] = p]
        /\ IF old = NoPage
           THEN pp_ref' = up /\ free' = f
           ELSE /\ pp_ref' = Decref(up, old)
                /\ free' = FreeIfUnused(Decref(up, old), f, old)

\* page_insert() of p at va, with f the free pages and w the written ones:
\* pgdir_walk() allocates and clears the page table if it is missing.
PageInsertKeepTable(e, va, p, f, w) ==
    \/ /\ at[Table(e, va)] # NoPage
       /\ Put(at, pp_ref, f, Entry(e, va), p)
       /\ written' = w
    \/ /\ at[Table(e, va)] = NoPage
       /\ \E t \in f :
             /\ Put([at EXCEPT ![Table(e, va)] = t], Incref(pp_ref, t),
                    f, Entry(e, va), p)
             /\ written' = w \ {t}

PageInsert(e, va, p, f, w) ==
    \/ /\ at[Table(e, va)] # NoPage
       /\ Put(at, pp_ref, f, Entry(e, va), p)
       /\ written' = w
    \/ /\ at[Table(e, va)] = NoPage
       /\ \E t \in f :
             /\ Put([at EXCEPT ![Table(e, va)] = t], Incref(pp_ref, t),
                    f \ {t}, Entry(e, va), p)
             /\ written' = w \ {t}

-----------------------------------------------------------------------------

\* env_setup_vm() for a new environment.
env_setup_vm(e) ==
    /\ ~Live(e)
    /\ \E p \in free :
          /\ at' = [at EXCEPT ![Dir(e)] = p]
          /\ pp_ref' = Incref(pp_ref, p)
          /\ free' = free \ {p}
          /\ written' = written \ {p}
    /\ UNCHANGED <<leaked, panicked>>

PageAllocNoClear(e, va) ==
    /\ Live(e)
    /\ \E p \in free : PageInsert(e, va, p, free \ {p}, written)
    /\ UNCHANGED <<leaked, panicked>>

\* page_alloc(ALLOC_ZERO) and page_insert() both succeed.
sys_page_alloc(e, va) ==
    /\ Live(e)
    /\ \E p \in free : PageInsert(e, va, p, free \ {p}, written \ {p})
    /\ UNCHANGED <<leaked, panicked>>

\* page_insert() fails for want of a page table and the page just taken by
\* page_alloc() is forgotten.
PageAllocLeak(e, va) ==
    /\ Live(e)
    /\ at[Table(e, va)] = NoPage
    /\ \E p \in free :
          /\ free = {p}
          /\ leaked' = leaked \cup {p}
          /\ written' = written \ {p}
    /\ free' = {}
    /\ UNCHANGED <<at, pp_ref, panicked>>

\* page_alloc() returned NULL, and page_insert() raises the count of NULL:
\* a page fault in the kernel, on which trap() panics.
PageAllocNull(e, va) ==
    /\ Live(e)
    /\ free = {}
    /\ at[Table(e, va)] # NoPage
    /\ panicked' = TRUE
    /\ UNCHANGED <<at, pp_ref, free, written, leaked>>

\* sys_page_map(), and sys_ipc_try_send() of a page to a receiver that
\* passed a dstva < UTOP.  Without a page for the table nothing changes.
sys_page_map(e, va, d, dva) ==
    /\ Live(e) /\ Live(d)
    /\ at[Entry(e, va)] # NoPage
    /\ PageInsert(d, dva, at[Entry(e, va)], free, written)
    /\ UNCHANGED <<leaked, panicked>>

\* sys_ipc_try_send() of a page to a receiver that wants none.  ipc_recv()
\* passes UTOP for it, and the page is inserted there: the first entry of
\* UENVS, in a page table that all page directories share.
SendUnwanted(e, va, d) ==
    /\ Live(e) /\ Live(d) /\ e # d
    /\ at[Entry(e, va)] # NoPage
    /\ Put(at, pp_ref, free, UENVS, at[Entry(e, va)])
    /\ UNCHANGED <<written, leaked, panicked>>

sys_page_unmap(e, va) ==
    /\ Live(e)
    /\ Remove(at, pp_ref, free, Entry(e, va))
    /\ UNCHANGED <<written, leaked, panicked>>

\* env_free(): every entry, every page table and the page directory go.
Held(e, p) == Cardinality({s \in SlotsOf(e) : at[s] = p})

EnvFreeKeepTables(e) ==
    LET gone == {s \in SlotsOf(e) : s[2] # "table"}
        held(p) == Cardinality({s \in gone : at[s] = p})
    IN  /\ Live(e)
        /\ at' = [s \in Slots |-> IF s \in gone THEN NoPage ELSE at[s]]
        /\ pp_ref' = [p \in Pages |-> pp_ref[p] - held(p)]
        /\ free' = free \cup {p \in Pages : held(p) > 0 /\ pp_ref[p] = held(p)}
        /\ UNCHANGED <<written, leaked, panicked>>

env_free(e) ==
    /\ Live(e)
    /\ at' = [s \in Slots |-> IF s \in SlotsOf(e) THEN NoPage ELSE at[s]]
    /\ pp_ref' = [p \in Pages |-> pp_ref[p] - Held(e, p)]
    /\ free' = free \cup {p \in Pages : Held(e, p) > 0 /\ pp_ref[p] = Held(e, p)}
    /\ UNCHANGED <<written, leaked, panicked>>

\* A store by the environment itself.
Store(e, va) ==
    /\ at[Entry(e, va)] # NoPage
    /\ written' = written \cup {at[Entry(e, va)]}
    /\ UNCHANGED <<at, pp_ref, free, leaked, panicked>>

-----------------------------------------------------------------------------

Init ==
    /\ at = [s \in Slots |-> IF s = UENVS THEN KernPage ELSE NoPage]
    /\ pp_ref = [p \in Pages |-> IF p = KernPage THEN 1 ELSE 0]
    /\ free = Pages \ {KernPage}
    /\ written = Pages
    /\ leaked = {}
    /\ panicked = FALSE

Step ==
    \E e \in Envs :
        \/ env_setup_vm(e)
        \/ env_free(e)
        \/ \E va \in VAs :
              \/ sys_page_alloc(e, va)
              \/ PageAllocLeak(e, va)
              \/ PageAllocNull(e, va)
              \/ sys_page_unmap(e, va)
              \/ Store(e, va)
              \/ \E d \in Envs : SendUnwanted(e, va, d)
              \/ \E d \in Envs, dva \in VAs : sys_page_map(e, va, d, dva)

Halted == panicked /\ UNCHANGED vars

Next == (~panicked /\ Step) \/ Halted

Spec == Init /\ [][Next]_vars

-----------------------------------------------------------------------------

(* Properties.                                                             *)

TypeOK ==
    /\ at \in [Slots -> Pages \cup {NoPage}]
    /\ pp_ref \in [Pages -> Nat]
    /\ free \subseteq Pages
    /\ written \subseteq Pages
    /\ leaked \subseteq Pages
    /\ panicked \in BOOLEAN

\* pp_ref counts the references to a page exactly, through remapping, sharing
\* and the release of whole address spaces.
RefExact == \A p \in Pages : pp_ref[p] = Cardinality(References(p))

\* The free list holds unreferenced pages only, an unreferenced page is on it
\* unless sys_page_alloc() lost it, and what was lost never comes back.
FreeExact ==
    /\ \A p \in Pages : pp_ref[p] = 0 <=> p \in free \cup leaked
    /\ free \cap leaked = {}

\* A page that serves as page directory or page table serves for nothing
\* else: no environment can write it.
OneRole ==
    \A s, q \in Slots :
        s # q /\ at[s] = at[q] /\ at[s] # NoPage
            => s[2] \in {"entry", "kern"} /\ q[2] \in {"entry", "kern"}

\* pgdir_walk() can follow every entry: tables hang under a directory and
\* mapped entries under a table.
Walkable ==
    \A e \in Envs, va \in VAs :
        /\ at[Entry(e, va)] # NoPage => at[Table(e, va)] # NoPage
        /\ at[Table(e, va)] # NoPage => at[Dir(e)] # NoPage

\* The kernel's own page stays mapped at UENVS and is never given away.
KernelKept == at[UENVS] = KernPage /\ KernPage \notin free

\* sys_page_alloc() reports -E_NO_MEM and does not stop the kernel.
NoPanic == ~panicked

\* The detailed page tables implement plain address spaces: in particular
\* sys_page_alloc() never hands out a page that somebody still sees, nor one
\* that still holds what its last user wrote, and what one environment unmaps
\* or frees stays as it is for the others.
Seen(p) == <<p, IF p \in written THEN "data" ELSE "zeros">>

Abstract ==
    INSTANCE AddressSpace
    WITH sees <- [e \in Envs |-> [va \in VAs |-> Seen(at[Entry(e, va)])]]

ImplementsAddressSpace == Abstract!Spec
=============================================================================
