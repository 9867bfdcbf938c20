------------------------------ MODULE HeapFork ------------------------------
(***************************************************************************)
(* The user heap of an environment that forks.  duppage() and pgfault()    *)
(* (lab6/jos/lib/fork.c) map the pages again with PTE_P|PTE_U|PTE_COW and  *)
(* PTE_P|PTE_U|PTE_W: of the bits that are available to user programs only *)
(* PTE_SHARE survives a fork, PTE_CONTINUED does not.                      *)
(***************************************************************************)
EXTENDS Heap

\* The parent's heap after fork(); the child's is the same.  The last word of a
\* page of a run is data: one, or something else.
fork ==
    /\ alive
    /\ pt' = [p \in Page |-> IF pt[p] = "cont" THEN "page" ELSE pt[p]]
    /\ \E r \in [Page -> {1, 2}] :
          ref' = [p \in Page |-> IF pt[p] = "cont" THEN r[p] ELSE ref[p]]
    /\ UNCHANGED <<mptr, live, parted, alive>>

ForkSpec == HeapInit /\ [][HeapNext \/ fork]_heapVars

\* "the page is freed when the ref count hits zero": when no block is in use
\* there is no page left, but the one mptr is in and those it left without a
\* free().
AllReleased ==
    live = {} /\ alive =>
        \A p \in MBegin .. MEnd - 1 :
            pt[p] # "none" => p \in parted \/ (mptr % PGSIZE # 0 /\ PageOf(mptr) = p)
=============================================================================
