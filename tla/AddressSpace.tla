---------------------------- MODULE AddressSpace ----------------------------
(***************************************************************************)
(* What kern/pmap.c and the page system calls promise to environments: a   *)
(* fresh page is a page that nobody sees and that reads as zeros, a page   *)
(* becomes visible elsewhere by an explicit mapping only, and what an      *)
(* environment sees changes by a store through one of the mappings of the  *)
(* page or by an operation on that very virtual page.                      *)
(***************************************************************************)
CONSTANTS Envs, VAs, Pages, NoPage

\* sees[e][va]: the page mapped there, if any, and its contents: zeros until
\* somebody has written to it since it was allocated, data from then on.
VARIABLE sees

Nothing == <<NoPage, "zeros">>

Init == sees = [e \in Envs |-> [va \in VAs |-> Nothing]]

Unseen(p) == \A e \in Envs, va \in VAs : sees[e][va][1] # p

\* sys_page_alloc(): a page nobody sees appears at va, cleared.
Fresh(e, va) ==
    \E p \in Pages :
        /\ Unseen(p)
        /\ sees' = [sees EXCEPT ![e][va] = <<p, "zeros">>]

\* sys_page_map() and the page transfer of an IPC: what e has at va becomes
\* visible at dva of d too.
Share(e, va, d, dva) ==
    /\ sees[e][va] # Nothing
    /\ sees' = [sees EXCEPT ![d][dva] = sees[e][va]]

\* sys_page_unmap().
Drop(e, va) == sees' = [sees EXCEPT ![e][va] = Nothing]

\* env_free(): the whole user part of the address space goes.
DropAll(e) == sees' = [sees EXCEPT ![e] = [va \in VAs |-> Nothing]]

\* A store by e: every environment that maps the page sees it.
Store(e, va) ==
    /\ sees[e][va] # Nothing
    /\ sees' =
          [d \in Envs |->
              [w \in VAs |->
                  IF sees[d][w][1] = sees[e][va][1]
                  THEN <<sees[d][w][1], "data">>
                  ELSE sees[d][w]]]

Next ==
    \E e \in Envs :
        \/ DropAll(e)
        \/ \E va \in VAs :
              \/ Fresh(e, va)
              \/ Drop(e, va)
              \/ Store(e, va)
              \/ \E d \in Envs, dva \in VAs : Share(e, va, d, dva)

Spec == Init /\ [][Next]_sees
=============================================================================
