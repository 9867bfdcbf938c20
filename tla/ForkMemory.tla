----------------------------- MODULE ForkMemory -----------------------------
(***************************************************************************)
(* What fork() (lab6/jos/lib/fork.c) promises: environments with memory of *)
(* their own.  A child is born with the memory its parent has, what either *)
(* writes afterwards the other never sees, and one page is shared by all.  *)
(*                                                                         *)
(* The parent goes on using its stack while it forks; the child gets the   *)
(* stack as it was at some moment in between.                              *)
(***************************************************************************)
CONSTANTS Envs, Private, Stack, Values, NotBorn

VARIABLES
    vm,          \* vm[e][va]: what e sees at va, or NotBorn
    shm,         \* the shared page
    seen         \* the stacks e has had since it began to fork

vars == <<vm, shm, seen>>

\* e writes to its memory; so does a server that e asked to.
Write(e, va, v) ==
    /\ vm[e] # NotBorn
    /\ vm' = [vm EXCEPT ![e][va] = v]
    /\ seen' = IF va = Stack /\ seen[e] # {} THEN [seen EXCEPT ![e] = @ \cup {v}] ELSE seen
    /\ UNCHANGED shm

WriteShared(v) == shm' = v /\ UNCHANGED <<vm, seen>>

Begin(e) ==
    /\ vm[e] # NotBorn
    /\ seen' = [seen EXCEPT ![e] = {vm[e][Stack]}]
    /\ UNCHANGED <<vm, shm>>

Birth(e, c, v) ==
    /\ vm[e] # NotBorn /\ vm[c] = NotBorn
    /\ v \in seen[e]
    /\ vm' = [vm EXCEPT ![c] = [vm[e] EXCEPT ![Stack] = v]]
    /\ seen' = [seen EXCEPT ![e] = {}]
    /\ UNCHANGED shm

\* fork() returns an error.
Fail(e) == seen' = [seen EXCEPT ![e] = {}] /\ UNCHANGED <<vm, shm>>

Exit(e) ==
    /\ vm' = [vm EXCEPT ![e] = NotBorn]
    /\ seen' = [seen EXCEPT ![e] = {}]
    /\ UNCHANGED shm

Init ==
    /\ \E e \in Envs, m \in [Private -> Values] :
           vm = [x \in Envs |-> IF x = e THEN m ELSE NotBorn]
    /\ shm \in Values
    /\ seen = [e \in Envs |-> {}]

Next ==
    \/ \E e \in Envs, va \in Private, v \in Values : Write(e, va, v)
    \/ \E v \in Values : WriteShared(v)
    \/ \E e \in Envs : Begin(e) \/ Fail(e) \/ Exit(e)
    \/ \E e, c \in Envs, v \in Values : Birth(e, c, v)

Spec == Init /\ [][Next]_vars
=============================================================================
