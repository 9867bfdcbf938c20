------------------------------ MODULE MCCowFork -----------------------------
(* CowFork for TLC: states that differ in the numbers of frames only are    *)
(* one state.                                                              *)
EXTENDS CowFork

\* A frame is what it contains and who refers to it.
Anonymous(va, f) ==
    [mapped |-> {e \in Envs : pt[e][va].f = f},
     temp   |-> {e \in Envs : flt[e].va = va /\ flt[e].tmp = f},
     lent   |-> va = "buf" /\ srv.f = f,
     data   |-> mem[va][f]]

FrameView ==
    <<st, upcall, fk, srv.client, srv.pc,
      [e \in Envs |-> <<flt[e].va, flt[e].pc>>],
      [e \in Envs |-> [va \in VA |-> pt[e][va].perm]],
      [va \in VA |-> {Anonymous(va, f) : f \in UsedFrames(va) \ {0}}]>>
=============================================================================
