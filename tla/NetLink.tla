------------------------------- MODULE NetLink ------------------------------
(***************************************************************************)
(* What the network driver (lab6/jos/kern/e1000.c) promises to the system  *)
(* calls: two queues.  A packet that was accepted leaves on the wire as it *)
(* is, in its turn and once; packets that arrived are handed over as they  *)
(* are, in order and once.  What does not fit is dropped whole.            *)
(***************************************************************************)
EXTENDS Sequences, Naturals

CONSTANTS Packets, TxMax, RxMax

VARIABLES txq, rxq

Init == txq = <<>> /\ rxq = <<>>

\* sys_net_transmit() accepts p.
Send(p) == Len(txq) < TxMax /\ txq' = Append(txq, p) /\ UNCHANGED rxq

\* The oldest accepted packet is on the wire.
Sent == txq # <<>> /\ txq' = Tail(txq) /\ UNCHANGED rxq

\* A packet comes from the wire.
Arrive(p) == Len(rxq) < RxMax /\ rxq' = Append(rxq, p) /\ UNCHANGED txq

\* sys_net_recv() returns the oldest one.
Received == rxq # <<>> /\ rxq' = Tail(rxq) /\ UNCHANGED txq

Next == (\E p \in Packets : Send(p) \/ Arrive(p)) \/ Sent \/ Received

Spec == Init /\ [][Next]_<<txq, rxq>>
=============================================================================
