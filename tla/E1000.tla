-------------------------------- MODULE E1000 -------------------------------
(***************************************************************************)
(* The driver of the E1000 (lab6/jos/kern/e1000.c) and the device, which   *)
(* share two rings of descriptors and the buffers they point to.           *)
(*                                                                         *)
(* tx_bufs is an array [E1000_PBS][E1000_NUM_TXDESC], and descriptor i     *)
(* points to &tx_bufs[i]: the buffers of neighbours are E1000_NUM_TXDESC   *)
(* bytes apart, whatever the size of a packet.  rx_bufs is alike.  Memory  *)
(* is modelled byte by byte; a byte is the packet it belongs to.           *)
(*                                                                         *)
(* The driver runs under the big kernel lock, so one call at a time; the   *)
(* device runs whenever it likes.  It is external: what it does is taken   *)
(* from the registers and status bits the driver uses.                     *)
(***************************************************************************)
EXTENDS Naturals, Sequences

CONSTANTS
    NumTx,       \* E1000_NUM_TXDESC
    NumRx,       \* E1000_NUM_RXDESC
    PBS,         \* E1000_PBS
    TxLens,      \* bound: lengths of packets to send
    RxLens,      \* bound: lengths of packets that arrive
    Data,        \* what a packet consists of: all its bytes are one element
    Zero         \* memory not written yet

ASSUME E1000Assumption ==
    /\ NumTx \in Nat \ {0} /\ NumRx \in Nat \ {0} /\ PBS \in Nat
    /\ TxLens \subseteq Nat \ {0} /\ RxLens \subseteq Nat \ {0}

VARIABLES
    tdh, tdt,    \* the registers TDH and TDT
    txd,         \* tx_desc_queue[i]: status DD and length
    txmem,       \* the bytes of tx_bufs
    rdh, rdt,    \* the registers RDH and RDT
    rxd,         \* rx_desc_queue[i]
    rxmem,       \* the bytes of rx_bufs
    drv          \* where the driver is in a call

txVars == <<tdh, tdt, txd, txmem>>
rxVars == <<rdh, rdt, rxd, rxmem>>
vars == <<txVars, rxVars, drv>>

TxDescs == 0 .. NumTx - 1
RxDescs == 0 .. NumRx - 1

TxNext(i) == (i + 1) % NumTx
RxNext(i) == (i + 1) % NumRx

\* Mutant: buffers one byte too close.
TxBufClose(i) == IF i = 0 THEN 0 ELSE i * NumTx - 1

\* &tx_bufs[i] and &rx_bufs[i], as offsets.
TxBuf(i) == i * NumTx
RxBuf(i) == i * NumRx

\* A packet in memory: its bytes.
Packet(d, n) == [k \in 0 .. n - 1 |-> d]
Copied(mem, a, p) ==
    [b \in DOMAIN mem |-> IF b - a \in DOMAIN p /\ b >= a THEN p[b - a] ELSE mem[b]]
Bytes(mem, a, n) == [k \in 0 .. n - 1 |-> mem[a + k]]

-----------------------------------------------------------------------------
(* e1000_transmit().                                                       *)

\* -E_PKT_TOO_LONG or -E_TX_FULL: nothing happens.
TxRefuse(n) ==
    /\ drv = "idle"
    /\ n > PBS \/ ~txd[tdt].dd
    /\ UNCHANGED vars

\* Mutant: the descriptor is filled whether the device is done with it or not.
TxFillAlways(d, n) ==
    /\ drv = "idle"
    /\ n <= PBS
    /\ txmem' = Copied(txmem, TxBuf(tdt), Packet(d, n))
    /\ txd' = [txd EXCEPT ![tdt] = [dd |-> FALSE, length |-> n]]
    /\ drv' = "txtail"
    /\ UNCHANGED <<tdh, tdt, rxVars>>

\* Up to the new value of TDT: the packet is copied and DD is cleared.
TxFill(d, n) ==
    /\ drv = "idle"
    /\ n <= PBS /\ txd[tdt].dd
    /\ txmem' = Copied(txmem, TxBuf(tdt), Packet(d, n))
    /\ txd' = [txd EXCEPT ![tdt] = [dd |-> FALSE, length |-> n]]
    /\ drv' = "txtail"
    /\ UNCHANGED <<tdh, tdt, rxVars>>

\* Mutant: TDT is read and written back.
TxTailNot ==
    /\ drv = "txtail"
    /\ drv' = "idle"
    /\ UNCHANGED <<tdt, tdh, txd, txmem, rxVars>>

TxTail ==
    /\ drv = "txtail"
    /\ tdt' = TxNext(tdt)
    /\ drv' = "idle"
    /\ UNCHANGED <<tdh, txd, txmem, rxVars>>

-----------------------------------------------------------------------------
(* e1000_receive().                                                        *)

\* -E_RX_EMPTY.
RxEmpty ==
    /\ drv = "idle"
    /\ ~rxd[RxNext(rdt)].dd
    /\ UNCHANGED vars

\* The packet is copied to the caller.
RxCopy ==
    /\ drv = "idle"
    /\ rxd[RxNext(rdt)].dd
    /\ drv' = "rxclear"
    /\ UNCHANGED <<txVars, rxVars>>

RxClear ==
    /\ drv = "rxclear"
    /\ rxd' = [rxd EXCEPT ![RxNext(rdt)].dd = FALSE]
    /\ drv' = "rxtail"
    /\ UNCHANGED <<rdh, rdt, rxmem, txVars>>

\* Mutant: RDT is left where it was.
RxTailNot ==
    /\ drv = "rxtail"
    /\ drv' = "idle"
    /\ UNCHANGED <<rdt, rdh, rxd, rxmem, txVars>>

\* The descriptor goes back to the device.
RxTail ==
    /\ drv = "rxtail"
    /\ rdt' = RxNext(rdt)
    /\ drv' = "idle"
    /\ UNCHANGED <<rdh, rxd, rxmem, txVars>>

-----------------------------------------------------------------------------
(* The device.  It owns the descriptors from TDH up to TDT, and from RDH   *)
(* up to RDT; it owns none if the two are equal, as in e1000_attach().     *)

DevSend ==
    /\ tdh # tdt
    /\ txd' = [txd EXCEPT ![tdh].dd = TRUE]
    /\ tdh' = TxNext(tdh)
    /\ UNCHANGED <<tdt, txmem, rxVars, drv>>

\* Without a descriptor the packet is lost.
DevReceive(d, n) ==
    /\ rdh # rdt
    /\ rxmem' = Copied(rxmem, RxBuf(rdh), Packet(d, n))
    /\ rxd' = [rxd EXCEPT ![rdh] = [dd |-> TRUE, length |-> n]]
    /\ rdh' = RxNext(rdh)
    /\ UNCHANGED <<rdt, txVars, drv>>

-----------------------------------------------------------------------------

\* As much of tx_bufs and rx_bufs as packets of the lengths in question reach.
BytesOf(buf, lens) == UNION {buf .. buf + n - 1 : n \in lens}
TxBytes == UNION {BytesOf(TxBuf(i), {n \in TxLens : n <= PBS}) : i \in TxDescs}
RxBytes == UNION {BytesOf(RxBuf(i), RxLens) : i \in RxDescs}

\* e1000_attach().
Init ==
    /\ tdh = 0 /\ tdt = 0
    /\ txd = [i \in TxDescs |-> [dd |-> TRUE, length |-> 0]]
    /\ rdh = 0 /\ rdt = NumRx - 1
    /\ rxd = [i \in RxDescs |-> [dd |-> FALSE, length |-> 0]]
    /\ txmem = [b \in TxBytes |-> Zero]
    /\ rxmem = [b \in RxBytes |-> Zero]
    /\ drv = "idle"

Transmit == TxTail \/ \E d \in Data, n \in TxLens : TxRefuse(n) \/ TxFill(d, n)

Receive == RxEmpty \/ RxCopy \/ RxClear \/ RxTail

Device == DevSend \/ \E d \in Data, n \in RxLens : DevReceive(d, n)

Next == Transmit \/ Receive \/ Device

Spec == Init /\ [][Next]_vars

\* The device works as long as it has something to send, a call that was
\* started ends.
FairSpec == Spec /\ WF_vars(DevSend) /\ WF_vars(TxTail \/ RxClear \/ RxTail)

-----------------------------------------------------------------------------
(* Properties.                                                             *)

Desc(n) == [dd : BOOLEAN, length : n]

TypeOK ==
    /\ tdh \in TxDescs /\ tdt \in TxDescs
    /\ txd \in [TxDescs -> Desc(TxLens \cup {0})]
    /\ txmem \in [TxBytes -> Data \cup {Zero}]
    /\ rdh \in RxDescs /\ rdt \in RxDescs
    /\ rxd \in [RxDescs -> Desc(RxLens \cup {0})]
    /\ rxmem \in [RxBytes -> Data \cup {Zero}]
    /\ drv \in {"idle", "txtail", "rxclear", "rxtail"}

\* The number of descriptors from i up to j on a ring of n.
Distance(i, j, n) == (j + n - i) % n

\* Every descriptor is filled and the device, for which TDH = TDT is an empty
\* ring, will not look at them.
Stalled == tdh = tdt /\ drv # "txtail" /\ \A i \in TxDescs : ~txd[i].dd

\* The driver's view of the transmit ring, which is the DD bits, and the
\* device's, which is TDH and TDT, are the same, unless the ring was filled
\* completely: a descriptor is refilled only after the device has sent it.
TxAgree ==
    \/ Stalled
    \/ \A i \in TxDescs :
          ~txd[i].dd <=> \/ Distance(tdh, i, NumTx) < Distance(tdh, tdt, NumTx)
                         \/ drv = "txtail" /\ i = tdt

\* The same for the receive ring: the driver, which looks at one descriptor
\* only, finds a packet there whenever the device has delivered one that was
\* not yet taken.
RxAgree ==
    \A i \in RxDescs :
        rxd[i].dd <=> /\ Distance(RxNext(rdt), i, NumRx) < Distance(RxNext(rdt), rdh, NumRx)
                      /\ ~(drv = "rxtail" /\ i = RxNext(rdt))

\* The packets in the two rings, oldest first.  One that is copied to the caller
\* is taken.
TxShown == IF Stalled THEN NumTx ELSE Distance(tdh, tdt, NumTx)
TxCount == IF drv = "txtail" THEN TxShown + 1 ELSE TxShown
TxPlace(k) == (tdh + (k - 1)) % NumTx

Taken == drv \in {"rxclear", "rxtail"}
RxCount == Distance(RxNext(rdt), rdh, NumRx) - IF Taken THEN 1 ELSE 0
RxFirst == IF Taken THEN RxNext(RxNext(rdt)) ELSE RxNext(rdt)
RxPlace(k) == (RxFirst + (k - 1)) % NumRx

InTx(i) == Bytes(txmem, TxBuf(i), txd[i].length)
InRx(i) == Bytes(rxmem, RxBuf(i), rxd[i].length)
txq == [k \in 1 .. TxCount |-> InTx(TxPlace(k))]
rxq == [k \in 1 .. RxCount |-> InRx(RxPlace(k))]

\* Packets pass through the rings as they are, in order and once, as long as
\* they are no longer than the distance of two buffers.
Link == INSTANCE NetLink WITH
    Packets <- UNION {{Packet(d, n) : d \in Data} : n \in TxLens \cup RxLens},
    TxMax <- NumTx, RxMax <- NumRx - 1
ImplementsNetLink == Link!Spec

\* What a descriptor says of its packet: the length.
txlens == [k \in 1 .. TxCount |-> txd[TxPlace(k)].length]
rxlens == [k \in 1 .. RxCount |-> rxd[RxPlace(k)].length]

\* Packets of any length pass in order and once, each with its length, whatever
\* becomes of their bytes when they are longer than the distance of two buffers.
Order == INSTANCE NetLink WITH
    Packets <- TxLens \cup RxLens, TxMax <- NumTx, RxMax <- NumRx - 1,
    txq <- txlens, rxq <- rxlens
PassesInOrder == Order!Spec

\* "Receive Buffer Size, 2048 bytes": a packet that fits into a buffer is
\* still whole when the driver copies it to the caller.
ReceivedIsWhole ==
    \A k \in DOMAIN rxq : \E d \in Data : \A b \in DOMAIN rxq[k] : rxq[k][b] = d

\* A packet that was accepted is sent, unless the ring was filled completely.
AcceptedIsSent == \A i \in TxDescs : ~txd[i].dd ~> txd[i].dd \/ Stalled

\* "transmission ring is full" is a state that passes.
FullPasses == \A i \in TxDescs : ~txd[i].dd ~> txd[i].dd
=============================================================================
