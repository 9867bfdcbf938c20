------------------------------ MODULE E1000Proofs ---------------------------
(***************************************************************************)
(* Proofs about E1000 (lab6/jos/kern/e1000.c), for rings of any size and   *)
(* packets of any length: the driver and the device agree on both rings,   *)
(* and of the order, the number and the lengths of packets the rings are   *)
(* the two queues of NetLink.                                              *)
(***************************************************************************)
EXTENDS E1000, SequenceTheorems, TLAPS

-----------------------------------------------------------------------------
(* Positions on a ring.                                                    *)

LEMMA ModBelow == ASSUME NEW n \in Nat \ {0}, NEW x \in Nat, x < n PROVE x % n = x
BY SMT

LEMMA ModBeyond ==
    ASSUME NEW n \in Nat \ {0}, NEW x \in Nat, n <= x, x < 2 * n
    PROVE  x % n = x - n
BY SMT

LEMMA RingNext ==
    ASSUME NEW n \in Nat \ {0}, NEW i \in 0 .. n - 1
    PROVE  (i + 1) % n = IF i = n - 1 THEN 0 ELSE i + 1
<1>1. CASE i = n - 1
  <2>1. n % n = n - n BY ModBeyond
  <2> QED BY <1>1, <2>1
<1>2. CASE i # n - 1
  <2>1. PICK x \in Nat : x = i + 1 OBVIOUS
  <2>2. x % n = x BY <1>2, <2>1, ModBelow
  <2> QED BY <1>2, <2>1, <2>2
<1> QED BY <1>1, <1>2

LEMMA RingDistance ==
    ASSUME NEW n \in Nat \ {0}, NEW i \in 0 .. n - 1, NEW j \in 0 .. n - 1
    PROVE  Distance(i, j, n) = IF i <= j THEN j - i ELSE j + n - i
<1>1. CASE i <= j
  <2>1. PICK x \in Nat : x = j + n - i BY <1>1
  <2>2. n <= x /\ x < 2 * n BY <1>1, <2>1
  <2>3. x % n = x - n BY <2>2, ModBeyond
  <2> QED BY <1>1, <2>1, <2>3 DEF Distance
<1>2. CASE ~(i <= j)
  <2>1. PICK x \in Nat : x = j + n - i BY <1>2
  <2>2. x % n = x BY <1>2, <2>1, ModBelow
  <2> QED BY <1>2, <2>1, <2>2 DEF Distance
<1> QED BY <1>1, <1>2

\* What moving one end of a stretch of the ring by one descriptor does to its
\* length.
LEMMA RingStep ==
    ASSUME NEW n \in Nat \ {0}, NEW i \in 0 .. n - 1, NEW j \in 0 .. n - 1
    PROVE  LET next(k) == (k + 1) % n IN
           /\ Distance(i, j, n) \in 0 .. n - 1
           /\ Distance(i, i, n) = 0
           /\ Distance(i, j, n) = 0 => i = j
           /\ next(j) \in 0 .. n - 1
           /\ next(j) = i => Distance(i, j, n) = n - 1
           /\ next(j) # i => Distance(i, next(j), n) = Distance(i, j, n) + 1
           /\ i # j => Distance(next(i), j, n) = Distance(i, j, n) - 1
           /\ Distance(next(i), i, n) = n - 1
<1> DEFINE ni == (i + 1) % n
           nj == (j + 1) % n
<1>1. ni = IF i = n - 1 THEN 0 ELSE i + 1 BY RingNext
<1>2. nj = IF j = n - 1 THEN 0 ELSE j + 1 BY RingNext
<1> HIDE DEF ni, nj
<1>3. ni \in 0 .. n - 1 /\ nj \in 0 .. n - 1 BY <1>1, <1>2
<1>4. Distance(i, j, n) = IF i <= j THEN j - i ELSE j + n - i BY RingDistance
<1>5. Distance(i, i, n) = 0 BY RingDistance
<1>6. Distance(i, nj, n) = IF i <= nj THEN nj - i ELSE nj + n - i BY <1>3, RingDistance
<1>7. Distance(ni, j, n) = IF ni <= j THEN j - ni ELSE j + n - ni BY <1>3, RingDistance
<1>8. Distance(ni, i, n) = IF ni <= i THEN i - ni ELSE i + n - ni BY <1>3, RingDistance
<1>9. /\ Distance(i, j, n) \in 0 .. n - 1
      /\ Distance(i, j, n) = 0 => i = j
      /\ nj = i => Distance(i, j, n) = n - 1
      /\ nj # i => Distance(i, nj, n) = Distance(i, j, n) + 1
      /\ i # j => Distance(ni, j, n) = Distance(i, j, n) - 1
      /\ Distance(ni, i, n) = n - 1
  BY <1>1, <1>2, <1>4, <1>6, <1>7, <1>8
<1> QED BY <1>3, <1>5, <1>9 DEF ni, nj

\* Descriptors as far from a third are the same.
LEMMA RingInjective ==
    ASSUME NEW n \in Nat \ {0}, NEW i \in 0 .. n - 1, NEW j \in 0 .. n - 1,
           NEW k \in 0 .. n - 1, Distance(i, j, n) = Distance(i, k, n)
    PROVE  j = k
<1>1. Distance(i, j, n) = IF i <= j THEN j - i ELSE j + n - i BY RingDistance
<1>2. Distance(i, k, n) = IF i <= k THEN k - i ELSE k + n - i BY RingDistance
<1>3. (IF i <= j THEN j - i ELSE j + n - i) = (IF i <= k THEN k - i ELSE k + n - i)
  BY <1>1, <1>2
<1> QED BY <1>3

\* Away from the end of a stretch that grows by one descriptor.
LEMMA Grown ==
    ASSUME NEW x \in Nat, NEW y \in Nat
    PROVE  x < y + 1 <=> x < y \/ x = y
OBVIOUS

TxAway(i, j) == Distance(i, j, NumTx)
RxAway(i, j) == Distance(i, j, NumRx)

LEMMA TxRing ==
    ASSUME NEW i \in TxDescs, NEW j \in TxDescs
    PROVE  /\ TxAway(i, j) \in 0 .. NumTx - 1 /\ NumTx \in Nat \ {0}
           /\ TxAway(i, i) = 0
           /\ TxAway(i, j) = 0 => i = j
           /\ TxNext(j) \in TxDescs
           /\ TxNext(j) = i => TxAway(i, j) = NumTx - 1
           /\ TxNext(j) # i => TxAway(i, TxNext(j)) = TxAway(i, j) + 1
           /\ i # j => TxAway(TxNext(i), j) = TxAway(i, j) - 1
           /\ TxAway(TxNext(i), i) = NumTx - 1
           /\ \A k \in TxDescs : TxAway(i, j) = TxAway(i, k) => j = k
BY E1000Assumption, RingStep, RingInjective DEF TxDescs, TxNext, TxAway

LEMMA RxRing ==
    ASSUME NEW i \in RxDescs, NEW j \in RxDescs
    PROVE  /\ RxAway(i, j) \in 0 .. NumRx - 1 /\ NumRx \in Nat \ {0}
           /\ RxAway(i, i) = 0
           /\ RxAway(i, j) = 0 => i = j
           /\ RxNext(j) \in RxDescs
           /\ RxNext(j) = i => RxAway(i, j) = NumRx - 1
           /\ RxNext(j) # i => RxAway(i, RxNext(j)) = RxAway(i, j) + 1
           /\ i # j => RxAway(RxNext(i), j) = RxAway(i, j) - 1
           /\ RxAway(RxNext(i), i) = NumRx - 1
           /\ \A k \in RxDescs : RxAway(i, j) = RxAway(i, k) => j = k
BY E1000Assumption, RingStep, RingInjective DEF RxDescs, RxNext, RxAway

-----------------------------------------------------------------------------
(* The invariant.                                                          *)

\* While e1000_receive() has a descriptor it was delivered and not yet taken.
Taking ==
    /\ drv = "rxclear" => rxd[RxNext(rdt)].dd
    /\ drv = "rxtail" => rdh # RxNext(rdt)

IInv == TypeOK /\ TxAgree /\ RxAgree /\ Taking

\* The bytes of a packet replace others of the same memory.
LEMMA CopiedType ==
    ASSUME NEW B, B \subseteq Nat, NEW mem \in [B -> Data \cup {Zero}], NEW a \in Nat,
           NEW n \in Nat, NEW d \in Data
    PROVE  Copied(mem, a, Packet(d, n)) \in [B -> Data \cup {Zero}]
<1>1. \A b \in B : b - a \in 0 .. n - 1 => Packet(d, n)[b - a] = d
  BY DEF Packet
<1>2. DOMAIN Packet(d, n) = 0 .. n - 1 BY DEF Packet
<1>3. DOMAIN mem = B OBVIOUS
<1> QED BY <1>1, <1>2, <1>3 DEF Copied

LEMMA Buffers ==
    /\ TxBytes \subseteq Nat /\ RxBytes \subseteq Nat
    /\ \A i \in TxDescs : TxBuf(i) \in Nat
    /\ \A i \in RxDescs : RxBuf(i) \in Nat
<1>1. \A i \in TxDescs : TxBuf(i) \in Nat BY E1000Assumption DEF TxDescs, TxBuf
<1>2. \A i \in RxDescs : RxBuf(i) \in Nat BY E1000Assumption DEF RxDescs, RxBuf
<1>3. TxBytes \subseteq Nat
  <2> SUFFICES ASSUME NEW b \in TxBytes PROVE b \in Nat OBVIOUS
  <2>1. PICK i \in TxDescs, n \in TxLens : b \in TxBuf(i) .. TxBuf(i) + n - 1
    BY DEF TxBytes, BytesOf
  <2> QED BY <1>1, <2>1, E1000Assumption
<1>4. RxBytes \subseteq Nat
  <2> SUFFICES ASSUME NEW b \in RxBytes PROVE b \in Nat OBVIOUS
  <2>1. PICK i \in RxDescs, n \in RxLens : b \in RxBuf(i) .. RxBuf(i) + n - 1
    BY DEF RxBytes, BytesOf
  <2> QED BY <1>2, <2>1, E1000Assumption
<1> QED BY <1>1, <1>2, <1>3, <1>4

LEMMA InitIInv == Init => IInv
<1> SUFFICES ASSUME Init PROVE IInv OBVIOUS
<1>1. TypeOK BY E1000Assumption DEF Init, TypeOK, Desc, TxDescs, RxDescs
<1>2. TxAgree
  <2>1. tdh \in TxDescs /\ tdt = tdh /\ drv = "idle" /\ \A i \in TxDescs : txd[i].dd
    BY E1000Assumption DEF Init, TxDescs
  <2>2. TxAway(tdh, tdt) = 0 /\ \A i \in TxDescs : TxAway(tdh, i) \in Nat
    BY <2>1, TxRing
  <2>3. \A i \in TxDescs : ~(TxAway(tdh, i) < TxAway(tdh, tdt))
    BY <2>2
  <2> QED BY <2>1, <2>3 DEF TxAgree, TxAway
<1>3. RxAgree
  <2>1. /\ rdh = 0 /\ rdt = NumRx - 1 /\ rdh \in RxDescs /\ drv = "idle"
        /\ \A i \in RxDescs : ~rxd[i].dd
    BY E1000Assumption DEF Init, RxDescs
  <2>2. RxNext(rdt) = rdh BY <2>1, RingNext, E1000Assumption DEF RxNext
  <2>3. RxAway(rdh, rdh) = 0 /\ \A i \in RxDescs : RxAway(rdh, i) \in Nat
    BY <2>1, RxRing
  <2>4. \A i \in RxDescs : ~(RxAway(rdh, i) < RxAway(rdh, rdh))
    BY <2>3
  <2> QED BY <2>1, <2>2, <2>4 DEF RxAgree, RxAway
<1> QED BY <1>1, <1>2, <1>3 DEF IInv, Taking, Init

-----------------------------------------------------------------------------
(* The transmit ring.                                                      *)

LEMMA TxFillKeeps ==
    ASSUME IInv, NEW d \in Data, NEW n \in TxLens, TxFill(d, n)
    PROVE  IInv'
<1>1. TypeOK'
  <2>1. txmem' \in [TxBytes -> Data \cup {Zero}]
    BY CopiedType, Buffers, E1000Assumption DEF IInv, TypeOK, TxFill
  <2> QED BY <2>1 DEF IInv, TypeOK, TxFill, Desc, rxVars
<1>2. TxAgree'
  <2>1. \A i \in TxDescs : txd'[i].dd = IF i = tdt THEN FALSE ELSE txd[i].dd
    BY DEF IInv, TypeOK, TxFill, Desc
  <2>2. ~Stalled BY DEF IInv, TypeOK, TxFill, Stalled
  <2>3. tdt \in TxDescs /\ tdh \in TxDescs /\ drv = "idle" BY DEF IInv, TypeOK, TxFill
  <2> QED BY <2>1, <2>2, <2>3, TxRing DEF IInv, TxAway, TxAgree, TxFill
<1>3. RxAgree' /\ Taking' BY DEF IInv, RxAway, RxAgree, Taking, TxFill, rxVars
<1> QED BY <1>1, <1>2, <1>3 DEF IInv

LEMMA TxTailKeeps == ASSUME IInv, TxTail PROVE IInv'
<1>1. TypeOK' BY TxRing DEF IInv, TypeOK, TxTail, rxVars
<1>2. TxAgree'
  <2>1. tdt \in TxDescs /\ tdh \in TxDescs /\ TxNext(tdt) \in TxDescs
    BY TxRing DEF IInv, TypeOK
  <2>2. \A i \in TxDescs :
            ~txd[i].dd <=> \/ TxAway(tdh, i) < TxAway(tdh, tdt)
                           \/ i = tdt
    BY DEF IInv, TxAway, TxAgree, TxTail, Stalled
  <2>3. CASE TxNext(tdt) = tdh
    <3>1. TxAway(tdh, tdt) = NumTx - 1 BY <2>1, <2>3, TxRing
    <3>2. \A i \in TxDescs : /\ TxAway(tdh, i) \in 0 .. NumTx - 1
                             /\ TxAway(tdh, i) = TxAway(tdh, tdt) => i = tdt
      BY <2>1, TxRing
    <3>3. \A i \in TxDescs : TxAway(tdh, i) < TxAway(tdh, tdt) \/ i = tdt
      <4> SUFFICES ASSUME NEW i \in TxDescs, ~(TxAway(tdh, i) < TxAway(tdh, tdt))
                   PROVE  i = tdt
        OBVIOUS
      <4>1. TxAway(tdh, i) \in 0 .. NumTx - 1 /\ ~(TxAway(tdh, i) < NumTx - 1)
        BY <3>1, <3>2
      <4>2. TxAway(tdh, i) = NumTx - 1 BY <4>1, E1000Assumption
      <4> QED BY <3>1, <3>2, <4>2
    <3>4. \A i \in TxDescs : ~txd[i].dd BY <2>2, <3>3
    <3> QED BY <2>3, <3>4 DEF TxAgree, TxTail, Stalled
  <2>4. CASE TxNext(tdt) # tdh
    <3>1. \A i \in TxDescs :
              TxAway(tdh, i) < TxAway(tdh, TxNext(tdt))
                  <=> \/ TxAway(tdh, i) < TxAway(tdh, tdt)
                      \/ i = tdt
      <4>1. TxAway(tdh, TxNext(tdt)) = TxAway(tdh, tdt) + 1 BY <2>1, <2>4, TxRing
      <4>2. \A i \in TxDescs : /\ TxAway(tdh, i) \in Nat
                               /\ TxAway(tdh, i) = TxAway(tdh, tdt) <=> i = tdt
        BY <2>1, TxRing
      <4>3. TxAway(tdh, tdt) \in Nat BY <2>1, <4>2
      <4> SUFFICES ASSUME NEW i \in TxDescs
                   PROVE  TxAway(tdh, i) < TxAway(tdh, TxNext(tdt))
                             <=> TxAway(tdh, i) < TxAway(tdh, tdt) \/ i = tdt
        OBVIOUS
      <4>4. TxAway(tdh, i) < TxAway(tdh, tdt) + 1
                <=> TxAway(tdh, i) < TxAway(tdh, tdt) \/ TxAway(tdh, i) = TxAway(tdh, tdt)
        BY <4>2, <4>3, Grown
      <4> QED BY <4>1, <4>2, <4>4
    <3> QED BY <2>2, <3>1 DEF TxAway, TxAgree, TxTail
  <2> QED BY <2>3, <2>4
<1>3. RxAgree' /\ Taking' BY DEF IInv, RxAway, RxAgree, Taking, TxTail, rxVars
<1> QED BY <1>1, <1>2, <1>3 DEF IInv

LEMMA DevSendKeeps == ASSUME IInv, DevSend PROVE IInv'
<1>1. TypeOK'
  <2>1. TxNext(tdh) \in TxDescs /\ [txd[tdh] EXCEPT !.dd = TRUE] \in Desc(TxLens \cup {0})
    <3>1. TxNext(tdh) \in TxDescs BY TxRing DEF IInv, TypeOK
    <3>2. txd[tdh] \in Desc(TxLens \cup {0}) BY DEF IInv, TypeOK
    <3> QED BY <3>1, <3>2 DEF Desc
  <2>2. txd' \in [TxDescs -> Desc(TxLens \cup {0})]
    BY <2>1 DEF IInv, TypeOK, DevSend
  <2> QED BY <2>1, <2>2 DEF IInv, TypeOK, DevSend, rxVars
<1>2. TxAgree'
  <2>1. tdt \in TxDescs /\ tdh \in TxDescs /\ TxNext(tdh) \in TxDescs /\ tdh # tdt
    BY TxRing DEF IInv, TypeOK, DevSend
  <2>2. \A i \in TxDescs : txd'[i].dd = IF i = tdh THEN TRUE ELSE txd[i].dd
    BY DEF IInv, TypeOK, DevSend, Desc
  <2>3. \A i \in TxDescs :
            ~txd[i].dd <=> \/ TxAway(tdh, i) < TxAway(tdh, tdt)
                           \/ drv = "txtail" /\ i = tdt
    BY <2>1 DEF IInv, TxAway, TxAgree, Stalled
  <2>4. \A i \in TxDescs \ {tdh} :
            TxAway(TxNext(tdh), i) < TxAway(TxNext(tdh), tdt)
                <=> TxAway(tdh, i) < TxAway(tdh, tdt)
    <3>1. \A i \in TxDescs \ {tdh} : /\ TxAway(tdh, i) \in Nat
                                     /\ TxAway(TxNext(tdh), i) = TxAway(tdh, i) - 1
      BY <2>1, TxRing
    <3>2. tdt \in TxDescs \ {tdh} BY <2>1
    <3> QED BY <3>1, <3>2
  <2>5. ~(TxAway(TxNext(tdh), tdh) < TxAway(TxNext(tdh), tdt))
    <3>1. /\ TxAway(TxNext(tdh), tdh) = NumTx - 1
          /\ TxAway(TxNext(tdh), tdt) \in 0 .. NumTx - 1
      BY <2>1, TxRing
    <3> QED BY <3>1, E1000Assumption
  <2> QED BY <2>1, <2>2, <2>3, <2>4, <2>5 DEF TxAway, TxAgree, DevSend
<1>3. RxAgree' /\ Taking' BY DEF IInv, RxAway, RxAgree, Taking, DevSend, rxVars
<1> QED BY <1>1, <1>2, <1>3 DEF IInv

-----------------------------------------------------------------------------
(* The receive ring.                                                       *)

LEMMA TxUntouched ==
    ASSUME IInv, UNCHANGED txVars, drv # "txtail", drv' # "txtail"
    PROVE  TxAgree'
BY DEF IInv, TxAway, TxAgree, Stalled, txVars

LEMMA RxCopyKeeps == ASSUME IInv, RxCopy PROVE IInv'
<1>1. TypeOK' BY DEF IInv, TypeOK, RxCopy, rxVars, txVars
<1>2. TxAgree' BY TxUntouched DEF RxCopy
<1>3. RxAgree' /\ Taking' BY DEF IInv, RxAway, RxAgree, Taking, RxCopy, rxVars
<1> QED BY <1>1, <1>2, <1>3 DEF IInv

LEMMA RxClearKeeps == ASSUME IInv, RxClear PROVE IInv'
<1>1. TypeOK' BY DEF IInv, TypeOK, RxClear, txVars, Desc
<1>2. TxAgree' BY TxUntouched DEF RxClear
<1>3. rdt \in RxDescs /\ rdh \in RxDescs /\ RxNext(rdt) \in RxDescs
  BY RxRing DEF IInv, TypeOK
<1>4. \A i \in RxDescs : rxd'[i].dd = IF i = RxNext(rdt) THEN FALSE ELSE rxd[i].dd
  BY <1>3 DEF IInv, TypeOK, RxClear, Desc
<1>5. RxAgree' BY <1>3, <1>4 DEF IInv, RxAway, RxAgree, RxClear
<1>6. Taking'
  <2>1. RxAway(RxNext(rdt), RxNext(rdt)) < RxAway(RxNext(rdt), rdh)
    BY <1>3 DEF IInv, RxAway, RxAgree, Taking, RxClear
  <2> QED BY <2>1, <1>3, RxRing DEF Taking, RxClear, RxDescs
<1> QED BY <1>1, <1>2, <1>5, <1>6 DEF IInv

LEMMA RxTailKeeps == ASSUME IInv, RxTail PROVE IInv'
<1>1. TypeOK' BY RxRing DEF IInv, TypeOK, RxTail, txVars
<1>2. TxAgree' BY TxUntouched DEF RxTail
<1>3. RxAgree'
  <2> DEFINE t == RxNext(rdt)
  <2>1. t \in RxDescs /\ rdh \in RxDescs /\ RxNext(t) \in RxDescs /\ t # rdh
    BY RxRing DEF IInv, TypeOK, Taking, RxTail
  <2>2. \A i \in RxDescs : rxd[i].dd <=>
            RxAway(t, i) < RxAway(t, rdh) /\ i # t
    BY DEF IInv, RxAway, RxAgree, RxTail
  <2>3. \A i \in RxDescs \ {t} :
            RxAway(RxNext(t), i) < RxAway(RxNext(t), rdh)
                <=> RxAway(t, i) < RxAway(t, rdh)
    <3> HIDE DEF t
    <3>1. \A i \in RxDescs \ {t} : /\ RxAway(t, i) \in Nat
                                   /\ RxAway(RxNext(t), i) = RxAway(t, i) - 1
      BY <2>1, RxRing
    <3>2. rdh \in RxDescs \ {t} BY <2>1
    <3> QED BY <3>1, <3>2
  <2>4. ~(RxAway(RxNext(t), t) < RxAway(RxNext(t), rdh))
    <3> HIDE DEF t
    <3>1. /\ RxAway(RxNext(t), t) = NumRx - 1
          /\ RxAway(RxNext(t), rdh) \in 0 .. NumRx - 1
      BY <2>1, RxRing
    <3> QED BY <3>1, E1000Assumption
  <2> QED BY <2>1, <2>2, <2>3, <2>4 DEF RxAway, RxAgree, RxTail
<1>4. Taking' BY DEF Taking, RxTail
<1> QED BY <1>1, <1>2, <1>3, <1>4 DEF IInv

LEMMA DevReceiveKeeps ==
    ASSUME IInv, NEW d \in Data, NEW n \in RxLens, DevReceive(d, n)
    PROVE  IInv'
<1>1. TypeOK'
  <2>1. rxmem' \in [RxBytes -> Data \cup {Zero}]
    BY CopiedType, Buffers, E1000Assumption DEF IInv, TypeOK, DevReceive
  <2> QED BY <2>1, RxRing DEF IInv, TypeOK, DevReceive, Desc, txVars
<1>2. TxAgree' BY DEF IInv, TxAway, TxAgree, Stalled, DevReceive, txVars
<1> DEFINE t == RxNext(rdt)
<1>3. /\ t \in RxDescs /\ rdh \in RxDescs /\ RxNext(rdh) \in RxDescs
      /\ rdt \in RxDescs /\ rdh # rdt
  BY RxRing DEF IInv, TypeOK, DevReceive
<1>4. \A i \in RxDescs : rxd'[i].dd = IF i = rdh THEN TRUE ELSE rxd[i].dd
  BY DEF IInv, TypeOK, DevReceive, Desc
<1>5. RxNext(rdh) # t
  <2>1. /\ RxNext(rdh) = IF rdh = NumRx - 1 THEN 0 ELSE rdh + 1
        /\ RxNext(rdt) = IF rdt = NumRx - 1 THEN 0 ELSE rdt + 1
    BY <1>3, RingNext, E1000Assumption DEF RxNext, RxDescs
  <2> QED BY <1>3, <2>1, E1000Assumption DEF RxDescs
<1>6. RxAgree'
  <2>1. \A i \in RxDescs :
            RxAway(t, i) < RxAway(t, RxNext(rdh))
                <=> i = rdh \/ RxAway(t, i) < RxAway(t, rdh)
    <3> HIDE DEF t
    <3>1. RxAway(t, RxNext(rdh)) = RxAway(t, rdh) + 1 BY <1>3, <1>5, RxRing
    <3>2. \A i \in RxDescs : /\ RxAway(t, i) \in Nat
                             /\ RxAway(t, i) = RxAway(t, rdh) <=> i = rdh
      BY <1>3, RxRing
    <3>3. RxAway(t, rdh) \in Nat BY <1>3, <3>2
    <3> SUFFICES ASSUME NEW i \in RxDescs
                 PROVE  RxAway(t, i) < RxAway(t, RxNext(rdh))
                           <=> i = rdh \/ RxAway(t, i) < RxAway(t, rdh)
      OBVIOUS
    <3>4. RxAway(t, i) < RxAway(t, rdh) + 1
              <=> RxAway(t, i) < RxAway(t, rdh) \/ RxAway(t, i) = RxAway(t, rdh)
      BY <3>2, <3>3, Grown
    <3> QED BY <3>1, <3>2, <3>4
  <2>2. t' = t /\ drv' = drv /\ rdh' = RxNext(rdh) BY DEF DevReceive
  <2>3. drv = "rxtail" => t # rdh BY DEF IInv, Taking
  <2> QED BY <1>4, <2>1, <2>2, <2>3 DEF IInv, RxAway, RxAgree
<1>7. Taking'
  <2>1. rxd'[t].dd = IF t = rdh THEN TRUE ELSE rxd[t].dd BY <1>3, <1>4
  <2> QED BY <1>5, <2>1 DEF IInv, Taking, DevReceive
<1> QED BY <1>1, <1>2, <1>6, <1>7 DEF IInv

-----------------------------------------------------------------------------

LEMMA NextIInv == IInv /\ [Next]_vars => IInv'
<1> SUFFICES ASSUME IInv, [Next]_vars PROVE IInv' OBVIOUS
<1>1. CASE UNCHANGED vars
  BY <1>1 DEF vars, txVars, rxVars, IInv, TypeOK, TxAgree, Stalled, RxAgree, Taking
<1>2. CASE Transmit
  BY <1>1, <1>2, TxTailKeeps, TxFillKeeps DEF Transmit, TxRefuse
<1>3. CASE Receive
  BY <1>1, <1>3, RxCopyKeeps, RxClearKeeps, RxTailKeeps DEF Receive, RxEmpty
<1>4. CASE Device
  BY <1>4, DevSendKeeps, DevReceiveKeeps DEF Device
<1> QED BY <1>1, <1>2, <1>3, <1>4 DEF Next

\* The DD bits e1000_transmit() looks at and the registers of the device say
\* the same: no descriptor is filled again before its packet was sent.
THEOREM TransmitRingAgrees == Spec => []TxAgree
<1>1. IInv => TxAgree BY DEF IInv
<1> QED BY <1>1, InitIInv, NextIInv, PTL DEF Spec

\* e1000_receive(), which looks at one descriptor only, finds a packet there
\* whenever the device delivered one that was not taken.
THEOREM ReceiveRingAgrees == Spec => []RxAgree
<1>1. IInv => RxAgree BY DEF IInv
<1> QED BY <1>1, InitIInv, NextIInv, PTL DEF Spec

-----------------------------------------------------------------------------
(* Refinement: the rings are the queues of NetLink.                        *)

\* The descriptor k places after i, and how the places are counted from its
\* successor.
LEMMA RingAt ==
    ASSUME NEW n \in Nat \ {0}, NEW i \in 0 .. n - 1, NEW k \in 0 .. n - 1
    PROVE  /\ (i + k) % n \in 0 .. n - 1
           /\ Distance(i, (i + k) % n, n) = k
<1>1. PICK x \in Nat : x = i + k OBVIOUS
<1>2. CASE x < n
  <2>1. x % n = x BY <1>2, ModBelow
  <2>2. x \in 0 .. n - 1 /\ i <= x BY <1>1, <1>2
  <2>3. Distance(i, x, n) = x - i BY <2>2, RingDistance
  <2> QED BY <1>1, <2>1, <2>2, <2>3
<1>3. CASE ~(x < n)
  <2>1. PICK y \in Nat : y = x - n BY <1>3
  <2>2. n <= x /\ x < 2 * n BY <1>1, <1>3
  <2>3. x % n = y BY <2>1, <2>2, ModBeyond
  <2>4. y \in 0 .. n - 1 /\ y < i BY <1>1, <2>1, <2>2
  <2>5. Distance(i, y, n) = y + n - i BY <2>4, RingDistance
  <2> QED BY <1>1, <2>1, <2>3, <2>4, <2>5
<1> QED BY <1>2, <1>3

LEMMA RingFrom ==
    ASSUME NEW n \in Nat \ {0}, NEW i \in 0 .. n - 1, NEW j \in 0 .. n - 1
    PROVE  /\ (i + Distance(i, j, n)) % n = j
           /\ \A k \in Nat : k + 1 < n => (((i + 1) % n) + k) % n = (i + (k + 1)) % n
<1>1. Distance(i, j, n) \in 0 .. n - 1 BY RingStep
<1>2. /\ (i + Distance(i, j, n)) % n \in 0 .. n - 1
      /\ Distance(i, (i + Distance(i, j, n)) % n, n) = Distance(i, j, n)
  BY <1>1, RingAt
<1>3. (i + Distance(i, j, n)) % n = j BY <1>2, RingInjective
<1>4. ASSUME NEW k \in Nat, k + 1 < n
      PROVE  (((i + 1) % n) + k) % n = (i + (k + 1)) % n
  <2> DEFINE s == (i + 1) % n
             a == (s + k) % n
             b == (i + (k + 1)) % n
  <2>1. s \in 0 .. n - 1 BY RingStep
  <2>2. k \in 0 .. n - 1 /\ k + 1 \in 0 .. n - 1 BY <1>4
  <2>3. a \in 0 .. n - 1 /\ Distance(s, a, n) = k
    <3> HIDE DEF s
    <3> QED BY <2>1, <2>2, RingAt
  <2>4. b \in 0 .. n - 1 /\ Distance(i, b, n) = k + 1 BY <2>2, RingAt
  <2>5. i # b
    <3>1. Distance(i, i, n) = 0 BY RingStep
    <3> HIDE DEF b
    <3> QED BY <2>4, <3>1
  <2>6. Distance(s, b, n) = Distance(i, b, n) - 1
    <3> HIDE DEF b
    <3> QED BY <2>4, <2>5, RingStep DEF s
  <2> HIDE DEF a, b, s
  <2>7. Distance(s, a, n) = Distance(s, b, n) BY <2>3, <2>4, <2>6
  <2> QED BY <2>1, <2>3, <2>4, <2>7, RingInjective DEF a, b, s
<1> QED BY <1>3, <1>4

\* Sequences given by their elements.
LEMMA AppendIs ==
    ASSUME NEW m \in Nat, NEW s, NEW r, NEW e,
           s = [k \in 1 .. m |-> s[k]], r = [k \in 1 .. m + 1 |-> r[k]],
           \A k \in 1 .. m : r[k] = s[k], r[m + 1] = e
    PROVE  r = Append(s, e) /\ Len(s) = m
<1> DEFINE S == {s[k] : k \in 1 .. m} \cup {e}
<1>1. s \in [1 .. m -> S] /\ e \in S OBVIOUS
<1>2. r \in [1 .. m + 1 -> S]
  <2>1. \A k \in 1 .. m + 1 : k \in 1 .. m \/ k = m + 1 OBVIOUS
  <2>2. \A k \in 1 .. m + 1 : r[k] \in S BY <1>1, <2>1
  <2> QED BY <2>2
<1> HIDE DEF S
<1>3. s \in Seq(S) /\ r \in Seq(S) BY <1>1, <1>2, SeqDef
<1>4. Len(s) = m /\ Len(r) = m + 1 BY <1>1, <1>2, <1>3, LenProperties
<1>5. Append(s, e) \in Seq(S) /\ Len(Append(s, e)) = m + 1
      /\ Append(s, e)[m + 1] = e /\ \A k \in 1 .. m : Append(s, e)[k] = s[k]
  BY <1>1, <1>3, <1>4, AppendProperties
<1>6. \A k \in 1 .. m + 1 : r[k] = Append(s, e)[k]
  <2>1. \A k \in 1 .. m + 1 : k \in 1 .. m \/ k = m + 1 OBVIOUS
  <2> QED BY <1>5, <2>1
<1> QED BY <1>3, <1>4, <1>5, <1>6, SeqEqual

Shifted(r, s, m) == \A k \in 1 .. m : r[k] = s[k + 1]

LEMMA TailIs ==
    ASSUME NEW m \in Nat, NEW s, NEW r,
           s = [k \in 1 .. m + 1 |-> s[k]], r = [k \in 1 .. m |-> r[k]],
           Shifted(r, s, m)
    PROVE  r = Tail(s) /\ s # <<>>
<1> DEFINE S == {s[k] : k \in 1 .. m + 1}
<1>1. s \in [1 .. m + 1 -> S] OBVIOUS
<1>2. r \in [1 .. m -> S]
  <2>1. \A k \in 1 .. m : k + 1 \in 1 .. m + 1 OBVIOUS
  <2>2. \A k \in 1 .. m : r[k] \in S BY <2>1 DEF Shifted
  <2> QED BY <2>2
<1> HIDE DEF S
<1>3. s \in Seq(S) /\ r \in Seq(S) BY <1>1, <1>2, SeqDef
<1>4. Len(s) = m + 1 /\ Len(r) = m BY <1>1, <1>2, <1>3, LenProperties
<1>5. s # <<>> BY <1>4, EmptySeq
<1>6. Tail(s) \in Seq(S) /\ Len(Tail(s)) = m /\ \A k \in 1 .. m : Tail(s)[k] = s[k + 1]
  BY <1>3, <1>4, <1>5, HeadTailProperties
<1> QED BY <1>3, <1>4, <1>5, <1>6, SeqEqual DEF Shifted

-----------------------------------------------------------------------------
(* The queues, by place on the ring.                                       *)

TxAt(h, k) == (h + k) % NumTx
RxAt(h, k) == (h + k) % NumRx

TxQueue ==
    /\ TxCount \in 0 .. NumTx
    /\ txlens = [k \in 1 .. TxCount |-> txlens[k]]
    /\ \A k \in 1 .. TxCount : txlens[k] = txd[TxAt(tdh, k - 1)].length

RxQueue ==
    /\ RxCount \in 0 .. NumRx - 1
    /\ rxlens = [k \in 1 .. RxCount |-> rxlens[k]]
    /\ \A k \in 1 .. RxCount : rxlens[k] = rxd[RxAt(RxFirst, k - 1)].length

LEMMA TxQueueNow == IInv => TxQueue
<1> SUFFICES ASSUME IInv PROVE TxQueue OBVIOUS
<1>1. tdh \in TxDescs /\ tdt \in TxDescs BY DEF IInv, TypeOK
<1>2. TxAway(tdh, tdt) \in 0 .. NumTx - 1 /\ NumTx \in Nat \ {0} BY <1>1, TxRing
<1>3. TxCount \in 0 .. NumTx
  <2>1. Stalled => drv # "txtail" BY DEF Stalled
  <2> QED BY <1>2, <2>1 DEF TxCount, TxShown, TxAway
<1>4. txlens = [k \in 1 .. TxCount |-> txd[TxAt(tdh, k - 1)].length]
  BY DEF txlens, TxPlace, TxAt
<1> QED BY <1>3, <1>4 DEF TxQueue

LEMMA RxQueueNow == IInv => RxQueue
<1> SUFFICES ASSUME IInv PROVE RxQueue OBVIOUS
<1>1. /\ rdh \in RxDescs /\ rdt \in RxDescs /\ RxNext(rdt) \in RxDescs
      /\ RxNext(RxNext(rdt)) \in RxDescs
  BY RxRing DEF IInv, TypeOK
<1>2. /\ RxAway(RxNext(rdt), rdh) \in 0 .. NumRx - 1 /\ NumRx \in Nat \ {0}
      /\ RxAway(RxNext(rdt), rdh) = 0 => RxNext(rdt) = rdh
      /\ RxAway(RxNext(rdt), RxNext(rdt)) = 0
  BY <1>1, RxRing
<1>3. Taken => RxAway(RxNext(rdt), rdh) # 0
  <2>1. CASE drv = "rxclear"
    <3>1. RxAway(RxNext(rdt), RxNext(rdt)) < RxAway(RxNext(rdt), rdh)
      BY <1>1, <2>1 DEF IInv, RxAgree, Taking, RxAway
    <3> QED BY <1>2, <3>1
  <2>2. CASE drv = "rxtail" BY <1>2, <2>2 DEF IInv, Taking
  <2> QED BY <2>1, <2>2 DEF Taken
<1>4. RxCount \in 0 .. NumRx - 1 BY <1>2, <1>3 DEF RxCount, RxAway
<1>5. rxlens = [k \in 1 .. RxCount |-> rxd[RxAt(RxFirst, k - 1)].length]
  BY DEF rxlens, RxPlace, RxAt
<1> QED BY <1>4, <1>5 DEF RxQueue

LEMMA QueuesNext == IInv' => TxQueue' /\ RxQueue'
BY TxQueueNow, RxQueueNow, PTL

LEMMA TxPlaces ==
    ASSUME NEW h \in TxDescs
    PROVE  /\ \A k \in 0 .. NumTx - 1 : /\ TxAt(h, k) \in TxDescs
                                       /\ TxAway(h, TxAt(h, k)) = k
           /\ \A t \in TxDescs : TxAt(h, TxAway(h, t)) = t
           /\ \A k \in Nat : k + 1 < NumTx => TxAt(TxNext(h), k) = TxAt(h, k + 1)
BY E1000Assumption, RingAt, RingFrom DEF TxDescs, TxNext, TxAway, TxAt

LEMMA RxPlaces ==
    ASSUME NEW h \in RxDescs
    PROVE  /\ \A k \in 0 .. NumRx - 1 : /\ RxAt(h, k) \in RxDescs
                                       /\ RxAway(h, RxAt(h, k)) = k
           /\ \A t \in RxDescs : RxAt(h, RxAway(h, t)) = t
           /\ \A k \in Nat : k + 1 < NumRx => RxAt(RxNext(h), k) = RxAt(h, k + 1)
BY E1000Assumption, RingAt, RingFrom DEF RxDescs, RxNext, RxAway, RxAt

\* e1000_transmit() stores a packet behind the others.
LEMMA TxFillIsSend ==
    ASSUME IInv, IInv', NEW d \in Data, NEW n \in TxLens, TxFill(d, n)
    PROVE  txlens' = Append(txlens, n) /\ Len(txlens) < NumTx
<1>1. /\ tdh \in TxDescs /\ tdt \in TxDescs /\ tdh' = tdh
      /\ drv = "idle" /\ drv' = "txtail"
  BY DEF IInv, TypeOK, TxFill
<1> DEFINE m == TxAway(tdh, tdt)
<1>2. m \in 0 .. NumTx - 1 /\ NumTx \in Nat \ {0} BY <1>1, TxRing
<1>3. ~Stalled BY <1>1 DEF Stalled, TxFill
<1>4. TxCount = m BY <1>1, <1>3 DEF TxCount, TxShown, TxAway
<1>5. TxCount' = m + 1
  <2>1. ~Stalled' BY <1>1 DEF Stalled
  <2>2. TxAway(tdh, tdt)' = m BY DEF TxFill, TxAway
  <2> QED BY <1>1, <2>1, <2>2 DEF TxCount, TxShown, TxAway
<1>6. \A i \in TxDescs : txd'[i].length = IF i = tdt THEN n ELSE txd[i].length
  BY DEF IInv, TypeOK, TxFill, Desc
<1>7. TxQueue /\ TxQueue' BY TxQueueNow, QueuesNext
<1> HIDE DEF m
<1>8. ASSUME NEW k \in 1 .. m PROVE txlens'[k] = txlens[k]
  <2>1. k - 1 \in 0 .. NumTx - 1 /\ k - 1 # m /\ k \in 1 .. m + 1 BY <1>2
  <2>2. PICK i \in TxDescs \ {tdt} : i = TxAt(tdh, k - 1)
    BY <1>1, <2>1, TxPlaces DEF m
  <2>3. txlens'[k] = txd'[i].length BY <1>1, <1>5, <1>7, <2>1, <2>2 DEF TxQueue, TxAt
  <2>4. txlens[k] = txd[i].length BY <1>4, <1>7, <2>2 DEF TxQueue
  <2> QED BY <1>6, <2>2, <2>3, <2>4
<1>9. txlens'[m + 1] = n
  <2>1. m + 1 \in 1 .. m + 1 /\ (m + 1) - 1 = m BY <1>2
  <2>2. TxAt(tdh, m) = tdt BY <1>1, TxPlaces DEF m
  <2>3. PICK i \in TxDescs : i = tdt BY <1>1
  <2>4. txlens'[m + 1] = txd'[i].length
    BY <1>1, <1>5, <1>7, <2>1, <2>2, <2>3 DEF TxQueue, TxAt
  <2> QED BY <1>6, <2>3, <2>4
<1>10. txlens = [k \in 1 .. m |-> txlens[k]] /\ txlens' = [k \in 1 .. m + 1 |-> txlens'[k]]
  BY <1>4, <1>5, <1>7 DEF TxQueue
<1>11. txlens' = Append(txlens, n) /\ Len(txlens) = m
  BY <1>2, <1>8, <1>9, <1>10, AppendIs
<1> QED BY <1>2, <1>11

\* A new value of TDT tells the device what the driver has counted already.
LEMMA TxTailIsStutter ==
    ASSUME IInv, IInv', TxTail
    PROVE  txlens' = txlens
<1>1. /\ tdh \in TxDescs /\ tdt \in TxDescs /\ tdh' = tdh /\ tdt' = TxNext(tdt)
      /\ txd' = txd /\ txmem' = txmem /\ drv = "txtail" /\ drv' = "idle"
  BY DEF IInv, TypeOK, TxTail
<1> DEFINE m == TxAway(tdh, tdt)
<1>2. m \in 0 .. NumTx - 1 /\ NumTx \in Nat \ {0} /\ TxNext(tdt) \in TxDescs
  BY <1>1, TxRing
<1>3. TxCount = m + 1 BY <1>1 DEF TxCount, TxShown, TxAway, Stalled
<1>4. TxCount' = m + 1
  <2>1. CASE TxNext(tdt) = tdh
    <3>1. m = NumTx - 1 BY <1>1, <2>1, TxRing
    <3>2. TxAway(tdh, tdt)' = 0
      <4>1. TxAway(tdh, tdh) = 0 BY <1>1, TxRing
      <4> QED BY <1>1, <2>1, <4>1 DEF TxAway
    <3>3. Stalled'
      <4>1. TxAgree' BY DEF IInv
      <4>2. \A i \in TxDescs : TxAway(tdh, i) \in Nat BY <1>1, TxRing
      <4>3. \A i \in TxDescs : ~txd[i].dd
        <5> SUFFICES ASSUME NEW i \in TxDescs PROVE ~txd[i].dd OBVIOUS
        <5>1. TxAway(tdh, i) \in 0 .. NumTx - 1
              /\ (TxAway(tdh, i) = TxAway(tdh, tdt) => i = tdt)
          BY <1>1, TxRing
        <5>2. TxAway(tdh, i) < m \/ i = tdt
          <6>1. CASE TxAway(tdh, i) = m BY <5>1, <6>1
          <6>2. CASE TxAway(tdh, i) # m
            <7> HIDE DEF m
            <7> QED BY <3>1, <5>1, <6>2, <1>2
          <6> QED BY <6>1, <6>2
        <5> QED BY <1>1, <5>2 DEF IInv, TxAgree, TxAway, Stalled
      <4> QED BY <1>1, <2>1, <4>3 DEF Stalled
    <3>4. TxCount' = NumTx BY <1>1, <3>3 DEF TxCount, TxShown, TxAway
    <3> QED BY <1>2, <3>1, <3>4
  <2>2. CASE TxNext(tdt) # tdh
    <3>1. TxAway(tdh, TxNext(tdt)) = m + 1 BY <1>1, <2>2, TxRing
    <3>2. TxAway(tdh, tdt)' = m + 1 BY <1>1, <3>1 DEF TxAway
    <3>3. ~Stalled' BY <1>1, <2>2 DEF Stalled
    <3> QED BY <1>1, <3>2, <3>3 DEF TxCount, TxShown, TxAway
  <2> QED BY <2>1, <2>2
<1>5. TxQueue /\ TxQueue' BY TxQueueNow, QueuesNext
<1> HIDE DEF m
<1>6. ASSUME NEW k \in 1 .. m + 1 PROVE txlens'[k] = txlens[k]
  <2>1. txlens'[k] = txd[TxAt(tdh, k - 1)].length
    BY <1>1, <1>4, <1>5 DEF TxQueue, TxAt
  <2> QED BY <1>3, <1>5, <2>1 DEF TxQueue
<1>7. txlens = [k \in 1 .. m + 1 |-> txlens[k]] /\ txlens' = [k \in 1 .. m + 1 |-> txlens'[k]]
  BY <1>3, <1>4, <1>5 DEF TxQueue
<1> QED BY <1>6, <1>7

\* The device sends the oldest packet.
LEMMA DevSendIsSent ==
    ASSUME IInv, IInv', DevSend
    PROVE  txlens' = Tail(txlens) /\ txlens # <<>>
<1>1. /\ tdh \in TxDescs /\ tdt \in TxDescs /\ tdh' = TxNext(tdh) /\ tdt' = tdt
      /\ tdh # tdt /\ txmem' = txmem /\ drv' = drv
      /\ \A i \in TxDescs : txd'[i].length = txd[i].length
      /\ txd'[tdh].dd
  BY DEF IInv, TypeOK, DevSend, Desc
<1> DEFINE m == IF drv = "txtail" THEN TxAway(tdh, tdt) ELSE TxAway(tdh, tdt) - 1
<1>2. /\ TxAway(tdh, tdt) \in 0 .. NumTx - 1 /\ TxAway(tdh, tdt) # 0
      /\ NumTx \in Nat \ {0}
      /\ TxAway(TxNext(tdh), tdt) = TxAway(tdh, tdt) - 1
  BY <1>1, TxRing
<1>3. m \in Nat /\ m + 1 <= NumTx BY <1>2
<1>4. TxCount = m + 1
  <2>1. ~Stalled BY <1>1 DEF Stalled
  <2> QED BY <1>2, <2>1 DEF TxCount, TxShown, TxAway
<1>5. TxCount' = m
  <2>1. ~Stalled' BY <1>1 DEF Stalled
  <2>2. TxAway(tdh, tdt)' = TxAway(tdh, tdt) - 1 BY <1>1, <1>2 DEF TxAway
  <2> QED BY <1>1, <1>2, <2>1, <2>2 DEF TxCount, TxShown, TxAway
<1>6. TxQueue /\ TxQueue' BY TxQueueNow, QueuesNext
<1> HIDE DEF m
<1>7. ASSUME NEW k \in 1 .. m PROVE txlens'[k] = txlens[k + 1]
  <2>1. /\ k - 1 \in Nat /\ (k - 1) + 1 = k /\ k < NumTx /\ k \in 0 .. NumTx - 1
        /\ k + 1 \in 1 .. m + 1 /\ (k + 1) - 1 = k
    BY <1>2, <1>3
  <2>2. TxAt(tdh, k) \in TxDescs /\ TxAt(TxNext(tdh), k - 1) = TxAt(tdh, k)
    BY <1>1, <2>1, TxPlaces
  <2>3. PICK i \in TxDescs : i = TxAt(tdh, k) BY <2>2
  <2>4. txlens'[k] = txd'[i].length
    BY <1>1, <1>5, <1>6, <2>2, <2>3 DEF TxQueue, TxAt
  <2>5. txd'[i].length = txd[i].length BY <1>1
  <2>6. txlens[k + 1] = txd[i].length BY <1>4, <1>6, <2>1, <2>3 DEF TxQueue
  <2> QED BY <2>4, <2>5, <2>6
<1>8. txlens = [k \in 1 .. m + 1 |-> txlens[k]] /\ txlens' = [k \in 1 .. m |-> txlens'[k]]
  BY <1>4, <1>5, <1>6 DEF TxQueue
<1>9. Shifted(txlens', txlens, m) BY <1>7 DEF Shifted
<1> QED BY <1>3, <1>8, <1>9, TailIs

\* e1000_receive() takes the oldest packet.
LEMMA RxCopyIsReceived ==
    ASSUME IInv, IInv', RxCopy
    PROVE  rxlens' = Tail(rxlens) /\ rxlens # <<>>
<1> DEFINE t == RxNext(rdt)
           m == RxAway(t, rdh) - 1
<1>1. /\ t \in RxDescs /\ rdh \in RxDescs /\ rdh' = rdh /\ rdt' = rdt /\ t' = t
      /\ rxd' = rxd /\ rxmem' = rxmem /\ drv = "idle" /\ drv' = "rxclear" /\ rxd[t].dd
  BY RxRing DEF IInv, TypeOK, RxCopy, rxVars
<1>2. /\ RxAway(t, rdh) \in 0 .. NumRx - 1 /\ NumRx \in Nat \ {0} /\ RxAway(t, t) = 0
      /\ RxNext(t) \in RxDescs
  BY <1>1, RxRing
<1>3. RxAway(t, t) < RxAway(t, rdh) BY <1>1 DEF IInv, RxAgree, RxAway
<1>4. m \in Nat /\ m + 1 = RxAway(t, rdh) BY <1>2, <1>3
<1>5. RxCount = m + 1 /\ RxFirst = t BY <1>1, <1>4 DEF RxCount, RxAway, Taken, RxFirst
<1>6. RxCount' = m /\ RxFirst' = RxNext(t)
  BY <1>1 DEF RxCount, Taken, RxFirst, RxAway, RxNext
<1>7. RxQueue /\ RxQueue' BY RxQueueNow, QueuesNext
<1> HIDE DEF m, t
<1>8. ASSUME NEW k \in 1 .. m PROVE rxlens'[k] = rxlens[k + 1]
  <2>1. /\ k - 1 \in Nat /\ (k - 1) + 1 = k /\ k < NumRx /\ k \in 0 .. NumRx - 1
        /\ k + 1 \in 1 .. m + 1 /\ (k + 1) - 1 = k
    BY <1>2, <1>4
  <2>2. RxAt(t, k) \in RxDescs /\ RxAt(RxNext(t), k - 1) = RxAt(t, k)
    BY <1>1, <2>1, RxPlaces
  <2>3. PICK i \in RxDescs : i = RxAt(t, k) BY <2>2
  <2>4. rxlens'[k] = rxd'[i].length
    BY <1>6, <1>7, <2>2, <2>3 DEF RxQueue, RxAt
  <2>5. rxd'[i].length = rxd[i].length BY <1>1
  <2>6. rxlens[k + 1] = rxd[i].length BY <1>5, <1>7, <2>1, <2>3 DEF RxQueue
  <2> QED BY <2>4, <2>5, <2>6
<1>9. rxlens = [k \in 1 .. m + 1 |-> rxlens[k]] /\ rxlens' = [k \in 1 .. m |-> rxlens'[k]]
  BY <1>5, <1>6, <1>7 DEF RxQueue
<1>10. Shifted(rxlens', rxlens, m) BY <1>8 DEF Shifted
<1> QED BY <1>4, <1>9, <1>10, TailIs

\* Giving the descriptor back changes nothing for the packets behind it.
LEMMA RxQueueStays ==
    ASSUME IInv, IInv', RxCount' = RxCount, RxFirst' = RxFirst,
           \A i \in RxDescs : rxd'[i].length = rxd[i].length
    PROVE  rxlens' = rxlens
<1>1. RxQueue /\ RxQueue' BY RxQueueNow, QueuesNext
<1>2. RxFirst \in RxDescs BY RxRing DEF IInv, TypeOK, RxFirst
<1> DEFINE m == RxCount
           f == RxFirst
<1>3. m \in 0 .. NumRx - 1 /\ NumRx \in Nat BY <1>1, E1000Assumption DEF RxQueue
<1>4. m' = m /\ f' = f OBVIOUS
<1>5. ASSUME NEW k \in 1 .. m PROVE rxlens'[k] = rxlens[k]
  <2>1. k - 1 \in 0 .. NumRx - 1 BY <1>3
  <2>2. PICK i \in RxDescs : i = RxAt(f, k - 1) BY <1>2, <2>1, RxPlaces
  <2>3. rxlens[k] = rxd[i].length BY <1>1, <2>2 DEF RxQueue
  <2>4. rxlens'[k] = rxd'[i].length BY <1>1, <1>4, <2>2 DEF RxQueue, RxAt
  <2> QED BY <2>3, <2>4
<1>6. rxlens = [k \in 1 .. m |-> rxlens[k]] /\ rxlens' = [k \in 1 .. m |-> rxlens'[k]]
  BY <1>1, <1>4 DEF RxQueue
<1> QED BY <1>5, <1>6

LEMMA RxClearIsStutter == ASSUME IInv, IInv', RxClear PROVE rxlens' = rxlens
<1>1. rdt \in RxDescs /\ RxNext(rdt) \in RxDescs BY RxRing DEF IInv, TypeOK
<1>2. \A i \in RxDescs : rxd'[i].length = rxd[i].length
  BY DEF IInv, TypeOK, RxClear, Desc
<1>3. \A i \in RxDescs : rxd'[i].length = rxd[i].length BY <1>2 DEF RxClear
<1>4. RxCount' = RxCount /\ RxFirst' = RxFirst
  BY DEF RxCount, RxFirst, Taken, RxAway, RxNext, RxClear
<1> QED BY <1>3, <1>4, RxQueueStays

LEMMA RxTailIsStutter == ASSUME IInv, IInv', RxTail PROVE rxlens' = rxlens
<1> DEFINE t == RxNext(rdt)
<1>1. /\ t \in RxDescs /\ rdh \in RxDescs /\ rdh' = rdh /\ rdt' = t /\ rxd' = rxd
      /\ rxmem' = rxmem /\ drv = "rxtail" /\ drv' = "idle" /\ t # rdh
  BY RxRing DEF IInv, TypeOK, Taking, RxTail
<1>2. RxAway(RxNext(t), rdh) = RxAway(t, rdh) - 1 BY <1>1, RxRing
<1>3. RxAway(t, rdh) \in Int /\ RxAway(RxNext(t), rdh) \in Int BY <1>1, RxRing, <1>2
<1>4. RxCount = RxAway(t, rdh) - 1 /\ RxFirst = RxNext(t)
  BY <1>1 DEF RxCount, RxAway, RxFirst, Taken
<1>5. RxNext(rdt)' = RxNext(t) /\ RxAway(RxNext(rdt), rdh)' = RxAway(RxNext(t), rdh)
  BY <1>1 DEF RxNext, RxAway
<1>6. ~Taken' BY <1>1 DEF Taken
<1>7. RxCount' = RxCount /\ RxFirst' = RxFirst
  BY <1>2, <1>3, <1>4, <1>5, <1>6 DEF RxCount, RxAway, RxFirst
<1>8. \A i \in RxDescs : rxd'[i].length = rxd[i].length BY <1>1
<1> QED BY <1>7, <1>8, RxQueueStays

\* The device puts a packet behind the others.
LEMMA DevReceiveIsArrive ==
    ASSUME IInv, IInv', NEW d \in Data, NEW n \in RxLens, DevReceive(d, n)
    PROVE  rxlens' = Append(rxlens, n) /\ Len(rxlens) < NumRx - 1
<1> DEFINE t == RxNext(rdt)
           m == RxCount
<1>1. /\ rdt \in RxDescs /\ t \in RxDescs /\ rdh \in RxDescs /\ rdh # rdt
      /\ RxNext(t) \in RxDescs /\ t' = t
      /\ rdh' = RxNext(rdh) /\ rdt' = rdt /\ drv' = drv
  BY RxRing DEF IInv, TypeOK, DevReceive
<1>2. RxNext(rdh) # t
  <2>1. /\ RxNext(rdh) = IF rdh = NumRx - 1 THEN 0 ELSE rdh + 1
        /\ RxNext(rdt) = IF rdt = NumRx - 1 THEN 0 ELSE rdt + 1
    BY <1>1, RingNext, E1000Assumption DEF RxNext, RxDescs
  <2> QED BY <1>1, <2>1, E1000Assumption DEF RxDescs
<1>3. /\ RxAway(t, RxNext(rdh)) = RxAway(t, rdh) + 1
      /\ RxAway(t, rdh) \in 0 .. NumRx - 1
      /\ RxAway(t, RxNext(rdh)) \in 0 .. NumRx - 1
      /\ NumRx \in Nat \ {0} /\ RxNext(rdh) \in RxDescs
  <2>1. RxNext(rdh) \in RxDescs BY <1>1, RxRing
  <2> QED BY <1>1, <1>2, <2>1, RxRing
<1>4. RxQueue /\ RxQueue' BY RxQueueNow, QueuesNext
<1>5. RxAway(t, rdh)' = RxAway(t, RxNext(rdh)) BY <1>1 DEF RxAway
<1>6. RxCount' = m + 1 /\ RxFirst' = RxFirst
  BY <1>1, <1>3, <1>5 DEF RxCount, RxAway, Taken, RxFirst, RxNext
<1>7. m \in Nat /\ m + 1 <= NumRx - 1 BY <1>3, <1>4, <1>6 DEF RxQueue
<1>8. \A i \in RxDescs : rxd'[i].length = IF i = rdh THEN n ELSE rxd[i].length
  BY DEF IInv, TypeOK, DevReceive, Desc
<1>9. RxAt(RxFirst, m) = rdh
  <2>1. CASE Taken
    <3>1. t # rdh
      <4>1. RxAway(t, rdh) # 0 BY <1>3, <1>7, <2>1 DEF RxCount, RxAway
      <4>2. RxAway(t, t) = 0 BY <1>1, RxRing
      <4> QED BY <4>1, <4>2
    <3>2. RxAway(RxNext(t), rdh) = RxAway(t, rdh) - 1 BY <1>1, <3>1, RxRing
    <3>3. m = RxAway(RxNext(t), rdh) /\ RxFirst = RxNext(t)
      BY <2>1, <3>2 DEF RxCount, RxAway, RxFirst
    <3> QED BY <1>1, <3>3, RxPlaces
  <2>2. CASE ~Taken
    <3>1. m = RxAway(t, rdh) /\ RxFirst = t BY <1>3, <2>2 DEF RxCount, RxAway, RxFirst
    <3> QED BY <1>1, <3>1, RxPlaces
  <2> QED BY <2>1, <2>2
<1>10. RxFirst \in RxDescs BY <1>1 DEF RxFirst
<1> DEFINE f == RxFirst
<1> HIDE DEF m, t
<1>11. ASSUME NEW k \in 1 .. m PROVE rxlens'[k] = rxlens[k]
  <2>1. /\ k - 1 \in 0 .. NumRx - 1 /\ m \in 0 .. NumRx - 1 /\ k - 1 # m
        /\ k \in 1 .. m + 1
    BY <1>3, <1>7
  <2>2. RxAt(f, k - 1) \in RxDescs /\ RxAt(f, k - 1) # rdh
    BY <1>9, <1>10, <2>1, RxPlaces
  <2>3. PICK i \in RxDescs \ {rdh} : i = RxAt(f, k - 1) BY <2>2
  <2>4. rxlens'[k] = rxd'[i].length BY <1>4, <1>6, <2>1, <2>3 DEF RxQueue, RxAt
  <2>5. rxlens[k] = rxd[i].length BY <1>4, <2>3 DEF RxQueue, m
  <2> QED BY <1>8, <2>3, <2>4, <2>5
<1>12. rxlens'[m + 1] = n
  <2>1. m + 1 \in 1 .. m + 1 /\ (m + 1) - 1 = m BY <1>7
  <2>2. PICK i \in RxDescs : i = rdh BY <1>1
  <2>3. rxlens'[m + 1] = rxd'[i].length
    BY <1>4, <1>6, <1>9, <2>1, <2>2 DEF RxQueue, RxAt
  <2> QED BY <1>8, <2>2, <2>3
<1>13. rxlens = [k \in 1 .. m |-> rxlens[k]] /\ rxlens' = [k \in 1 .. m + 1 |-> rxlens'[k]]
  BY <1>4, <1>6 DEF RxQueue, m
<1>14. rxlens' = Append(rxlens, n) /\ Len(rxlens) = m
  BY <1>7, <1>11, <1>12, <1>13, AppendIs
<1> QED BY <1>3, <1>7, <1>14

-----------------------------------------------------------------------------

LEMMA OtherQueue ==
    /\ UNCHANGED rxVars /\ Taken' = Taken => rxlens' = rxlens
    /\ UNCHANGED txVars /\ (drv' = "txtail" <=> drv = "txtail") => txlens' = txlens
<1>1. UNCHANGED rxVars /\ Taken' = Taken => rxlens' = rxlens
  BY DEF rxVars, Taken, rxlens, RxCount, RxFirst, RxPlace, Distance, RxNext
<1>2. UNCHANGED txVars /\ (drv' = "txtail" <=> drv = "txtail") => txlens' = txlens
  <2> SUFFICES ASSUME UNCHANGED txVars, drv' = "txtail" <=> drv = "txtail"
               PROVE  txlens' = txlens
    OBVIOUS
  <2>1. Stalled' <=> Stalled BY DEF txVars, Stalled
  <2> QED BY <2>1 DEF txVars, txlens, TxCount, TxShown, TxPlace, Distance
<1> QED BY <1>1, <1>2

LEMMA StepRefines ==
    ASSUME IInv, IInv', [Next]_vars
    PROVE  [Order!Next]_<<txlens, rxlens>>
<1>1. ASSUME UNCHANGED vars PROVE UNCHANGED <<txlens, rxlens>>
  BY <1>1, OtherQueue DEF vars, txVars, rxVars, Taken
<1>2. ASSUME NEW d \in Data, NEW n \in TxLens, TxFill(d, n) PROVE Order!Next
  <2>1. n \in TxLens \cup RxLens OBVIOUS
  <2>2. rxlens' = rxlens BY <1>2, OtherQueue DEF TxFill, Taken
  <2>3. Order!Send(n) BY <1>2, <2>2, TxFillIsSend DEF Order!Send
  <2> QED BY <2>1, <2>3 DEF Order!Next
<1>3. ASSUME TxTail PROVE UNCHANGED <<txlens, rxlens>>
  BY <1>3, TxTailIsStutter, OtherQueue DEF TxTail, Taken
<1>4. ASSUME RxCopy PROVE Order!Next
  <2>1. txlens' = txlens BY <1>4, OtherQueue DEF RxCopy
  <2> QED BY <1>4, <2>1, RxCopyIsReceived DEF Order!Next, Order!Received
<1>5. ASSUME RxClear \/ RxTail PROVE UNCHANGED <<txlens, rxlens>>
  <2>1. txlens' = txlens BY <1>5, OtherQueue DEF RxClear, RxTail
  <2> QED BY <1>5, <2>1, RxClearIsStutter, RxTailIsStutter
<1>6. ASSUME DevSend PROVE Order!Next
  <2>1. rxlens' = rxlens BY <1>6, OtherQueue DEF DevSend, Taken
  <2> QED BY <1>6, <2>1, DevSendIsSent DEF Order!Next, Order!Sent
<1>7. ASSUME NEW d \in Data, NEW n \in RxLens, DevReceive(d, n) PROVE Order!Next
  <2>1. n \in TxLens \cup RxLens OBVIOUS
  <2>2. txlens' = txlens BY <1>7, OtherQueue DEF DevReceive
  <2>3. Order!Arrive(n) BY <1>7, <2>2, DevReceiveIsArrive DEF Order!Arrive
  <2> QED BY <2>1, <2>3 DEF Order!Next
<1>8. \/ UNCHANGED vars \/ TxTail \/ RxCopy \/ RxClear \/ RxTail \/ DevSend
      \/ \E d \in Data, n \in TxLens : TxFill(d, n)
      \/ \E d \in Data, n \in RxLens : DevReceive(d, n)
  BY DEF Next, Transmit, Receive, Device, TxRefuse, RxEmpty
<1> QED BY <1>1, <1>2, <1>3, <1>4, <1>5, <1>6, <1>7, <1>8

LEMMA InitRefines == Init => Order!Init
<1> SUFFICES ASSUME Init PROVE Order!Init OBVIOUS
<1>1. IInv /\ TxQueue /\ RxQueue BY InitIInv, TxQueueNow, RxQueueNow
<1>2. TxCount = 0
  <2>1. 0 \in TxDescs BY E1000Assumption DEF TxDescs
  <2>2. txd[0].dd BY <2>1 DEF Init
  <2>3. ~Stalled BY <2>1, <2>2 DEF Stalled
  <2> QED BY <2>1, <2>3, TxRing DEF Init, TxCount, TxShown, TxAway
<1>3. RxCount = 0
  <2>1. RxNext(rdt) = 0 /\ rdh = 0 /\ 0 \in RxDescs
    BY RingNext, E1000Assumption DEF Init, RxNext, RxDescs
  <2> QED BY <2>1, RxRing DEF Init, RxCount, RxAway, Taken
<1>4. txlens = [k \in 1 .. 0 |-> txlens[k]] /\ rxlens = [k \in 1 .. 0 |-> rxlens[k]]
  BY <1>1, <1>2, <1>3 DEF TxQueue, RxQueue
<1>5. ASSUME NEW s, s = [k \in 1 .. 0 |-> s[k]] PROVE s = <<>>
  <2>1. s \in [1 .. 0 -> {}] BY <1>5
  <2>2. s \in Seq({}) BY <2>1, SeqDef
  <2>3. Len(s) = 0 BY <2>1, <2>2, LenProperties
  <2> QED BY <2>2, <2>3, EmptySeq
<1> QED BY <1>4, <1>5 DEF Order!Init

\* e1000_transmit(), e1000_receive() and the device implement two queues, for
\* rings of any size, packets of any length and however the device runs: packets
\* are passed in order and once, each with its length.  (Of their bytes it says
\* nothing: a long packet runs into the buffer of its neighbour.)
THEOREM PacketsPassInOrder == Spec => PassesInOrder
<1>1. Init => IInv /\ Order!Init BY InitIInv, InitRefines
<1>2. IInv /\ [Next]_vars => IInv' BY NextIInv
<1>3. IInv /\ IInv' /\ [Next]_vars => [Order!Next]_<<txlens, rxlens>> BY StepRefines
<1> QED BY <1>1, <1>2, <1>3, PTL DEF Spec, PassesInOrder, Order!Spec
=============================================================================
