------------------------------ MODULE LibProofs ------------------------------
(***************************************************************************)
(* Proofs about the user library.                                          *)
(*                                                                         *)
(* Part 1, a pipe (Pipe), for every number of environments and CPUs, every *)
(* size of p_buf and every interleaving: the bytes arrive in order; and,   *)
(* on one CPU and with no fork() under way, _pipeisclosed() is right.      *)
(*                                                                         *)
(* Part 2, the heap (Heap), for every address space, size of the heap and  *)
(* sequence of calls: blocks do not overlap, and the pages mapped are the  *)
(* needed ones; malloc() fails only for the reasons it may.                *)
(***************************************************************************)
EXTENDS Pipe, Heap, FiniteSetTheorems, WellFoundedInduction, TLAPS

-----------------------------------------------------------------------------
(* Part 1: the pipe.                                                       *)

ReadLabels == {"rtest", "rtake", "rinc"}
WriteLabels == {"wtest", "wstore", "winc"}
CheckLabels == {"check", "load"}
DupLabels == {"dupclose", "dupdata", "dupfd"}

\* e is in a call on the read or on the write end.
InRead(e) == e = Reader /\ slot[e] = 0 /\ fd[e][0] = "r"
InWrite(e) == e = Writer /\ slot[e] = 1 /\ fd[e][1] = "w" /\ p_wpos < MaxBytes

CallOK(e) ==
    /\ pc[e] \in ReadLabels => InRead(e)
    /\ pc[e] \in WriteLabels => InWrite(e)
    /\ pc[e] \in CheckLabels => InRead(e) \/ InWrite(e)
    /\ pc[e] \in DupLabels => from[e] \in {0, 1}

\* A child has not run, and has one parent.
ForkOK(e) ==
    /\ pc[e] = "fork" <=> child[e] # NoEnv
    /\ pc[e] = "fork" => pc[child[e]] = "unborn"
    /\ \A d \in Envs : child[d] = child[e] /\ child[e] # NoEnv => d = e

CallsOK == \A e \in Envs : CallOK(e) /\ ForkOK(e)

\* p_rpos, p_wpos and the bytes between them, whoever is in the middle of what.
RingOK ==
    /\ p_rpos <= p_wpos /\ p_wpos <= p_rpos + PIPEBUFSIZ
    /\ pc[Reader] \in {"rtake", "rinc"} => p_rpos < p_wpos
    /\ pc[Writer] \in {"wstore", "winc"} => p_wpos < p_rpos + PIPEBUFSIZ
    /\ \A k \in p_rpos .. p_wpos - 1 : p_buf[k % PIPEBUFSIZ] = Byte(k)
    /\ pc[Writer] = "winc" => p_buf[p_wpos % PIPEBUFSIZ] = Byte(p_wpos)
    /\ pc[Reader] = "rinc" => Len(got) = p_rpos + 1
    /\ pc[Reader] # "rinc" => Len(got) = p_rpos
    /\ InOrder

Inv == TypeOK /\ CallsOK /\ RingOK

-----------------------------------------------------------------------------
(* Places of p_buf.                                                        *)

LEMMA ModRange == ASSUME NEW n \in Nat \ {0}, NEW a \in Nat PROVE a % n \in 0 .. n - 1
BY SMT

\* Two bytes less than the size apart have different places.
LEMMA ModApart ==
    ASSUME NEW n \in Nat \ {0}, NEW a \in Nat, NEW b \in Nat, a < b, b < a + n
    PROVE  a % n # b % n
<1>1. PICK q \in Nat, r \in 0 .. n - 1 : a = n * q + r /\ r = a % n
  BY SMT
<1>2. PICK p \in Nat, s \in 0 .. n - 1 : b = n * p + s /\ s = b % n
  BY SMT
<1> SUFFICES ASSUME r = s PROVE FALSE
  BY <1>1, <1>2
<1>3. b - a = n * (p - q)
  BY <1>1, <1>2
<1>4. p - q >= 1 => n * (p - q) >= n
  BY <1>1, <1>2
<1>5. p - q <= 0 => n * (p - q) <= 0
  BY <1>1, <1>2
<1> QED BY <1>3, <1>4, <1>5

-----------------------------------------------------------------------------
(* Types.                                                                  *)

\* What a step writes.
LEMMA SetFd ==
    ASSUME TypeOK, NEW e \in Envs, NEW i \in Slots, NEW v \in Ends \cup {NoEnd},
           fd' = [fd EXCEPT ![e][i] = v]
    PROVE  /\ fd' \in [Envs -> [Slots -> Ends \cup {NoEnd}]]
           /\ \A d \in Envs, j \in Slots : fd'[d][j] = IF d = e /\ j = i THEN v ELSE fd[d][j]
BY DEF TypeOK

LEMMA SetData ==
    ASSUME TypeOK, NEW e \in Envs, NEW i \in Slots, NEW v \in BOOLEAN,
           data' = [data EXCEPT ![e][i] = v]
    PROVE  /\ data' \in [Envs -> [Slots -> BOOLEAN]]
           /\ \A d \in Envs, j \in Slots : data'[d][j] = IF d = e /\ j = i THEN v ELSE data[d][j]
BY DEF TypeOK

LEMMA SetPc ==
    ASSUME TypeOK, NEW e \in Envs, NEW l \in Labels, Goto(e, l)
    PROVE  /\ pc' \in [Envs -> Labels]
           /\ \A d \in Envs : pc'[d] = IF d = e THEN l ELSE pc[d]
BY DEF TypeOK, Goto

LEMMA IsDone ==
    ASSUME TypeOK, NEW e \in Envs, Done(e)
    PROVE  /\ pc' \in [Envs -> Labels] /\ slot' \in [Envs -> Slots] /\ from' \in [Envs -> 0 .. 6]
           /\ \A d \in Envs : /\ pc'[d] = IF d = e THEN "idle" ELSE pc[d]
                              /\ slot'[d] = IF d = e THEN 0 ELSE slot[d]
                              /\ from'[d] = IF d = e THEN 0 ELSE from[d]
<1>1. "idle" \in Labels /\ 0 \in Slots
  BY DEF Labels, Slots
<1> QED BY <1>1 DEF Done, Goto, TypeOK

\* The types of what the steps of a group change.
LEMMA TypeKept ==
    ASSUME TypeOK,
           fd' = fd \/ fd' \in [Envs -> [Slots -> Ends \cup {NoEnd}]],
           data' = data \/ data' \in [Envs -> [Slots -> BOOLEAN]],
           pc' = pc \/ pc' \in [Envs -> Labels],
           slot' = slot \/ slot' \in [Envs -> Slots],
           from' = from \/ from' \in [Envs -> 0 .. 6],
           child' = child \/ child' \in [Envs -> Envs \cup {NoEnv}],
           moved' = moved \/ moved' \in [Envs -> BOOLEAN],
           cpus' \subseteq Envs,
           eof' \in BOOLEAN,
           UNCHANGED <<p_rpos, p_wpos, p_buf, got>>
    PROVE  TypeOK'
BY DEF TypeOK

LEMMA TypeMaps ==
    ASSUME TypeOK, NEW e \in Envs,
           \/ \E i \in Slots : close(e, i) \/ dup(e, i)
           \/ CloseData(e) \/ exit(e) \/ DupClose(e) \/ DupData(e) \/ DupFd(e), CallsOK
    PROVE  TypeOK'
<1>0. /\ NoEnd \in Ends \cup {NoEnd} /\ 2 \in Slots /\ 0 \in Slots /\ TRUE \in BOOLEAN /\ FALSE \in BOOLEAN
      /\ slot[e] \in Slots /\ from[e] \in 0 .. 6 /\ Slots \subseteq 0 .. 6
      /\ cpus \subseteq Envs /\ eof \in BOOLEAN
  BY DEF TypeOK, Slots
<1>1. ASSUME NEW l \in {"close", "gone", "dupclose", "dupdata", "dupfd"}, Goto(e, l)
      PROVE  pc' \in [Envs -> Labels]
  <2>1. l \in Labels
    BY DEF Labels
  <2> QED BY <1>1, <2>1, SetPc
<1>2. ASSUME NEW i \in Slots, close(e, i) PROVE TypeOK'
  <2>1. fd' = [fd EXCEPT ![e][i] = NoEnd] /\ slot' = [slot EXCEPT ![e] = i] /\ Goto(e, "close")
        /\ UNCHANGED <<data, from, child, pipeVars, checkVars, cpus>>
    BY <1>2 DEF close
  <2>2. fd' \in [Envs -> [Slots -> Ends \cup {NoEnd}]]
    BY <1>0, <2>1, SetFd
  <2>3. slot' \in [Envs -> Slots]
    BY <2>1 DEF TypeOK
  <2> QED BY <1>0, <1>1, <2>1, <2>2, <2>3, TypeKept DEF pipeVars, checkVars
<1>3. CASE CloseData(e)
  <2>1. data' = [data EXCEPT ![e][slot[e]] = FALSE] /\ Done(e)
        /\ UNCHANGED <<fd, child, pipeVars, checkVars, cpus>>
    BY <1>3 DEF CloseData
  <2>2. data' \in [Envs -> [Slots -> BOOLEAN]]
    BY <1>0, <2>1, SetData
  <2> QED BY <1>0, <2>1, <2>2, IsDone, TypeKept DEF pipeVars, checkVars
<1>4. CASE exit(e)
  <2>1. /\ fd' = [fd EXCEPT ![e] = [i \in Slots |-> NoEnd]]
        /\ data' = [data EXCEPT ![e] = [i \in Slots |-> FALSE]]
        /\ Goto(e, "gone") /\ cpus' = cpus \ {e}
        /\ UNCHANGED <<callVars, pipeVars, checkVars>>
    BY <1>4 DEF exit
  <2>2. /\ fd' \in [Envs -> [Slots -> Ends \cup {NoEnd}]]
        /\ data' \in [Envs -> [Slots -> BOOLEAN]]
    BY <2>1 DEF TypeOK
  <2> QED BY <1>0, <1>1, <2>1, <2>2, TypeKept DEF pipeVars, checkVars, callVars
<1>5. ASSUME NEW i \in Slots, dup(e, i) PROVE TypeOK'
  <2>1. /\ from' = [from EXCEPT ![e] = i]
        /\ \/ fd' = [fd EXCEPT ![e][2] = NoEnd] /\ Goto(e, "dupclose")
           \/ fd' = fd /\ Goto(e, "dupdata")
        /\ UNCHANGED <<data, slot, child, pipeVars, checkVars, cpus>>
    BY <1>5 DEF dup
  <2>2. fd' = fd \/ fd' \in [Envs -> [Slots -> Ends \cup {NoEnd}]]
    BY <1>0, <2>1, SetFd
  <2>3. pc' \in [Envs -> Labels]
    BY <1>1, <2>1
  <2>4. from' \in [Envs -> 0 .. 6]
    BY <1>0, <2>1 DEF TypeOK
  <2> QED BY <1>0, <2>1, <2>2, <2>3, <2>4, TypeKept DEF pipeVars, checkVars
<1>6. CASE DupClose(e) \/ DupData(e)
  <2>1. /\ \E v \in BOOLEAN : data' = [data EXCEPT ![e][2] = v]
        /\ Goto(e, "dupdata") \/ Goto(e, "dupfd")
        /\ UNCHANGED <<fd, callVars, pipeVars, checkVars, cpus>>
    BY <1>6 DEF DupClose, DupData
  <2>2. data' \in [Envs -> [Slots -> BOOLEAN]]
    BY <1>0, <2>1, SetData
  <2>3. pc' \in [Envs -> Labels]
    BY <1>1, <2>1
  <2> QED BY <1>0, <2>1, <2>2, <2>3, TypeKept DEF pipeVars, checkVars, callVars
<1>7. CASE DupFd(e)
  <2>1. /\ fd' = [fd EXCEPT ![e][2] = fd[e][from[e]]] /\ Done(e) /\ pc[e] = "dupfd"
        /\ UNCHANGED <<data, child, pipeVars, checkVars, cpus>>
    BY <1>7 DEF DupFd, At
  <2>2. from[e] \in Slots
    BY <2>1 DEF CallsOK, CallOK, DupLabels, Slots
  <2>3. PICK v \in Ends \cup {NoEnd} : v = fd[e][from[e]]
    BY <2>2 DEF TypeOK
  <2>4. fd' \in [Envs -> [Slots -> Ends \cup {NoEnd}]]
    BY <1>0, <2>1, <2>3, SetFd
  <2> QED BY <1>0, <2>1, <2>4, IsDone, TypeKept DEF pipeVars, checkVars
<1> QED BY <1>2, <1>3, <1>4, <1>5, <1>6, <1>7

\* The end of a fork() sets two environments free.
LEMMA ForkEnds ==
    ASSUME TypeOK, CallsOK, NEW e \in Envs, ForkDone(e)
    PROVE  /\ child[e] \in Envs \ {e} /\ pc[e] = "fork" /\ pc[child[e]] = "unborn"
           /\ pc' \in [Envs -> Labels]
           /\ \A d \in Envs : pc'[d] = IF d = e \/ d = child[e] THEN "idle" ELSE pc[d]
<1>1. pc[e] = "fork" /\ pc' = [pc EXCEPT ![e] = "idle", ![child[e]] = "idle"]
  BY DEF ForkDone, At
<1>2. child[e] \in Envs \ {e} /\ pc[child[e]] = "unborn"
  BY <1>1 DEF CallsOK, ForkOK, TypeOK
<1>3. PICK c \in Envs : c = child[e]
  BY <1>2
<1>4. "idle" \in Labels /\ pc \in [Envs -> Labels]
  BY DEF Labels, TypeOK
<1> HIDE DEF Labels
<1>5. pc' = [[pc EXCEPT ![e] = "idle"] EXCEPT ![c] = "idle"]
  BY <1>1, <1>3
<1>6. \A d \in Envs : pc'[d] = IF d = e \/ d = c THEN "idle" ELSE pc[d]
  BY <1>4, <1>5
<1>7. pc' \in [Envs -> Labels]
  BY <1>4, <1>5
<1> QED BY <1>1, <1>2, <1>3, <1>6, <1>7

LEMMA TypeFork ==
    ASSUME TypeOK, CallsOK, NEW e \in Envs,
           (\E c \in Unborn : fork(e, c)) \/ duppage(e) \/ ForkDone(e)
    PROVE  TypeOK'
<1>0. from[e] \in 0 .. 6 /\ cpus \subseteq Envs /\ eof \in BOOLEAN
  BY DEF TypeOK
<1>1. CASE \E c \in Unborn : fork(e, c)
  <2>1. PICK c \in Envs : fork(e, c)
    BY <1>1, PipeAssumption
  <2>2. /\ child' = [child EXCEPT ![e] = c] /\ from' = [from EXCEPT ![e] = 0] /\ Goto(e, "fork")
        /\ UNCHANGED <<mapVars, slot, pipeVars, checkVars, cpus>>
    BY <2>1 DEF fork
  <2>3. child' \in [Envs -> Envs \cup {NoEnv}] /\ from' \in [Envs -> 0 .. 6]
    BY <2>2 DEF TypeOK
  <2>4. pc' \in [Envs -> Labels]
    BY <2>2, SetPc DEF Labels
  <2> QED BY <1>0, <2>2, <2>3, <2>4, TypeKept DEF pipeVars, checkVars, mapVars
<1>2. CASE duppage(e)
  <2>1. PICK k \in 0 .. 6 : k = from[e]
    BY <1>0
  <2>2. PICK c : c = child[e]
    OBVIOUS
  <2>3. /\ k < 6 /\ pc[e] = "fork"
        /\ \/ k < 3 /\ fd' = [fd EXCEPT ![c][k] = fd[e][k]] /\ data' = data
           \/ ~(k < 3) /\ data' = [data EXCEPT ![c][k - 3] = data[e][k - 3]] /\ fd' = fd
        /\ from' = [from EXCEPT ![e] = k + 1]
        /\ UNCHANGED <<pc, slot, child, pipeVars, checkVars, cpus>>
    BY <1>2, <2>1, <2>2 DEF duppage, At
  <2>4. c \in Envs
    BY <2>2, <2>3 DEF CallsOK, ForkOK, TypeOK
  <2>5. k + 1 \in 0 .. 6 /\ (k < 3 => k \in Slots) /\ (~(k < 3) => k - 3 \in Slots)
    BY <2>3 DEF Slots
  <2>6. from' \in [Envs -> 0 .. 6]
    BY <2>3, <2>5 DEF TypeOK
  <2>7. CASE k < 3
    <3>1. PICK v \in Ends \cup {NoEnd} : v = fd[e][k]
      BY <2>5, <2>7 DEF TypeOK
    <3>2. fd' \in [Envs -> [Slots -> Ends \cup {NoEnd}]]
      BY <2>3, <2>4, <2>5, <2>7, <3>1, SetFd
    <3> QED BY <1>0, <2>3, <2>6, <2>7, <3>2, TypeKept DEF pipeVars, checkVars
  <2>8. CASE ~(k < 3)
    <3>1. PICK v \in BOOLEAN, j \in Slots : v = data[e][k - 3] /\ j = k - 3
      BY <2>5, <2>8 DEF TypeOK
    <3>2. data' \in [Envs -> [Slots -> BOOLEAN]]
      BY <2>3, <2>4, <2>8, <3>1, SetData
    <3> QED BY <1>0, <2>3, <2>6, <2>8, <3>2, TypeKept DEF pipeVars, checkVars
  <2> QED BY <2>7, <2>8
<1>3. CASE ForkDone(e)
  <2>1. /\ child' = [child EXCEPT ![e] = NoEnv] /\ from' = [from EXCEPT ![e] = 0]
        /\ UNCHANGED <<mapVars, slot, pipeVars, checkVars, cpus>>
    BY <1>3 DEF ForkDone
  <2>2. child' \in [Envs -> Envs \cup {NoEnv}] /\ from' \in [Envs -> 0 .. 6]
    BY <2>1 DEF TypeOK
  <2>3. pc' \in [Envs -> Labels]
    BY <1>3, ForkEnds
  <2> QED BY <1>0, <2>1, <2>2, <2>3, TypeKept DEF pipeVars, checkVars, mapVars
<1> QED BY <1>1, <1>2, <1>3

\* The types of what a step of read(), write() or _pipeisclosed() changes.
LEMMA TypeCalls ==
    ASSUME TypeOK, UNCHANGED <<mapVars, child, cpus>>,
           pc' = pc \/ pc' \in [Envs -> Labels],
           slot' = slot \/ slot' \in [Envs -> Slots],
           from' = from \/ from' \in [Envs -> 0 .. 6],
           moved' = moved \/ moved' \in [Envs -> BOOLEAN],
           p_rpos' \in 0 .. MaxBytes, p_wpos' \in 0 .. MaxBytes,
           p_buf' = p_buf \/ p_buf' \in [0 .. PIPEBUFSIZ - 1 -> 0 .. MaxBytes],
           got' = got \/ got' \in Seq(1 .. MaxBytes),
           eof' = eof \/ eof' \in BOOLEAN
    PROVE  TypeOK'
BY DEF TypeOK, mapVars

LEMMA TypeRead ==
    ASSUME TypeOK, CallsOK, RingOK, NEW e \in Envs, read(e) \/ ReadTest(e) \/ Take(e)
    PROVE  TypeOK'
<1>0. /\ p_rpos \in 0 .. MaxBytes /\ p_wpos \in 0 .. MaxBytes /\ MaxBytes \in Nat
      /\ PIPEBUFSIZ \in Nat \ {0}
  BY PipeAssumption DEF TypeOK
<1>1. ASSUME NEW l \in {"rtest", "rtake", "rinc", "check"}, Goto(e, l)
      PROVE  pc' \in [Envs -> Labels]
  <2>1. l \in Labels
    BY DEF Labels
  <2> QED BY <1>1, <2>1, SetPc
<1>2. ASSUME NEW x \in {0, 1}, from' = [from EXCEPT ![e] = x] PROVE from' \in [Envs -> 0 .. 6]
  BY <1>2 DEF TypeOK
<1>3. CASE read(e)
  <2>1. /\ slot' = [slot EXCEPT ![e] = 0] /\ from' = [from EXCEPT ![e] = 0] /\ Goto(e, "rtest")
        /\ UNCHANGED <<mapVars, child, pipeVars, checkVars, cpus>>
    BY <1>3 DEF read
  <2>2. slot' \in [Envs -> Slots]
    BY <2>1 DEF TypeOK, Slots
  <2>3. from' \in [Envs -> 0 .. 6]
    BY <1>2, <2>1
  <2> QED BY <1>0, <1>1, <2>1, <2>2, <2>3, TypeCalls DEF pipeVars, checkVars
<1>4. CASE ReadTest(e)
  <2>1. /\ \/ (Goto(e, "rtake") \/ Goto(e, "check")) /\ UNCHANGED <<slot, from>>
           \/ Done(e)
        /\ UNCHANGED <<mapVars, child, pipeVars, checkVars, cpus>>
    BY <1>4 DEF ReadTest
  <2> QED BY <1>0, <1>1, <2>1, IsDone, TypeCalls DEF pipeVars, checkVars
<1>5. CASE ReadTake(e)
  <2>1. /\ pc[e] = "rtake" /\ got' = Append(got, p_buf[p_rpos % PIPEBUFSIZ]) /\ Goto(e, "rinc")
        /\ UNCHANGED <<mapVars, callVars, p_rpos, p_wpos, p_buf, eof, checkVars, cpus>>
    BY <1>5 DEF ReadTake, At
  <2>2. e = Reader
    BY <2>1 DEF CallsOK, CallOK, InRead, ReadLabels
  <2>3. p_rpos < p_wpos
    BY <2>1, <2>2 DEF RingOK
  <2>4. p_rpos \in p_rpos .. p_wpos - 1
    BY <1>0, <2>3
  <2>5. p_buf[p_rpos % PIPEBUFSIZ] = p_rpos + 1
    BY <2>4 DEF RingOK, Byte
  <2>6. p_rpos + 1 \in 1 .. MaxBytes
    BY <1>0, <2>3
  <2>7. got' \in Seq(1 .. MaxBytes)
    BY <2>1, <2>5, <2>6 DEF TypeOK
  <2> QED BY <1>0, <1>1, <2>1, <2>7, TypeCalls DEF callVars, checkVars
<1>6. CASE ReadInc(e)
  <2>1. /\ pc[e] = "rinc" /\ p_rpos' = p_rpos + 1
        /\ Done(e) \/ (Goto(e, "rtest") /\ from' = [from EXCEPT ![e] = 1] /\ UNCHANGED slot)
        /\ UNCHANGED <<mapVars, child, p_wpos, p_buf, got, eof, checkVars, cpus>>
    BY <1>6 DEF ReadInc, At
  <2>2. e = Reader
    BY <2>1 DEF CallsOK, CallOK, InRead, ReadLabels
  <2>3. p_rpos < p_wpos
    BY <2>1, <2>2 DEF RingOK
  <2>4. p_rpos' \in 0 .. MaxBytes
    BY <1>0, <2>1, <2>3
  <2> QED BY <1>0, <1>1, <1>2, <2>1, <2>4, IsDone, TypeCalls DEF checkVars
<1> QED BY <1>3, <1>4, <1>5, <1>6 DEF Take

LEMMA TypeWrite ==
    ASSUME TypeOK, CallsOK, RingOK, NEW e \in Envs,
           write(e) \/ WriteTest(e) \/ WriteStore(e) \/ WriteInc(e)
    PROVE  TypeOK'
<1>0. /\ p_rpos \in 0 .. MaxBytes /\ p_wpos \in 0 .. MaxBytes /\ MaxBytes \in Nat
      /\ PIPEBUFSIZ \in Nat \ {0}
  BY PipeAssumption DEF TypeOK
<1>1. ASSUME NEW l \in {"wtest", "wstore", "winc", "check"}, Goto(e, l)
      PROVE  pc' \in [Envs -> Labels]
  <2>1. l \in Labels
    BY DEF Labels
  <2> QED BY <1>1, <2>1, SetPc
<1>2. pc[e] \in WriteLabels => p_wpos < MaxBytes
  BY DEF CallsOK, CallOK, InWrite
<1>3. CASE write(e)
  <2>1. /\ slot' = [slot EXCEPT ![e] = 1] /\ Goto(e, "wtest")
        /\ UNCHANGED <<mapVars, from, child, pipeVars, checkVars, cpus>>
    BY <1>3 DEF write
  <2>2. slot' \in [Envs -> Slots]
    BY <2>1 DEF TypeOK, Slots
  <2> QED BY <1>0, <1>1, <2>1, <2>2, TypeCalls DEF pipeVars, checkVars
<1>4. CASE WriteTest(e)
  <2>1. /\ Goto(e, "wstore") \/ Goto(e, "check")
        /\ UNCHANGED <<mapVars, callVars, pipeVars, checkVars, cpus>>
    BY <1>4 DEF WriteTest
  <2> QED BY <1>0, <1>1, <2>1, TypeCalls DEF callVars, pipeVars, checkVars
<1>5. CASE WriteStore(e)
  <2>1. /\ pc[e] = "wstore" /\ p_buf' = [p_buf EXCEPT ![p_wpos % PIPEBUFSIZ] = p_wpos + 1]
        /\ Goto(e, "winc")
        /\ UNCHANGED <<mapVars, callVars, p_rpos, p_wpos, got, eof, checkVars, cpus>>
    BY <1>5 DEF WriteStore, At, Byte
  <2>2. p_wpos + 1 \in 0 .. MaxBytes
    BY <1>0, <1>2, <2>1 DEF WriteLabels
  <2>3. p_buf' \in [0 .. PIPEBUFSIZ - 1 -> 0 .. MaxBytes]
    BY <2>1, <2>2 DEF TypeOK
  <2> QED BY <1>0, <1>1, <2>1, <2>3, TypeCalls DEF callVars, checkVars
<1>6. CASE WriteInc(e)
  <2>1. /\ pc[e] = "winc" /\ p_wpos' = p_wpos + 1
        /\ Done(e) \/ (Goto(e, "wtest") /\ UNCHANGED <<slot, from>>)
        /\ UNCHANGED <<mapVars, child, p_rpos, p_buf, got, eof, checkVars, cpus>>
    BY <1>6 DEF WriteInc, At
  <2>2. p_wpos' \in 0 .. MaxBytes
    BY <1>0, <1>2, <2>1 DEF WriteLabels
  <2> QED BY <1>0, <1>1, <2>1, <2>2, IsDone, TypeCalls DEF checkVars
<1> QED BY <1>3, <1>4, <1>5, <1>6

LEMMA TypeCheck ==
    ASSUME TypeOK, NEW e \in Envs, Check(e)
    PROVE  TypeOK'
<1>0. p_rpos \in 0 .. MaxBytes /\ p_wpos \in 0 .. MaxBytes
  BY DEF TypeOK
<1>1. ASSUME NEW l \in {"check", "load", "closed", "rtest", "wtest"}, Goto(e, l)
      PROVE  pc' \in [Envs -> Labels]
  <2>1. l \in Labels
    BY DEF Labels
  <2> QED BY <1>1, <2>1, SetPc
<1>2. Forget(e) => moved' \in [Envs -> BOOLEAN]
  BY DEF Forget, TypeOK
<1>3. CASE CheckBegin(e)
  <2>1. Goto(e, "load") /\ UNCHANGED <<mapVars, callVars, pipeVars, checkVars, cpus>>
    BY <1>3 DEF CheckBegin
  <2> QED BY <1>0, <1>1, <2>1, TypeCalls DEF callVars, pipeVars, checkVars
<1>4. CASE LoadFd(e) \/ LoadPipe(e)
  <2>1. UNCHANGED <<mapVars, pc, callVars, pipeVars, moved, cpus>>
    BY <1>4 DEF LoadFd, LoadPipe
  <2> QED BY <1>0, <2>1, TypeCalls DEF callVars, pipeVars
<1>5. CASE CheckAgain(e)
  <2>1. Goto(e, "check") /\ Forget(e) /\ UNCHANGED <<mapVars, callVars, pipeVars, cpus>>
    BY <1>5 DEF CheckAgain
  <2> QED BY <1>0, <1>1, <1>2, <2>1, TypeCalls DEF callVars, pipeVars
<1>6. CASE CheckEnd(e)
  <2>1. /\ Goto(e, "closed") \/ Goto(e, "rtest") \/ Goto(e, "wtest")
        /\ eof' = eof \/ eof' = (eof \/ fd[e][slot[e]] = "r")
        /\ Forget(e) /\ UNCHANGED <<mapVars, callVars, p_rpos, p_wpos, p_buf, got, cpus>>
    BY <1>6 DEF CheckEnd
  <2>2. eof' \in BOOLEAN
    BY <2>1 DEF TypeOK
  <2> QED BY <1>0, <1>1, <1>2, <2>1, <2>2, TypeCalls DEF callVars
<1>7. CASE Return(e)
  <2>1. Done(e) /\ UNCHANGED <<mapVars, child, pipeVars, checkVars, cpus>>
    BY <1>7 DEF Return
  <2> QED BY <1>0, <2>1, IsDone, TypeCalls DEF pipeVars, checkVars
<1> QED BY <1>3, <1>4, <1>5, <1>6, <1>7 DEF Check

LEMMA TypeSwitch ==
    ASSUME TypeOK, Switches
    PROVE  TypeOK'
<1>1. PICK e \in Envs : /\ cpus' \subseteq Envs
                        /\ moved' = [moved EXCEPT ![e] = (pc[e] = "load")]
                        /\ UNCHANGED <<mapVars, pc, callVars, pipeVars, seen>>
  BY DEF Switches, Dispatch, Switch, TypeOK
<1>2. moved' \in [Envs -> BOOLEAN]
  BY <1>1 DEF TypeOK
<1> QED BY <1>1, <1>2, TypeKept DEF mapVars, callVars, pipeVars, TypeOK

-----------------------------------------------------------------------------
(* Where the environments are in their calls.                              *)

\* A step of e leaves the calls of the others alone, but for a child that
\* has not run.
OthersKept(e) ==
    \A d \in Envs \ {e} :
        /\ pc'[d] = pc[d] /\ slot'[d] = slot[d] /\ from'[d] = from[d]
        /\ fd'[d] = fd[d] \/ pc[d] = "unborn"
        /\ p_wpos' = p_wpos \/ d # Writer

InCall == ReadLabels \cup WriteLabels \cup CheckLabels

LEMMA OthersCall ==
    ASSUME CallsOK, NEW e \in Envs, OthersKept(e), NEW d \in Envs \ {e}
    PROVE  CallOK(d)'
<1>1. CallOK(d)
  BY DEF CallsOK
<1>2. /\ pc'[d] = pc[d] /\ slot'[d] = slot[d] /\ from'[d] = from[d]
      /\ fd'[d] = fd[d] \/ pc[d] = "unborn"
      /\ p_wpos' = p_wpos \/ d # Writer
  BY DEF OthersKept
<1>3. CASE pc[d] = "unborn"
  BY <1>2, <1>3 DEF CallOK, ReadLabels, WriteLabels, CheckLabels, DupLabels
<1>4. CASE fd'[d] = fd[d]
  <2>1. InRead(d) => InRead(d)'
    BY <1>2, <1>4 DEF InRead
  <2>2. InWrite(d) => InWrite(d)'
    BY <1>2, <1>4 DEF InWrite
  <2> QED BY <1>1, <1>2, <2>1, <2>2 DEF CallOK
<1> QED BY <1>2, <1>3, <1>4

\* Parents and children stay so while nobody begins or ends a fork().
LEMMA ForksKept ==
    ASSUME CallsOK, NEW e \in Envs, child' = child,
           \A d \in Envs : \/ pc'[d] = pc[d]
                           \/ pc[d] \notin {"fork", "unborn"} /\ pc'[d] # "fork",
           TypeOK
    PROVE  \A d \in Envs : ForkOK(d)'
<1> SUFFICES ASSUME NEW d \in Envs PROVE ForkOK(d)'
  OBVIOUS
<1>1. ForkOK(d)
  BY DEF CallsOK
<1>2. CASE child[d] = NoEnv
  BY <1>1, <1>2 DEF ForkOK
<1>3. CASE child[d] # NoEnv
  <2>1. child[d] \in Envs
    BY <1>3 DEF TypeOK
  <2>2. PICK c \in Envs : c = child[d]
    BY <2>1
  <2>3. pc[c] = "unborn" /\ pc'[c] = "unborn" /\ pc[d] = "fork" /\ pc'[d] = "fork"
    BY <1>1, <1>3, <2>2 DEF ForkOK
  <2> QED BY <1>1, <1>3, <2>2, <2>3 DEF ForkOK
<1> QED BY <1>2, <1>3

\* close(), exit(), dup() and what fork() does before its end.
MapStep(e) ==
    \/ \E i \in Slots : close(e, i) \/ dup(e, i)
    \/ CloseData(e) \/ exit(e) \/ DupClose(e) \/ DupData(e) \/ DupFd(e)

LEMMA MapStepCall ==
    ASSUME TypeOK, CallsOK, NEW e \in Envs, MapStep(e)
    PROVE  /\ OthersKept(e) /\ child' = child /\ UNCHANGED pipeVars
           /\ pc[e] \in {"idle", "close"} \cup DupLabels
           /\ pc'[e] \in {"idle", "close", "gone"} \cup DupLabels
           /\ pc'[e] \in DupLabels => from'[e] \in {0, 1}
<1>0. /\ NoEnd \in Ends \cup {NoEnd} /\ 2 \in Slots /\ 0 \in Slots
      /\ slot[e] \in Slots /\ from[e] \in 0 .. 6 /\ from \in [Envs -> 0 .. 6]
      /\ slot \in [Envs -> Slots] /\ fd \in [Envs -> [Slots -> Ends \cup {NoEnd}]]
  BY DEF TypeOK, Slots
<1>1. ASSUME NEW l \in {"close", "gone", "dupclose", "dupdata", "dupfd"}, Goto(e, l)
      PROVE  pc'[e] = l /\ \A d \in Envs \ {e} : pc'[d] = pc[d]
  <2>1. l \in Labels
    BY DEF Labels
  <2> QED BY <1>1, <2>1, SetPc
<1>2. ASSUME NEW i \in Slots, close(e, i)
      PROVE  /\ OthersKept(e) /\ child' = child /\ UNCHANGED pipeVars
             /\ pc[e] = "idle" /\ pc'[e] = "close"
  <2>1. fd' = [fd EXCEPT ![e][i] = NoEnd] /\ slot' = [slot EXCEPT ![e] = i] /\ Goto(e, "close")
        /\ pc[e] = "idle" /\ UNCHANGED <<data, from, child, pipeVars, checkVars, cpus>>
    BY <1>2 DEF close, At
  <2> QED BY <1>0, <1>1, <2>1 DEF OthersKept, pipeVars
<1>3. CASE CloseData(e)
  <2>1. Done(e) /\ pc[e] = "close" /\ UNCHANGED <<fd, child, pipeVars, checkVars, cpus>>
    BY <1>3 DEF CloseData, At
  <2> QED BY <2>1, IsDone DEF OthersKept, pipeVars, DupLabels
<1>4. CASE exit(e)
  <2>1. /\ fd' = [fd EXCEPT ![e] = [i \in Slots |-> NoEnd]]
        /\ Goto(e, "gone") /\ pc[e] = "idle"
        /\ UNCHANGED <<callVars, pipeVars, checkVars>>
    BY <1>4 DEF exit, At
  <2> QED BY <1>0, <1>1, <2>1 DEF OthersKept, pipeVars, callVars, DupLabels
<1>5. ASSUME NEW i \in Slots, dup(e, i)
      PROVE  /\ OthersKept(e) /\ child' = child /\ UNCHANGED pipeVars
             /\ pc[e] = "idle" /\ pc'[e] \in DupLabels /\ from'[e] \in {0, 1}
  <2>1. /\ from' = [from EXCEPT ![e] = i] /\ i # 2 /\ pc[e] = "idle"
        /\ \/ fd' = [fd EXCEPT ![e][2] = NoEnd] /\ Goto(e, "dupclose")
           \/ fd' = fd /\ Goto(e, "dupdata")
        /\ UNCHANGED <<data, slot, child, pipeVars, checkVars, cpus>>
    BY <1>5 DEF dup, At
  <2>2. from'[e] = i /\ i \in {0, 1}
    BY <1>0, <2>1 DEF Slots
  <2>3. pc'[e] \in DupLabels /\ \A d \in Envs \ {e} : pc'[d] = pc[d]
    BY <1>1, <2>1 DEF DupLabels
  <2>4. \A d \in Envs \ {e} : fd'[d] = fd[d] /\ from'[d] = from[d]
    BY <1>0, <2>1
  <2> QED BY <2>1, <2>2, <2>3, <2>4 DEF OthersKept, pipeVars
<1>6. CASE DupClose(e) \/ DupData(e)
  <2>1. /\ Goto(e, "dupdata") \/ Goto(e, "dupfd")
        /\ pc[e] \in DupLabels
        /\ UNCHANGED <<fd, callVars, pipeVars, checkVars, cpus>>
    BY <1>6 DEF DupClose, DupData, At, DupLabels
  <2>2. pc'[e] \in DupLabels /\ \A d \in Envs \ {e} : pc'[d] = pc[d]
    BY <1>1, <2>1 DEF DupLabels
  <2>3. from'[e] \in {0, 1}
    BY <2>1 DEF CallsOK, CallOK, callVars
  <2> QED BY <2>1, <2>2, <2>3 DEF OthersKept, pipeVars, callVars
<1>7. CASE DupFd(e)
  <2>1. /\ fd' = [fd EXCEPT ![e][2] = fd[e][from[e]]] /\ Done(e) /\ pc[e] = "dupfd"
        /\ UNCHANGED <<data, child, pipeVars, checkVars, cpus>>
    BY <1>7 DEF DupFd, At
  <2>2. pc'[e] = "idle" /\ \A d \in Envs \ {e} : pc'[d] = pc[d] /\ slot'[d] = slot[d] /\ from'[d] = from[d]
    BY <2>1, IsDone
  <2>3. \A d \in Envs \ {e} : fd'[d] = fd[d]
    BY <1>0, <2>1
  <2> QED BY <2>1, <2>2, <2>3 DEF OthersKept, pipeVars, DupLabels
<1>8. CASE \E i \in Slots : close(e, i)
  <2>1. PICK i \in Slots : close(e, i)
    BY <1>8
  <2> QED BY <1>2, <2>1 DEF DupLabels
<1>9. CASE \E i \in Slots : dup(e, i)
  <2>1. PICK i \in Slots : dup(e, i)
    BY <1>9
  <2> QED BY <1>5, <2>1
<1>10. \/ \E i \in Slots : close(e, i)
       \/ \E i \in Slots : dup(e, i)
       \/ CloseData(e) \/ exit(e) \/ DupClose(e) \/ DupData(e) \/ DupFd(e)
  BY DEF MapStep
<1> QED BY <1>3, <1>4, <1>6, <1>7, <1>8, <1>9, <1>10

LEMMA MapStepCalls ==
    ASSUME TypeOK, CallsOK, NEW e \in Envs, MapStep(e)
    PROVE  CallsOK'
<1>1. /\ OthersKept(e) /\ child' = child
      /\ pc[e] \in {"idle", "close"} \cup DupLabels
      /\ pc'[e] \in {"idle", "close", "gone"} \cup DupLabels
      /\ pc'[e] \in DupLabels => from'[e] \in {0, 1}
  BY MapStepCall
<1>2. CallOK(e)'
  BY <1>1 DEF CallOK, ReadLabels, WriteLabels, CheckLabels, DupLabels
<1>3. \A d \in Envs : \/ pc'[d] = pc[d]
                      \/ pc[d] \notin {"fork", "unborn"} /\ pc'[d] # "fork"
  BY <1>1 DEF OthersKept, DupLabels
<1>4. \A d \in Envs : ForkOK(d)'
  BY <1>1, <1>3, ForksKept
<1>5. \A d \in Envs : CallOK(d)'
  BY <1>1, <1>2, OthersCall
<1> QED BY <1>4, <1>5 DEF CallsOK


\* The steps of fork().
LEMMA ForkStepCalls ==
    ASSUME TypeOK, CallsOK, NEW e \in Envs,
           (\E c \in Unborn : fork(e, c)) \/ duppage(e) \/ ForkDone(e)
    PROVE  CallsOK'
<1>0. /\ from[e] \in 0 .. 6 /\ from \in [Envs -> 0 .. 6] /\ child \in [Envs -> Envs \cup {NoEnv}]
      /\ fd \in [Envs -> [Slots -> Ends \cup {NoEnd}]] /\ NoEnv \notin Envs
  BY PipeAssumption DEF TypeOK
<1>1. CASE \E c \in Unborn : fork(e, c)
  <2>1. PICK c \in Envs : fork(e, c)
    BY <1>1, PipeAssumption
  <2>2. /\ child' = [child EXCEPT ![e] = c] /\ from' = [from EXCEPT ![e] = 0] /\ Goto(e, "fork")
        /\ pc[e] = "idle" /\ pc[c] = "unborn" /\ \A d \in Envs : child[d] # c
        /\ UNCHANGED <<mapVars, slot, pipeVars, checkVars, cpus>>
    BY <2>1 DEF fork, At
  <2>3. pc'[e] = "fork" /\ \A d \in Envs \ {e} : pc'[d] = pc[d]
    BY <2>2, SetPc DEF Labels
  <2>4. OthersKept(e)
    BY <1>0, <2>2, <2>3 DEF OthersKept, pipeVars, mapVars
  <2>5. CallOK(e)'
    BY <2>3 DEF CallOK, ReadLabels, WriteLabels, CheckLabels, DupLabels
  <2>6. child'[e] = c /\ \A d \in Envs \ {e} : child'[d] = child[d]
    BY <1>0, <2>2
  <2>7. child[e] = NoEnv /\ \A d \in Envs : ForkOK(d)
    BY <2>2 DEF CallsOK, ForkOK
  <2>8. ForkOK(e)'
    BY <1>0, <2>2, <2>3, <2>6 DEF ForkOK
  <2>9. ASSUME NEW d \in Envs \ {e} PROVE ForkOK(d)'
    <3>1. ForkOK(d) /\ pc'[d] = pc[d] /\ child'[d] = child[d] /\ child[d] # c
      BY <2>2, <2>3, <2>6, <2>7
    <3>2. CASE child[d] = NoEnv
      BY <3>1, <3>2 DEF ForkOK
    <3>3. CASE child[d] # NoEnv
      <4>1. PICK b \in Envs : b = child[d]
        BY <1>0, <3>3
      <4>2. pc[b] = "unborn" /\ pc[d] = "fork"
        BY <3>1, <3>3, <4>1 DEF ForkOK
      <4>3. pc'[b] = "unborn"
        BY <2>2, <2>3, <4>2
      <4>4. \A a \in Envs : child'[a] = child'[d] => a = d
        BY <2>6, <3>1, <3>3 DEF ForkOK
      <4> QED BY <3>1, <3>3, <4>1, <4>2, <4>3, <4>4 DEF ForkOK
    <3> QED BY <3>2, <3>3
  <2> QED BY <2>4, <2>5, <2>8, <2>9, OthersCall DEF CallsOK
<1>2. CASE duppage(e)
  <2>1. PICK c \in Envs : c = child[e] /\ pc[e] = "fork" /\ pc[c] = "unborn"
    BY <1>0, <1>2 DEF duppage, At, CallsOK, ForkOK
  <2>2. /\ \/ fd' = [fd EXCEPT ![c][from[e]] = fd[e][from[e]]]
           \/ fd' = fd
        /\ from' = [from EXCEPT ![e] = from[e] + 1]
        /\ UNCHANGED <<pc, slot, child, pipeVars, checkVars, cpus>>
    BY <1>2, <2>1 DEF duppage
  <2>3. \A d \in Envs \ {e} : fd'[d] = fd[d] \/ d = c
    BY <1>0, <2>2
  <2>4. \A d \in Envs \ {e} : from'[d] = from[d]
    BY <1>0, <2>2
  <2>5. OthersKept(e)
    BY <2>1, <2>2, <2>3, <2>4 DEF OthersKept, pipeVars
  <2>6. CallOK(e)'
    BY <2>1, <2>2 DEF CallOK, ReadLabels, WriteLabels, CheckLabels, DupLabels
  <2>7. \A d \in Envs : ForkOK(d)'
    BY <2>2, ForksKept
  <2> QED BY <2>5, <2>6, <2>7, OthersCall DEF CallsOK
<1>3. CASE ForkDone(e)
  <2>1. PICK c \in Envs : c = child[e]
    BY <1>3, ForkEnds
  <2>2. /\ c # e /\ pc[e] = "fork" /\ pc[c] = "unborn"
        /\ \A d \in Envs : pc'[d] = IF d = e \/ d = c THEN "idle" ELSE pc[d]
    BY <1>3, <2>1, ForkEnds
  <2>3. /\ child' = [child EXCEPT ![e] = NoEnv] /\ from' = [from EXCEPT ![e] = 0]
        /\ UNCHANGED <<mapVars, slot, pipeVars, checkVars, cpus>>
    BY <1>3 DEF ForkDone
  <2>4. ASSUME NEW d \in {e, c} PROVE CallOK(d)'
    <3>1. pc'[d] = "idle"
      BY <2>2, <2>4
    <3> QED BY <3>1 DEF CallOK, ReadLabels, WriteLabels, CheckLabels, DupLabels
  <2>5. ASSUME NEW d \in Envs \ {e, c} PROVE CallOK(d)'
    <3>1. pc'[d] = pc[d] /\ from'[d] = from[d] /\ UNCHANGED <<fd, slot, p_wpos>>
      BY <1>0, <2>2, <2>3 DEF mapVars, pipeVars
    <3> QED BY <3>1 DEF CallsOK, CallOK, InRead, InWrite
  <2>6. child'[e] = NoEnv /\ \A d \in Envs \ {e} : child'[d] = child[d] /\ child[d] # c
    BY <1>0, <2>1, <2>2, <2>3 DEF CallsOK, ForkOK
  <2>7. ASSUME NEW d \in Envs PROVE ForkOK(d)'
    <3>1. CASE d = e
      BY <2>2, <2>6, <3>1 DEF ForkOK
    <3>2. CASE d = c
      <4>1. child[c] = NoEnv
        BY <2>2 DEF CallsOK, ForkOK
      <4> QED BY <2>2, <2>6, <3>2, <4>1 DEF ForkOK
    <3>3. CASE d \notin {e, c}
      <4>1. ForkOK(d) /\ pc'[d] = pc[d] /\ child'[d] = child[d] /\ child[d] # c
        BY <2>2, <2>6, <3>3 DEF CallsOK
      <4>2. CASE child[d] = NoEnv
        BY <4>1, <4>2 DEF ForkOK
      <4>3. CASE child[d] # NoEnv
        <5>1. PICK b \in Envs : b = child[d]
          BY <1>0, <4>3
        <5>2. pc[b] = "unborn" /\ pc[d] = "fork" /\ b # c /\ b # e
          BY <2>2, <4>1, <4>3, <5>1 DEF ForkOK
        <5>3. pc'[b] = "unborn"
          BY <2>2, <5>2
        <5>4. \A a \in Envs : child'[a] = child'[d] => a = d
          BY <2>6, <4>1, <4>3 DEF ForkOK
        <5> QED BY <4>1, <4>3, <5>1, <5>2, <5>3, <5>4 DEF ForkOK
      <4> QED BY <4>2, <4>3
    <3> QED BY <3>1, <3>2, <3>3
  <2> QED BY <2>4, <2>5, <2>7 DEF CallsOK
<1> QED BY <1>1, <1>2, <1>3

\* A step of a call of read(), write() or _pipeisclosed() that goes on at
\* label l, or that is over.
LEMMA StepCalls ==
    ASSUME TypeOK, CallsOK, NEW e \in Envs, pc[e] \notin {"unborn", "fork"},
           UNCHANGED <<mapVars, child>>,
           NEW l \in Labels \ {"fork"},
           \A d \in Envs : pc'[d] = IF d = e THEN l ELSE pc[d],
           \A d \in Envs \ {e} : slot'[d] = slot[d] /\ from'[d] = from[d],
           p_wpos' = p_wpos \/ e = Writer,
           CallOK(e)'
    PROVE  CallsOK'
<1>1. OthersKept(e)
  BY DEF OthersKept, mapVars
<1>2. \A d \in Envs : \/ pc'[d] = pc[d]
                      \/ pc[d] \notin {"fork", "unborn"} /\ pc'[d] # "fork"
  OBVIOUS
<1>3. \A d \in Envs : ForkOK(d)'
  BY <1>2, ForksKept
<1> QED BY <1>1, <1>3, OthersCall DEF CallsOK


\* In the next state an environment is outside read() and write(), or in one
\* of them with its descriptor in place.
LEMMA CallOutside ==
    ASSUME NEW e, pc'[e] \in {"idle", "closed"}
    PROVE  CallOK(e)'
BY DEF CallOK, ReadLabels, WriteLabels, CheckLabels, DupLabels

LEMMA CallInRead ==
    ASSUME NEW e, InRead(e)', pc'[e] \in ReadLabels \cup CheckLabels
    PROVE  CallOK(e)'
BY DEF CallOK, ReadLabels, WriteLabels, CheckLabels, DupLabels

LEMMA CallInWrite ==
    ASSUME NEW e, InWrite(e)', pc'[e] \in WriteLabels \cup CheckLabels
    PROVE  CallOK(e)'
BY DEF CallOK, ReadLabels, WriteLabels, CheckLabels, DupLabels

LEMMA ReadStepCalls ==
    ASSUME TypeOK, CallsOK, NEW e \in Envs, read(e) \/ ReadTest(e) \/ Take(e)
    PROVE  CallsOK'
<1>0. slot \in [Envs -> Slots] /\ from \in [Envs -> 0 .. 6]
  BY DEF TypeOK
<1>1. /\ pc[e] \in {"idle"} \cup ReadLabels
      /\ \/ Done(e)
         \/ /\ (Goto(e, "rtest") \/ Goto(e, "rtake") \/ Goto(e, "rinc") \/ Goto(e, "check"))
            /\ slot' = slot \/ slot' = [slot EXCEPT ![e] = 0]
            /\ from' = from \/ \E x \in 0 .. 6 : from' = [from EXCEPT ![e] = x]
            /\ InRead(e)'
      /\ UNCHANGED <<mapVars, child, p_wpos>>
  <2>1. pc[e] \in ReadLabels => InRead(e)
    BY DEF CallsOK, CallOK
  <2>2. CASE read(e)
    <3>1. InRead(e)'
      BY <1>0, <2>2 DEF read, InRead, mapVars
    <3>2. 0 \in 0 .. 6
      OBVIOUS
    <3> QED BY <2>2, <3>1, <3>2 DEF read, At, pipeVars
  <2>3. CASE ReadTest(e)
    <3>1. pc[e] \in ReadLabels /\ UNCHANGED mapVars
      BY <2>3 DEF ReadTest, At, ReadLabels
    <3>2. slot' = slot => InRead(e)'
      BY <2>1, <3>1 DEF InRead, mapVars
    <3> QED BY <2>3, <3>1, <3>2 DEF ReadTest, pipeVars
  <2>4. CASE ReadTake(e)
    <3>1. pc[e] \in ReadLabels /\ UNCHANGED mapVars
      BY <2>4 DEF ReadTake, At, ReadLabels
    <3>2. slot' = slot => InRead(e)'
      BY <2>1, <3>1 DEF InRead, mapVars
    <3> QED BY <2>4, <3>1, <3>2 DEF ReadTake, callVars
  <2>5. CASE ReadInc(e)
    <3>1. pc[e] \in ReadLabels /\ UNCHANGED mapVars
      BY <2>5 DEF ReadInc, At, ReadLabels
    <3>2. slot' = slot => InRead(e)'
      BY <2>1, <3>1 DEF InRead, mapVars
    <3>3. 1 \in 0 .. 6
      OBVIOUS
    <3> QED BY <2>5, <3>1, <3>2, <3>3 DEF ReadInc
  <2> QED BY <2>2, <2>3, <2>4, <2>5 DEF Take
<1>2. pc[e] \notin {"unborn", "fork"}
  BY <1>1 DEF ReadLabels
<1>3. CASE Done(e)
  <2>1. "idle" \in Labels \ {"fork"}
    BY DEF Labels
  <2>2. CallOK(e)'
    BY <1>3, IsDone, CallOutside
  <2> QED BY <1>1, <1>2, <1>3, <2>1, <2>2, IsDone, StepCalls
<1>4. CASE ~Done(e)
  <2>1. PICK l \in {"rtest", "rtake", "rinc", "check"} : Goto(e, l)
    BY <1>1, <1>4
  <2>2. l \in Labels \ {"fork"} /\ l \in ReadLabels \cup CheckLabels
    BY DEF Labels, ReadLabels, CheckLabels
  <2>3. \A d \in Envs : pc'[d] = IF d = e THEN l ELSE pc[d]
    BY <2>1, <2>2, SetPc
  <2>4. \A d \in Envs \ {e} : slot'[d] = slot[d] /\ from'[d] = from[d]
    BY <1>0, <1>1, <1>4
  <2>5. CallOK(e)'
    BY <1>1, <1>4, <2>2, <2>3, CallInRead
  <2> QED BY <1>1, <1>2, <2>2, <2>3, <2>4, <2>5, StepCalls
<1> QED BY <1>3, <1>4

LEMMA WriteStepCalls ==
    ASSUME TypeOK, CallsOK, NEW e \in Envs,
           write(e) \/ WriteTest(e) \/ WriteStore(e) \/ WriteInc(e)
    PROVE  CallsOK'
<1>0. slot \in [Envs -> Slots] /\ from \in [Envs -> 0 .. 6]
  BY DEF TypeOK
<1>1. /\ pc[e] \in {"idle"} \cup WriteLabels
      /\ \/ Done(e)
         \/ /\ (Goto(e, "wtest") \/ Goto(e, "wstore") \/ Goto(e, "winc") \/ Goto(e, "check"))
            /\ slot' = slot \/ slot' = [slot EXCEPT ![e] = 1]
            /\ from' = from
            /\ InWrite(e)'
      /\ UNCHANGED <<mapVars, child>> /\ e = Writer
  <2>1. pc[e] \in WriteLabels => InWrite(e)
    BY DEF CallsOK, CallOK
  <2>2. CASE write(e)
    <3>1. InWrite(e)'
      BY <1>0, <2>2 DEF write, InWrite, mapVars, pipeVars
    <3> QED BY <2>2, <3>1 DEF write, At
  <2>3. CASE WriteTest(e)
    <3>1. pc[e] \in WriteLabels /\ UNCHANGED <<mapVars, callVars, p_wpos>>
      BY <2>3 DEF WriteTest, At, WriteLabels, pipeVars
    <3>2. InWrite(e) /\ InWrite(e)'
      BY <2>1, <3>1 DEF InWrite, mapVars, callVars
    <3> QED BY <2>3, <3>1, <3>2 DEF WriteTest, callVars, InWrite
  <2>4. CASE WriteStore(e)
    <3>1. pc[e] \in WriteLabels /\ UNCHANGED <<mapVars, callVars, p_wpos>>
      BY <2>4 DEF WriteStore, At, WriteLabels
    <3>2. InWrite(e) /\ InWrite(e)'
      BY <2>1, <3>1 DEF InWrite, mapVars, callVars
    <3> QED BY <2>4, <3>1, <3>2 DEF WriteStore, callVars, InWrite
  <2>5. CASE WriteInc(e)
    <3>1. pc[e] \in WriteLabels /\ UNCHANGED <<mapVars, child>>
      BY <2>5 DEF WriteInc, At, WriteLabels
    <3>2. InWrite(e)
      BY <2>1, <3>1
    <3>3. slot' = slot /\ p_wpos' < MaxBytes => InWrite(e)'
      BY <3>1, <3>2 DEF InWrite, mapVars
    <3> QED BY <2>5, <3>1, <3>2, <3>3 DEF WriteInc, InWrite
  <2> QED BY <2>2, <2>3, <2>4, <2>5
<1>2. pc[e] \notin {"unborn", "fork"}
  BY <1>1 DEF WriteLabels
<1>3. CASE Done(e)
  <2>1. "idle" \in Labels \ {"fork"}
    BY DEF Labels
  <2>2. CallOK(e)'
    BY <1>3, IsDone, CallOutside
  <2> QED BY <1>1, <1>2, <1>3, <2>1, <2>2, IsDone, StepCalls
<1>4. CASE ~Done(e)
  <2>1. PICK l \in {"wtest", "wstore", "winc", "check"} : Goto(e, l)
    BY <1>1, <1>4
  <2>2. l \in Labels \ {"fork"} /\ l \in WriteLabels \cup CheckLabels
    BY DEF Labels, WriteLabels, CheckLabels
  <2>3. \A d \in Envs : pc'[d] = IF d = e THEN l ELSE pc[d]
    BY <2>1, <2>2, SetPc
  <2>4. \A d \in Envs \ {e} : slot'[d] = slot[d] /\ from'[d] = from[d]
    BY <1>0, <1>1, <1>4
  <2>5. CallOK(e)'
    BY <1>1, <1>4, <2>2, <2>3, CallInWrite
  <2> QED BY <1>1, <1>2, <2>2, <2>3, <2>4, <2>5, StepCalls
<1> QED BY <1>3, <1>4

LEMMA CheckStepCalls ==
    ASSUME TypeOK, CallsOK, NEW e \in Envs, Check(e)
    PROVE  CallsOK'
<1>1. UNCHANGED <<mapVars, child, p_wpos>>
  BY DEF Check, CheckBegin, LoadFd, LoadPipe, CheckAgain, CheckEnd, Return, callVars, pipeVars
<1>2. pc[e] \in CheckLabels \cup {"closed"}
  BY DEF Check, CheckBegin, LoadFd, LoadPipe, CheckAgain, CheckEnd, Return, At, CheckLabels
<1>3. pc[e] \notin {"unborn", "fork"}
  BY <1>2 DEF CheckLabels
<1>4. CASE Return(e)
  <2>1. Done(e) /\ "idle" \in Labels \ {"fork"}
    BY <1>4 DEF Return, Labels
  <2>2. CallOK(e)'
    BY <2>1, IsDone, CallOutside
  <2> QED BY <1>1, <1>3, <2>1, <2>2, IsDone, StepCalls
<1>5. CASE ~Return(e)
  <2>1. pc[e] \in CheckLabels /\ UNCHANGED callVars
    BY <1>5 DEF Check, CheckBegin, LoadFd, LoadPipe, CheckAgain, CheckEnd, At, CheckLabels
  <2>2. InRead(e) \/ InWrite(e)
    BY <2>1 DEF CallsOK, CallOK
  <2>3. (InRead(e) => InRead(e)') /\ (InWrite(e) => InWrite(e)')
    BY <1>1, <2>1 DEF InRead, InWrite, mapVars, callVars
  <2>4. \/ pc' = pc
        \/ Goto(e, "check") \/ Goto(e, "load") \/ Goto(e, "closed")
        \/ fd[e][slot[e]] = "r" /\ Goto(e, "rtest")
        \/ fd[e][slot[e]] # "r" /\ Goto(e, "wtest")
    BY <1>5 DEF Check, CheckBegin, LoadFd, LoadPipe, CheckAgain, CheckEnd
  <2>5. PICK l \in Labels \ {"fork"} :
            /\ \A d \in Envs : pc'[d] = IF d = e THEN l ELSE pc[d]
            /\ \/ l \in CheckLabels \cup {"closed"}
               \/ l = "rtest" /\ fd[e][slot[e]] = "r"
               \/ l = "wtest" /\ fd[e][slot[e]] # "r"
    <3>1. CASE pc' = pc
      <4>1. pc[e] \in Labels \ {"fork"}
        BY <1>3 DEF TypeOK
      <4> QED BY <2>1, <3>1, <4>1
    <3>2. CASE pc' # pc
      <4>1. PICK l \in {"check", "load", "closed", "rtest", "wtest"} :
                /\ Goto(e, l)
                /\ (l = "rtest" => fd[e][slot[e]] = "r") /\ (l = "wtest" => fd[e][slot[e]] # "r")
        BY <2>4, <3>2
      <4>2. l \in Labels \ {"fork"}
        BY DEF Labels
      <4>3. \A d \in Envs : pc'[d] = IF d = e THEN l ELSE pc[d]
        BY <4>1, <4>2, SetPc
      <4>4. l \in CheckLabels \cup {"closed", "rtest", "wtest"}
        BY DEF CheckLabels
      <4> QED BY <4>1, <4>2, <4>3, <4>4
    <3> QED BY <3>1, <3>2
  <2>6. pc'[e] = l
    BY <2>5
  <2>7. CASE InRead(e)
    <3>1. fd[e][slot[e]] = "r"
      BY <2>7 DEF InRead
    <3>2. CallOK(e)'
      BY <2>3, <2>5, <2>6, <2>7, <3>1, CallInRead, CallOutside DEF ReadLabels
    <3> QED BY <1>1, <1>3, <2>1, <2>5, <3>2, StepCalls DEF callVars
  <2>8. CASE InWrite(e)
    <3>1. fd[e][slot[e]] = "w"
      BY <2>8 DEF InWrite
    <3>2. CallOK(e)'
      BY <2>3, <2>5, <2>6, <2>8, <3>1, CallInWrite, CallOutside DEF WriteLabels
    <3> QED BY <1>1, <1>3, <2>1, <2>5, <3>2, StepCalls DEF callVars
  <2> QED BY <2>2, <2>7, <2>8
<1> QED BY <1>4, <1>5


LEMMA SwitchCalls ==
    ASSUME CallsOK, UNCHANGED <<mapVars, pc, callVars, p_wpos>>
    PROVE  CallsOK'
<1> SUFFICES ASSUME NEW e \in Envs PROVE CallOK(e)' /\ ForkOK(e)'
  BY DEF CallsOK
<1>1. CallOK(e) /\ ForkOK(e)
  BY DEF CallsOK
<1>2. (InRead(e) => InRead(e)') /\ (InWrite(e) => InWrite(e)')
  BY DEF InRead, InWrite, mapVars, callVars
<1> QED BY <1>1, <1>2 DEF CallOK, ForkOK, callVars

-----------------------------------------------------------------------------
(* The bytes in the pipe.                                                  *)

\* A step that touches nothing of the pipe, and does not get past the test
\* of a loop.
LEMMA RingKept ==
    ASSUME RingOK, UNCHANGED <<p_rpos, p_wpos, p_buf, got>>,
           \/ pc'[Reader] = pc[Reader]
           \/ pc[Reader] # "rinc" /\ pc'[Reader] \notin {"rtake", "rinc"},
           \/ pc'[Writer] = pc[Writer]
           \/ pc'[Writer] \notin {"wstore", "winc"}
    PROVE  RingOK'
<1>1. InOrder'
  BY DEF RingOK, InOrder
<1>2. /\ p_rpos' <= p_wpos' /\ p_wpos' <= p_rpos' + PIPEBUFSIZ
      /\ pc'[Reader] \in {"rtake", "rinc"} => p_rpos' < p_wpos'
      /\ pc'[Writer] \in {"wstore", "winc"} => p_wpos' < p_rpos' + PIPEBUFSIZ
      /\ \A k \in p_rpos' .. p_wpos' - 1 : p_buf'[k % PIPEBUFSIZ] = Byte(k)
  BY DEF RingOK
<1>3. /\ pc'[Writer] = "winc" => p_buf'[p_wpos' % PIPEBUFSIZ] = Byte(p_wpos')
      /\ pc'[Reader] = "rinc" => Len(got') = p_rpos' + 1
      /\ pc'[Reader] # "rinc" => Len(got') = p_rpos'
  BY DEF RingOK
<1> QED BY <1>1, <1>2, <1>3 DEF RingOK

LEMMA MapStepRing ==
    ASSUME TypeOK, CallsOK, RingOK, NEW e \in Envs, MapStep(e)
    PROVE  RingOK'
<1>1. /\ OthersKept(e) /\ UNCHANGED pipeVars
      /\ pc[e] \in {"idle", "close"} \cup DupLabels
      /\ pc'[e] \in {"idle", "close", "gone"} \cup DupLabels
  BY MapStepCall
<1>2. \A d \in Envs : \/ pc'[d] = pc[d]
                      \/ pc[d] # "rinc" /\ pc'[d] \notin {"rtake", "rinc", "wstore", "winc"}
  BY <1>1 DEF OthersKept, DupLabels
<1> QED BY <1>1, <1>2, RingKept, PipeAssumption DEF pipeVars

LEMMA ForkStepRing ==
    ASSUME TypeOK, CallsOK, RingOK, NEW e \in Envs,
           (\E c \in Unborn : fork(e, c)) \/ duppage(e) \/ ForkDone(e)
    PROVE  RingOK'
<1>1. UNCHANGED pipeVars
  BY DEF fork, duppage, ForkDone
<1>2. \A d \in Envs : \/ pc'[d] = pc[d]
                      \/ pc[d] # "rinc" /\ pc'[d] \notin {"rtake", "rinc", "wstore", "winc"}
  <2>1. CASE \E c \in Unborn : fork(e, c)
    <3>1. pc[e] = "idle" /\ Goto(e, "fork") /\ "fork" \in Labels
      BY <2>1 DEF fork, At, Labels
    <3> QED BY <3>1, SetPc
  <2>2. CASE duppage(e)
    BY <2>2 DEF duppage
  <2>3. CASE ForkDone(e)
    BY <2>3, ForkEnds
  <2> QED BY <2>1, <2>2, <2>3
<1> QED BY <1>1, <1>2, RingKept, PipeAssumption DEF pipeVars

LEMMA CheckStepRing ==
    ASSUME TypeOK, CallsOK, RingOK, NEW e \in Envs, Check(e)
    PROVE  RingOK'
<1>1. UNCHANGED <<p_rpos, p_wpos, p_buf, got>>
  BY DEF Check, CheckBegin, LoadFd, LoadPipe, CheckAgain, CheckEnd, Return, pipeVars
<1>2. pc[e] \in {"check", "load", "closed"}
  BY DEF Check, CheckBegin, LoadFd, LoadPipe, CheckAgain, CheckEnd, Return, At
<1>3. \/ pc' = pc
      \/ \E l \in {"check", "load", "closed", "rtest", "wtest", "idle"} : Goto(e, l)
  BY DEF Check, CheckBegin, LoadFd, LoadPipe, CheckAgain, CheckEnd, Return, Done
<1>4. {"check", "load", "closed", "rtest", "wtest", "idle"} \subseteq Labels
  BY DEF Labels
<1>5. \A d \in Envs : \/ pc'[d] = pc[d]
                      \/ pc[d] # "rinc" /\ pc'[d] \notin {"rtake", "rinc", "wstore", "winc"}
  BY <1>2, <1>3, <1>4, SetPc
<1> QED BY <1>1, <1>5, RingKept, PipeAssumption

LEMMA ReadStepRing ==
    ASSUME TypeOK, CallsOK, RingOK, NEW e \in Envs, read(e) \/ ReadTest(e) \/ Take(e)
    PROVE  RingOK'
<1>0. /\ p_rpos \in Nat /\ p_wpos \in Nat /\ PIPEBUFSIZ \in Nat \ {0} /\ got \in Seq(1 .. MaxBytes)
      /\ Reader \in Envs /\ Writer \in Envs \ {Reader}
      /\ p_rpos <= p_wpos /\ p_wpos <= p_rpos + PIPEBUFSIZ
  BY PipeAssumption DEF TypeOK, RingOK
<1>1. e = Reader
  <2>1. pc[e] \in ReadLabels => InRead(e)
    BY DEF CallsOK, CallOK
  <2> QED BY <2>1 DEF read, ReadTest, Take, ReadTake, ReadInc, At, ReadLabels, InRead
<1>2. ASSUME NEW l \in {"rtest", "rtake", "rinc", "check", "idle"}, Goto(e, l)
      PROVE  pc'[Reader] = l /\ pc'[Writer] = pc[Writer]
  <2>1. l \in Labels
    BY DEF Labels
  <2> QED BY <1>0, <1>1, <1>2, <2>1, SetPc
<1>3. CASE read(e)
  <2>1. Goto(e, "rtest") /\ pc[e] = "idle" /\ UNCHANGED pipeVars
    BY <1>3 DEF read, At
  <2> QED BY <1>1, <1>2, <2>1, RingKept DEF pipeVars
<1>4. CASE ReadTest(e)
  <2>1. pc[e] = "rtest" /\ UNCHANGED pipeVars
    BY <1>4 DEF ReadTest, At
  <2>2. CASE Goto(e, "check") \/ Done(e)
    <3>1. pc'[Reader] \in {"check", "idle"} /\ pc'[Writer] = pc[Writer]
      BY <1>2, <2>2 DEF Done
    <3> QED BY <1>1, <2>1, <3>1, RingKept DEF pipeVars
  <2>3. CASE ~Empty /\ Goto(e, "rtake")
    <3>1. pc'[Reader] = "rtake" /\ pc'[Writer] = pc[Writer]
      BY <1>2, <2>3
    <3>2. p_rpos < p_wpos
      BY <1>0, <2>3 DEF Empty
    <3>3. InOrder'
      BY <2>1 DEF RingOK, InOrder, pipeVars
    <3> QED BY <1>1, <2>1, <3>1, <3>2, <3>3 DEF RingOK, pipeVars
  <2> QED BY <1>4, <2>2, <2>3 DEF ReadTest
<1>5. CASE ReadTake(e)
  <2>1. /\ pc[e] = "rtake" /\ got' = Append(got, p_buf[p_rpos % PIPEBUFSIZ]) /\ Goto(e, "rinc")
        /\ UNCHANGED <<p_rpos, p_wpos, p_buf>>
    BY <1>5 DEF ReadTake, At
  <2>2. pc'[Reader] = "rinc" /\ pc'[Writer] = pc[Writer]
    BY <1>2, <2>1
  <2>3. p_rpos < p_wpos /\ Len(got) = p_rpos
    BY <1>1, <2>1 DEF RingOK
  <2>4. p_buf[p_rpos % PIPEBUFSIZ] = Byte(p_rpos)
    <3>1. p_rpos \in p_rpos .. p_wpos - 1
      BY <1>0, <2>3
    <3> QED BY <3>1 DEF RingOK
  <2>5. /\ Len(got') = p_rpos + 1
        /\ \A k \in DOMAIN got' : got'[k] = IF k = p_rpos + 1 THEN Byte(p_rpos) ELSE got[k]
        /\ \A k \in DOMAIN got' : k = p_rpos + 1 \/ k \in DOMAIN got
    BY <1>0, <2>1, <2>3, <2>4
  <2>6. InOrder'
    <3>1. (p_rpos + 1) - 1 = p_rpos
      BY <1>0
    <3> QED BY <2>5, <3>1 DEF InOrder, RingOK
  <2> QED BY <1>1, <2>1, <2>2, <2>3, <2>5, <2>6 DEF RingOK
<1>6. CASE ReadInc(e)
  <2>1. /\ pc[e] = "rinc" /\ p_rpos' = p_rpos + 1 /\ (Done(e) \/ Goto(e, "rtest"))
        /\ UNCHANGED <<p_wpos, p_buf, got>>
    BY <1>6 DEF ReadInc, At
  <2>2. pc'[Reader] \in {"idle", "rtest"} /\ pc'[Writer] = pc[Writer]
    BY <1>2, <2>1 DEF Done
  <2>3. p_rpos < p_wpos /\ Len(got) = p_rpos + 1
    BY <1>1, <2>1 DEF RingOK
  <2>4. p_rpos' <= p_wpos' /\ p_wpos' <= p_rpos' + PIPEBUFSIZ
        /\ (p_wpos < p_rpos + PIPEBUFSIZ => p_wpos' < p_rpos' + PIPEBUFSIZ)
    BY <1>0, <2>1, <2>3
  <2>5. \A k \in p_rpos' .. p_wpos' - 1 : k \in p_rpos .. p_wpos - 1
    BY <1>0, <2>1
  <2>6. InOrder'
    BY <2>1 DEF InOrder, RingOK
  <2> QED BY <2>1, <2>2, <2>3, <2>4, <2>5, <2>6 DEF RingOK
<1> QED BY <1>3, <1>4, <1>5, <1>6 DEF Take

LEMMA WriteStepRing ==
    ASSUME TypeOK, CallsOK, RingOK, NEW e \in Envs,
           write(e) \/ WriteTest(e) \/ WriteStore(e) \/ WriteInc(e)
    PROVE  RingOK'
<1>0. /\ p_rpos \in Nat /\ p_wpos \in Nat /\ PIPEBUFSIZ \in Nat \ {0}
      /\ p_buf \in [0 .. PIPEBUFSIZ - 1 -> 0 .. MaxBytes]
      /\ Writer \in Envs /\ Reader \in Envs \ {Writer}
      /\ p_rpos <= p_wpos /\ p_wpos <= p_rpos + PIPEBUFSIZ
  BY PipeAssumption DEF TypeOK, RingOK
<1>1. e = Writer
  <2>1. pc[e] \in WriteLabels => InWrite(e)
    BY DEF CallsOK, CallOK
  <2> QED BY <2>1 DEF write, WriteTest, WriteStore, WriteInc, At, WriteLabels, InWrite
<1>2. ASSUME NEW l \in {"wtest", "wstore", "winc", "check", "idle"}, Goto(e, l)
      PROVE  pc'[Writer] = l /\ pc'[Reader] = pc[Reader]
  <2>1. l \in Labels
    BY DEF Labels
  <2> QED BY <1>0, <1>1, <1>2, <2>1, SetPc
<1>3. CASE write(e)
  <2>1. Goto(e, "wtest") /\ UNCHANGED pipeVars
    BY <1>3 DEF write
  <2> QED BY <1>2, <2>1, RingKept DEF pipeVars
<1>4. CASE WriteTest(e)
  <2>1. UNCHANGED pipeVars
    BY <1>4 DEF WriteTest
  <2>2. CASE Full
    <3>1. pc'[Writer] = "check" /\ pc'[Reader] = pc[Reader]
      BY <1>2, <1>4, <2>2 DEF WriteTest
    <3> QED BY <2>1, <3>1, RingKept DEF pipeVars
  <2>3. CASE ~Full
    <3>1. pc'[Writer] = "wstore" /\ pc'[Reader] = pc[Reader]
      BY <1>2, <1>4, <2>3 DEF WriteTest
    <3>2. p_wpos < p_rpos + PIPEBUFSIZ
      BY <1>0, <2>3 DEF Full
    <3>3. InOrder'
      BY <2>1 DEF RingOK, InOrder, pipeVars
    <3> QED BY <2>1, <3>1, <3>2, <3>3 DEF RingOK, pipeVars
  <2> QED BY <2>2, <2>3
<1>5. CASE WriteStore(e)
  <2>1. /\ pc[e] = "wstore" /\ p_buf' = [p_buf EXCEPT ![p_wpos % PIPEBUFSIZ] = Byte(p_wpos)]
        /\ Goto(e, "winc") /\ UNCHANGED <<p_rpos, p_wpos, got>>
    BY <1>5 DEF WriteStore, At
  <2>2. pc'[Writer] = "winc" /\ pc'[Reader] = pc[Reader]
    BY <1>2, <2>1
  <2>3. p_wpos < p_rpos + PIPEBUFSIZ
    BY <1>1, <2>1 DEF RingOK
  <2>4. PICK w \in 0 .. PIPEBUFSIZ - 1 : w = p_wpos % PIPEBUFSIZ
    BY <1>0, ModRange
  <2>5. p_buf'[w] = Byte(p_wpos) /\ \A x \in 0 .. PIPEBUFSIZ - 1 : x # w => p_buf'[x] = p_buf[x]
    BY <1>0, <2>1, <2>4
  <2>6. ASSUME NEW k \in p_rpos .. p_wpos - 1 PROVE p_buf'[k % PIPEBUFSIZ] = Byte(k)
    <3>1. k \in Nat /\ k < p_wpos /\ p_wpos < k + PIPEBUFSIZ
      BY <1>0, <2>3
    <3>2. k % PIPEBUFSIZ # w
      BY <1>0, <2>4, <3>1, ModApart
    <3>3. PICK x \in 0 .. PIPEBUFSIZ - 1 : x = k % PIPEBUFSIZ
      BY <1>0, <3>1, ModRange
    <3>4. p_buf[x] = Byte(k)
      BY <3>3 DEF RingOK
    <3> QED BY <2>5, <3>2, <3>3, <3>4
  <2>7. InOrder'
    BY <2>1 DEF InOrder, RingOK
  <2> QED BY <1>1, <2>1, <2>2, <2>3, <2>4, <2>5, <2>6, <2>7 DEF RingOK
<1>6. CASE WriteInc(e)
  <2>1. /\ pc[e] = "winc" /\ p_wpos' = p_wpos + 1 /\ (Done(e) \/ Goto(e, "wtest"))
        /\ UNCHANGED <<p_rpos, p_buf, got>>
    BY <1>6 DEF WriteInc, At
  <2>2. pc'[Writer] \in {"idle", "wtest"} /\ pc'[Reader] = pc[Reader]
    BY <1>2, <2>1 DEF Done
  <2>3. p_wpos < p_rpos + PIPEBUFSIZ /\ p_buf[p_wpos % PIPEBUFSIZ] = Byte(p_wpos)
    BY <1>1, <2>1 DEF RingOK
  <2>4. p_rpos' <= p_wpos' /\ p_wpos' <= p_rpos' + PIPEBUFSIZ
        /\ (p_rpos < p_wpos => p_rpos' < p_wpos')
    BY <1>0, <2>1, <2>3
  <2>5. \A k \in p_rpos' .. p_wpos' - 1 : k = p_wpos \/ k \in p_rpos .. p_wpos - 1
    BY <1>0, <2>1
  <2>6. \A k \in p_rpos' .. p_wpos' - 1 : p_buf'[k % PIPEBUFSIZ] = Byte(k)
    BY <2>1, <2>3, <2>5 DEF RingOK
  <2>7. InOrder'
    BY <2>1 DEF InOrder, RingOK
  <2> QED BY <2>1, <2>2, <2>4, <2>6, <2>7 DEF RingOK
<1> QED BY <1>3, <1>4, <1>5, <1>6


-----------------------------------------------------------------------------
(* The invariant.                                                          *)

LEMMA InvInit == Init => Inv
<1> SUFFICES ASSUME Init PROVE Inv
  OBVIOUS
<1>1. TypeOK
  <2>1. /\ {"r", "w", NoEnd} \subseteq Ends \cup {NoEnd} /\ {"idle", "unborn"} \subseteq Labels
        /\ 0 \in Slots /\ 0 \in 0 .. MaxBytes /\ Born \subseteq Envs
    BY PipeAssumption DEF Ends, Labels, Slots, Born
  <2>2. /\ fd \in [Envs -> [Slots -> Ends \cup {NoEnd}]] /\ data \in [Envs -> [Slots -> BOOLEAN]]
    BY <2>1 DEF Init
  <2>3. /\ p_rpos \in 0 .. MaxBytes /\ p_wpos \in 0 .. MaxBytes
        /\ p_buf \in [0 .. PIPEBUFSIZ - 1 -> 0 .. MaxBytes]
    BY <2>1 DEF Init
  <2>4. got \in Seq(1 .. MaxBytes) /\ eof \in BOOLEAN /\ pc \in [Envs -> Labels]
    <3>1. got = <<>> /\ eof = FALSE
      BY DEF Init
    <3>2. pc \in [Envs -> {"idle", "unborn"}]
      BY DEF Init
    <3>3. pc \in [Envs -> Labels]
      BY <2>1, <3>2
    <3>4. <<>> \in Seq(1 .. MaxBytes)
      OBVIOUS
    <3> QED BY <3>1, <3>3, <3>4
  <2>5. /\ slot \in [Envs -> Slots] /\ from \in [Envs -> 0 .. 6]
        /\ child \in [Envs -> Envs \cup {NoEnv}] /\ moved \in [Envs -> BOOLEAN]
    BY <2>1 DEF Init
  <2>6. cpus \subseteq Envs
    BY <2>1 DEF Init
  <2> QED BY <2>2, <2>3, <2>4, <2>5, <2>6 DEF TypeOK
<1>2. \A e \in Envs : pc[e] \in {"idle", "unborn"} /\ child[e] = NoEnv
  BY DEF Init
<1>3. CallsOK
  BY <1>2 DEF CallsOK, CallOK, ForkOK, ReadLabels, WriteLabels, CheckLabels, DupLabels
<1>4. RingOK
  <2>1. pc[Reader] \in {"idle", "unborn"} /\ pc[Writer] \in {"idle", "unborn"}
    BY <1>2, PipeAssumption
  <2>2. p_rpos = 0 /\ p_wpos = 0 /\ got = <<>>
    BY DEF Init
  <2>3. \A k \in p_rpos .. p_wpos - 1 : FALSE
    BY <2>2
  <2>4. InOrder
    BY <2>2 DEF InOrder
  <2> QED BY <2>1, <2>2, <2>3, <2>4, PipeAssumption DEF RingOK
<1> QED BY <1>1, <1>3, <1>4 DEF Inv

LEMMA InvNext == Inv /\ [Next]_vars => Inv'
<1> SUFFICES ASSUME Inv, [Next]_vars PROVE Inv'
  OBVIOUS
<1>0. TypeOK /\ CallsOK /\ RingOK
  BY DEF Inv
<1>1. ASSUME NEW e \in Envs, MapStep(e) PROVE Inv'
  <2>1. TypeOK'
    BY <1>0, <1>1, TypeMaps DEF MapStep
  <2> QED BY <1>0, <1>1, <2>1, MapStepCalls, MapStepRing DEF Inv
<1>2. ASSUME NEW e \in Envs, (\E c \in Unborn : fork(e, c)) \/ duppage(e) \/ ForkDone(e) PROVE Inv'
  BY <1>0, <1>2, TypeFork, ForkStepCalls, ForkStepRing DEF Inv
<1>3. ASSUME NEW e \in Envs, read(e) \/ ReadTest(e) \/ Take(e) PROVE Inv'
  BY <1>0, <1>3, TypeRead, ReadStepCalls, ReadStepRing DEF Inv
<1>4. ASSUME NEW e \in Envs, write(e) \/ WriteTest(e) \/ WriteStore(e) \/ WriteInc(e) PROVE Inv'
  BY <1>0, <1>4, TypeWrite, WriteStepCalls, WriteStepRing DEF Inv
<1>5. ASSUME NEW e \in Envs, Check(e) PROVE Inv'
  BY <1>0, <1>5, TypeCheck, CheckStepCalls, CheckStepRing DEF Inv
<1>6. CASE Switches
  <2>1. UNCHANGED <<mapVars, pc, callVars, pipeVars>>
    BY <1>6 DEF Switches, Dispatch, Switch
  <2>2. TypeOK' /\ CallsOK'
    BY <1>0, <1>6, <2>1, TypeSwitch, SwitchCalls DEF pipeVars
  <2>3. RingOK'
    BY <1>0, <2>1, RingKept DEF pipeVars
  <2> QED BY <2>2, <2>3 DEF Inv
<1>7. CASE UNCHANGED vars
  <2>1. UNCHANGED <<mapVars, pc, callVars, pipeVars>> /\ moved' = moved /\ cpus' = cpus
    BY <1>7 DEF vars, checkVars
  <2>2. TypeOK'
    BY <1>0, <2>1, TypeKept DEF mapVars, callVars, pipeVars, TypeOK
  <2>3. CallsOK' /\ RingOK'
    BY <1>0, <2>1, SwitchCalls, RingKept DEF pipeVars
  <2> QED BY <2>2, <2>3 DEF Inv
<1>8. ASSUME NEW e \in Envs, Continue(e) \/ Call(e) PROVE Inv'
  <2>1. \/ MapStep(e)
        \/ (\E c \in Unborn : fork(e, c)) \/ duppage(e) \/ ForkDone(e)
        \/ read(e) \/ ReadTest(e) \/ Take(e)
        \/ write(e) \/ WriteTest(e) \/ WriteStore(e) \/ WriteInc(e)
        \/ Check(e)
    BY <1>8 DEF Continue, Call, MapStep
  <2> QED BY <1>1, <1>2, <1>3, <1>4, <1>5, <2>1
<1> QED BY <1>6, <1>7, <1>8 DEF Next

\* devpipe_read() and devpipe_write() never leave p_rpos, p_wpos, the bytes of
\* p_buf and the call an environment is in outside their types.
THEOREM TypeCorrect == Spec => []TypeOK
<1>1. Inv => TypeOK
  BY DEF Inv
<1> QED BY InvInit, InvNext, <1>1, PTL DEF Spec

\* The reader receives the bytes that were written, in order, none twice and
\* none from a place of p_buf the writer has reused: for any number of
\* environments and CPUs, any size of p_buf, and with dup(), close(), fork()
\* and exit() anywhere, though nothing locks the pipe.
THEOREM BytesArriveInOrder == Spec => []InOrder
<1>1. Inv => InOrder
  BY DEF Inv, RingOK
<1> QED BY InvInit, InvNext, <1>1, PTL DEF Spec


-----------------------------------------------------------------------------
(* _pipeisclosed() on one CPU.                                             *)

\* Whoever has run finds a struct Pipe page behind each of its struct Fd
\* pages: mapped before it, unmapped after it.
PageOK(d) ==
    /\ pc[d] # "unborn" => \A j \in Slots : fd[d][j] # NoEnd => data[d][j]
    /\ pc[d] = "close" => fd[d][slot[d]] = NoEnd
    /\ pc[d] = "dupclose" => fd[d][2] = NoEnd
    /\ pc[d] = "dupfd" => data[d][2]
    /\ pc[d] = "unborn" /\ (\A b \in Envs : child[b] # d)
           => \A j \in Slots : fd[d][j] = NoEnd
    /\ pc[d] = "fork" =>
           \A j \in Slots :
               /\ j < from[d] => fd[child[d]][j] = fd[d][j]
               /\ j + 3 < from[d] => data[child[d]][j] = data[d][j]

PagesOK == \A d \in Envs : PageOK(d)

OneCpu == \A a, b \in cpus : a = b

\* A pass through _pipeisclosed() that was not cut has seen the counts as
\* they are.
SeenOK(e) ==
    /\ seen[e] \in Seq({"fd", "pipe"} \X Nat)
    /\ pc[e] # "load" => seen[e] = <<>>
    /\ \A j, k \in DOMAIN seen[e] : seen[e][j][1] = seen[e][k][1] => j = k
    /\ pc[e] = "load" /\ e \in cpus /\ ~moved[e] =>
           \A k \in DOMAIN seen[e] :
               seen[e][k][2] = IF seen[e][k][1] = "fd" THEN pagerefFd(fd[e][slot[e]])
                               ELSE pagerefPipe

AllSeenOK == \A e \in Envs : SeenOK(e)


\* A step of an environment that is not in fork(): what it leaves alone.
LEMMA PagesOthers ==
    ASSUME TypeOK, CallsOK, PagesOK, NEW e \in Envs, pc[e] \notin {"fork", "unborn"},
           child' = child,
           \A d \in Envs \ {e} : /\ pc'[d] = pc[d] /\ slot'[d] = slot[d] /\ from'[d] = from[d]
                                 /\ fd'[d] = fd[d] /\ data'[d] = data[d],
           PageOK(e)'
    PROVE  PagesOK'
<1> SUFFICES ASSUME NEW d \in Envs \ {e} PROVE PageOK(d)'
  BY DEF PagesOK
<1>1. PageOK(d)
  BY DEF PagesOK
<1>2. pc[d] = "fork" => child[d] \in Envs \ {e}
  BY DEF CallsOK, ForkOK, TypeOK
<1>3. pc[d] = "fork" => fd'[child[d]] = fd[child[d]] /\ data'[child[d]] = data[child[d]]
  BY <1>2
<1> QED BY <1>1, <1>3 DEF PageOK

\* A step that maps and unmaps nothing.
LEMMA PagesKept ==
    ASSUME TypeOK, CallsOK, PagesOK, NEW e \in Envs, UNCHANGED <<mapVars, child>>,
           pc[e] \notin {"fork", "unborn"},
           pc'[e] \notin {"fork", "unborn", "close", "dupclose", "dupfd"},
           \A d \in Envs \ {e} : /\ pc'[d] = pc[d] /\ slot'[d] = slot[d] /\ from'[d] = from[d]
    PROVE  PagesOK'
<1>1. PageOK(e)'
  BY DEF PagesOK, PageOK, mapVars
<1> QED BY <1>1, PagesOthers DEF mapVars

LEMMA MapStepPages ==
    ASSUME TypeOK, CallsOK, PagesOK, NEW e \in Envs, MapStep(e)
    PROVE  PagesOK'
<1>0. /\ NoEnd \in Ends \cup {NoEnd} /\ 2 \in Slots /\ 0 \in Slots
      /\ slot[e] \in Slots /\ from[e] \in 0 .. 6
      /\ slot \in [Envs -> Slots] /\ fd \in [Envs -> [Slots -> Ends \cup {NoEnd}]]
      /\ data \in [Envs -> [Slots -> BOOLEAN]]
  BY DEF TypeOK, Slots
<1>1. /\ OthersKept(e) /\ child' = child
      /\ pc[e] \in {"idle", "close"} \cup DupLabels
      /\ pc'[e] \in {"idle", "close", "gone"} \cup DupLabels
  BY MapStepCall
<1>2. pc[e] \notin {"fork", "unborn"} /\ pc'[e] \notin {"fork", "unborn"}
  BY <1>1 DEF DupLabels
<1>3. \A d \in Envs \ {e} : pc'[d] = pc[d] /\ slot'[d] = slot[d] /\ from'[d] = from[d]
  BY <1>1 DEF OthersKept
<1>4. PageOK(e) /\ \A j \in Slots : fd[e][j] # NoEnd => data[e][j]
  BY <1>2 DEF PagesOK, PageOK
<1>5. ASSUME NEW l \in {"close", "gone", "dupclose", "dupdata", "dupfd"}, Goto(e, l)
      PROVE  pc'[e] = l
  <2>1. l \in Labels
    BY DEF Labels
  <2> QED BY <1>5, <2>1, SetPc
<1>6. ASSUME NEW i \in Slots, close(e, i) PROVE PagesOK'
  <2>1. fd' = [fd EXCEPT ![e][i] = NoEnd] /\ slot' = [slot EXCEPT ![e] = i] /\ Goto(e, "close")
        /\ data' = data
    BY <1>6 DEF close
  <2>2. \A d \in Envs, j \in Slots : fd'[d][j] = IF d = e /\ j = i THEN NoEnd ELSE fd[d][j]
    BY <1>0, <2>1, SetFd
  <2>3. pc'[e] = "close" /\ slot'[e] = i
    BY <1>0, <1>5, <2>1
  <2>4. PageOK(e)'
    BY <1>4, <2>1, <2>2, <2>3 DEF PageOK
  <2>5. \A d \in Envs \ {e} : fd'[d] = fd[d] /\ data'[d] = data[d]
    BY <1>0, <2>1
  <2> QED BY <1>1, <1>2, <1>3, <2>4, <2>5, PagesOthers
<1>7. CASE CloseData(e)
  <2>1. data' = [data EXCEPT ![e][slot[e]] = FALSE] /\ Done(e) /\ pc[e] = "close" /\ fd' = fd
    BY <1>7 DEF CloseData, At
  <2>2. \A d \in Envs, j \in Slots : data'[d][j] = IF d = e /\ j = slot[e] THEN FALSE ELSE data[d][j]
    BY <1>0, <2>1
  <2>3. pc'[e] = "idle"
    BY <2>1, IsDone
  <2>4. fd[e][slot[e]] = NoEnd
    BY <1>4, <2>1 DEF PageOK
  <2>5. PageOK(e)'
    BY <1>4, <2>1, <2>2, <2>3, <2>4 DEF PageOK
  <2>6. \A d \in Envs \ {e} : fd'[d] = fd[d] /\ data'[d] = data[d]
    BY <1>0, <2>1
  <2> QED BY <1>1, <1>2, <1>3, <2>5, <2>6, PagesOthers
<1>8. CASE exit(e)
  <2>1. /\ fd' = [fd EXCEPT ![e] = [i \in Slots |-> NoEnd]]
        /\ data' = [data EXCEPT ![e] = [i \in Slots |-> FALSE]]
        /\ Goto(e, "gone")
    BY <1>8 DEF exit
  <2>2. \A j \in Slots : fd'[e][j] = NoEnd
    BY <1>0, <2>1
  <2>3. pc'[e] = "gone"
    BY <1>5, <2>1
  <2>4. PageOK(e)'
    BY <2>2, <2>3 DEF PageOK
  <2>5. \A d \in Envs \ {e} : fd'[d] = fd[d] /\ data'[d] = data[d]
    BY <1>0, <2>1
  <2> QED BY <1>1, <1>2, <1>3, <2>4, <2>5, PagesOthers
<1>9. ASSUME NEW i \in Slots, dup(e, i) PROVE PagesOK'
  <2>1. CASE fd[e][2] # NoEnd
    <3>1. fd' = [fd EXCEPT ![e][2] = NoEnd] /\ Goto(e, "dupclose") /\ data' = data
      BY <1>9, <2>1 DEF dup
    <3>2. \A d \in Envs, j \in Slots : fd'[d][j] = IF d = e /\ j = 2 THEN NoEnd ELSE fd[d][j]
      BY <1>0, <3>1, SetFd
    <3>3. pc'[e] = "dupclose"
      BY <1>5, <3>1
    <3>4. PageOK(e)'
      BY <1>0, <1>4, <3>1, <3>2, <3>3 DEF PageOK
    <3>5. \A d \in Envs \ {e} : fd'[d] = fd[d] /\ data'[d] = data[d]
      BY <1>0, <3>1
    <3> QED BY <1>1, <1>2, <1>3, <3>4, <3>5, PagesOthers
  <2>2. CASE fd[e][2] = NoEnd
    <3>1. fd' = fd /\ Goto(e, "dupdata") /\ data' = data
      BY <1>9, <2>2 DEF dup
    <3>2. pc'[e] = "dupdata"
      BY <1>5, <3>1
    <3>3. PageOK(e)'
      BY <1>4, <3>1, <3>2 DEF PageOK
    <3> QED BY <1>1, <1>2, <1>3, <3>1, <3>3, PagesOthers
  <2> QED BY <2>1, <2>2
<1>10. CASE DupClose(e)
  <2>1. data' = [data EXCEPT ![e][2] = FALSE] /\ Goto(e, "dupdata") /\ pc[e] = "dupclose" /\ fd' = fd
    BY <1>10 DEF DupClose, At
  <2>2. \A d \in Envs, j \in Slots : data'[d][j] = IF d = e /\ j = 2 THEN FALSE ELSE data[d][j]
    BY <1>0, <2>1
  <2>3. pc'[e] = "dupdata"
    BY <1>5, <2>1
  <2>4. fd[e][2] = NoEnd
    BY <1>4, <2>1 DEF PageOK
  <2>5. PageOK(e)'
    BY <1>4, <2>1, <2>2, <2>3, <2>4 DEF PageOK
  <2>6. \A d \in Envs \ {e} : fd'[d] = fd[d] /\ data'[d] = data[d]
    BY <1>0, <2>1
  <2> QED BY <1>1, <1>2, <1>3, <2>5, <2>6, PagesOthers
<1>11. CASE DupData(e)
  <2>1. data' = [data EXCEPT ![e][2] = TRUE] /\ Goto(e, "dupfd") /\ fd' = fd
    BY <1>11 DEF DupData
  <2>2. \A d \in Envs, j \in Slots : data'[d][j] = IF d = e /\ j = 2 THEN TRUE ELSE data[d][j]
    BY <1>0, <2>1
  <2>3. pc'[e] = "dupfd"
    BY <1>5, <2>1
  <2>4. PageOK(e)'
    BY <1>0, <1>4, <2>1, <2>2, <2>3 DEF PageOK
  <2>5. \A d \in Envs \ {e} : fd'[d] = fd[d] /\ data'[d] = data[d]
    BY <1>0, <2>1
  <2> QED BY <1>1, <1>2, <1>3, <2>4, <2>5, PagesOthers
<1>12. CASE DupFd(e)
  <2>1. fd' = [fd EXCEPT ![e][2] = fd[e][from[e]]] /\ Done(e) /\ pc[e] = "dupfd" /\ data' = data
    BY <1>12 DEF DupFd, At
  <2>2. from[e] \in Slots
    BY <2>1 DEF CallsOK, CallOK, DupLabels, Slots
  <2>3. PICK v \in Ends \cup {NoEnd} : v = fd[e][from[e]]
    BY <1>0, <2>2
  <2>4. \A d \in Envs, j \in Slots : fd'[d][j] = IF d = e /\ j = 2 THEN v ELSE fd[d][j]
    BY <1>0, <2>1, <2>3, SetFd
  <2>5. pc'[e] = "idle" /\ data[e][2]
    BY <1>4, <2>1, IsDone DEF PageOK
  <2>6. PageOK(e)'
    BY <1>4, <2>1, <2>4, <2>5 DEF PageOK
  <2>7. \A d \in Envs \ {e} : fd'[d] = fd[d] /\ data'[d] = data[d]
    BY <1>0, <2>1
  <2> QED BY <1>1, <1>2, <1>3, <2>6, <2>7, PagesOthers
<1>13. \/ \E i \in Slots : close(e, i)
       \/ \E i \in Slots : dup(e, i)
       \/ CloseData(e) \/ exit(e) \/ DupClose(e) \/ DupData(e) \/ DupFd(e)
  BY DEF MapStep
<1> QED BY <1>6, <1>7, <1>8, <1>9, <1>10, <1>11, <1>12, <1>13


LEMMA ForkStepPages ==
    ASSUME TypeOK, CallsOK, PagesOK, NEW e \in Envs,
           (\E c \in Unborn : fork(e, c)) \/ duppage(e) \/ ForkDone(e)
    PROVE  PagesOK'
<1>0. /\ from[e] \in 0 .. 6 /\ from \in [Envs -> 0 .. 6] /\ child \in [Envs -> Envs \cup {NoEnv}]
      /\ fd \in [Envs -> [Slots -> Ends \cup {NoEnd}]] /\ data \in [Envs -> [Slots -> BOOLEAN]]
      /\ NoEnv \notin Envs /\ \A j \in Slots : j \in 0 .. 2
  BY PipeAssumption DEF TypeOK, Slots
<1>1. CASE \E c \in Unborn : fork(e, c)
  <2>1. PICK c \in Envs : fork(e, c)
    BY <1>1, PipeAssumption
  <2>2. /\ child' = [child EXCEPT ![e] = c] /\ from' = [from EXCEPT ![e] = 0] /\ Goto(e, "fork")
        /\ pc[e] = "idle" /\ pc[c] = "unborn"
        /\ UNCHANGED <<fd, data, slot>>
    BY <2>1 DEF fork, At, mapVars
  <2>3. pc'[e] = "fork" /\ \A d \in Envs \ {e} : pc'[d] = pc[d]
    BY <2>2, SetPc DEF Labels
  <2>4. child'[e] = c /\ from'[e] = 0 /\ child[e] = NoEnv
        /\ \A d \in Envs \ {e} : child'[d] = child[d] /\ from'[d] = from[d]
    BY <1>0, <2>2 DEF CallsOK, ForkOK
  <2>5. PageOK(e)'
    <3>1. \A j \in Slots : fd[e][j] # NoEnd => data[e][j]
      BY <2>2 DEF PagesOK, PageOK
    <3>2. \A j \in Slots : ~(j < 0) /\ ~(j + 3 < 0)
      BY <1>0
    <3> QED BY <2>2, <2>3, <2>4, <3>1, <3>2 DEF PageOK
  <2>6. ASSUME NEW d \in Envs \ {e} PROVE PageOK(d)'
    <3>1. PageOK(d) /\ pc'[d] = pc[d] /\ child'[d] = child[d] /\ from'[d] = from[d]
      BY <2>3, <2>4 DEF PagesOK
    <3>2. (\A b \in Envs : child'[b] # d) => (\A b \in Envs : child[b] # d)
      BY <1>0, <2>4
    <3> QED BY <2>2, <3>1, <3>2 DEF PageOK
  <2> QED BY <2>5, <2>6 DEF PagesOK
<1>2. CASE duppage(e)
  <2>1. PICK c \in Envs, k \in 0 .. 6 : c = child[e] /\ k = from[e]
    BY <1>0, <1>2 DEF duppage, At, CallsOK, ForkOK
  <2>2. pc[e] = "fork" /\ pc[c] = "unborn" /\ c # e
    BY <1>2, <2>1 DEF duppage, At, CallsOK, ForkOK
  <2>3. /\ k < 6
        /\ \/ k < 3 /\ fd' = [fd EXCEPT ![c][k] = fd[e][k]] /\ data' = data
           \/ ~(k < 3) /\ data' = [data EXCEPT ![c][k - 3] = data[e][k - 3]] /\ fd' = fd
        /\ from' = [from EXCEPT ![e] = k + 1]
        /\ UNCHANGED <<pc, slot, child>>
    BY <1>2, <2>1 DEF duppage
  <2>4. \A d \in Envs \ {c} : fd'[d] = fd[d] /\ data'[d] = data[d]
    BY <1>0, <2>3
  <2>5. from'[e] = k + 1 /\ \A d \in Envs \ {e} : from'[d] = from[d]
    BY <1>0, <2>3
  <2>6. PageOK(e)
    BY DEF PagesOK, PageOK
  <2>7. \A j \in Slots : /\ j < k => fd[c][j] = fd[e][j]
                         /\ j + 3 < k => data[c][j] = data[e][j]
    BY <2>1, <2>2, <2>6 DEF PageOK
  <2>8. \A j \in Slots : /\ j < k + 1 => fd'[c][j] = fd[e][j]
                         /\ j + 3 < k + 1 => data'[c][j] = data[e][j]
    <3>1. CASE k < 3
      <4>1. \A j \in Slots : fd'[c][j] = IF j = k THEN fd[e][j] ELSE fd[c][j]
        BY <1>0, <2>3, <3>1 DEF Slots
      <4>2. \A j \in Slots : (j < k + 1 => j < k \/ j = k) /\ ~(j + 3 < k + 1)
        BY <1>0, <3>1
      <4> QED BY <2>7, <4>1, <4>2
    <3>2. CASE ~(k < 3)
      <4>1. \A j \in Slots : data'[c][j] = IF j = k - 3 THEN data[e][j] ELSE data[c][j]
        BY <1>0, <2>3, <3>2 DEF Slots
      <4>2. \A j \in Slots : j < k /\ (j + 3 < k + 1 => j + 3 < k \/ j = k - 3) /\ fd' = fd
        BY <1>0, <2>3, <3>2
      <4> QED BY <2>7, <4>1, <4>2
    <3> QED BY <3>1, <3>2
  <2>9. PageOK(e)'
    <3>1. fd'[e] = fd[e] /\ data'[e] = data[e] /\ pc'[e] = "fork" /\ child'[e] = c
      BY <2>1, <2>2, <2>3, <2>4
    <3> QED BY <2>2, <2>5, <2>6, <2>8, <3>1 DEF PageOK
  <2>10. PageOK(c)'
    BY <2>1, <2>2, <2>3 DEF PageOK
  <2>11. ASSUME NEW d \in Envs \ {e, c} PROVE PageOK(d)'
    <3>1. PageOK(d) /\ pc'[d] = pc[d] /\ child' = child /\ from'[d] = from[d] /\ slot' = slot
          /\ fd'[d] = fd[d] /\ data'[d] = data[d]
      BY <2>3, <2>4, <2>5 DEF PagesOK
    <3>2. pc[d] = "fork" => child[d] \in Envs \ {c}
      BY <1>0, <2>1, <2>2 DEF CallsOK, ForkOK
    <3>3. pc[d] = "fork" => fd'[child[d]] = fd[child[d]] /\ data'[child[d]] = data[child[d]]
      BY <2>4, <3>2
    <3> QED BY <3>1, <3>3 DEF PageOK
  <2> QED BY <2>9, <2>10, <2>11 DEF PagesOK
<1>3. CASE ForkDone(e)
  <2>1. PICK c \in Envs : c = child[e]
    BY <1>3, ForkEnds
  <2>2. /\ c # e /\ pc[e] = "fork" /\ pc[c] = "unborn"
        /\ \A d \in Envs : pc'[d] = IF d = e \/ d = c THEN "idle" ELSE pc[d]
    BY <1>3, <2>1, ForkEnds
  <2>3. /\ child' = [child EXCEPT ![e] = NoEnv] /\ from' = [from EXCEPT ![e] = 0] /\ from[e] = 6
        /\ UNCHANGED <<fd, data, slot>>
    BY <1>3 DEF ForkDone, mapVars
  <2>4. \A j \in Slots : j < 6 /\ j + 3 < 6
    BY <1>0
  <2>5. \A j \in Slots : /\ fd[e][j] # NoEnd => data[e][j]
                         /\ fd[c][j] = fd[e][j] /\ data[c][j] = data[e][j]
    BY <2>1, <2>2, <2>3, <2>4 DEF PagesOK, PageOK
  <2>6. \A d \in {e, c} : PageOK(d)'
    BY <2>2, <2>3, <2>5 DEF PageOK
  <2>7. ASSUME NEW d \in Envs \ {e, c} PROVE PageOK(d)'
    <3>1. PageOK(d) /\ pc'[d] = pc[d] /\ child'[d] = child[d] /\ from'[d] = from[d]
      BY <1>0, <2>2, <2>3 DEF PagesOK
    <3>2. \A b \in Envs : child'[b] # d => child[b] # d
      BY <1>0, <2>1, <2>3
    <3> QED BY <2>3, <3>1, <3>2 DEF PageOK
  <2> QED BY <2>6, <2>7 DEF PagesOK
<1> QED BY <1>1, <1>2, <1>3


\* A step of read(), write() or _pipeisclosed().
CallStep(e) ==
    \/ read(e) \/ ReadTest(e) \/ Take(e)
    \/ write(e) \/ WriteTest(e) \/ WriteStore(e) \/ WriteInc(e)
    \/ Check(e)

CallLabels == {"idle", "rtest", "rtake", "rinc", "wtest", "wstore", "winc", "check", "load", "closed"}

LEMMA CallStepMoves ==
    ASSUME TypeOK, NEW e \in Envs, CallStep(e)
    PROVE  /\ UNCHANGED <<mapVars, child, cpus>>
           /\ pc[e] \in CallLabels /\ pc'[e] \in CallLabels
           /\ \A d \in Envs \ {e} : /\ pc'[d] = pc[d] /\ slot'[d] = slot[d] /\ from'[d] = from[d]
<1>0. slot \in [Envs -> Slots] /\ from \in [Envs -> 0 .. 6] /\ CallLabels \subseteq Labels
  BY DEF TypeOK, CallLabels, Labels
<1>1. /\ UNCHANGED <<mapVars, child, cpus>> /\ pc[e] \in CallLabels
      /\ \/ Done(e)
         \/ /\ pc' = pc \/ \E l \in CallLabels : Goto(e, l)
            /\ slot' = slot \/ \E x : slot' = [slot EXCEPT ![e] = x]
            /\ from' = from \/ \E x : from' = [from EXCEPT ![e] = x]
  <2>1. CASE read(e) \/ ReadTest(e) \/ Take(e)
    BY <2>1 DEF read, ReadTest, Take, ReadTake, ReadInc, At, CallLabels, callVars
  <2>2. CASE write(e) \/ WriteTest(e) \/ WriteStore(e) \/ WriteInc(e)
    BY <2>2 DEF write, WriteTest, WriteStore, WriteInc, At, CallLabels, callVars
  <2>3. CASE Check(e)
    BY <2>3 DEF Check, CheckBegin, LoadFd, LoadPipe, CheckAgain, CheckEnd, Return, At,
                CallLabels, callVars
  <2> QED BY <2>1, <2>2, <2>3 DEF CallStep
<1>2. CASE Done(e)
  BY <1>1, <1>2, IsDone DEF CallLabels
<1>3. CASE ~Done(e)
  <2>1. pc'[e] \in CallLabels /\ \A d \in Envs \ {e} : pc'[d] = pc[d]
    <3>1. CASE pc' = pc
      BY <1>1, <3>1
    <3>2. ASSUME NEW l \in CallLabels, Goto(e, l)
          PROVE  pc'[e] \in CallLabels /\ \A d \in Envs \ {e} : pc'[d] = pc[d]
      BY <1>0, <3>2, SetPc
    <3> QED BY <1>1, <1>3, <3>1, <3>2
  <2>2. \A d \in Envs \ {e} : slot'[d] = slot[d] /\ from'[d] = from[d]
    BY <1>0, <1>1, <1>3
  <2> QED BY <1>1, <2>1, <2>2
<1> QED BY <1>2, <1>3

LEMMA PagesNext ==
    ASSUME Inv, PagesOK, [Next]_vars
    PROVE  PagesOK'
<1>0. TypeOK /\ CallsOK
  BY DEF Inv
<1>1. ASSUME NEW e \in Envs, MapStep(e) PROVE PagesOK'
  BY <1>0, <1>1, MapStepPages
<1>2. ASSUME NEW e \in Envs, (\E c \in Unborn : fork(e, c)) \/ duppage(e) \/ ForkDone(e)
      PROVE  PagesOK'
  BY <1>0, <1>2, ForkStepPages
<1>3. ASSUME NEW e \in Envs, CallStep(e) PROVE PagesOK'
  <2>1. \A l \in CallLabels : l \notin {"fork", "unborn", "close", "dupclose", "dupfd"}
    BY DEF CallLabels
  <2> QED BY <1>0, <1>3, <2>1, CallStepMoves, PagesKept
<1>4. CASE Switches \/ UNCHANGED vars
  <2>1. UNCHANGED <<mapVars, pc, callVars>>
    BY <1>4 DEF Switches, Dispatch, Switch, vars
  <2> QED BY <2>1 DEF PagesOK, PageOK, mapVars, callVars
<1>5. ASSUME NEW e \in Envs, Continue(e) \/ Call(e) PROVE PagesOK'
  <2>1. \/ MapStep(e)
        \/ (\E c \in Unborn : fork(e, c)) \/ duppage(e) \/ ForkDone(e)
        \/ CallStep(e)
    BY <1>5 DEF Continue, Call, MapStep, CallStep
  <2> QED BY <1>1, <1>2, <1>3, <2>1
<1> QED BY <1>4, <1>5 DEF Next

\* At most one environment runs.
LEMMA OneCpuNext ==
    ASSUME NCPU = 1, OneCpu, IsFiniteSet(cpus), [Next]_vars
    PROVE  OneCpu'
<1>1. ASSUME NEW e \in Envs, Dispatch(e) PROVE OneCpu'
  <2>1. Cardinality(cpus) < 1
    BY <1>1 DEF Dispatch
  <2>2. cpus = {}
    BY <2>1, FS_CardinalityType, FS_EmptySet
  <2> QED BY <1>1, <2>2 DEF Dispatch, OneCpu
<1>2. ASSUME NEW e \in Envs, NEW d \in Envs, Switch(d, e) PROVE OneCpu'
  BY <1>2 DEF Switch, OneCpu
<1>3. ASSUME NEW e \in Envs, Continue(e) \/ Call(e) PROVE OneCpu'
  <2>1. \/ MapStep(e)
        \/ (\E c \in Unborn : fork(e, c)) \/ duppage(e) \/ ForkDone(e)
        \/ CallStep(e)
    BY <1>3 DEF Continue, Call, MapStep, CallStep
  <2>2. CASE CallStep(e)
    <3>1. cpus' = cpus
      BY <2>2 DEF CallStep, read, ReadTest, Take, ReadTake, ReadInc, write, WriteTest, WriteStore,
                  WriteInc, Check, CheckBegin, LoadFd, LoadPipe, CheckAgain, CheckEnd, Return
    <3> QED BY <3>1 DEF OneCpu
  <2>3. CASE ~CallStep(e)
    <3>1. cpus' \subseteq cpus
      BY <2>1, <2>3 DEF MapStep, close, dup, CloseData, exit, DupClose, DupData, DupFd, fork,
                        duppage, ForkDone
    <3> QED BY <3>1 DEF OneCpu
  <2> QED BY <2>2, <2>3
<1>4. CASE UNCHANGED vars
  BY <1>4 DEF vars, OneCpu
<1> QED BY <1>1, <1>2, <1>3, <1>4 DEF Next, Switches


-----------------------------------------------------------------------------
(* What the loads of _pipeisclosed() have seen.                            *)

FdPairs(end) == {p \in Envs \X Slots : fd[p[1]][p[2]] = end}
DataPairs == {p \in Envs \X Slots : data[p[1]][p[2]]}

LEMMA FinitePairs ==
    ASSUME IsFiniteSet(Envs), NEW end
    PROVE  /\ IsFiniteSet(FdPairs(end)) /\ IsFiniteSet(DataPairs)
           /\ pagerefFd(end) = Cardinality(FdPairs(end)) /\ pagerefPipe = Cardinality(DataPairs)
           /\ pagerefFd(end) \in Nat /\ pagerefPipe \in Nat
<1>1. IsFiniteSet(Slots)
  <2>1. 0 \in Int /\ 2 \in Int
    OBVIOUS
  <2>2. IsFiniteSet(0 .. 2)
    BY <2>1, FS_Interval
  <2> QED BY <2>2 DEF Slots
<1>2. IsFiniteSet(Envs \X Slots)
  BY <1>1, FS_Product
<1>3. IsFiniteSet(FdPairs(end)) /\ IsFiniteSet(DataPairs)
  BY <1>2, FS_Subset DEF FdPairs, DataPairs
<1> QED BY <1>3, FS_CardinalityType DEF FdPairs, DataPairs, pagerefFd, pagerefPipe

\* An environment that is not in _pipeisclosed(), or that runs no more.
LEMMA SeenKept ==
    ASSUME NEW e \in Envs, SeenOK(e), seen'[e] = seen[e],
           pc'[e] # "load" => pc[e] # "load",
           pc'[e] = "load" => e \notin cpus' \/ moved'[e]
    PROVE  SeenOK(e)'
BY DEF SeenOK

LEMMA SeenForgotten ==
    ASSUME NEW e \in Envs, seen'[e] = <<>>
    PROVE  SeenOK(e)'
<1>1. <<>> \in Seq({"fd", "pipe"} \X Nat) /\ DOMAIN <<>> = {}
  OBVIOUS
<1> QED BY <1>1 DEF SeenOK

\* The load of one of the two counts.
LEMMA SeenLoad ==
    ASSUME NEW e \in Envs, SeenOK(e), NEW name \in {"fd", "pipe"}, NEW n \in Nat,
           seen \in [Envs -> Seq({"fd", "pipe"} \X Nat)],
           seen' = [seen EXCEPT ![e] = Append(@, <<name, n>>)],
           name \notin Loaded(e), e \in cpus, pc[e] = "load",
           n = (IF name = "fd" THEN pagerefFd(fd[e][slot[e]]) ELSE pagerefPipe),
           UNCHANGED <<mapVars, pc, callVars, moved, cpus>>
    PROVE  SeenOK(e)'
<1>1. PICK s \in Seq({"fd", "pipe"} \X Nat) : s = seen[e]
  OBVIOUS
<1>2. seen'[e] = Append(s, <<name, n>>)
  BY <1>1
<1>3. <<name, n>> \in {"fd", "pipe"} \X Nat
  OBVIOUS
<1>4. Append(s, <<name, n>>) \in Seq({"fd", "pipe"} \X Nat)
  BY <1>3
<1>5. /\ DOMAIN Append(s, <<name, n>>) = DOMAIN s \cup {Len(s) + 1} /\ Len(s) + 1 \notin DOMAIN s
      /\ Append(s, <<name, n>>)[Len(s) + 1] = <<name, n>>
      /\ \A k \in DOMAIN s : Append(s, <<name, n>>)[k] = s[k]
  <2> PICK x \in {"fd", "pipe"} \X Nat : x = <<name, n>>
    BY <1>3
  <2>1. /\ DOMAIN Append(s, x) = DOMAIN s \cup {Len(s) + 1} /\ Len(s) + 1 \notin DOMAIN s
    OBVIOUS
  <2>2. Append(s, x)[Len(s) + 1] = x
    OBVIOUS
  <2>3. \A k \in DOMAIN s : Append(s, x)[k] = s[k]
    OBVIOUS
  <2> QED BY <2>1, <2>2, <2>3
<1>6. \A k \in DOMAIN s : s[k][1] # name
  BY <1>1 DEF Loaded
<1>7. \A j, k \in DOMAIN seen'[e] : seen'[e][j][1] = seen'[e][k][1] => j = k
  <2>1. \A j, k \in DOMAIN s : s[j][1] = s[k][1] => j = k
    BY <1>1 DEF SeenOK
  <2> SUFFICES ASSUME NEW j \in DOMAIN seen'[e], NEW k \in DOMAIN seen'[e],
                      seen'[e][j][1] = seen'[e][k][1]
               PROVE  j = k
    OBVIOUS
  <2>2. (j \in DOMAIN s \/ j = Len(s) + 1) /\ (k \in DOMAIN s \/ k = Len(s) + 1)
    BY <1>2, <1>5
  <2>3. \A i \in DOMAIN s : seen'[e][i][1] = s[i][1]
    BY <1>2, <1>5
  <2>4. seen'[e][Len(s) + 1][1] = name
    BY <1>2, <1>5
  <2>5. CASE j \in DOMAIN s /\ k \in DOMAIN s
    BY <2>1, <2>3, <2>5
  <2>6. CASE j \in DOMAIN s /\ k = Len(s) + 1
    <3>1. seen'[e][j][1] = s[j][1] /\ s[j][1] # name
      BY <1>6, <2>3, <2>6
    <3> QED BY <2>4, <2>6, <3>1
  <2>7. CASE j = Len(s) + 1 /\ k \in DOMAIN s
    <3>1. seen'[e][k][1] = s[k][1] /\ s[k][1] # name
      BY <1>6, <2>3, <2>7
    <3> QED BY <2>4, <2>7, <3>1
  <2> QED BY <2>2, <2>5, <2>6, <2>7
<1>8. pagerefFd(fd[e][slot[e]])' = pagerefFd(fd[e][slot[e]]) /\ pagerefPipe' = pagerefPipe
  BY DEF pagerefFd, pagerefPipe, mapVars, callVars
<1>9. ASSUME ~moved[e], NEW k \in DOMAIN seen'[e]
      PROVE  seen'[e][k][2] = IF seen'[e][k][1] = "fd" THEN pagerefFd(fd[e][slot[e]])
                              ELSE pagerefPipe
  <2>1. CASE k = Len(s) + 1
    BY <1>2, <1>5, <2>1
  <2>2. CASE k \in DOMAIN s
    BY <1>1, <1>2, <1>5, <1>9, <2>2 DEF SeenOK
  <2> QED BY <1>2, <1>5, <2>1, <2>2
<1>10. /\ seen'[e] \in Seq({"fd", "pipe"} \X Nat) /\ pc'[e] = "load"
       /\ moved'[e] = moved[e]
  BY <1>2, <1>4
<1> QED BY <1>7, <1>8, <1>9, <1>10 DEF SeenOK

\* The same number of struct Fd pages of an end as of struct Pipe pages: no
\* descriptor of the other end is left.
LEMMA EqualCounts ==
    ASSUME IsFiniteSet(Envs), TypeOK, NEW end \in Ends, pagerefFd(end) = pagerefPipe,
           \A d \in Envs, j \in Slots : fd[d][j] # NoEnd => data[d][j]
    PROVE  ~IsOpen(Other(end))
<1>1. end # NoEnd /\ Other(end) # end /\ Other(end) # NoEnd
  BY DEF Ends, NoEnd, Other
<1>2. FdPairs(end) \subseteq DataPairs
  BY <1>1 DEF FdPairs, DataPairs
<1>3. FdPairs(end) = DataPairs
  <2>1. /\ IsFiniteSet(DataPairs)
        /\ Cardinality(FdPairs(end)) = Cardinality(DataPairs)
    BY FinitePairs
  <2> QED BY <1>2, <2>1, FS_Subset
<1> SUFFICES ASSUME NEW d \in Envs, NEW j \in Slots, fd[d][j] = Other(end) PROVE FALSE
  BY DEF IsOpen
<1>4. <<d, j>> \in DataPairs
  BY <1>1 DEF DataPairs
<1> QED BY <1>1, <1>3, <1>4 DEF FdPairs


IsSeenFunction == seen = [e \in Envs |-> seen[e]]

LEMMA SeenTyped == AllSeenOK /\ IsSeenFunction => seen \in [Envs -> Seq({"fd", "pipe"} \X Nat)]
BY DEF AllSeenOK, SeenOK, IsSeenFunction

LEMMA SeenNext ==
    ASSUME Inv, PagesOK, OneCpu, AllSeenOK, IsSeenFunction, IsFiniteSet(Envs), [Next]_vars
    PROVE  AllSeenOK' /\ IsSeenFunction'
<1>0. /\ TypeOK /\ CallsOK
      /\ seen \in [Envs -> Seq({"fd", "pipe"} \X Nat)] /\ moved \in [Envs -> BOOLEAN]
  BY SeenTyped DEF Inv, TypeOK
<1>1. ASSUME NEW e \in Envs, MapStep(e) \/ (\E c \in Unborn : fork(e, c)) \/ duppage(e) \/ ForkDone(e)
      PROVE  AllSeenOK' /\ IsSeenFunction'
  <2>1. e \in cpus /\ cpus' \subseteq cpus /\ UNCHANGED checkVars /\ pc[e] # "load"
    BY <1>1 DEF MapStep, close, dup, CloseData, exit, DupClose, DupData, DupFd, fork, duppage,
                ForkDone, At
  <2>2. \A d \in Envs : pc'[d] = pc[d] \/ (pc[d] # "load" /\ pc'[d] # "load")
    <3>1. CASE MapStep(e)
      BY <1>0, <3>1, MapStepCall DEF OthersKept, DupLabels
    <3>2. CASE \E c \in Unborn : fork(e, c)
      <4>1. pc[e] = "idle" /\ Goto(e, "fork") /\ "fork" \in Labels
        BY <3>2 DEF fork, At, Labels
      <4> QED BY <1>0, <4>1, SetPc
    <3>3. CASE duppage(e)
      BY <3>3 DEF duppage
    <3>4. CASE ForkDone(e)
      BY <1>0, <3>4, ForkEnds
    <3> QED BY <1>1, <3>1, <3>2, <3>3, <3>4
  <2>3. ASSUME NEW d \in Envs PROVE SeenOK(d)'
    <3>1. d \in cpus' => d = e
      BY <2>1 DEF OneCpu
    <3>2. SeenOK(d) /\ seen'[d] = seen[d]
      BY <2>1 DEF AllSeenOK, checkVars
    <3>3. pc'[d] = "load" => d # e
      BY <2>1, <2>2
    <3> QED BY <2>2, <3>1, <3>2, <3>3, SeenKept
  <2> QED BY <2>1, <2>3 DEF AllSeenOK, IsSeenFunction, checkVars
<1>2. ASSUME NEW e \in Envs, CallStep(e) PROVE AllSeenOK' /\ IsSeenFunction'
  <2>1. /\ UNCHANGED <<mapVars, child, cpus>> /\ pc'[e] \in CallLabels
        /\ \A d \in Envs \ {e} : pc'[d] = pc[d]
    BY <1>0, <1>2, CallStepMoves
  <2>2. e \in cpus
    BY <1>2 DEF CallStep, read, ReadTest, Take, ReadTake, ReadInc, write, WriteTest, WriteStore,
                WriteInc, Check, CheckBegin, LoadFd, LoadPipe, CheckAgain, CheckEnd, Return, At
  <2>3. ASSUME \A d \in Envs \ {e} : seen'[d] = seen[d], SeenOK(e)' PROVE AllSeenOK'
    <3>1. ASSUME NEW d \in Envs \ {e} PROVE SeenOK(d)'
      <4>1. SeenOK(d) /\ seen'[d] = seen[d] /\ pc'[d] = pc[d] /\ d \notin cpus'
        BY <2>1, <2>2, <2>3 DEF AllSeenOK, OneCpu
      <4> QED BY <4>1, SeenKept
    <3> QED BY <2>3, <3>1 DEF AllSeenOK
  <2>4. CASE CheckBegin(e)
    <3>1. pc[e] # "load" /\ UNCHANGED checkVars
      BY <2>4 DEF CheckBegin, At
    <3>2. seen'[e] = <<>>
      BY <3>1 DEF AllSeenOK, SeenOK, checkVars
    <3> QED BY <2>3, <3>1, <3>2, SeenForgotten DEF IsSeenFunction, checkVars
  <2>5. CASE LoadFd(e)
    <3>1. PICK n \in Nat : n = pagerefFd(fd[e][slot[e]])
      BY FinitePairs
    <3>2. /\ seen' = [seen EXCEPT ![e] = Append(@, <<"fd", n>>)]
          /\ "fd" \notin Loaded(e) /\ pc[e] = "load"
          /\ UNCHANGED <<mapVars, pc, callVars, moved, cpus>>
      BY <2>5, <3>1 DEF LoadFd, At
    <3>3. SeenOK(e)'
      BY <1>0, <2>2, <3>1, <3>2, SeenLoad DEF AllSeenOK
    <3>4. (\A d \in Envs \ {e} : seen'[d] = seen[d]) /\ IsSeenFunction'
      BY <1>0, <3>2 DEF IsSeenFunction
    <3> QED BY <2>3, <3>3, <3>4
  <2>6. CASE LoadPipe(e)
    <3>1. PICK n \in Nat : n = pagerefPipe
      BY FinitePairs
    <3>2. /\ seen' = [seen EXCEPT ![e] = Append(@, <<"pipe", n>>)]
          /\ "pipe" \notin Loaded(e) /\ pc[e] = "load"
          /\ UNCHANGED <<mapVars, pc, callVars, moved, cpus>>
      BY <2>6, <3>1 DEF LoadPipe, At
    <3>3. SeenOK(e)'
      BY <1>0, <2>2, <3>1, <3>2, SeenLoad DEF AllSeenOK
    <3>4. (\A d \in Envs \ {e} : seen'[d] = seen[d]) /\ IsSeenFunction'
      BY <1>0, <3>2 DEF IsSeenFunction
    <3> QED BY <2>3, <3>3, <3>4
  <2>7. CASE CheckAgain(e) \/ CheckEnd(e)
    <3>1. Forget(e)
      BY <2>7 DEF CheckAgain, CheckEnd
    <3>2. seen'[e] = <<>> /\ (\A d \in Envs \ {e} : seen'[d] = seen[d]) /\ IsSeenFunction'
      BY <1>0, <3>1 DEF Forget, IsSeenFunction
    <3> QED BY <2>3, <3>2, SeenForgotten
  <2>8. CASE ~(CheckBegin(e) \/ LoadFd(e) \/ LoadPipe(e) \/ CheckAgain(e) \/ CheckEnd(e))
    <3>1. UNCHANGED checkVars /\ pc[e] # "load"
      BY <1>2, <2>8 DEF CallStep, read, ReadTest, Take, ReadTake, ReadInc, write, WriteTest,
                        WriteStore, WriteInc, Check, Return, At
    <3>2. seen'[e] = <<>>
      BY <3>1 DEF AllSeenOK, SeenOK, checkVars
    <3> QED BY <2>3, <3>1, <3>2, SeenForgotten DEF IsSeenFunction, checkVars
  <2> QED BY <2>4, <2>5, <2>6, <2>7, <2>8
<1>3. CASE Switches
  <2>1. PICK e \in Envs : /\ \A d \in Envs : d \in cpus' => d = e \/ d \in cpus
                          /\ moved' = [moved EXCEPT ![e] = (pc[e] = "load")]
                          /\ UNCHANGED <<mapVars, pc, callVars, seen>>
    BY <1>3 DEF Switches, Dispatch, Switch
  <2>2. ASSUME NEW d \in Envs PROVE SeenOK(d)'
    <3>1. SeenOK(d) /\ seen'[d] = seen[d] /\ pc'[d] = pc[d]
      BY <2>1 DEF AllSeenOK
    <3>2. CASE d = e
      <4>1. pc'[d] = "load" => moved'[d]
        BY <1>0, <2>1, <3>2
      <4> QED BY <3>1, <4>1, SeenKept
    <3>3. CASE d # e
      <4>1. moved'[d] = moved[d] /\ (d \in cpus' => d \in cpus)
        BY <1>0, <2>1, <3>3
      <4>2. pagerefFd(fd[d][slot[d]])' = pagerefFd(fd[d][slot[d]]) /\ pagerefPipe' = pagerefPipe
        BY <2>1 DEF pagerefFd, pagerefPipe, mapVars, callVars
      <4> QED BY <3>1, <4>1, <4>2 DEF SeenOK
    <3> QED BY <3>2, <3>3
  <2> QED BY <2>1, <2>2 DEF AllSeenOK, IsSeenFunction
<1>4. CASE UNCHANGED vars
  <2>1. UNCHANGED <<fd, data, pc, slot, seen, moved, cpus>>
    BY <1>4 DEF vars, mapVars, callVars, checkVars
  <2>2. ASSUME NEW d \in Envs PROVE SeenOK(d)'
    <3>1. SeenOK(d)
      BY DEF AllSeenOK
    <3>2. pagerefFd(fd[d][slot[d]])' = pagerefFd(fd[d][slot[d]]) /\ pagerefPipe' = pagerefPipe
      BY <2>1 DEF pagerefFd, pagerefPipe
    <3> QED BY <2>1, <3>1, <3>2 DEF SeenOK
  <2> QED BY <2>1, <2>2 DEF AllSeenOK, IsSeenFunction
<1>5. ASSUME NEW e \in Envs, Continue(e) \/ Call(e) PROVE AllSeenOK' /\ IsSeenFunction'
  <2>1. \/ MapStep(e)
        \/ (\E c \in Unborn : fork(e, c)) \/ duppage(e) \/ ForkDone(e)
        \/ CallStep(e)
    BY <1>5 DEF Continue, Call, MapStep, CallStep
  <2> QED BY <1>1, <1>2, <2>1
<1> QED BY <1>3, <1>4, <1>5 DEF Next

\* The answer yes of _pipeisclosed() when nobody is in the middle of a fork():
\* the child has descriptor pages before it has data pages.
LEMMA AnswerIsTrue ==
    ASSUME Inv, PagesOK, AllSeenOK, IsFiniteSet(Envs), NEW e \in Envs,
           \A d \in Envs : pc[d] # "fork",
           CheckEnd(e), LooksClosed(e)
    PROVE  fd[e][slot[e]] \in Ends /\ ~IsOpen(Other(fd[e][slot[e]]))
<1>1. /\ pc[e] = "load" /\ e \in cpus /\ ~moved[e] /\ Len(seen[e]) = 2
      /\ seen[e][1][2] = seen[e][2][2]
  BY DEF CheckEnd, At, NotMoved, LooksClosed
<1>2. fd[e][slot[e]] \in Ends
  BY <1>1 DEF Inv, CallsOK, CallOK, CheckLabels, InRead, InWrite, Ends
<1>3. PICK s \in Seq({"fd", "pipe"} \X Nat) : s = seen[e]
  BY DEF AllSeenOK, SeenOK
<1>4. /\ 1 \in DOMAIN s /\ 2 \in DOMAIN s /\ s[1] \in {"fd", "pipe"} \X Nat
      /\ s[2] \in {"fd", "pipe"} \X Nat
  BY <1>1, <1>3
<1>5. s[1][1] # s[2][1]
  BY <1>3, <1>4 DEF AllSeenOK, SeenOK
<1>6. \A k \in {1, 2} : s[k][2] = IF s[k][1] = "fd" THEN pagerefFd(fd[e][slot[e]])
                                  ELSE pagerefPipe
  BY <1>1, <1>3, <1>4 DEF AllSeenOK, SeenOK
<1>7. pagerefFd(fd[e][slot[e]]) = pagerefPipe
  BY <1>1, <1>3, <1>4, <1>5, <1>6
<1>8. \A d \in Envs, j \in Slots : fd[d][j] # NoEnd => data[d][j]
  <2> SUFFICES ASSUME NEW d \in Envs PROVE \A j \in Slots : fd[d][j] # NoEnd => data[d][j]
    OBVIOUS
  <2>1. \A b \in Envs : child[b] = NoEnv
    BY DEF Inv, CallsOK, ForkOK
  <2>2. d # NoEnv
    BY PipeAssumption
  <2> QED BY <2>1, <2>2 DEF PagesOK, PageOK
<1> QED BY <1>2, <1>7, <1>8, EqualCounts DEF Inv


\* Descriptors are copies: the last one of an end does not come back.
LEMMA OpenIsCopied ==
    ASSUME Inv, [Next]_vars, NEW end \in Ends, ~IsOpen(end)
    PROVE  ~IsOpen(end)'
<1>0. /\ TypeOK /\ CallsOK /\ end # NoEnd
      /\ fd \in [Envs -> [Slots -> Ends \cup {NoEnd}]]
      /\ NoEnd \in Ends \cup {NoEnd} /\ 2 \in Slots
  BY DEF Inv, TypeOK, Ends, NoEnd, Slots
<1>1. \A d \in Envs, j \in Slots : fd[d][j] # end
  BY DEF IsOpen
<1>2. ASSUME NEW e \in Envs, NEW i \in Slots, NEW v \in Ends \cup {NoEnd}, v # end,
             fd' = [fd EXCEPT ![e][i] = v]
      PROVE  ~IsOpen(end)'
  BY <1>0, <1>1, <1>2, SetFd DEF IsOpen
<1>3. fd' = fd => ~IsOpen(end)'
  BY <1>1 DEF IsOpen
<1>4. ASSUME NEW e \in Envs, MapStep(e) PROVE ~IsOpen(end)'
  <2>1. CASE \E i \in Slots : close(e, i)
    BY <1>0, <1>2, <2>1 DEF close
  <2>2. CASE \E i \in Slots : dup(e, i)
    BY <1>0, <1>2, <1>3, <2>2 DEF dup
  <2>3. CASE exit(e)
    <3>1. \A d \in Envs, j \in Slots : fd'[d][j] \in {fd[d][j], NoEnd}
      BY <1>0, <2>3 DEF exit
    <3> QED BY <1>0, <1>1, <3>1 DEF IsOpen
  <2>4. CASE CloseData(e) \/ DupClose(e) \/ DupData(e)
    BY <1>3, <2>4 DEF CloseData, DupClose, DupData
  <2>5. CASE DupFd(e)
    <3>1. fd' = [fd EXCEPT ![e][2] = fd[e][from[e]]] /\ pc[e] = "dupfd"
      BY <2>5 DEF DupFd, At
    <3>2. from[e] \in Slots
      BY <1>0, <3>1 DEF CallsOK, CallOK, DupLabels, Slots
    <3>3. PICK v \in Ends \cup {NoEnd} : v = fd[e][from[e]] /\ v # end
      BY <1>0, <1>1, <3>2
    <3> QED BY <1>0, <1>2, <3>1, <3>3
  <2>6. \/ \E i \in Slots : close(e, i)
        \/ \E i \in Slots : dup(e, i)
        \/ CloseData(e) \/ exit(e) \/ DupClose(e) \/ DupData(e) \/ DupFd(e)
    BY <1>4 DEF MapStep
  <2> QED BY <2>1, <2>2, <2>3, <2>4, <2>5, <2>6
<1>5. ASSUME NEW e \in Envs, (\E c \in Unborn : fork(e, c)) \/ duppage(e) \/ ForkDone(e)
      PROVE  ~IsOpen(end)'
  <2>1. CASE (\E c \in Unborn : fork(e, c)) \/ ForkDone(e)
    BY <1>3, <2>1 DEF fork, ForkDone, mapVars
  <2>2. CASE duppage(e)
    <3>1. PICK c \in Envs, k \in 0 .. 6 : c = child[e] /\ k = from[e]
      BY <1>0, <2>2 DEF duppage, At, CallsOK, ForkOK, TypeOK
    <3>2. \/ k < 3 /\ fd' = [fd EXCEPT ![c][k] = fd[e][k]]
          \/ fd' = fd
      BY <2>2, <3>1 DEF duppage
    <3>3. CASE fd' = fd
      BY <1>3, <3>3
    <3>4. CASE k < 3 /\ fd' = [fd EXCEPT ![c][k] = fd[e][k]]
      <4>1. k \in Slots
        BY <3>4 DEF Slots
      <4>2. PICK v \in Ends \cup {NoEnd} : v = fd[e][k] /\ v # end
        BY <1>0, <1>1, <4>1
      <4> QED BY <1>2, <3>4, <4>1, <4>2
    <3> QED BY <3>2, <3>3, <3>4
  <2> QED BY <1>5, <2>1, <2>2
<1>6. ASSUME NEW e \in Envs, CallStep(e) PROVE ~IsOpen(end)'
  BY <1>0, <1>3, <1>6, CallStepMoves DEF mapVars
<1>7. CASE Switches \/ UNCHANGED vars
  BY <1>3, <1>7 DEF Switches, Dispatch, Switch, vars, mapVars
<1>8. ASSUME NEW e \in Envs, Continue(e) \/ Call(e) PROVE ~IsOpen(end)'
  <2>1. \/ MapStep(e)
        \/ (\E c \in Unborn : fork(e, c)) \/ duppage(e) \/ ForkDone(e)
        \/ CallStep(e)
    BY <1>8 DEF Continue, Call, MapStep, CallStep
  <2> QED BY <1>4, <1>5, <1>6, <2>1
<1> QED BY <1>7, <1>8 DEF Next

\* Nobody is born twice.
UnbornOK == \A d \in Envs : pc[d] = "unborn" => d \in Unborn

\* What the other environments do, and what switches do, to one that has its
\* answer.
LEMMA OthersMove ==
    ASSUME Inv, [Next]_vars, NEW d \in Envs
    PROVE  /\ pc'[d] = "unborn" => pc[d] = "unborn"
           /\ pc[d] = "closed" /\ pc'[d] = "closed" => fd'[d] = fd[d] /\ slot'[d] = slot[d]
           /\ pc'[d] = "closed" => pc[d] = "closed" \/ (CheckEnd(d) /\ LooksClosed(d))
<1>0. TypeOK /\ CallsOK /\ d \in Envs
  BY DEF Inv
<1>1. ASSUME NEW e \in Envs, MapStep(e)
      PROVE  /\ pc'[d] \in {"unborn", "closed"} => pc[d] = pc'[d]
             /\ pc[d] = "closed" /\ pc'[d] = "closed" => fd'[d] = fd[d] /\ slot'[d] = slot[d]
  BY <1>0, <1>1, MapStepCall DEF OthersKept, DupLabels
<1>2. ASSUME NEW e \in Envs, (\E c \in Unborn : fork(e, c)) \/ duppage(e) \/ ForkDone(e)
      PROVE  /\ pc'[d] \in {"unborn", "closed"} => pc[d] = pc'[d]
             /\ pc[d] = "closed" /\ pc'[d] = "closed" => fd'[d] = fd[d] /\ slot'[d] = slot[d]
  <2>1. CASE \E c \in Unborn : fork(e, c)
    <3>1. pc[e] = "idle" /\ Goto(e, "fork") /\ "fork" \in Labels /\ UNCHANGED <<fd, slot>>
      BY <2>1 DEF fork, At, Labels, mapVars
    <3> QED BY <1>0, <3>1, SetPc
  <2>2. CASE duppage(e)
    <3>1. PICK c \in Envs, k \in 0 .. 6 : c = child[e] /\ k = from[e] /\ pc[c] = "unborn"
      BY <1>0, <2>2 DEF duppage, At, CallsOK, ForkOK, TypeOK
    <3>2. UNCHANGED <<pc, slot>> /\ (fd' = fd \/ fd' = [fd EXCEPT ![c][k] = fd[e][k]])
      BY <2>2, <3>1 DEF duppage
    <3>3. d # c => fd'[d] = fd[d]
      BY <1>0, <3>2 DEF TypeOK
    <3> QED BY <3>1, <3>2, <3>3
  <2>3. CASE ForkDone(e)
    <3>1. UNCHANGED <<fd, slot>>
      BY <2>3 DEF ForkDone, mapVars
    <3> QED BY <1>0, <2>3, <3>1, ForkEnds
  <2> QED BY <1>2, <2>1, <2>2, <2>3
<1>3. ASSUME NEW e \in Envs, CallStep(e)
      PROVE  /\ pc'[d] = "unborn" => pc[d] = "unborn"
             /\ pc[d] = "closed" /\ pc'[d] = "closed" => fd'[d] = fd[d] /\ slot'[d] = slot[d]
             /\ pc'[d] = "closed" => pc[d] = "closed" \/ (CheckEnd(d) /\ LooksClosed(d))
  <2>1. /\ UNCHANGED mapVars /\ pc'[e] \in CallLabels
        /\ \A b \in Envs \ {e} : pc'[b] = pc[b] /\ slot'[b] = slot[b]
    BY <1>0, <1>3, CallStepMoves
  <2>2. CASE d # e
    BY <2>1, <2>2 DEF mapVars
  <2>3. CASE d = e
    <3>1. pc'[e] = "closed" => CheckEnd(e) /\ LooksClosed(e)
      <4>1. ASSUME NEW l \in Labels, Goto(e, l) PROVE pc'[e] = l
        BY <1>0, <4>1, SetPc
      <4>2. {"idle", "rtest", "rtake", "rinc", "wtest", "wstore", "winc", "check", "load"} \subseteq Labels
        BY DEF Labels
      <4>3. CASE read(e) \/ ReadTest(e) \/ Take(e)
        BY <4>1, <4>2, <4>3 DEF read, ReadTest, Take, ReadTake, ReadInc, Done
      <4>4. CASE write(e) \/ WriteTest(e) \/ WriteStore(e) \/ WriteInc(e)
        BY <4>1, <4>2, <4>4 DEF write, WriteTest, WriteStore, WriteInc, Done
      <4>5. CASE CheckBegin(e) \/ CheckAgain(e) \/ Return(e)
        BY <4>1, <4>2, <4>5 DEF CheckBegin, CheckAgain, Return, Done
      <4>6. CASE LoadFd(e) \/ LoadPipe(e)
        BY <4>6 DEF LoadFd, LoadPipe, At
      <4>7. CASE CheckEnd(e)
        BY <4>1, <4>2, <4>7 DEF CheckEnd
      <4> QED BY <1>3, <4>3, <4>4, <4>5, <4>6, <4>7 DEF CallStep, Check
    <3>2. CheckEnd(e) => pc[e] = "load"
      BY DEF CheckEnd, At
    <3>3. pc'[e] # "unborn"
      BY <2>1 DEF CallLabels
    <3> QED BY <2>3, <3>1, <3>2, <3>3
  <2> QED BY <2>2, <2>3
<1>4. CASE Switches \/ UNCHANGED vars
  <2>1. UNCHANGED <<mapVars, pc, callVars>>
    BY <1>4 DEF Switches, Dispatch, Switch, vars
  <2> QED BY <2>1 DEF mapVars, callVars
<1>5. ASSUME NEW e \in Envs, Continue(e) \/ Call(e)
      PROVE  /\ pc'[d] = "unborn" => pc[d] = "unborn"
             /\ pc[d] = "closed" /\ pc'[d] = "closed" => fd'[d] = fd[d] /\ slot'[d] = slot[d]
             /\ pc'[d] = "closed" => pc[d] = "closed" \/ (CheckEnd(d) /\ LooksClosed(d))
  <2>1. \/ MapStep(e)
        \/ (\E c \in Unborn : fork(e, c)) \/ duppage(e) \/ ForkDone(e)
        \/ CallStep(e)
    BY <1>5 DEF Continue, Call, MapStep, CallStep
  <2> QED BY <1>1, <1>2, <1>3, <2>1
<1> QED BY <1>4, <1>5 DEF Next


\* A single fork() at most is under way when somebody can look at the pipe.
ForksApart == Unborn = {} \/ Envs = {Reader, Writer}

Closed(e) == pc[e] = "closed" =>
    fd[e][slot[e]] \in Ends /\ ~IsOpen(Other(fd[e][slot[e]]))

CheckInv ==
    /\ Inv /\ PagesOK /\ OneCpu /\ AllSeenOK /\ IsSeenFunction /\ UnbornOK
    /\ \A e \in Envs : Closed(e)

\* Nobody looks at the pipe in the middle of a fork().
LEMMA NobodyForks ==
    ASSUME ForksApart, Inv, UnbornOK, NEW e \in Envs, pc[e] = "load",
           NEW d \in Envs, pc[d] = "fork"
    PROVE  FALSE
<1>1. PICK c \in Envs : c = child[d] /\ pc[c] = "unborn"
  BY DEF Inv, CallsOK, ForkOK, TypeOK
<1>2. c \in Unborn
  BY <1>1 DEF UnbornOK
<1>3. c # d /\ c # e /\ d # e
  BY <1>1
<1> QED BY <1>2, <1>3, PipeAssumption DEF ForksApart

LEMMA CheckInit == NCPU = 1 /\ IsFiniteSet(Envs) /\ Init => CheckInv
<1> SUFFICES ASSUME NCPU = 1, IsFiniteSet(Envs), Init PROVE CheckInv
  OBVIOUS
<1>1. Inv
  BY InvInit
<1>2. \A e \in Envs : /\ pc[e] = (IF e \in Born THEN "idle" ELSE "unborn")
                      /\ child[e] = NoEnv /\ seen[e] = <<>>
  BY DEF Init
<1>3. PagesOK
  <2> SUFFICES ASSUME NEW d \in Envs PROVE PageOK(d)
    BY DEF PagesOK
  <2>1. \A j \in Slots : /\ fd[d][j] # NoEnd => d \in Born /\ j # 2
                         /\ data[d][j] = (d \in Born /\ j # 2)
    <3>1. \A j \in Slots : j \in {0, 1, 2}
      BY DEF Slots
    <3> QED BY <3>1 DEF Init
  <2>2. pc[d] \in {"idle", "unborn"} /\ (pc[d] = "unborn" => d \notin Born)
    BY <1>2
  <2> QED BY <2>1, <2>2 DEF PageOK
<1>4. OneCpu
  <2>1. cpus \in SUBSET Born /\ cpus # {} /\ Cardinality(cpus) <= 1 /\ Born \subseteq Envs
    BY DEF Init, Born
  <2>2. IsFiniteSet(cpus)
    BY <2>1, FS_Subset
  <2>3. Cardinality(cpus) = 1
    <3>1. Cardinality(cpus) \in Nat /\ Cardinality(cpus) # 0
      BY <2>1, <2>2, FS_CardinalityType, FS_EmptySet
    <3> QED BY <2>1, <3>1
  <2>4. \E x : cpus = {x}
    BY <2>2, <2>3, FS_Singleton
  <2> QED BY <2>4 DEF OneCpu
<1>5. AllSeenOK
  <2>1. <<>> \in Seq({"fd", "pipe"} \X Nat) /\ DOMAIN <<>> = {}
    OBVIOUS
  <2> QED BY <1>2, <2>1 DEF AllSeenOK, SeenOK
<1>6. IsSeenFunction
  BY DEF Init, IsSeenFunction
<1>7. UnbornOK
  BY <1>2 DEF UnbornOK, Born
<1>8. \A e \in Envs : Closed(e)
  BY <1>2 DEF Closed
<1> QED BY <1>1, <1>3, <1>4, <1>5, <1>6, <1>7, <1>8 DEF CheckInv

LEMMA CheckNext ==
    NCPU = 1 /\ IsFiniteSet(Envs) /\ ForksApart /\ CheckInv /\ [Next]_vars => CheckInv'
<1> SUFFICES ASSUME NCPU = 1, IsFiniteSet(Envs), ForksApart, CheckInv, [Next]_vars PROVE CheckInv'
  OBVIOUS
<1>0. Inv /\ PagesOK /\ OneCpu /\ AllSeenOK /\ IsSeenFunction /\ UnbornOK
  BY DEF CheckInv
<1>1. Inv'
  BY <1>0, InvNext
<1>2. PagesOK'
  BY <1>0, PagesNext
<1>3. OneCpu'
  <2>1. IsFiniteSet(cpus)
    BY <1>0, FS_Subset DEF Inv, TypeOK
  <2> QED BY <1>0, <2>1, OneCpuNext
<1>4. AllSeenOK' /\ IsSeenFunction'
  BY <1>0, SeenNext
<1>5. UnbornOK'
  BY <1>0, OthersMove DEF UnbornOK
<1>6. ASSUME NEW e \in Envs PROVE Closed(e)'
  <2> SUFFICES ASSUME pc'[e] = "closed"
               PROVE  \E end \in Ends : fd'[e][slot'[e]] = end /\ ~IsOpen(Other(end))'
    BY DEF Closed
  <2>1. /\ fd[e][slot[e]] \in Ends /\ ~IsOpen(Other(fd[e][slot[e]]))
        /\ fd'[e][slot'[e]] = fd[e][slot[e]]
    <3>1. CASE pc[e] = "closed"
      <4>1. fd'[e] = fd[e] /\ slot'[e] = slot[e]
        BY <1>0, <3>1, OthersMove
      <4> QED BY <3>1, <4>1 DEF CheckInv, Closed
    <3>2. CASE pc[e] # "closed"
      <4>1. CheckEnd(e) /\ LooksClosed(e)
        BY <1>0, <3>2, OthersMove
      <4>2. pc[e] = "load" /\ UNCHANGED <<fd, slot>>
        BY <4>1 DEF CheckEnd, At, mapVars, callVars
      <4>3. \A d \in Envs : pc[d] # "fork"
        BY <1>0, <4>2, NobodyForks
      <4> QED BY <1>0, <4>1, <4>2, <4>3, AnswerIsTrue
    <3> QED BY <3>1, <3>2
  <2>2. PICK end \in Ends : end = fd[e][slot[e]]
    BY <2>1
  <2>3. Other(end) \in Ends
    BY DEF Other, Ends
  <2>4. ~IsOpen(Other(end))'
    BY <1>0, <2>1, <2>2, <2>3, OpenIsCopied
  <2> QED BY <2>1, <2>2, <2>4
<1> QED BY <1>1, <1>2, <1>3, <1>4, <1>5, <1>6 DEF CheckInv

\* On one CPU, and unless a fork() is in progress, _pipeisclosed() answers
\* yes only when no descriptor of the other end is left, and from then on
\* none comes back: the comparison of env_runs makes up for there being no
\* lock, however many environments share the pipe.
THEOREM ClosedAnswersAreTrue ==
    ASSUME NCPU = 1, IsFiniteSet(Envs), ForksApart
    PROVE  Spec => []ClosedIsTrue
<1>1. CheckInv => ClosedIsTrue
  BY DEF CheckInv, Closed, ClosedIsTrue
<1>2. Init => CheckInv
  BY CheckInit
<1>3. CheckInv /\ [Next]_vars => CheckInv'
  BY CheckNext
<1> QED BY <1>1, <1>2, <1>3, PTL DEF Spec

-----------------------------------------------------------------------------
(* Part 2: the heap.  The invariant is stated of values, so that what a    *)
(* step makes of them can be said before it is assigned to the variables:  *)
(* m is mptr, t the page table, r the counts, lv the blocks in use and pd  *)
(* the parted pages.                                                       *)

HeapPages == MBegin .. MEnd - 1

\* The page of the count of block b, from its address and length.
Last(b) == PageOf(b.v + b.n + 3)

\* The blocks that the count of page p counts, and the whole count, when mptr is
\* m, the blocks are lv and the parted pages pd.
Ending(lv, p) == {b \in lv : Last(b) = p}
Uses(m, lv, pd, p) ==
    Cardinality(Ending(lv, p)) + (IF m % PGSIZE # 0 /\ PageOf(m) = p THEN 1 ELSE 0)
                               + (IF p \in pd THEN 1 ELSE 0)

\* The types, and what is known of the program's pages and the parted ones.
Typed(m, t, r, lv, pd) ==
    /\ m \in 0 .. Size - 1
    /\ t \in [Page -> {"none", "page", "cont"}]
    /\ r \in [Page -> Nat]
    /\ IsFiniteSet(lv) /\ \A b \in lv : b.v \in 0 .. Size - 1 /\ b.n \in Nat
    /\ pd \subseteq Page /\ \A p \in pd \cup Text : t[p] = "page"

\* Every block lies on pages of its own up to one with a count.
Laid(t, lv) ==
    \A b \in lv : /\ Last(b) < MEnd /\ Last(b) \notin Text /\ t[Last(b)] = "page"
                  /\ \A q \in PageOf(b.v) .. Last(b) - 1 : t[q] = "cont"

\* Block b has page q to itself.
Owns(b, q) == PageOf(b.v) <= q /\ q < Last(b)

Apart(lv) ==
    \A b, c \in lv : b # c =>
        /\ b.v + b.n <= c.v \/ c.v + c.n <= b.v
        /\ \A q \in Page : ~(Owns(b, q) /\ Owns(c, q))

\* The page mptr is in has a count, and its blocks end before mptr.
Open(m, t, lv) ==
    m % PGSIZE # 0 =>
        /\ PageOf(m) < MEnd /\ PageOf(m) \notin Text /\ t[PageOf(m)] = "page"
        /\ \A b \in lv : Last(b) = PageOf(m) => b.v + b.n <= m

Counts(m, t, r, lv, pd) ==
    \A p \in HeapPages : t[p] = "page" => r[p] = Uses(m, lv, pd, p) /\ r[p] > 0

Runs(t, lv) ==
    \A p \in HeapPages : t[p] = "cont" => \E b \in lv : Owns(b, p)

Layout(m, t, r, lv, pd) ==
    Typed(m, t, r, lv, pd) /\ Laid(t, lv) /\ Apart(lv) /\ Open(m, t, lv)

HeapOK(m, t, r, lv, pd) ==
    Layout(m, t, r, lv, pd) /\ Counts(m, t, r, lv, pd) /\ Runs(t, lv)

\* The inductive invariant.  free() and malloc() may fail an assertion after a
\* block outside the heap was given out; the counts are not right any more then.
HeapInv ==
    /\ Layout(mptr, pt, ref, live, parted)
    /\ alive \in BOOLEAN
    /\ alive => Counts(mptr, pt, ref, live, parted) /\ Runs(pt, live)

-----------------------------------------------------------------------------
\* Every set of naturals has a least element, which Min chooses.
LEMMA LeastNat ==
    ASSUME NEW S \in SUBSET Nat, S # {}
    PROVE  Min(S) \in S /\ \A k \in S : Min(S) <= k
<1> DEFINE R == {s \in Nat \X Nat : s[1] < s[2]}
<1>1. IsWellFoundedOn(R, Nat) BY NatLessThanWellFounded DEF OpToRel
<1> HIDE DEF R
<1>2. PICK m \in S : \A k \in S : <<k, m>> \notin R BY <1>1, WFMin
<1>3. ASSUME NEW k \in S PROVE m <= k
  <2>1. <<k, m>> \notin R BY <1>2
  <2> QED BY <2>1 DEF R
<1>4. \E x \in S : \A y \in S : x <= y BY <1>3
<1> QED BY <1>4 DEF Min

\* Pages in numbers: what PageOf() means, when an address is in a page, ...
LEMMA PageOfDef ==
    ASSUME NEW a \in Nat
    PROVE  /\ PageOf(a) \in Nat
           /\ PageOf(a) * PGSIZE <= a /\ a < PageOf(a) * PGSIZE + PGSIZE
           /\ a % PGSIZE = 0 <=> a = PageOf(a) * PGSIZE
BY HeapAssumption DEF PageOf

LEMMA PageOfIs ==
    ASSUME NEW a \in Nat, NEW p \in Nat, p * PGSIZE <= a, a < p * PGSIZE + PGSIZE
    PROVE  PageOf(a) = p
BY HeapAssumption DEF PageOf

\* ... that higher addresses are in higher pages,
LEMMA PageOfMono ==
    ASSUME NEW a \in Nat, NEW b \in Nat, a <= b
    PROVE  PageOf(a) <= PageOf(b)
BY HeapAssumption DEF PageOf

\* ... what a whole number of pages adds,
LEMMA PageShift ==
    ASSUME NEW a \in Nat, NEW p \in Nat
    PROVE  PageOf(p * PGSIZE + a) = p + PageOf(a)
BY HeapAssumption DEF PageOf

\* ... and that pages follow each other without overlap.
LEMMA Below ==
    ASSUME NEW p \in Nat, NEW q \in Nat
    PROVE  p < q <=> p * PGSIZE + PGSIZE <= q * PGSIZE
BY HeapAssumption

\* A page does not end inside an aligned word.
LEMMA Aligned ==
    ASSUME NEW a \in Nat, a % 4 = 0
    PROVE  PageOf(a + 3) = PageOf(a)
<1> DEFINE p == PageOf(a)
<1>1. p \in Nat /\ p * PGSIZE <= a /\ a < p * PGSIZE + PGSIZE BY PageOfDef
<1> HIDE DEF p
<1>2. PICK i \in Nat : a = 4 * i
  <2>1. a = 4 * (a \div 4) BY SMT
  <2> QED BY <2>1
<1>3. PICK j \in Nat : PGSIZE = 4 * j
  <2>1. PGSIZE = 4 * (PGSIZE \div 4) BY HeapAssumption
  <2> QED BY <2>1, HeapAssumption
<1>4. i < p * j + j
  <2>1. 4 * i < 4 * (p * j + j) BY <1>1, <1>2, <1>3
  <2>2. p * j + j \in Nat BY <1>1
  <2> QED BY <2>1, <2>2
<1>5. a + 4 <= p * PGSIZE + PGSIZE
  <2>1. p * j + j \in Nat BY <1>1
  <2>2. 4 * (i + 1) <= 4 * (p * j + j) BY <2>1, <1>4
  <2> QED BY <2>2, <1>1, <1>2, <1>3
<1>6. a + 3 < p * PGSIZE + PGSIZE BY <1>1, <1>5, HeapAssumption
<1> QED BY <1>1, <1>6, PageOfIs, HeapAssumption DEF p

\* A run ends with the page of the last byte of its count.
LEMMA RunLengthIs ==
    ASSUME NEW n \in Nat
    PROVE  RunLength(n) = PageOf(n + 3) + 1
BY HeapAssumption DEF PageOf, RunLength

\* The constants, and the places of the heap in the address space.
LEMMA HeapConstants ==
    /\ PGSIZE \in Nat /\ PGSIZE > 4 /\ NPages \in Nat /\ MBegin \in Nat /\ MEnd \in Nat
    /\ 0 < MBegin /\ MBegin < MEnd /\ MEnd < NPages
    /\ Size \in Nat /\ Size > 0 /\ MEnd * PGSIZE < Size
    /\ HeapPages \subseteq Page /\ Page \subseteq Nat
<1>1. MEnd * PGSIZE + PGSIZE <= NPages * PGSIZE BY HeapAssumption, Below
<1>2. Size \in Nat /\ MEnd * PGSIZE \in Nat BY HeapAssumption DEF Size
<1> QED BY <1>1, <1>2, HeapAssumption DEF Size, HeapPages, Page

\* Where a block lies.
LEMMA BlockBounds ==
    ASSUME NEW b, b.v \in Nat, b.n \in Nat
    PROVE  /\ PageOf(b.v) \in Nat /\ Last(b) \in Nat /\ PageOf(b.v) <= Last(b)
           /\ PageOf(b.v) * PGSIZE <= b.v
           /\ b.v + b.n + 3 < Last(b) * PGSIZE + PGSIZE
<1>1. b.v + b.n + 3 \in Nat /\ b.v <= b.v + b.n + 3 OBVIOUS
<1> QED BY <1>1, PageOfDef, PageOfMono DEF Last

\* The search for the page with the count ends where the run does.
LEMMA CountPageIs ==
    ASSUME NEW p \in Page, NEW c \in Page, p <= c, pt[c] # "cont",
           \A q \in p .. c - 1 : pt[q] = "cont"
    PROVE  CountPage(p) = c
<1> DEFINE S == {q \in p .. NPages - 1 : pt[q] # "cont"}
<1>1. S \in SUBSET Nat /\ c \in S BY HeapConstants DEF Page
<1>2. Min(S) \in S /\ Min(S) <= c BY <1>1, LeastNat
<1>3. Min(S) \in Nat /\ Min(S) >= p /\ ~(Min(S) \in p .. c - 1) BY <1>1, <1>2
<1>4. Min(S) = c BY <1>2, <1>3, HeapConstants DEF Page
<1> QED BY <1>4 DEF CountPage

\* free() finds the count of a block where the invariant says it is.
LEMMA BlockIsLaid ==
    ASSUME Layout(mptr, pt, ref, live, parted), NEW b \in live
    PROVE  /\ b.v \in Nat /\ b.n \in Nat
           /\ PageOf(b.v) \in Page /\ Last(b) \in Page /\ PageOf(b.v) <= Last(b)
           /\ CountPage(PageOf(b.v)) = Last(b)
<1>1. b.v \in Nat /\ b.n \in Nat BY HeapConstants DEF Layout, Typed
<1>2. /\ Last(b) < MEnd /\ pt[Last(b)] = "page"
      /\ \A q \in PageOf(b.v) .. Last(b) - 1 : pt[q] = "cont"
  BY DEF Layout, Laid
<1>3. PageOf(b.v) \in Page /\ Last(b) \in Page /\ PageOf(b.v) <= Last(b)
  BY <1>1, <1>2, BlockBounds, HeapConstants DEF Page
<1> QED BY <1>1, <1>2, <1>3, CountPageIs

\* The invariant implies the properties.
LEMMA BlocksAreLaid ==
    Layout(mptr, pt, ref, live, parted) => BlocksSound
<1> SUFFICES ASSUME Layout(mptr, pt, ref, live, parted), NEW b \in live
             PROVE  /\ \A a \in Bytes(b) : PageOf(a) \in Mapped(pt) \ Text /\ a \notin CountBytes
                    /\ \A c \in live \ {b} : Bytes(b) \cap Bytes(c) = {}
  BY DEF BlocksSound
<1>1. ASSUME NEW a \in Bytes(b)
      PROVE  /\ PageOf(a) \in PageOf(b.v) .. Last(b) /\ a \in Nat
             /\ PageOf(a) = Last(b) => a + 4 < Last(b) * PGSIZE + PGSIZE
  <2>1. /\ b.v \in Nat /\ b.n \in Nat /\ a \in Nat
        /\ b.v <= a /\ a <= b.v + b.n - 1 /\ a <= b.v + b.n + 3
    BY BlockIsLaid DEF Bytes
  <2>2. PageOf(b.v) <= PageOf(a) /\ PageOf(a) <= Last(b) /\ PageOf(a) \in Nat
    BY <2>1, PageOfMono, PageOfDef DEF Last
  <2>3. b.v + b.n + 3 < Last(b) * PGSIZE + PGSIZE /\ Last(b) \in Nat BY <2>1, BlockBounds
  <2> QED BY <2>1, <2>2, <2>3, HeapConstants
<1>2. ASSUME NEW a \in Bytes(b)
      PROVE  PageOf(a) \in Mapped(pt) \ Text /\ a \notin CountBytes
  <2>1. PageOf(a) \in PageOf(b.v) .. Last(b) /\ a \in Nat BY <1>1
  <2>2. /\ Last(b) \notin Text /\ pt[Last(b)] = "page"
        /\ \A q \in PageOf(b.v) .. Last(b) - 1 : pt[q] = "cont"
        /\ \A q \in Text : pt[q] = "page"
    BY DEF Layout, Laid, Typed
  <2>0. PageOf(b.v) \in Nat /\ Last(b) \in Nat /\ Last(b) < NPages /\ NPages \in Nat
    BY BlockIsLaid, HeapConstants DEF Page
  <2>3. PageOf(a) \in Page BY <2>0, <2>1 DEF Page
  <2>4. PageOf(a) = Last(b) \/ pt[PageOf(a)] = "cont"
    <3>1. PageOf(a) = Last(b) \/ PageOf(a) \in PageOf(b.v) .. Last(b) - 1 BY <2>0, <2>1
    <3> QED BY <2>2, <3>1
  <2>5. PageOf(a) \in Mapped(pt) \ Text BY <2>2, <2>3, <2>4 DEF Mapped
  <2>6. ASSUME NEW p \in Page, pt[p] = "page",
               a \in (p + 1) * PGSIZE - 4 .. (p + 1) * PGSIZE - 1
        PROVE  FALSE
    <3>1. p \in Nat /\ p * PGSIZE <= a /\ a < p * PGSIZE + PGSIZE /\ a + 4 >= p * PGSIZE + PGSIZE
      BY <2>1, <2>6, HeapConstants
    <3>2. PageOf(a) = p BY <2>1, <3>1, PageOfIs
    <3> QED BY <2>4, <2>6, <3>1, <3>2, <1>1, HeapConstants
  <2> QED BY <2>5, <2>6 DEF CountBytes, Mapped
<1>3. ASSUME NEW c \in live \ {b} PROVE Bytes(b) \cap Bytes(c) = {}
  <2>1. b.v + b.n <= c.v \/ c.v + c.n <= b.v BY <1>3 DEF Layout, Apart
  <2>2. b.v \in Nat /\ b.n \in Nat /\ c.v \in Nat /\ c.n \in Nat BY BlockIsLaid
  <2> QED BY <2>1, <2>2 DEF Bytes
<1> QED BY <1>2, <1>3

\* The program lies between a block at address 0 and the heap.
LEMMA ZeroIsOutside ==
    ASSUME Layout(mptr, pt, ref, live, parted), NEW b \in live, b.v = 0
    PROVE  Last(b) < MBegin
<1> SUFFICES ASSUME Last(b) >= MBegin PROVE FALSE BY BlockIsLaid, HeapConstants DEF Page
<1>1. PageOf(b.v) = 0 BY PageOfIs, HeapConstants
<1>2. PICK x \in Text : x \in 0 .. MBegin - 1 BY HeapAssumption
<1>3. x \in PageOf(b.v) .. Last(b) - 1 BY <1>1, <1>2, BlockIsLaid, HeapConstants DEF Page
<1>4. pt[x] = "cont" BY <1>3 DEF Layout, Laid
<1>5. pt[x] = "page" BY <1>2 DEF Layout, Typed
<1> QED BY <1>4, <1>5

\* The blocks that free() will take from a count are those that end in its page.
LEMMA CountedAreEnding ==
    ASSUME Layout(mptr, pt, ref, live, parted), NEW p \in HeapPages
    PROVE  Counted(p) = Ending(live, p)
<1>1. \A b \in live : Last(b) = p => b.v # 0 BY ZeroIsOutside, HeapConstants DEF HeapPages
<1>2. \A b \in live : CountPage(PageOf(b.v)) = Last(b) BY BlockIsLaid
<1> QED BY <1>1, <1>2 DEF Counted, Ending

\* Counts and marks as the invariant has them are the ones PagesExact asks for.
LEMMA PagesAreCounted ==
    HeapOK(mptr, pt, ref, live, parted) => PagesExact
<1> SUFFICES ASSUME HeapOK(mptr, pt, ref, live, parted), NEW p \in MBegin .. MEnd - 1
             PROVE  /\ pt[p] = "page" =>
                         /\ ref[p] = Cardinality(Counted(p))
                               + (IF mptr % PGSIZE # 0 /\ PageOf(mptr) = p THEN 1 ELSE 0)
                               + (IF p \in parted THEN 1 ELSE 0)
                         /\ ref[p] > 0
                    /\ pt[p] = "cont" =>
                         \E b \in live : PageOf(b.v) <= p /\ p < CountPage(PageOf(b.v))
  BY DEF PagesExact, CountsExact, RunsExact
<1>1. Counted(p) = Ending(live, p) BY CountedAreEnding DEF HeapOK, HeapPages
<1>2. pt[p] = "page" => ref[p] = Uses(mptr, live, parted, p) /\ ref[p] > 0
  BY DEF HeapOK, Counts, HeapPages
<1>3. pt[p] = "cont" => \E b \in live : Owns(b, p) BY DEF HeapOK, Runs, HeapPages
<1>4. \A b \in live : CountPage(PageOf(b.v)) = Last(b) BY BlockIsLaid DEF HeapOK
<1> QED BY <1>1, <1>2, <1>3, <1>4 DEF Uses, Owns

-----------------------------------------------------------------------------
(* free(): the pages of a run go, and the page of the count with them when *)
(* it comes to zero.                                                       *)

\* A page without uses has no block that ends in it, nor mptr.
LEMMA UsesNat ==
    ASSUME NEW m, NEW lv, IsFiniteSet(lv), NEW pd, NEW p
    PROVE  /\ IsFiniteSet(Ending(lv, p)) /\ Cardinality(Ending(lv, p)) \in Nat
           /\ Uses(m, lv, pd, p) \in Nat
           /\ Uses(m, lv, pd, p) = 0 =>
                 /\ Ending(lv, p) = {} /\ p \notin pd
                 /\ m % PGSIZE # 0 => PageOf(m) # p
<1>1. IsFiniteSet(Ending(lv, p)) BY FS_Subset DEF Ending
<1>2. Cardinality(Ending(lv, p)) \in Nat BY <1>1, FS_CardinalityType
<1>3. Cardinality(Ending(lv, p)) = 0 => Ending(lv, p) = {} BY <1>1, FS_EmptySet
<1> QED BY <1>1, <1>2, <1>3 DEF Uses

\* What free() does keeps the invariant, if one use of the page goes with it.
LEMMA DropKeeps ==
    ASSUME HeapOK(mptr, pt, ref, live, parted),
           NEW p \in HeapPages, NEW c \in HeapPages, p <= c, pt[c] = "page",
           \A q \in p .. c - 1 : pt[q] = "cont",
           NEW STATE m, m \in 0 .. Size - 1, m = mptr \/ m % PGSIZE = 0,
           NEW STATE lv, lv \in SUBSET live,
           Uses(m, lv, parted, c) = Uses(mptr, live, parted, c) - 1,
           \A h \in HeapPages \ {c} : Uses(m, lv, parted, h) = Uses(mptr, live, parted, h),
           \A b \in lv, q \in p .. c - 1 : ~Owns(b, q),
           \A b \in live \ lv, q \in Page : Owns(b, q) => q \in p .. c - 1
    PROVE  HeapOK(m, Drop(p).pt, Drop(p).ref, lv, parted \cap Mapped(Drop(p).pt))
<1> DEFINE t == Drop(p).pt
           r == Drop(p).ref
           pd == parted \cap Mapped(t)
<1>1. /\ p \in Page /\ c \in Page /\ p \in Nat /\ c \in Nat /\ c < MEnd
      /\ HeapPages \subseteq Page
  BY HeapConstants DEF HeapPages
<1>2. CountPage(p) = c BY <1>1, CountPageIs
<1>3. /\ t = [q \in Page |-> IF q \in p .. c /\ (q < c \/ ref[c] = 1) THEN "none" ELSE pt[q]]
      /\ r = [ref EXCEPT ![c] = ref[c] - 1]
  BY <1>2 DEF Drop
<1> HIDE DEF t, r
<1>4. ref[c] = Uses(mptr, live, parted, c) /\ ref[c] > 0 /\ ref[c] \in Nat
  BY <1>1 DEF HeapOK, Layout, Counts, Typed
<1>5. Uses(m, lv, parted, c) = ref[c] - 1 /\ r[c] = ref[c] - 1
  BY <1>1, <1>3, <1>4 DEF HeapOK, Layout, Typed
<1>6. IsFiniteSet(lv) BY FS_Subset DEF HeapOK, Layout, Typed
<1>7. ref[c] = 1 => /\ Ending(lv, c) = {} /\ c \notin parted
                    /\ m % PGSIZE # 0 => PageOf(m) # c
  BY <1>4, <1>5, <1>6, UsesNat
\* What becomes of a page.
<1>8. \A q \in Page : \/ t[q] = pt[q]
                      \/ t[q] = "none" /\ q \in p .. c - 1 /\ pt[q] = "cont"
                      \/ t[q] = "none" /\ q = c /\ ref[c] = 1
  BY <1>1, <1>3
<1>9. \A q \in p .. c - 1 : q \in Page /\ t[q] = "none" BY <1>1, <1>3, HeapConstants DEF Page
<1>10. t[c] = IF ref[c] = 1 THEN "none" ELSE "page" BY <1>1, <1>3
<1>11. pd = parted
  <2>1. parted \subseteq Page /\ \A x \in parted : pt[x] = "page" BY DEF HeapOK, Layout, Typed
  <2>2. \A x \in parted : t[x] = "page" BY <2>1, <1>7, <1>8
  <2> QED BY <2>1, <2>2 DEF Mapped
<1>12. Typed(m, t, r, lv, pd)
  <2>1. t \in [Page -> {"none", "page", "cont"}] BY <1>3 DEF HeapOK, Layout, Typed
  <2>2. r \in [Page -> Nat] BY <1>1, <1>3, <1>4 DEF HeapOK, Layout, Typed
  <2>3. \A x \in Text : t[x] = "page"
    <3>1. Text \subseteq Page /\ Text \cap HeapPages = {} BY HeapAssumption DEF Page, HeapPages
    <3>2. \A x \in Text : pt[x] = "page" BY DEF HeapOK, Layout, Typed
    <3> QED BY <3>1, <3>2, <1>8
  <2>4. \A x \in parted : t[x] = "page" BY <1>7, <1>8 DEF HeapOK, Layout, Typed
  <2> QED BY <2>1, <2>2, <2>3, <2>4, <1>6, <1>11 DEF HeapOK, Layout, Typed
<1>13. Laid(t, lv)
  <2> SUFFICES ASSUME NEW b \in lv
               PROVE  /\ Last(b) < MEnd /\ Last(b) \notin Text /\ t[Last(b)] = "page"
                      /\ \A q \in PageOf(b.v) .. Last(b) - 1 : t[q] = "cont"
    BY DEF Laid
  <2>1. /\ Last(b) < MEnd /\ Last(b) \notin Text /\ pt[Last(b)] = "page"
        /\ \A q \in PageOf(b.v) .. Last(b) - 1 : pt[q] = "cont"
    BY DEF HeapOK, Layout, Laid
  <2>2. PageOf(b.v) \in Page /\ Last(b) \in Page BY BlockIsLaid DEF HeapOK
  <2>3. Last(b) = c => ref[c] # 1 BY <1>7 DEF Ending
  <2>4. t[Last(b)] = "page" BY <2>1, <2>2, <2>3, <1>8
  <2>5. ASSUME NEW q \in PageOf(b.v) .. Last(b) - 1 PROVE t[q] = "cont"
    <3>1. q \in Page /\ Owns(b, q) BY <2>2, HeapConstants DEF Page, Owns
    <3>2. q \notin p .. c - 1 BY <3>1
    <3>3. pt[q] = "cont" BY <2>1
    <3> QED BY <3>1, <3>2, <3>3, <1>8
  <2> QED BY <2>1, <2>4, <2>5
<1>14. Apart(lv) BY DEF HeapOK, Layout, Apart
<1>15. Open(m, t, lv)
  <2> SUFFICES ASSUME m % PGSIZE # 0
               PROVE  /\ PageOf(m) < MEnd /\ PageOf(m) \notin Text /\ t[PageOf(m)] = "page"
                      /\ \A b \in lv : Last(b) = PageOf(m) => b.v + b.n <= m
    BY DEF Open
  <2>1. m = mptr OBVIOUS
  <2>2. /\ PageOf(m) < MEnd /\ PageOf(m) \notin Text /\ pt[PageOf(m)] = "page"
        /\ \A b \in lv : Last(b) = PageOf(m) => b.v + b.n <= m
    BY <2>1 DEF HeapOK, Layout, Open
  <2>0. m \in Nat BY HeapConstants
  <2>3. PageOf(m) \in Page
    <3>1. PageOf(m) \in Nat BY <2>0, PageOfDef
    <3> QED BY <3>1, <2>2, HeapConstants DEF Page
  <2>4. PageOf(m) = c => ref[c] # 1 BY <1>7
  <2> QED BY <2>2, <2>3, <2>4, <1>8
<1>16. Counts(m, t, r, lv, pd)
  <2> SUFFICES ASSUME NEW h \in HeapPages, t[h] = "page"
               PROVE  r[h] = Uses(m, lv, parted, h) /\ r[h] > 0
    BY <1>11 DEF Counts
  <2>1. CASE h = c
    <3>1. ref[c] # 1 BY <2>1, <1>10
    <3> QED BY <2>1, <3>1, <1>4, <1>5
  <2>2. CASE h # c
    <3>1. pt[h] = "page" BY <2>2, <1>1, <1>8
    <3>2. ref[h] = Uses(mptr, live, parted, h) /\ ref[h] > 0 BY <3>1 DEF HeapOK, Counts
    <3>3. r[h] = ref[h] BY <2>2, <1>1, <1>3 DEF HeapOK, Layout, Typed
    <3> QED BY <2>2, <3>2, <3>3
  <2> QED BY <2>1, <2>2
<1>17. Runs(t, lv)
  <2> SUFFICES ASSUME NEW h \in HeapPages, t[h] = "cont" PROVE \E b \in lv : Owns(b, h)
    BY DEF Runs
  <2>1. pt[h] = "cont" /\ h \in Page /\ h \notin p .. c - 1 BY <1>1, <1>8, <1>9
  <2>2. PICK b \in live : Owns(b, h) BY <2>1 DEF HeapOK, Runs
  <2> QED BY <2>1, <2>2
<1> QED BY <1>12, <1>13, <1>14, <1>15, <1>16, <1>17 DEF HeapOK, Layout, t, r

\* The clauses, which take values as arguments, say of the next values what HeapInv' says.
LEMMA HeapOKNext ==
    HeapOK(mptr', pt', ref', live', parted') /\ alive' \in BOOLEAN => HeapInv'
BY DEF HeapInv, HeapOK, Layout, Typed, Laid, Apart, Open, Counts, Runs, Uses, Ending, Owns, Last, PageOf

\* A block that is given back was counted once.
LEMMA RemoveBlock ==
    ASSUME Layout(mptr, pt, ref, live, parted), NEW b \in live
    PROVE  /\ Uses(mptr, live \ {b}, parted, Last(b)) = Uses(mptr, live, parted, Last(b)) - 1
           /\ \A h : h # Last(b) => Uses(mptr, live \ {b}, parted, h) = Uses(mptr, live, parted, h)
<1>1. IsFiniteSet(live) BY DEF Layout, Typed
<1>2. Ending(live \ {b}, Last(b)) = Ending(live, Last(b)) \ {b} BY DEF Ending
<1>3. b \in Ending(live, Last(b)) BY DEF Ending
<1>4. /\ IsFiniteSet(Ending(live, Last(b)))
      /\ Cardinality(Ending(live, Last(b))) \in Nat
  BY <1>1, UsesNat
<1>5. Cardinality(Ending(live \ {b}, Last(b))) = Cardinality(Ending(live, Last(b))) - 1
  BY <1>2, <1>3, <1>4, FS_RemoveElement
<1>6. \A h : h # Last(b) => Ending(live \ {b}, h) = Ending(live, h) BY DEF Ending
<1> QED BY <1>4, <1>5, <1>6 DEF Uses

\* free() keeps the invariant.
LEMMA FreeKeeps ==
    ASSUME HeapInv, NEW b \in live, free(b)
    PROVE  HeapInv'
<1> DEFINE lv == live \ {b}
<1>1. HeapOK(mptr, pt, ref, live, parted) /\ Layout(mptr, pt, ref, live, parted)
  BY DEF free, HeapInv, HeapOK
<1>2. mptr' = mptr /\ live' = lv BY DEF free
<1>3. Layout(mptr, pt, ref, lv, parted)
  <2>1. IsFiniteSet(lv) BY <1>1, FS_Subset DEF Layout, Typed
  <2> QED BY <1>1, <2>1 DEF Layout, Typed, Laid, Apart, Open
<1>4. b.v \in Nat /\ PageOf(b.v) \in Page /\ Last(b) \in Page /\ PageOf(b.v) <= Last(b)
  BY <1>1, BlockIsLaid
<1>5. CASE b.v = 0 /\ UNCHANGED <<pt, ref, parted, alive>>
  <2>1. Last(b) < MBegin BY <1>1, <1>5, ZeroIsOutside
  <2>2. \A h \in HeapPages : h # Last(b) /\ ~Owns(b, h)
    BY <1>4, <2>1, HeapConstants DEF HeapPages, Owns, Page
  <2>3. Counts(mptr, pt, ref, lv, parted)
    BY <1>1, <2>2, RemoveBlock DEF HeapOK, Counts
  <2>4. Runs(pt, lv) BY <1>1, <2>2 DEF HeapOK, Runs
  <2>5. HeapOK(mptr', pt', ref', live', parted')
    BY <1>2, <1>3, <1>5, <2>3, <2>4 DEF HeapOK
  <2> QED BY <1>5, <2>5, HeapOKNext DEF HeapInv
<1>6. CASE alive' = FALSE /\ UNCHANGED <<pt, ref, parted>>
  <2>1. Layout(mptr', pt', ref', live', parted') BY <1>2, <1>3, <1>6
  <2> QED BY <1>6, <2>1
    DEF HeapInv, Layout, Typed, Laid, Apart, Open, Ending, Owns, Last, PageOf
<1>7. CASE /\ PageOf(b.v) \in MBegin .. MEnd - 1
           /\ pt' = Drop(PageOf(b.v)).pt /\ ref' = Drop(PageOf(b.v)).ref
           /\ parted' = parted \cap Mapped(pt') /\ UNCHANGED alive
  <2> DEFINE p == PageOf(b.v)
             c == Last(b)
  <2>1. /\ c < MEnd /\ pt[c] = "page"
        /\ \A q \in p .. c - 1 : pt[q] = "cont"
    BY <1>1 DEF Layout, Laid
  <2>2. p \in HeapPages /\ c \in HeapPages /\ p <= c
    BY <1>4, <1>7, <2>1, HeapConstants DEF HeapPages, Page
  <2>3. mptr \in 0 .. Size - 1 BY <1>1 DEF Layout, Typed
  <2>4. \A x \in lv, q \in p .. c - 1 : ~Owns(x, q)
    <3>1. \A q \in p .. c - 1 : q \in Page /\ Owns(b, q)
      BY <1>4, HeapConstants DEF Page, Owns
    <3> QED BY <1>1, <3>1 DEF Layout, Apart
  <2>5. \A x \in live \ lv, q \in Page : Owns(x, q) => q \in p .. c - 1
    BY <1>4, HeapConstants DEF Owns, Page
  <2>6. /\ Uses(mptr, lv, parted, c) = Uses(mptr, live, parted, c) - 1
        /\ \A h \in HeapPages \ {c} : Uses(mptr, lv, parted, h) = Uses(mptr, live, parted, h)
    BY <1>1, RemoveBlock
  <2>7. lv \in SUBSET live OBVIOUS
  <2> HIDE DEF p, c, lv
  <2>8. HeapOK(mptr, Drop(p).pt, Drop(p).ref, lv, parted \cap Mapped(Drop(p).pt))
    BY <1>1, <2>1, <2>2, <2>3, <2>4, <2>5, <2>6, <2>7, DropKeeps
  <2>9. HeapOK(mptr', pt', ref', live', parted') BY <1>2, <1>7, <2>8 DEF p
  <2> QED BY <1>7, <2>9, HeapOKNext DEF HeapInv
<1> QED BY <1>5, <1>6, <1>7 DEF free

-----------------------------------------------------------------------------
(* malloc().                                                               *)

\* mptr when malloc() begins is as good as mptr.
LEMMA StartKeeps ==
    ASSUME HeapOK(mptr, pt, ref, live, parted)
    PROVE  HeapOK(Start, pt, ref, live, parted)
<1>1. CASE mptr # 0 BY <1>1 DEF Start
<1>2. CASE mptr = 0
  <2>1. Start = MBegin * PGSIZE BY <1>2 DEF Start
  <2>2. Start \in 0 .. Size - 1 /\ Start % PGSIZE = 0 /\ mptr % PGSIZE = 0
    <3>1. Start \in Nat BY <2>1, HeapConstants
    <3>2. PageOf(Start) = MBegin BY <2>1, <3>1, PageOfIs, HeapConstants
    <3>3. Start % PGSIZE = 0 BY <2>1, <3>1, <3>2, PageOfDef
    <3>4. MBegin * PGSIZE < MEnd * PGSIZE BY HeapConstants, Below
    <3>5. 0 % PGSIZE = 0 BY PageOfDef, PageOfIs, HeapConstants
    <3> QED BY <1>2, <2>1, <3>1, <3>3, <3>4, <3>5, HeapConstants
  <2>3. Typed(Start, pt, ref, live, parted) BY <2>2 DEF HeapOK, Layout, Typed
  <2>4. Open(Start, pt, live) BY <2>2 DEF Open
  <2>5. Counts(Start, pt, ref, live, parted) BY <2>2 DEF HeapOK, Counts, Uses
  <2> QED BY <2>3, <2>4, <2>5 DEF HeapOK, Layout
<1> QED BY <1>1, <1>2

\* Where malloc() begins; if there is an open page, mptr was set before.
LEMMA StartIs ==
    ASSUME HeapOK(mptr, pt, ref, live, parted)
    PROVE  /\ Start \in 0 .. Size - 1 /\ PageOf(Start) \in Page /\ ScanFrom \in Page
           /\ Partial => Start = mptr /\ mptr % PGSIZE # 0
<1>1. Start \in 0 .. Size - 1 BY StartKeeps DEF HeapOK, Layout, Typed
<1>2. PageOf(Start) \in Page
  <2>1. PageOf(Start) \in Nat /\ PageOf(Start) * PGSIZE <= Start BY <1>1, PageOfDef
  <2>2. PageOf(Start) < NPages
    <3> SUFFICES ASSUME NPages <= PageOf(Start) PROVE FALSE BY <2>1, HeapConstants
    <3>1. NPages * PGSIZE <= PageOf(Start) * PGSIZE
      <4>1. NPages < PageOf(Start) + 1 BY <2>1, HeapConstants
      <4>2. NPages * PGSIZE + PGSIZE <= (PageOf(Start) + 1) * PGSIZE
        BY <2>1, <4>1, Below, HeapConstants
      <4>3. (PageOf(Start) + 1) * PGSIZE = PageOf(Start) * PGSIZE + PGSIZE
        BY <2>1, HeapConstants
      <4>4. NPages * PGSIZE \in Nat /\ PageOf(Start) * PGSIZE \in Nat BY <2>1, HeapConstants
      <4> QED BY <4>2, <4>3, <4>4, HeapConstants
    <3>2. PageOf(Start) * PGSIZE \in Nat BY <2>1, HeapConstants
    <3> QED BY <1>1, <2>1, <3>1, <3>2, HeapConstants DEF Size
  <2> QED BY <2>1, <2>2, HeapConstants DEF Page
<1>3. ScanFrom \in Page BY <1>2, HeapConstants DEF ScanFrom, Page
<1>4. ASSUME Partial PROVE mptr # 0
  <2> SUFFICES ASSUME mptr = 0 PROVE FALSE OBVIOUS
  <2>1. Start = MBegin * PGSIZE BY DEF Start
  <2>2. PageOf(Start) = MBegin BY <2>1, PageOfIs, HeapConstants
  <2>3. Start % PGSIZE = 0 BY <2>1, <2>2, PageOfDef, HeapConstants
  <2> QED BY <2>3, <1>4 DEF Partial
<1> QED BY <1>1, <1>2, <1>3, <1>4 DEF Start, Partial

\* Leaving the page mptr is in, for a multiple m of the page size.
LEMMA LeaveKeeps ==
    ASSUME HeapOK(mptr, pt, ref, live, parted),
           Partial => PageOf(Start) \in HeapPages,
           NEW STATE m, m \in 0 .. Size - 1, m % PGSIZE = 0
    PROVE  HeapOK(m, Left.pt, Left.ref, live, parted \cap Mapped(Left.pt))
<1>1. mptr \in 0 .. Size - 1 /\ IsFiniteSet(live) BY DEF HeapOK, Layout, Typed
<1>2. CASE Partial
  <2> DEFINE c == PageOf(Start)
  <2>1. Start = mptr /\ mptr % PGSIZE # 0 BY <1>2, StartIs
  <2>2. c \in HeapPages /\ c \in Nat /\ c = PageOf(mptr) BY <1>2, <2>1, HeapConstants DEF HeapPages
  <2>3. pt[c] = "page" BY <2>1, <2>2 DEF HeapOK, Layout, Open
  <2>4. Uses(m, live, parted, c) = Uses(mptr, live, parted, c) - 1
    <3>1. Cardinality(Ending(live, c)) \in Nat BY <1>1, UsesNat
    <3>2. PageOf(mptr) = c /\ ~(m % PGSIZE # 0) BY <2>2
    <3> HIDE DEF c
    <3> QED BY <2>1, <3>1, <3>2 DEF Uses
  <2>5. \A h \in HeapPages \ {c} : Uses(m, live, parted, h) = Uses(mptr, live, parted, h)
    BY <2>2 DEF Uses
  <2>6. Left = Drop(c) BY <1>2 DEF Left
  <2>7. c .. c - 1 = {} BY <2>2
  <2> HIDE DEF c
  <2>9. live \in SUBSET live OBVIOUS
  <2>8. HeapOK(m, Drop(c).pt, Drop(c).ref, live, parted \cap Mapped(Drop(c).pt))
    <3>1. \A q \in c .. c - 1 : pt[q] = "cont" BY <2>7
    <3>2. \A b \in live, q \in c .. c - 1 : ~Owns(b, q) BY <2>7
    <3>3. \A b \in live \ live, q \in Page : Owns(b, q) => q \in c .. c - 1 OBVIOUS
    <3>4. c <= c BY <2>2
    <3> QED BY <2>2, <2>3, <2>4, <2>5, <2>9, <3>1, <3>2, <3>3, <3>4, DropKeeps
  <2> QED BY <2>6, <2>8
<1>3. CASE ~Partial
  <2>1. Left.pt = pt /\ Left.ref = ref BY <1>3 DEF Left
  <2>2. mptr % PGSIZE = 0
    <3>1. CASE mptr = 0 BY <3>1, PageOfIs, PageOfDef, HeapConstants
    <3>2. CASE mptr # 0 BY <3>2, <1>3 DEF Partial, Start
    <3> QED BY <3>1, <3>2
  <2>3. parted \cap Mapped(pt) = parted BY DEF HeapOK, Layout, Typed, Mapped
  <2>4. Typed(m, pt, ref, live, parted) BY DEF HeapOK, Layout, Typed
  <2>5. Open(m, pt, live) BY DEF Open
  <2>6. Counts(m, pt, ref, live, parted) BY <2>2 DEF HeapOK, Counts, Uses
  <2> QED BY <2>1, <2>3, <2>4, <2>5, <2>6 DEF HeapOK, Layout
<1> QED BY <1>2, <1>3

\* The search returns a page where the run is free, or has seen that there is
\* none in the heap.
LEMMA ScanFinds ==
    ASSUME NEW t, NEW p0 \in Page, NEW n \in Nat
    PROVE  \/ Scan(t, p0, n) = NoSpace /\ \A p \in HeapPages : ~isfree(t, p, n)
           \/ Scan(t, p0, n) \in Page /\ isfree(t, Scan(t, p0, n), n)
<1> DEFINE F == FirstPass(t, p0, n)
           S == SecondPass(t, n)
<1>1. NPages \in Nat /\ NPages > 0 /\ p0 \in Nat BY HeapConstants DEF Page
<1>2. CASE F # {}
  <2>1. F \in SUBSET Nat BY DEF FirstPass
  <2>2. Min(F) \in F BY <1>2, <2>1, LeastNat
  <2>3. Scan(t, p0, n) = (p0 + Min(F)) % NPages BY <1>2 DEF Scan
  <2>4. isfree(t, (p0 + Min(F)) % NPages, n) /\ Min(F) \in Nat BY <2>1, <2>2 DEF FirstPass
  <2>5. (p0 + Min(F)) % NPages \in Page BY <1>1, <2>4 DEF Page
  <2> QED BY <2>3, <2>4, <2>5
<1>3. CASE F = {} /\ S # {}
  <2>1. S \in SUBSET Nat BY HeapConstants DEF SecondPass
  <2>2. Min(S) \in S BY <1>3, <2>1, LeastNat
  <2>3. Scan(t, p0, n) = Min(S) BY <1>3 DEF Scan
  <2>4. isfree(t, Min(S), n) /\ Min(S) \in HeapPages BY <2>2 DEF SecondPass, HeapPages
  <2> QED BY <2>3, <2>4, HeapConstants
<1>4. CASE F = {} /\ S = {}
  <2>1. Scan(t, p0, n) = NoSpace BY <1>4 DEF Scan
  <2>2. \A p \in HeapPages : ~isfree(t, p, n) BY <1>4 DEF SecondPass, HeapPages
  <2> QED BY <2>1, <2>2
<1> QED BY <1>2, <1>3, <1>4

\* There is a number for a new block, so it differs from those in use.
LEMMA NumberedIsNew ==
    ASSUME IsFiniteSet(live), Cardinality(live) < MaxLive, NEW v, NEW n
    PROVE  /\ Numbered(v, n) \notin live
           /\ Numbered(v, n).v = v /\ Numbered(v, n).n = n
<1> DEFINE C == {c \in live : c.v = v}
           T == {b.no : b \in C}
           U == 0 .. MaxLive
<1>1. IsFiniteSet(C) /\ Cardinality(C) <= Cardinality(live)
  <2>1. C \in SUBSET live OBVIOUS
  <2> HIDE DEF C
  <2> QED BY <2>1, FS_Subset
<1>2. IsFiniteSet(T) /\ Cardinality(T) <= Cardinality(C)
  <2> DEFINE f == [b \in C |-> b.no]
  <2>1. f \in Surjection(C, T) BY DEF Surjection
  <2> HIDE DEF C, T, f
  <2> QED BY <1>1, <2>1, FS_Surjection
<1>3. IsFiniteSet(U) /\ Cardinality(U) = MaxLive + 1 BY FS_Interval, HeapAssumption
<1>4. /\ Cardinality(live) \in Nat /\ Cardinality(C) \in Nat /\ Cardinality(T) \in Nat
      /\ MaxLive \in Nat
  BY <1>1, <1>2, FS_CardinalityType, HeapAssumption
<1>5. U \ T # {}
  <2> SUFFICES ASSUME U \subseteq T PROVE FALSE OBVIOUS
  <2>1. Cardinality(U) <= Cardinality(T) BY <1>2, FS_Subset
  <2> HIDE DEF C, T, U
  <2> QED BY <2>1, <1>1, <1>2, <1>3, <1>4
<1>6. Min(U \ T) \in U \ T BY <1>5, LeastNat
<1>7. Numbered(v, n) = [v |-> v, n |-> n, no |-> Min(U \ T)] BY DEF Numbered
<1>8. Numbered(v, n).v = v /\ Numbered(v, n).n = n /\ Numbered(v, n).no = Min(U \ T) BY <1>7
<1>9. ASSUME Numbered(v, n) \in live PROVE FALSE
  <2>1. Numbered(v, n) \in C BY <1>8, <1>9
  <2>2. Numbered(v, n).no \in T BY <2>1
  <2> QED BY <2>2, <1>6, <1>8
<1> QED BY <1>8, <1>9

\* A new block is counted in its last page.
LEMMA AddBlock ==
    ASSUME NEW lv, IsFiniteSet(lv), NEW b, b \notin lv
    PROVE  /\ IsFiniteSet(lv \cup {b})
           /\ \A h : Cardinality(Ending(lv \cup {b}, h))
                        = Cardinality(Ending(lv, h)) + (IF Last(b) = h THEN 1 ELSE 0)
<1>1. IsFiniteSet(lv \cup {b}) BY FS_AddElement
<1>2. ASSUME NEW h
      PROVE  Cardinality(Ending(lv \cup {b}, h))
                = Cardinality(Ending(lv, h)) + (IF Last(b) = h THEN 1 ELSE 0)
  <2>1. IsFiniteSet(Ending(lv, h)) /\ Cardinality(Ending(lv, h)) \in Nat
    BY FS_Subset, FS_CardinalityType DEF Ending
  <2>2. CASE Last(b) = h
    <3>1. Ending(lv \cup {b}, h) = Ending(lv, h) \cup {b} /\ b \notin Ending(lv, h)
      BY <2>2 DEF Ending
    <3>2. Cardinality(Ending(lv, h) \cup {b}) = Cardinality(Ending(lv, h)) + 1
      BY <2>1, <3>1, FS_AddElement
    <3> QED BY <2>2, <3>1, <3>2
  <2>3. CASE Last(b) # h
    <3>1. Ending(lv \cup {b}, h) = Ending(lv, h) BY <2>3 DEF Ending
    <3> QED BY <2>1, <2>3, <3>1
  <2> QED BY <2>2, <2>3
<1> QED BY <1>1, <1>2

\* Blocks whose pages are other ones do not overlap.
LEMMA ApartByPages ==
    ASSUME NEW b, b.v \in Nat, b.n \in Nat, NEW c, c.v \in Nat, c.n \in Nat,
           Last(b) < PageOf(c.v)
    PROVE  b.v + b.n <= c.v
<1>1. Last(b) * PGSIZE + PGSIZE <= PageOf(c.v) * PGSIZE BY BlockBounds, Below
<1>2. /\ b.v + b.n + 3 < Last(b) * PGSIZE + PGSIZE /\ PageOf(c.v) * PGSIZE <= c.v
      /\ Last(b) \in Nat /\ PageOf(c.v) \in Nat
  BY BlockBounds
<1>3. Last(b) * PGSIZE \in Nat /\ PageOf(c.v) * PGSIZE \in Nat BY <1>2, HeapConstants
<1> QED BY <1>1, <1>2, <1>3, HeapConstants

\* Cutting a block of n bytes at m.
LEMMA CutKeeps ==
    ASSUME HeapOK(mptr, pt, ref, live, parted), mptr % PGSIZE # 0,
           NEW STATE n, n \in Nat, PageOf(mptr) = PageOf(mptr + n + 3),
           NEW STATE b, b.v = mptr, b.n = n, b \notin live
    PROVE  HeapOK(mptr + n, pt, [ref EXCEPT ![PageOf(mptr)] = ref[PageOf(mptr)] + 1],
                  live \cup {b}, parted)
<1> DEFINE P == PageOf(mptr)
           lv == live \cup {b}
           r == [ref EXCEPT ![P] = ref[P] + 1]
           m == mptr + n
<1>1. /\ mptr \in Nat /\ mptr < Size /\ P \in Nat /\ P < MEnd /\ P \in Page /\ m \in Nat
      /\ pt[P] = "page" /\ P \notin Text
      /\ \A x \in live : Last(x) = P => x.v + x.n <= mptr
  <2>1. mptr \in Nat /\ mptr < Size BY HeapConstants DEF HeapOK, Layout, Typed
  <2>2. /\ P < MEnd /\ pt[P] = "page" /\ P \notin Text
        /\ \A x \in live : Last(x) = P => x.v + x.n <= mptr
    BY DEF HeapOK, Layout, Open
  <2>3. P \in Nat BY <2>1, PageOfDef
  <2> QED BY <2>1, <2>2, <2>3, HeapConstants DEF Page
<1>2. m + 3 < P * PGSIZE + PGSIZE /\ P * PGSIZE < mptr /\ P * PGSIZE \in Nat
  <2>1. m + 3 < P * PGSIZE + PGSIZE BY <1>1, PageOfDef
  <2>2. P * PGSIZE <= mptr /\ P * PGSIZE # mptr BY <1>1, PageOfDef
  <2>3. P * PGSIZE \in Nat BY <1>1, HeapConstants
  <2> QED BY <1>1, <2>1, <2>2, <2>3
<1>3. PageOf(m) = P /\ m % PGSIZE # 0 /\ m < Size /\ Last(b) = P
  <2>1. PageOf(m) = P BY <1>1, <1>2, PageOfIs, HeapConstants
  <2>2. m % PGSIZE # 0 BY <1>1, <1>2, <2>1, PageOfDef
  <2>3. P * PGSIZE + PGSIZE <= MEnd * PGSIZE BY <1>1, Below, HeapConstants
  <2>4. m < Size BY <1>1, <1>2, <2>3, HeapConstants
  <2> QED BY <2>1, <2>2, <2>4 DEF Last
<1>4. IsFiniteSet(live) /\ IsFiniteSet(lv) BY AddBlock DEF HeapOK, Layout, Typed
<1>5. Typed(m, pt, r, lv, parted)
  <2>1. r \in [Page -> Nat] BY <1>1 DEF HeapOK, Layout, Typed
  <2>2. m \in 0 .. Size - 1 /\ mptr \in 0 .. Size - 1 BY <1>1, <1>3, HeapConstants
  <2>3. \A x \in lv : x.v \in 0 .. Size - 1 /\ x.n \in Nat BY <2>2 DEF HeapOK, Layout, Typed
  <2> HIDE DEF m, r, lv
  <2> QED BY <2>1, <2>2, <2>3, <1>4 DEF HeapOK, Layout, Typed
<1>6. Laid(pt, lv)
  <2>1. PageOf(b.v) .. Last(b) - 1 = {} BY <1>1, <1>3
  <2> QED BY <1>1, <1>3, <2>1 DEF HeapOK, Layout, Laid
<1>7. ASSUME NEW c \in live
      PROVE  /\ b.v + b.n <= c.v \/ c.v + c.n <= b.v
             /\ \A q \in Page : ~(Owns(b, q) /\ Owns(c, q))
  <2>1. /\ c.v \in Nat /\ c.n \in Nat /\ PageOf(c.v) \in Nat /\ Last(c) \in Nat
        /\ b.v \in Nat /\ b.n \in Nat /\ PageOf(b.v) = P
    BY <1>1, BlockIsLaid, BlockBounds DEF HeapOK
  <2>2. b.v + b.n <= c.v \/ c.v + c.n <= b.v
    <3>1. CASE Last(c) < P
      <4>1. Last(c) < PageOf(b.v) BY <2>1, <3>1
      <4> QED BY <2>1, <4>1, ApartByPages
    <3>2. CASE Last(c) = P
      <4>1. c.v + c.n <= mptr BY <1>1, <3>2
      <4> QED BY <4>1
    <3>3. CASE Last(c) > P
      <4>1. P \notin PageOf(c.v) .. Last(c) - 1 BY <1>1 DEF HeapOK, Layout, Laid
      <4> HIDE DEF P
      <4>2. P < PageOf(c.v) BY <1>1, <2>1, <3>3, <4>1
      <4>3. Last(b) < PageOf(c.v) BY <1>3, <4>2
      <4> QED BY <2>1, <4>3, ApartByPages
    <3> HIDE DEF P
    <3> QED BY <1>1, <2>1, <3>1, <3>2, <3>3
  <2>5. \A q \in Page : ~Owns(b, q) BY <1>1, <1>3, <2>1, HeapConstants DEF Owns
  <2> QED BY <2>2, <2>5
<1>8. Apart(lv) BY <1>7 DEF HeapOK, Layout, Apart
<1>9. Open(m, pt, lv)
  <2>1. \A x \in live : Last(x) = P => x.v + x.n <= m
    <3> SUFFICES ASSUME NEW x \in live, Last(x) = P PROVE x.v + x.n <= m OBVIOUS
    <3>1. x.v + x.n <= mptr /\ x.v \in Nat /\ x.n \in Nat BY <1>1, BlockIsLaid DEF HeapOK
    <3> QED BY <1>1, <3>1
  <2>2. b.v + b.n <= m BY <1>1
  <2> HIDE DEF m, P
  <2> QED BY <1>1, <1>3, <2>1, <2>2 DEF Open
<1>10. Counts(m, pt, r, lv, parted)
  <2> SUFFICES ASSUME NEW h \in HeapPages, pt[h] = "page"
               PROVE  r[h] = Uses(m, lv, parted, h) /\ r[h] > 0
    BY DEF Counts
  <2>1. ref[h] = Uses(mptr, live, parted, h) /\ ref[h] > 0 /\ ref[h] \in Nat /\ h \in Page
    BY HeapConstants DEF HeapOK, Layout, Typed, Counts
  <2>2. r[h] = ref[h] + (IF h = P THEN 1 ELSE 0)
    BY <1>1, <2>1 DEF HeapOK, Layout, Typed
  <2>3. Cardinality(Ending(lv, h)) = Cardinality(Ending(live, h)) + (IF P = h THEN 1 ELSE 0)
    BY <1>3, <1>4, AddBlock
  <2>4. Cardinality(Ending(live, h)) \in Nat BY <1>4, UsesNat
  <2> HIDE DEF r, lv, m, P
  <2>5. Uses(m, lv, parted, h) = Uses(mptr, live, parted, h) + (IF h = P THEN 1 ELSE 0)
    BY <1>3, <2>3, <2>4 DEF Uses, P
  <2> QED BY <2>1, <2>2, <2>5
<1>11. Runs(pt, lv) BY DEF HeapOK, Runs
<1> QED BY <1>5, <1>6, <1>8, <1>9, <1>10, <1>11 DEF HeapOK, Layout

\* A run of free pages for n bytes, with one block and mptr in its last page.
LEMMA PlaceKeeps ==
    ASSUME NEW m, NEW t, NEW r, NEW lv, NEW pd,
           HeapOK(m, t, r, lv, pd), m % PGSIZE = 0,
           NEW p \in Page, NEW n \in Nat, n % 4 = 0,
           NEW last, last = p + RunLength(n) - 1, last < MEnd,
           \A q \in p .. last : t[q] = "none",
           NEW b, b.v = p * PGSIZE, b.n = n, b \notin lv
    PROVE  HeapOK(p * PGSIZE + n,
                  [q \in Page |-> CASE q \in p .. last - 1 -> "cont"
                                    [] q = last -> "page"
                                    [] OTHER -> t[q]],
                  [r EXCEPT ![last] = 2], lv \cup {b},
                  pd \cup IF (p * PGSIZE + n) % PGSIZE = 0 THEN {last} ELSE {})
<1> DEFINE m2 == p * PGSIZE + n
           t2 == [q \in Page |-> CASE q \in p .. last - 1 -> "cont"
                                   [] q = last -> "page"
                                   [] OTHER -> t[q]]
           r2 == [r EXCEPT ![last] = 2]
           lv2 == lv \cup {b}
           pd2 == pd \cup IF m2 % PGSIZE = 0 THEN {last} ELSE {}
<1>1. p \in Nat /\ p * PGSIZE \in Nat /\ m2 \in Nat BY HeapConstants DEF Page
<1>2. PageOf(n + 3) \in Nat /\ last = p + PageOf(n + 3) /\ last = PageOf(m2 + 3)
  <2>1. PageOf(n + 3) \in Nat BY PageOfDef
  <2>2. RunLength(n) = PageOf(n + 3) + 1 BY RunLengthIs
  <2>3. PageOf(p * PGSIZE + (n + 3)) = p + PageOf(n + 3) BY <1>1, PageShift
  <2>4. p * PGSIZE + (n + 3) = m2 + 3 BY <1>1
  <2> QED BY <1>1, <2>1, <2>2, <2>3, <2>4
<1>3. PageOf(m2) = last
  <2>1. m2 % 4 = 0
    <3>1. PICK j \in Nat : PGSIZE = 4 * j
      <4>1. PGSIZE = 4 * (PGSIZE \div 4) BY HeapAssumption
      <4> QED BY <4>1, HeapAssumption
    <3>2. PICK i \in Nat : n = 4 * i
      <4>1. n = 4 * (n \div 4) BY SMT
      <4> QED BY <4>1
    <3>3. m2 = 4 * (p * j + i) BY <1>1, <3>1, <3>2
    <3>4. p * j + i \in Nat BY <1>1
    <3> HIDE DEF m2
    <3> QED BY <3>3, <3>4
  <2> QED BY <1>1, <1>2, <2>1, Aligned
<1>4. /\ last \in Nat /\ p <= last /\ last \in Page
      /\ Last(b) = last /\ PageOf(b.v) = p
  <2>1. last \in Nat /\ p <= last BY <1>1, <1>2
  <2>2. PageOf(b.v) = p BY <1>1, PageOfIs, HeapConstants
  <2> QED BY <1>2, <2>1, <2>2, HeapConstants DEF Page, Last
<1>5. m2 < Size
  <2>1. m2 < last * PGSIZE + PGSIZE BY <1>1, <1>3, PageOfDef
  <2>2. last * PGSIZE + PGSIZE <= MEnd * PGSIZE /\ last * PGSIZE \in Nat
    BY <1>4, Below, HeapConstants
  <2> QED BY <1>1, <2>1, <2>2, HeapConstants
<1>6. t[last] = "none" /\ last \notin Text /\ last \notin pd
  <2>1. t[last] = "none" BY <1>4
  <2> QED BY <2>1 DEF HeapOK, Layout, Typed
<1>7. \A q \in Page : \/ t2[q] = "cont" /\ q \in p .. last - 1
                      \/ t2[q] = "page" /\ q = last
                      \/ t2[q] = t[q] /\ q \notin p .. last
  <2> SUFFICES ASSUME NEW q \in Page
               PROVE  \/ t2[q] = "cont" /\ q \in p .. last - 1
                      \/ t2[q] = "page" /\ q = last
                      \/ t2[q] = t[q] /\ q \notin p .. last
    OBVIOUS
  <2>1. CASE q \in p .. last - 1 BY <2>1
  <2>2. CASE q = last BY <2>2, <1>4
  <2>3. CASE q \notin p .. last - 1 /\ q # last
    <3>1. t2[q] = t[q] BY <2>3
    <3> QED BY <2>3, <3>1, <1>4, HeapConstants DEF Page
  <2> QED BY <2>1, <2>2, <2>3
<1>8. t2[last] = "page" /\ \A q \in p .. last - 1 : q \in Page /\ t2[q] = "cont"
  <2>1. last \notin p .. last - 1 BY <1>4
  <2>2. \A q \in p .. last - 1 : q \in Page BY <1>4, HeapConstants DEF Page
  <2> QED BY <2>1, <2>2, <1>4
\* The other blocks lie on other pages.
<1>9. ASSUME NEW c \in lv
      PROVE  /\ c.v \in Nat /\ c.n \in Nat
             /\ PageOf(c.v) \in Page /\ Last(c) \in Page /\ PageOf(c.v) <= Last(c)
             /\ Last(c) < MEnd /\ Last(c) \notin Text /\ t[Last(c)] = "page"
             /\ \A q \in PageOf(c.v) .. Last(c) - 1 : t[q] = "cont"
             /\ Last(c) < p \/ last < PageOf(c.v)
  <2>1. c.v \in Nat /\ c.n \in Nat BY HeapConstants DEF HeapOK, Layout, Typed
  <2>2. /\ Last(c) < MEnd /\ Last(c) \notin Text /\ t[Last(c)] = "page"
        /\ \A q \in PageOf(c.v) .. Last(c) - 1 : t[q] = "cont"
    BY DEF HeapOK, Layout, Laid
  <2>3. PageOf(c.v) \in Page /\ Last(c) \in Page /\ PageOf(c.v) <= Last(c)
    BY <2>1, <2>2, BlockBounds, HeapConstants DEF Page
  <2>4. Last(c) < p \/ Last(c) > last
    <3>1. Last(c) \notin p .. last BY <2>2
    <3> QED BY <1>4, <2>3, <3>1, HeapConstants DEF Page
  <2>5. ASSUME Last(c) > last PROVE last < PageOf(c.v)
    <3>1. last \notin PageOf(c.v) .. Last(c) - 1 BY <1>6, <2>2
    <3> QED BY <1>4, <2>3, <2>5, <3>1, HeapConstants DEF Page
  <2> QED BY <2>1, <2>2, <2>3, <2>4, <2>5
<1>10. IsFiniteSet(lv) /\ IsFiniteSet(lv2) BY AddBlock DEF HeapOK, Layout, Typed
<1>11. Typed(m2, t2, r2, lv2, pd2)
  <2>1. t2 \in [Page -> {"none", "page", "cont"}] BY DEF HeapOK, Layout, Typed
  <2>2. r2 \in [Page -> Nat] BY <1>4 DEF HeapOK, Layout, Typed
  <2>3. m2 \in 0 .. Size - 1 /\ b.v \in 0 .. Size - 1 BY <1>1, <1>5, HeapConstants
  <2>4. \A x \in lv2 : x.v \in 0 .. Size - 1 /\ x.n \in Nat
    BY <2>3 DEF HeapOK, Layout, Typed
  <2>5. pd2 \subseteq Page BY <1>4 DEF HeapOK, Layout, Typed
  <2>6. ASSUME NEW x \in pd2 \cup Text PROVE t2[x] = "page"
    <3>1. CASE x = last BY <3>1, <1>8
    <3>2. CASE x # last
      <4>1. x \in pd \cup Text BY <3>2
      <4>2. t[x] = "page" /\ x \in Page BY <4>1, HeapAssumption DEF HeapOK, Layout, Typed, Page
      <4>3. x \notin p .. last BY <4>2
      <4>4. x \notin p .. last - 1 BY <4>3, <1>4, HeapConstants DEF Page
      <4> QED BY <3>2, <4>2, <4>4, <1>7
    <3> QED BY <3>1, <3>2
  <2> HIDE DEF t2, r2, lv2, pd2, m2
  <2> QED BY <2>1, <2>2, <2>3, <2>4, <2>5, <2>6, <1>10 DEF Typed
<1> HIDE DEF t2
<1>12. Laid(t2, lv2)
  <2> SUFFICES ASSUME NEW c \in lv2
               PROVE  /\ Last(c) < MEnd /\ Last(c) \notin Text /\ t2[Last(c)] = "page"
                      /\ \A q \in PageOf(c.v) .. Last(c) - 1 : t2[q] = "cont"
    BY DEF Laid
  <2>1. CASE c = b BY <2>1, <1>4, <1>6, <1>8
  <2>2. CASE c \in lv
    <3>1. /\ PageOf(c.v) \in Nat /\ Last(c) \in Nat /\ PageOf(c.v) <= Last(c) /\ Last(c) \in Page
          /\ Last(c) < p \/ last < PageOf(c.v)
          /\ \A q \in PageOf(c.v) .. Last(c) - 1 : t[q] = "cont" /\ q \in Page
      BY <2>2, <1>9, HeapConstants DEF Page
    <3>2. Last(c) \notin p .. last - 1 /\ Last(c) # last BY <3>1, <1>1, <1>4
    <3>3. t2[Last(c)] = "page" BY <2>2, <3>1, <3>2, <1>7, <1>9
    <3>4. ASSUME NEW q \in PageOf(c.v) .. Last(c) - 1 PROVE t2[q] = "cont"
      <4>1. t[q] = "cont" /\ q \in Page BY <3>1
      <4>2. q # last BY <1>6, <4>1
      <4> QED BY <4>1, <4>2, <1>7
    <3> QED BY <2>2, <3>3, <3>4, <1>9
  <2> QED BY <2>1, <2>2
<1>13. ASSUME NEW c \in lv
       PROVE  /\ b.v + b.n <= c.v \/ c.v + c.n <= b.v
              /\ \A q \in Page : ~(Owns(b, q) /\ Owns(c, q))
  <2>1. /\ c.v \in Nat /\ c.n \in Nat /\ PageOf(c.v) \in Nat /\ Last(c) \in Nat
        /\ Last(c) < p \/ last < PageOf(c.v)
        /\ b.v \in Nat /\ b.n \in Nat
    BY <1>1, <1>9, HeapConstants DEF Page
  <2>2. b.v + b.n <= c.v \/ c.v + c.n <= b.v
    <3>1. CASE Last(c) < p BY <2>1, <3>1, <1>4, ApartByPages
    <3>2. CASE last < PageOf(c.v) BY <2>1, <3>2, <1>4, ApartByPages
    <3> QED BY <2>1, <3>1, <3>2
  <2>3. \A q \in Page : ~(Owns(b, q) /\ Owns(c, q))
    BY <2>1, <1>1, <1>4, HeapConstants DEF Owns, Page
  <2> QED BY <2>2, <2>3
<1>14. Apart(lv2) BY <1>13 DEF HeapOK, Layout, Apart
<1>15. \A c \in lv : Last(c) # last BY <1>6, <1>9
<1>16. Open(m2, t2, lv2)
  <2>1. \A c \in lv2 : Last(c) = last => c = b BY <1>15
  <2>2. b.v + b.n <= m2 BY <1>1
  <2> HIDE DEF m2, lv2
  <2> QED BY <1>3, <1>6, <1>8, <2>1, <2>2 DEF Open
<1>17. Counts(m2, t2, r2, lv2, pd2)
  <2> SUFFICES ASSUME NEW h \in HeapPages, t2[h] = "page"
               PROVE  r2[h] = Uses(m2, lv2, pd2, h) /\ r2[h] > 0
    BY DEF Counts
  <2>1. h \in Page BY HeapConstants
  <2>2. CASE h = last
    <3>1. Ending(lv, h) = {} BY <2>2, <1>15 DEF Ending
    <3>2. Cardinality(Ending(lv2, h)) = 1
      <4>1. Cardinality(Ending(lv, h)) = 0 BY <3>1, FS_EmptySet
      <4> QED BY <2>2, <4>1, <1>4, <1>10, AddBlock
    <3>3. h \in pd2 <=> m2 % PGSIZE = 0 BY <2>2, <1>6
    <3>4. r2[h] = 2 BY <2>2, <1>4 DEF HeapOK, Layout, Typed
    <3> HIDE DEF m2, lv2, pd2, r2
    <3> QED BY <2>2, <3>2, <3>3, <3>4, <1>3 DEF Uses
  <2>3. CASE h # last
    <3>1. t[h] = "page" BY <2>1, <2>3, <1>7
    <3>2. r[h] = Uses(m, lv, pd, h) /\ r[h] > 0 BY <3>1 DEF HeapOK, Counts
    <3>3. r2[h] = r[h] BY <2>1, <2>3, <1>4 DEF HeapOK, Layout, Typed
    <3>4. Cardinality(Ending(lv2, h)) = Cardinality(Ending(lv, h))
      <4>1. Ending(lv2, h) = Ending(lv, h) BY <2>3, <1>4 DEF Ending
      <4> QED BY <4>1
    <3>5. h \in pd2 <=> h \in pd BY <2>3
    <3> HIDE DEF m2, lv2, pd2
    <3>6. Uses(m2, lv2, pd2, h) = Uses(m, lv, pd, h) BY <2>3, <3>4, <3>5, <1>3 DEF Uses
    <3> QED BY <3>2, <3>3, <3>6
  <2> QED BY <2>2, <2>3
<1>18. Runs(t2, lv2)
  <2> SUFFICES ASSUME NEW h \in HeapPages, t2[h] = "cont" PROVE \E c \in lv2 : Owns(c, h)
    BY DEF Runs
  <2>1. h \in Page BY HeapConstants
  <2>2. CASE h \in p .. last - 1
    <3>1. Owns(b, h) BY <2>2, <1>1, <1>4 DEF Owns
    <3> QED BY <3>1
  <2>3. CASE h \notin p .. last - 1
    <3>1. t[h] = "cont" BY <2>1, <2>3, <1>7
    <3>2. PICK c \in lv : Owns(c, h) BY <3>1 DEF HeapOK, Runs
    <3> QED BY <3>2
  <2> QED BY <2>2, <2>3
<1> QED BY <1>11, <1>12, <1>14, <1>16, <1>17, <1>18 DEF HeapOK, Layout, t2

\* ROUNDUP(n, 4) on 32 bits: a multiple of 4, if not always at least n.
LEMMA RoundUp4Is ==
    ASSUME NEW size \in Nat
    PROVE  RoundUp4(size) \in Nat /\ RoundUp4(size) % 4 = 0
<1> DEFINE m == (size + 3) % Size
<1>1. m \in Nat BY HeapConstants
<1> HIDE DEF m
<1>2. m - (m % 4) \in Nat /\ (m - (m % 4)) % 4 = 0 BY <1>1
<1> QED BY <1>2 DEF RoundUp4, m

\* Before mend no run wraps, so one that is free consists of free pages.
LEMMA FreeRun ==
    ASSUME NEW t, NEW p \in Page, p < MEnd, NEW n \in Nat, n < MaxMalloc, isfree(t, p, n)
    PROVE  /\ p + RunLength(n) - 1 < MEnd
           /\ \A q \in p .. p + RunLength(n) - 1 : t[q] = "none"
<1>1. ~Wraps(p, n)
  <2>1. p \in Nat /\ p * PGSIZE <= (MEnd - 1) * PGSIZE
    <3>1. p \in Nat /\ p * PGSIZE + PGSIZE <= MEnd * PGSIZE BY Below, HeapConstants DEF Page
    <3>2. MEnd * PGSIZE = (MEnd - 1) * PGSIZE + PGSIZE BY HeapConstants
    <3>3. p * PGSIZE \in Nat /\ (MEnd - 1) * PGSIZE \in Nat BY <3>1, HeapConstants
    <3> QED BY <3>1, <3>2, <3>3, HeapConstants
  <2>2. p * PGSIZE \in Nat /\ (MEnd - 1) * PGSIZE \in Nat BY <2>1, HeapConstants
  <2>3. (MEnd - 1) * PGSIZE + MaxMalloc + 3 < Size /\ MaxMalloc \in Nat
    BY HeapAssumption DEF Size
  <2> QED BY <2>1, <2>2, <2>3, HeapConstants DEF Wraps
<1>2. \A q \in Run(p, n) : q < MEnd /\ t[q] = "none" BY <1>1 DEF isfree
<1>3. RunLength(n) \in Nat /\ RunLength(n) > 0 BY RunLengthIs, PageOfDef
<1>4. p + RunLength(n) - 1 \in Run(p, n) BY <1>3, HeapConstants DEF Run, Page
<1> QED BY <1>2, <1>4 DEF Run

-----------------------------------------------------------------------------
(* The four ways malloc() ends.                                            *)

\* A block from the open page.
LEMMA FitsKeeps ==
    ASSUME HeapOK(mptr, pt, ref, live, parted), alive, Cardinality(live) < MaxLive,
           NEW n, n \in Nat, MallocFits(n)
    PROVE  HeapInv'
<1> DEFINE b == Numbered(Start, n)
<1>1. Start = mptr /\ mptr % PGSIZE # 0 /\ PageOf(mptr) = PageOf(mptr + n + 3)
  BY StartIs DEF MallocFits, Fits
<1>2. b \notin live /\ b.v = mptr /\ b.n = n
  BY <1>1, NumberedIsNew DEF HeapOK, Layout, Typed
<1>3. /\ mptr' = mptr + n /\ pt' = pt /\ parted' = parted /\ alive' = alive
      /\ live' = live \cup {b}
      /\ ref' = [ref EXCEPT ![PageOf(mptr)] = ref[PageOf(mptr)] + 1]
  BY <1>1 DEF MallocFits
<1> HIDE DEF b
<1>4. HeapOK(mptr', pt', ref', live', parted')
  BY <1>1, <1>2, <1>3, CutKeeps
<1> QED BY <1>3, <1>4, HeapOKNext

\* An address outside the heap: nothing has changed yet.
LEMMA AssertsKeeps ==
    ASSUME HeapOK(mptr, pt, ref, live, parted), NEW n, MallocAsserts(n)
    PROVE  HeapInv'
BY DEF MallocAsserts, HeapInv, HeapOK, Layout, Typed, Laid, Apart, Open, Ending, Owns, Last, PageOf

\* MAXMALLOC or more.
LEMMA TooLargeKeeps ==
    ASSUME HeapOK(mptr, pt, ref, live, parted), alive, NEW n, MallocTooLarge(n)
    PROVE  HeapInv'
<1>1. HeapOK(mptr', pt', ref', live', parted') BY StartKeeps DEF MallocTooLarge
<1> QED BY <1>1, HeapOKNext DEF MallocTooLarge

\* A new run, or none.
LEMMA RunKeeps ==
    ASSUME HeapOK(mptr, pt, ref, live, parted), alive, Cardinality(live) < MaxLive,
           NEW n \in Nat, n % 4 = 0, MallocRun(n)
    PROVE  HeapInv'
<1> DEFINE p == Scan(Left.pt, ScanFrom, n)
           last == p + RunLength(n) - 1
           maps == p < MEnd /\ RunLength(n) <= Room(Left.pt)
<1>1. ScanFrom \in Page BY StartIs
<1>2. p # NoSpace => p \in Page /\ isfree(Left.pt, p, n) BY <1>1, ScanFinds
<1>3. n < MaxMalloc /\ alive' = alive BY DEF MallocRun
<1>4. Partial => PageOf(Start) \in HeapPages BY DEF MallocRun, HeapPages
\* A page's address.
<1>5. ASSUME NEW q \in Page
      PROVE  q * PGSIZE \in 0 .. Size - 1 /\ (q * PGSIZE) % PGSIZE = 0
  <2>1. q \in Nat /\ q * PGSIZE \in Nat BY HeapConstants DEF Page
  <2>2. (q * PGSIZE) % PGSIZE = 0
    <3>1. PageOf(q * PGSIZE) = q BY <2>1, PageOfIs, HeapConstants
    <3> QED BY <2>1, <3>1, PageOfDef
  <2>3. q * PGSIZE + PGSIZE <= NPages * PGSIZE BY <2>1, Below, HeapConstants DEF Page
  <2> QED BY <2>1, <2>2, <2>3, HeapConstants DEF Size
\* The page that was in use is left whatever is found.
<1>6. ASSUME NEW q \in Page
      PROVE  HeapOK(q * PGSIZE, Left.pt, Left.ref, live, parted \cap Mapped(Left.pt))
  <2> DEFINE m == q * PGSIZE
  <2>1. m \in 0 .. Size - 1 /\ m % PGSIZE = 0 BY <1>5
  <2> HIDE DEF m
  <2>2. HeapOK(m, Left.pt, Left.ref, live, parted \cap Mapped(Left.pt))
    BY <2>1, <1>4, LeaveKeeps
  <2> QED BY <2>2 DEF m
<1>7. CASE /\ p = NoSpace
           /\ mptr' = MBegin * PGSIZE
           /\ pt' = Left.pt /\ ref' = Left.ref
           /\ parted' = parted \cap Mapped(pt')
           /\ UNCHANGED live
  <2>1. MBegin \in Page BY HeapConstants DEF Page
  <2>2. HeapOK(mptr', pt', ref', live', parted') BY <1>6, <1>7, <2>1
  <2> QED BY <1>3, <2>2, HeapOKNext
<1>8. CASE /\ p # NoSpace /\ ~maps
           /\ mptr' = p * PGSIZE
           /\ pt' = Left.pt /\ ref' = Left.ref
           /\ parted' = parted \cap Mapped(pt')
           /\ UNCHANGED live
  <2>1. HeapOK(mptr', pt', ref', live', parted') BY <1>2, <1>6, <1>8
  <2> QED BY <1>3, <2>1, HeapOKNext
<1>9. CASE /\ p # NoSpace /\ maps
           /\ pt' = [q \in Page |-> CASE q \in p .. last - 1 -> "cont"
                                      [] q = last -> "page"
                                      [] OTHER -> Left.pt[q]]
           /\ ref' = [Left.ref EXCEPT ![last] = 2]
           /\ live' = live \cup {Numbered(p * PGSIZE, n)}
           /\ mptr' = p * PGSIZE + n
           /\ parted' = (parted \cap Mapped(Left.pt))
                           \cup IF mptr' % PGSIZE = 0 THEN {last} ELSE {}
  <2> DEFINE b == Numbered(p * PGSIZE, n)
  <2>1. p \in Page /\ p < MEnd /\ isfree(Left.pt, p, n) BY <1>2, <1>9
  <2>2. last < MEnd /\ \A q \in p .. last : Left.pt[q] = "none" BY <1>3, <2>1, FreeRun
  <2>3. b \notin live /\ b.v = p * PGSIZE /\ b.n = n
    BY NumberedIsNew DEF HeapOK, Layout, Typed
  <2>4. HeapOK(p * PGSIZE, Left.pt, Left.ref, live, parted \cap Mapped(Left.pt))
    BY <1>6, <2>1
  <2>5. (p * PGSIZE) % PGSIZE = 0 BY <1>5, <2>1
  <2>6. live' = live \cup {b} BY <1>9
  <2>7. parted' = (parted \cap Mapped(Left.pt))
                     \cup IF (p * PGSIZE + n) % PGSIZE = 0 THEN {last} ELSE {}
    BY <1>9
  <2> HIDE DEF p, b
  <2>8. HeapOK(mptr', pt', ref', live', parted')
    <3> DEFINE pd == parted \cap Mapped(Left.pt)
               m == p * PGSIZE
               k == last
    <3>1. HeapOK(m, Left.pt, Left.ref, live, pd) /\ m % PGSIZE = 0 BY <2>4, <2>5
    <3>2. /\ k = p + RunLength(n) - 1 /\ k < MEnd /\ \A q \in p .. k : Left.pt[q] = "none"
      BY <2>2
    <3>3. /\ mptr' = p * PGSIZE + n
          /\ pt' = [q \in Page |-> CASE q \in p .. k - 1 -> "cont"
                                     [] q = k -> "page"
                                     [] OTHER -> Left.pt[q]]
          /\ ref' = [Left.ref EXCEPT ![k] = 2]
          /\ parted' = pd \cup IF (p * PGSIZE + n) % PGSIZE = 0 THEN {k} ELSE {}
      BY <1>9, <2>7
    <3> HIDE DEF pd, m, k
    <3>4. HeapOK(p * PGSIZE + n,
                 [q \in Page |-> CASE q \in p .. k - 1 -> "cont"
                                   [] q = k -> "page"
                                   [] OTHER -> Left.pt[q]],
                 [Left.ref EXCEPT ![k] = 2], live \cup {b},
                 pd \cup IF (p * PGSIZE + n) % PGSIZE = 0 THEN {k} ELSE {})
      BY <2>1, <2>3, <3>1, <3>2, PlaceKeeps
    <3> QED BY <2>6, <3>3, <3>4
  <2> QED BY <1>3, <2>8, HeapOKNext
<1> QED BY <1>7, <1>8, <1>9 DEF MallocRun

-----------------------------------------------------------------------------
(* The theorems.                                                           *)

\* The heap before the first call.
LEMMA HeapInvInit == HeapInit => HeapInv
<1> SUFFICES ASSUME HeapInit PROVE HeapInv OBVIOUS
<1>1. mptr = 0 /\ live = {} /\ parted = {} /\ alive = TRUE BY DEF HeapInit
<1>2. mptr % PGSIZE = 0 BY <1>1, PageOfIs, PageOfDef, HeapConstants
<1>3. Text \subseteq Page /\ Text \cap HeapPages = {} BY HeapAssumption DEF Page, HeapPages
<1>4. pt = [p \in Page |-> IF p \in Text THEN "page" ELSE "none"] /\ ref = [p \in Page |-> 0]
  BY DEF HeapInit
<1>5. Typed(mptr, pt, ref, live, parted)
  <2>1. mptr \in 0 .. Size - 1 BY <1>1, HeapConstants
  <2>2. pt \in [Page -> {"none", "page", "cont"}] /\ ref \in [Page -> Nat] BY <1>4
  <2>3. \A p \in Text : pt[p] = "page" BY <1>3, <1>4
  <2>4. IsFiniteSet({}) BY FS_EmptySet
  <2> QED BY <1>1, <2>1, <2>2, <2>3, <2>4 DEF Typed
<1>6. Laid(pt, live) /\ Apart(live) /\ Open(mptr, pt, live) BY <1>1, <1>2 DEF Laid, Apart, Open
<1>7. \A p \in HeapPages : pt[p] = "none" BY <1>3, <1>4, HeapConstants
<1>8. Counts(mptr, pt, ref, live, parted) /\ Runs(pt, live) BY <1>7 DEF Counts, Runs
<1> QED BY <1>1, <1>5, <1>6, <1>8 DEF HeapInv, Layout

\* Each call keeps the invariant.
LEMMA HeapInvStep == HeapInv /\ [HeapNext]_heapVars => HeapInv'
<1> SUFFICES ASSUME HeapInv, [HeapNext]_heapVars PROVE HeapInv' OBVIOUS
<1>1. CASE UNCHANGED heapVars
  BY <1>1 DEF heapVars, HeapInv, Layout, Typed, Laid, Apart, Open, Counts, Runs, Uses, Ending,
              Owns, Last, PageOf
<1>2. ASSUME NEW b \in live, free(b) PROVE HeapInv' BY <1>2, FreeKeeps
<1>3. ASSUME NEW size \in Sizes, malloc(size) PROVE HeapInv'
  <2> DEFINE n == RoundUp4(size)
  <2>1. n \in Nat /\ n % 4 = 0 BY RoundUp4Is, HeapAssumption
  <2>2. /\ alive /\ Cardinality(live) < MaxLive
        /\ MallocTooLarge(n) \/ MallocFits(n) \/ MallocAsserts(n) \/ MallocRun(n)
    BY <1>3 DEF malloc
  <2>3. HeapOK(mptr, pt, ref, live, parted) BY <2>2 DEF HeapInv, HeapOK
  <2> HIDE DEF n
  <2> QED BY <2>1, <2>2, <2>3, FitsKeeps, AssertsKeeps, TooLargeKeeps, RunKeeps
<1> QED BY <1>1, <1>2, <1>3 DEF HeapNext

\* The inductive invariant of the heap: the blocks, the page table and the
\* counts of malloc.c agree.
THEOREM HeapInvariant == HeapSpec => []HeapInv
BY HeapInvInit, HeapInvStep, PTL DEF HeapSpec

\* Addresses are addresses, lengths and counts are naturals (malloc.c).
THEOREM HeapTypeCorrect == HeapSpec => []HeapTypeOK
<1>1. HeapInv => HeapTypeOK BY DEF HeapInv, Layout, Typed, HeapTypeOK
<1> QED BY <1>1, HeapInvariant, PTL

\* Blocks that malloc() gave out and free() has not taken back do not overlap,
\* lie on mapped pages, and have no count in them.
THEOREM BlocksAreSound == HeapSpec => []BlocksSound
<1>1. HeapInv => BlocksSound BY BlocksAreLaid DEF HeapInv
<1> QED BY <1>1, HeapInvariant, PTL

\* A page of the heap is mapped exactly as long as a block, mptr or a page
\* boundary that mptr came to needs it: the counts of malloc() and free().
THEOREM PagesAreExact == HeapSpec => []PagesExact
<1>1. HeapInv => PagesExact
  <2> SUFFICES ASSUME HeapInv PROVE PagesExact OBVIOUS
  <2>1. CASE alive BY <2>1, PagesAreCounted DEF HeapInv, HeapOK
  <2>2. CASE ~alive BY <2>2 DEF PagesExact, CountsExact, RunsExact
  <2> QED BY <2>1, <2>2
<1> QED BY <1>1, HeapInvariant, PTL

\* A search that begins below mend ends there, for it comes to mend before it
\* could come to the end of the address space.
LEMMA ScanStaysBelow ==
    ASSUME NEW t, NEW p0 \in Page, p0 < MEnd, NEW n \in Nat, Scan(t, p0, n) # NoSpace
    PROVE  Scan(t, p0, n) \in Nat /\ Scan(t, p0, n) < MEnd
<1> DEFINE F == FirstPass(t, p0, n)
           S == SecondPass(t, n)
<1>1. NPages \in Nat /\ MEnd \in Nat /\ MEnd < NPages /\ p0 \in Nat BY HeapConstants DEF Page
<1>2. CASE F # {}
  <2>1. F \in SUBSET Nat BY DEF FirstPass
  <2>2. Min(F) \in F BY <1>2, <2>1, LeastNat
  <2>3. Min(F) \in 0 .. (MEnd - 1 - p0) % NPages BY <2>2 DEF FirstPass
  <2>4. (MEnd - 1 - p0) % NPages = MEnd - 1 - p0 BY <1>1
  <2>5. Min(F) \in Nat /\ p0 + Min(F) <= MEnd - 1 BY <1>1, <2>3, <2>4
  <2>6. (p0 + Min(F)) % NPages = p0 + Min(F) BY <1>1, <2>5
  <2>7. Scan(t, p0, n) = p0 + Min(F) BY <1>2, <2>6 DEF Scan
  <2> QED BY <1>1, <2>5, <2>7
<1>3. CASE F = {}
  <2>1. S # {} /\ Scan(t, p0, n) = Min(S) BY <1>3 DEF Scan
  <2>2. S \in SUBSET Nat BY HeapConstants DEF SecondPass
  <2>3. Min(S) \in S BY <2>1, <2>2, LeastNat
  <2>4. Min(S) \in HeapPages BY <2>3 DEF SecondPass, HeapPages
  <2> QED BY <1>1, <2>1, <2>4, HeapConstants DEF HeapPages
<1> QED BY <1>2, <1>3

\* A search of malloc() that begins below mend fails only for want of a run of
\* free pages anywhere in the heap, or of physical pages.
THEOREM HeapSearchSeesHeap == HeapSpec => SearchSeesHeap
<1> DEFINE A ==
      ScanFrom < MEnd => \A size \in Sizes : Fails(size) => NoRun(size) \/ NoPages(size)
<1>1. HeapInv /\ [HeapNext]_heapVars => A
  <2> SUFFICES ASSUME HeapInv, ScanFrom < MEnd, NEW size \in Sizes,
                      malloc(size), live' = live, alive', RoundUp4(size) < MaxMalloc
               PROVE  NoRun(size) \/ NoPages(size)
    BY DEF Fails
  <2> DEFINE n == RoundUp4(size)
             p == Scan(Left.pt, ScanFrom, n)
  <2>1. n \in Nat /\ MaxMalloc \in Nat BY RoundUp4Is, HeapAssumption
  <2>2. HeapOK(mptr, pt, ref, live, parted) /\ Cardinality(live) < MaxLive /\ IsFiniteSet(live)
    BY DEF malloc, HeapInv, HeapOK, Layout, Typed
  <2>3. \A v : Numbered(v, n) \notin live BY <2>2, NumberedIsNew
  <2>4. ~MallocTooLarge(n)
    <3>1. ~(n >= MaxMalloc) BY <2>1
    <3> QED BY <3>1 DEF MallocTooLarge
  <2>5. ~MallocFits(n) BY <2>3 DEF MallocFits
  <2>6. ~MallocAsserts(n) BY DEF MallocAsserts
  <2>7. MallocRun(n) BY <2>4, <2>5, <2>6 DEF malloc
  <2> HIDE DEF n
  <2>8. /\ pt' = Left.pt
        /\ \/ p = NoSpace
           \/ /\ p # NoSpace /\ ~(p < MEnd /\ RunLength(n) <= Room(Left.pt))
              /\ mptr' = p * PGSIZE
    BY <2>3, <2>7 DEF MallocRun
  <2>9. \/ p = NoSpace /\ \A q \in HeapPages : ~isfree(Left.pt, q, n)
        \/ p \in Page
    BY <2>1, <2>2, StartIs, ScanFinds
  <2>13. p # NoSpace => p < MEnd BY <2>1, <2>2, StartIs, ScanStaysBelow
  <2> HIDE DEF p
  <2>10. NoSpace \notin Page BY HeapConstants DEF NoSpace
  <2>11. CASE p = NoSpace BY <2>8, <2>9, <2>10, <2>11 DEF HeapPages, n, NoRun
  <2>12. CASE p # NoSpace
    <3>1. p \in Nat BY <2>9, <2>12, HeapConstants
    <3>2. p < MEnd BY <2>13, <2>12
    <3>3. Room(pt') \in Int
      <4>1. IsFiniteSet(Page) BY FS_Interval, HeapConstants DEF Page
      <4>2. Mapped(pt') \ Text \in SUBSET Page BY DEF Mapped
      <4>3. IsFiniteSet(Mapped(pt') \ Text) BY <4>1, <4>2, FS_Subset
      <4> QED BY <4>3, FS_CardinalityType, HeapAssumption DEF Room
    <3>4. RunLength(n) \in Nat BY <2>1, RunLengthIs, PageOfDef
    <3>5. ~(RunLength(n) <= Room(pt')) BY <2>8, <2>12, <3>2
    <3>6. Room(pt') < RunLength(n) BY <3>3, <3>4, <3>5
    <3> QED BY <3>6 DEF n, NoPages
  <2> QED BY <2>11, <2>12
<1>2. HeapInv /\ [HeapNext]_heapVars => [A]_heapVars BY <1>1
<1> HIDE DEF A
<1>3. HeapSpec => [][A]_heapVars BY <1>2, HeapInvariant, PTL DEF HeapSpec
<1> QED BY <1>3 DEF A, SearchSeesHeap
=============================================================================
