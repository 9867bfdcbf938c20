-------------------------- MODULE NetServerProofs ---------------------------
(***************************************************************************)
(* Proofs about the network server, for every number of clients, buffers,  *)
(* mailbox slots, yields and packets.                                      *)
(***************************************************************************)
EXTENDS NetServer, TLAPS

\* A thread has all its fields.
ThreadsOK ==
    /\ th = [t \in Threads |-> th[t]]
    /\ \A t \in Threads :
           th[t] = [pc |-> th[t].pc, wait |-> th[t].wait, val |-> th[t].val, wakeup |-> th[t].wakeup]

BufInv == ThreadsOK /\ mva \in Workers /\ BuffersExact

-----------------------------------------------------------------------------

\* The names of the threads.
LEMMA Names ==
    /\ Workers \subseteq Threads /\ Main \in Threads /\ Tcpip \in Threads
    /\ Main \notin Workers /\ Tcpip \notin Workers /\ Main # Tcpip
    /\ 0 \in Workers /\ Workers \subseteq Nat
BY NetServerAssumption DEF Workers, Main, Tcpip, Threads

\* At(pc) has all fields.
LEMMA AtFields ==
    ASSUME NEW pc
    PROVE  /\ At(pc) = [pc |-> At(pc).pc, wait |-> At(pc).wait, val |-> At(pc).val,
                        wakeup |-> At(pc).wakeup]
           /\ At(pc).pc = pc /\ At(pc).wait = None
BY DEF At

\* A thread goes to another place.
LEMMA GoTh ==
    ASSUME ThreadsOK, NEW c, NEW pc, Goes(c, pc)
    PROVE  /\ ThreadsOK'
           /\ \A t \in Threads : th'[t] = IF t = c THEN At(pc) ELSE th[t]
           /\ \A t \in Threads : th'[t].pc = IF t = c THEN pc ELSE th[t].pc
<1> DEFINE r == At(pc)
<1>1. r = [pc |-> r.pc, wait |-> r.wait, val |-> r.val, wakeup |-> r.wakeup]
  BY AtFields
<1>2. th' = [th EXCEPT ![c] = r]
  BY DEF Goes
<1> HIDE DEF r
<1>3. ThreadsOK' /\ \A t \in Threads : th'[t] = IF t = c THEN r ELSE th[t]
  BY <1>1, <1>2 DEF ThreadsOK
<1> QED BY <1>3, AtFields DEF r

\* A thread passes a semaphore.
LEMMA PassTh ==
    ASSUME ThreadsOK, NEW pc, NEW S, Passes(pc, S)
    PROVE  /\ ThreadsOK'
           /\ \A t \in Threads : th'[t].pc = IF t = cur THEN pc ELSE th[t].pc
           /\ \A t \in Threads : th'[t].wait = IF t = cur THEN None ELSE th[t].wait
<1> DEFINE Up(t) == th[t].wakeup \/ \E x \in S : sem[x].waiters = 1 /\ Woken(t, x)
           New(t) == IF t = cur THEN At(pc) ELSE [th[t] EXCEPT !.wakeup = Up(t)]
<1>1. th' = [t \in Threads |-> New(t)]
  BY DEF Passes
<1>2. ASSUME NEW t \in Threads
      PROVE  /\ New(t) = [pc |-> New(t).pc, wait |-> New(t).wait, val |-> New(t).val,
                          wakeup |-> New(t).wakeup]
             /\ New(t).pc = IF t = cur THEN pc ELSE th[t].pc
             /\ New(t).wait = IF t = cur THEN None ELSE th[t].wait
  <2>1. th[t] = [pc |-> th[t].pc, wait |-> th[t].wait, val |-> th[t].val, wakeup |-> th[t].wakeup]
    BY DEF ThreadsOK
  <2> DEFINE u == Up(t)
  <2> HIDE DEF u
  <2>2. [th[t] EXCEPT !.wakeup = u] = [pc |-> th[t].pc, wait |-> th[t].wait, val |-> th[t].val, wakeup |-> u]
    BY <2>1
  <2>3. CASE t = cur
    BY <2>3, AtFields
  <2>4. CASE t # cur
    BY <2>2, <2>4 DEF u
  <2> QED BY <2>3, <2>4
<1> HIDE DEF New
<1> QED BY <1>1, <1>2 DEF ThreadsOK

\* A thread starts or stops to wait, or stays where it is.
Quiet ==
    /\ ThreadsOK'
    /\ \A t \in Threads : th'[t].pc = th[t].pc
    /\ UNCHANGED <<mainVars, envVars>>

LEMMA QuietSteps ==
    ASSUME ThreadsOK, SemBlock \/ WaitLeave \/ WaitAgain
    PROVE  Quiet
<1>1. CASE SemBlock
  <2>1. th' = [th EXCEPT ![cur] = [pc |-> th[cur].pc, wait |-> SemOf(cur), val |-> <<0, 1>>,
                                   wakeup |-> FALSE]]
    BY <1>1 DEF SemBlock
  <2>2. ThreadsOK' /\ \A t \in Threads : th'[t].pc = th[t].pc
    BY <2>1 DEF ThreadsOK
  <2> QED BY <1>1, <2>2 DEF SemBlock, Quiet
<1>2. CASE WaitLeave
  <2>1. th' = [th EXCEPT ![cur] = At(th[cur].pc)]
    BY <1>2 DEF WaitLeave
  <2>2. ThreadsOK' /\ \A t \in Threads : th'[t].pc = th[t].pc
    BY <2>1 DEF ThreadsOK, At
  <2> QED BY <1>2, <2>2 DEF WaitLeave, Quiet
<1>3. CASE WaitAgain
  <2>1. th' = th
    BY <1>3 DEF WaitAgain
  <2>2. ThreadsOK'
    BY <2>1 DEF ThreadsOK
  <2> QED BY <1>3, <2>1, <2>2 DEF WaitAgain, Quiet
<1> QED BY <1>1, <1>2, <1>3

\* A semaphore is signalled.
LEMMA SignalTh ==
    ASSUME ThreadsOK, NEW s, Signals(s)
    PROVE  /\ ThreadsOK'
           /\ \A t \in Threads : th'[t].pc = th[t].pc /\ th'[t].wait = th[t].wait
<1> DEFINE Up(t) == th[t].wakeup \/ (sem[s].waiters = 1 /\ Woken(t, s))
           New(t) == [th[t] EXCEPT !.wakeup = Up(t)]
<1>1. th' = [t \in Threads |-> New(t)]
  BY DEF Signals
<1>2. ASSUME NEW t \in Threads
      PROVE  /\ New(t) = [pc |-> New(t).pc, wait |-> New(t).wait, val |-> New(t).val,
                          wakeup |-> New(t).wakeup]
             /\ New(t).pc = th[t].pc /\ New(t).wait = th[t].wait
  <2>1. th[t] = [pc |-> th[t].pc, wait |-> th[t].wait, val |-> th[t].val, wakeup |-> th[t].wakeup]
    BY DEF ThreadsOK
  <2> DEFINE u == Up(t)
  <2> HIDE DEF u
  <2>2. [th[t] EXCEPT !.wakeup = u] = [pc |-> th[t].pc, wait |-> th[t].wait, val |-> th[t].val, wakeup |-> u]
    BY <2>1
  <2> QED BY <2>2 DEF u
<1> HIDE DEF New
<1> QED BY <1>1, <1>2 DEF ThreadsOK

\* The thread t goes to q and does not wait there; all others stay where they are.
Moved(t, q) ==
    /\ ThreadsOK'
    /\ \A u \in Threads : th'[u].pc = IF u = t THEN q ELSE th[u].pc
    /\ \A u \in Threads : th'[u].wait = IF u = t THEN None ELSE th[u].wait

LEMMA MovedGo ==
    ASSUME ThreadsOK, NEW t, NEW q, Goes(t, q)
    PROVE  Moved(t, q)
BY GoTh, AtFields DEF Moved

LEMMA MovedPass ==
    ASSUME ThreadsOK, NEW q, NEW S, Passes(q, S)
    PROVE  Moved(cur, q) /\ UNCHANGED <<cur, queue>>
<1>1. UNCHANGED <<cur, queue>>
  BY DEF Passes
<1>2. Moved(cur, q)
  BY PassTh DEF Moved
<1> QED BY <1>1, <1>2

LEMMA MovedSignal ==
    ASSUME ThreadsOK, NEW c, Completed(c), th[cur].wait = None
    PROVE  Moved(cur, th[cur].pc) /\ UNCHANGED <<cur, queue>>
<1>1. Signals(Done(c))
  BY DEF Completed
<1> QED BY <1>1, SignalTh DEF Moved, Signals

\* Where a thread goes from p when it serves a request.
Follows(p) ==
    CASE p = "start"   -> {"fetch", "post", "reply", "segment", "deliver", "error", "done"}
      [] p = "segment" -> {"segment", "deliver", "done"}
      [] p = "fetch"   -> {"post", "reply"}
      [] p = "post"    -> {"op"}
      [] p = "op"      -> {"reply"}
      [] p \in {"deliver", "error"} -> {"done"}
      [] p \in {"reply", "done"}    -> {"none"}
      [] OTHER -> {}

\* What a thread does that serves a request.
LEMMA ServeStep ==
    ASSUME ThreadsOK, NEW w \in Workers, serve_thread(w)
    PROVE  /\ cur = w /\ \E q \in Follows(th[w].pc) : Moved(w, q)
           /\ \/ th'[w].pc # "none" /\ UNCHANGED <<cur, queue, buse, cl>>
              \/ th'[w].pc = "none" /\ Halt /\ buse' = buse \ {w}
           /\ UNCHANGED <<mva, yields, ipc, inp, pkts, nsipcbuf>>
           /\ req' = req \/ \E r : req' = [req EXCEPT ![w] = r]
<1> DEFINE Rest == /\ UNCHANGED <<mva, yields, ipc, inp, pkts, nsipcbuf>>
                   /\ req' = req \/ \E r : req' = [req EXCEPT ![w] = r]
           Same == UNCHANGED <<cur, queue, buse, cl>>
<1>0. w \in Threads
  BY Names
<1>1. ASSUME NEW q \in Follows(th[w].pc), q # "none", cur = w, Moved(w, q), Same, Rest
      PROVE  /\ cur = w /\ \E x \in Follows(th[w].pc) : Moved(w, x)
             /\ th'[w].pc # "none" /\ Same /\ Rest
  BY <1>0, <1>1 DEF Moved
<1>2. CASE ServeCall(w)
  <2>1. /\ cur = w /\ th[w].pc = "start" /\ Same /\ Rest
        /\ \E q \in {"fetch", "post", "reply"} : Goes(w, q)
    BY <1>2 DEF ServeCall, Runs, mainVars, envVars
  <2>2. PICK q \in {"fetch", "post", "reply"} : Goes(w, q)
    BY <2>1
  <2>3. q \in Follows(th[w].pc) /\ q # "none"
    BY <2>1 DEF Follows
  <2> QED BY <1>1, <2>1, <2>2, <2>3, MovedGo
<1>3. CASE ServeInput(w) \/ ServeReset(w)
  <2>1. /\ cur = w /\ th[w].pc = "start" /\ Same /\ Rest
        /\ \E q \in {"segment", "deliver", "error", "done"} : Goes(w, q)
    BY <1>3 DEF ServeInput, ServeReset, Runs, envVars
  <2>2. PICK q \in {"segment", "deliver", "error", "done"} : Goes(w, q)
    BY <2>1
  <2>3. q \in Follows(th[w].pc) /\ q # "none"
    BY <2>1 DEF Follows
  <2> QED BY <1>1, <2>1, <2>2, <2>3, MovedGo
<1>4. CASE ServeSent(w)
  <2>1. /\ cur = w /\ th[w].pc = "segment" /\ th[w].wait = None /\ Completed(req[w].who)
        /\ UNCHANGED <<mainVars, envVars>>
    BY <1>4 DEF ServeSent, Runs
  <2>2. Moved(w, "segment") /\ UNCHANGED <<cur, queue>>
    BY <2>1, MovedSignal
  <2>3. Same /\ Rest /\ "segment" \in Follows(th[w].pc)
    BY <2>1, <2>2 DEF mainVars, envVars, Follows
  <2> QED BY <1>1, <2>1, <2>2, <2>3
<1>5. CASE ServeSegment(w)
  <2>1. /\ cur = w /\ th[w].pc = "segment" /\ Same /\ Rest
        /\ \E q \in {"deliver", "done"} : Goes(w, q)
    BY <1>5 DEF ServeSegment, Runs, mainVars, envVars
  <2>2. PICK q \in {"deliver", "done"} : Goes(w, q)
    BY <2>1
  <2>3. q \in Follows(th[w].pc) /\ q # "none"
    BY <2>1 DEF Follows
  <2> QED BY <1>1, <2>1, <2>2, <2>3, MovedGo
<1>6. CASE ServeFetch(w) \/ ServePost(w) \/ ServeOp(w) \/ ServeDeliver(w) \/ ServeError(w)
  <2>1. /\ cur = w /\ UNCHANGED <<mainVars, envVars>>
        /\ \E q \in Follows(th[w].pc) : q # "none" /\ \E S : Passes(q, S)
    <3>1. CASE ServeFetch(w)
      <4>1. PICK q \in {"post", "reply"} : \E S : Passes(q, S)
        <5>1. Passes(IF req[w].who \in Tcp /\ Oldest(req[w].who) = "data" THEN "post" ELSE "reply",
                     {Freed(req[w].who)})
          BY <3>1 DEF ServeFetch
        <5>2. CASE req[w].who \in Tcp /\ Oldest(req[w].who) = "data"
          <6>1. Passes("post", {Freed(req[w].who)})
            BY <5>1, <5>2
          <6> QED BY <6>1
        <5>3. CASE ~(req[w].who \in Tcp /\ Oldest(req[w].who) = "data")
          <6>1. Passes("reply", {Freed(req[w].who)})
            BY <5>1, <5>3
          <6> QED BY <6>1
        <5> QED BY <5>2, <5>3
      <4>2. q \in Follows(th[w].pc)
        BY <3>1 DEF ServeFetch, Follows
      <4> QED BY <3>1, <4>1, <4>2 DEF ServeFetch
    <3>2. CASE ServePost(w)
      BY <3>2 DEF ServePost, Follows
    <3>3. CASE ServeOp(w)
      BY <3>3 DEF ServeOp, Follows
    <3>4. CASE ServeDeliver(w)
      BY <3>4 DEF ServeDeliver, Follows
    <3>5. CASE ServeError(w)
      <4>1. \E S : Passes("done", S)
        BY <3>5 DEF ServeError, Errored
      <4> QED BY <3>5, <4>1 DEF ServeError, Follows
    <3> QED BY <1>6, <3>1, <3>2, <3>3, <3>4, <3>5
  <2>2. PICK q \in Follows(th[w].pc) : q # "none" /\ \E S : Passes(q, S)
    BY <2>1
  <2>3. Moved(w, q) /\ UNCHANGED <<cur, queue>>
    BY <2>1, <2>2, MovedPass
  <2>4. Same /\ Rest
    BY <2>1, <2>3 DEF mainVars, envVars
  <2> QED BY <1>1, <2>1, <2>2, <2>3, <2>4
<1>7. CASE ServeReply(w) \/ ServeDone(w)
  <2>1. /\ cur = w /\ th[w].pc \in {"reply", "done"} /\ Goes(w, "none") /\ Halt
        /\ buse' = buse \ {w} /\ Rest
    BY <1>7 DEF ServeReply, ServeDone, Runs, PutBuffer
  <2>2. Moved(w, "none") /\ "none" \in Follows(th[w].pc)
    BY <2>1, MovedGo DEF Follows
  <2> QED BY <1>0, <2>1, <2>2 DEF Moved
<1> QED BY <1>2, <1>3, <1>4, <1>5, <1>6, <1>7 DEF serve_thread

\* What the tcpip thread does.
LEMMA TcpipStep ==
    ASSUME ThreadsOK, tcpip_thread
    PROVE  /\ cur = Tcpip /\ \E q \in {"fetch", "error"} : Moved(Tcpip, q)
           /\ UNCHANGED <<cur, queue, mainVars, cl, inp, pkts, nsipcbuf, tim>>
<1>1. CASE TcpipCall \/ TcpipSend \/ TcpipLater \/ TcpipError
  <2>1. /\ cur = Tcpip /\ UNCHANGED <<mainVars, cl, inp, pkts, nsipcbuf, tim>>
        /\ \E S : Passes("fetch", S)
    BY <1>1 DEF TcpipCall, TcpipSend, TcpipLater, TcpipError, Errored, envVars
  <2> QED BY <2>1, MovedPass
<1>2. CASE TcpipPoll
  <2>1. /\ cur = Tcpip /\ th[Tcpip].wait = None /\ th[Tcpip].pc = "fetch"
        /\ UNCHANGED <<mainVars, cl, inp, pkts, nsipcbuf, tim>>
        /\ \E c \in Tcp : Completed(c)
    BY <1>2 DEF TcpipPoll, Runs
  <2> QED BY <2>1, MovedSignal
<1>3. CASE TcpipAbort
  <2>1. /\ cur = Tcpip /\ Goes(Tcpip, "error")
        /\ UNCHANGED <<cur, queue, mainVars, envVars>>
    BY <1>3 DEF TcpipAbort, Runs
  <2> QED BY <2>1, MovedGo DEF envVars
<1> QED BY <1>1, <1>2, <1>3 DEF tcpip_thread

-----------------------------------------------------------------------------
(* Buffers.                                                                *)

\* The main loop has its buffer from get_buffer() to put_buffer().
HasBuffer == {"recv", "got", "timer"}

\* Nothing changes that BufInv is about.
LEMMA BufKept ==
    ASSUME BufInv, ThreadsOK', UNCHANGED <<buse, mva>>,
           th'[Main].pc \in HasBuffer <=> th[Main].pc \in HasBuffer,
           \A w \in Workers : th'[w].pc = "none" <=> th[w].pc = "none"
    PROVE  BufInv'
BY DEF BufInv, BuffersExact, HasBuffer

LEMMA BufMain ==
    ASSUME BufInv,
           MainFlush \/ MainRecv \/ MainPanic \/ StayPanicked \/ MainServe \/ MainTimer \/ MainTimerReply
    PROVE  BufInv'
<1>0. ThreadsOK
  BY DEF BufInv
<1>1. CASE MainFlush
  <2>1. th' = th
    BY <1>1 DEF MainFlush
  <2> QED BY <1>0, <1>1, <2>1, BufKept DEF MainFlush, ThreadsOK
<1>2. CASE MainRecv
  <2>1. PICK i \in Workers : FreeBuffer(i) /\ mva' = i /\ buse' = buse \cup {i}
    BY <1>2 DEF MainRecv
  <2>2. Goes(Main, "recv") /\ th[Main].pc = "loop"
    BY <1>2 DEF MainRecv, Flushed, Goes
  <2>3. /\ ThreadsOK'
        /\ \A t \in Threads : th'[t].pc = IF t = Main THEN "recv" ELSE th[t].pc
    BY <1>0, <2>2, GoTh
  <2>4. th'[Main].pc = "recv" /\ \A w \in Workers : th'[w].pc = th[w].pc
    BY <2>3, Names
  <2> QED BY <2>1, <2>2, <2>3, <2>4 DEF BufInv, BuffersExact, FreeBuffer
<1>3. CASE MainPanic
  <2>1. Goes(Main, "panic") /\ th[Main].pc = "loop"
    BY <1>3 DEF MainPanic, Flushed, Goes
  <2>2. /\ ThreadsOK'
        /\ \A t \in Threads : th'[t].pc = IF t = Main THEN "panic" ELSE th[t].pc
    BY <1>0, <2>1, GoTh
  <2>3. th'[Main].pc = "panic" /\ \A w \in Workers : th'[w].pc = th[w].pc
    BY <2>2, Names
  <2>4. UNCHANGED <<buse, mva>>
    BY <1>3 DEF MainPanic, mainVars
  <2> QED BY <2>1, <2>2, <2>3, <2>4, BufKept DEF HasBuffer
<1>4. CASE StayPanicked
  <2>1. th' = th /\ UNCHANGED <<buse, mva>>
    BY <1>4 DEF StayPanicked, vars, threadVars, mainVars
  <2> QED BY <1>0, <2>1, BufKept DEF ThreadsOK
<1>5. CASE MainServe
  <2>1. th[Main].pc = "got" /\ UNCHANGED <<buse, mva>>
    BY <1>5 DEF MainServe
  <2>2. th' = [th EXCEPT ![mva] = At("start"), ![Main] = At("loop")]
    BY <1>5 DEF MainServe
  <2>3. mva \in Workers /\ mva # Main /\ mva \in Threads
    BY Names DEF BufInv
  <2>4. \A t \in Threads : th'[t] = IF t = Main THEN At("loop")
                                    ELSE IF t = mva THEN At("start") ELSE th[t]
    BY <1>0, <2>2, <2>3 DEF ThreadsOK
  <2>5. ThreadsOK'
    BY <1>0, <2>2, <2>4, AtFields DEF ThreadsOK
  <2>6. /\ th'[Main].pc = "loop" /\ th'[mva].pc = "start"
        /\ \A w \in Workers : w # mva => th'[w].pc = th[w].pc
    BY <2>3, <2>4, Names, AtFields
  <2> QED BY <2>1, <2>3, <2>5, <2>6 DEF BufInv, BuffersExact
<1>6. CASE MainTimer
  <2>1. Goes(Main, "timer") /\ th[Main].pc = "got" /\ UNCHANGED <<buse, mva>>
    BY <1>6 DEF MainTimer, Goes
  <2>2. /\ ThreadsOK'
        /\ \A t \in Threads : th'[t].pc = IF t = Main THEN "timer" ELSE th[t].pc
    BY <1>0, <2>1, GoTh
  <2>3. th'[Main].pc = "timer" /\ \A w \in Workers : th'[w].pc = th[w].pc
    BY <2>2, Names
  <2> QED BY <2>1, <2>2, <2>3, BufKept DEF HasBuffer
<1>7. CASE MainTimerReply
  <2>1. /\ Goes(Main, "loop") /\ th[Main].pc = "timer"
        /\ mva' = mva /\ buse' = buse \ {mva}
    BY <1>7 DEF MainTimerReply, Goes
  <2>2. /\ ThreadsOK'
        /\ \A t \in Threads : th'[t].pc = IF t = Main THEN "loop" ELSE th[t].pc
    BY <1>0, <2>1, GoTh
  <2>3. th'[Main].pc = "loop" /\ \A w \in Workers : th'[w].pc = th[w].pc
    BY <2>2, Names
  <2> QED BY <2>1, <2>2, <2>3 DEF BufInv, BuffersExact
<1> QED BY <1>1, <1>2, <1>3, <1>4, <1>5, <1>6, <1>7

\* A thread serves a request from pc to another place.
LEMMA BufServe ==
    ASSUME BufInv, NEW w \in Workers, serve_thread(w)
    PROVE  BufInv'
<1>0. ThreadsOK /\ w \in Threads /\ w # Main
  BY Names DEF BufInv
<1>1. PICK q \in Follows(th[w].pc) : Moved(w, q)
  BY <1>0, ServeStep
<1>2. /\ th[w].pc # "none" /\ mva' = mva
      /\ th'[Main].pc = th[Main].pc /\ th'[w].pc = q
      /\ \A v \in Workers : v # w => th'[v].pc = th[v].pc
  BY <1>0, <1>1, ServeStep, Names DEF Moved, Follows
<1>3. ThreadsOK'
  BY <1>1 DEF Moved
<1>4. CASE q # "none"
  <2>1. buse' = buse
    BY <1>0, <1>2, <1>4, ServeStep
  <2> QED BY <1>2, <1>3, <1>4, <2>1, BufKept
<1>5. CASE q = "none"
  <2>1. buse' = buse \ {w}
    BY <1>0, <1>2, <1>5, ServeStep
  <2> QED BY <1>2, <1>3, <1>5, <2>1 DEF BufInv, BuffersExact
<1> QED BY <1>4, <1>5

\* The tcpip thread has no buffer.
LEMMA BufTcpip ==
    ASSUME BufInv, tcpip_thread
    PROVE  BufInv'
<1>1. PICK q : Moved(Tcpip, q)
  BY TcpipStep DEF BufInv
<1>2. UNCHANGED <<buse, mva>>
  BY TcpipStep DEF BufInv, mainVars
<1>3. ThreadsOK' /\ th'[Main].pc = th[Main].pc /\ \A w \in Workers : th'[w].pc = th[w].pc
  BY <1>1, Names DEF Moved
<1> QED BY <1>2, <1>3, BufKept

\* Somebody sends to the server.
LEMMA BufReceive ==
    ASSUME BufInv, NEW kind, NEW who, NEW n, Receive(kind, who, n)
    PROVE  BufInv'
<1>1. th[Main].pc = "recv" /\ Goes(Main, "got") /\ UNCHANGED <<buse, mva>>
  BY DEF Receive, Receives, Goes
<1>2. ThreadsOK' /\ \A t \in Threads : th'[t].pc = IF t = Main THEN "got" ELSE th[t].pc
  BY <1>1, GoTh DEF BufInv
<1>3. th'[Main].pc = "got" /\ \A w \in Workers : th'[w].pc = th[w].pc
  BY <1>2, Names
<1> QED BY <1>1, <1>2, <1>3, BufKept DEF HasBuffer

LEMMA BufNext ==
    ASSUME BufInv, [Next]_vars
    PROVE  BufInv'
<1> DEFINE Same == th' = th /\ UNCHANGED <<buse, mva>>
<1>0. CASE Same
  BY <1>0, BufKept DEF BufInv, ThreadsOK
<1>1. CASE SemBlock \/ WaitLeave \/ WaitAgain
  <2>1. Quiet
    BY <1>1, QuietSteps DEF BufInv
  <2>2. th'[Main].pc = th[Main].pc /\ \A w \in Workers : th'[w].pc = th[w].pc
    BY <2>1, Names DEF Quiet
  <2> QED BY <2>1, <2>2, BufKept DEF Quiet, mainVars
<1>2. CASE MainFlush \/ MainRecv \/ MainPanic \/ StayPanicked \/ MainServe \/ MainTimer \/ MainTimerReply
  BY <1>2, BufMain
<1>3. CASE \E w \in Workers : serve_thread(w)
  BY <1>3, BufServe
<1>4. CASE tcpip_thread
  BY <1>4, BufTcpip
<1>5. CASE \E c \in Clients : ClientSend(c)
  BY <1>5, BufReceive DEF ClientSend
<1>6. CASE InputSend \/ TimerSend
  BY <1>6, BufReceive DEF InputSend, TimerSend
<1>7. CASE \E c \in Clients : ClientRecv(c)
  BY <1>0, <1>7 DEF ClientRecv, threadVars, mainVars
<1>8. CASE InputRecv \/ InputSee \/ InputCopy \/ TimerRecv \/ OutputDone
  BY <1>0, <1>8 DEF InputRecv, InputSee, InputCopy, TimerRecv, OutputDone, threadVars, mainVars
<1>9. CASE UNCHANGED vars
  BY <1>0, <1>9 DEF vars, threadVars, mainVars
<1> QED BY <1>1, <1>2, <1>3, <1>4, <1>5, <1>6, <1>7, <1>8, <1>9 DEF Next, NS, Timer, Input

LEMMA BufInit == Init => BufInv
<1> SUFFICES ASSUME Init PROVE BufInv
  OBVIOUS
<1>1. \A t \in Threads : th[t] = CASE t = Main  -> At("loop")
                                   [] t = Tcpip -> [pc |-> "fetch", wait |-> Queued(Stack),
                                                    val |-> <<0, 1>>, wakeup |-> FALSE]
                                   [] OTHER     -> At("none")
  BY DEF Init
<1>2. th[Main].pc = "loop" /\ \A w \in Workers : th[w].pc = "none"
  BY <1>1, Names, AtFields
<1>3. ASSUME NEW t \in Threads
      PROVE  th[t] = [pc |-> th[t].pc, wait |-> th[t].wait, val |-> th[t].val, wakeup |-> th[t].wakeup]
  BY <1>1 DEF At
<1>4. th = [t \in Threads |-> th[t]]
  BY DEF Init
<1> QED BY <1>2, <1>3, <1>4, Names DEF Init, BufInv, ThreadsOK, BuffersExact

\* A buffer is in use exactly as long as the main loop receives into it or a
\* thread serves the request in it (get_buffer(), put_buffer()).
THEOREM BuffersAreExact == Spec => []BuffersExact
<1>1. Init => BufInv
  BY BufInit
<1>2. BufInv /\ [Next]_vars => BufInv'
  BY BufNext
<1>3. BufInv => BuffersExact
  BY DEF BufInv
<1> QED BY <1>1, <1>2, <1>3, PTL DEF Spec

-----------------------------------------------------------------------------
(* The order of threads: one that was created runs before the main loop.   *)

\* A thread is in front of the main loop.
Before(w) == \E i, j \in 1 .. Len(queue) : i < j /\ queue[i] = w /\ queue[j] = Main

MainOnce ==
    /\ cur = Main => \A i \in 1 .. Len(queue) : queue[i] # Main
    /\ cur # Main => \E m \in 1 .. Len(queue) :
                         queue[m] = Main /\ \A i \in 1 .. Len(queue) : queue[i] = Main => i = m

StartsSoon ==
    \A w \in Workers : th[w].pc = "start" => th[w].wait = None /\ (cur = w \/ Before(w))

OrderInv ==
    /\ cur \in Threads
    /\ queue \in Seq(Threads)
    /\ MainOnce
    /\ StartsSoon

\* When the main loop runs, all threads that it created have started.
LEMMA MainLast ==
    ASSUME OrderInv, cur = Main
    PROVE  \A w \in Workers : th[w].pc # "start"
BY Names DEF OrderInv, MainOnce, StartsSoon, Before

\* The next thread is taken from s, where the main loop is at m.
LEMMA PopOrder ==
    ASSUME NEW s \in Seq(Threads), NEW m \in 1 .. Len(s), s[m] = Main,
           \A i \in 1 .. Len(s) : s[i] = Main => i = m,
           cur' = Head(s), queue' = Tail(s)
    PROVE  /\ cur' \in Threads /\ queue' \in Seq(Threads) /\ MainOnce'
           /\ \A w \in Workers : \A i \in 1 .. Len(s) :
                  i < m /\ s[i] = w => cur' = w \/ Before(w)'
<1>1. s # <<>> /\ Len(s) \in Nat /\ m \in Nat
  OBVIOUS
<1>2. cur' = s[1] /\ cur' \in Threads
  BY <1>1
<1>3. /\ queue' \in Seq(Threads) /\ Len(queue') = Len(s) - 1
      /\ \A i \in 1 .. Len(s) - 1 : queue'[i] = s[i + 1]
  BY <1>1
<1>4. MainOnce'
  <2>1. CASE m = 1
    <3>1. cur' = Main
      BY <1>2, <2>1
    <3>2. ASSUME NEW i \in 1 .. Len(queue') PROVE queue'[i] # Main
      <4>1. i \in 1 .. Len(s) - 1 /\ i + 1 \in 1 .. Len(s) /\ i + 1 # m
        BY <1>1, <1>3, <2>1
      <4> QED BY <1>3, <4>1
    <3> QED BY <3>1, <3>2 DEF MainOnce
  <2>2. CASE m # 1
    <3>1. m - 1 \in 1 .. Len(queue') /\ queue'[m - 1] = Main
      <4>1. m - 1 \in 1 .. Len(s) - 1
        BY <1>1, <2>2
      <4> QED BY <1>3, <4>1
    <3>2. ASSUME NEW i \in 1 .. Len(queue'), queue'[i] = Main PROVE i = m - 1
      <4>1. i \in 1 .. Len(s) - 1 /\ i + 1 \in 1 .. Len(s)
        BY <1>1, <1>3
      <4>2. s[i + 1] = Main
        BY <1>3, <3>2, <4>1
      <4> QED BY <4>1, <4>2
    <3>3. cur' # Main
      BY <1>1, <1>2, <2>2
    <3> QED BY <3>1, <3>2, <3>3 DEF MainOnce
  <2> QED BY <2>1, <2>2
<1>5. ASSUME NEW w \in Workers, NEW i \in 1 .. Len(s), i < m, s[i] = w, i # 1
      PROVE  Before(w)'
  <2>1. i - 1 \in 1 .. Len(s) - 1 /\ m - 1 \in 1 .. Len(s) - 1 /\ i - 1 < m - 1
    BY <1>1, <1>5
  <2>2. queue'[i - 1] = w /\ queue'[m - 1] = Main
    BY <1>3, <1>5, <2>1
  <2> QED BY <1>3, <2>1, <2>2 DEF Before
<1> QED BY <1>2, <1>3, <1>4, <1>5

\* No thread is created, and none that has not started waits.
NoNewStart ==
    \A w \in Workers : th'[w].pc = "start" => th[w].pc = "start" /\ th'[w].wait = None

LEMMA OrderKept ==
    ASSUME OrderInv, NoNewStart, UNCHANGED <<cur, queue>>
    PROVE  OrderInv'
BY DEF OrderInv, NoNewStart, MainOnce, StartsSoon, Before

\* The thread that runs has started when it yields or halts.
HasStarted == \A w \in Workers : cur = w => th'[w].pc # "start"

LEMMA OrderPop ==
    ASSUME OrderInv, NoNewStart, HasStarted,
           NEW s \in Seq(Threads), NEW m \in 1 .. Len(s), s[m] = Main,
           \A i \in 1 .. Len(s) : s[i] = Main => i = m,
           \A i \in 1 .. Len(queue) : i \in 1 .. Len(s) /\ s[i] = queue[i],
           cur' = Head(s), queue' = Tail(s)
    PROVE  OrderInv'
<1>1. /\ cur' \in Threads /\ queue' \in Seq(Threads) /\ MainOnce'
      /\ \A w \in Workers : \A i \in 1 .. Len(s) :
             i < m /\ s[i] = w => cur' = w \/ Before(w)'
  BY PopOrder
<1>2. ASSUME NEW w \in Workers, th'[w].pc = "start"
      PROVE  th'[w].wait = None /\ (cur' = w \/ Before(w)')
  <2>1. th'[w].wait = None /\ cur # w /\ th[w].pc = "start"
    BY <1>2 DEF NoNewStart, HasStarted
  <2>2. Before(w)
    BY <2>1 DEF OrderInv, StartsSoon
  <2>3. PICK i, j \in 1 .. Len(queue) : i < j /\ queue[i] = w /\ queue[j] = Main
    BY <2>2 DEF Before
  <2>4. j = m /\ s[i] = w /\ i \in 1 .. Len(s)
    BY <2>3
  <2> QED BY <1>1, <2>1, <2>3, <2>4
<1> QED BY <1>1, <1>2 DEF OrderInv, StartsSoon

LEMMA OrderYield ==
    ASSUME OrderInv, NoNewStart, HasStarted, Yield(queue)
    PROVE  OrderInv'
<1> DEFINE s == Append(queue, cur)
<1>1. /\ s \in Seq(Threads) /\ Len(s) = Len(queue) + 1 /\ s[Len(s)] = cur
      /\ \A i \in 1 .. Len(queue) : i \in 1 .. Len(s) /\ s[i] = queue[i]
      /\ Len(queue) \in Nat
  BY DEF OrderInv
<1>2. cur' = Head(s) /\ queue' = Tail(s)
  BY DEF Yield
<1> HIDE DEF s
<1>3. PICK m \in 1 .. Len(s) : s[m] = Main /\ \A i \in 1 .. Len(s) : s[i] = Main => i = m
  <2>1. CASE cur = Main
    <3>1. \A i \in 1 .. Len(queue) : s[i] # Main
      BY <1>1, <2>1 DEF OrderInv, MainOnce
    <3>2. Len(s) \in 1 .. Len(s)
      BY <1>1
    <3>3. \A i \in 1 .. Len(s) : s[i] = Main => i = Len(s)
      BY <1>1, <3>1
    <3> QED BY <1>1, <2>1, <3>2, <3>3
  <2>2. CASE cur # Main
    <3>1. PICK m \in 1 .. Len(queue) :
              queue[m] = Main /\ \A i \in 1 .. Len(queue) : queue[i] = Main => i = m
      BY <2>2 DEF OrderInv, MainOnce
    <3>2. m \in 1 .. Len(s) /\ s[m] = Main
      BY <1>1, <3>1
    <3>3. ASSUME NEW i \in 1 .. Len(s), s[i] = Main PROVE i = m
      BY <1>1, <2>2, <3>1, <3>3
    <3> QED BY <3>2, <3>3
  <2> QED BY <2>1, <2>2
<1> QED BY <1>1, <1>2, <1>3, OrderPop

LEMMA OrderHalt ==
    ASSUME OrderInv, NoNewStart, HasStarted, Halt, cur # Main
    PROVE  OrderInv'
<1>1. PICK m \in 1 .. Len(queue) :
          queue[m] = Main /\ \A i \in 1 .. Len(queue) : queue[i] = Main => i = m
  BY DEF OrderInv, MainOnce
<1>2. queue \in Seq(Threads) /\ cur' = Head(queue) /\ queue' = Tail(queue)
  BY DEF OrderInv, Halt
<1> QED BY <1>1, <1>2, OrderPop

\* What a thread does that serves a request starts no other.
LEMMA OrderServe ==
    ASSUME BufInv, OrderInv, NEW w \in Workers, serve_thread(w)
    PROVE  OrderInv' /\ NoNewStart /\ th'[w].pc # "start"
<1>0. ThreadsOK /\ w \in Threads /\ w # Main /\ \A v \in Workers : v \in Threads
  BY Names DEF BufInv
<1>1. PICK q \in Follows(th[w].pc) : Moved(w, q)
  BY <1>0, ServeStep
<1>2. q # "start" /\ cur = w
  BY <1>0, ServeStep DEF Follows
<1>3. NoNewStart /\ th'[w].pc # "start"
  BY <1>0, <1>1, <1>2 DEF Moved, NoNewStart, OrderInv, StartsSoon
<1>4. CASE th'[w].pc # "none"
  <2>1. UNCHANGED <<cur, queue>>
    BY <1>0, <1>4, ServeStep
  <2> QED BY <1>3, <2>1, OrderKept
<1>5. CASE th'[w].pc = "none"
  <2>1. Halt /\ HasStarted
    BY <1>0, <1>2, <1>3, <1>5, ServeStep DEF HasStarted
  <2> QED BY <1>0, <1>2, <1>3, <2>1, OrderHalt
<1> QED BY <1>4, <1>5

LEMMA OrderQuiet ==
    ASSUME BufInv, OrderInv, SemBlock \/ WaitLeave \/ WaitAgain
    PROVE  OrderInv' /\ NoNewStart
<1>0. ThreadsOK /\ \A w \in Workers : w \in Threads
  BY Names DEF BufInv
<1>1. CASE SemBlock
  <2>1. /\ AtSem /\ Yield(queue)
        /\ th' = [th EXCEPT ![cur] = [pc |-> th[cur].pc, wait |-> SemOf(cur), val |-> <<0, 1>>,
                                      wakeup |-> FALSE]]
    BY <1>1 DEF SemBlock
  <2>2. th[cur].pc # "start"
    BY <2>1 DEF AtSem, SemOf
  <2>3. \A w \in Workers : th'[w].pc = th[w].pc /\ (w # cur => th'[w] = th[w])
    BY <1>0, <2>1 DEF ThreadsOK
  <2>4. NoNewStart /\ HasStarted
    BY <2>2, <2>3 DEF NoNewStart, HasStarted, OrderInv, StartsSoon
  <2> QED BY <2>1, <2>4, OrderYield
<1>2. CASE WaitLeave
  <2>1. th' = [th EXCEPT ![cur] = At(th[cur].pc)] /\ UNCHANGED <<cur, queue>>
    BY <1>2 DEF WaitLeave
  <2>2. \A w \in Workers : th'[w] = th[w] \/ (th'[w].pc = th[w].pc /\ th'[w].wait = None)
    BY <1>0, <2>1 DEF ThreadsOK, At
  <2>3. NoNewStart
    BY <2>2 DEF NoNewStart, OrderInv, StartsSoon
  <2> QED BY <2>1, <2>3, OrderKept
<1>3. CASE WaitAgain
  <2>1. th' = th /\ th[cur].wait # None /\ Yield(queue)
    BY <1>3 DEF WaitAgain
  <2>2. NoNewStart /\ HasStarted
    BY <2>1 DEF NoNewStart, HasStarted, OrderInv, StartsSoon
  <2> QED BY <2>1, <2>2, OrderYield
<1> QED BY <1>1, <1>2, <1>3

\* The main loop goes on, but for MainServe.
LEMMA OrderMain ==
    ASSUME BufInv, OrderInv,
           MainFlush \/ MainRecv \/ MainPanic \/ StayPanicked \/ MainTimer \/ MainTimerReply
    PROVE  OrderInv' /\ NoNewStart
<1>0. ThreadsOK /\ Main \notin Workers /\ \A w \in Workers : w \in Threads
  BY Names DEF BufInv
<1>1. ASSUME NEW q, Goes(Main, q) PROVE NoNewStart
  <2>1. \A t \in Threads : th'[t] = IF t = Main THEN At(q) ELSE th[t]
    BY <1>0, <1>1, GoTh
  <2>2. \A w \in Workers : th'[w] = th[w]
    BY <1>0, <2>1
  <2> QED BY <2>2 DEF NoNewStart, OrderInv, StartsSoon
<1>2. CASE MainFlush
  <2>1. th' = th /\ cur = Main /\ Yield(queue)
    BY <1>2 DEF MainFlush
  <2>2. NoNewStart /\ HasStarted
    BY <1>0, <2>1 DEF NoNewStart, HasStarted, OrderInv, StartsSoon
  <2> QED BY <2>1, <2>2, OrderYield
<1>3. CASE MainRecv
  <2>1. Goes(Main, "recv") /\ UNCHANGED <<cur, queue>>
    BY <1>3 DEF MainRecv, Goes
  <2> QED BY <1>1, <2>1, OrderKept
<1>4. CASE MainPanic
  <2>1. Goes(Main, "panic") /\ UNCHANGED <<cur, queue>>
    BY <1>4 DEF MainPanic, Goes
  <2> QED BY <1>1, <2>1, OrderKept
<1>5. CASE StayPanicked
  <2>1. th' = th /\ UNCHANGED <<cur, queue>>
    BY <1>5 DEF StayPanicked, vars, threadVars
  <2>2. NoNewStart
    BY <2>1 DEF NoNewStart, OrderInv, StartsSoon
  <2> QED BY <2>1, <2>2, OrderKept
<1>6. CASE MainTimer
  <2>1. Goes(Main, "timer") /\ cur = Main /\ Yield(queue)
    BY <1>6 DEF MainTimer, Goes
  <2>2. NoNewStart /\ HasStarted
    BY <1>0, <1>1, <2>1 DEF HasStarted
  <2> QED BY <2>1, <2>2, OrderYield
<1>7. CASE MainTimerReply
  <2>1. Goes(Main, "loop") /\ UNCHANGED <<cur, queue>>
    BY <1>7 DEF MainTimerReply, Goes
  <2> QED BY <1>1, <2>1, OrderKept
<1> QED BY <1>2, <1>3, <1>4, <1>5, <1>6, <1>7

\* The new thread is put in front of the main loop, which yields.
LEMMA OrderCreate ==
    ASSUME BufInv, OrderInv, MainServe
    PROVE  /\ OrderInv'
           /\ \A w \in Workers : th'[w].pc = "start" => w = mva
<1> DEFINE s == Append(Append(queue, mva), Main)
           m == Len(queue) + 2
<1>0. /\ ThreadsOK /\ mva \in Workers /\ mva \in Threads /\ Main \in Threads /\ mva # Main
      /\ cur = Main
      /\ \A w \in Workers : w \in Threads /\ w # Main
  BY Names DEF BufInv, MainServe
<1>1. th' = [th EXCEPT ![mva] = At("start"), ![Main] = At("loop")]
  BY DEF MainServe
<1>2. th'[mva] = At("start") /\ \A w \in Workers : w # mva => th'[w] = th[w]
  BY <1>0, <1>1 DEF ThreadsOK
<1>3. \A w \in Workers : th'[w].pc = "start" => w = mva
  BY <1>0, <1>2, MainLast
<1>4. cur' = Head(s) /\ queue' = Tail(s)
  BY <1>0 DEF MainServe, Yield
<1>5. /\ s \in Seq(Threads) /\ Len(s) = m /\ s[m] = Main /\ s[m - 1] = mva
      /\ m \in 1 .. Len(s) /\ m - 1 \in 1 .. Len(s) /\ m - 1 < m
      /\ \A i \in 1 .. Len(queue) : s[i] = queue[i]
      /\ \A i \in 1 .. Len(s) : i \in 1 .. Len(queue) \/ i = m - 1 \/ i = m
  <2> DEFINE q == Append(queue, mva)
  <2>1. queue \in Seq(Threads) /\ Len(queue) \in Nat
    BY DEF OrderInv
  <2>2. /\ q \in Seq(Threads) /\ Len(q) = Len(queue) + 1 /\ q[Len(queue) + 1] = mva
        /\ \A i \in 1 .. Len(queue) : q[i] = queue[i]
    BY <1>0, <2>1
  <2>3. s = Append(q, Main)
    OBVIOUS
  <2> HIDE DEF q, s
  <2>4. /\ s \in Seq(Threads) /\ Len(s) = Len(q) + 1 /\ s[Len(q) + 1] = Main
        /\ \A i \in 1 .. Len(q) : s[i] = q[i]
    BY <1>0, <2>2, <2>3
  <2> QED BY <2>1, <2>2, <2>4
<1>6. \A i \in 1 .. Len(queue) : queue[i] # Main
  BY <1>0 DEF OrderInv, MainOnce
<1> HIDE DEF s, m
<1>7. \A i \in 1 .. Len(s) : s[i] = Main => i = m
  BY <1>0, <1>5, <1>6
<1>8. /\ cur' \in Threads /\ queue' \in Seq(Threads) /\ MainOnce'
      /\ \A w \in Workers : \A i \in 1 .. Len(s) :
             i < m /\ s[i] = w => cur' = w \/ Before(w)'
  BY <1>4, <1>5, <1>7, PopOrder
<1>9. \A w \in Workers : w = mva => cur' = w \/ Before(w)'
  <2> DEFINE k == m - 1
  <2>1. k \in 1 .. Len(s) /\ k < m /\ s[k] = mva
    BY <1>5
  <2> HIDE DEF k
  <2> QED BY <1>0, <1>8, <2>1
<1>10. StartsSoon'
  <2>1. th'[mva].wait = None
    BY <1>2, AtFields
  <2> QED BY <1>3, <1>9, <2>1 DEF StartsSoon
<1> QED BY <1>3, <1>8, <1>10 DEF OrderInv

\* The tcpip thread goes on, or somebody sends to the server.
LEMMA OrderOther ==
    ASSUME BufInv, OrderInv,
           \/ tcpip_thread
           \/ \E kind, who, n : Receive(kind, who, n)
    PROVE  OrderInv' /\ NoNewStart
<1>0. ThreadsOK /\ Main \notin Workers /\ Tcpip \notin Workers /\ \A w \in Workers : w \in Threads
  BY Names DEF BufInv
<1>1. CASE tcpip_thread
  <2>1. PICK q : Moved(Tcpip, q)
    BY <1>0, <1>1, TcpipStep
  <2>2. cur = Tcpip /\ UNCHANGED <<cur, queue>>
    BY <1>0, <1>1, TcpipStep
  <2>3. NoNewStart
    BY <1>0, <2>1 DEF Moved, NoNewStart, OrderInv, StartsSoon
  <2> QED BY <2>2, <2>3, OrderKept
<1>2. CASE \E kind, who, n : Receive(kind, who, n)
  <2>1. Goes(Main, "got") /\ UNCHANGED <<cur, queue>>
    BY <1>2 DEF Receive, Goes
  <2>2. \A t \in Threads : th'[t] = IF t = Main THEN At("got") ELSE th[t]
    BY <1>0, <2>1, GoTh
  <2>3. \A w \in Workers : th'[w] = th[w]
    BY <1>0, <2>2
  <2>4. NoNewStart
    BY <2>3 DEF NoNewStart, OrderInv, StartsSoon
  <2> QED BY <2>1, <2>4, OrderKept
<1> QED BY <1>1, <1>2

-----------------------------------------------------------------------------
(* Packets: the page of the input helper is not written while one that was *)
(* sent has not been copied.                                               *)

\* The thread of w has not copied its packet.
Uncopied(w) == th[w].pc = "start" /\ req[w].kind = "input"

DataInv ==
    /\ req = [w \in Workers |-> req[w]]
    /\ th[Main].pc # "got" => ipc.kind # "input"
    /\ inp \in {"copy", "send"} => ipc.kind # "input" /\ \A w \in Workers : ~Uncopied(w)
    /\ inp = "send" => nsipcbuf = pkts
    /\ \A w \in Workers : Uncopied(w) => nsipcbuf = req[w].n
    /\ ipc.kind = "input" => nsipcbuf = ipc.n

PktInv == BufInv /\ OrderInv /\ DataInv

\* A request is dropped or changed only when its thread has started.
LEMMA DataKept ==
    ASSUME DataInv, NoNewStart,
           th[Main].pc = "got" => th'[Main].pc = "got",
           req' = [w \in Workers |-> req'[w]],
           \A w \in Workers : th'[w].pc = "start" => req'[w] = req[w],
           UNCHANGED <<ipc, inp, pkts, nsipcbuf>>
    PROVE  DataInv'
BY DEF DataInv, NoNewStart, Uncopied

\* The same, when no request changes.
LEMMA DataSame ==
    ASSUME DataInv, NoNewStart, th[Main].pc = "got" => th'[Main].pc = "got",
           UNCHANGED <<req, ipc, inp, pkts, nsipcbuf>>
    PROVE  DataInv'
<1>1. req' = [w \in Workers |-> req'[w]]
  BY DEF DataInv
<1> QED BY <1>1, DataKept

LEMMA DataServe ==
    ASSUME PktInv, NEW w \in Workers, serve_thread(w)
    PROVE  DataInv'
<1>1. NoNewStart /\ th'[w].pc # "start"
  BY OrderServe DEF PktInv
<1>2. ThreadsOK /\ w # Main /\ w \in Threads
  BY Names DEF PktInv, BufInv
<1>3. th'[Main].pc = th[Main].pc
  BY <1>2, ServeStep, Names DEF Moved
<1>4. /\ req' = [v \in Workers |-> req'[v]]
      /\ \A v \in Workers : v # w => req'[v] = req[v]
      /\ UNCHANGED <<ipc, inp, pkts, nsipcbuf>>
  <2>1. req = [v \in Workers |-> req[v]]
    BY DEF PktInv, DataInv
  <2>2. /\ req' = req \/ \E r : req' = [req EXCEPT ![w] = r]
        /\ UNCHANGED <<ipc, inp, pkts, nsipcbuf>>
    BY <1>2, ServeStep
  <2> QED BY <2>1, <2>2
<1> QED BY <1>1, <1>3, <1>4, DataKept DEF PktInv

\* The request goes to its thread.
LEMMA DataCreate ==
    ASSUME PktInv, MainServe
    PROVE  DataInv'
<1>1. \A w \in Workers : th'[w].pc = "start" => w = mva
  BY OrderCreate DEF PktInv
<1>2. /\ req' = [req EXCEPT ![mva] = ipc] /\ ipc' = NoMsg
      /\ UNCHANGED <<inp, pkts, nsipcbuf>>
  BY DEF MainServe, envVars
<1>3. mva \in Workers
  BY DEF PktInv, BufInv
<1>4. /\ req' = [v \in Workers |-> req'[v]]
      /\ req'[mva] = ipc
  BY <1>2, <1>3 DEF PktInv, DataInv
<1>5. ipc'.kind = "none"
  BY <1>2 DEF NoMsg
<1>6. \A w \in Workers : Uncopied(w)' => ipc.kind = "input" /\ req'[w].n = ipc.n
  BY <1>1, <1>4 DEF Uncopied
<1> QED BY <1>2, <1>4, <1>5, <1>6 DEF PktInv, DataInv

\* A message arrives: when it is a packet, its page has just been written.
LEMMA DataReceive ==
    ASSUME PktInv, NEW kind, NEW who, NEW n, Receive(kind, who, n),
           \/ kind # "input" /\ UNCHANGED <<inp, pkts, nsipcbuf>>
           \/ inp = "send" /\ inp' = "poll" /\ n = pkts /\ UNCHANGED <<pkts, nsipcbuf>>
    PROVE  DataInv'
<1>1. /\ ipc' = [kind |-> kind, who |-> who, n |-> n]
      /\ req' = req /\ th[Main].pc = "recv" /\ Goes(Main, "got") /\ cur = Main
  BY DEF Receive, Receives, Goes
<1>2. NoNewStart
  BY OrderOther DEF PktInv
<1>3. th'[Main].pc = "got"
  BY <1>1, GoTh, Names DEF PktInv, BufInv
<1>4. \A w \in Workers : ~Uncopied(w) /\ ~Uncopied(w)'
  BY <1>1, <1>2, MainLast DEF Uncopied, NoNewStart, PktInv
<1>5. ipc'.kind = kind /\ ipc'.n = n
  BY <1>1
<1> QED BY <1>1, <1>3, <1>4, <1>5 DEF PktInv, DataInv

\* The input helper gets a packet, sees the server receive, and writes the page.
LEMMA DataInput ==
    ASSUME PktInv, InputRecv \/ InputSee \/ InputCopy
    PROVE  DataInv'
<1>1. th' = th /\ req' = req /\ ipc' = ipc
  BY DEF InputRecv, InputSee, InputCopy, threadVars, mainVars
<1>2. \A w \in Workers : Uncopied(w)' <=> Uncopied(w)
  BY <1>1 DEF Uncopied
<1>3. CASE InputRecv
  BY <1>1, <1>2, <1>3 DEF InputRecv, PktInv, DataInv
<1>4. CASE InputSee
  <2>1. cur = Main /\ th[Main].pc = "recv"
    BY <1>4 DEF InputSee, Receives
  <2>2. \A w \in Workers : ~Uncopied(w)
    BY <2>1, MainLast DEF Uncopied, PktInv
  <2> QED BY <1>1, <1>2, <1>4, <2>1, <2>2 DEF InputSee, PktInv, DataInv
<1>5. CASE InputCopy
  BY <1>1, <1>2, <1>5 DEF InputCopy, PktInv, DataInv
<1> QED BY <1>3, <1>4, <1>5

LEMMA PktNext ==
    ASSUME PktInv, [Next]_vars
    PROVE  PktInv'
<1>0. BufInv'
  BY BufNext DEF PktInv
<1>a. ThreadsOK /\ Main \in Threads
  BY Names DEF PktInv, BufInv
<1>1. CASE SemBlock \/ WaitLeave \/ WaitAgain
  <2>1. Quiet /\ NoNewStart /\ OrderInv'
    BY <1>1, <1>a, QuietSteps, OrderQuiet DEF PktInv
  <2>2. DataInv'
    BY <1>a, <2>1, DataSame DEF Quiet, PktInv, mainVars, envVars
  <2> QED BY <1>0, <2>1, <2>2 DEF PktInv
<1>2. CASE MainFlush \/ MainRecv \/ MainPanic \/ StayPanicked
  <2>1. NoNewStart /\ OrderInv'
    BY <1>2, OrderMain DEF PktInv
  <2>2. th'[Main].pc = "got" \/ th[Main].pc # "got"
    <3>1. CASE MainFlush \/ StayPanicked
      BY <3>1 DEF MainFlush, StayPanicked, vars, threadVars
    <3>2. CASE MainRecv \/ MainPanic
      BY <3>2 DEF MainRecv, MainPanic, Flushed
    <3> QED BY <1>2, <3>1, <3>2
  <2>3. UNCHANGED <<req, ipc, inp, pkts, nsipcbuf>>
    BY <1>2 DEF MainFlush, MainRecv, MainPanic, StayPanicked, vars, mainVars, envVars
  <2> QED BY <1>0, <2>1, <2>2, <2>3, DataSame DEF PktInv
<1>3. CASE MainTimer \/ MainTimerReply
  <2>1. NoNewStart /\ OrderInv'
    BY <1>3, OrderMain DEF PktInv
  <2>2. CASE MainTimer
    <3>1. ipc' = NoMsg /\ UNCHANGED <<req, inp, pkts, nsipcbuf>>
      BY <2>2 DEF MainTimer, envVars
    <3>2. ipc'.kind = "none"
      BY <3>1 DEF NoMsg
    <3>3. \A w \in Workers : Uncopied(w)' => Uncopied(w)
      BY <2>1, <3>1 DEF Uncopied, NoNewStart
    <3>4. DataInv'
      BY <3>1, <3>2, <3>3 DEF PktInv, DataInv
    <3> QED BY <1>0, <2>1, <3>4 DEF PktInv
  <2>3. CASE MainTimerReply
    <3>1. th[Main].pc # "got" /\ UNCHANGED <<req, ipc, inp, pkts, nsipcbuf>>
      BY <2>3 DEF MainTimerReply
    <3> QED BY <1>0, <2>1, <3>1, DataSame DEF PktInv
  <2> QED BY <1>3, <2>2, <2>3
<1>4. CASE MainServe
  BY <1>0, <1>4, OrderCreate, DataCreate DEF PktInv
<1>5. CASE \E w \in Workers : serve_thread(w)
  BY <1>0, <1>5, OrderServe, DataServe DEF PktInv
<1>6. CASE tcpip_thread
  <2>1. NoNewStart /\ OrderInv'
    BY <1>6, OrderOther DEF PktInv
  <2>2. UNCHANGED <<req, ipc, inp, pkts, nsipcbuf>>
    BY <1>6, <1>a, TcpipStep DEF mainVars
  <2>3. th'[Main].pc = th[Main].pc
    BY <1>6, <1>a, TcpipStep, Names DEF Moved
  <2> QED BY <1>0, <2>1, <2>2, <2>3, DataSame DEF PktInv
<1>7. CASE \/ \E c \in Clients : ClientSend(c)
           \/ InputSend \/ TimerSend
  <2>1. PICK kind, who, n :
            /\ Receive(kind, who, n)
            /\ \/ kind # "input" /\ UNCHANGED <<inp, pkts, nsipcbuf>>
               \/ inp = "send" /\ inp' = "poll" /\ n = pkts /\ UNCHANGED <<pkts, nsipcbuf>>
    <3>1. CASE \E c \in Clients : ClientSend(c)
      <4>1. PICK c \in Clients, kind \in {"recv", "call"} :
                Receive(kind, c, 0) /\ UNCHANGED <<inp, pkts, nsipcbuf>>
        BY <3>1 DEF ClientSend
      <4>2. kind # "input"
        OBVIOUS
      <4> QED BY <4>1, <4>2
    <3>2. CASE InputSend
      BY <3>2 DEF InputSend
    <3>3. CASE TimerSend
      <4>1. Receive("timer", Stack, 0) /\ UNCHANGED <<inp, pkts, nsipcbuf>>
        BY <3>3 DEF TimerSend
      <4> QED BY <4>1
    <3> QED BY <1>7, <3>1, <3>2, <3>3
  <2>2. OrderInv'
    BY <2>1, OrderOther DEF PktInv
  <2>3. DataInv'
    BY <2>1, DataReceive
  <2> QED BY <1>0, <2>2, <2>3 DEF PktInv
<1>8. CASE InputRecv \/ InputSee \/ InputCopy
  <2>1. UNCHANGED <<cur, queue, th>>
    BY <1>8 DEF InputRecv, InputSee, InputCopy, threadVars
  <2>2. OrderInv'
    <3>1. NoNewStart
      BY <2>1 DEF NoNewStart, PktInv, OrderInv, StartsSoon
    <3> QED BY <2>1, <3>1, OrderKept DEF PktInv
  <2> QED BY <1>0, <1>8, <2>2, DataInput DEF PktInv
<1>9. CASE (\E c \in Clients : ClientRecv(c)) \/ TimerRecv \/ OutputDone \/ UNCHANGED vars
  <2>1. UNCHANGED <<cur, queue, th, req, ipc, inp, pkts, nsipcbuf>>
    BY <1>9 DEF ClientRecv, TimerRecv, OutputDone, vars, threadVars, mainVars, envVars
  <2>2. NoNewStart
    BY <2>1 DEF NoNewStart, PktInv, OrderInv, StartsSoon
  <2> QED BY <1>0, <2>1, <2>2, OrderKept, DataSame DEF PktInv
<1> QED BY <1>1, <1>2, <1>3, <1>4, <1>5, <1>6, <1>7, <1>8, <1>9 DEF Next, NS, Timer, Input

LEMMA PktInit == Init => PktInv
<1> SUFFICES ASSUME Init PROVE PktInv
  OBVIOUS
<1>1. BufInv /\ th[Main].pc = "loop" /\ \A w \in Workers : th[w].pc = "none"
  <2>1. BufInv
    BY BufInit
  <2>2. \A t \in Threads : th[t] = CASE t = Main  -> At("loop")
                                     [] t = Tcpip -> [pc |-> "fetch", wait |-> Queued(Stack),
                                                      val |-> <<0, 1>>, wakeup |-> FALSE]
                                     [] OTHER     -> At("none")
    BY DEF Init
  <2> QED BY <2>1, <2>2, Names, AtFields
<1>2. OrderInv
  <2>1. cur = Main /\ queue = <<Tcpip>>
    BY DEF Init
  <2>2. cur \in Threads /\ queue \in Seq(Threads)
    BY <2>1, Names
  <2>3. \A i \in 1 .. Len(queue) : queue[i] # Main
    BY <2>1, Names
  <2>4. MainOnce
    BY <2>1, <2>3 DEF MainOnce
  <2>5. StartsSoon
    BY <1>1 DEF StartsSoon
  <2> QED BY <2>2, <2>4, <2>5 DEF OrderInv
<1>3. DataInv
  <2>1. ipc.kind = "none" /\ inp = "poll" /\ req = [w \in Workers |-> NoMsg]
    BY DEF Init, NoMsg
  <2> QED BY <1>1, <2>1 DEF DataInv, Uncopied
<1> QED BY <1>1, <1>2, <1>3 DEF PktInv

\* The page of the input helper holds the packet that was sent as long as the
\* server has not copied it (input(), serve(), jif_input()).
THEOREM PacketStaysIntact == Spec => []PacketIntact
<1>1. Init => PktInv
  BY PktInit
<1>2. PktInv /\ [Next]_vars => PktInv'
  BY PktNext
<1>3. PktInv => PacketIntact
  BY DEF PktInv, DataInv, Uncopied, PacketIntact
<1> QED BY <1>1, <1>2, <1>3, PTL DEF Spec

-----------------------------------------------------------------------------
(* Mailboxes: a ring and its two semaphores.                               *)

LEMMA ModBelow == ASSUME NEW n \in Nat \ {0}, NEW x \in Nat, x < n PROVE x % n = x
BY SMT

LEMMA ModBeyond ==
    ASSUME NEW n \in Nat \ {0}, NEW x \in Nat, n <= x, x < 2 * n
    PROVE  x % n = x - n
BY SMT

LEMMA SlotNext ==
    ASSUME NEW i \in 0 .. MBOXSLOTS - 1
    PROVE  NextSlot(i) = IF i = MBOXSLOTS - 1 THEN 0 ELSE i + 1
<1>0. MBOXSLOTS \in Nat \ {0}
  BY NetServerAssumption
<1>1. CASE i = MBOXSLOTS - 1
  <2>1. MBOXSLOTS % MBOXSLOTS = MBOXSLOTS - MBOXSLOTS BY <1>0, ModBeyond
  <2> QED BY <1>0, <1>1, <2>1 DEF NextSlot
<1>2. CASE i # MBOXSLOTS - 1
  <2>1. PICK x \in Nat : x = i + 1 OBVIOUS
  <2>2. x % MBOXSLOTS = x BY <1>0, <1>2, <2>1, ModBelow
  <2> QED BY <1>2, <2>1, <2>2 DEF NextSlot
<1> QED BY <1>1, <1>2

\* The number of messages of a ring that is not empty, without the modulo.
LEMMA CountIs ==
    ASSUME NEW m \in Boxes, box[m].nextq \in 0 .. MBOXSLOTS - 1,
           box[m].head \in 0 .. MBOXSLOTS - 1
    PROVE  Count(m) = IF box[m].head < box[m].nextq THEN box[m].nextq - box[m].head
                      ELSE box[m].nextq - box[m].head + MBOXSLOTS
<1>0. MBOXSLOTS \in Nat \ {0}
  BY NetServerAssumption
<1>1. PICK h \in 0 .. MBOXSLOTS - 1 : h = box[m].head
  OBVIOUS
<1>2. PICK q \in 0 .. MBOXSLOTS - 1 : q = box[m].nextq
  OBVIOUS
<1>3. PICK x \in Nat : x = q - h - 1 + MBOXSLOTS
  BY <1>0
<1>4. h # -1
  OBVIOUS
<1>5. Count(m) = 1 + (x % MBOXSLOTS)
  BY <1>1, <1>2, <1>3, <1>4 DEF Count
<1>6. CASE h < q
  <2>0. MBOXSLOTS <= x /\ x < 2 * MBOXSLOTS BY <1>0, <1>3, <1>6
  <2>1. x % MBOXSLOTS = x - MBOXSLOTS BY <1>0, <2>0, ModBeyond
  <2> QED BY <1>0, <1>1, <1>2, <1>3, <1>5, <1>6, <2>1
<1>7. CASE ~(h < q)
  <2>0. x < MBOXSLOTS BY <1>0, <1>3, <1>7
  <2>1. x % MBOXSLOTS = x BY <1>0, <2>0, ModBelow
  <2> QED BY <1>0, <1>1, <1>2, <1>3, <1>5, <1>7, <2>1
<1> QED BY <1>6, <1>7

BoxOK(m) ==
    /\ box[m] = [head |-> box[m].head, nextq |-> box[m].nextq, msg |-> box[m].msg]
    /\ box[m].head \in -1 .. MBOXSLOTS - 1
    /\ box[m].nextq \in 0 .. MBOXSLOTS - 1

BoxesOK == box = [m \in Boxes |-> box[m]] /\ \A m \in Boxes : BoxOK(m)

SemsOK ==
    /\ sem = [s \in Sems |-> sem[s]]
    /\ \A s \in Sems : /\ sem[s] = [counter |-> sem[s].counter, waiters |-> sem[s].waiters]
                       /\ sem[s].counter \in Nat /\ sem[s].waiters \in {0, 1}

\* What names a mailbox in a request.
WhoOK ==
    /\ req = [w \in Workers |-> req[w]]
    /\ \A w \in Workers : req[w].who \in Boxes
    /\ ipc.who \in Boxes

SyncInv == BoxesOK /\ SemsOK /\ WhoOK /\ MboxExact

LEMMA SemNames ==
    /\ Stack \in Boxes /\ Clients \subseteq Boxes
    /\ \A m \in Boxes : Queued(m) \in Sems /\ Freed(m) \in Sems
    /\ \A m, k \in Boxes : /\ Queued(m) # Freed(k)
                           /\ Queued(m) = Queued(k) => m = k
                           /\ Freed(m) = Freed(k) => m = k
    /\ \A c : \A m \in Boxes : Done(c) # Queued(m) /\ Done(c) # Freed(m)
BY DEF Boxes, Sems, Queued, Freed, Done

LEMMA CountRange ==
    ASSUME BoxesOK, NEW m \in Boxes
    PROVE  Count(m) \in 0 .. MBOXSLOTS /\ (Count(m) = 0 <=> box[m].head = -1)
<1>0. MBOXSLOTS \in Nat \ {0}
  BY NetServerAssumption
<1>1. CASE box[m].head = -1
  BY <1>0, <1>1 DEF Count
<1>2. CASE box[m].head # -1
  <2>1. box[m].head \in 0 .. MBOXSLOTS - 1 /\ box[m].nextq \in 0 .. MBOXSLOTS - 1
    BY <1>2 DEF BoxesOK, BoxOK
  <2> QED BY <1>0, <2>1, CountIs
<1> QED BY <1>1, <1>2

\* A message is put into a ring that is not full.
LEMMA BoxPut ==
    ASSUME BoxesOK, NEW m \in Boxes, NEW msg, Put(m, msg), Count(m) < MBOXSLOTS
    PROVE  /\ BoxesOK'
           /\ Count(m)' = Count(m) + 1
           /\ \A k \in Boxes : k # m => Count(k)' = Count(k)
<1>0. MBOXSLOTS \in Nat \ {0}
  BY NetServerAssumption
<1>1. PICK h \in -1 .. MBOXSLOTS - 1 : h = box[m].head
  BY DEF BoxesOK, BoxOK
<1>2. PICK q \in 0 .. MBOXSLOTS - 1 : q = box[m].nextq
  BY DEF BoxesOK, BoxOK
<1>3. PICK ms : ms = [box[m].msg EXCEPT ![box[m].nextq] = msg]
  OBVIOUS
<1>4. PICK n \in 0 .. MBOXSLOTS - 1 : n = NextSlot(q) /\ n = IF q = MBOXSLOTS - 1 THEN 0 ELSE q + 1
  BY <1>0, SlotNext
<1>5. PICK g \in 0 .. MBOXSLOTS - 1 : g = IF h = -1 THEN q ELSE h
  BY <1>0
<1>6. box' = [box EXCEPT ![m] = [head |-> g, nextq |-> n, msg |-> ms]]
  BY <1>1, <1>2, <1>3, <1>4, <1>5 DEF Put
<1>7. /\ box'[m] = [head |-> g, nextq |-> n, msg |-> ms]
      /\ \A k \in Boxes : k # m => box'[k] = box[k]
      /\ box' = [k \in Boxes |-> box'[k]]
  BY <1>6 DEF BoxesOK
<1>8. box'[m].head = g /\ box'[m].nextq = n /\ box'[m].msg = ms
  BY <1>7
<1>9. BoxesOK'
  <2>1. BoxOK(m)'
    BY <1>7, <1>8 DEF BoxOK
  <2>2. \A k \in Boxes : k # m => BoxOK(k)'
    BY <1>7 DEF BoxOK, BoxesOK
  <2> QED BY <1>7, <2>1, <2>2 DEF BoxesOK
<1>10. \A k \in Boxes : k # m => Count(k)' = Count(k)
  BY <1>7 DEF Count
<1>11. Count(m)' = IF g < n THEN n - g ELSE n - g + MBOXSLOTS
  <2> DEFINE C == IF box'[m].head = -1 THEN 0
                  ELSE 1 + ((box'[m].nextq - box'[m].head - 1 + MBOXSLOTS) % MBOXSLOTS)
  <2>1. Count(m)' = C
    BY DEF Count
  <2>2. C = 1 + ((n - g - 1 + MBOXSLOTS) % MBOXSLOTS)
    BY <1>8
  <2>3. PICK x \in Nat : x = n - g - 1 + MBOXSLOTS
    BY <1>0
  <2>4. CASE g < n
    <3>0. MBOXSLOTS <= x /\ x < 2 * MBOXSLOTS BY <1>0, <2>3, <2>4
    <3>1. x % MBOXSLOTS = x - MBOXSLOTS BY <1>0, <3>0, ModBeyond
    <3> QED BY <1>0, <2>1, <2>2, <2>3, <2>4, <3>1
  <2>5. CASE ~(g < n)
    <3>0. x < MBOXSLOTS BY <1>0, <2>3, <2>5
    <3>1. x % MBOXSLOTS = x BY <1>0, <3>0, ModBelow
    <3> QED BY <1>0, <2>1, <2>2, <2>3, <2>5, <3>1
  <2> QED BY <2>4, <2>5
<1>12. CASE h = -1
  <2>1. Count(m) = 0
    BY <1>1, <1>12 DEF Count
  <2> QED BY <1>0, <1>4, <1>5, <1>9, <1>10, <1>11, <1>12, <2>1
<1>13. CASE h # -1
  <2>1. Count(m) = IF h < q THEN q - h ELSE q - h + MBOXSLOTS
    BY <1>1, <1>2, <1>13, CountIs
  <2> QED BY <1>0, <1>4, <1>5, <1>9, <1>10, <1>11, <1>13, <2>1
<1> QED BY <1>12, <1>13

\* The oldest message is taken out of a ring that is not empty.
LEMMA BoxTake ==
    ASSUME BoxesOK, NEW m \in Boxes, Take(m), Count(m) > 0
    PROVE  /\ BoxesOK'
           /\ Count(m)' = Count(m) - 1
           /\ \A k \in Boxes : k # m => Count(k)' = Count(k)
<1>0. MBOXSLOTS \in Nat \ {0}
  BY NetServerAssumption
<1>1. PICK h \in 0 .. MBOXSLOTS - 1 : h = box[m].head
  BY <1>0, CountRange DEF BoxesOK, BoxOK
<1>2. PICK q \in 0 .. MBOXSLOTS - 1 : q = box[m].nextq
  BY DEF BoxesOK, BoxOK
<1>3. PICK ms : ms = [box[m].msg EXCEPT ![box[m].head] = None]
  OBVIOUS
<1>4. PICK n \in 0 .. MBOXSLOTS - 1 : n = NextSlot(h) /\ n = IF h = MBOXSLOTS - 1 THEN 0 ELSE h + 1
  BY <1>0, SlotNext
<1>5. PICK g \in -1 .. MBOXSLOTS - 1 : g = IF n = q THEN -1 ELSE n
  BY <1>0
<1>6. box' = [box EXCEPT ![m] = [head |-> g, nextq |-> q, msg |-> ms]]
  <2>1. PICK old : old = box[m].msg
    OBVIOUS
  <2>2. box[m] = [head |-> h, nextq |-> q, msg |-> old]
    BY <1>1, <1>2, <2>1 DEF BoxesOK, BoxOK
  <2>3. Taken(box[m]) = [box[m] EXCEPT !.head = g]
    BY <1>1, <1>2, <1>4, <1>5 DEF Taken
  <2>4. Taken(box[m]) = [head |-> g, nextq |-> q, msg |-> old]
    BY <2>2, <2>3
  <2>5. ms = [old EXCEPT ![h] = None]
    BY <1>1, <1>3, <2>1
  <2>6. [Taken(box[m]) EXCEPT !.msg[h] = None] = [head |-> g, nextq |-> q, msg |-> ms]
    BY <2>4, <2>5
  <2>7. box' = [box EXCEPT ![m] = [Taken(box[m]) EXCEPT !.msg[h] = None]]
    BY <1>1 DEF Take
  <2> QED BY <2>6, <2>7
<1>7. /\ box'[m] = [head |-> g, nextq |-> q, msg |-> ms]
      /\ \A k \in Boxes : k # m => box'[k] = box[k]
      /\ box' = [k \in Boxes |-> box'[k]]
  BY <1>6 DEF BoxesOK
<1>8. box'[m].head = g /\ box'[m].nextq = q /\ box'[m].msg = ms
  BY <1>7
<1>9. BoxesOK'
  <2>1. BoxOK(m)'
    BY <1>7, <1>8 DEF BoxOK
  <2>2. \A k \in Boxes : k # m => BoxOK(k)'
    BY <1>7 DEF BoxOK, BoxesOK
  <2> QED BY <1>7, <2>1, <2>2 DEF BoxesOK
<1>10. \A k \in Boxes : k # m => Count(k)' = Count(k)
  BY <1>7 DEF Count
<1>11. Count(m) = IF h < q THEN q - h ELSE q - h + MBOXSLOTS
  BY <1>1, <1>2, CountIs
<1> DEFINE C == IF box'[m].head = -1 THEN 0
                ELSE 1 + ((box'[m].nextq - box'[m].head - 1 + MBOXSLOTS) % MBOXSLOTS)
<1>12. Count(m)' = C
  BY DEF Count
<1>13. CASE n = q
  <2>1. C = 0
    BY <1>5, <1>8, <1>13
  <2>2. Count(m) = 1
    BY <1>0, <1>4, <1>11, <1>13
  <2> QED BY <1>9, <1>10, <1>12, <2>1, <2>2
<1>14. CASE n # q
  <2>1. C = 1 + ((q - n - 1 + MBOXSLOTS) % MBOXSLOTS)
    BY <1>5, <1>8, <1>14
  <2>2. PICK x \in Nat : x = q - n - 1 + MBOXSLOTS
    BY <1>0
  <2>3. CASE n < q
    <3>0. MBOXSLOTS <= x /\ x < 2 * MBOXSLOTS BY <1>0, <2>2, <2>3
    <3>1. x % MBOXSLOTS = x - MBOXSLOTS BY <1>0, <3>0, ModBeyond
    <3> QED BY <1>0, <1>4, <1>9, <1>10, <1>11, <1>12, <2>1, <2>2, <2>3, <3>1
  <2>4. CASE ~(n < q)
    <3>0. x < MBOXSLOTS BY <1>0, <2>2, <2>4
    <3>1. x % MBOXSLOTS = x BY <1>0, <3>0, ModBelow
    <3> QED BY <1>0, <1>4, <1>9, <1>10, <1>11, <1>12, <1>14, <2>1, <2>2, <2>4, <3>1
  <2> QED BY <2>3, <2>4
<1> QED BY <1>13, <1>14

\* The running thread passes s, and signals the semaphores in S.
LEMMA SemsPass ==
    ASSUME SemsOK, NEW pc, NEW S, Passes(pc, S), SemOf(cur) \notin S
    PROVE  /\ SemsOK'
           /\ \A x \in Sems :
                  sem'[x].counter = IF x \in S THEN sem[x].counter + 1
                                    ELSE IF x = SemOf(cur) THEN sem[x].counter - 1
                                    ELSE sem[x].counter
           /\ \A x \in Sems : sem'[x].waiters = IF x \in S THEN 0 ELSE sem[x].waiters
           /\ sem[SemOf(cur)].counter > 0
<1> DEFINE s == SemOf(cur)
           New(x) == CASE x \in S -> [counter |-> sem[x].counter + 1, waiters |-> 0]
                       [] x = s   -> [sem[x] EXCEPT !.counter = @ - 1]
                       [] OTHER   -> sem[x]
<1>1. sem' = [x \in Sems |-> CASE x \in S -> [counter |-> sem[x].counter + 1, waiters |-> 0]
                               [] x = s   -> [sem[x] EXCEPT !.counter = @ - 1]
                               [] OTHER   -> sem[x]]
      /\ sem[s].counter > 0 /\ s \notin S
  BY DEF Passes
<1> HIDE DEF s
<1>2. ASSUME NEW x \in Sems
      PROVE  /\ sem'[x] = [counter |-> sem'[x].counter, waiters |-> sem'[x].waiters]
             /\ sem'[x].counter \in Nat /\ sem'[x].waiters \in {0, 1}
             /\ sem'[x].counter = IF x \in S THEN sem[x].counter + 1
                                  ELSE IF x = s THEN sem[x].counter - 1 ELSE sem[x].counter
             /\ sem'[x].waiters = IF x \in S THEN 0 ELSE sem[x].waiters
  <2>1. sem'[x] = New(x)
    BY <1>1
  <2>2. PICK c \in Nat : c = sem[x].counter
    BY DEF SemsOK
  <2>3. PICK v \in {0, 1} : v = sem[x].waiters
    BY DEF SemsOK
  <2>4. sem[x] = [counter |-> c, waiters |-> v]
    BY <2>2, <2>3 DEF SemsOK
  <2>5. CASE x \in S
    <3>1. PICK d \in Nat : d = sem[x].counter + 1
      BY <2>2
    <3>2. New(x) = [counter |-> d, waiters |-> 0]
      BY <1>1, <2>5, <3>1
    <3> QED BY <2>1, <2>5, <3>1, <3>2
  <2>6. CASE x \notin S /\ x = s
    <3>1. sem'[x] = [counter |-> c - 1, waiters |-> v] /\ c - 1 \in Nat
      BY <1>1, <2>1, <2>2, <2>4, <2>6
    <3> QED BY <2>2, <2>3, <2>6, <3>1
  <2>7. CASE x \notin S /\ x # s
    <3>1. sem'[x] = sem[x]
      BY <2>1, <2>7
    <3> QED BY <2>2, <2>3, <2>4, <2>7, <3>1
  <2> QED BY <2>5, <2>6, <2>7
<1>3. sem' = [x \in Sems |-> sem'[x]]
  BY <1>1
<1> QED BY <1>1, <1>2, <1>3 DEF SemsOK, s

\* A message is posted to m behind the wait for a free slot.
LEMMA SyncPut ==
    ASSUME SyncInv, NEW m \in Boxes, NEW msg, NEW S, NEW pc,
           Passes(pc, S), SemOf(cur) = Freed(m), Put(m, msg),
           Queued(m) \in S,
           \A k \in Boxes : Freed(k) \notin S /\ (Queued(k) \in S => k = m)
    PROVE  BoxesOK' /\ SemsOK' /\ MboxExact'
<1>0. MBOXSLOTS \in Nat /\ BoxesOK /\ SemsOK
  BY NetServerAssumption DEF SyncInv
<1>1. /\ SemsOK' /\ sem[Freed(m)].counter > 0
      /\ \A x \in Sems :
             sem'[x].counter = IF x \in S THEN sem[x].counter + 1
                               ELSE IF x = Freed(m) THEN sem[x].counter - 1
                               ELSE sem[x].counter
  BY <1>0, SemsPass
<1>2. Count(m) < MBOXSLOTS
  BY <1>0, <1>1, CountRange DEF SyncInv, MboxExact
<1>3. BoxesOK' /\ Count(m)' = Count(m) + 1 /\ \A k \in Boxes : k # m => Count(k)' = Count(k)
  BY <1>0, <1>2, BoxPut
<1>4. ASSUME NEW k \in Boxes
      PROVE  sem'[Queued(k)].counter = Count(k)' /\ sem'[Freed(k)].counter = MBOXSLOTS - Count(k)'
  <2>1. sem[Queued(k)].counter = Count(k) /\ sem[Freed(k)].counter = MBOXSLOTS - Count(k)
    BY DEF SyncInv, MboxExact
  <2>2. PICK n \in 0 .. MBOXSLOTS : n = Count(k)
    BY <1>0, CountRange
  <2>3. CASE k = m
    <3>1. sem'[Queued(k)].counter = n + 1 /\ sem'[Freed(k)].counter = MBOXSLOTS - n - 1
      BY <1>1, <2>1, <2>2, <2>3, SemNames
    <3> QED BY <1>0, <1>3, <2>2, <2>3, <3>1
  <2>4. CASE k # m
    <3>1. sem'[Queued(k)].counter = n /\ sem'[Freed(k)].counter = MBOXSLOTS - n
      BY <1>1, <2>1, <2>2, <2>4, SemNames
    <3> QED BY <1>3, <2>2, <2>4, <3>1
  <2> QED BY <2>3, <2>4
<1> QED BY <1>1, <1>3, <1>4 DEF MboxExact

\* A message is fetched from m behind the wait for one.
LEMMA SyncTake ==
    ASSUME SyncInv, NEW m \in Boxes, NEW S, NEW pc,
           Passes(pc, S), SemOf(cur) = Queued(m), Take(m),
           Freed(m) \in S,
           \A k \in Boxes : Queued(k) \notin S /\ (Freed(k) \in S => k = m)
    PROVE  BoxesOK' /\ SemsOK' /\ MboxExact'
<1>0. MBOXSLOTS \in Nat /\ BoxesOK /\ SemsOK
  BY NetServerAssumption DEF SyncInv
<1>1. /\ SemsOK' /\ sem[Queued(m)].counter > 0
      /\ \A x \in Sems :
             sem'[x].counter = IF x \in S THEN sem[x].counter + 1
                               ELSE IF x = Queued(m) THEN sem[x].counter - 1
                               ELSE sem[x].counter
  BY <1>0, SemsPass
<1>2. Count(m) > 0
  BY <1>1 DEF SyncInv, MboxExact
<1>3. BoxesOK' /\ Count(m)' = Count(m) - 1 /\ \A k \in Boxes : k # m => Count(k)' = Count(k)
  BY <1>0, <1>2, BoxTake
<1>4. ASSUME NEW k \in Boxes
      PROVE  sem'[Queued(k)].counter = Count(k)' /\ sem'[Freed(k)].counter = MBOXSLOTS - Count(k)'
  <2>1. sem[Queued(k)].counter = Count(k) /\ sem[Freed(k)].counter = MBOXSLOTS - Count(k)
    BY DEF SyncInv, MboxExact
  <2>2. PICK n \in 0 .. MBOXSLOTS : n = Count(k)
    BY <1>0, CountRange
  <2>3. CASE k = m
    <3>1. sem'[Queued(k)].counter = n - 1 /\ sem'[Freed(k)].counter = MBOXSLOTS - n + 1
      BY <1>1, <2>1, <2>2, <2>3, SemNames
    <3> QED BY <1>0, <1>3, <2>2, <2>3, <3>1
  <2>4. CASE k # m
    <3>1. sem'[Queued(k)].counter = n /\ sem'[Freed(k)].counter = MBOXSLOTS - n
      BY <1>1, <2>1, <2>2, <2>4, SemNames
    <3> QED BY <1>3, <2>2, <2>4, <3>1
  <2> QED BY <2>3, <2>4
<1> QED BY <1>1, <1>3, <1>4 DEF MboxExact

\* Neither a ring nor a counter changes.
LEMMA SyncKept ==
    ASSUME SyncInv, WhoOK', UNCHANGED box, SemsOK',
           \A m \in Boxes : /\ sem'[Queued(m)].counter = sem[Queued(m)].counter
                            /\ sem'[Freed(m)].counter = sem[Freed(m)].counter
    PROVE  SyncInv'
BY DEF SyncInv, BoxesOK, BoxOK, MboxExact, Count

LEMMA SyncSame ==
    ASSUME SyncInv, WhoOK', UNCHANGED <<sem, box>>
    PROVE  SyncInv'
<1>1. SemsOK'
  BY DEF SyncInv, SemsOK
<1> QED BY <1>1, SyncKept

\* A semaphore is signalled that is no mailbox's.
LEMMA SemsSignal ==
    ASSUME SemsOK, NEW s, Signals(s)
    PROVE  /\ SemsOK'
           /\ \A x \in Sems : /\ sem'[x].counter = IF x = s THEN sem[x].counter + 1 ELSE sem[x].counter
                              /\ sem'[x].waiters = IF x = s THEN 0 ELSE sem[x].waiters
<1>1. sem' = [sem EXCEPT ![s] = [counter |-> sem[s].counter + 1, waiters |-> 0]]
  BY DEF Signals
<1>2. ASSUME NEW x \in Sems
      PROVE  /\ sem'[x] = [counter |-> sem'[x].counter, waiters |-> sem'[x].waiters]
             /\ sem'[x].counter \in Nat /\ sem'[x].waiters \in {0, 1}
             /\ sem'[x].counter = IF x = s THEN sem[x].counter + 1 ELSE sem[x].counter
             /\ sem'[x].waiters = IF x = s THEN 0 ELSE sem[x].waiters
  <2>1. CASE x = s
    <3>1. PICK n \in Nat : n = sem[x].counter + 1
      BY DEF SemsOK
    <3>2. sem'[x] = [counter |-> n, waiters |-> 0]
      BY <1>1, <2>1, <3>1 DEF SemsOK
    <3> QED BY <2>1, <3>1, <3>2
  <2>2. CASE x # s
    <3>1. sem'[x] = sem[x]
      BY <1>1, <2>2 DEF SemsOK
    <3> QED BY <2>2, <3>1 DEF SemsOK
  <2> QED BY <2>1, <2>2
<1>3. sem' = [x \in Sems |-> sem'[x]]
  BY <1>1 DEF SemsOK
<1> QED BY <1>2, <1>3 DEF SemsOK

\* A call that was put off is completed.
LEMMA SyncSignal ==
    ASSUME SyncInv, NEW c, Completed(c), WhoOK'
    PROVE  SyncInv'
<1>1. Signals(Done(c)) /\ box' = box
  BY DEF Completed
<1>2. /\ SemsOK'
      /\ \A x \in Sems : x # Done(c) => sem'[x].counter = sem[x].counter
  BY <1>1, SemsSignal DEF SyncInv
<1> QED BY <1>1, <1>2, SemNames, SyncKept

\* The end of err_tcp().
LEMMA SyncErrored ==
    ASSUME SyncInv, NEW m \in Boxes, NEW pc, Errored(m, pc), SemOf(cur) = Freed(m), WhoOK'
    PROVE  SyncInv'
<1> DEFINE S == {Queued(m)} \cup {Done(x) : x \in later \cap {m}}
<1>1. Passes(pc, S) /\ Put(m, "null")
  BY DEF Errored
<1>2. Queued(m) \in S /\ \A k \in Boxes : Freed(k) \notin S /\ (Queued(k) \in S => k = m)
  BY SemNames
<1> HIDE DEF S
<1>3. BoxesOK' /\ SemsOK' /\ MboxExact'
  BY <1>1, <1>2, SyncPut
<1> QED BY <1>3 DEF SyncInv

LEMMA SyncServe ==
    ASSUME SyncInv, NEW w \in Workers, serve_thread(w)
    PROVE  SyncInv'
<1>0. WhoOK /\ req[w].who \in Boxes /\ w # Tcpip /\ Stack \in Boxes
  BY Names, SemNames DEF SyncInv, WhoOK
<1>1. ASSUME UNCHANGED mainVars PROVE WhoOK'
  BY <1>0, <1>1 DEF WhoOK, mainVars
<1>2. CASE ServeCall(w)
  BY <1>1, <1>2, SyncSame DEF ServeCall, syncVars
<1>3. CASE ServeInput(w) \/ ServeReset(w)
  <2>1. UNCHANGED <<sem, box>> /\ ipc' = ipc
    BY <1>3 DEF ServeInput, ServeReset, syncVars
  <2>2. req' = req \/ \E c \in Clients : req' = [req EXCEPT ![w] = [kind |-> "input", who |-> c, n |-> 0]]
    BY <1>3, NetServerAssumption DEF ServeInput, ServeReset
  <2>3. WhoOK'
    <3>1. CASE req' = req
      BY <1>0, <2>1, <3>1 DEF WhoOK
    <3>2. CASE \E c \in Clients : req' = [req EXCEPT ![w] = [kind |-> "input", who |-> c, n |-> 0]]
      BY <1>0, <2>1, <3>2, SemNames DEF WhoOK
    <3> QED BY <2>2, <3>1, <3>2
  <2> QED BY <2>1, <2>3, SyncSame
<1>4. CASE ServeFetch(w)
  <2> DEFINE m == req[w].who
             S == {Freed(m)}
             q == IF m \in Tcp /\ Oldest(m) = "data" THEN "post" ELSE "reply"
  <2>1. cur = w /\ th[w].pc = "fetch" /\ Passes(q, S) /\ Take(m) /\ UNCHANGED mainVars
    BY <1>4 DEF ServeFetch
  <2>2. SemOf(cur) = Queued(m)
    BY <1>0, <2>1 DEF SemOf
  <2>3. Freed(m) \in S /\ \A k \in Boxes : Queued(k) \notin S /\ (Freed(k) \in S => k = m)
    BY <1>0, SemNames
  <2> HIDE DEF S, q
  <2>4. BoxesOK' /\ SemsOK' /\ MboxExact'
    BY <1>0, <2>1, <2>2, <2>3, SyncTake
  <2> QED BY <1>1, <2>1, <2>4 DEF SyncInv
<1>5. CASE ServePost(w)
  <2>1. /\ cur = w /\ th[w].pc = "post" /\ Passes("op", {Queued(Stack)})
        /\ Put(Stack, req[w].who) /\ UNCHANGED mainVars
    BY <1>5 DEF ServePost
  <2>2. SemOf(cur) = Freed(Stack)
    BY <2>1 DEF SemOf
  <2> DEFINE S == {Queued(Stack)}
  <2>3. Queued(Stack) \in S /\ \A k \in Boxes : Freed(k) \notin S /\ (Queued(k) \in S => k = Stack)
    BY <1>0, SemNames
  <2>4. Passes("op", S)
    BY <2>1
  <2> HIDE DEF S
  <2>5. BoxesOK' /\ SemsOK' /\ MboxExact'
    BY <1>0, <2>1, <2>2, <2>3, <2>4, SyncPut
  <2> QED BY <1>1, <2>1, <2>5 DEF SyncInv
<1>6. CASE ServeOp(w)
  <2>1. cur = w /\ th[w].pc = "op" /\ Passes("reply", {}) /\ box' = box /\ UNCHANGED mainVars
    BY <1>6 DEF ServeOp
  <2>2. SemOf(cur) = Done(req[w].who)
    BY <2>1 DEF SemOf
  <2>3. /\ SemsOK'
        /\ \A x \in Sems : x # Done(req[w].who) => sem'[x].counter = sem[x].counter
    BY <2>1, <2>2, SemsPass DEF SyncInv
  <2> QED BY <1>1, <2>1, <2>3, SemNames, SyncKept
<1>7. CASE ServeDeliver(w)
  <2>1. PICK m \in Boxes : m = req[w].who
    BY <1>0
  <2> DEFINE S == {Queued(m)}
  <2>2. cur = w /\ th[w].pc = "deliver" /\ Passes("done", S) /\ UNCHANGED mainVars
    BY <1>7, <2>1 DEF ServeDeliver
  <2>3. PICK msg : Put(m, msg)
    BY <1>7, <2>1 DEF ServeDeliver
  <2>4. SemOf(cur) = Freed(m)
    BY <2>1, <2>2 DEF SemOf
  <2>5. Queued(m) \in S /\ \A k \in Boxes : Freed(k) \notin S /\ (Queued(k) \in S => k = m)
    BY SemNames
  <2> HIDE DEF S
  <2>6. BoxesOK' /\ SemsOK' /\ MboxExact'
    BY <2>2, <2>3, <2>4, <2>5, SyncPut
  <2> QED BY <1>1, <2>2, <2>6 DEF SyncInv
<1>8. CASE ServeReply(w) \/ ServeDone(w)
  <2>1. UNCHANGED <<sem, box>> /\ ipc' = ipc /\ req' = [req EXCEPT ![w] = NoMsg]
    BY <1>8 DEF ServeReply, ServeDone, syncVars
  <2>2. WhoOK'
    BY <1>0, <2>1 DEF WhoOK, NoMsg
  <2> QED BY <2>1, <2>2, SyncSame
<1>9. CASE ServeSent(w)
  <2>1. Completed(req[w].who) /\ UNCHANGED mainVars
    BY <1>9 DEF ServeSent
  <2> QED BY <1>1, <2>1, SyncSignal
<1>10. CASE ServeSegment(w)
  <2>1. UNCHANGED <<sem, box>> /\ UNCHANGED mainVars
    BY <1>10 DEF ServeSegment, syncVars
  <2> QED BY <1>1, <2>1, SyncSame
<1>11. CASE ServeError(w)
  <2>1. cur = w /\ th[w].pc = "error" /\ Errored(req[w].who, "done") /\ UNCHANGED mainVars
    BY <1>11 DEF ServeError
  <2>2. SemOf(cur) = Freed(req[w].who)
    BY <1>0, <2>1 DEF SemOf
  <2> QED BY <1>0, <1>1, <2>1, <2>2, SyncErrored
<1> QED BY <1>2, <1>3, <1>4, <1>5, <1>6, <1>7, <1>8, <1>9, <1>10, <1>11 DEF serve_thread

\* The connections.
ConnOK == victim \in Boxes /\ later \subseteq Tcp /\ gone \subseteq Tcp

LEMMA ConnServe ==
    ASSUME ConnOK, NEW w \in Workers, serve_thread(w)
    PROVE  ConnOK'
<1>1. CASE \/ ServeCall(w) \/ ServeInput(w) \/ ServeSegment(w) \/ ServeFetch(w) \/ ServePost(w)
           \/ ServeOp(w) \/ ServeDeliver(w) \/ ServeReply(w) \/ ServeDone(w)
  <2>1. UNCHANGED connVars
    BY <1>1 DEF ServeCall, ServeInput, ServeSegment, ServeFetch, ServePost, ServeOp, ServeDeliver,
                ServeReply, ServeDone, syncVars
  <2> QED BY <2>1 DEF ConnOK, connVars
<1>2. CASE ServeReset(w)
  BY <1>2 DEF ServeReset, ConnOK
<1>3. CASE ServeSent(w)
  BY <1>3 DEF ServeSent, Completed, ConnOK
<1>4. CASE ServeError(w)
  BY <1>4 DEF ServeError, Errored, ConnOK
<1> QED BY <1>1, <1>2, <1>3, <1>4 DEF serve_thread

LEMMA ConnTcpip ==
    ASSUME ConnOK, tcpip_thread
    PROVE  ConnOK'
<1>1. CASE TcpipCall \/ TcpipSend
  BY <1>1 DEF TcpipCall, TcpipSend, connVars, ConnOK
<1>2. CASE TcpipLater
  BY <1>2 DEF TcpipLater, ConnOK
<1>3. CASE TcpipPoll
  BY <1>3 DEF TcpipPoll, Completed, ConnOK
<1>4. CASE TcpipAbort
  <2>1. \E c \in Tcp : gone' = gone \cup {c} /\ victim' = c
    BY <1>4 DEF TcpipAbort
  <2>2. later' = later
    BY <1>4 DEF TcpipAbort
  <2> QED BY <2>1, <2>2, NetServerAssumption DEF ConnOK, Boxes
<1>5. CASE TcpipError
  BY <1>5 DEF TcpipError, Errored, ConnOK
<1> QED BY <1>1, <1>2, <1>3, <1>4, <1>5 DEF tcpip_thread

LEMMA ConnNext ==
    ASSUME ConnOK, [Next]_vars
    PROVE  ConnOK'
<1>0. CASE UNCHANGED syncVars
  BY <1>0 DEF ConnOK, syncVars, connVars
<1>1. CASE \/ WaitLeave \/ WaitAgain \/ MainFlush \/ MainRecv \/ MainPanic \/ StayPanicked
           \/ MainServe \/ MainTimer \/ MainTimerReply \/ UNCHANGED vars
  BY <1>0, <1>1 DEF WaitLeave, WaitAgain, MainFlush, MainRecv, MainPanic, StayPanicked, MainServe,
                    MainTimer, MainTimerReply, vars
<1>2. CASE SemBlock
  BY <1>2 DEF SemBlock, connVars, ConnOK
<1>3. CASE \E w \in Workers : serve_thread(w)
  BY <1>3, ConnServe
<1>4. CASE tcpip_thread
  BY <1>4, ConnTcpip
<1>5. CASE (\E c \in Clients : ClientSend(c) \/ ClientRecv(c)) \/ Timer \/ Input \/ OutputDone
  <2>1. UNCHANGED syncVars
    BY <1>5 DEF ClientSend, ClientRecv, Timer, TimerSend, TimerRecv, Input, InputRecv, InputSee,
                InputCopy, InputSend, OutputDone, Receive
  <2> QED BY <1>0, <2>1
<1> QED BY <1>1, <1>2, <1>3, <1>4, <1>5 DEF Next, NS

LEMMA SyncTcpip ==
    ASSUME SyncInv, ConnOK, tcpip_thread
    PROVE  SyncInv'
<1>0. WhoOK /\ Stack \in Boxes /\ Tcpip \notin Workers
  BY SemNames, Names DEF SyncInv
<1>1. ASSUME UNCHANGED mainVars PROVE WhoOK'
  BY <1>0, <1>1 DEF WhoOK, mainVars
<1>2. CASE TcpipCall \/ TcpipSend \/ TcpipLater
  <2>1. PICK c : c = Oldest(Stack)
    OBVIOUS
  <2>2. PICK S \in {{Freed(Stack), Done(c)}, {Freed(Stack)}} :
            Passes("fetch", S) /\ cur = Tcpip /\ th[Tcpip].pc = "fetch" /\ Take(Stack)
            /\ UNCHANGED mainVars
    <3>1. CASE TcpipCall
      BY <2>1, <3>1 DEF TcpipCall
    <3>2. CASE TcpipSend
      BY <2>1, <3>2 DEF TcpipSend
    <3>3. CASE TcpipLater
      BY <2>1, <3>3 DEF TcpipLater
    <3> QED BY <1>2, <3>1, <3>2, <3>3
  <2>3. SemOf(cur) = Queued(Stack)
    BY <2>2 DEF SemOf
  <2>4. Freed(Stack) \in S /\ \A k \in Boxes : Queued(k) \notin S /\ (Freed(k) \in S => k = Stack)
    BY <1>0, <2>2, SemNames
  <2>5. BoxesOK' /\ SemsOK' /\ MboxExact'
    BY <1>0, <2>2, <2>3, <2>4, SyncTake
  <2> QED BY <1>1, <2>2, <2>5 DEF SyncInv
<1>3. CASE TcpipPoll
  <2>1. UNCHANGED mainVars /\ \E c : Completed(c)
    BY <1>3 DEF TcpipPoll
  <2> QED BY <1>1, <2>1, SyncSignal
<1>4. CASE TcpipAbort
  <2>1. UNCHANGED mainVars /\ UNCHANGED <<sem, box>>
    BY <1>4 DEF TcpipAbort
  <2> QED BY <1>1, <2>1, SyncSame
<1>5. CASE TcpipError
  <2>1. cur = Tcpip /\ th[Tcpip].pc = "error" /\ Errored(victim, "fetch") /\ UNCHANGED mainVars
    BY <1>5 DEF TcpipError
  <2>2. SemOf(cur) = Freed(victim)
    BY <2>1 DEF SemOf
  <2> QED BY <1>1, <2>1, <2>2, SyncErrored DEF ConnOK
<1> QED BY <1>2, <1>3, <1>4, <1>5 DEF tcpip_thread

LEMMA SyncNext ==
    ASSUME SyncInv, ConnOK, BufInv, [Next]_vars
    PROVE  SyncInv'
<1>0. WhoOK /\ Stack \in Boxes /\ Clients \subseteq Boxes
  BY SemNames DEF SyncInv
<1>1. ASSUME UNCHANGED mainVars PROVE WhoOK'
  BY <1>0, <1>1 DEF WhoOK, mainVars
<1>2. CASE SemBlock
  <2>1. /\ sem[SemOf(cur)].counter = 0
        /\ sem' = [sem EXCEPT ![SemOf(cur)] = [counter |-> 0, waiters |-> 1]]
        /\ box' = box /\ UNCHANGED mainVars
    BY <1>2 DEF SemBlock
  <2>2. SemsOK' /\ \A x \in Sems : sem'[x].counter = sem[x].counter
    <3>1. SemsOK
      BY DEF SyncInv
    <3>2. PICK s : s = SemOf(cur)
      OBVIOUS
    <3>3. \A x \in Sems : sem'[x] = IF x = s THEN [counter |-> 0, waiters |-> 1] ELSE sem[x]
      BY <2>1, <3>1, <3>2 DEF SemsOK
    <3>4. sem' = [x \in Sems |-> sem'[x]]
      BY <2>1, <3>1 DEF SemsOK
    <3> QED BY <2>1, <3>1, <3>2, <3>3, <3>4 DEF SemsOK
  <2> QED BY <1>1, <2>1, <2>2, SemNames, SyncKept
<1>3. CASE \/ WaitLeave \/ WaitAgain \/ MainPanic \/ StayPanicked
           \/ (\E c \in Clients : ClientRecv(c))
           \/ InputRecv \/ InputSee \/ InputCopy \/ TimerRecv \/ OutputDone \/ UNCHANGED vars
  <2>1. UNCHANGED <<sem, box>> /\ UNCHANGED mainVars
    BY <1>3 DEF WaitLeave, WaitAgain, MainPanic, StayPanicked, ClientRecv, InputRecv, InputSee,
                InputCopy, TimerRecv, OutputDone, vars, syncVars
  <2> QED BY <1>1, <2>1, SyncSame
<1>4. CASE MainFlush \/ MainRecv \/ MainTimerReply
  <2>1. UNCHANGED <<sem, box, ipc, req>>
    BY <1>4 DEF MainFlush, MainRecv, MainTimerReply, syncVars
  <2>2. WhoOK'
    BY <1>0, <2>1 DEF WhoOK
  <2> QED BY <2>1, <2>2, SyncSame
<1>5. CASE MainServe
  <2>1. UNCHANGED <<sem, box>> /\ req' = [req EXCEPT ![mva] = ipc] /\ ipc' = NoMsg
    BY <1>5 DEF MainServe, syncVars
  <2>2. WhoOK'
    BY <1>0, <2>1 DEF WhoOK, NoMsg
  <2> QED BY <2>1, <2>2, SyncSame
<1>6. CASE MainTimer
  <2>1. UNCHANGED <<sem, box>> /\ req' = req /\ ipc' = NoMsg
    BY <1>6 DEF MainTimer, syncVars
  <2>2. WhoOK'
    BY <1>0, <2>1 DEF WhoOK, NoMsg
  <2> QED BY <2>1, <2>2, SyncSame
<1>7. CASE \E w \in Workers : serve_thread(w)
  BY <1>7, SyncServe
<1>8. CASE tcpip_thread
  BY <1>8, SyncTcpip
<1>9. CASE (\E c \in Clients : ClientSend(c)) \/ InputSend \/ TimerSend
  <2>1. PICK kind, who, n : who \in Boxes /\ Receive(kind, who, n)
    <3>1. CASE \E c \in Clients : ClientSend(c)
      BY <1>0, <3>1 DEF ClientSend
    <3>2. CASE InputSend
      BY <1>0, <3>2 DEF InputSend
    <3>3. CASE TimerSend
      BY <1>0, <3>3 DEF TimerSend
    <3> QED BY <1>9, <3>1, <3>2, <3>3
  <2>2. UNCHANGED <<sem, box>> /\ req' = req /\ ipc' = [kind |-> kind, who |-> who, n |-> n]
    BY <2>1 DEF Receive, syncVars
  <2>3. WhoOK'
    BY <1>0, <2>1, <2>2 DEF WhoOK
  <2> QED BY <2>2, <2>3, SyncSame
<1> QED BY <1>2, <1>3, <1>4, <1>5, <1>6, <1>7, <1>8, <1>9 DEF Next, NS, Timer, Input

LEMMA SyncInit == Init => SyncInv /\ ConnOK
<1> SUFFICES ASSUME Init PROVE SyncInv /\ ConnOK
  OBVIOUS
<1>0. MBOXSLOTS \in Nat \ {0} /\ Stack \in Boxes
  BY NetServerAssumption, SemNames
<1>1. BoxesOK /\ \A m \in Boxes : box[m].head = -1
  <2>1. PICK ms : ms = [i \in 0 .. MBOXSLOTS - 1 |-> None]
    OBVIOUS
  <2>2. box = [m \in Boxes |-> [head |-> -1, nextq |-> 0, msg |-> ms]]
    BY <2>1 DEF Init
  <2>3. ASSUME NEW m \in Boxes
        PROVE  box[m] = [head |-> -1, nextq |-> 0, msg |-> ms]
    BY <2>2
  <2>4. ASSUME NEW m \in Boxes
        PROVE  box[m].head = -1 /\ box[m].nextq = 0 /\ box[m].msg = ms
    BY <2>3
  <2>5. ASSUME NEW m \in Boxes PROVE BoxOK(m)
    BY <1>0, <2>3, <2>4 DEF BoxOK
  <2> QED BY <2>2, <2>4, <2>5 DEF BoxesOK
<1>2. \A s \in Sems : sem[s].counter = IF s[1] = "free_msg" THEN MBOXSLOTS ELSE 0
  BY DEF Init
<1>3. SemsOK
  BY <1>0, <1>2 DEF Init, SemsOK
<1>4. WhoOK
  BY <1>0 DEF Init, WhoOK, NoMsg
<1>5. MboxExact
  <2>1. \A m \in Boxes : Count(m) = 0
    BY <1>1 DEF Count
  <2>2. \A m \in Boxes : Queued(m)[1] = "queued_msg" /\ Freed(m)[1] = "free_msg"
    BY DEF Queued, Freed
  <2>3. \A m \in Boxes : sem[Queued(m)].counter = 0 /\ sem[Freed(m)].counter = MBOXSLOTS
    BY <1>2, <2>2, SemNames
  <2> QED BY <1>0, <2>1, <2>3 DEF MboxExact
<1>6. ConnOK
  BY <1>0 DEF Init, ConnOK
<1> QED BY <1>1, <1>3, <1>4, <1>5, <1>6 DEF SyncInv

\* The ring of a mailbox and its two semaphores agree at every step
\* (sys_arch_mbox_fetch(), sys_mbox_trypost()).
THEOREM MailboxesAreExact == Spec => []MboxExact
<1>1. Init => BufInv /\ SyncInv /\ ConnOK
  BY BufInit, SyncInit
<1>2. BufInv /\ SyncInv /\ ConnOK /\ [Next]_vars => BufInv' /\ SyncInv' /\ ConnOK'
  BY BufNext, SyncNext, ConnNext
<1>3. SyncInv => MboxExact
  BY DEF SyncInv
<1> QED BY <1>1, <1>2, <1>3, PTL DEF Spec

-----------------------------------------------------------------------------
(* Waiting: a thread that is not woken waits for a semaphore that is 0, and *)
(* all that are not woken and not new do wait.                             *)

\* The places of the main loop, and those of a thread that serves a call.
MainPlaces == {"loop", "recv", "got", "timer", "panic"}
CallPlaces == {"fetch", "post", "op", "reply"}
Calls == {"recv", "call"}

Alive == Range(queue) \cup {cur}

\* No thread is twice in the queue, and the running one is not in it.
QueueOK ==
    /\ \A i, j \in 1 .. Len(queue) : queue[i] = queue[j] => i = j
    /\ cur \notin Range(queue)

PlaceOK(t) ==
    /\ t \in Workers /\ t \in Alive => th[t].pc # "none"
    /\ t \in Range(queue) /\ t # Main => th[t].wait # None \/ th[t].pc = "start"

SleepOK(t) ==
    th[t].wait # None =>
        /\ th[t].wait \in Sems
        /\ th[t].val = <<0, 1>>
        /\ t \in Alive
        /\ ~th[t].wakeup => V(th[t].wait) = <<0, 1>>

MainOK ==
    /\ th[Main].pc \in MainPlaces /\ th[Main].wait = None
    /\ cur # Main => th[Main].pc \in {"loop", "timer"}
    /\ th[Tcpip].pc \in {"fetch", "error"}

\* A call is a client's.
Serving(w) == th[w].pc \in CallPlaces \/ (th[w].pc = "start" /\ req[w].kind \in Calls)

CallersOK ==
    /\ ipc.kind \in Calls => ipc.who \in Clients
    /\ \A w \in Workers : Serving(w) => req[w].who \in Clients

IdleInv ==
    /\ QueueOK /\ MainOK
    /\ \A t \in Threads : PlaceOK(t) /\ SleepOK(t)

\* The next thread is taken from s.
LEMMA PopQueue ==
    ASSUME NEW s \in Seq(Threads), s # <<>>,
           \A i, j \in 1 .. Len(s) : s[i] = s[j] => i = j,
           cur' = Head(s), queue' = Tail(s)
    PROVE  QueueOK' /\ Alive' = Range(s) /\ queue' \in Seq(Threads)
<1>1. Len(s) \in Nat \ {0} /\ cur' = s[1]
  OBVIOUS
<1>2. /\ queue' \in Seq(Threads) /\ Len(queue') = Len(s) - 1
      /\ \A i \in 1 .. Len(s) - 1 : queue'[i] = s[i + 1]
  OBVIOUS
<1>3. /\ Range(queue') = {queue'[i] : i \in 1 .. Len(queue')}
      /\ Range(s) = {s[i] : i \in 1 .. Len(s)}
  <2>1. DOMAIN queue' = 1 .. Len(queue') /\ DOMAIN s = 1 .. Len(s)
    BY <1>2
  <2> QED BY <2>1 DEF Range
<1>4. ASSUME NEW i \in 1 .. Len(queue'), NEW j \in 1 .. Len(queue'), queue'[i] = queue'[j]
      PROVE  i = j
  <2>1. i + 1 \in 1 .. Len(s) /\ j + 1 \in 1 .. Len(s) /\ s[i + 1] = s[j + 1]
    BY <1>1, <1>2, <1>4
  <2>2. i + 1 = j + 1
    BY <2>1
  <2> QED BY <2>2
<1>5. ASSUME NEW i \in 1 .. Len(queue') PROVE queue'[i] # cur' /\ queue'[i] \in Range(s)
  <2>1. i + 1 \in 1 .. Len(s) /\ 1 \in 1 .. Len(s) /\ i + 1 # 1 /\ queue'[i] = s[i + 1]
    BY <1>1, <1>2
  <2> QED BY <1>1, <1>3, <2>1
<1>6. QueueOK'
  BY <1>3, <1>4, <1>5 DEF QueueOK
<1>7. ASSUME NEW i \in 1 .. Len(s) PROVE s[i] \in Alive'
  <2>1. CASE i = 1
    BY <1>1, <2>1 DEF Alive
  <2>2. CASE i # 1
    <3>1. i - 1 \in 1 .. Len(queue') /\ queue'[i - 1] = s[i]
      BY <1>1, <1>2, <2>2
    <3> QED BY <1>3, <3>1 DEF Alive
  <2> QED BY <2>1, <2>2
<1>8. cur' \in Range(s)
  BY <1>1, <1>3
<1> QED BY <1>2, <1>3, <1>5, <1>6, <1>7, <1>8 DEF Alive

LEMMA YieldQueue ==
    ASSUME OrderInv, QueueOK, Yield(queue)
    PROVE  QueueOK' /\ Alive' = Alive
<1> DEFINE s == Append(queue, cur)
<1>1. /\ s \in Seq(Threads) /\ s # <<>> /\ Len(s) = Len(queue) + 1 /\ s[Len(s)] = cur
      /\ \A i \in 1 .. Len(queue) : s[i] = queue[i]
      /\ Len(queue) \in Nat
  BY DEF OrderInv
<1>2. cur' = Head(s) /\ queue' = Tail(s)
  BY DEF Yield
<1> HIDE DEF s
<1>3. \A i \in 1 .. Len(queue) : queue[i] # cur /\ queue[i] \in Range(queue)
  BY DEF OrderInv, QueueOK, Range
<1>4. \A i, j \in 1 .. Len(s) : s[i] = s[j] => i = j
  BY <1>1, <1>3 DEF QueueOK
<1>5. Range(s) = Alive
  <2>1. Range(s) = {s[i] : i \in 1 .. Len(s)} /\ Range(queue) = {queue[i] : i \in 1 .. Len(queue)}
    BY <1>1 DEF Range, OrderInv
  <2>2. Len(s) \in 1 .. Len(s) /\ \A i \in 1 .. Len(queue) : i \in 1 .. Len(s)
    BY <1>1
  <2>3. \A i \in 1 .. Len(s) : i \in 1 .. Len(queue) \/ i = Len(s)
    BY <1>1
  <2> QED BY <1>1, <2>1, <2>2, <2>3 DEF Alive
<1> QED BY <1>1, <1>2, <1>4, <1>5, PopQueue

LEMMA HaltQueue ==
    ASSUME OrderInv, QueueOK, cur # Main, Halt
    PROVE  QueueOK' /\ Alive' = Alive \ {cur}
<1>1. queue # <<>> /\ queue \in Seq(Threads)
  BY DEF OrderInv, MainOnce
<1>2. Alive' = Range(queue) /\ QueueOK'
  BY <1>1, PopQueue DEF Halt, QueueOK
<1> QED BY <1>2 DEF QueueOK, Alive

LEMMA CreateQueue ==
    ASSUME OrderInv, QueueOK, cur = Main, NEW w \in Workers, w \notin Alive,
           Yield(Append(queue, w))
    PROVE  QueueOK' /\ Alive' = Alive \cup {w}
<1> DEFINE q == Append(queue, w)
           s == Append(q, cur)
<1>0. w \in Threads /\ cur \in Threads /\ w # cur
  BY Names DEF Alive
<1>1. /\ q \in Seq(Threads) /\ Len(q) = Len(queue) + 1 /\ q[Len(q)] = w
      /\ \A i \in 1 .. Len(queue) : q[i] = queue[i]
      /\ Len(queue) \in Nat
  BY <1>0 DEF OrderInv
<1>2. cur' = Head(s) /\ queue' = Tail(s)
  BY DEF Yield
<1>3. s = Append(q, cur)
  OBVIOUS
<1> HIDE DEF q, s
<1>4. /\ s \in Seq(Threads) /\ s # <<>> /\ Len(s) = Len(q) + 1 /\ s[Len(s)] = cur
      /\ \A i \in 1 .. Len(q) : s[i] = q[i]
  BY <1>0, <1>1, <1>3
<1>5. \A i \in 1 .. Len(queue) : queue[i] # cur /\ queue[i] \in Range(queue) /\ queue[i] # w
  BY DEF OrderInv, QueueOK, Range, Alive
<1>6. /\ \A i \in 1 .. Len(queue) : s[i] = queue[i] /\ i \in 1 .. Len(s)
      /\ s[Len(queue) + 1] = w /\ s[Len(queue) + 2] = cur
      /\ Len(s) = Len(queue) + 2
      /\ Len(queue) + 1 \in 1 .. Len(s) /\ Len(queue) + 2 \in 1 .. Len(s)
      /\ \A i \in 1 .. Len(s) : i \in 1 .. Len(queue) \/ i = Len(queue) + 1 \/ i = Len(queue) + 2
  BY <1>1, <1>4
<1>7. ASSUME NEW i \in 1 .. Len(s), NEW j \in 1 .. Len(s), s[i] = s[j] PROVE i = j
  BY <1>0, <1>5, <1>6, <1>7 DEF QueueOK
<1>8. Range(s) = Alive \cup {w}
  <2>1. Range(s) = {s[i] : i \in 1 .. Len(s)} /\ Range(queue) = {queue[i] : i \in 1 .. Len(queue)}
    BY <1>4 DEF Range, OrderInv
  <2> QED BY <1>6, <2>1 DEF Alive
<1> QED BY <1>2, <1>4, <1>7, <1>8, PopQueue

\* The semaphore of a thread, if it is at one.
LEMMA SemOfIs ==
    ASSUME BufInv, OrderInv, WhoOK, ConnOK, CallersOK, MainOK, SemOf(cur) # None
    PROVE  SemOf(cur) \in Sems /\ cur # Main
<1>0. /\ cur \in Threads /\ \A t \in Threads : t \in Workers \/ t = Main \/ t = Tcpip
      /\ Stack \in Boxes /\ Clients \subseteq Boxes /\ Tcpip \notin Workers
      /\ \A m \in Boxes : Queued(m) \in Sems /\ Freed(m) \in Sems
      /\ \A c \in Clients : Done(c) \in Sems
  BY Names, SemNames DEF OrderInv, Threads, Sems
<1>1. CASE cur = Main
  BY <1>1, Names DEF MainOK, MainPlaces, SemOf
<1>2. CASE cur = Tcpip
  <2>1. SemOf(cur) \in {Queued(Stack), Freed(victim)}
    BY <1>0, <1>2, Names DEF MainOK, SemOf
  <2> QED BY <1>0, <1>2, <2>1, Names DEF ConnOK
<1>3. CASE cur \in Workers
  <2>1. PICK c : c = req[cur].who
    OBVIOUS
  <2>2. c \in Boxes /\ (th[cur].pc = "op" => c \in Clients)
    BY <1>3, <2>1 DEF WhoOK, CallersOK, Serving, CallPlaces
  <2>3. SemOf(cur) \in {Queued(c), Freed(Stack), Done(c), Freed(c), None}
    BY <1>0, <1>3, <2>1 DEF SemOf
  <2>4. SemOf(cur) = Done(c) => c \in Clients
    BY <1>0, <1>3, <2>1, <2>2, SemNames DEF SemOf
  <2> QED BY <1>0, <1>3, <2>2, <2>3, <2>4, Names
<1> QED BY <1>0, <1>1, <1>2, <1>3

\* The running thread goes to another place and still runs, or yields.
LEMMA IdleGo ==
    ASSUME ThreadsOK, OrderInv, IdleInv, NEW pc, Goes(cur, pc), pc # "none",
           UNCHANGED sem,
           QueueOK' /\ Alive' = Alive,
           cur = Main => pc \in MainPlaces,
           cur = Main => cur' = cur \/ pc \in {"loop", "timer"},
           cur = Tcpip => pc \in {"fetch", "error"},
           cur' = cur \/ cur = Main
    PROVE  IdleInv'
<1>1. \A t \in Threads : th'[t] = IF t = cur THEN At(pc) ELSE th[t]
  BY GoTh
<1>2. At(pc).pc = pc /\ At(pc).wait = None
  BY AtFields
<1>3. Range(queue)' \subseteq Alive /\ (cur # Main => Range(queue)' = Range(queue))
  BY DEF Alive, QueueOK, IdleInv
<1>4. ASSUME NEW t \in Threads PROVE PlaceOK(t)'
  <2>1. CASE t = cur
    BY <1>1, <1>2, <2>1 DEF PlaceOK, QueueOK
  <2>2. CASE t # cur
    <3>1. th'[t] = th[t] /\ (t \in Alive' => t \in Alive) /\ (t \in Range(queue)' => t \in Range(queue))
      BY <1>1, <1>3, <2>2 DEF Alive
    <3> QED BY <3>1 DEF PlaceOK, IdleInv
  <2> QED BY <2>1, <2>2
<1>5. ASSUME NEW t \in Threads PROVE SleepOK(t)'
  <2>1. CASE t = cur
    BY <1>1, <1>2, <2>1 DEF SleepOK
  <2>2. CASE t # cur
    BY <1>1, <2>2 DEF SleepOK, V, IdleInv
  <2> QED BY <2>1, <2>2
<1>6. MainOK'
  BY <1>1, <1>2, Names DEF MainOK, IdleInv
<1> QED BY <1>4, <1>5, <1>6 DEF IdleInv

\* No thread changes; the running one may yield when it waits.
LEMMA IdleSame ==
    ASSUME IdleInv, UNCHANGED <<th, sem>>, QueueOK' /\ Alive' = Alive,
           UNCHANGED <<cur, queue>> \/ th[cur].wait # None \/ cur = Main,
           cur = Main => cur' = cur \/ th[Main].pc = "loop"
    PROVE  IdleInv'
<1>1. Range(queue)' \subseteq Range(queue) \cup {cur}
  BY DEF Alive
<1>2. ASSUME NEW t \in Threads PROVE PlaceOK(t)'
  <2>1. PlaceOK(t)
    BY DEF IdleInv
  <2>2. (t \in Range(queue)' => t \in Range(queue)) \/ (t = cur /\ (th[cur].wait # None \/ cur = Main))
    BY <1>1 DEF QueueOK
  <2> QED BY <2>1, <2>2 DEF PlaceOK
<1>3. ASSUME NEW t \in Threads PROVE SleepOK(t)'
  BY DEF SleepOK, V, IdleInv
<1>4. MainOK'
  BY DEF MainOK, IdleInv
<1> QED BY <1>2, <1>3, <1>4 DEF IdleInv

LEMMA IdleStay ==
    ASSUME IdleInv, UNCHANGED <<th, sem, cur, queue>>
    PROVE  IdleInv'
<1>1. QueueOK' /\ Alive' = Alive
  BY DEF IdleInv, QueueOK, Alive
<1> QED BY <1>1, IdleSame

\* The running thread starts to wait.
LEMMA IdleBlock ==
    ASSUME BufInv, OrderInv, SyncInv, ConnOK, CallersOK, IdleInv, SemBlock
    PROVE  IdleInv'
<1>1. PICK s : s = SemOf(cur)
  OBVIOUS
<1>2. PICK pc : pc = th[cur].pc
  OBVIOUS
<1>3. s \in Sems /\ cur # Main /\ s # None /\ cur \in Threads /\ sem[s].counter = 0
  BY <1>1, SemOfIs DEF SemBlock, AtSem, IdleInv, OrderInv, SyncInv
<1>4. /\ sem' = [sem EXCEPT ![s] = [counter |-> 0, waiters |-> 1]]
      /\ th' = [th EXCEPT ![cur] = [pc |-> pc, wait |-> s, val |-> <<0, 1>>, wakeup |-> FALSE]]
      /\ Yield(queue)
  BY <1>1, <1>2 DEF SemBlock
<1>5. QueueOK' /\ Alive' = Alive
  BY <1>4, YieldQueue DEF IdleInv
<1>6. V(s)' = <<0, 1>> /\ \A x \in Sems : x # s => V(x)' = V(x)
  BY <1>3, <1>4 DEF V, SyncInv, SemsOK
<1>7. /\ th'[cur] = [pc |-> pc, wait |-> s, val |-> <<0, 1>>, wakeup |-> FALSE]
      /\ \A t \in Threads : t # cur => th'[t] = th[t]
  BY <1>3, <1>4 DEF BufInv, ThreadsOK
<1>8. th'[cur].pc = pc /\ th'[cur].wait = s /\ th'[cur].val = <<0, 1>>
  BY <1>7
<1>9. ASSUME NEW t \in Threads PROVE PlaceOK(t)'
  <2>1. PlaceOK(t)
    BY DEF IdleInv
  <2>2. CASE t = cur
    BY <1>2, <1>3, <1>5, <1>8, <2>1, <2>2 DEF PlaceOK
  <2>3. CASE t # cur
    <3>1. th'[t] = th[t] /\ (t \in Alive' => t \in Alive) /\ (t \in Range(queue)' => t \in Range(queue))
      BY <1>5, <1>7, <2>3 DEF Alive
    <3> QED BY <2>1, <3>1 DEF PlaceOK
  <2> QED BY <2>2, <2>3
<1>10. ASSUME NEW t \in Threads PROVE SleepOK(t)'
  <2>1. SleepOK(t)
    BY DEF IdleInv
  <2>2. CASE t = cur
    <3>1. cur \in Alive'
      BY <1>5 DEF Alive
    <3> QED BY <1>3, <1>6, <1>8, <2>2, <3>1 DEF SleepOK
  <2>3. CASE t # cur
    <3>1. th'[t] = th[t]
      BY <1>7, <2>3
    <3>2. PICK z : z = th[t].wait
      OBVIOUS
    <3>3. z \in Sems => V(z)' = V(z) \/ V(z)' = <<0, 1>>
      BY <1>6
    <3>4. th'[t].wait = z
      BY <3>1, <3>2
    <3> QED BY <1>5, <2>1, <3>1, <3>2, <3>3, <3>4 DEF SleepOK, V
  <2> QED BY <2>2, <2>3
<1>11. MainOK'
  <2>1. th'[Main] = th[Main] /\ th'[Tcpip].pc = th[Tcpip].pc
    BY <1>2, <1>3, <1>7, <1>8, Names
  <2> QED BY <1>3, <2>1 DEF MainOK, IdleInv
<1> QED BY <1>5, <1>9, <1>10, <1>11 DEF IdleInv

\* The running thread passes its semaphore; who waits for one that it signals
\* is woken.
LEMMA IdlePass ==
    ASSUME BufInv, OrderInv, SyncInv, ConnOK, CallersOK, IdleInv,
           NEW pc, pc # "none", NEW S, Passes(pc, S), SemOf(cur) \notin S,
           cur = Tcpip => pc \in {"fetch", "error"}
    PROVE  IdleInv'
<1>1. PICK s : s = SemOf(cur)
  OBVIOUS
<1>2. s \in Sems /\ cur # Main /\ s \notin S /\ cur \in Threads /\ th[cur].wait = None
  BY <1>1, SemOfIs DEF Passes, AtSem, IdleInv, OrderInv, SyncInv
<1>3. cur' = cur /\ queue' = queue /\ QueueOK' /\ Alive' = Alive
  BY DEF Passes, IdleInv, QueueOK, Alive
<1>4. /\ \A x \in Sems : sem'[x].counter = IF x \in S THEN sem[x].counter + 1
                                           ELSE IF x = s THEN sem[x].counter - 1
                                           ELSE sem[x].counter
      /\ \A x \in Sems : sem'[x].waiters = IF x \in S THEN 0 ELSE sem[x].waiters
      /\ sem[s].counter > 0
  BY <1>1, SemsPass DEF SyncInv
<1>5. /\ \A t \in Threads : th'[t].pc = IF t = cur THEN pc ELSE th[t].pc
      /\ \A t \in Threads : th'[t].wait = IF t = cur THEN None ELSE th[t].wait
  BY PassTh DEF BufInv
<1>6. ASSUME NEW t \in Threads, t # cur
      PROVE  /\ th'[t].val = th[t].val
             /\ ~th'[t].wakeup => ~th[t].wakeup /\ \A x \in S : ~(sem[x].waiters = 1 /\ Woken(t, x))
  <2> DEFINE Up(u) == th[u].wakeup \/ \E x \in S : sem[x].waiters = 1 /\ Woken(u, x)
  <2>1. PICK b : b = Up(t) /\ (~b => ~Up(t))
    OBVIOUS
  <2>2. th' = [u \in Threads |-> IF u = cur THEN At(pc) ELSE [th[u] EXCEPT !.wakeup = Up(u)]]
    BY DEF Passes
  <2>3. th'[t] = [th[t] EXCEPT !.wakeup = Up(t)]
    BY <1>6, <2>2
  <2>4. th'[t] = [th[t] EXCEPT !.wakeup = b]
    BY <2>1, <2>3
  <2>5. th[t] = [pc |-> th[t].pc, wait |-> th[t].wait, val |-> th[t].val, wakeup |-> th[t].wakeup]
    BY DEF BufInv, ThreadsOK
  <2>6. th'[t].val = th[t].val /\ th'[t].wakeup = b
    BY <2>4, <2>5
  <2> QED BY <2>1, <2>6
<1>7. ASSUME NEW t \in Threads PROVE PlaceOK(t)'
  <2>1. PlaceOK(t)
    BY DEF IdleInv
  <2>2. CASE t = cur
    BY <1>3, <1>5, <2>2 DEF PlaceOK, QueueOK
  <2>3. CASE t # cur
    BY <1>3, <1>5, <2>1, <2>3 DEF PlaceOK
  <2> QED BY <2>2, <2>3
<1>8. ASSUME NEW t \in Threads PROVE SleepOK(t)'
  <2>1. SleepOK(t)
    BY DEF IdleInv
  <2>2. CASE t = cur
    BY <1>5, <2>2 DEF SleepOK
  <2>3. CASE t # cur
    <3>1. PICK z : z = th[t].wait
      OBVIOUS
    <3>2. th'[t].wait = z /\ th'[t].val = th[t].val
      BY <1>5, <1>6, <2>3, <3>1
    <3>3. ASSUME z # None, ~th'[t].wakeup PROVE V(z)' = <<0, 1>>
      <4>1. z \in Sems /\ V(z) = <<0, 1>> /\ t \in Range(queue)
        BY <1>6, <2>1, <2>3, <3>1, <3>3 DEF SleepOK, Alive
      <4>2. sem[z].counter = 0 /\ sem[z].waiters = 1
        BY <4>1 DEF V
      <4>3. z # s
        BY <1>4, <4>2
      <4>4. z \notin S
        BY <1>6, <2>3, <3>1, <3>3, <4>1, <4>2 DEF Woken
      <4>5. sem'[z].counter = 0 /\ sem'[z].waiters = 1
        BY <1>4, <4>1, <4>2, <4>3, <4>4
      <4> QED BY <4>5 DEF V
    <3> QED BY <1>3, <2>1, <3>1, <3>2, <3>3 DEF SleepOK, V
  <2> QED BY <2>2, <2>3
<1>9. MainOK'
  <2>1. th'[Main].pc = th[Main].pc /\ th'[Main].wait = th[Main].wait
    BY <1>2, <1>5, Names
  <2>2. th'[Tcpip].pc \in {"fetch", "error"}
    BY <1>5, Names DEF IdleInv, MainOK
  <2> QED BY <1>2, <1>3, <2>1, <2>2 DEF MainOK, IdleInv
<1> QED BY <1>3, <1>7, <1>8, <1>9 DEF IdleInv

\* The running thread signals a semaphore; who waits for it is woken.
LEMMA IdleSignal ==
    ASSUME BufInv, OrderInv, SyncInv, IdleInv, cur # Main, th[cur].wait = None,
           NEW s, Signals(s)
    PROVE  IdleInv'
<1>1. cur' = cur /\ queue' = queue /\ QueueOK' /\ Alive' = Alive
  BY DEF Signals, IdleInv, QueueOK, Alive
<1>2. \A x \in Sems : /\ sem'[x].counter = IF x = s THEN sem[x].counter + 1 ELSE sem[x].counter
                      /\ sem'[x].waiters = IF x = s THEN 0 ELSE sem[x].waiters
  <2>1. SemsOK
    BY DEF SyncInv
  <2> QED BY <2>1, SemsSignal
<1>3. \A t \in Threads : th'[t].pc = th[t].pc /\ th'[t].wait = th[t].wait
  BY SignalTh DEF BufInv
<1>4. ASSUME NEW t \in Threads
      PROVE  /\ th'[t].val = th[t].val
             /\ ~th'[t].wakeup => ~th[t].wakeup /\ ~(sem[s].waiters = 1 /\ Woken(t, s))
  <2> DEFINE Up(u) == th[u].wakeup \/ (sem[s].waiters = 1 /\ Woken(u, s))
  <2>1. PICK b : b = Up(t) /\ (~b => ~Up(t))
    OBVIOUS
  <2>2. th' = [u \in Threads |-> [th[u] EXCEPT !.wakeup = Up(u)]]
    BY DEF Signals
  <2>3. th'[t] = [th[t] EXCEPT !.wakeup = Up(t)]
    BY <2>2
  <2>4. th'[t] = [th[t] EXCEPT !.wakeup = b]
    BY <2>1, <2>3
  <2>5. th[t] = [pc |-> th[t].pc, wait |-> th[t].wait, val |-> th[t].val, wakeup |-> th[t].wakeup]
    BY DEF BufInv, ThreadsOK
  <2>6. th'[t].val = th[t].val /\ th'[t].wakeup = b
    BY <2>4, <2>5
  <2> QED BY <2>1, <2>6
<1>5. ASSUME NEW t \in Threads PROVE PlaceOK(t)'
  BY <1>1, <1>3 DEF IdleInv, PlaceOK
<1>6. ASSUME NEW t \in Threads PROVE SleepOK(t)'
  <2>1. SleepOK(t)
    BY DEF IdleInv
  <2>2. PICK z : z = th[t].wait
    OBVIOUS
  <2>3. th'[t].wait = z /\ th'[t].val = th[t].val
    BY <1>3, <1>4, <2>2
  <2>4. ASSUME z # None, ~th'[t].wakeup PROVE V(z)' = <<0, 1>>
    <3>1. z \in Sems /\ V(z) = <<0, 1>> /\ t \in Range(queue)
      BY <1>4, <2>1, <2>2, <2>4 DEF SleepOK, Alive
    <3>2. sem[z].counter = 0 /\ sem[z].waiters = 1
      BY <3>1 DEF V
    <3>3. z # s
      BY <1>4, <2>2, <2>4, <3>1, <3>2 DEF Woken
    <3>4. sem'[z].counter = 0 /\ sem'[z].waiters = 1
      BY <1>2, <3>1, <3>2, <3>3
    <3> QED BY <3>4 DEF V
  <2> QED BY <1>1, <2>1, <2>2, <2>3, <2>4 DEF SleepOK, V
<1>7. MainOK'
  <2>1. /\ th'[Main].pc = th[Main].pc /\ th'[Main].wait = th[Main].wait
        /\ th'[Tcpip].pc = th[Tcpip].pc
    BY <1>3, Names
  <2>2. MainOK /\ cur' # Main
    BY <1>1 DEF IdleInv
  <2> QED BY <2>1, <2>2 DEF MainOK
<1> QED BY <1>1, <1>5, <1>6, <1>7 DEF IdleInv

\* The thread of a request is over.
LEMMA IdleHalt ==
    ASSUME ThreadsOK, OrderInv, IdleInv, cur \in Workers, Goes(cur, "none"), Halt, UNCHANGED sem
    PROVE  IdleInv'
<1>0. cur # Main /\ cur # Tcpip /\ cur \in Threads
  BY Names
<1>1. QueueOK' /\ Alive' = Alive \ {cur} /\ cur \notin Alive'
  BY <1>0, HaltQueue DEF IdleInv
<1>2. \A t \in Threads : th'[t] = IF t = cur THEN At("none") ELSE th[t]
  BY GoTh
<1>3. Range(queue)' \subseteq Range(queue)
  BY <1>1 DEF Alive
<1>4. ASSUME NEW t \in Threads PROVE PlaceOK(t)'
  <2>1. CASE t = cur
    BY <1>1, <2>1 DEF PlaceOK, Alive
  <2>2. CASE t # cur
    BY <1>1, <1>2, <1>3, <2>2 DEF PlaceOK, IdleInv
  <2> QED BY <2>1, <2>2
<1>5. ASSUME NEW t \in Threads PROVE SleepOK(t)'
  <2>1. CASE t = cur
    BY <1>2, <2>1, AtFields DEF SleepOK
  <2>2. CASE t # cur
    BY <1>1, <1>2, <2>2 DEF SleepOK, V, IdleInv
  <2> QED BY <2>1, <2>2
<1>6. MainOK'
  BY <1>0, <1>2, Names DEF MainOK, IdleInv
<1> QED BY <1>1, <1>4, <1>5, <1>6 DEF IdleInv

\* A thread is created for a request.
LEMMA IdleCreate ==
    ASSUME BufInv, OrderInv, IdleInv, MainServe
    PROVE  IdleInv'
<1>0. /\ ThreadsOK /\ mva \in Workers /\ mva \in Threads /\ Main \in Threads /\ mva # Main
      /\ mva # Tcpip /\ Tcpip # Main
      /\ cur = Main /\ th[Main].pc = "got" /\ UNCHANGED sem
  BY Names DEF BufInv, MainServe, syncVars
<1>1. th[mva].pc = "none"
  BY <1>0 DEF BufInv, BuffersExact
<1>2. mva \notin Alive
  BY <1>0, <1>1 DEF IdleInv, PlaceOK
<1>3. QueueOK' /\ Alive' = Alive \cup {mva}
  <2>1. Yield(Append(queue, mva)) /\ QueueOK
    BY DEF MainServe, IdleInv
  <2> QED BY <1>0, <1>2, <2>1, CreateQueue
<1>4. th' = [th EXCEPT ![mva] = At("start"), ![Main] = At("loop")]
  BY DEF MainServe
<1>5. \A t \in Threads : th'[t] = IF t = Main THEN At("loop") ELSE IF t = mva THEN At("start") ELSE th[t]
  BY <1>0, <1>4 DEF ThreadsOK
<1>6. /\ At("loop").pc = "loop" /\ At("loop").wait = None
      /\ At("start").pc = "start" /\ At("start").wait = None
  BY AtFields
<1>7. ASSUME NEW t \in Threads PROVE PlaceOK(t)'
  <2>1. PlaceOK(t)
    BY DEF IdleInv
  <2>2. CASE t = Main
    BY <2>2, Names DEF PlaceOK
  <2>3. CASE t = mva
    BY <1>0, <1>5, <1>6, <2>3 DEF PlaceOK
  <2>4. CASE t # Main /\ t # mva
    <3>1. th'[t] = th[t] /\ (t \in Alive' => t \in Alive) /\ (t \in Range(queue)' => t \in Range(queue))
      BY <1>0, <1>3, <1>5, <2>4 DEF Alive
    <3> QED BY <2>1, <3>1 DEF PlaceOK
  <2> QED BY <2>2, <2>3, <2>4
<1>8. ASSUME NEW t \in Threads PROVE SleepOK(t)'
  <2>1. CASE t = Main \/ t = mva
    BY <1>0, <1>5, <1>6, <2>1 DEF SleepOK
  <2>2. CASE t # Main /\ t # mva
    BY <1>0, <1>3, <1>5, <2>2 DEF SleepOK, V, IdleInv
  <2> QED BY <2>1, <2>2
<1>9. MainOK'
  BY <1>0, <1>5, <1>6, Names DEF MainOK, MainPlaces, IdleInv
<1> QED BY <1>3, <1>7, <1>8, <1>9 DEF IdleInv

\* Which thread serves a call after a step, and for whom.
LEMMA ServingServe ==
    ASSUME BufInv, WhoOK, NEW w \in Workers, serve_thread(w), NEW v \in Workers, Serving(v)'
    PROVE  Serving(v) /\ req'[v].who = req[v].who
<1>0. ThreadsOK /\ w \in Threads /\ v \in Threads
  BY Names DEF BufInv
<1>1. PICK q \in Follows(th[w].pc) : Moved(w, q)
  BY <1>0, ServeStep
<1>2. CASE v # w
  <2>1. th'[v].pc = th[v].pc
    BY <1>0, <1>1, <1>2 DEF Moved
  <2>2. req'[v] = req[v]
    BY <1>0, <1>2, ServeStep DEF WhoOK
  <2> QED BY <2>1, <2>2 DEF Serving
<1>3. CASE v = w
  <2>1. th'[w].pc = q /\ q \in CallPlaces
    BY <1>0, <1>1, <1>3 DEF Moved, Serving, Follows
  <2>2. CASE ServeCall(w)
    <3>1. th[w].pc = "start" /\ req[w].kind \in Calls /\ req' = req
      BY <2>2 DEF ServeCall, Runs, Calls, mainVars
    <3> QED BY <1>3, <3>1 DEF Serving
  <2>3. CASE ServeFetch(w) \/ ServePost(w) \/ ServeOp(w)
    <3>1. th[w].pc \in CallPlaces /\ req' = req
      BY <2>3 DEF ServeFetch, ServePost, ServeOp, CallPlaces, mainVars
    <3> QED BY <1>3, <3>1 DEF Serving
  <2>4. CASE ServeInput(w) \/ ServeReset(w)
    <3>1. \E p \in {"segment", "deliver", "error", "done"} : Goes(w, p)
      BY <2>4 DEF ServeInput, ServeReset
    <3>2. th'[w].pc \in {"segment", "deliver", "error", "done"}
      BY <1>0, <3>1, GoTh
    <3> QED BY <2>1, <3>2 DEF CallPlaces
  <2>5. CASE ServeSent(w) \/ ServeSegment(w) \/ ServeDeliver(w) \/ ServeError(w) \/ ServeReply(w) \/ ServeDone(w)
    <3>1. th[w].pc \in {"segment", "deliver", "error", "reply", "done"}
      BY <2>5 DEF ServeSent, ServeSegment, ServeDeliver, ServeError, ServeReply, ServeDone, Runs
    <3> QED BY <1>1, <2>1, <3>1 DEF Follows, CallPlaces
  <2> QED BY <2>2, <2>3, <2>4, <2>5 DEF serve_thread
<1> QED BY <1>2, <1>3

LEMMA ServingNext ==
    ASSUME BufInv, WhoOK, [Next]_vars, NEW v \in Workers, Serving(v)'
    PROVE  \/ Serving(v) /\ req'[v].who = req[v].who
           \/ MainServe /\ v = mva /\ ipc.kind \in Calls /\ req'[v].who = ipc.who
<1>0. ThreadsOK /\ v \in Threads /\ v # Main /\ v # Tcpip /\ Main \in Threads /\ mva \in Workers
  BY Names DEF BufInv
<1> DEFINE Same == th'[v].pc = th[v].pc /\ req' = req
<1>1. CASE Same
  BY <1>1 DEF Serving
<1>2. CASE SemBlock \/ WaitLeave \/ WaitAgain
  BY <1>0, <1>1, <1>2, QuietSteps DEF Quiet, mainVars
<1>3. CASE MainFlush \/ StayPanicked \/ UNCHANGED vars
  BY <1>1, <1>3 DEF MainFlush, StayPanicked, vars, threadVars, mainVars
<1>4. CASE MainRecv \/ MainPanic \/ MainTimer \/ MainTimerReply
  <2>1. req' = req /\ \E q : Goes(Main, q)
    BY <1>4 DEF MainRecv, MainPanic, MainTimer, MainTimerReply, Goes, mainVars
  <2> QED BY <1>0, <1>1, <2>1, GoTh
<1>5. CASE MainServe
  <2>1. /\ th' = [th EXCEPT ![mva] = At("start"), ![Main] = At("loop")]
        /\ req' = [req EXCEPT ![mva] = ipc]
    BY <1>5 DEF MainServe
  <2>2. CASE v = mva
    <3>1. th'[v] = At("start") /\ req'[v] = ipc
      BY <1>0, <2>1, <2>2 DEF ThreadsOK, WhoOK
    <3>2. th'[v].pc = "start"
      BY <3>1, AtFields
    <3> QED BY <1>5, <2>2, <3>1, <3>2 DEF Serving, CallPlaces
  <2>3. CASE v # mva
    <3>1. th'[v] = th[v] /\ req'[v] = req[v]
      BY <1>0, <2>1, <2>3 DEF ThreadsOK, WhoOK
    <3> QED BY <3>1 DEF Serving
  <2> QED BY <2>2, <2>3
<1>6. CASE \E w \in Workers : serve_thread(w)
  BY <1>6, ServingServe
<1>7. CASE tcpip_thread
  <2>1. req' = req /\ th'[v].pc = th[v].pc
    BY <1>0, <1>7, TcpipStep DEF Moved, mainVars
  <2> QED BY <1>1, <2>1
<1>8. CASE (\E c \in Clients : ClientSend(c)) \/ InputSend \/ TimerSend
  <2>1. \E kind, who, n : Receive(kind, who, n)
    BY <1>8 DEF ClientSend, InputSend, TimerSend
  <2>2. Goes(Main, "got") /\ req' = req
    BY <2>1 DEF Receive, Goes
  <2> QED BY <1>0, <1>1, <2>2, GoTh
<1>9. CASE (\E c \in Clients : ClientRecv(c)) \/ InputRecv \/ InputSee \/ InputCopy \/ TimerRecv \/ OutputDone
  BY <1>1, <1>9 DEF ClientRecv, InputRecv, InputSee, InputCopy, TimerRecv, OutputDone, threadVars, mainVars
<1> QED BY <1>2, <1>3, <1>4, <1>5, <1>6, <1>7, <1>8, <1>9 DEF Next, NS, Timer, Input

\* What the main loop may have received.
LEMMA CallNext ==
    ASSUME BufInv, [Next]_vars, ipc'.kind \in Calls
    PROVE  \/ ipc' = ipc /\ ~MainServe
           \/ \E c \in Clients : ClientSend(c) /\ ipc'.who = c
<1>0. NoMsg.kind \notin Calls
  BY DEF NoMsg, Calls
<1>1. CASE NS
  <2>1. CASE MainServe
    BY <1>0, <2>1 DEF MainServe
  <2>2. CASE MainTimer
    BY <1>0, <2>2 DEF MainTimer
  <2>3. CASE ~MainServe /\ ~MainTimer
    <3>1. CASE (\E w \in Workers : serve_thread(w)) \/ tcpip_thread
      BY <2>3, <3>1, ServeStep, TcpipStep DEF BufInv, mainVars
    <3>2. CASE SemBlock \/ WaitLeave \/ WaitAgain \/ MainPanic \/ StayPanicked
      BY <2>3, <3>2 DEF SemBlock, WaitLeave, WaitAgain, MainPanic, StayPanicked, vars, mainVars
    <3>3. CASE MainFlush \/ MainRecv \/ MainTimerReply
      BY <2>3, <3>3 DEF MainFlush, MainRecv, MainTimerReply
    <3> QED BY <1>1, <2>3, <3>1, <3>2, <3>3 DEF NS
  <2> QED BY <2>1, <2>2, <2>3
<1>2. CASE \E c \in Clients : ClientSend(c)
  <2>1. PICK c \in Clients : ClientSend(c)
    BY <1>2
  <2>2. PICK kind : ipc' = [kind |-> kind, who |-> c, n |-> 0]
    BY <2>1 DEF ClientSend, Receive
  <2> QED BY <2>1, <2>2
<1>3. CASE InputSend \/ TimerSend
  <2>1. ipc'.kind \in {"input", "timer"}
    BY <1>3 DEF InputSend, TimerSend, Receive
  <2> QED BY <2>1 DEF Calls
<1>4. CASE (\E c \in Clients : ClientRecv(c)) \/ InputRecv \/ InputSee \/ InputCopy \/ TimerRecv \/ OutputDone
  <2>1. ipc' = ipc /\ th' = th /\ cur' = cur /\ req' = req
    BY <1>4 DEF ClientRecv, InputRecv, InputSee, InputCopy, TimerRecv, OutputDone, mainVars, threadVars
  <2>2. ~MainServe
    BY <1>0, <2>1 DEF MainServe
  <2> QED BY <2>1, <2>2
<1>5. CASE UNCHANGED vars
  <2>1. ipc' = ipc
    BY <1>5 DEF vars, mainVars
  <2>2. ~MainServe
    BY <1>0, <2>1 DEF MainServe
  <2> QED BY <2>1, <2>2
<1> QED BY <1>1, <1>2, <1>3, <1>4, <1>5 DEF Next, Timer, Input

LEMMA CallersNext ==
    ASSUME BufInv, WhoOK, CallersOK, [Next]_vars
    PROVE  CallersOK'
<1>1. ipc'.kind \in Calls => ipc'.who \in Clients
  BY CallNext DEF CallersOK
<1>2. ASSUME NEW w \in Workers, Serving(w)' PROVE req'[w].who \in Clients
  BY <1>2, ServingNext DEF CallersOK
<1> QED BY <1>1, <1>2 DEF CallersOK

LEMMA IdleServe ==
    ASSUME BufInv, OrderInv, SyncInv, ConnOK, CallersOK, IdleInv, NEW w \in Workers, serve_thread(w)
    PROVE  IdleInv'
<1>0. /\ ThreadsOK /\ w # Main /\ w # Tcpip /\ WhoOK /\ Stack \in Boxes
      /\ QueueOK /\ req[w].who \in Boxes
  BY Names, SemNames DEF BufInv, SyncInv, IdleInv, WhoOK
<1>1. ASSUME cur = w, NEW q, q # "none", Goes(w, q), UNCHANGED <<cur, queue, sem>>
      PROVE  IdleInv'
  <2>1. QueueOK' /\ Alive' = Alive
    BY <1>0, <1>1 DEF QueueOK, Alive
  <2> QED BY <1>0, <1>1, <2>1, IdleGo
<1>2. CASE ServeCall(w) \/ ServeInput(w) \/ ServeReset(w) \/ ServeSegment(w)
  <2>1. cur = w /\ UNCHANGED <<cur, queue, sem>>
    BY <1>2 DEF ServeCall, ServeInput, ServeReset, ServeSegment, Runs, syncVars
  <2>2. \E q \in {"fetch", "post", "reply", "segment", "deliver", "error", "done"} : Goes(w, q)
    BY <1>2 DEF ServeCall, ServeInput, ServeReset, ServeSegment
  <2>3. PICK q \in {"fetch", "post", "reply", "segment", "deliver", "error", "done"} : Goes(w, q)
    BY <2>2
  <2>4. q # "none"
    OBVIOUS
  <2> QED BY <1>1, <2>1, <2>3, <2>4
<1>3. CASE ServeSent(w)
  <2>1. cur = w /\ th[cur].wait = None /\ Signals(Done(req[w].who))
    BY <1>3 DEF ServeSent, Runs, Completed
  <2> QED BY <1>0, <2>1, IdleSignal
<1>4. CASE ServeFetch(w)
  <2> DEFINE m == req[w].who
             S == {Freed(m)}
             q == IF m \in Tcp /\ Oldest(m) = "data" THEN "post" ELSE "reply"
  <2>1. cur = w /\ th[w].pc = "fetch" /\ Passes(q, S) /\ q # "none"
    BY <1>4 DEF ServeFetch
  <2>2. SemOf(cur) = Queued(m)
    BY <1>0, <2>1 DEF SemOf
  <2>3. SemOf(cur) \notin S
    BY <1>0, <2>2, SemNames
  <2> HIDE DEF S, q
  <2> QED BY <1>0, <2>1, <2>3, IdlePass
<1>5. CASE ServePost(w)
  <2> DEFINE S == {Queued(Stack)}
  <2>1. cur = w /\ th[w].pc = "post" /\ Passes("op", S)
    BY <1>5 DEF ServePost
  <2>2. SemOf(cur) \notin S
    BY <1>0, <2>1, SemNames DEF SemOf
  <2> HIDE DEF S
  <2> QED BY <1>0, <2>1, <2>2, IdlePass
<1>6. CASE ServeOp(w)
  <2>1. cur = w /\ Passes("reply", {})
    BY <1>6 DEF ServeOp
  <2> QED BY <1>0, <2>1, IdlePass
<1>7. CASE ServeDeliver(w)
  <2> DEFINE S == {Queued(req[w].who)}
  <2>1. cur = w /\ th[w].pc = "deliver" /\ Passes("done", S)
    BY <1>7 DEF ServeDeliver
  <2>2. SemOf(cur) \notin S
    BY <1>0, <2>1, SemNames DEF SemOf
  <2> HIDE DEF S
  <2> QED BY <1>0, <2>1, <2>2, IdlePass
<1>8. CASE ServeReply(w) \/ ServeDone(w)
  <2>1. cur = w /\ Goes(cur, "none") /\ Halt /\ sem' = sem
    BY <1>8 DEF ServeReply, ServeDone, Runs, syncVars
  <2> QED BY <1>0, <2>1, IdleHalt
<1>9. CASE ServeError(w)
  <2> DEFINE c == req[w].who
             S == {Queued(c)} \cup {Done(x) : x \in later \cap {c}}
  <2>1. cur = w /\ th[w].pc = "error" /\ Passes("done", S)
    BY <1>9 DEF ServeError, Errored
  <2>2. SemOf(cur) \notin S
    <3>1. SemOf(cur) = Freed(c)
      BY <1>0, <2>1 DEF SemOf
    <3> QED BY <1>0, <3>1, SemNames
  <2> HIDE DEF S
  <2> QED BY <1>0, <2>1, <2>2, IdlePass
<1> QED BY <1>2, <1>3, <1>4, <1>5, <1>6, <1>7, <1>8, <1>9 DEF serve_thread

LEMMA IdleTcpip ==
    ASSUME BufInv, OrderInv, SyncInv, ConnOK, CallersOK, IdleInv, tcpip_thread
    PROVE  IdleInv'
<1>0. ThreadsOK /\ QueueOK /\ Stack \in Boxes /\ Main # Tcpip /\ Tcpip \notin Workers
  BY Names, SemNames DEF BufInv, IdleInv
<1>1. CASE TcpipCall \/ TcpipSend \/ TcpipLater
  <2>1. PICK c : c = Oldest(Stack)
    OBVIOUS
  <2>2. PICK S \in {{Freed(Stack), Done(c)}, {Freed(Stack)}} :
            cur = Tcpip /\ th[Tcpip].pc = "fetch" /\ Passes("fetch", S)
    <3>1. CASE TcpipCall
      BY <2>1, <3>1 DEF TcpipCall
    <3>2. CASE TcpipSend
      BY <2>1, <3>2 DEF TcpipSend
    <3>3. CASE TcpipLater
      BY <2>1, <3>3 DEF TcpipLater
    <3> QED BY <1>1, <3>1, <3>2, <3>3
  <2>3. SemOf(cur) \notin S
    <3>1. SemOf(cur) = Queued(Stack)
      BY <2>2 DEF SemOf
    <3> QED BY <1>0, <2>2, <3>1, SemNames
  <2>4. "fetch" # "none" /\ "fetch" \in {"fetch", "error"}
    OBVIOUS
  <2> QED BY <2>2, <2>3, <2>4, IdlePass
<1>2. CASE TcpipPoll
  <2>1. cur = Tcpip /\ th[cur].wait = None /\ \E c : Signals(Done(c))
    BY <1>2 DEF TcpipPoll, Runs, Completed
  <2> QED BY <1>0, <2>1, IdleSignal
<1>3. CASE TcpipAbort
  <2>1. cur = Tcpip /\ Goes(cur, "error") /\ UNCHANGED <<cur, queue, sem>>
    BY <1>3 DEF TcpipAbort, Runs
  <2>2. QueueOK' /\ Alive' = Alive
    BY <1>0, <2>1 DEF QueueOK, Alive
  <2>3. "error" # "none" /\ "error" \in {"fetch", "error"}
    OBVIOUS
  <2> QED BY <1>0, <2>1, <2>2, <2>3, IdleGo
<1>4. CASE TcpipError
  <2> DEFINE S == {Queued(victim)} \cup {Done(x) : x \in later \cap {victim}}
  <2>1. cur = Tcpip /\ th[Tcpip].pc = "error" /\ Passes("fetch", S)
    BY <1>4 DEF TcpipError, Errored
  <2>2. SemOf(cur) \notin S
    <3>1. SemOf(cur) = Freed(victim) /\ victim \in Boxes
      BY <2>1 DEF SemOf, ConnOK
    <3> QED BY <3>1, SemNames
  <2> HIDE DEF S
  <2>3. "fetch" # "none" /\ "fetch" \in {"fetch", "error"}
    OBVIOUS
  <2> QED BY <2>1, <2>2, <2>3, IdlePass
<1> QED BY <1>1, <1>2, <1>3, <1>4 DEF tcpip_thread

LEMMA IdleMain ==
    ASSUME BufInv, OrderInv, IdleInv,
           MainFlush \/ MainRecv \/ MainPanic \/ StayPanicked \/ MainTimer \/ MainTimerReply
    PROVE  IdleInv'
<1>0. ThreadsOK /\ QueueOK /\ Main # Tcpip
  BY Names DEF BufInv, IdleInv
<1>1. CASE MainFlush
  <2>1. UNCHANGED <<th, sem>> /\ cur = Main /\ th[Main].pc = "loop" /\ Yield(queue)
    BY <1>1 DEF MainFlush, syncVars
  <2> QED BY <1>0, <2>1, YieldQueue, IdleSame
<1>2. CASE MainRecv \/ MainPanic \/ MainTimerReply
  <2>1. /\ cur = Main /\ UNCHANGED <<cur, queue, sem>>
        /\ \E q \in MainPlaces : Goes(cur, q)
    <3>1. CASE MainRecv
      BY <3>1 DEF MainRecv, Flushed, Goes, MainPlaces, syncVars
    <3>2. CASE MainPanic
      BY <3>2 DEF MainPanic, Flushed, Goes, MainPlaces, syncVars
    <3>3. CASE MainTimerReply
      BY <3>3 DEF MainTimerReply, Goes, MainPlaces, syncVars
    <3> QED BY <1>2, <3>1, <3>2, <3>3
  <2>2. PICK q \in MainPlaces : Goes(cur, q)
    BY <2>1
  <2>3. q # "none" /\ QueueOK' /\ Alive' = Alive
    BY <1>0, <2>1 DEF MainPlaces, QueueOK, Alive
  <2> QED BY <1>0, <2>1, <2>2, <2>3, IdleGo
<1>3. CASE MainTimer
  <2>1. cur = Main /\ Goes(cur, "timer") /\ sem' = sem /\ Yield(queue)
    BY <1>3 DEF MainTimer, Goes, syncVars
  <2>2. QueueOK' /\ Alive' = Alive
    BY <1>0, <2>1, YieldQueue
  <2>3. "timer" \in MainPlaces /\ "timer" # "none" /\ "timer" \in {"loop", "timer"}
    BY DEF MainPlaces
  <2> QED BY <1>0, <2>1, <2>2, <2>3, IdleGo
<1>4. CASE StayPanicked
  BY <1>4, IdleStay DEF StayPanicked, vars, threadVars, syncVars
<1> QED BY <1>1, <1>2, <1>3, <1>4

LEMMA IdleNext ==
    ASSUME BufInv, OrderInv, SyncInv, ConnOK, CallersOK, IdleInv, [Next]_vars
    PROVE  IdleInv'
<1>0. ThreadsOK /\ QueueOK /\ Stack \in Boxes /\ Main # Tcpip
  BY Names, SemNames DEF BufInv, IdleInv
<1>1. CASE SemBlock
  BY <1>1, IdleBlock
<1>2. CASE WaitLeave
  <2>1. PICK q : q = th[cur].pc
    OBVIOUS
  <2>2. Goes(cur, q) /\ UNCHANGED <<cur, queue, sem>> /\ th[cur].wait # None
    BY <1>2, <2>1 DEF WaitLeave, Goes, syncVars
  <2>3. cur # Main /\ (cur = Tcpip => q \in {"fetch", "error"}) /\ cur \in Threads
    BY <2>1, <2>2 DEF IdleInv, MainOK, OrderInv
  <2>4. q # "none"
    <3>1. cur \in Workers \/ cur = Tcpip
      BY <2>3 DEF Threads
    <3>2. CASE cur \in Workers
      BY <2>1, <2>3, <3>2 DEF IdleInv, PlaceOK, Alive
    <3>3. CASE cur = Tcpip
      BY <2>3, <3>3
    <3> QED BY <3>1, <3>2, <3>3
  <2>5. QueueOK' /\ Alive' = Alive
    BY <1>0, <2>2 DEF QueueOK, Alive
  <2> QED BY <1>0, <2>2, <2>3, <2>4, <2>5, IdleGo
<1>3. CASE WaitAgain
  <2>1. UNCHANGED <<th, sem>> /\ th[cur].wait # None /\ Yield(queue)
    BY <1>3 DEF WaitAgain, syncVars
  <2>2. cur # Main
    BY <2>1 DEF IdleInv, MainOK
  <2> QED BY <1>0, <2>1, <2>2, YieldQueue, IdleSame
<1>4. CASE MainFlush \/ MainRecv \/ MainPanic \/ StayPanicked \/ MainTimer \/ MainTimerReply
  BY <1>4, IdleMain
<1>5. CASE MainServe
  BY <1>5, IdleCreate
<1>6. CASE \E w \in Workers : serve_thread(w)
  BY <1>6, IdleServe
<1>7. CASE tcpip_thread
  BY <1>7, IdleTcpip
<1>8. CASE (\E c \in Clients : ClientSend(c)) \/ InputSend \/ TimerSend
  <2>1. \E kind, who, n : Receive(kind, who, n)
    BY <1>8 DEF ClientSend, InputSend, TimerSend
  <2>2. cur = Main /\ Goes(cur, "got") /\ UNCHANGED <<cur, queue, sem>>
    BY <2>1 DEF Receive, Receives, Goes, syncVars
  <2>3. "got" \in MainPlaces /\ "got" # "none" /\ QueueOK' /\ Alive' = Alive
    BY <1>0, <2>2 DEF MainPlaces, QueueOK, Alive
  <2> QED BY <1>0, <2>2, <2>3, IdleGo
<1>9. CASE (\E c \in Clients : ClientRecv(c)) \/ InputRecv \/ InputSee \/ InputCopy \/ TimerRecv
           \/ OutputDone \/ UNCHANGED vars
  BY <1>9, IdleStay DEF ClientRecv, InputRecv, InputSee, InputCopy, TimerRecv, OutputDone, vars,
                        threadVars, syncVars
<1> QED BY <1>1, <1>2, <1>3, <1>4, <1>5, <1>6, <1>7, <1>8, <1>9 DEF Next, NS, Timer, Input

\* The main loop does not move when another thread runs.
LEMMA MainStays ==
    ASSUME BufInv, (\E w \in Workers : serve_thread(w)) \/ tcpip_thread
    PROVE  cur # Main /\ th'[Main].pc = th[Main].pc
<1>0. ThreadsOK /\ Main \in Threads
  BY Names DEF BufInv
<1>1. CASE \E w \in Workers : serve_thread(w)
  BY <1>0, <1>1, ServeStep, Names DEF Moved
<1>2. CASE tcpip_thread
  BY <1>0, <1>2, TcpipStep, Names DEF Moved
<1> QED BY <1>1, <1>2

\* The server starts to receive only in MainRecv, and then no thread runs.
LEMMA ReceivesNext ==
    ASSUME BufInv, IdleInv, SyncInv, ConnOK, OrderInv, CallersOK, [Next]_vars, Receives'
    PROVE  MainRecv \/ (Receives /\ UNCHANGED <<cur, queue, th, sem, yields>>)
<1>0. ThreadsOK /\ Main \in Threads /\ cur' = Main /\ th'[Main].pc = "recv"
  BY Names DEF BufInv, Receives
<1>1. cur # Main => th[Main].pc # "recv"
  BY DEF IdleInv, MainOK
<1>2. CASE SemBlock \/ WaitLeave \/ WaitAgain
  <2>1. th'[Main].pc = th[Main].pc
    BY <1>0, <1>2, QuietSteps DEF Quiet
  <2>2. cur # Main
    <3>1. CASE SemBlock
      BY <3>1, SemOfIs DEF SemBlock, AtSem, SyncInv, IdleInv
    <3>2. CASE WaitLeave \/ WaitAgain
      BY <3>2 DEF WaitLeave, WaitAgain, IdleInv, MainOK
    <3> QED BY <1>2, <3>1, <3>2
  <2> QED BY <1>0, <1>1, <2>1, <2>2
<1>3. CASE MainFlush \/ StayPanicked
  <2>1. th' = th /\ th[Main].pc # "recv"
    BY <1>3 DEF MainFlush, StayPanicked, Panicked, vars, threadVars
  <2> QED BY <1>0, <2>1
<1>4. CASE MainPanic \/ MainTimer \/ MainTimerReply
  <2>1. \E q : q # "recv" /\ Goes(Main, q)
    BY <1>4 DEF MainPanic, MainTimer, MainTimerReply, Goes
  <2> QED BY <1>0, <2>1, GoTh
<1>5. CASE MainServe
  <2>1. th' = [th EXCEPT ![mva] = At("start"), ![Main] = At("loop")]
    BY <1>5 DEF MainServe
  <2>2. mva # Main
    BY Names DEF BufInv
  <2>3. th'[Main] = At("loop")
    BY <1>0, <2>1, <2>2 DEF ThreadsOK
  <2> QED BY <1>0, <2>3, AtFields
<1>6. CASE (\E w \in Workers : serve_thread(w)) \/ tcpip_thread
  BY <1>0, <1>1, <1>6, MainStays
<1>7. CASE (\E c \in Clients : ClientSend(c)) \/ InputSend \/ TimerSend
  <2>1. \E kind, who, n : Receive(kind, who, n)
    BY <1>7 DEF ClientSend, InputSend, TimerSend
  <2>2. Goes(Main, "got")
    BY <2>1 DEF Receive, Goes
  <2> QED BY <1>0, <2>2, GoTh
<1>8. CASE (\E c \in Clients : ClientRecv(c)) \/ InputRecv \/ InputSee \/ InputCopy \/ TimerRecv
           \/ OutputDone \/ UNCHANGED vars
  <2>1. UNCHANGED <<cur, queue, th, sem, yields>>
    BY <1>8 DEF ClientRecv, InputRecv, InputSee, InputCopy, TimerRecv, OutputDone, vars, threadVars,
                syncVars, mainVars
  <2> QED BY <1>0, <2>1 DEF Receives
<1> QED BY <1>2, <1>3, <1>4, <1>5, <1>6, <1>7, <1>8 DEF Next, NS, Timer, Input

LEMMA BlocksNext ==
    ASSUME BufInv, IdleInv, SyncInv, ConnOK, OrderInv, CallersOK, BlocksWhenIdle, [Next]_vars
    PROVE  BlocksWhenIdle'
<1> SUFFICES ASSUME Receives', yields' < MaxYields, NEW t \in Range(queue)'
             PROVE  ~CanGo(t)'
  BY DEF BlocksWhenIdle
<1>1. CASE Receives /\ UNCHANGED <<cur, queue, th, sem, yields>>
  BY <1>1 DEF BlocksWhenIdle, CanGo, WaitOver, V
<1>2. CASE MainRecv
  <2>1. /\ cur = Main /\ Goes(Main, "recv") /\ UNCHANGED <<queue, sem, yields>>
        /\ Pending = {} \/ yields = MaxYields
    BY <1>2 DEF MainRecv, Flushed, Goes, syncVars
  <2>2. t \in Range(queue) /\ t # Main /\ ~th[t].wakeup
    BY <2>1, NetServerAssumption DEF Pending, IdleInv, QueueOK
  <2>3. t \in Threads
    BY <2>2 DEF OrderInv, Range
  <2>4. th'[t] = th[t]
    BY <2>1, <2>2, <2>3, GoTh DEF BufInv
  <2>5. th[t].pc # "start"
    <3>1. t \in Workers => th[t].pc # "start"
      BY <2>1, MainLast
    <3>2. th[Tcpip].pc \in {"fetch", "error"}
      BY DEF IdleInv, MainOK
    <3> QED BY <2>2, <2>3, <3>1, <3>2 DEF Threads
  <2>6. PICK z : z = th[t].wait
    OBVIOUS
  <2>7. z # None
    BY <2>2, <2>3, <2>5, <2>6 DEF IdleInv, PlaceOK
  <2>8. z \in Sems /\ th[t].val = <<0, 1>> /\ V(z) = <<0, 1>>
    BY <2>2, <2>3, <2>6, <2>7 DEF IdleInv, SleepOK
  <2>9. sem[z].counter = 0
    BY <2>8 DEF V
  <2> QED BY <2>1, <2>2, <2>4, <2>6, <2>7, <2>8, <2>9 DEF CanGo, WaitOver, V
<1> QED BY <1>1, <1>2, ReceivesNext

LEMMA IdleInit == Init => IdleInv /\ CallersOK /\ BlocksWhenIdle
<1> SUFFICES ASSUME Init PROVE IdleInv /\ CallersOK /\ BlocksWhenIdle
  OBVIOUS
<1>1. \A t \in Threads : th[t] = CASE t = Main  -> At("loop")
                                   [] t = Tcpip -> [pc |-> "fetch", wait |-> Queued(Stack),
                                                    val |-> <<0, 1>>, wakeup |-> FALSE]
                                   [] OTHER     -> At("none")
  BY DEF Init
<1>2. /\ th[Main].pc = "loop" /\ th[Main].wait = None
      /\ th[Tcpip].pc = "fetch" /\ th[Tcpip].wait = Queued(Stack) /\ th[Tcpip].val = <<0, 1>>
      /\ \A w \in Workers : th[w].pc = "none" /\ th[w].wait = None
  BY <1>1, Names, AtFields
<1>3. cur = Main /\ queue = <<Tcpip>> /\ Range(queue) = {Tcpip} /\ Alive = {Main, Tcpip}
  <2>1. cur = Main /\ queue = <<Tcpip>>
    BY DEF Init
  <2>2. Range(queue) = {Tcpip}
    BY <2>1 DEF Range
  <2> QED BY <2>1, <2>2 DEF Alive
<1>4. V(Queued(Stack)) = <<0, 1>> /\ Queued(Stack) \in Sems /\ Queued(Stack) # None
  <2>1. PICK s \in Sems : s = Queued(Stack)
    BY SemNames
  <2>2. s[1] = "queued_msg" /\ s # None
    BY <2>1 DEF Queued, None
  <2>3. sem[s].counter = 0 /\ sem[s].waiters = 1
    BY <2>1, <2>2 DEF Init
  <2> QED BY <2>1, <2>2, <2>3 DEF V
<1>5. QueueOK
  BY <1>3, Names DEF QueueOK
<1>6. MainOK
  BY <1>2, <1>3 DEF MainOK, MainPlaces
<1>7. ASSUME NEW t \in Threads PROVE PlaceOK(t) /\ SleepOK(t)
  <2>1. CASE t \in Workers
    BY <1>2, <1>3, <2>1, Names DEF PlaceOK, SleepOK
  <2>2. CASE t = Main
    BY <1>2, <1>3, <2>2, Names DEF PlaceOK, SleepOK
  <2>3. CASE t = Tcpip
    BY <1>2, <1>3, <1>4, <2>3, Names DEF PlaceOK, SleepOK
  <2> QED BY <2>1, <2>2, <2>3 DEF Threads
<1>8. CallersOK
  <2>1. ipc.kind \notin Calls
    BY DEF Init, NoMsg, Calls
  <2> QED BY <1>2, <2>1 DEF CallersOK, Serving, CallPlaces
<1>9. BlocksWhenIdle
  BY <1>2 DEF BlocksWhenIdle, Receives
<1> QED BY <1>5, <1>6, <1>7, <1>8, <1>9 DEF IdleInv

\* When the server blocks in ipc_recv(), no thread is left that could go on,
\* but for the main loop having given up yielding (serve(), thread_yield()).
THEOREM BlocksOnlyWhenIdle == Spec => []BlocksWhenIdle
<1> DEFINE I == PktInv /\ SyncInv /\ ConnOK /\ CallersOK /\ IdleInv /\ BlocksWhenIdle
<1>1. Init => I
  BY PktInit, SyncInit, IdleInit
<1>2. I /\ [Next]_vars => I'
  <2> SUFFICES ASSUME I, [Next]_vars PROVE I'
    OBVIOUS
  <2>1. BufInv /\ OrderInv /\ WhoOK
    BY DEF PktInv, SyncInv
  <2> QED BY <2>1, PktNext, SyncNext, ConnNext, CallersNext, IdleNext, BlocksNext
<1>3. I => BlocksWhenIdle
  OBVIOUS
<1> QED BY <1>1, <1>2, <1>3, PTL DEF Spec

-----------------------------------------------------------------------------
(* Calls: each client has one at a time, so that its op_completed semaphore *)
(* is signalled at most once before it is waited for.                      *)

\* Slot i of the tcpip thread's mailbox holds a message.
Slots == 0 .. MBOXSLOTS - 1
Full(i) ==
    /\ box[Stack].head # -1
    /\ IF box[Stack].head < box[Stack].nextq
         THEN box[Stack].head <= i /\ i < box[Stack].nextq
         ELSE box[Stack].head <= i \/ i < box[Stack].nextq
Posted(i) == box[Stack].msg[i]

\* The thread that serves c waits for op_completed.
WaitsDone(c) == \E w \in Workers : th[w].pc = "op" /\ req[w].who = c

OneCall ==
    /\ cl = [c \in Clients |-> [pc |-> cl[c].pc, kind |-> cl[c].kind]]
    /\ \A v, w \in Workers : Serving(v) /\ Serving(w) /\ req[v].who = req[w].who => v = w
    /\ \A w \in Workers : Serving(w) => cl[req[w].who].pc # "idle"
    /\ ipc.kind \in Calls =>
           /\ cl[ipc.who].pc # "idle"
           /\ \A w \in Workers : Serving(w) => req[w].who # ipc.who

PostOK(i) ==
    Full(i) =>
        /\ Posted(i) \in Clients /\ Posted(i) \notin later
        /\ sem[Done(Posted(i))].counter = 0 /\ WaitsDone(Posted(i))

DoneOK(c) ==
    /\ sem[Done(c)].counter = 0 \/ (sem[Done(c)].counter = 1 /\ WaitsDone(c))
    /\ c \in later => sem[Done(c)].counter = 0 /\ WaitsDone(c)

PostInv ==
    /\ box[Stack].msg = [i \in Slots |-> Posted(i)]
    /\ \A i \in Slots : PostOK(i)
    /\ \A i, j \in Slots : Full(i) /\ Full(j) /\ Posted(i) = Posted(j) => i = j
    /\ \A c \in Clients : DoneOK(c)

\* Who moves a thread.
LEMMA Moves ==
    ASSUME BufInv, WhoOK, [Next]_vars, NEW v \in Workers
    PROVE  \/ th'[v].pc = th[v].pc /\ req'[v] = req[v]
           \/ MainServe /\ v = mva
           \/ serve_thread(v)
<1>0. ThreadsOK /\ v \in Threads /\ v # Main /\ v # Tcpip /\ Main \in Threads /\ mva \in Workers
  BY Names DEF BufInv
<1>1. CASE SemBlock \/ WaitLeave \/ WaitAgain
  BY <1>0, <1>1, QuietSteps DEF Quiet, mainVars
<1>2. CASE MainFlush \/ StayPanicked \/ UNCHANGED vars
  BY <1>2 DEF MainFlush, StayPanicked, vars, threadVars, mainVars
<1>3. CASE MainRecv \/ MainPanic \/ MainTimer \/ MainTimerReply
  <2>1. req' = req /\ \E q : Goes(Main, q)
    BY <1>3 DEF MainRecv, MainPanic, MainTimer, MainTimerReply, Goes, mainVars
  <2> QED BY <1>0, <2>1, GoTh
<1>4. CASE MainServe
  <2>1. /\ th' = [th EXCEPT ![mva] = At("start"), ![Main] = At("loop")]
        /\ req' = [req EXCEPT ![mva] = ipc]
    BY <1>4 DEF MainServe
  <2>2. v # mva => th'[v] = th[v] /\ req'[v] = req[v]
    BY <1>0, <2>1 DEF ThreadsOK, WhoOK
  <2> QED BY <1>4, <2>2
<1>5. CASE \E w \in Workers : serve_thread(w)
  <2>1. PICK w \in Workers : serve_thread(w)
    BY <1>5
  <2>2. CASE v = w
    BY <2>1, <2>2
  <2>3. CASE v # w
    <3>1. req'[v] = req[v]
      BY <1>0, <2>1, <2>3, ServeStep DEF WhoOK
    <3>2. th'[v].pc = th[v].pc
      BY <1>0, <2>1, <2>3, ServeStep DEF Moved
    <3> QED BY <3>1, <3>2
  <2> QED BY <2>2, <2>3
<1>6. CASE tcpip_thread
  BY <1>0, <1>6, TcpipStep DEF Moved, mainVars
<1>7. CASE (\E c \in Clients : ClientSend(c)) \/ InputSend \/ TimerSend
  <2>1. \E kind, who, n : Receive(kind, who, n)
    BY <1>7 DEF ClientSend, InputSend, TimerSend
  <2>2. Goes(Main, "got") /\ req' = req
    BY <2>1 DEF Receive, Goes
  <2> QED BY <1>0, <2>2, GoTh
<1>8. CASE (\E c \in Clients : ClientRecv(c)) \/ InputRecv \/ InputSee \/ InputCopy \/ TimerRecv \/ OutputDone
  BY <1>8 DEF ClientRecv, InputRecv, InputSee, InputCopy, TimerRecv, OutputDone, threadVars, mainVars
<1> QED BY <1>1, <1>2, <1>3, <1>4, <1>5, <1>6, <1>7, <1>8 DEF Next, NS, Timer, Input

\* Only an answer changes what a client does.
LEMMA ServeCl ==
    ASSUME NEW w \in Workers, serve_thread(w), ~ServeReply(w), ~ServeDone(w)
    PROVE  cl' = cl
BY DEF serve_thread, ServeCall, ServeInput, ServeReset, ServeSent, ServeSegment, ServeFetch, ServePost,
       ServeOp, ServeDeliver, ServeError, envVars

\* When a client is answered.
LEMMA ClNext ==
    ASSUME OneCall, BufInv, [Next]_vars, NEW c \in Clients
    PROVE  /\ cl' = [d \in Clients |-> [pc |-> cl'[d].pc, kind |-> cl'[d].kind]]
           /\ cl'[c].pc = "idle" =>
                 \/ cl[c].pc = "idle"
                 \/ \E w \in Workers : /\ th[w].pc = "reply" /\ req[w].who = c
                                       /\ th'[w].pc = "none"
           /\ ClientSend(c) => cl'[c].pc # "idle"
<1> DEFINE Fields == cl' = [d \in Clients |-> [pc |-> cl'[d].pc, kind |-> cl'[d].kind]]
<1>1. CASE cl' = cl
  <2>1. ~ClientSend(c)
    <3> SUFFICES ASSUME ClientSend(c) PROVE FALSE
      OBVIOUS
    <3>1. cl[c].pc = "idle" /\ \E kind : cl' = [cl EXCEPT ![c] = [pc |-> "sent", kind |-> kind]]
      BY DEF ClientSend
    <3>2. cl'[c].pc = "sent"
      BY <3>1 DEF OneCall
    <3> QED BY <1>1, <3>1, <3>2
  <2> QED BY <1>1, <2>1 DEF OneCall
<1>2. CASE \E d \in Clients : ClientSend(d)
  <2>1. PICK d \in Clients : ClientSend(d)
    BY <1>2
  <2>2. PICK kind : cl' = [cl EXCEPT ![d] = [pc |-> "sent", kind |-> kind]]
    BY <2>1 DEF ClientSend
  <2>3. Fields /\ cl'[d].pc = "sent" /\ (c # d => cl'[c] = cl[c])
    BY <2>2 DEF OneCall
  <2>4. ClientSend(c) => c = d
    <3> SUFFICES ASSUME ClientSend(c), c # d PROVE FALSE
      OBVIOUS
    <3>1. cl[c].pc = "idle" /\ \E k : cl' = [cl EXCEPT ![c] = [pc |-> "sent", kind |-> k]]
      BY DEF ClientSend
    <3>2. cl'[c].pc = "sent"
      BY <3>1 DEF OneCall
    <3> QED BY <2>3, <3>1, <3>2
  <2> QED BY <2>3, <2>4
<1>3. CASE \E d \in Clients : ClientRecv(d)
  <2>1. PICK d \in Clients : ClientRecv(d)
    BY <1>3
  <2>2. cl' = [cl EXCEPT ![d].pc = "recving"] /\ cl[d].pc = "sent" /\ ipc' = ipc /\ th' = th
    BY <2>1 DEF ClientRecv, mainVars, threadVars
  <2>3. Fields /\ cl'[d].pc = "recving" /\ (c # d => cl'[c] = cl[c])
    BY <2>2 DEF OneCall
  <2>4. ~ClientSend(c)
    <3> SUFFICES ASSUME ClientSend(c) PROVE FALSE
      OBVIOUS
    <3>1. th[Main].pc = "recv" /\ Goes(Main, "got")
      BY DEF ClientSend, Receive, Receives, Goes
    <3>2. th'[Main].pc = "got"
      BY <3>1, GoTh, Names DEF BufInv
    <3> QED BY <2>2, <3>1, <3>2
  <2> QED BY <2>3, <2>4
<1>4. CASE \E w \in Workers : ServeReply(w)
  <2>1. PICK w \in Workers : ServeReply(w)
    BY <1>4
  <2>2. PICK d : d = req[w].who
    OBVIOUS
  <2>3. cl' = [cl EXCEPT ![d].pc = "idle"] /\ th[w].pc = "reply" /\ Goes(w, "none") /\ cur = w
    BY <2>1, <2>2 DEF ServeReply, Runs
  <2>4. th'[w].pc = "none" /\ w # Main
    BY <2>3, GoTh, Names DEF BufInv
  <2>5. Fields /\ (c # d => cl'[c] = cl[c])
    <3>1. CASE d \in Clients
      BY <2>3, <3>1 DEF OneCall
    <3>2. CASE d \notin Clients
      <4>1. cl' = cl
        BY <2>3, <3>2 DEF OneCall
      <4> QED BY <4>1 DEF OneCall
    <3> QED BY <3>1, <3>2
  <2>6. ~ClientSend(c)
    BY <2>3, <2>4 DEF ClientSend, Receive, Receives
  <2> QED BY <2>2, <2>3, <2>4, <2>5, <2>6
<1>5. CASE \E w \in Workers : serve_thread(w) /\ ~ServeReply(w)
  <2>1. PICK w \in Workers : serve_thread(w) /\ ~ServeReply(w)
    BY <1>5
  <2>2. CASE ServeDone(w)
    BY <1>1, <2>2 DEF ServeDone
  <2>3. CASE ~ServeDone(w)
    BY <1>1, <2>1, <2>3, ServeCl
  <2> QED BY <2>2, <2>3
<1>6. CASE SemBlock \/ WaitLeave \/ WaitAgain \/ MainFlush \/ MainRecv \/ MainPanic \/ StayPanicked \/ MainServe
           \/ MainTimer \/ UNCHANGED vars
  <2>1. cl' = cl
    BY <1>6 DEF SemBlock, WaitLeave, WaitAgain, MainFlush, MainRecv, MainPanic, StayPanicked, MainServe,
                MainTimer, vars, envVars
  <2> QED BY <1>1, <2>1
<1>7. CASE MainTimerReply \/ tcpip_thread \/ Timer \/ Input \/ OutputDone
  <2>1. cl' = cl
    BY <1>7, TcpipStep DEF BufInv, MainTimerReply, Timer, TimerSend, TimerRecv, Input, InputRecv, InputSee,
                           InputCopy, InputSend, OutputDone
  <2> QED BY <1>1, <2>1
<1> QED BY <1>2, <1>3, <1>4, <1>5, <1>6, <1>7 DEF Next, NS

LEMMA OneCallNext ==
    ASSUME BufInv, WhoOK, CallersOK, OneCall, [Next]_vars
    PROVE  OneCall'
<1>1. ASSUME NEW w \in Workers, Serving(w)'
      PROVE  /\ th'[w].pc # "none" /\ req'[w].who \in Clients
             /\ \/ Serving(w) /\ req'[w].who = req[w].who
                \/ MainServe /\ w = mva /\ ipc.kind \in Calls /\ req'[w].who = ipc.who
  <2>1. th'[w].pc # "none"
    BY <1>1 DEF Serving, CallPlaces
  <2>2. CallersOK'
    BY CallersNext
  <2> QED BY <1>1, <2>1, <2>2, ServingNext DEF CallersOK
<1>2. ASSUME NEW w \in Workers, th[w].pc = "reply" PROVE Serving(w)
  BY <1>2 DEF Serving, CallPlaces
<1>3. ASSUME NEW v \in Workers, NEW w \in Workers, Serving(v)', Serving(w)', req'[v].who = req'[w].who
      PROVE  v = w
  BY <1>1, <1>3 DEF OneCall
<1>4. ASSUME NEW w \in Workers, Serving(w)' PROVE cl'[req'[w].who].pc # "idle"
  <2>1. PICK c \in Clients : c = req'[w].who
    BY <1>1, <1>4
  <2>2. cl[c].pc # "idle"
    BY <1>1, <1>4, <2>1 DEF OneCall
  <2>3. ASSUME NEW u \in Workers, th[u].pc = "reply", req[u].who = c, th'[u].pc = "none" PROVE FALSE
    <3>1. Serving(u) /\ u # w
      BY <1>1, <1>2, <1>4, <2>3
    <3> QED BY <1>1, <1>4, <2>1, <2>3, <3>1 DEF OneCall
  <2>4. cl'[c].pc # "idle"
    BY <2>2, <2>3, ClNext
  <2> QED BY <2>1, <2>4
<1>5. ASSUME ipc'.kind \in Calls
      PROVE  cl'[ipc'.who].pc # "idle" /\ \A w \in Workers : Serving(w)' => req'[w].who # ipc'.who
  <2>1. CASE ipc' = ipc /\ ~MainServe
    <3>1. PICK c \in Clients : c = ipc.who
      BY <1>5, <2>1 DEF CallersOK
    <3>2. cl[c].pc # "idle" /\ \A u \in Workers : Serving(u) => req[u].who # c
      BY <1>5, <2>1, <3>1 DEF OneCall
    <3>3. cl'[c].pc # "idle"
      BY <1>2, <3>2, ClNext
    <3>4. \A w \in Workers : Serving(w)' => req'[w].who # c
      BY <1>1, <2>1, <3>2
    <3> QED BY <2>1, <3>1, <3>3, <3>4
  <2>2. CASE \E c \in Clients : ClientSend(c) /\ ipc'.who = c
    <3>1. PICK c \in Clients : ClientSend(c) /\ ipc'.who = c
      BY <2>2
    <3>2. cl[c].pc = "idle"
      BY <3>1 DEF ClientSend
    <3>3. cl'[c].pc # "idle"
      BY <3>1, ClNext
    <3>4. \A w \in Workers : Serving(w)' => req'[w].who # c
      BY <1>1, <3>2 DEF OneCall
    <3> QED BY <3>1, <3>3, <3>4
  <2> QED BY <1>5, <2>1, <2>2, CallNext
<1>6. cl' = [d \in Clients |-> [pc |-> cl'[d].pc, kind |-> cl'[d].kind]]
  <2>1. CASE Clients = {}
    <3>1. cl = [d \in Clients |-> [pc |-> cl[d].pc, kind |-> cl[d].kind]]
      BY DEF OneCall
    <3>2. cl' = cl \/ \E d : cl' = [cl EXCEPT ![d].pc = "idle"]
      <4>1. CASE \E w \in Workers : serve_thread(w)
        <5>1. PICK w \in Workers : serve_thread(w)
          BY <4>1
        <5>2. CASE ServeReply(w) \/ ServeDone(w)
          BY <5>2 DEF ServeReply, ServeDone
        <5> QED BY <5>1, <5>2, ServeCl
      <4>2. CASE SemBlock \/ WaitLeave \/ WaitAgain \/ MainFlush \/ MainRecv \/ MainPanic \/ StayPanicked
                 \/ MainServe \/ MainTimer \/ UNCHANGED vars
        BY <4>2 DEF SemBlock, WaitLeave, WaitAgain, MainFlush, MainRecv, MainPanic, StayPanicked, MainServe,
                    MainTimer, vars, envVars
      <4>3. CASE MainTimerReply \/ tcpip_thread \/ Timer \/ Input \/ OutputDone
        BY <4>3, TcpipStep DEF BufInv, MainTimerReply, Timer, TimerSend, TimerRecv, Input, InputRecv,
                               InputSee, InputCopy, InputSend, OutputDone
      <4>4. CASE \E c \in Clients : ClientSend(c) \/ ClientRecv(c)
        BY <2>1, <4>4
      <4> QED BY <4>1, <4>2, <4>3, <4>4 DEF Next, NS
    <3> QED BY <2>1, <3>1, <3>2
  <2>2. CASE Clients # {}
    BY <2>2, ClNext
  <2> QED BY <2>1, <2>2
<1> QED BY <1>3, <1>4, <1>5, <1>6 DEF OneCall

\* The slots of the tcpip thread's mailbox when a message is put into it,
LEMMA SlotPut ==
    ASSUME BoxesOK, box[Stack].msg = [i \in Slots |-> Posted(i)],
           NEW msg, Put(Stack, msg), Count(Stack) < MBOXSLOTS
    PROVE  \E q \in Slots :
              /\ ~Full(q) /\ \A i \in Slots : Full(i)' <=> Full(i) \/ i = q
              /\ \A i \in Slots : Posted(i)' = IF i = q THEN msg ELSE Posted(i)
              /\ box'[Stack].msg = [i \in Slots |-> Posted(i)']
<1>0. MBOXSLOTS \in Nat \ {0} /\ Stack \in Boxes
  BY NetServerAssumption, SemNames
<1>1. PICK h \in -1 .. MBOXSLOTS - 1 : h = box[Stack].head
  BY <1>0 DEF BoxesOK, BoxOK
<1>2. PICK q \in Slots : q = box[Stack].nextq
  BY <1>0 DEF BoxesOK, BoxOK, Slots
<1>3. PICK ms : ms = [box[Stack].msg EXCEPT ![q] = msg]
  OBVIOUS
<1>4. PICK n \in Slots : n = NextSlot(q) /\ n = IF q = MBOXSLOTS - 1 THEN 0 ELSE q + 1
  BY <1>0, SlotNext DEF Slots
<1>5. PICK g \in Slots : g = IF h = -1 THEN q ELSE h
  BY <1>0 DEF Slots
<1>6. box' = [box EXCEPT ![Stack] = [head |-> g, nextq |-> n, msg |-> ms]]
  BY <1>1, <1>2, <1>3, <1>4, <1>5 DEF Put
<1>7. box'[Stack] = [head |-> g, nextq |-> n, msg |-> ms]
  BY <1>0, <1>6 DEF BoxesOK
<1>8. box'[Stack].head = g /\ box'[Stack].nextq = n /\ box'[Stack].msg = ms
  BY <1>7
<1>9. /\ \A i \in Slots : ms[i] = IF i = q THEN msg ELSE Posted(i)
      /\ ms = [i \in Slots |-> ms[i]]
  BY <1>3
<1>10. h # -1 => h # q
  <2>1. h # -1 => Count(Stack) = IF h < q THEN q - h ELSE q - h + MBOXSLOTS
    BY <1>0, <1>1, <1>2, CountIs DEF Slots
  <2> QED BY <1>0, <1>1, <1>2, <2>1 DEF Slots
<1>11. ASSUME NEW i \in Slots PROVE Full(i)' <=> IF g < n THEN g <= i /\ i < n ELSE g <= i \/ i < n
  BY <1>8 DEF Full, Slots
<1>12. ASSUME NEW i \in Slots
       PROVE  Full(i) <=> h # -1 /\ IF h < q THEN h <= i /\ i < q ELSE h <= i \/ i < q
  BY <1>1, <1>2 DEF Full
<1>13. ~Full(q)
  BY <1>0, <1>10, <1>12 DEF Slots
<1>14. h # -1 => h < q \/ q < h
  BY <1>10 DEF Slots
<1>15. \A i \in Slots : Full(i)' <=> Full(i) \/ i = q
  <2> SUFFICES ASSUME NEW i \in Slots PROVE Full(i)' <=> Full(i) \/ i = q
    OBVIOUS
  <2>1. CASE h = -1
    BY <1>0, <1>4, <1>5, <1>11, <1>12, <2>1 DEF Slots
  <2>2. CASE h # -1 /\ h < q
    BY <1>0, <1>4, <1>5, <1>11, <1>12, <2>2 DEF Slots
  <2>3. CASE h # -1 /\ q < h
    BY <1>0, <1>4, <1>5, <1>11, <1>12, <2>3 DEF Slots
  <2> QED BY <1>14, <2>1, <2>2, <2>3
<1> QED BY <1>8, <1>9, <1>13, <1>15 DEF Posted

\* and when one is taken out.
LEMMA SlotTake ==
    ASSUME BoxesOK, box[Stack].msg = [i \in Slots |-> Posted(i)], Take(Stack), Count(Stack) > 0
    PROVE  \E h \in Slots :
              /\ Full(h) /\ Oldest(Stack) = Posted(h)
              /\ \A i \in Slots : Full(i)' <=> Full(i) /\ i # h
              /\ \A i \in Slots : i # h => Posted(i)' = Posted(i)
              /\ box'[Stack].msg = [i \in Slots |-> Posted(i)']
<1>0. MBOXSLOTS \in Nat \ {0} /\ Stack \in Boxes
  BY NetServerAssumption, SemNames
<1>1. PICK h \in Slots : h = box[Stack].head
  BY <1>0, CountRange DEF BoxesOK, BoxOK, Slots
<1>2. PICK q \in Slots : q = box[Stack].nextq
  BY <1>0 DEF BoxesOK, BoxOK, Slots
<1>3. PICK ms : ms = [box[Stack].msg EXCEPT ![h] = None]
  OBVIOUS
<1>4. PICK n \in Slots : n = NextSlot(h) /\ n = IF h = MBOXSLOTS - 1 THEN 0 ELSE h + 1
  BY <1>0, SlotNext DEF Slots
<1>5. PICK g \in -1 .. MBOXSLOTS - 1 : g = IF n = q THEN -1 ELSE n
  BY <1>0 DEF Slots
<1>6. box'[Stack] = [head |-> g, nextq |-> q, msg |-> ms]
  <2>1. PICK old : old = box[Stack].msg
    OBVIOUS
  <2>2. box[Stack] = [head |-> h, nextq |-> q, msg |-> old]
    BY <1>0, <1>1, <1>2, <2>1 DEF BoxesOK, BoxOK
  <2>3. Taken(box[Stack]) = [box[Stack] EXCEPT !.head = g]
    BY <1>1, <1>2, <1>4, <1>5 DEF Taken
  <2>4. Taken(box[Stack]) = [head |-> g, nextq |-> q, msg |-> old]
    BY <2>2, <2>3
  <2>5. ms = [old EXCEPT ![h] = None]
    BY <1>3, <2>1
  <2>6. [Taken(box[Stack]) EXCEPT !.msg[h] = None] = [head |-> g, nextq |-> q, msg |-> ms]
    BY <2>4, <2>5
  <2>7. box' = [box EXCEPT ![Stack] = [Taken(box[Stack]) EXCEPT !.msg[h] = None]]
    BY <1>1 DEF Take
  <2> QED BY <1>0, <2>6, <2>7 DEF BoxesOK
<1>7. box'[Stack].head = g /\ box'[Stack].nextq = q /\ box'[Stack].msg = ms
  BY <1>6
<1>8. ASSUME NEW i \in Slots
      PROVE  Full(i)' <=> g # -1 /\ IF g < q THEN g <= i /\ i < q ELSE g <= i \/ i < q
  BY <1>7 DEF Full
<1>9. ASSUME NEW i \in Slots PROVE Full(i) <=> IF h < q THEN h <= i /\ i < q ELSE h <= i \/ i < q
  BY <1>1, <1>2 DEF Full, Slots
<1>10. Full(h)
  BY <1>9 DEF Slots
<1>11. ASSUME NEW i \in Slots PROVE Full(i)' <=> Full(i) /\ i # h
  <2>1. CASE h < q
    BY <1>0, <1>4, <1>5, <1>8, <1>9, <2>1 DEF Slots
  <2>2. CASE ~(h < q)
    BY <1>0, <1>4, <1>5, <1>8, <1>9, <2>2 DEF Slots
  <2> QED BY <2>1, <2>2
<1>12. Oldest(Stack) = Posted(h)
  BY <1>1 DEF Oldest, Posted
<1>13. ms = [i \in Slots |-> ms[i]] /\ \A i \in Slots : i # h => ms[i] = Posted(i)
  BY <1>3
<1> QED BY <1>7, <1>10, <1>11, <1>12, <1>13 DEF Posted

\* A packet is delivered to a client's socket, and err_tcp() is called for one.
ForSocket == {"segment", "deliver", "error"}
DeliverOK ==
    /\ \A w \in Workers : th[w].pc \in ForSocket => req[w].who \in Clients
    /\ th[Tcpip].pc = "error" => victim \in Clients

LEMMA DeliverWorker ==
    ASSUME BufInv, WhoOK, DeliverOK, [Next]_vars, NEW v \in Workers, th'[v].pc \in ForSocket
    PROVE  req'[v].who \in Clients
<1>0. ThreadsOK /\ v \in Threads /\ v # Main
  BY Names DEF BufInv
<1>1. CASE th'[v].pc = th[v].pc /\ req'[v] = req[v]
  BY <1>1 DEF DeliverOK
<1>2. CASE MainServe /\ v = mva
  <2>1. th' = [th EXCEPT ![mva] = At("start"), ![Main] = At("loop")]
    BY <1>2 DEF MainServe
  <2>2. th'[v] = At("start")
    BY <1>0, <1>2, <2>1 DEF ThreadsOK
  <2>3. th'[v].pc = "start"
    BY <2>2, AtFields
  <2> QED BY <2>3 DEF ForSocket
<1>3. CASE serve_thread(v)
  <2>1. PICK q \in Follows(th[v].pc) : th'[v].pc = q
    BY <1>0, <1>3, ServeStep DEF Moved
  <2>2. CASE ServeInput(v) \/ ServeReset(v)
    <3>1. \/ \E c \in Clients : req' = [req EXCEPT ![v] = [kind |-> "input", who |-> c, n |-> 0]]
          \/ Goes(v, "done")
      BY <2>2, NetServerAssumption DEF ServeInput, ServeReset
    <3>2. ~Goes(v, "done")
      <4> SUFFICES ASSUME Goes(v, "done") PROVE FALSE
        OBVIOUS
      <4>1. th'[v].pc = "done"
        BY <1>0, GoTh
      <4> QED BY <4>1 DEF ForSocket
    <3>3. PICK c \in Clients : req' = [req EXCEPT ![v] = [kind |-> "input", who |-> c, n |-> 0]]
      BY <3>1, <3>2
    <3>4. req'[v] = [kind |-> "input", who |-> c, n |-> 0]
      BY <3>3 DEF WhoOK
    <3> QED BY <3>4
  <2>3. CASE ServeSent(v) \/ ServeSegment(v)
    <3>1. th[v].pc = "segment" /\ req' = req
      BY <2>3 DEF ServeSent, ServeSegment, Runs, mainVars
    <3> QED BY <3>1 DEF DeliverOK, ForSocket
  <2>4. CASE ServeCall(v)
    <3>1. \E p \in {"fetch", "post", "reply"} : Goes(v, p)
      BY <2>4 DEF ServeCall
    <3>2. th'[v].pc \in {"fetch", "post", "reply"}
      BY <1>0, <3>1, GoTh
    <3> QED BY <3>2 DEF ForSocket
  <2>5. CASE \/ ServeFetch(v) \/ ServePost(v) \/ ServeOp(v) \/ ServeDeliver(v) \/ ServeError(v)
             \/ ServeReply(v) \/ ServeDone(v)
    <3>1. th[v].pc \in {"fetch", "post", "op", "deliver", "error", "reply", "done"}
      BY <2>5 DEF ServeFetch, ServePost, ServeOp, ServeDeliver, ServeError, ServeReply, ServeDone, Runs
    <3> QED BY <2>1, <3>1 DEF Follows, ForSocket
  <2> QED BY <1>3, <2>2, <2>3, <2>4, <2>5 DEF serve_thread
<1> QED BY <1>1, <1>2, <1>3, Moves

\* Only tcpip_thread moves the tcpip thread, and only it calls err_tcp() there.
LEMMA VictimKept ==
    ASSUME BufInv, [Next]_vars, ~tcpip_thread
    PROVE  th'[Tcpip].pc = th[Tcpip].pc /\ victim' = victim
<1>0. ThreadsOK /\ Tcpip \in Threads /\ Tcpip # Main /\ Tcpip \notin Workers /\ mva \in Workers
  BY Names DEF BufInv
<1>1. CASE SemBlock \/ WaitLeave \/ WaitAgain
  <2>1. victim' = victim
    BY <1>1 DEF SemBlock, WaitLeave, WaitAgain, syncVars, connVars
  <2> QED BY <1>0, <1>1, <2>1, QuietSteps DEF Quiet
<1>2. CASE MainFlush \/ StayPanicked \/ UNCHANGED vars
  BY <1>2 DEF MainFlush, StayPanicked, vars, threadVars, syncVars, connVars
<1>3. CASE MainRecv \/ MainPanic \/ MainTimer \/ MainTimerReply
  <2>1. victim' = victim /\ \E q : Goes(Main, q)
    BY <1>3 DEF MainRecv, MainPanic, MainTimer, MainTimerReply, Goes, syncVars, connVars
  <2> QED BY <1>0, <2>1, GoTh
<1>4. CASE MainServe
  <2>1. th' = [th EXCEPT ![mva] = At("start"), ![Main] = At("loop")] /\ victim' = victim
    BY <1>4 DEF MainServe, syncVars, connVars
  <2>2. th'[Tcpip] = th[Tcpip]
    BY <1>0, <2>1 DEF ThreadsOK
  <2> QED BY <2>1, <2>2
<1>5. CASE \E w \in Workers : serve_thread(w)
  <2>1. PICK w \in Workers : serve_thread(w)
    BY <1>5
  <2>2. th'[Tcpip].pc = th[Tcpip].pc
    BY <1>0, <2>1, ServeStep DEF Moved
  <2>3. victim' = victim
    BY <2>1 DEF serve_thread, ServeCall, ServeInput, ServeReset, ServeSent, ServeSegment, ServeFetch,
                ServePost, ServeOp, ServeDeliver, ServeError, ServeReply, ServeDone, Completed, Errored,
                syncVars, connVars
  <2> QED BY <2>2, <2>3
<1>6. CASE (\E c \in Clients : ClientSend(c)) \/ InputSend \/ TimerSend
  <2>1. \E kind, who, n : Receive(kind, who, n)
    BY <1>6 DEF ClientSend, InputSend, TimerSend
  <2>2. Goes(Main, "got") /\ victim' = victim
    BY <2>1 DEF Receive, Goes, syncVars, connVars
  <2> QED BY <1>0, <2>2, GoTh
<1>7. CASE (\E c \in Clients : ClientRecv(c)) \/ InputRecv \/ InputSee \/ InputCopy \/ TimerRecv \/ OutputDone
  BY <1>7 DEF ClientRecv, InputRecv, InputSee, InputCopy, TimerRecv, OutputDone, threadVars, syncVars, connVars
<1> QED BY <1>1, <1>2, <1>3, <1>4, <1>5, <1>6, <1>7 DEF Next, NS, Timer, Input

LEMMA DeliverNext ==
    ASSUME BufInv, WhoOK, DeliverOK, [Next]_vars
    PROVE  DeliverOK'
<1>0. ThreadsOK /\ Tcpip \in Threads
  BY Names DEF BufInv
<1>1. \A w \in Workers : th'[w].pc \in ForSocket => req'[w].who \in Clients
  BY DeliverWorker
<1>2. ASSUME th'[Tcpip].pc = "error" PROVE victim' \in Clients
  <2>1. CASE ~tcpip_thread
    BY <1>2, <2>1, VictimKept DEF DeliverOK
  <2>2. CASE TcpipAbort
    <3>1. \E c \in Tcp : victim' = c
      BY <2>2 DEF TcpipAbort
    <3> QED BY <3>1, NetServerAssumption
  <2>3. CASE TcpipCall \/ TcpipSend \/ TcpipLater \/ TcpipError
    <3>1. cur = Tcpip /\ \E S : Passes("fetch", S)
      BY <2>3 DEF TcpipCall, TcpipSend, TcpipLater, TcpipError, Errored
    <3>2. th'[Tcpip].pc = "fetch"
      BY <1>0, <3>1, PassTh
    <3> QED BY <1>2, <3>2
  <2>4. CASE TcpipPoll
    <3>1. th[Tcpip].pc = "fetch" /\ \E c : Signals(Done(c))
      BY <2>4 DEF TcpipPoll, Runs, Completed
    <3>2. th'[Tcpip].pc = "fetch"
      BY <1>0, <3>1, SignalTh
    <3> QED BY <1>2, <3>2
  <2> QED BY <2>1, <2>2, <2>3, <2>4 DEF tcpip_thread
<1> QED BY <1>1, <1>2 DEF DeliverOK

\* A thread that waits for op_completed goes on waiting, but for ServeOp.
LEMMA WaitsKept ==
    ASSUME BufInv, WhoOK, [Next]_vars, NEW w \in Workers, th[w].pc = "op", ~ServeOp(w)
    PROVE  th'[w].pc = "op" /\ req'[w] = req[w]
<1>1. ~(MainServe /\ w = mva)
  BY DEF MainServe, BufInv, BuffersExact
<1>2. ~serve_thread(w)
  BY DEF serve_thread, ServeCall, ServeInput, ServeReset, ServeSent, ServeSegment, ServeFetch, ServePost,
         ServeDeliver, ServeError, ServeReply, ServeDone, Runs
<1> QED BY <1>1, <1>2, Moves

\* The tcpip thread's mailbox does not change, and only the op_completed
\* semaphores of calls that were put off are signalled.
LEMMA PostKept ==
    ASSUME PostInv, box'[Stack] = box[Stack], later' \subseteq later,
           \A c \in Clients :
               /\ sem'[Done(c)].counter = IF c \in later \ later' THEN sem[Done(c)].counter + 1
                                         ELSE sem[Done(c)].counter
               /\ WaitsDone(c) => WaitsDone(c)'
    PROVE  PostInv'
<1>1. \A i \in Slots : (Full(i)' <=> Full(i)) /\ Posted(i)' = Posted(i)
  BY DEF Full, Posted
<1>2. ASSUME NEW i \in Slots PROVE PostOK(i)'
  <2> SUFFICES ASSUME Full(i)'
               PROVE  /\ Posted(i)' \in Clients /\ Posted(i)' \notin later'
                      /\ sem'[Done(Posted(i)')].counter = 0 /\ WaitsDone(Posted(i))'
    BY DEF PostOK
  <2>1. PICK c \in Clients : /\ c = Posted(i) /\ c \notin later
                             /\ sem[Done(c)].counter = 0 /\ WaitsDone(c)
    BY <1>1 DEF PostInv, PostOK
  <2>2. Posted(i)' = c /\ c \notin later' /\ sem'[Done(c)].counter = 0 /\ WaitsDone(c)'
    BY <1>1, <2>1
  <2> QED BY <2>2 DEF WaitsDone
<1>3. ASSUME NEW c \in Clients PROVE DoneOK(c)'
  <2>1. CASE c \in later \ later'
    BY <2>1 DEF DoneOK, PostInv
  <2>2. CASE c \notin later \ later'
    BY <2>2 DEF DoneOK, PostInv
  <2> QED BY <2>1, <2>2
<1>4. box'[Stack].msg = [i \in Slots |-> Posted(i)']
  BY <1>1 DEF PostInv
<1> QED BY <1>1, <1>2, <1>3, <1>4 DEF PostInv

LEMMA WaitsAll ==
    ASSUME BufInv, WhoOK, [Next]_vars, \A w \in Workers : ~ServeOp(w), NEW c, WaitsDone(c)
    PROVE  WaitsDone(c)'
<1>1. PICK w \in Workers : th[w].pc = "op" /\ req[w].who = c
  BY DEF WaitsDone
<1>2. th'[w].pc = "op" /\ req'[w] = req[w]
  BY <1>1, WaitsKept
<1> QED BY <1>1, <1>2 DEF WaitsDone

\* The call that was put off is completed: the caller still waits for it.
LEMMA PostSignal ==
    ASSUME BufInv, SyncInv, PostInv, NEW c, Completed(c), \A w \in Workers : ~ServeOp(w), [Next]_vars
    PROVE  PostInv'
<1>1. c \in later /\ later' = later \ {c} /\ Signals(Done(c)) /\ box' = box
  BY DEF Completed
<1>2. ASSUME NEW d \in Clients
      PROVE  sem'[Done(d)].counter = IF d \in later \ later' THEN sem[Done(d)].counter + 1
                                     ELSE sem[Done(d)].counter
  <2>1. Done(d) \in Sems /\ (Done(d) = Done(c) <=> d \in later \ later')
    BY <1>1 DEF Sems, Done
  <2>2. sem'[Done(d)].counter = IF Done(d) = Done(c) THEN sem[Done(d)].counter + 1
                                ELSE sem[Done(d)].counter
    BY <1>1, <2>1, SemsSignal DEF SyncInv
  <2> QED BY <2>1, <2>2
<1>3. \A d \in Clients : WaitsDone(d) => WaitsDone(d)'
  BY WaitsAll DEF SyncInv
<1> QED BY <1>1, <1>2, <1>3, PostKept

LEMMA PostErrored ==
    ASSUME BufInv, SyncInv, PostInv, NEW c \in Clients, NEW pc, Errored(c, pc), SemOf(cur) = Freed(c),
           \A w \in Workers : ~ServeOp(w), [Next]_vars
    PROVE  PostInv'
<1> DEFINE S == {Queued(c)} \cup {Done(x) : x \in later \cap {c}}
<1>0. c \in Boxes /\ Stack \in Boxes /\ c # Stack
  BY SemNames, NetServerAssumption
<1>1. Passes(pc, S) /\ Put(c, "null") /\ later' = later \ {c}
  BY DEF Errored
<1>2. SemOf(cur) \notin S
  BY <1>0, SemNames
<1>3. ASSUME NEW d \in Clients
      PROVE  Done(d) \in Sems /\ Done(d) # SemOf(cur) /\ (Done(d) \in S <=> d \in later \ later')
  <2>1. Done(d) \in Sems /\ Done(d) # Queued(c) /\ Done(d) # Freed(c) /\ \A x : Done(d) = Done(x) <=> d = x
    BY <1>0, SemNames DEF Sems, Done
  <2> QED BY <1>1, <2>1
<1> HIDE DEF S
<1>4. ASSUME NEW d \in Clients
      PROVE  sem'[Done(d)].counter = IF d \in later \ later' THEN sem[Done(d)].counter + 1
                                     ELSE sem[Done(d)].counter
  BY <1>1, <1>2, <1>3, SemsPass DEF SyncInv
<1>5. \A d \in Clients : WaitsDone(d) => WaitsDone(d)'
  BY WaitsAll DEF SyncInv
<1>6. box'[Stack] = box[Stack]
  BY <1>0, <1>1 DEF Put, SyncInv, BoxesOK
<1>7. later' \subseteq later
  BY <1>1
<1> QED BY <1>4, <1>5, <1>6, <1>7, PostKept

\* A call is posted: its client has no other, so none is in the mailbox.
LEMMA PostPost ==
    ASSUME BufInv, SyncInv, CallersOK, OneCall, PostInv, NEW w \in Workers, ServePost(w), [Next]_vars
    PROVE  PostInv'
<1>0. WhoOK /\ BoxesOK /\ SemsOK /\ w \in Threads /\ Stack \in Boxes /\ w # Tcpip
  BY Names, SemNames DEF SyncInv
<1>1. PICK c : c = req[w].who
  OBVIOUS
<1> DEFINE S == {Queued(Stack)}
<1>2. /\ cur = w /\ th[w].pc = "post" /\ Passes("op", S) /\ Put(Stack, c) /\ req' = req
      /\ later' = later
  BY <1>1 DEF ServePost, mainVars, connVars
<1>3. SemOf(cur) = Freed(Stack)
  BY <1>2 DEF SemOf
<1>a. SemOf(cur) \notin S
  BY <1>0, <1>3, SemNames
<1> HIDE DEF S
<1>4. /\ sem[Freed(Stack)].counter > 0
      /\ \A x \in Sems : sem'[x].counter = IF x \in S THEN sem[x].counter + 1
                                           ELSE IF x = Freed(Stack) THEN sem[x].counter - 1
                                           ELSE sem[x].counter
  BY <1>0, <1>2, <1>3, <1>a, SemsPass
<1>5. \A d \in Clients : sem'[Done(d)].counter = sem[Done(d)].counter
  <2>1. \A d \in Clients : Done(d) \in Sems /\ Done(d) \notin S /\ Done(d) # Freed(Stack)
    BY <1>0, SemNames DEF S, Sems
  <2> QED BY <1>4, <2>1
<1>6. Serving(w) /\ c \in Clients
  BY <1>1, <1>2 DEF Serving, CallPlaces, CallersOK
<1>7. ~WaitsDone(c)
  <2> SUFFICES ASSUME NEW v \in Workers, th[v].pc = "op", req[v].who = c PROVE FALSE
    BY DEF WaitsDone
  <2>1. Serving(v)
    BY DEF Serving, CallPlaces
  <2> QED BY <1>1, <1>2, <1>6, <2>1 DEF OneCall
<1>8. th'[w].pc = "op"
  BY <1>0, <1>2, PassTh DEF BufInv
<1>9. WaitsDone(c)'
  BY <1>1, <1>2, <1>8 DEF WaitsDone
<1>10. \A d : WaitsDone(d) => WaitsDone(d)'
  <2>1. \A v \in Workers : ~ServeOp(v)
    BY <1>2 DEF ServeOp
  <2> QED BY <1>0, <2>1, WaitsAll
<1>11. sem[Done(c)].counter = 0 /\ c \notin later
  BY <1>6, <1>7 DEF PostInv, DoneOK
<1>12. Count(Stack) < MBOXSLOTS
  BY <1>0, <1>4, CountRange, NetServerAssumption DEF SyncInv, MboxExact
<1>13. PICK q \in Slots :
           /\ ~Full(q) /\ \A i \in Slots : Full(i)' <=> Full(i) \/ i = q
           /\ \A i \in Slots : Posted(i)' = IF i = q THEN c ELSE Posted(i)
           /\ box'[Stack].msg = [i \in Slots |-> Posted(i)']
  BY <1>0, <1>2, <1>12, SlotPut DEF PostInv
<1>14. \A i \in Slots : Full(i) => i # q /\ Posted(i) # c /\ Posted(i)' = Posted(i)
  BY <1>7, <1>13 DEF PostInv, PostOK
<1>15. ASSUME NEW i \in Slots PROVE PostOK(i)'
  <2> SUFFICES ASSUME Full(i)'
               PROVE  /\ Posted(i)' \in Clients /\ Posted(i)' \notin later'
                      /\ sem'[Done(Posted(i)')].counter = 0 /\ WaitsDone(Posted(i))'
    BY DEF PostOK
  <2>1. PICK d \in Clients : /\ Posted(i)' = d /\ d \notin later
                             /\ sem[Done(d)].counter = 0 /\ WaitsDone(d)'
    <3>1. CASE i = q
      BY <1>6, <1>9, <1>11, <1>13, <3>1
    <3>2. CASE i # q
      <4>1. Full(i) /\ Posted(i)' = Posted(i)
        BY <1>13, <3>2
      <4>2. PICK d \in Clients : /\ d = Posted(i) /\ d \notin later
                                 /\ sem[Done(d)].counter = 0 /\ WaitsDone(d)
        BY <4>1 DEF PostInv, PostOK
      <4> QED BY <1>10, <4>1, <4>2
    <3> QED BY <3>1, <3>2
  <2>2. sem'[Done(d)].counter = 0 /\ d \notin later'
    BY <1>2, <1>5, <2>1
  <2> QED BY <2>1, <2>2 DEF WaitsDone
<1>16. ASSUME NEW i \in Slots, NEW j \in Slots, Full(i)', Full(j)', Posted(i)' = Posted(j)' PROVE i = j
  BY <1>13, <1>14, <1>16 DEF PostInv
<1>17. ASSUME NEW d \in Clients PROVE DoneOK(d)'
  BY <1>2, <1>5, <1>10 DEF DoneOK, PostInv
<1> QED BY <1>13, <1>15, <1>16, <1>17 DEF PostInv

\* A call is taken: it was waited for, and its semaphore was 0.  Either it is
\* done or it is put off.
LEMMA PostDone ==
    ASSUME BufInv, SyncInv, PostInv, TcpipCall \/ TcpipSend \/ TcpipLater, [Next]_vars
    PROVE  PostInv'
<1>0. WhoOK /\ BoxesOK /\ SemsOK /\ Stack \in Boxes
  BY SemNames DEF SyncInv
<1>1. PICK c : c = Oldest(Stack)
  OBVIOUS
<1>2. PICK S, D : /\ Passes("fetch", S) /\ later' = later \cup ({c} \ D) /\ D \subseteq {c}
                  /\ \A x : x \in S <=> x = Freed(Stack) \/ (c \in D /\ x = Done(c))
  <2>1. CASE TcpipCall \/ TcpipSend
    <3>1. Passes("fetch", {Freed(Stack), Done(c)}) /\ later' = later
      BY <1>1, <2>1 DEF TcpipCall, TcpipSend, connVars
    <3>2. later' = later \cup ({c} \ {c})
      BY <3>1
    <3>3. \A x : x \in {Freed(Stack), Done(c)} <=> x = Freed(Stack) \/ (c \in {c} /\ x = Done(c))
      OBVIOUS
    <3> QED BY <3>1, <3>2, <3>3
  <2>2. CASE TcpipLater
    <3>1. PICK S : S = {Freed(Stack)}
      OBVIOUS
    <3>2. Passes("fetch", S) /\ later' = later \cup {c}
      BY <1>1, <2>2, <3>1 DEF TcpipLater
    <3>3. PICK D : D = {}
      OBVIOUS
    <3>4. later' = later \cup ({c} \ D) /\ D \subseteq {c}
      BY <3>2, <3>3
    <3>5. \A x : x \in S <=> x = Freed(Stack) \/ (c \in D /\ x = Done(c))
      BY <3>1, <3>3
    <3> QED BY <3>2, <3>4, <3>5
  <2> QED BY <2>1, <2>2
<1>3. cur = Tcpip /\ th[Tcpip].pc = "fetch" /\ Take(Stack)
  BY DEF TcpipCall, TcpipSend, TcpipLater
<1>4. SemOf(cur) = Queued(Stack)
  BY <1>3 DEF SemOf
<1>5. SemOf(cur) \notin S
  BY <1>0, <1>2, <1>4, SemNames
<1>6. /\ sem[Queued(Stack)].counter > 0
      /\ \A x \in Sems : sem'[x].counter = IF x \in S THEN sem[x].counter + 1
                                           ELSE IF x = Queued(Stack) THEN sem[x].counter - 1
                                           ELSE sem[x].counter
  BY <1>0, <1>2, <1>4, <1>5, SemsPass
<1>7. \A d : WaitsDone(d) => WaitsDone(d)'
  <2>1. \A v \in Workers : ~ServeOp(v)
    BY <1>3, Names DEF ServeOp
  <2> QED BY <1>0, <2>1, WaitsAll
<1>8. Count(Stack) > 0
  BY <1>0, <1>6 DEF SyncInv, MboxExact
<1>9. PICK h \in Slots :
          /\ Full(h) /\ Oldest(Stack) = Posted(h)
          /\ \A i \in Slots : Full(i)' <=> Full(i) /\ i # h
          /\ \A i \in Slots : i # h => Posted(i)' = Posted(i)
          /\ box'[Stack].msg = [i \in Slots |-> Posted(i)']
  BY <1>0, <1>3, <1>8, SlotTake DEF PostInv
<1>10. c \in Clients /\ c \notin later /\ sem[Done(c)].counter = 0 /\ WaitsDone(c)
  BY <1>1, <1>9 DEF PostInv, PostOK
<1>11. ASSUME NEW d \in Clients
       PROVE  sem'[Done(d)].counter = IF d \in D THEN 1 ELSE sem[Done(d)].counter
  <2>1. Done(d) \in Sems /\ Done(d) # Queued(Stack) /\ Done(d) # Freed(Stack) /\ (Done(d) = Done(c) <=> d = c)
    BY <1>0, SemNames DEF Sems, Done
  <2>2. Done(d) \in S <=> d \in D
    BY <1>2, <2>1
  <2>3. d \in D => d = c
    BY <1>2
  <2> QED BY <1>6, <1>10, <2>1, <2>2, <2>3
<1>12. ASSUME NEW i \in Slots PROVE PostOK(i)'
  <2> SUFFICES ASSUME Full(i)'
               PROVE  /\ Posted(i)' \in Clients /\ Posted(i)' \notin later'
                      /\ sem'[Done(Posted(i)')].counter = 0 /\ WaitsDone(Posted(i))'
    BY DEF PostOK
  <2>1. Full(i) /\ i # h
    BY <1>9
  <2>2. PICK d \in Clients : /\ d = Posted(i) /\ d \notin later
                             /\ sem[Done(d)].counter = 0 /\ WaitsDone(d)
    BY <2>1 DEF PostInv, PostOK
  <2>3. d # c
    BY <1>1, <1>9, <2>1, <2>2 DEF PostInv
  <2>4. Posted(i)' = d /\ d \notin later' /\ sem'[Done(d)].counter = 0 /\ WaitsDone(d)'
    BY <1>2, <1>7, <1>9, <1>11, <2>1, <2>2, <2>3
  <2> QED BY <2>4 DEF WaitsDone
<1>13. ASSUME NEW d \in Clients PROVE DoneOK(d)'
  <2>1. CASE d = c
    <3>1. sem'[Done(d)].counter = IF d \in D THEN 1 ELSE 0
      BY <1>10, <1>11, <2>1
    <3>2. WaitsDone(d)'
      BY <1>7, <1>10, <2>1
    <3>3. d \in later' => d \notin D
      BY <1>2, <1>10, <2>1
    <3> QED BY <3>1, <3>2, <3>3 DEF DoneOK
  <2>2. CASE d # c
    <3>1. (d \in later' <=> d \in later) /\ sem'[Done(d)].counter = sem[Done(d)].counter
      BY <1>2, <1>11, <2>2
    <3> QED BY <1>7, <3>1 DEF DoneOK, PostInv
  <2> QED BY <2>1, <2>2
<1>14. ASSUME NEW i \in Slots, NEW j \in Slots, Full(i)', Full(j)', Posted(i)' = Posted(j)' PROVE i = j
  BY <1>9, <1>14 DEF PostInv
<1> QED BY <1>9, <1>12, <1>13, <1>14 DEF PostInv

\* The caller passes op_completed.
LEMMA PostOp ==
    ASSUME BufInv, SyncInv, CallersOK, OneCall, PostInv, NEW w \in Workers, ServeOp(w), [Next]_vars
    PROVE  PostInv'
<1>0. WhoOK /\ BoxesOK /\ SemsOK /\ w \in Threads /\ w # Tcpip
  BY Names DEF SyncInv
<1>1. PICK c : c = req[w].who
  OBVIOUS
<1>2. cur = w /\ th[w].pc = "op" /\ Passes("reply", {}) /\ box' = box /\ req' = req /\ later' = later
  BY DEF ServeOp, mainVars, connVars
<1>3. SemOf(cur) = Done(c)
  BY <1>1, <1>2 DEF SemOf
<1>4. /\ sem[Done(c)].counter > 0
      /\ \A x \in Sems : sem'[x].counter = IF x = Done(c) THEN sem[x].counter - 1 ELSE sem[x].counter
  BY <1>0, <1>2, <1>3, SemsPass
<1>5. c \in Clients
  BY <1>1, <1>2 DEF Serving, CallPlaces, CallersOK
<1>6. sem[Done(c)].counter = 1 /\ c \notin later
  BY <1>4, <1>5 DEF PostInv, DoneOK
<1>7. ASSUME NEW d \in Clients
      PROVE  sem'[Done(d)].counter = IF d = c THEN 0 ELSE sem[Done(d)].counter
  <2>1. Done(d) \in Sems /\ (Done(d) = Done(c) => d = c)
    BY DEF Sems, Done
  <2> QED BY <1>4, <1>6, <2>1
<1>8. ASSUME NEW d, d # c, WaitsDone(d) PROVE WaitsDone(d)'
  <2>1. PICK v \in Workers : th[v].pc = "op" /\ req[v].who = d
    BY <1>8 DEF WaitsDone
  <2>2. v # w
    BY <1>1, <1>8, <2>1
  <2>3. ~ServeOp(v)
    BY <1>2, <2>2 DEF ServeOp
  <2>4. th'[v].pc = "op" /\ req'[v] = req[v]
    BY <1>0, <2>1, <2>3, WaitsKept
  <2> QED BY <2>1, <2>4 DEF WaitsDone
<1>9. \A i \in Slots : (Full(i)' <=> Full(i)) /\ Posted(i)' = Posted(i)
  BY <1>2 DEF Full, Posted
<1>10. ASSUME NEW i \in Slots PROVE PostOK(i)'
  <2> SUFFICES ASSUME Full(i)'
               PROVE  /\ Posted(i)' \in Clients /\ Posted(i)' \notin later'
                      /\ sem'[Done(Posted(i)')].counter = 0 /\ WaitsDone(Posted(i))'
    BY DEF PostOK
  <2>1. PICK d \in Clients : /\ d = Posted(i) /\ d \notin later
                             /\ sem[Done(d)].counter = 0 /\ WaitsDone(d)
    BY <1>9 DEF PostInv, PostOK
  <2>2. d # c
    BY <1>6, <2>1
  <2>3. Posted(i)' = d /\ d \notin later' /\ sem'[Done(d)].counter = 0 /\ WaitsDone(d)'
    BY <1>2, <1>7, <1>8, <1>9, <2>1, <2>2
  <2> QED BY <2>3 DEF WaitsDone
<1>11. ASSUME NEW d \in Clients PROVE DoneOK(d)'
  BY <1>2, <1>6, <1>7, <1>8 DEF DoneOK, PostInv
<1>12. box'[Stack].msg = [i \in Slots |-> Posted(i)']
  BY <1>2, <1>9 DEF PostInv
<1> QED BY <1>9, <1>10, <1>11, <1>12 DEF PostInv

LEMMA PostNext ==
    ASSUME BufInv, SyncInv, CallersOK, DeliverOK, OneCall, PostInv, [Next]_vars
    PROVE  PostInv'
<1>0. /\ WhoOK /\ BoxesOK /\ SemsOK /\ Stack \in Boxes /\ Clients \subseteq Boxes /\ Stack \notin Clients
      /\ \A d \in Clients : Done(d) \in Sems
  BY SemNames, NetServerAssumption DEF SyncInv, Sems
<1>1. ASSUME \A w \in Workers : ~ServeOp(w), box'[Stack] = box[Stack], later' = later,
             \A c \in Clients : sem'[Done(c)].counter = sem[Done(c)].counter
      PROVE  PostInv'
  <2>1. \A c \in Clients : WaitsDone(c) => WaitsDone(c)'
    BY <1>0, <1>1, WaitsAll
  <2> QED BY <1>1, <2>1, PostKept
<1>2. CASE \E w \in Workers : ServeOp(w)
  BY <1>2, PostOp
<1>3. CASE \E w \in Workers : ServePost(w)
  BY <1>3, PostPost
<1>4. CASE TcpipCall \/ TcpipSend \/ TcpipLater
  BY <1>4, PostDone
<1>5. CASE \E w \in Workers : ServeFetch(w)
  <2>1. PICK w \in Workers : ServeFetch(w)
    BY <1>5
  <2> DEFINE m == req[w].who
             S == {Freed(m)}
             p == IF m \in Tcp /\ Oldest(m) = "data" THEN "post" ELSE "reply"
  <2>2. cur = w /\ th[w].pc = "fetch" /\ Passes(p, S) /\ Take(m) /\ later' = later
    BY <2>1 DEF ServeFetch, connVars
  <2>3. m \in Clients /\ w # Tcpip
    BY <2>2, Names DEF Serving, CallPlaces, CallersOK
  <2>4. SemOf(cur) = Queued(m)
    BY <2>2, <2>3 DEF SemOf
  <2>5. SemOf(cur) \notin S /\ \A d \in Clients : Done(d) \notin S /\ Done(d) # SemOf(cur)
    BY <1>0, <2>3, <2>4, SemNames
  <2>6. box'[Stack] = box[Stack]
    BY <1>0, <2>2, <2>3 DEF Take, BoxesOK
  <2>7. \A v \in Workers : ~ServeOp(v)
    BY <2>2 DEF ServeOp
  <2> HIDE DEF S, p
  <2>8. \A d \in Clients : sem'[Done(d)].counter = sem[Done(d)].counter
    BY <1>0, <2>2, <2>5, SemsPass
  <2> QED BY <1>1, <2>2, <2>6, <2>7, <2>8
<1>6. CASE \E w \in Workers : ServeDeliver(w)
  <2>1. PICK w \in Workers : ServeDeliver(w)
    BY <1>6
  <2> DEFINE m == req[w].who
             S == {Queued(m)}
  <2>2. cur = w /\ th[w].pc = "deliver" /\ Passes("done", S) /\ later' = later
    BY <2>1 DEF ServeDeliver, connVars
  <2>9. PICK msg : Put(m, msg)
    BY <2>1 DEF ServeDeliver
  <2>3. m \in Clients
    BY <2>2 DEF DeliverOK, ForSocket
  <2>4. SemOf(cur) = Freed(m)
    BY <2>2 DEF SemOf
  <2>5. SemOf(cur) \notin S /\ \A d \in Clients : Done(d) \notin S /\ Done(d) # SemOf(cur)
    BY <1>0, <2>3, <2>4, SemNames
  <2>6. box'[Stack] = box[Stack]
    BY <1>0, <2>3, <2>9 DEF Put, BoxesOK
  <2>7. \A v \in Workers : ~ServeOp(v)
    BY <2>2 DEF ServeOp
  <2> HIDE DEF S
  <2>8. \A d \in Clients : sem'[Done(d)].counter = sem[Done(d)].counter
    BY <1>0, <2>2, <2>5, SemsPass
  <2> QED BY <1>1, <2>2, <2>6, <2>7, <2>8
<1> DEFINE NoOp == \A w \in Workers : ~ServeOp(w)
<1>7. CASE NoOp /\ SemBlock
  <2>1. PICK s : s = SemOf(cur)
    OBVIOUS
  <2>2. /\ sem[s].counter = 0 /\ sem' = [sem EXCEPT ![s] = [counter |-> 0, waiters |-> 1]]
        /\ box' = box /\ later' = later
    BY <1>7, <2>1 DEF SemBlock, connVars
  <2>3. \A x \in Sems : sem'[x].counter = sem[x].counter
    BY <1>0, <2>2 DEF SemsOK
  <2> QED BY <1>0, <1>1, <1>7, <2>2, <2>3
<1>8. CASE NoOp /\ UNCHANGED <<sem, box, later>>
  BY <1>1, <1>8
<1>9. CASE NoOp /\ \E w \in Workers : \/ ServeCall(w) \/ ServeInput(w) \/ ServeReset(w)
                                     \/ ServeSegment(w) \/ ServeReply(w) \/ ServeDone(w)
  BY <1>8, <1>9 DEF ServeCall, ServeInput, ServeReset, ServeSegment, ServeReply, ServeDone, syncVars, connVars
<1>10. CASE NoOp /\ (WaitLeave \/ WaitAgain \/ MainFlush \/ MainRecv \/ MainPanic \/ StayPanicked
                     \/ MainServe \/ MainTimer \/ MainTimerReply \/ TcpipAbort)
  BY <1>8, <1>10 DEF WaitLeave, WaitAgain, MainFlush, MainRecv, MainPanic, StayPanicked, MainServe, MainTimer,
                     MainTimerReply, TcpipAbort, vars, syncVars, connVars
<1>11. CASE NoOp /\ ((\E c \in Clients : ClientSend(c)) \/ InputSend \/ TimerSend)
  BY <1>8, <1>11 DEF ClientSend, InputSend, TimerSend, Receive, syncVars, connVars
<1>12. CASE NoOp /\ ((\E c \in Clients : ClientRecv(c)) \/ InputRecv \/ InputSee \/ InputCopy \/ TimerRecv
                     \/ OutputDone \/ UNCHANGED vars)
  BY <1>8, <1>12 DEF ClientRecv, InputRecv, InputSee, InputCopy, TimerRecv, OutputDone, vars, syncVars, connVars
<1>13. CASE NoOp /\ \E w \in Workers : ServeSent(w)
  <2>1. \E c : Completed(c)
    BY <1>13 DEF ServeSent
  <2> QED BY <1>13, <2>1, PostSignal
<1>14. CASE NoOp /\ \E w \in Workers : ServeError(w)
  <2>1. PICK w \in Workers : ServeError(w)
    BY <1>14
  <2>2. cur = w /\ th[w].pc = "error" /\ Errored(req[w].who, "done") /\ w # Tcpip
    BY <2>1, Names DEF ServeError
  <2>3. req[w].who \in Clients
    BY <2>2 DEF DeliverOK, ForSocket
  <2>4. SemOf(cur) = Freed(req[w].who)
    BY <2>2 DEF SemOf
  <2> QED BY <1>14, <2>2, <2>3, <2>4, PostErrored
<1>15. CASE NoOp /\ TcpipPoll
  <2>1. \E c : Completed(c)
    BY <1>15 DEF TcpipPoll
  <2> QED BY <1>15, <2>1, PostSignal
<1>16. CASE NoOp /\ TcpipError
  <2>1. cur = Tcpip /\ th[Tcpip].pc = "error" /\ Errored(victim, "fetch")
    BY <1>16 DEF TcpipError
  <2>2. victim \in Clients
    BY <2>1 DEF DeliverOK
  <2>3. SemOf(cur) = Freed(victim)
    BY <2>1 DEF SemOf
  <2> QED BY <1>16, <2>1, <2>2, <2>3, PostErrored
<1> QED BY <1>2, <1>3, <1>4, <1>5, <1>6, <1>7, <1>9, <1>10, <1>11, <1>12, <1>13, <1>14, <1>15, <1>16
        DEF Next, NS, serve_thread, tcpip_thread, Timer, Input

LEMMA PostInit == Init => OneCall /\ PostInv /\ DeliverOK
<1> SUFFICES ASSUME Init PROVE OneCall /\ PostInv /\ DeliverOK
  OBVIOUS
<1>1. \A w \in Workers : th[w].pc = "none"
  <2>1. \A t \in Threads : t # Main /\ t # Tcpip => th[t] = At("none")
    BY DEF Init
  <2> QED BY <2>1, Names, AtFields
<1>2. \A w \in Workers : ~Serving(w)
  BY <1>1 DEF Serving, CallPlaces
<1>3. ipc.kind \notin Calls
  BY DEF Init, NoMsg, Calls
<1>4. OneCall
  <2>1. cl = [c \in Clients |-> [pc |-> "idle", kind |-> "call"]]
    BY DEF Init
  <2>2. \A c \in Clients : cl[c] = [pc |-> cl[c].pc, kind |-> cl[c].kind]
    BY <2>1
  <2>3. cl = [c \in Clients |-> [pc |-> cl[c].pc, kind |-> cl[c].kind]]
    BY <2>1, <2>2
  <2> QED BY <1>2, <1>3, <2>3 DEF OneCall
<1>5. PostInv
  <2>1. box[Stack] = [head |-> -1, nextq |-> 0, msg |-> [i \in 0 .. MBOXSLOTS - 1 |-> None]]
    BY SemNames DEF Init
  <2>2. PICK ms : ms = [i \in 0 .. MBOXSLOTS - 1 |-> None]
    OBVIOUS
  <2>3. box[Stack].head = -1 /\ box[Stack].msg = ms
    BY <2>1, <2>2
  <2>4. box[Stack].msg = [i \in Slots |-> Posted(i)]
    BY <2>2, <2>3 DEF Posted, Slots
  <2>5. \A i : ~Full(i)
    BY <2>3 DEF Full
  <2>6. ASSUME NEW c \in Clients PROVE sem[Done(c)].counter = 0
    <3>1. PICK s \in Sems : s = Done(c)
      BY DEF Sems
    <3>2. s[1] = "op_completed"
      BY <3>1 DEF Done
    <3>3. sem[s].counter = 0
      BY <3>2 DEF Init
    <3> QED BY <3>1, <3>3
  <2>7. later = {}
    BY DEF Init
  <2> QED BY <2>4, <2>5, <2>6, <2>7 DEF PostInv, PostOK, DoneOK
<1>6. DeliverOK
  <2>1. th[Tcpip] = [pc |-> "fetch", wait |-> Queued(Stack), val |-> <<0, 1>>, wakeup |-> FALSE]
    BY Names DEF Init
  <2>2. th[Tcpip].pc = "fetch"
    BY <2>1
  <2> QED BY <1>1, <2>2 DEF DeliverOK, ForSocket
<1> QED BY <1>4, <1>5, <1>6

YieldsOK == yields \in 0 .. MaxYields

LEMMA YieldsNext ==
    ASSUME BufInv, YieldsOK, [Next]_vars
    PROVE  YieldsOK'
<1>0. MaxYields \in Nat
  BY NetServerAssumption
<1>1. CASE UNCHANGED yields
  BY <1>1 DEF YieldsOK
<1>2. CASE MainFlush
  BY <1>0, <1>2 DEF MainFlush, YieldsOK
<1>3. CASE MainServe \/ MainTimerReply
  BY <1>0, <1>3 DEF MainServe, MainTimerReply, YieldsOK
<1>4. CASE \E w \in Workers : serve_thread(w)
  <2>1. PICK w \in Workers : serve_thread(w)
    BY <1>4
  <2> QED BY <1>1, <2>1, ServeStep DEF BufInv
<1>5. CASE SemBlock \/ WaitLeave \/ WaitAgain \/ MainRecv \/ MainPanic \/ StayPanicked \/ MainTimer
           \/ tcpip_thread
  BY <1>1, <1>5, TcpipStep DEF BufInv, SemBlock, WaitLeave, WaitAgain, MainRecv, MainPanic, StayPanicked,
                               MainTimer, vars, mainVars
<1>6. CASE (\E c \in Clients : ClientSend(c) \/ ClientRecv(c)) \/ Timer \/ Input \/ OutputDone
           \/ UNCHANGED vars
  BY <1>1, <1>6 DEF ClientSend, ClientRecv, Timer, TimerSend, TimerRecv, Input, InputRecv, InputSee, InputCopy,
                    InputSend, OutputDone, Receive, vars, mainVars
<1> QED BY <1>2, <1>3, <1>4, <1>5, <1>6 DEF Next, NS

\* Threads are in one place, semaphores and rings within their bounds: an
\* op_completed semaphore is at most 1, although nothing in sys_arch_sem_wait()
\* or tcpip_apimsg() limits it, since nsipc() has one call at a time.
THEOREM TypeCorrect == Spec => []TypeOK
<1> DEFINE I == /\ PktInv /\ SyncInv /\ ConnOK /\ CallersOK /\ IdleInv
                /\ DeliverOK /\ OneCall /\ PostInv /\ YieldsOK
<1>1. Init => I
  BY PktInit, SyncInit, IdleInit, PostInit, NetServerAssumption DEF Init, YieldsOK
<1>2. I /\ [Next]_vars => I'
  <2> SUFFICES ASSUME I, [Next]_vars PROVE I'
    OBVIOUS
  <2>1. BufInv /\ OrderInv /\ WhoOK
    BY DEF PktInv, SyncInv
  <2> QED BY <2>1, PktNext, SyncNext, ConnNext, CallersNext, IdleNext, DeliverNext, OneCallNext, PostNext,
             YieldsNext
<1>3. I => TypeOK
  <2> SUFFICES ASSUME I PROVE TypeOK
    OBVIOUS
  <2>0. MBOXSLOTS \in Nat \ {0}
    BY NetServerAssumption
  <2>1. cur \in Threads /\ Range(queue) \subseteq Threads \ {cur}
    BY DEF PktInv, OrderInv, IdleInv, QueueOK, Range
  <2>2. \A t \in Threads : th[t].wait \in Sems \cup {None}
    BY DEF IdleInv, SleepOK
  <2>3. ASSUME NEW s \in Sems
        PROVE  sem[s].counter \in 0 .. MBOXSLOTS + 1 /\ sem[s].waiters \in 0 .. 1
    <3>1. sem[s].waiters \in 0 .. 1
      BY DEF SyncInv, SemsOK
    <3>2. ASSUME NEW m \in Boxes, s = Queued(m) \/ s = Freed(m)
          PROVE  sem[s].counter \in 0 .. MBOXSLOTS + 1
      <4>1. Count(m) \in 0 .. MBOXSLOTS
        BY CountRange DEF SyncInv
      <4> QED BY <2>0, <3>2, <4>1 DEF SyncInv, MboxExact
    <3>3. ASSUME NEW c \in Clients, s = Done(c) PROVE sem[s].counter \in 0 .. MBOXSLOTS + 1
      BY <2>0, <3>3 DEF PostInv, DoneOK
    <3> QED BY <3>1, <3>2, <3>3 DEF Sems
  <2>4. \A m \in Boxes : box[m].head \in -1 .. MBOXSLOTS - 1 /\ box[m].nextq \in 0 .. MBOXSLOTS - 1
    BY DEF SyncInv, BoxesOK, BoxOK
  <2>5. buse \subseteq Workers /\ mva \in Workers /\ yields \in 0 .. MaxYields
    BY DEF PktInv, BufInv, BuffersExact, YieldsOK
  <2>6. later \subseteq Tcp /\ gone \subseteq Tcp
    BY DEF ConnOK
  <2> QED BY <2>1, <2>2, <2>3, <2>4, <2>5, <2>6 DEF TypeOK
<1> QED BY <1>1, <1>2, <1>3, PTL DEF Spec
=============================================================================
