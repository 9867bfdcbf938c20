------------------------------ MODULE NetServer -----------------------------
(***************************************************************************)
(* The network server (lab6/jos/net): its main loop (serv.c), the threads  *)
(* it runs on (lwip/jos/arch/thread.c), the semaphores and mailboxes that  *)
(* lwIP waits on (lwip/jos/arch/sys_arch.c), and the environments around   *)
(* it: clients (lib/nsipc.c) and the timer, input and output helpers       *)
(* (timer.c, input.c, output.c).                                           *)
(*                                                                         *)
(* Threads are cooperative.  All that are not running are in one queue; a  *)
(* thread that waits is in it too, and yields again whenever its turn      *)
(* comes.  The server is one environment: a thread that is in ipc_recv()   *)
(* or ipc_send() blocks them all.                                          *)
(*                                                                         *)
(* Of lwIP there is what passes through mailboxes and semaphores: a socket *)
(* call is a message to the tcpip thread and a wait for op_completed, or a *)
(* wait for the socket's receive mailbox; an arriving packet is processed  *)
(* by the thread that serves it and posted to a receive mailbox.  A TCP    *)
(* connect, write or close may be put off by the stack; then a segment, a  *)
(* timer of the tcpip thread or the loss of the connection completes it.   *)
(* Whether and when is left open, and so is what the timers send again.    *)
(***************************************************************************)
EXTENDS Integers, Sequences, Functions

CONSTANTS
    Clients,     \* environments with a socket each
    Tcp,         \* those whose socket is a TCP socket
    Stack,       \* the name of the tcpip thread's mailbox
    QUEUE_SIZE,  \* QUEUE_SIZE
    MBOXSLOTS,   \* MBOXSLOTS
    MaxYields,   \* how often the main loop yields, 32
    MaxPackets   \* bound: packets that arrive

ASSUME NetServerAssumption ==
    /\ Tcp \subseteq Clients /\ Stack \notin Clients
    /\ QUEUE_SIZE \in Nat \ {0} /\ MBOXSLOTS \in Nat \ {0}
    /\ MaxYields \in Nat /\ MaxPackets \in Nat

VARIABLES
    cur,         \* cur_tc
    queue,       \* thread_queue
    th,          \* where a thread is; tc_wait_addr, the value waited on, tc_wakeup
    sem,         \* semaphores: counter and waiters
    box,         \* mailboxes: head, nextq, and msg, None in a slot not in use
    later,       \* sockets with conn->state CONNECT, WRITE or CLOSE
    gone,        \* sockets whose connection was lost: conn->pcb.tcp is NULL
    victim,      \* the conn of err_tcp() in the tcpip thread
    buse,        \* buffers in use
    mva,         \* the buffer of the main loop
    yields,      \* i of the main loop
    ipc,         \* the message the main loop received
    req,         \* what the thread of a buffer serves
    cl,          \* what a client does
    inp, pkts,   \* the input helper, and the packets it got
    nsipcbuf,    \* the packet in its page
    tim,         \* the timer helper
    out          \* the output helper

threadVars == <<cur, queue, th>>
connVars == <<later, gone, victim>>
syncVars == <<sem, box, connVars>>
mainVars == <<buse, mva, yields, ipc, req>>
envVars == <<cl, inp, pkts, nsipcbuf, tim, out>>
vars == <<threadVars, syncVars, mainVars, envVars>>

\* A thread that serves a request is named after its buffer.
Workers == 0 .. QUEUE_SIZE - 1
Main == QUEUE_SIZE
Tcpip == QUEUE_SIZE + 1
Threads == Workers \cup {Main, Tcpip}

Boxes == Clients \cup {Stack}
Queued(m) == <<"queued_msg", m>>
Freed(m) == <<"free_msg", m>>
Done(c) == <<"op_completed", c>>
Sems == {Queued(m) : m \in Boxes} \cup {Freed(m) : m \in Boxes} \cup {Done(c) : c \in Clients}

None == <<>>
At(pc) == [pc |-> pc, wait |-> None, val |-> None, wakeup |-> FALSE]
NoMsg == [kind |-> "none", who |-> Stack, n |-> 0]

-----------------------------------------------------------------------------
(* Threads.                                                                *)

\* thread_yield() of the running thread; q is the queue at that time.
Yield(q) ==
    /\ cur' = Head(Append(q, cur))
    /\ queue' = Tail(Append(q, cur))

\* thread_halt().
Halt ==
    /\ cur' = Head(queue)
    /\ queue' = Tail(queue)

\* thread_wakeups_pending()
Pending == {t \in Range(queue) : th[t].wakeup}

\* Mutant: only the head of the queue is looked at.
WokenFirst(t, s) == queue # <<>> /\ t = Head(queue) /\ th[t].wait = s

\* thread_wakeup(): who waits on s.
Woken(t, s) == t \in Range(queue) /\ th[t].wait = s

-----------------------------------------------------------------------------
(* Semaphores.                                                             *)

\* sem[s].v
V(s) == <<sem[s].counter, sem[s].waiters>>

\* The semaphore a thread is at, if any.
SemOf(t) ==
    CASE th[t].pc = "fetch" /\ t = Tcpip -> Queued(Stack)
      [] th[t].pc = "fetch" /\ t # Tcpip -> Queued(req[t].who)
      [] th[t].pc = "post"               -> Freed(Stack)
      [] th[t].pc = "op"                 -> Done(req[t].who)
      [] th[t].pc = "deliver"            -> Freed(req[t].who)
      [] th[t].pc = "error" /\ t = Tcpip -> Freed(victim)
      [] th[t].pc = "error" /\ t # Tcpip -> Freed(req[t].who)
      [] OTHER                           -> None

\* The running thread is about to wait for SemOf(cur).
AtSem == SemOf(cur) # None /\ th[cur].wait = None

\* sys_arch_sem_wait() with the counter at 0: thread_wait() is entered, and
\* finds nothing on its first round.
SemBlock ==
    /\ AtSem
    /\ LET s == SemOf(cur) IN
       /\ sem[s].counter = 0
       /\ sem' = [sem EXCEPT ![s] = [counter |-> 0, waiters |-> 1]]
       /\ th' = [th EXCEPT ![cur] = [pc |-> @.pc, wait |-> s, val |-> <<0, 1>>,
                                     wakeup |-> FALSE]]
    /\ Yield(queue)
    /\ UNCHANGED <<box, connVars, mainVars, envVars>>

\* The loop of thread_wait(): it is left when the value changed or the thread
\* was woken, and the tcpip thread, as long as it waits for a message, leaves it
\* when one of its timers is due.
WaitOver(t) == V(th[t].wait) # th[t].val \/ th[t].wakeup

WaitLeave ==
    /\ th[cur].wait # None
    /\ \/ WaitOver(cur)
       \/ cur = Tcpip /\ th[cur].pc = "fetch"
    /\ th' = [th EXCEPT ![cur] = At(@.pc)]
    /\ UNCHANGED <<cur, queue, syncVars, mainVars, envVars>>

WaitAgain ==
    /\ th[cur].wait # None
    /\ ~WaitOver(cur)
    /\ Yield(queue)
    /\ UNCHANGED <<th, syncVars, mainVars, envVars>>

\* The running thread passes SemOf(cur) and goes on at pc; with sys_sem_signal()
\* of the semaphores in S.
Passes(pc, S) ==
    /\ AtSem /\ sem[SemOf(cur)].counter > 0
    /\ LET s == SemOf(cur) IN
       sem' = [x \in Sems |->
                  CASE x \in S -> [counter |-> sem[x].counter + 1, waiters |-> 0]
                    [] x = s   -> [sem[x] EXCEPT !.counter = @ - 1]
                    [] OTHER   -> sem[x]]
    /\ th' = [t \in Threads |->
                 IF t = cur THEN At(pc)
                 ELSE [th[t] EXCEPT !.wakeup = @ \/ \E x \in S : sem[x].waiters = 1 /\ Woken(t, x)]]
    /\ UNCHANGED <<cur, queue>>

\* sys_sem_signal(), by a thread that goes on where it is.
Signals(s) ==
    /\ sem' = [sem EXCEPT ![s] = [counter |-> @.counter + 1, waiters |-> 0]]
    /\ th' = [t \in Threads |->
                 [th[t] EXCEPT !.wakeup = @ \/ (sem[s].waiters = 1 /\ Woken(t, s))]]
    /\ UNCHANGED <<cur, queue>>

-----------------------------------------------------------------------------
(* Mailboxes.                                                              *)

\* Mutant: the ring does not wrap around.
NextSlotOn(i) == i + 1
NextSlot(i) == (i + 1) % MBOXSLOTS

\* The rest of sys_mbox_trypost(), behind the wait for a free slot.
Put(m, msg) ==
    LET b == box[m] IN
    box' = [box EXCEPT ![m] = [head  |-> IF b.head = -1 THEN b.nextq ELSE b.head,
                               nextq |-> NextSlot(b.nextq),
                               msg   |-> [b.msg EXCEPT ![b.nextq] = msg]]]

\* Mutant: the mailbox is not marked empty.
TakenNot(b) == [b EXCEPT !.head = NextSlot(b.head)]

\* The rest of sys_arch_mbox_fetch(), behind the wait for a message.
Taken(b) ==
    [b EXCEPT !.head = IF NextSlot(b.head) = b.nextq THEN -1 ELSE NextSlot(b.head)]
Take(m) == box' = [box EXCEPT ![m] = [Taken(@) EXCEPT !.msg[box[m].head] = None]]
Oldest(m) == box[m].msg[box[m].head]

-----------------------------------------------------------------------------
(* The main loop.                                                          *)

\* Other threads are given time as long as one was woken.
MainFlush ==
    /\ cur = Main /\ th[Main].pc = "loop"
    /\ Pending # {} /\ yields < MaxYields
    /\ yields' = yields + 1
    /\ Yield(queue)
    /\ UNCHANGED <<th, syncVars, buse, mva, ipc, req, envVars>>

\* Mutant: whether the buffer is in use is not looked at.
FreeBufferAny(i) == i \in Workers

\* The first one that is not in use.
FreeBuffer(i) == i \in Workers \ buse /\ \A j \in 0 .. i - 1 : j \in buse

\* The loop is over.
Flushed == cur = Main /\ th[Main].pc = "loop" /\ (Pending = {} \/ yields = MaxYields)

\* get_buffer() and ipc_recv().
MainRecv ==
    /\ Flushed
    /\ \E i \in Workers :
          /\ FreeBuffer(i)
          /\ mva' = i
          /\ buse' = buse \cup {i}
    /\ th' = [th EXCEPT ![Main] = At("recv")]
    /\ UNCHANGED <<cur, queue, syncVars, yields, ipc, req, envVars>>

\* get_buffer() panics, "NS: buffer overflow", and the server stays in panic().
MainPanic ==
    /\ Flushed /\ buse = Workers
    /\ th' = [th EXCEPT ![Main] = At("panic")]
    /\ UNCHANGED <<cur, queue, syncVars, mainVars, envVars>>

Panicked == th[Main].pc = "panic"
StayPanicked == Panicked /\ UNCHANGED vars

\* env_ipc_recving
Receives == cur = Main /\ th[Main].pc = "recv"

\* Somebody sends a message.
Receive(kind, who, n) ==
    /\ Receives
    /\ ipc' = [kind |-> kind, who |-> who, n |-> n]
    /\ th' = [th EXCEPT ![Main] = At("got")]
    /\ UNCHANGED <<cur, queue, syncVars, buse, mva, yields, req>>

\* A thread for the request.
MainServe ==
    /\ cur = Main /\ th[Main].pc = "got"
    /\ ipc.kind # "timer"
    /\ req' = [req EXCEPT ![mva] = ipc]
    /\ th' = [th EXCEPT ![mva] = At("start"), ![Main] = At("loop")]
    /\ ipc' = NoMsg /\ yields' = 0
    /\ Yield(Append(queue, mva))
    /\ UNCHANGED <<syncVars, buse, mva, envVars>>

\* process_timer()
MainTimer ==
    /\ cur = Main /\ th[Main].pc = "got"
    /\ ipc.kind = "timer"
    /\ th' = [th EXCEPT ![Main] = At("timer")]
    /\ ipc' = NoMsg
    /\ Yield(queue)
    /\ UNCHANGED <<syncVars, buse, mva, yields, req, envVars>>

\* The answer to the timer helper: everything waits until it takes it.
MainTimerReply ==
    /\ cur = Main /\ th[Main].pc = "timer"
    /\ tim = "recving"
    /\ tim' = "sleep"
    /\ buse' = buse \ {mva}
    /\ yields' = 0
    /\ th' = [th EXCEPT ![Main] = At("loop")]
    /\ UNCHANGED <<cur, queue, syncVars, mva, ipc, req, cl, inp, pkts, nsipcbuf, out>>

-----------------------------------------------------------------------------
(* Connections.                                                            *)

\* do_writemore(), do_close_internal() or do_connected(): the call of c that was
\* put off is done.
Completed(c) ==
    /\ c \in later \ gone
    /\ later' = later \ {c}
    /\ Signals(Done(c))
    /\ UNCHANGED <<box, gone, victim>>

\* err_tcp() of c, from its wait for room in the receive mailbox: NULL is posted
\* there, and only then the call that was put off is completed.  The thread goes
\* on at pc.
Errored(c, pc) ==
    /\ Passes(pc, {Queued(c)} \cup {Done(x) : x \in later \cap {c}})
    /\ Put(c, "null")
    /\ later' = later \ {c}
    /\ UNCHANGED <<gone, victim>>

-----------------------------------------------------------------------------
(* serve_thread()                                                          *)

Runs(t, pc) == cur = t /\ th[t].pc = pc /\ th[t].wait = None
Goes(t, pc) == th' = [th EXCEPT ![t] = At(pc)]

\* A socket call: lwip_recv() looks into the receive mailbox, or fails at once
\* when the connection is lost; the others call the tcpip thread.
ServeCall(w) ==
    /\ Runs(w, "start")
    /\ \/ req[w].kind = "call" /\ Goes(w, "post")
       \/ req[w].kind = "recv" /\ req[w].who \notin gone /\ Goes(w, "fetch")
       \/ req[w].kind = "recv" /\ req[w].who \in gone /\ Goes(w, "reply")
    /\ UNCHANGED <<cur, queue, syncVars, mainVars, envVars>>

\* jif_input(): the packet is copied from the page, and is for the socket of c
\* or for none.
ServeInput(w) ==
    /\ Runs(w, "start") /\ req[w].kind = "input"
    /\ \/ \E c \in Clients \ gone :
             /\ req' = [req EXCEPT ![w] = [kind |-> "input", who |-> c, n |-> 0]]
             /\ Goes(w, IF c \in Tcp THEN "segment" ELSE "deliver")
       \/ Goes(w, "done") /\ UNCHANGED req
    /\ UNCHANGED <<cur, queue, syncVars, buse, mva, yields, ipc, envVars>>

\* tcp_input(): the other end resets the connection, err_tcp() begins.
ServeReset(w) ==
    /\ Runs(w, "start") /\ req[w].kind = "input"
    /\ \E c \in Tcp \ gone :
          /\ req' = [req EXCEPT ![w] = [kind |-> "input", who |-> c, n |-> 0]]
          /\ gone' = gone \cup {c}
    /\ Goes(w, "error")
    /\ UNCHANGED <<cur, queue, sem, box, later, victim, buse, mva, yields, ipc, envVars>>

\* tcp_input(): a segment establishes the connection or makes room for sending,
ServeSent(w) ==
    /\ Runs(w, "segment")
    /\ Completed(req[w].who)
    /\ UNCHANGED <<mainVars, envVars>>

\* and then it has something for the receiver or not.
ServeSegment(w) ==
    /\ Runs(w, "segment")
    /\ Goes(w, "deliver") \/ Goes(w, "done")
    /\ UNCHANGED <<cur, queue, syncVars, mainVars, envVars>>

\* netconn_recv(): a packet is fetched; for one of a TCP socket do_recv() is
\* called, but not for the NULL that the end of the connection is.
ServeFetch(w) ==
    /\ cur = w /\ th[w].pc = "fetch"
    /\ LET c == req[w].who IN
       /\ Passes(IF c \in Tcp /\ Oldest(c) = "data" THEN "post" ELSE "reply", {Freed(c)})
       /\ Take(c)
    /\ UNCHANGED <<connVars, mainVars, envVars>>

\* Mutant: queued_msg is not signalled.
ServePostSilent(w) ==
    /\ cur = w /\ th[w].pc = "post"
    /\ Passes("op", {})
    /\ Put(Stack, req[w].who)
    /\ UNCHANGED <<connVars, mainVars, envVars>>

\* tcpip_apimsg(): the message is posted, then the thread waits.
ServePost(w) ==
    /\ cur = w /\ th[w].pc = "post"
    /\ Passes("op", {Queued(Stack)})
    /\ Put(Stack, req[w].who)
    /\ UNCHANGED <<connVars, mainVars, envVars>>

ServeOp(w) ==
    /\ cur = w /\ th[w].pc = "op"
    /\ Passes("reply", {})
    /\ UNCHANGED <<box, connVars, mainVars, envVars>>

\* recv_udp(), recv_tcp(): "try" to post to the receive mailbox.  NULL is the
\* other end's FIN.
ServeDeliver(w) ==
    /\ cur = w /\ th[w].pc = "deliver"
    /\ Passes("done", {Queued(req[w].who)})
    /\ \/ Put(req[w].who, "data")
       \/ req[w].who \in Tcp /\ Put(req[w].who, "null")
    /\ UNCHANGED <<connVars, mainVars, envVars>>

ServeError(w) ==
    /\ cur = w /\ th[w].pc = "error"
    /\ Errored(req[w].who, "done")
    /\ UNCHANGED <<mainVars, envVars>>

\* low_level_output(): a packet may be given to the output helper.
MaySend ==
    \/ UNCHANGED out
    \/ out = "recving" /\ out' = "transmit"

PutBuffer(w) == buse' = buse \ {w}

\* The answer: ipc_send() blocks the server until the client takes it.  Then
\* the buffer is put back and the thread halts.
ServeReply(w) ==
    /\ Runs(w, "reply")
    /\ cl[req[w].who].pc = "recving"
    /\ cl' = [cl EXCEPT ![req[w].who].pc = "idle"]
    /\ PutBuffer(w)
    /\ req' = [req EXCEPT ![w] = NoMsg]
    /\ Goes(w, "none")
    /\ Halt
    /\ UNCHANGED <<syncVars, mva, yields, ipc, inp, pkts, nsipcbuf, tim, out>>

\* There is no answer to a packet, but processing it may send another one.
ServeDone(w) ==
    /\ Runs(w, "done")
    /\ MaySend
    /\ PutBuffer(w)
    /\ req' = [req EXCEPT ![w] = NoMsg]
    /\ Goes(w, "none")
    /\ Halt
    /\ UNCHANGED <<syncVars, mva, yields, ipc, cl, inp, pkts, nsipcbuf, tim>>

serve_thread(w) ==
    \/ ServeCall(w) \/ ServeFetch(w) \/ ServePost(w) \/ ServeOp(w) \/ ServeReply(w)
    \/ ServeInput(w) \/ ServeReset(w) \/ ServeSent(w) \/ ServeSegment(w)
    \/ ServeDeliver(w) \/ ServeError(w) \/ ServeDone(w)

-----------------------------------------------------------------------------
(* tcpip_thread(): req[w].who of the caller is the message.                *)

\* A message, and what it asks for.  op_completed is signalled when it is done.
TcpipCall ==
    /\ cur = Tcpip /\ th[Tcpip].pc = "fetch"
    /\ Passes("fetch", {Freed(Stack), Done(Oldest(Stack))})
    /\ Take(Stack)
    /\ UNCHANGED <<connVars, mainVars, envVars>>

\* A call that sends: low_level_output() waits for the output helper.
TcpipSend ==
    /\ cur = Tcpip /\ th[Tcpip].pc = "fetch"
    /\ out = "recving"
    /\ out' = "transmit"
    /\ Passes("fetch", {Freed(Stack), Done(Oldest(Stack))})
    /\ Take(Stack)
    /\ UNCHANGED <<connVars, mainVars, cl, inp, pkts, nsipcbuf, tim>>

\* do_connect(), or do_write() and do_delconn() without the memory they need:
\* op_completed is not signalled yet.  (do_recv() is always done at once.)
TcpipLater ==
    /\ cur = Tcpip /\ th[Tcpip].pc = "fetch"
    /\ Passes("fetch", {Freed(Stack)})
    /\ Oldest(Stack) \in Tcp \ gone /\ cl[Oldest(Stack)].kind = "call"
    /\ later' = later \cup {Oldest(Stack)}
    /\ Take(Stack)
    /\ MaySend
    /\ UNCHANGED <<gone, victim, mainVars, cl, inp, pkts, nsipcbuf, tim>>

\* tcpip_tcp_timer() is due: tcp_slowtmr() polls the connection,
TcpipPoll ==
    /\ Runs(Tcpip, "fetch")
    /\ \E c \in Tcp : Completed(c)
    /\ MaySend
    /\ UNCHANGED <<mainVars, cl, inp, pkts, nsipcbuf, tim>>

\* or gives it up, and err_tcp() begins.
TcpipAbort ==
    /\ Runs(Tcpip, "fetch")
    /\ \E c \in Tcp \ gone : gone' = gone \cup {c} /\ victim' = c
    /\ Goes(Tcpip, "error")
    /\ UNCHANGED <<cur, queue, sem, box, later, mainVars, envVars>>

TcpipError ==
    /\ cur = Tcpip /\ th[Tcpip].pc = "error"
    /\ Errored(victim, "fetch")
    /\ UNCHANGED <<mainVars, envVars>>

tcpip_thread == TcpipCall \/ TcpipSend \/ TcpipLater \/ TcpipPoll \/ TcpipAbort \/ TcpipError

NS ==
    \/ SemBlock \/ WaitLeave \/ WaitAgain
    \/ MainFlush \/ MainRecv \/ MainPanic \/ StayPanicked \/ MainServe \/ MainTimer \/ MainTimerReply
    \/ \E w \in Workers : serve_thread(w)
    \/ tcpip_thread

-----------------------------------------------------------------------------
(* The environments around the server.                                     *)

\* nsipc(): the client sends as soon as the server receives.
ClientSend(c) ==
    /\ cl[c].pc = "idle"
    /\ \E kind \in {"recv", "call"} :
          /\ Receive(kind, c, 0)
          /\ cl' = [cl EXCEPT ![c] = [pc |-> "sent", kind |-> kind]]
    /\ UNCHANGED <<inp, pkts, nsipcbuf, tim, out>>

\* Then it is in ipc_recv().
ClientRecv(c) ==
    /\ cl[c].pc = "sent"
    /\ cl' = [cl EXCEPT ![c].pc = "recving"]
    /\ UNCHANGED <<threadVars, syncVars, mainVars, inp, pkts, nsipcbuf, tim, out>>

\* sys_net_recv() returned a packet.
InputRecv ==
    /\ inp = "poll" /\ pkts < MaxPackets
    /\ pkts' = pkts + 1
    /\ inp' = "have"
    /\ UNCHANGED <<threadVars, syncVars, mainVars, cl, nsipcbuf, tim, out>>

\* Mutant: the page is written before the server receives.
InputSeeNot ==
    /\ inp = "have"
    /\ inp' = "copy"
    /\ UNCHANGED <<threadVars, syncVars, mainVars, cl, pkts, nsipcbuf, tim, out>>

\* The server is seen receiving,
InputSee ==
    /\ inp = "have" /\ Receives
    /\ inp' = "copy"
    /\ UNCHANGED <<threadVars, syncVars, mainVars, cl, pkts, nsipcbuf, tim, out>>

\* the page is written,
InputCopy ==
    /\ inp = "copy"
    /\ nsipcbuf' = pkts
    /\ inp' = "send"
    /\ UNCHANGED <<threadVars, syncVars, mainVars, cl, pkts, tim, out>>

\* and sent.
InputSend ==
    /\ inp = "send"
    /\ Receive("input", Stack, pkts)
    /\ inp' = "poll"
    /\ UNCHANGED <<cl, pkts, nsipcbuf, tim, out>>

TimerSend ==
    /\ tim = "sleep"
    /\ Receive("timer", Stack, 0)
    /\ tim' = "sent"
    /\ UNCHANGED <<cl, inp, pkts, nsipcbuf, out>>

TimerRecv ==
    /\ tim = "sent"
    /\ tim' = "recving"
    /\ UNCHANGED <<threadVars, syncVars, mainVars, cl, inp, pkts, nsipcbuf, out>>

\* sys_net_transmit(), and back to ipc_recv().
OutputDone ==
    /\ out = "transmit"
    /\ out' = "recving"
    /\ UNCHANGED <<threadVars, syncVars, mainVars, cl, inp, pkts, nsipcbuf, tim>>

Timer == TimerSend \/ TimerRecv
Input == InputRecv \/ InputSee \/ InputCopy \/ InputSend

-----------------------------------------------------------------------------

\* serve_init() is over: the tcpip thread waits for its first message.
Init ==
    /\ cur = Main /\ queue = <<Tcpip>>
    /\ th = [t \in Threads |->
               CASE t = Main  -> At("loop")
                 [] t = Tcpip -> [pc |-> "fetch", wait |-> Queued(Stack),
                                  val |-> <<0, 1>>, wakeup |-> FALSE]
                 [] OTHER     -> At("none")]
    /\ sem = [s \in Sems |-> [counter |-> IF s[1] = "free_msg" THEN MBOXSLOTS ELSE 0,
                              waiters |-> IF s = Queued(Stack) THEN 1 ELSE 0]]
    /\ box = [m \in Boxes |-> [head |-> -1, nextq |-> 0,
                               msg |-> [i \in 0 .. MBOXSLOTS - 1 |-> None]]]
    /\ later = {} /\ gone = {} /\ victim = Stack
    /\ buse = {} /\ mva = 0 /\ yields = 0
    /\ ipc = NoMsg
    /\ req = [w \in Workers |-> NoMsg]
    /\ cl = [c \in Clients |-> [pc |-> "idle", kind |-> "call"]]
    /\ inp = "poll" /\ pkts = 0 /\ nsipcbuf = 0
    /\ tim = "sleep"
    /\ out = "recving"

Next ==
    \/ NS
    \/ \E c \in Clients : ClientSend(c) \/ ClientRecv(c)
    \/ Timer \/ Input \/ OutputDone

Spec == Init /\ [][Next]_vars

\* Every environment runs.  Whether a client or the input helper gets through
\* to the server is left open.
FairSpec ==
    /\ Spec
    /\ WF_vars(NS) /\ WF_vars(Timer) /\ WF_vars(OutputDone) /\ WF_vars(InputCopy)
    /\ \A c \in Clients : WF_vars(ClientRecv(c))

-----------------------------------------------------------------------------
(* Properties.                                                             *)

TypeOK ==
    /\ cur \in Threads /\ Range(queue) \subseteq Threads \ {cur}
    /\ \A t \in Threads : th[t].wait \in Sems \cup {None}
    /\ \A s \in Sems : sem[s].counter \in 0 .. MBOXSLOTS + 1 /\ sem[s].waiters \in 0 .. 1
    /\ \A m \in Boxes : box[m].head \in -1 .. MBOXSLOTS - 1 /\ box[m].nextq \in 0 .. MBOXSLOTS - 1
    /\ later \subseteq Tcp /\ gone \subseteq Tcp
    /\ buse \subseteq Workers /\ mva \in Workers
    /\ yields \in 0 .. MaxYields

\* A buffer is in use exactly as long as the main loop receives into it or a
\* thread serves the request in it, and never for both; so a request is never
\* received over another one, and no buffer is lost.
BuffersExact ==
    LET mine == IF th[Main].pc \in {"recv", "got", "timer"} THEN {mva} ELSE {}
        served == {w \in Workers : th[w].pc # "none"}
    IN  buse = mine \cup served /\ mine \cap served = {}

\* The input helper writes all packets to the same page, and the server only
\* maps it: still the packet there is the one that was sent, as long as it has
\* not been copied.
PacketIntact ==
    /\ \A w \in Workers :
           th[w].pc = "start" /\ req[w].kind = "input" => nsipcbuf = req[w].n
    /\ ipc.kind = "input" => nsipcbuf = ipc.n

\* The number of messages in a mailbox.
Count(m) ==
    IF box[m].head = -1 THEN 0
    ELSE 1 + ((box[m].nextq - box[m].head - 1 + MBOXSLOTS) % MBOXSLOTS)

\* The ring of a mailbox and its two semaphores agree, so that fetching finds a
\* message and posting a free slot.
MboxExact ==
    \A m \in Boxes :
        /\ sem[Queued(m)].counter = Count(m)
        /\ sem[Freed(m)].counter = MBOXSLOTS - Count(m)

\* A thread that could go on.
CanGo(t) == th[t].wait = None \/ WaitOver(t) \/ sem[th[t].wait].counter > 0

\* ipc_recv() blocks all threads, "so we flush all pending work from other
\* threads": unless the main loop gave up, no thread is left that could go on.
BlocksWhenIdle ==
    Receives /\ yields < MaxYields => \A t \in Range(queue) : ~CanGo(t)

\* The tcpip thread waits in err_tcp() for room in a receive mailbox.
Stuck == th[Tcpip].pc = "error" /\ sem[Freed(victim)].counter = 0

\* A call that the server has received is answered, and so is lwip_recv() when
\* there is a packet in the socket's mailbox.  A TCP call that the stack put off
\* (connect, write, close) is answered once it was completed, which depends on
\* the other end and on timers; and err_tcp() may stop the whole tcpip thread.
Answered ==
    \A c \in Clients :
        cl[c].pc # "idle" /\ c \notin later /\ (cl[c].kind = "call" \/ Count(c) > 0)
            ~> cl[c].pc = "idle" \/ c \in later \/ Panicked \/ Stuck

\* err_tcp() wakes up "the waiting task": a call on a connection that is lost is
\* answered.
LossReleases ==
    \A c \in Tcp :
        c \in gone /\ cl[c].pc # "idle" /\ cl[c].kind = "call" ~> cl[c].pc = "idle" \/ Panicked

\* A call runs "in the thread context of tcpip_thread and has exclusive access to
\* lwIP core code": a thread that processes a packet is not interrupted there.
CoreExclusive == \A w \in Workers : th[w].pc = "deliver" => cur = w

\* get_buffer() does not panic, however many packets arrive.
NoOverflow == ~Panicked
=============================================================================
