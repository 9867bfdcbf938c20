-------------------------------- MODULE Pipe --------------------------------
(***************************************************************************)
(* A pipe (lab6/jos/lib/pipe.c) shared by several environments, with the   *)
(* descriptor operations of lib/fd.c and the page sharing of fork().       *)
(*                                                                         *)
(* Nothing locks a pipe.  All of it is user code that timer interrupts cut *)
(* anywhere and that other CPUs overlap with, so every load, store or page *)
(* system call that others can see is a step of its own.                   *)
(*                                                                         *)
(* Descriptor slot 0 is p[0], slot 1 is p[1] and slot 2 the target of      *)
(* dup().  pageref() is the number of mappings of a page, which is what    *)
(* PageMap shows pp_ref to be.                                             *)
(***************************************************************************)
EXTENDS Integers, Sequences, FiniteSets

CONSTANTS
    Envs,      \* environments
    Reader,    \* the one that reads from p[0]
    Writer,    \* the one that writes to p[1]
    Unborn,    \* environments that a fork() has yet to create
    NoEnv,     \* no environment
    NCPU,      \* number of CPUs
    PIPEBUFSIZ,
    MaxBytes   \* bound: bytes written in a behaviour

ASSUME PipeAssumption ==
    /\ Reader \in Envs
    /\ Writer \in Envs
    /\ Reader # Writer
    /\ Unborn \subseteq Envs
    /\ NoEnv \notin Envs
    /\ NCPU \in Nat \ {0}
    /\ PIPEBUFSIZ \in Nat \ {0}
    /\ MaxBytes \in Nat

VARIABLES
    fd,        \* fd[e][i]: the end whose struct Fd page is mapped in slot i
    data,      \* data[e][i]: is the struct Pipe page mapped for slot i?
    p_rpos, p_wpos, p_buf,
    got,       \* the bytes the reader has received
    eof,       \* the reader has been told end of file
    pc,        \* pc[e]: where e is in its library call
    slot,      \* slot[e]: the descriptor the call of e works on
    from,      \* from[e]: the descriptor dup() copies, the pages fork() has copied
    child,     \* child[e]: the environment e is creating
    seen,      \* seen[e]: the loads of _pipeisclosed() so far
    moved,     \* moved[e]: env_runs has changed since the _pipeisclosed() that
               \* e is in read it
    cpus       \* the environments that are running

pipeVars == <<p_rpos, p_wpos, p_buf, got, eof>>
mapVars == <<fd, data>>
callVars == <<slot, from, child>>
checkVars == <<seen, moved>>
vars == <<pipeVars, mapVars, pc, callVars, checkVars, cpus>>

Slots == 0 .. 2
Ends == {"r", "w"}
NoEnd == "none"

Other(end) == IF end = "r" THEN "w" ELSE "r"

\* Bytes are told apart by their place in the stream.
Byte(k) == k + 1

pagerefFd(end) == Cardinality({p \in Envs \X Slots : fd[p[1]][p[2]] = end})
pagerefPipe == Cardinality({p \in Envs \X Slots : data[p[1]][p[2]]})

At(e, label) == e \in cpus /\ pc[e] = label
Goto(e, label) == pc' = [pc EXCEPT ![e] = label]

\* The call is over, and its local variables are gone.
Done(e) ==
    /\ Goto(e, "idle")
    /\ slot' = [slot EXCEPT ![e] = 0]
    /\ from' = [from EXCEPT ![e] = 0]

-----------------------------------------------------------------------------
(* close() and exit().                                                     *)

\* devpipe_close() unmaps the struct Fd page first ...
close(e, i) ==
    /\ At(e, "idle")
    /\ fd[e][i] # NoEnd
    /\ fd' = [fd EXCEPT ![e][i] = NoEnd]
    /\ slot' = [slot EXCEPT ![e] = i]
    /\ Goto(e, "close")
    /\ UNCHANGED <<data, from, child, pipeVars, checkVars, cpus>>

CloseKeepData(e) ==
    /\ At(e, "close")
    /\ Done(e)
    /\ UNCHANGED <<mapVars, child, pipeVars, checkVars, cpus>>

\* ... and the struct Pipe page second.
CloseData(e) ==
    /\ At(e, "close")
    /\ data' = [data EXCEPT ![e][slot[e]] = FALSE]
    /\ Done(e)
    /\ UNCHANGED <<fd, child, pipeVars, checkVars, cpus>>

\* exit(): the kernel unmaps everything, and the CPU is free for another
\* environment, or halts.
exit(e) ==
    /\ At(e, "idle")
    /\ fd' = [fd EXCEPT ![e] = [i \in Slots |-> NoEnd]]
    /\ data' = [data EXCEPT ![e] = [i \in Slots |-> FALSE]]
    /\ Goto(e, "gone")
    /\ cpus' = cpus \ {e}
    /\ UNCHANGED <<callVars, pipeVars, checkVars>>

-----------------------------------------------------------------------------
(* dup(i, 2): close(2), map the data page, then map the descriptor page.   *)

dup(e, i) ==
    /\ At(e, "idle")
    /\ i # 2 /\ fd[e][i] # NoEnd
    /\ from' = [from EXCEPT ![e] = i]
    /\ IF fd[e][2] # NoEnd
       THEN fd' = [fd EXCEPT ![e][2] = NoEnd] /\ Goto(e, "dupclose")
       ELSE UNCHANGED fd /\ Goto(e, "dupdata")
    /\ UNCHANGED <<data, slot, child, pipeVars, checkVars, cpus>>

DupClose(e) ==
    /\ At(e, "dupclose")
    /\ data' = [data EXCEPT ![e][2] = FALSE]
    /\ Goto(e, "dupdata")
    /\ UNCHANGED <<fd, callVars, pipeVars, checkVars, cpus>>

DupData(e) ==
    /\ At(e, "dupdata")
    /\ data' = [data EXCEPT ![e][2] = TRUE]
    /\ Goto(e, "dupfd")
    /\ UNCHANGED <<fd, callVars, pipeVars, checkVars, cpus>>

DupFd(e) ==
    /\ At(e, "dupfd")
    /\ fd' = [fd EXCEPT ![e][2] = fd[e][from[e]]]
    /\ Done(e)
    /\ UNCHANGED <<data, child, pipeVars, checkVars, cpus>>

-----------------------------------------------------------------------------
(* fork(): duppage() copies the shared pages by rising address, all the    *)
(* descriptor pages before all the data pages.                             *)

fork(e, c) ==
    /\ At(e, "idle")
    /\ pc[c] = "unborn" /\ \A d \in Envs : child[d] # c
    /\ child' = [child EXCEPT ![e] = c]
    /\ from' = [from EXCEPT ![e] = 0]
    /\ Goto(e, "fork")
    /\ UNCHANGED <<mapVars, slot, pipeVars, checkVars, cpus>>

duppage(e) ==
    LET k == from[e]
        c == child[e]
    IN  /\ At(e, "fork")
        /\ k < 6
        /\ IF k < 3
           THEN fd' = [fd EXCEPT ![c][k] = fd[e][k]] /\ UNCHANGED data
           ELSE data' = [data EXCEPT ![c][k - 3] = data[e][k - 3]] /\ UNCHANGED fd
        /\ from' = [from EXCEPT ![e] = k + 1]
        /\ UNCHANGED <<pc, slot, child, pipeVars, checkVars, cpus>>

\* sys_env_set_status(id, ENV_RUNNABLE), and fork() returns.
ForkDone(e) ==
    /\ At(e, "fork")
    /\ from[e] = 6
    /\ pc' = [pc EXCEPT ![e] = "idle", ![child[e]] = "idle"]
    /\ child' = [child EXCEPT ![e] = NoEnv]
    /\ from' = [from EXCEPT ![e] = 0]
    /\ UNCHANGED <<mapVars, slot, pipeVars, checkVars, cpus>>

-----------------------------------------------------------------------------
(* devpipe_read().  from[e] is i, the bytes taken by this call.            *)

read(e) ==
    /\ At(e, "idle")
    /\ e = Reader /\ fd[e][0] = "r"
    /\ slot' = [slot EXCEPT ![e] = 0]
    /\ from' = [from EXCEPT ![e] = 0]
    /\ Goto(e, "rtest")
    /\ UNCHANGED <<mapVars, child, pipeVars, checkVars, cpus>>

EmptyLate == p_rpos > p_wpos
Empty == p_rpos = p_wpos
Full == p_wpos >= p_rpos + PIPEBUFSIZ

\* The loop condition: a byte is there, or this call has one already, or it
\* is time to ask whether the writers are gone.
ReadTest(e) ==
    /\ At(e, "rtest")
    /\ \/ ~Empty /\ Goto(e, "rtake") /\ UNCHANGED <<slot, from>>
       \/ Empty /\ from[e] = 0 /\ Goto(e, "check") /\ UNCHANGED <<slot, from>>
       \/ Empty /\ from[e] > 0 /\ Done(e)
    /\ UNCHANGED <<mapVars, child, pipeVars, checkVars, cpus>>

ReadTake(e) ==
    /\ At(e, "rtake")
    /\ got' = Append(got, p_buf[p_rpos % PIPEBUFSIZ])
    /\ Goto(e, "rinc")
    /\ UNCHANGED <<mapVars, callVars, p_rpos, p_wpos, p_buf, eof, checkVars, cpus>>

\* The call goes on if it asked for more.
ReadInc(e) ==
    /\ At(e, "rinc")
    /\ p_rpos' = p_rpos + 1
    /\ \/ Done(e)
       \/ Goto(e, "rtest") /\ from' = [from EXCEPT ![e] = 1] /\ UNCHANGED slot
    /\ UNCHANGED <<mapVars, child, p_wpos, p_buf, got, eof, checkVars, cpus>>

IncBeforeTake(e) ==
    \/ /\ At(e, "rtake")
       /\ p_rpos' = p_rpos + 1
       /\ Goto(e, "rinc")
       /\ UNCHANGED <<mapVars, callVars, p_wpos, p_buf, got, eof, checkVars, cpus>>
    \/ /\ At(e, "rinc")
       /\ got' = Append(got, p_buf[(p_rpos - 1) % PIPEBUFSIZ])
       /\ Done(e)
       /\ UNCHANGED <<mapVars, child, p_rpos, p_wpos, p_buf, eof, checkVars, cpus>>

\* Taking the byte and moving p_rpos, in this order.
Take(e) == ReadTake(e) \/ ReadInc(e)

-----------------------------------------------------------------------------
(* devpipe_write().                                                        *)

write(e) ==
    /\ At(e, "idle")
    /\ e = Writer /\ fd[e][1] = "w"
    /\ p_wpos < MaxBytes
    /\ slot' = [slot EXCEPT ![e] = 1]
    /\ Goto(e, "wtest")
    /\ UNCHANGED <<mapVars, from, child, pipeVars, checkVars, cpus>>

WriteTest(e) ==
    /\ At(e, "wtest")
    /\ Goto(e, IF Full THEN "check" ELSE "wstore")
    /\ UNCHANGED <<mapVars, callVars, pipeVars, checkVars, cpus>>

WriteStore(e) ==
    /\ At(e, "wstore")
    /\ p_buf' = [p_buf EXCEPT ![p_wpos % PIPEBUFSIZ] = Byte(p_wpos)]
    /\ Goto(e, "winc")
    /\ UNCHANGED <<mapVars, callVars, p_rpos, p_wpos, got, eof, checkVars, cpus>>

WriteInc(e) ==
    /\ At(e, "winc")
    /\ p_wpos' = p_wpos + 1
    /\ \/ Done(e)
       \/ p_wpos' < MaxBytes /\ Goto(e, "wtest") /\ UNCHANGED <<slot, from>>
    /\ UNCHANGED <<mapVars, child, p_rpos, p_buf, got, eof, checkVars, cpus>>

-----------------------------------------------------------------------------
(* _pipeisclosed().                                                        *)

\* n = thisenv->env_runs
CheckBegin(e) ==
    /\ At(e, "check")
    /\ Goto(e, "load")
    /\ UNCHANGED <<mapVars, callVars, pipeVars, checkVars, cpus>>

\* The two calls of pageref(), in either order: C leaves it open.
Loaded(e) == {seen[e][k][1] : k \in DOMAIN seen[e]}

LoadFd(e) ==
    /\ At(e, "load") /\ "fd" \notin Loaded(e)
    /\ seen' = [seen EXCEPT ![e] = Append(@, <<"fd", pagerefFd(fd[e][slot[e]])>>)]
    /\ UNCHANGED <<mapVars, pc, callVars, pipeVars, moved, cpus>>

LoadPipe(e) ==
    /\ At(e, "load") /\ "pipe" \notin Loaded(e)
    /\ seen' = [seen EXCEPT ![e] = Append(@, <<"pipe", pagerefPipe>>)]
    /\ UNCHANGED <<mapVars, pc, callVars, pipeVars, moved, cpus>>

LooksClosed(e) == seen[e][1][2] = seen[e][2][2]

Forget(e) ==
    /\ seen' = [seen EXCEPT ![e] = <<>>]
    /\ moved' = [moved EXCEPT ![e] = FALSE]

\* nn = thisenv->env_runs differs: once more.
CheckAgain(e) ==
    /\ At(e, "load") /\ Len(seen[e]) = 2
    /\ moved[e]
    /\ Goto(e, "check")
    /\ Forget(e)
    /\ UNCHANGED <<mapVars, callVars, pipeVars, cpus>>

MovedOrNot(e) == TRUE

NotMoved(e) == ~moved[e]

\* The answer: end of file for a reader, 0 bytes for a writer, or a yield
\* and the loop condition again.
CheckEnd(e) ==
    /\ At(e, "load") /\ Len(seen[e]) = 2
    /\ NotMoved(e)
    /\ IF LooksClosed(e)
       THEN /\ eof' = (eof \/ fd[e][slot[e]] = "r")
            /\ Goto(e, "closed")
       ELSE /\ UNCHANGED eof
            /\ Goto(e, IF fd[e][slot[e]] = "r" THEN "rtest" ELSE "wtest")
    /\ Forget(e)
    /\ UNCHANGED <<mapVars, callVars, p_rpos, p_wpos, p_buf, got, cpus>>

\* The call returns.  A reader told end of file does not read again.
Return(e) ==
    /\ At(e, "closed")
    /\ Done(e)
    /\ UNCHANGED <<mapVars, child, pipeVars, checkVars, cpus>>

-----------------------------------------------------------------------------

\* sys_yield(), a timer interrupt or a wait for the other environments: d
\* gives its CPU to e, and env_run() counts it in e's env_runs.
Switch(d, e) ==
    /\ d \in cpus /\ e \notin cpus
    /\ pc[e] \notin {"unborn", "gone"}
    /\ cpus' = (cpus \ {d}) \cup {e}
    /\ moved' = [moved EXCEPT ![e] = (pc[e] = "load")]
    /\ UNCHANGED <<mapVars, pc, callVars, pipeVars, seen>>

\* A halted CPU picks e up.
Dispatch(e) ==
    /\ Cardinality(cpus) < NCPU
    /\ e \notin cpus
    /\ pc[e] \notin {"unborn", "gone"}
    /\ cpus' = cpus \cup {e}
    /\ moved' = [moved EXCEPT ![e] = (pc[e] = "load")]
    /\ UNCHANGED <<mapVars, pc, callVars, pipeVars, seen>>

Born == Envs \ Unborn

\* pipe() has made the pipe and fork()s have shared it.
Init ==
    /\ fd = [e \in Envs |-> [i \in Slots |->
                IF e \in Born /\ i = 0 THEN "r"
                ELSE IF e \in Born /\ i = 1 THEN "w" ELSE NoEnd]]
    /\ data = [e \in Envs |-> [i \in Slots |-> e \in Born /\ i # 2]]
    /\ p_rpos = 0 /\ p_wpos = 0
    /\ p_buf = [k \in 0 .. PIPEBUFSIZ - 1 |-> 0]
    /\ got = <<>>
    /\ eof = FALSE
    /\ pc = [e \in Envs |-> IF e \in Born THEN "idle" ELSE "unborn"]
    /\ slot = [e \in Envs |-> 0]
    /\ from = [e \in Envs |-> 0]
    /\ child = [e \in Envs |-> NoEnv]
    /\ seen = [e \in Envs |-> <<>>]
    /\ moved = [e \in Envs |-> FALSE]
    /\ cpus \in {c \in SUBSET Born : c # {} /\ Cardinality(c) <= NCPU}

Check(e) ==
    \/ CheckBegin(e) \/ LoadFd(e) \/ LoadPipe(e)
    \/ CheckAgain(e) \/ CheckEnd(e) \/ Return(e)

\* What an environment does to finish the call it is in.
Continue(e) ==
    \/ CloseData(e) \/ DupClose(e) \/ DupData(e) \/ DupFd(e)
    \/ duppage(e) \/ ForkDone(e)
    \/ ReadTest(e) \/ Take(e)
    \/ WriteTest(e) \/ WriteStore(e) \/ WriteInc(e)
    \/ Check(e)

Call(e) ==
    \/ ~(e = Reader /\ eof) /\ read(e)
    \/ write(e) \/ exit(e)
    \/ \E i \in Slots : close(e, i) \/ dup(e, i)
    \/ \E c \in Unborn : fork(e, c)

Switches == \E e \in Envs : Dispatch(e) \/ \E d \in Envs : Switch(d, e)

Next == (\E e \in Envs : Continue(e) \/ Call(e)) \/ Switches

\* The loads of a pass through _pipeisclosed() are done and were not cut by
\* a timer interrupt.
Uncut(e) == At(e, "load") /\ Len(seen[e]) = 2 /\ ~moved[e]

\* The scheduler comes back to every environment and lets it get on, and the
\* timer does not cut every single pass through _pipeisclosed(), which is a
\* few loads long.
Fairness ==
    \A e \in Envs :
        /\ SF_vars(Continue(e))
        /\ SF_vars(CheckEnd(e))
        /\ WF_vars(Dispatch(e) \/ \E d \in Envs : Switch(d, e))
        /\ []<>(pc[e] = "load") => []<>Uncut(e)

Spec == Init /\ [][Next]_vars
FairSpec == Spec /\ Fairness

-----------------------------------------------------------------------------
(* Properties.                                                             *)

Labels ==
    {"unborn", "idle", "gone", "close", "dupclose", "dupdata", "dupfd", "fork",
     "rtest", "rtake", "rinc", "wtest", "wstore", "winc", "check", "load", "closed"}

TypeOK ==
    /\ fd \in [Envs -> [Slots -> Ends \cup {NoEnd}]]
    /\ data \in [Envs -> [Slots -> BOOLEAN]]
    /\ p_rpos \in 0 .. MaxBytes /\ p_wpos \in 0 .. MaxBytes
    /\ p_buf \in [0 .. PIPEBUFSIZ - 1 -> 0 .. MaxBytes]
    /\ got \in Seq(1 .. MaxBytes)
    /\ eof \in BOOLEAN
    /\ pc \in [Envs -> Labels]
    /\ slot \in [Envs -> Slots]
    /\ from \in [Envs -> 0 .. 6]
    /\ child \in [Envs -> Envs \cup {NoEnv}]
    /\ moved \in [Envs -> BOOLEAN]
    /\ cpus \subseteq Envs

\* The reader receives the bytes that were written, in order, none twice and
\* none from a place of p_buf the writer has reused.
InOrder == \A k \in DOMAIN got : got[k] = Byte(k - 1)

\* Some descriptor of the end can still be used or copied.
IsOpen(end) == \E e \in Envs, i \in Slots : fd[e][i] = end

\* _pipeisclosed() answers yes only when no descriptor of the other end is
\* left (on one CPU, and when nobody asks while another environment forks).
ClosedIsTrue ==
    \A e \in Envs : pc[e] = "closed" => ~IsOpen(Other(fd[e][slot[e]]))

\* A reader is told end of file only after it has received all there was.
EofIsEnd == eof => Len(got) = p_wpos

\* A read() blocked on an empty pipe does not wait for ever when the write
\* end is closed and the other environments leave their descriptors alone.
\* (One that calls dup() and close() for ever can keep the counts unequal
\* whenever the reader looks.)
Quiet(e) == \A d \in Envs \ {e} : pc[d] \in {"idle", "gone", "unborn"}

ReadReturns ==
    <>[](~IsOpen("w") /\ Quiet(Reader))
        => []<>(pc[Reader] \notin {"rtest", "rtake", "rinc", "check", "load"})
=============================================================================
