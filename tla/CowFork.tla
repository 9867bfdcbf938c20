------------------------------- MODULE CowFork ------------------------------
(***************************************************************************)
(* Copy-on-write fork (lab6/jos/lib/fork.c, lib/pgfault.c), the page       *)
(* faults it lives on (page_fault_handler() in kern/trap.c), and the page  *)
(* that clients lend to the file server with every request (fsipc() in     *)
(* lib/file.c).                                                            *)
(*                                                                         *)
(* Environments run on different CPUs: every system call is a step, and    *)
(* so is every access to memory.  An environment that forks goes on using  *)
(* its stack: what pushes and calls write between two system calls of      *)
(* fork() is the action Write on the stack's page, which may fault as any  *)
(* other write.                                                            *)
(*                                                                         *)
(* A page stays at its address: fork() maps it at the same one, a new page *)
(* replaces the old one.  So physical pages (frames) are numbered for each *)
(* address.  One is free when nothing refers to it (PageMap proves that of *)
(* the kernel's counts).                                                   *)
(***************************************************************************)
EXTENDS Naturals, Sequences

CONSTANTS
    Envs,        \* environments
    First,       \* the one that runs first
    NFrames,     \* bound: physical pages for each address
    Values,      \* what a page contains
    Zero,        \* what a new page contains
    NotBorn      \* no memory

ASSUME CowForkAssumption ==
    /\ First \in Envs /\ NFrames \in Nat \ {0}
    /\ Zero \in Values

VARIABLES
    st,          \* what the environment does
    pt,          \* pt[e][va]: frame and permission, or the empty record Unmapped
    mem,         \* the contents of frames
    upcall,      \* env_pgfault_upcall, and the exception stack behind it
    fk,          \* where e is in fork()
    flt,         \* where e is in pgfault()
    srv          \* what the server has mapped at fsreq, and for whom

vars == <<st, pt, mem, upcall, fk, flt, srv>>

\* The pages in the order fork() visits them: text, fsipcbuf in the data
\* segment, a page marked PTE_SHARE, the stack.
Vas == <<"text", "buf", "share", "stack">>
VA == {Vas[i] : i \in DOMAIN Vas}
Private == VA \ {"share"}

ASSUME NotBornIsNoMemory == NotBorn \notin [Private -> Values]

Frames == 1 .. NFrames

\* PTE_P|PTE_U and: nothing, PTE_W, PTE_COW, PTE_W|PTE_SHARE.
Perms == {"r", "w", "cow", "ws"}
Writable == {"w", "ws"}

Unmapped == [f |-> 0, perm |-> "r"]
Empty == [va \in VA |-> Unmapped]

NotForking == [pc |-> "no", child |-> First, i |-> 0, pte |-> "r", seen |-> {}]
NoFault == [va |-> "text", pc |-> "no", tmp |-> 0]
NoRequest == [f |-> 0, client |-> First, pc |-> "recv"]

UsedFrames(va) ==
    {pt[e][va].f : e \in Envs}
        \cup {flt[e].tmp : e \in {x \in Envs : flt[x].va = va}}
        \cup {srv.f : x \in {"buf"} \cap {va}}
FreeFrames(va) == Frames \ UsedFrames(va)

\* page_alloc()
NewFrame(va) == CHOOSE f \in FreeFrames(va) : TRUE

\* The contents of a free frame do not matter, page_alloc() clears it.
Cleared ==
    [va \in VA |-> [f \in Frames |-> IF f \in UsedFrames(va)' THEN mem[va][f] ELSE Zero]]

\* What e sees.
At(e, va) == mem[va][pt[e][va].f]

\* e executes user code, and not its page fault handler.
Runs(e) == st[e] = "run" /\ flt[e].pc = "no"
Idle(e) == Runs(e) /\ fk[e].pc = "no"
\* Within fork(), between two system calls.
Forks(e) == Runs(e) /\ fk[e].pc # "no"

-----------------------------------------------------------------------------
(* Access to memory, and page faults.                                      *)

\* The stacks e had since it began to fork.
Seen(e, va, v) ==
    IF va = "stack" /\ fk[e].pc # "no" THEN [fk EXCEPT ![e].seen = @ \cup {v}] ELSE fk

\* A write to page va.
Write(e, va, v) ==
    /\ Idle(e) \/ (Forks(e) /\ va = "stack")
    /\ pt[e][va].perm \in Writable /\ pt[e][va].f # 0
    /\ mem' = [mem EXCEPT ![va][pt[e][va].f] = v]
    /\ fk' = Seen(e, va, v)
    /\ UNCHANGED <<st, pt, upcall, flt, srv>>

\* A write to a page that is not writable: the upcall runs, or there is none
\* and the environment is destroyed.
Fault(e, va) ==
    /\ Idle(e) \/ (Forks(e) /\ va = "stack")
    /\ pt[e][va].perm = "cow" /\ pt[e][va].f # 0
    /\ \/ /\ upcall[e]
          /\ flt' = [flt EXCEPT ![e] = [va |-> va, pc |-> "alloc", tmp |-> 0]]
          /\ UNCHANGED <<st, pt, fk>>
       \/ /\ ~upcall[e]
          /\ st' = [st EXCEPT ![e] = "killed"]
          /\ pt' = [pt EXCEPT ![e] = Empty]
          /\ fk' = [fk EXCEPT ![e] = NotForking]
          /\ UNCHANGED flt
    /\ UNCHANGED <<mem, upcall, srv>>

\* pgfault(): sys_page_alloc() at PFTEMP.
FaultAlloc(e) ==
    /\ st[e] = "run" /\ flt[e].pc = "alloc"
    /\ FreeFrames(flt[e].va) # {}
    /\ flt' = [flt EXCEPT ![e].tmp = NewFrame(flt[e].va), ![e].pc = "copy"]
    /\ UNCHANGED <<st, pt, mem, upcall, fk, srv>>

\* There is no memory for it: pgfault() panics.  A fork() that e was in ends
\* with it, and its child is never heard of again.
FaultNoMem(e) ==
    /\ st[e] = "run" /\ flt[e].pc = "alloc"
    /\ st' = [st EXCEPT ![e] = "nomem"]
    /\ fk' = [fk EXCEPT ![e] = NotForking]
    /\ flt' = [flt EXCEPT ![e] = NoFault]
    /\ UNCHANGED <<pt, mem, upcall, srv>>

\* Mutant: the page is moved before its contents are copied.
FaultCopyNot(e) ==
    /\ st[e] = "run" /\ flt[e].pc = "copy"
    /\ flt' = [flt EXCEPT ![e].pc = "map"]
    /\ UNCHANGED <<st, pt, mem, upcall, fk, srv>>

\* memmove().
FaultCopy(e) ==
    /\ st[e] = "run" /\ flt[e].pc = "copy"
    /\ mem' = [mem EXCEPT ![flt[e].va][flt[e].tmp] = At(e, flt[e].va)]
    /\ flt' = [flt EXCEPT ![e].pc = "map"]
    /\ UNCHANGED <<st, pt, upcall, fk, srv>>

\* sys_page_map() from PFTEMP to the page that faulted.
FaultMap(e) ==
    /\ st[e] = "run" /\ flt[e].pc = "map"
    /\ pt' = [pt EXCEPT ![e][flt[e].va] = [f |-> flt[e].tmp, perm |-> "w"]]
    /\ flt' = [flt EXCEPT ![e].pc = "unmap"]
    /\ UNCHANGED <<st, upcall, fk, srv>>
    /\ mem' = Cleared

\* sys_page_unmap() of PFTEMP, and back to the instruction that faulted.
FaultUnmap(e) ==
    /\ st[e] = "run" /\ flt[e].pc = "unmap"
    /\ flt' = [flt EXCEPT ![e] = NoFault]
    /\ UNCHANGED <<st, pt, mem, upcall, fk, srv>>

pgfault(e) ==
    FaultAlloc(e) \/ FaultNoMem(e) \/ FaultCopy(e) \/ FaultMap(e) \/ FaultUnmap(e)

-----------------------------------------------------------------------------
(* fork().                                                                 *)

\* set_pgfault_handler() and sys_exofork().
ForkBegin(e, c) ==
    /\ Idle(e)
    /\ st[c] = "free"
    /\ upcall' = [upcall EXCEPT ![e] = TRUE, ![c] = FALSE]
    /\ st' = [st EXCEPT ![c] = "embryo"]
    /\ fk' = [fk EXCEPT ![e] = [pc |-> "pte", child |-> c, i |-> 1, pte |-> "r",
                                seen |-> {At(e, "stack")}]]
    /\ UNCHANGED <<pt, mem, flt, srv>>

\* The first fork(): there is no memory for the exception stack, and
\* set_pgfault_handler() panics.
ForkNoHandler(e) ==
    /\ Idle(e) /\ ~upcall[e]
    /\ st' = [st EXCEPT ![e] = "nomem"]
    /\ UNCHANGED <<pt, mem, upcall, fk, flt, srv>>

\* No free environment: fork() returns, the handler stays.
ForkNoEnv(e) ==
    /\ Idle(e)
    /\ \A c \in Envs : st[c] # "free"
    /\ upcall' = [upcall EXCEPT ![e] = TRUE]
    /\ UNCHANGED <<st, pt, mem, fk, flt, srv>>

\* The next round of the loop, or what comes after it.
ForkNext(e) ==
    IF fk[e].i = Len(Vas) THEN [fk EXCEPT ![e].pc = "xstack"]
                          ELSE [fk EXCEPT ![e].pc = "pte", ![e].i = @ + 1]

\* The loop: the page table entry is read.  A page that is not there is skipped.
ForkPte(e) ==
    /\ Forks(e) /\ fk[e].pc = "pte"
    /\ LET va == Vas[fk[e].i] IN
       fk' = IF pt[e][va].f = 0 THEN ForkNext(e)
                                ELSE [fk EXCEPT ![e].pte = pt[e][va].perm, ![e].pc = "child"]
    /\ UNCHANGED <<st, pt, mem, upcall, flt, srv>>

\* The permission the child gets.
ChildPerm(pte) == IF pte \in {"w", "cow"} THEN "cow" ELSE pte

\* Mutant: a page that was copy-on-write when the entry was read stays as it is.
MapsSelfOnce(pte) == pte = "w"
MapsSelf(pte) == pte \in {"w", "cow"}

\* duppage(): the page is mapped in the child.
ForkChild(e) ==
    /\ Forks(e) /\ fk[e].pc = "child"
    /\ LET va == Vas[fk[e].i]
           perm == ChildPerm(fk[e].pte)
       IN  /\ perm \in Writable => pt[e][va].perm \in Writable
           /\ pt' = [pt EXCEPT ![fk[e].child][va] = [f |-> pt[e][va].f, perm |-> perm]]
    /\ fk' = IF MapsSelf(fk[e].pte) THEN [fk EXCEPT ![e].pc = "self"] ELSE ForkNext(e)
    /\ UNCHANGED <<st, mem, upcall, flt, srv>>

\* duppage(): and in the parent, to take away PTE_W.
ForkSelf(e) ==
    /\ Forks(e) /\ fk[e].pc = "self"
    /\ pt' = [pt EXCEPT ![e][Vas[fk[e].i]].perm = "cow"]
    /\ fk' = ForkNext(e)
    /\ UNCHANGED <<st, mem, upcall, flt, srv>>

\* There is no memory for a page table of the child: fork() returns an error,
\* and the child is never heard of again.
ForkNoMem(e) ==
    /\ Forks(e) /\ fk[e].pc \in {"child", "xstack"}
    /\ fk' = [fk EXCEPT ![e] = NotForking]
    /\ UNCHANGED <<st, pt, mem, upcall, flt, srv>>

\* Mutant: no upcall for the child.
ForkUpcallNot(e) ==
    /\ Forks(e) /\ fk[e].pc = "xstack"
    /\ fk' = [fk EXCEPT ![e].pc = "status"]
    /\ UNCHANGED <<st, pt, mem, upcall, flt, srv>>

\* The child's exception stack and upcall.
ForkUpcall(e) ==
    /\ Forks(e) /\ fk[e].pc = "xstack"
    /\ upcall' = [upcall EXCEPT ![fk[e].child] = TRUE]
    /\ fk' = [fk EXCEPT ![e].pc = "status"]
    /\ UNCHANGED <<st, pt, mem, flt, srv>>

\* The child is made runnable.
ForkStatus(e) ==
    /\ Forks(e) /\ fk[e].pc = "status"
    /\ st' = [st EXCEPT ![fk[e].child] = "run"]
    /\ fk' = [fk EXCEPT ![e] = NotForking]
    /\ UNCHANGED <<pt, mem, upcall, flt, srv>>

fork(e) ==
    \/ \E c \in Envs : ForkBegin(e, c)
    \/ ForkNoHandler(e) \/ ForkNoEnv(e) \/ ForkPte(e) \/ ForkChild(e) \/ ForkSelf(e)
    \/ ForkNoMem(e) \/ ForkUpcall(e) \/ ForkStatus(e)

-----------------------------------------------------------------------------
(* Requests to the file server.                                            *)

\* fsipc(): the page is sent with PTE_W, which the kernel grants only if the
\* sender has it.  The request was written just before, except sync()'s.
fsipc(e) ==
    /\ Idle(e) /\ srv.pc = "recv"
    /\ pt[e]["buf"].perm = "w"
    /\ srv' = [f |-> pt[e]["buf"].f, client |-> e, pc |-> "serve"]
    /\ st' = [st EXCEPT ![e] = "wait"]
    /\ UNCHANGED <<pt, mem, upcall, fk, flt>>

\* ipc_send() panics.
SyncPanics(e) ==
    /\ Idle(e) /\ srv.pc = "recv"
    /\ pt[e]["buf"].perm = "cow"
    /\ st' = [st EXCEPT ![e] = "panic"]
    /\ UNCHANGED <<pt, mem, upcall, fk, flt, srv>>

\* The server writes its answer to the page and replies.
Reply(v) ==
    /\ srv.pc = "serve"
    /\ mem' = [mem EXCEPT !["buf"][srv.f] = v]
    /\ st' = [st EXCEPT ![srv.client] = "run"]
    /\ srv' = [srv EXCEPT !.pc = "unmap"]
    /\ UNCHANGED <<pt, upcall, fk, flt>>

\* Then it unmaps the page.
Unmap ==
    /\ srv.pc = "unmap"
    /\ srv' = NoRequest
    /\ UNCHANGED <<st, pt, upcall, fk, flt>>
    /\ mem' = Cleared

\* exit(): the kernel frees the address space.  The last one stays.
Exit(e) ==
    /\ Idle(e)
    /\ \E x \in Envs \ {e} : st[x] = "run"
    /\ st' = [st EXCEPT ![e] = "free"]
    /\ pt' = [pt EXCEPT ![e] = Empty]
    /\ upcall' = [upcall EXCEPT ![e] = FALSE]
    /\ UNCHANGED <<fk, flt, srv>>
    /\ mem' = Cleared

-----------------------------------------------------------------------------

\* One environment with all its pages mapped, no handler yet.
Init ==
    /\ st = [e \in Envs |-> IF e = First THEN "run" ELSE "free"]
    /\ LET perm == [text |-> "r", buf |-> "w", share |-> "ws", stack |-> "w"] IN
       pt = [e \in Envs |-> IF e = First
                               THEN [va \in VA |-> [f |-> 1, perm |-> perm[va]]]
                               ELSE Empty]
    /\ mem = [va \in VA |-> [f \in Frames |-> Zero]]
    /\ upcall = [e \in Envs |-> FALSE]
    /\ fk = [e \in Envs |-> NotForking]
    /\ flt = [e \in Envs |-> NoFault]
    /\ srv = NoRequest

Next ==
    \/ \E e \in Envs, va \in VA, v \in Values : Write(e, va, v)
    \/ \E e \in Envs, va \in VA : Fault(e, va)
    \/ \E e \in Envs : pgfault(e) \/ fork(e) \/ fsipc(e) \/ SyncPanics(e) \/ Exit(e)
    \/ \E v \in Values : Reply(v)
    \/ Unmap

Spec == Init /\ [][Next]_vars

-----------------------------------------------------------------------------
(* Properties.                                                             *)

TypeOK ==
    /\ st \in [Envs -> {"free", "embryo", "run", "wait", "panic", "nomem", "killed"}]
    /\ \A e \in Envs, va \in VA : pt[e][va].f \in Frames \cup {0} /\ pt[e][va].perm \in Perms
    /\ mem \in [VA -> [Frames -> Values]]
    /\ upcall \in [Envs -> BOOLEAN]
    /\ \A e \in Envs : fk[e].i \in 0 .. Len(Vas) /\ fk[e].child \in Envs
    /\ \A e \in Envs : flt[e].tmp \in Frames \cup {0}
    /\ srv.f \in Frames \cup {0}

\* A page that an environment can write without a fault is mapped by no other
\* environment, unless it is meant to be shared: not by the child either, but
\* for the moment between the two halves of duppage().  Nobody gets at the new
\* page of a fault.  (Who panics in that moment, when a write to its stack finds
\* no memory, leaves the page as it is, but writes no more.)
Isolated ==
    \A e \in Envs, va \in VA :
        st[e] # "nomem" /\ pt[e][va].f # 0 /\ pt[e][va].perm = "w" =>
            \A x \in Envs \ {e} :
                /\ pt[x][va].f = pt[e][va].f =>
                      fk[e].pc = "self" /\ fk[e].child = x /\ Vas[fk[e].i] = va
                /\ flt[x].va = va => flt[x].tmp # pt[e][va].f

\* No environment is destroyed because it wrote to its own memory: whoever has
\* copy-on-write pages has the handler for them.  It may still panic there when
\* the memory is out.
FaultsAreHandled == \A e \in Envs : st[e] # "killed"

\* Every environment sees memory of its own.
View ==
    [e \in Envs |-> IF st[e] \in {"run", "wait", "panic", "nomem"}
                       THEN [va \in Private |-> At(e, va)] ELSE NotBorn]

Shared == LET e == CHOOSE e \in Envs : pt[e]["share"].f # 0 IN At(e, "share")

\* fork() gives the child the parent's memory as it was when it forked, and
\* both a memory of their own from then on.
Memory == INSTANCE ForkMemory WITH
    Stack <- "stack", vm <- View, shm <- Shared, seen <- [e \in Envs |-> fk[e].seen]
ImplementsForkMemory == Memory!Spec

\* "Ask the file server to update the disk": sync() reaches the server.
SyncReaches == \A e \in Envs : st[e] # "panic"
=============================================================================
