------------------------------ MODULE EnvSched ------------------------------
(***************************************************************************)
(* Environments, the round-robin scheduler and the big kernel lock of JOS  *)
(* (lab6/jos/kern: env.c, sched.c, trap.c, syscall.c, spinlock.c, init.c). *)
(*                                                                         *)
(* Several CPUs run user environments.  A trap takes the big kernel lock,  *)
(* runs one handler to its end and releases the lock in env_run() or       *)
(* sched_halt(); a handler is therefore one step.  What the code does      *)
(* outside the lock is a step of its own: spinning for the lock in trap(), *)
(* and loading %cr3 and the trap frame after unlock_kernel() in env_run(). *)
(***************************************************************************)
EXTENDS Integers, Sequences

CONSTANTS
    NCPU,     \* ncpu: number of CPUs; CPU 0 is the boot CPU
    NENV,     \* number of slots of envs[]
    NBoot,    \* environments made by ENV_CREATE before the first sched_yield()
    MaxGen,   \* last generation before env_id wraps to 1 << ENVGENSHIFT
    Lapses    \* ways in which user programs leave the discipline of lib/

ASSUME ConstantsAssumption ==
    /\ NCPU \in Nat \ {0}
    /\ NENV \in Nat \ {0}
    /\ NBoot \in 1..NENV
    /\ MaxGen \in Nat \ {0}
    /\ Lapses \subseteq {"restart", "redestroy", "killreceiver"}

VARIABLES
    env_status,       \* envs[i].env_status
    env_runs,         \* envs[i].env_runs > 0: it ran since env_alloc()
    env_gen,          \* generation part of envs[i].env_id
    env_parent_id,    \* envs[i].env_parent_id
    env_ipc_recving,  \* envs[i].env_ipc_recving
    env_free_list,    \* env_free_list and the env_link chain behind it
    curenv,           \* cpus[c].cpu_env
    cr3,              \* the environment whose page directory CPU c has loaded
    pc,               \* where CPU c is
    kernel_lock       \* CPU that holds the big kernel lock

vars == <<env_status, env_runs, env_gen, env_parent_id, env_ipc_recving,
          env_free_list, curenv, cr3, pc, kernel_lock>>

idVars == <<env_gen, env_parent_id>>

CPUs == 0 .. NCPU - 1
Envs == 0 .. NENV - 1
NULL == -1            \* curenv == NULL, %cr3 == kern_pgdir, lock not held
NoId == <<0, 0>>      \* envid 0: slot 0 of generation 0, which no env has
EnvIds == Envs \X (0 .. MaxGen)

Statuses == {"FREE", "DYING", "RUNNABLE", "RUNNING", "NOT_RUNNABLE"}

(***************************************************************************)
(* CPU locations.  "boot": i386_init()/mp_main() before their sched_yield; *)
(* "trap": trapped from user mode, spinning for the lock; "wake": trapped  *)
(* out of hlt, spinning; "kernel" and "idle": the handler of such a trap,  *)
(* lock held; "leave": env_run() after unlock_kernel().                    *)
(***************************************************************************)
Locations == {"boot", "user", "trap", "kernel", "leave",
              "halted", "wake", "idle", "monitor"}
OnEnv == {"user", "trap", "kernel", "leave"}  \* CPU is bound to curenv

env_id(e) == <<e, env_gen[e]>>

-----------------------------------------------------------------------------
(* Leaving the kernel: env_run(), sched_yield(), sched_halt().  st, rn, cur *)
(* and pd are env_status, env_runs, curenv and %cr3 as the handler left them *)

Descheduled(st, cur) ==
    IF cur # NULL /\ st[cur] = "RUNNING" THEN [st EXCEPT ![cur] = "RUNNABLE"]
                                         ELSE st

EnvRun(c, st, rn, cur, pd, e) ==
    /\ env_status' = IF cur = e THEN st
                     ELSE [Descheduled(st, cur) EXCEPT ![e] = "RUNNING"]
    /\ env_runs' = IF cur = e THEN rn ELSE [rn EXCEPT ![e] = TRUE]
    /\ curenv' = [curenv EXCEPT ![c] = e]
    /\ cr3' = [cr3 EXCEPT ![c] = pd]
    /\ kernel_lock' = NULL
    /\ pc' = [pc EXCEPT ![c] = "leave"]

SchedHalt(c, st, rn, cur, pd) ==
    /\ env_status' = st
    /\ env_runs' = rn
    /\ IF \E e \in Envs : st[e] \in {"RUNNABLE", "RUNNING", "DYING"}
       THEN /\ curenv' = [curenv EXCEPT ![c] = NULL]
            /\ cr3' = [cr3 EXCEPT ![c] = NULL]
            /\ kernel_lock' = NULL
            /\ pc' = [pc EXCEPT ![c] = "halted"]
       ELSE /\ curenv' = [curenv EXCEPT ![c] = cur]
            /\ cr3' = [cr3 EXCEPT ![c] = pd]
            /\ kernel_lock' = c
            /\ pc' = [pc EXCEPT ![c] = "monitor"]

\* Mutant: a RUNNING environment of any CPU is eligible.
EligibleAnyRunning(st, cur, e) == st[e] \in {"RUNNABLE", "RUNNING"}

Eligible(st, cur, e) ==
    \/ st[e] = "RUNNABLE"
    \/ e = cur /\ st[e] = "RUNNING"

\* Mutant: the search always starts at slot 0.
CandidateFromZero(cur, k) == k - 1

\* The k-th slot sched_yield() looks at; cur = NULL starts it at slot 0.
Candidate(cur, k) == (cur + k) % NENV

SchedYield(c, st, rn, cur, pd) ==
    \/ \E k \in 1 .. NENV :
          /\ Eligible(st, cur, Candidate(cur, k))
          /\ \A j \in 1 .. k - 1 : ~Eligible(st, cur, Candidate(cur, j))
          /\ EnvRun(c, st, rn, cur, pd, Candidate(cur, k))
    \/ /\ \A k \in 1 .. NENV : ~Eligible(st, cur, Candidate(cur, k))
       /\ SchedHalt(c, st, rn, cur, pd)

\* The end of trap(): back to curenv if it is still RUNNING.
TrapReturn(c, st, rn) ==
    IF st[curenv[c]] = "RUNNING"
    THEN EnvRun(c, st, rn, curenv[c], cr3[c], curenv[c])
    ELSE SchedYield(c, st, rn, curenv[c], cr3[c])

-----------------------------------------------------------------------------
(* Allocation and release of environments.                                 *)

NextGen(g) == IF g + 1 > MaxGen THEN 1 ELSE g + 1

\* env_free(e) on CPU c.
EnvFree(e) == env_free_list' = <<e>> \o env_free_list

Freed(st, e) == [st EXCEPT ![e] = "FREE"]

\* Mutant: an environment running on another CPU is freed at once.
EnvDestroyNow(c, e) ==
    /\ EnvFree(e)
    /\ IF curenv[c] = e THEN SchedYield(c, Freed(env_status, e), env_runs, NULL, NULL)
                        ELSE TrapReturn(c, Freed(env_status, e), env_runs)

\* Mutant: env_free() does not switch to kern_pgdir first.
EnvDestroyKeepCr3(c, e) ==
    IF env_status[e] = "RUNNING" /\ curenv[c] # e
    THEN /\ TrapReturn(c, [env_status EXCEPT ![e] = "DYING"], env_runs)
         /\ UNCHANGED env_free_list
    ELSE /\ EnvFree(e)
         /\ IF curenv[c] = e THEN SchedYield(c, Freed(env_status, e), env_runs, NULL, cr3[c])
                             ELSE TrapReturn(c, Freed(env_status, e), env_runs)

EnvDestroy(c, e) ==
    IF env_status[e] = "RUNNING" /\ curenv[c] # e
    THEN /\ TrapReturn(c, [env_status EXCEPT ![e] = "DYING"], env_runs)
         /\ UNCHANGED env_free_list
    ELSE /\ EnvFree(e)
         /\ IF curenv[c] = e THEN SchedYield(c, Freed(env_status, e), env_runs, NULL, NULL)
                             ELSE TrapReturn(c, Freed(env_status, e), env_runs)

\* envid2env(): the slot that an envid names on CPU c, or NULL for -E_BAD_ENV.
envid2env(c, id, checkperm) ==
    LET e == id[1] IN
    IF id = NoId THEN curenv[c]
    ELSE IF \/ env_status[e] = "FREE"
            \/ env_id(e) # id
            \/ /\ checkperm
               /\ e # curenv[c]
               /\ env_parent_id[e] # env_id(curenv[c])
         THEN NULL ELSE e

-----------------------------------------------------------------------------
(***************************************************************************)
(* What user programs ask for.  lib/fork.c and lib/spawn.c start a child   *)
(* only once, while it waits NOT_RUNNABLE after sys_exofork(); programs    *)
(* destroy a child at most once (user/spin.c) and none destroys a child    *)
(* that is blocked in sys_ipc_recv().  The kernel enforces none of this; a *)
(* lapse in Lapses drops that part of the discipline.                      *)
(***************************************************************************)
Unstarted(e) == env_status[e] = "NOT_RUNNABLE" /\ ~env_runs[e]

MayStart(e) == "restart" \in Lapses \/ Unstarted(e)

MayDestroy(c, e) ==
    \/ e = curenv[c]
    \/ /\ env_status[e] = "DYING" => "redestroy" \in Lapses
       /\ env_ipc_recving[e] => "killreceiver" \in Lapses

-----------------------------------------------------------------------------
(* Handlers of a trap from user mode, run with the lock held.              *)

\* Mutant: trap() does not look for ENV_DYING.
HandlerNoDyingCheck(c) == pc[c] = "kernel"

Handler(c) == pc[c] = "kernel" /\ env_status[curenv[c]] # "DYING"

\* trap() finds that another CPU destroyed curenv.
FreeDying(c) ==
    /\ pc[c] = "kernel"
    /\ env_status[curenv[c]] = "DYING"
    /\ EnvFree(curenv[c])
    /\ SchedYield(c, Freed(env_status, curenv[c]), env_runs, NULL, NULL)
    /\ UNCHANGED <<idVars, env_ipc_recving>>

\* Traps and system calls that leave the environments alone: keyboard and
\* serial interrupts, a page fault passed to an upcall, calls that fail.
OtherTrap(c) ==
    /\ Handler(c)
    /\ TrapReturn(c, env_status, env_runs)
    /\ UNCHANGED <<idVars, env_ipc_recving, env_free_list>>

\* The timer interrupt and sys_yield().
Preempt(c) ==
    /\ Handler(c)
    /\ SchedYield(c, env_status, env_runs, curenv[c], cr3[c])
    /\ UNCHANGED <<idVars, env_ipc_recving, env_free_list>>

\* An unhandled fault, or a bad pointer given to a system call.
Fault(c) ==
    /\ Handler(c)
    /\ EnvDestroy(c, curenv[c])
    /\ UNCHANGED <<idVars, env_ipc_recving>>

sys_env_destroy(c, id) ==
    LET e == envid2env(c, id, TRUE) IN
    /\ Handler(c)
    /\ e # NULL
    /\ MayDestroy(c, e)
    /\ EnvDestroy(c, e)
    /\ UNCHANGED <<idVars, env_ipc_recving>>

\* Mutant: env_alloc() leaves the slot on the free list.
ExoforkNoCommit(c) ==
    LET e == Head(env_free_list) IN
    /\ Handler(c)
    /\ env_free_list # <<>>
    /\ env_gen' = [env_gen EXCEPT ![e] = NextGen(@)]
    /\ env_parent_id' = [env_parent_id EXCEPT ![e] = env_id(curenv[c])]
    /\ TrapReturn(c, [env_status EXCEPT ![e] = "NOT_RUNNABLE"],
                     [env_runs EXCEPT ![e] = FALSE])
    /\ UNCHANGED <<env_free_list, env_ipc_recving>>

sys_exofork(c) ==
    LET e == Head(env_free_list) IN
    /\ Handler(c)
    /\ env_free_list # <<>>
    /\ env_gen' = [env_gen EXCEPT ![e] = NextGen(@)]
    /\ env_parent_id' = [env_parent_id EXCEPT ![e] = env_id(curenv[c])]
    /\ env_free_list' = Tail(env_free_list)
    /\ TrapReturn(c, [env_status EXCEPT ![e] = "NOT_RUNNABLE"],
                     [env_runs EXCEPT ![e] = FALSE])
    /\ UNCHANGED env_ipc_recving

sys_env_set_status(c, id, status) ==
    LET e == envid2env(c, id, TRUE) IN
    /\ Handler(c)
    /\ e # NULL
    /\ MayStart(e)
    /\ TrapReturn(c, [env_status EXCEPT ![e] = status], env_runs)
    /\ UNCHANGED <<idVars, env_ipc_recving, env_free_list>>

\* sys_env_resume() on a child with a snapshot; on the caller itself it
\* leaves the status RUNNING.
sys_env_resume(c, id) ==
    LET e == envid2env(c, id, TRUE) IN
    /\ Handler(c)
    /\ e # NULL
    /\ e # curenv[c] => MayStart(e)
    /\ TrapReturn(c, [env_status EXCEPT ![e] =
                         IF e = curenv[c] THEN "RUNNING" ELSE "RUNNABLE"],
                     env_runs)
    /\ UNCHANGED <<idVars, env_ipc_recving, env_free_list>>

\* sys_env_resume() that cannot insert the first page, for want of a page table,
\* frees e, and curenv keeps naming e when e is the caller.  When a later page
\* cannot be inserted, _savedpages_free() comes to one that is mapped already and
\* page_free() panics: the system stops, and there is no step after that.  How
\* many pages are saved is not modelled, so this outcome is left out.
ResumeFailure(c, id) ==
    LET e == envid2env(c, id, TRUE) IN
    /\ Handler(c)
    /\ e # NULL
    /\ e # curenv[c] => MayStart(e)
    /\ EnvFree(e)
    /\ LET st == Freed(env_status, e) IN
       IF e = curenv[c] THEN SchedYield(c, st, env_runs, e, NULL)
                         ELSE TrapReturn(c, st, env_runs)
    /\ UNCHANGED <<idVars, env_ipc_recving>>

sys_ipc_recv(c) ==
    /\ Handler(c)
    /\ env_ipc_recving' = [env_ipc_recving EXCEPT ![curenv[c]] = TRUE]
    /\ SchedYield(c, [env_status EXCEPT ![curenv[c]] = "NOT_RUNNABLE"],
                  env_runs, curenv[c], cr3[c])
    /\ UNCHANGED <<idVars, env_free_list>>

\* Mutant: env_ipc_recving is not set to 0 to block future sends.
TrySendKeepRecving(c, id) ==
    LET e == envid2env(c, id, FALSE) IN
    /\ Handler(c)
    /\ e # NULL
    /\ env_ipc_recving[e]
    /\ TrapReturn(c, [env_status EXCEPT ![e] = "RUNNABLE"], env_runs)
    /\ UNCHANGED <<idVars, env_ipc_recving, env_free_list>>

sys_ipc_try_send(c, id) ==
    LET e == envid2env(c, id, FALSE) IN
    /\ Handler(c)
    /\ e # NULL
    /\ env_ipc_recving[e]
    /\ env_ipc_recving' = [env_ipc_recving EXCEPT ![e] = FALSE]
    /\ TrapReturn(c, [env_status EXCEPT ![e] = "RUNNABLE"], env_runs)
    /\ UNCHANGED <<idVars, env_free_list>>

-----------------------------------------------------------------------------
(* Steps of a CPU outside the lock, and taking it.                         *)

unlockedVars ==
    <<env_status, env_runs, idVars, env_ipc_recving, env_free_list, curenv>>

\* A user environment traps and trap() spins for the lock.
Trap(c) ==
    /\ pc[c] = "user"
    /\ pc' = [pc EXCEPT ![c] = "trap"]
    /\ UNCHANGED <<unlockedVars, cr3, kernel_lock>>

\* An interrupt ends hlt; trap() sees CPU_HALTED and spins for the lock.
Interrupt(c) ==
    /\ pc[c] = "halted"
    /\ pc' = [pc EXCEPT ![c] = "wake"]
    /\ UNCHANGED <<unlockedVars, cr3, kernel_lock>>

lock_kernel(c) ==
    /\ pc[c] \in {"trap", "wake", "boot"}
    /\ kernel_lock = NULL
    /\ kernel_lock' = c
    /\ pc' = [pc EXCEPT ![c] = IF @ = "trap" THEN "kernel" ELSE "idle"]
    /\ UNCHANGED <<unlockedVars, cr3>>

\* The handler of an interrupt taken while halted, and the sched_yield() at
\* the end of i386_init() and mp_main(): no environment is current.
IdleYield(c) ==
    /\ pc[c] = "idle"
    /\ SchedYield(c, env_status, env_runs, curenv[c], cr3[c])
    /\ UNCHANGED <<idVars, env_ipc_recving, env_free_list>>

\* env_run() after unlock_kernel(): lcr3() and env_pop_tf().
Leave(c) ==
    /\ pc[c] = "leave"
    /\ cr3' = [cr3 EXCEPT ![c] = curenv[c]]
    /\ pc' = [pc EXCEPT ![c] = "user"]
    /\ UNCHANGED <<unlockedVars, kernel_lock>>

\* "No runnable environments in the system!": monitor(NULL) for ever.
Monitor(c) == pc[c] = "monitor" /\ UNCHANGED vars

-----------------------------------------------------------------------------
(* env_init(), ENV_CREATE of the first environments and boot_aps() are      *)
(* done; the boot CPU holds the lock, the others spin for it in mp_main().  *)
Init ==
    /\ env_status = [e \in Envs |-> IF e < NBoot THEN "RUNNABLE" ELSE "FREE"]
    /\ env_runs = [e \in Envs |-> FALSE]
    /\ env_gen = [e \in Envs |-> IF e < NBoot THEN 1 ELSE 0]
    /\ env_parent_id = [e \in Envs |-> NoId]
    /\ env_ipc_recving = [e \in Envs |-> FALSE]
    /\ env_free_list = [i \in 1 .. NENV - NBoot |-> NBoot + i - 1]
    /\ curenv = [c \in CPUs |-> NULL]
    /\ cr3 = [c \in CPUs |-> NULL]
    /\ pc = [c \in CPUs |-> IF c = 0 THEN "idle" ELSE "boot"]
    /\ kernel_lock = 0

UserTrap(c) ==
    \/ FreeDying(c)
    \/ OtherTrap(c)
    \/ Preempt(c)
    \/ Fault(c)
    \/ sys_exofork(c)
    \/ sys_ipc_recv(c)
    \/ \E id \in EnvIds :
          \/ sys_env_destroy(c, id)
          \/ \E status \in {"RUNNABLE", "NOT_RUNNABLE"} :
                sys_env_set_status(c, id, status)
          \/ sys_env_resume(c, id)
          \/ ResumeFailure(c, id)
          \/ sys_ipc_try_send(c, id)

Step(c) ==
    \/ UserTrap(c)
    \/ Trap(c)
    \/ Interrupt(c)
    \/ lock_kernel(c)
    \/ IdleYield(c)
    \/ Leave(c)
    \/ Monitor(c)

Next == \E c \in CPUs : Step(c)

Spec == Init /\ [][Next]_vars

(***************************************************************************)
(* Every CPU keeps executing; the timer of the local APIC interrupts a CPU *)
(* that keeps running user code or sits in hlt.  Nothing is assumed of who *)
(* wins the race for the spin lock (xchg in a loop is not fair).           *)
(***************************************************************************)
FairSpec ==
    /\ Spec
    /\ \A c \in CPUs :
          /\ WF_vars(Trap(c))
          /\ WF_vars(Interrupt(c))
          /\ WF_vars(lock_kernel(c))
          /\ WF_vars(UserTrap(c))
          /\ WF_vars(IdleYield(c))
          /\ WF_vars(Leave(c))
          /\ SF_vars(Preempt(c))

-----------------------------------------------------------------------------
(* Properties.                                                             *)

TypeOK ==
    /\ env_status \in [Envs -> Statuses]
    /\ env_runs \in [Envs -> BOOLEAN]
    /\ env_gen \in [Envs -> 0 .. MaxGen]
    /\ env_parent_id \in [Envs -> EnvIds]
    /\ env_ipc_recving \in [Envs -> BOOLEAN]
    /\ env_free_list \in Seq(Envs)
    /\ curenv \in [CPUs -> Envs \cup {NULL}]
    /\ cr3 \in [CPUs -> Envs \cup {NULL}]
    /\ pc \in [CPUs -> Locations]
    /\ kernel_lock \in CPUs \cup {NULL}

\* Only the holder of the big kernel lock runs kernel code (trap.c takes the
\* lock on two different paths and env_run/sched_halt release it on two).
KernelExclusive ==
    \A c \in CPUs :
        pc[c] \in {"kernel", "idle", "monitor"} <=> kernel_lock = c

\* env_free_list holds every ENV_FREE slot once and nothing else, so
\* env_alloc() never hands out a slot in use and never loses one.
FreeListExact ==
    /\ \A e \in Envs :
          env_status[e] = "FREE" <=>
              \E i \in DOMAIN env_free_list : env_free_list[i] = e
    /\ \A i, j \in DOMAIN env_free_list :
          env_free_list[i] = env_free_list[j] => i = j

\* sched.c: an environment never runs on two CPUs at once.
OneCPU ==
    \A c, d \in CPUs :
        /\ c # d
        /\ pc[c] \in OnEnv
        /\ pc[d] \in OnEnv
        => curenv[c] # curenv[d]

\* A CPU bound to an environment finds it RUNNING, or DYING once another CPU
\* destroyed it: its slot is never freed or rescheduled under it, although
\* env_run() uses the slot after unlock_kernel().
BoundIsRunning ==
    \A c \in CPUs :
        pc[c] \in OnEnv =>
            /\ curenv[c] # NULL
            /\ env_status[curenv[c]] \in {"RUNNING", "DYING"}

\* A RUNNING or DYING environment is on some CPU: none is lost, and a
\* DYING one has a CPU whose next trap frees it.
RunningIsBound ==
    \A e \in Envs :
        env_status[e] \in {"RUNNING", "DYING"} =>
            \E c \in CPUs : pc[c] \in OnEnv /\ curenv[c] = e

\* An environment is RUNNING, or DYING once another CPU destroyed it, exactly as
\* long as a CPU is bound to it (both directions of the above).
RunningExact == BoundIsRunning /\ RunningIsBound

\* sys_ipc_try_send() succeeds only on an environment that is blocked in
\* sys_ipc_recv(): making it RUNNABLE then cannot start it twice.
RecvingIsBlocked ==
    \A e \in Envs :
        env_ipc_recving[e] /\ env_status[e] # "FREE" =>
            env_status[e] = "NOT_RUNNABLE"

\* Outside the window of env_run() between unlock_kernel() and lcr3(), a CPU
\* has the kernel's page directory or that of its curenv loaded, never a
\* freed one.
Cr3Current ==
    \A c \in CPUs :
        pc[c] # "leave" /\ cr3[c] # NULL =>
            cr3[c] = curenv[c] /\ env_status[cr3[c]] # "FREE"

\* No CPU has a freed page directory loaded ("just in case the page gets
\* reused", env_free).
Cr3Live == \A c \in CPUs : cr3[c] # NULL => env_status[cr3[c]] # "FREE"

\* A DYING environment can only become free: it never runs again.
DyingOnlyFreed ==
    [][\A e \in Envs : env_status[e] = "DYING"
                          => env_status'[e] \in {"DYING", "FREE"}]_vars

\* Round robin: every runnable environment is eventually scheduled.
RunnableRuns ==
    \A e \in Envs : env_status[e] = "RUNNABLE" ~> env_status[e] # "RUNNABLE"

\* Round robin in a system where environments exit only finitely often: each
\* exit makes sched_yield() start its search at slot 0 again.
RunnableRunsOnceStable ==
    <>[][Len(env_free_list') <= Len(env_free_list)]_vars => RunnableRuns
=============================================================================
